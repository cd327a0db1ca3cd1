----------------------------- MODULE MCSignUp ------------------------------
EXTENDS SignUp
=============================================================================
