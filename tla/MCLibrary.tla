----------------------------- MODULE MCLibrary -----------------------------
EXTENDS Library, TLC
AnyRun == Permutations(Runs)
=============================================================================
