------------------------------ MODULE MCFiles -------------------------------
EXTENDS Files, TLC
CONSTANTS i1, i2
Sizes == (i1 :> 1) @@ (i2 :> 2)
=============================================================================
