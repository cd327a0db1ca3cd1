------------------------------- MODULE MCLobby -------------------------------
(* Lobby for TLC: the runs and the phones are interchangeable, the controllers *)
(* are registered under one name.                                              *)
EXTENDS Lobby, TLC

RunSymmetry   == Permutations(Runs)
PhoneSymmetry == Permutations(Phones)

MCBoxName == [b \in Boxes |-> CHOOSE n \in Names : TRUE]

\* Every phone connects once, twice; one comes back and the others do not.
Once    == [t \in Phones |-> 1]
Twice   == [t \in Phones |-> 2]
OneBack == [t \in Phones |-> IF t = CHOOSE u \in Phones : TRUE THEN 2 ELSE 1]
=============================================================================
