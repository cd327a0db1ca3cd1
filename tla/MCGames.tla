------------------------------ MODULE MCGames -------------------------------
EXTENDS Games, TLC
AnyGame == Permutations(Games) \cup Permutations(Users)
=============================================================================
