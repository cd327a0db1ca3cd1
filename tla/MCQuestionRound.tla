--------------------------- MODULE MCQuestionRound ---------------------------
(* QuestionRound for TLC: the handler runs are interchangeable. *)
EXTENDS QuestionRound, TLC

Symmetry == Permutations(Subs) \cup Permutations(Ctls) \cup Permutations(Phones)
=============================================================================
