----------------------------- MODULE AnswerBook -----------------------------
(***************************************************************************)
(* What the submission handlers promise about scores and answer lists,     *)
(* without their steps: a run takes one answer, adds its points to the     *)
(* player's total once, and then enters it into the list of the question.  *)
(* Entering keeps some of the answers entered before, not always all of    *)
(* them: the stored list is last-writer-wins.                              *)
(***************************************************************************)
EXTENDS Integers

CONSTANTS Runs, Players, Questions, Points, Nobody

VARIABLES
  stage,  \* stage[s]: how far run s has come
  about,  \* about[s]: the player and the question of run s
  book,   \* book[i]: the runs in the list of question i
  total   \* total[p]: the score of player p

bookVars == <<stage, about, book, total>>

Entered == {s \in Runs : stage[s] = "entered"}

BookInit ==
  /\ stage = [s \in Runs |-> "none"]
  /\ about = [s \in Runs |-> <<Nobody, -1>>]
  /\ book = [i \in Questions |-> {}]
  /\ total = [p \in Players |-> 0]

Take(s) ==
  /\ stage[s] = "none"
  /\ stage' = [stage EXCEPT ![s] = "taken"]
  /\ \E p \in Players, i \in Questions : about' = [about EXCEPT ![s] = <<p, i>>]
  /\ UNCHANGED <<book, total>>

\* Refused: a second answer of a controller, or no question was ever shown.
Refuse(s) ==
  /\ stage[s] = "taken"
  /\ stage' = [stage EXCEPT ![s] = "refused"]
  /\ UNCHANGED <<about, book, total>>

Score(s) ==
  /\ stage[s] = "taken"
  /\ stage' = [stage EXCEPT ![s] = "scored"]
  /\ \E x \in Points : total' = [total EXCEPT ![about[s][1]] = @ + x]
  /\ UNCHANGED <<about, book>>

Enter(s) ==
  /\ stage[s] = "scored"
  /\ stage' = [stage EXCEPT ![s] = "entered"]
  /\ \E kept \in SUBSET {r \in Entered : about[r][2] = about[s][2]} :
       book' = [book EXCEPT ![about[s][2]] = kept \cup {s}]
  /\ UNCHANGED <<about, total>>

BookNext == \E s \in Runs : Take(s) \/ Refuse(s) \/ Score(s) \/ Enter(s)

BookSafety == BookInit /\ [][BookNext]_bookVars

\* An answer that was taken is refused or scored, and a scored one is entered.
BookSpec ==
  /\ BookSafety
  /\ \A s \in Runs : WF_bookVars(Refuse(s) \/ Score(s)) /\ WF_bookVars(Enter(s))
=============================================================================
