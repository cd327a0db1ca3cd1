CONSTANTS
  Nothing = Nothing
  Quizzes = {q1, q2}
  First = {q1}
  Images = {i1}
  Users = {u1}
  Edits = {e1}
  Runs = {r1, r2, r3}
  MaxRestarts = 1
SPECIFICATION Spec
INVARIANTS TypeOK  LikesMatchRatings  
SYMMETRY AnyRun
CHECK_DEADLOCK FALSE
