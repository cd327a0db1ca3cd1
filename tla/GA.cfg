CONSTANTS
  Nothing = Nothing
  Games = {g1, g2}
  Users = {u1, u2}
  Pins = {p1}
  Names = {n1}
  MaxTime = 3
SPECIFICATION Spec
INVARIANTS TypeOK  AnswersHaveScores 
 
SYMMETRY AnyGame
CHECK_DEADLOCK FALSE
