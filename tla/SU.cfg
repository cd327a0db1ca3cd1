CONSTANTS
  Mails = {m1, m2, m3}
  Bases = {max}
  Runs = {r1, r2, r3}
  MaxCounter = 3
  SkipMail = TRUE
SPECIFICATION FairSpec
INVARIANT CreatedGetsIn
PROPERTY VisitEnds
CHECK_DEADLOCK FALSE
