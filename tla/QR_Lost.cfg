SPECIFICATION Spec
CONSTANTS
  Phones = {p1, p2}
  Boxes = {}
  NQ = 1
  Slides = {}
  Texts = {}
  Ranges = {}
  Hidden = {}
  Points = {0}
  Subs = {s1, s2}
  Ctls = {c1}
  LiveNumbers = {}
  Nobody = Nobody
SYMMETRY Symmetry
INVARIANTS EveryAnswerListed
CHECK_DEADLOCK FALSE
