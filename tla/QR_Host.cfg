SPECIFICATION Spec
CONSTANTS
  Phones = {p1}
  Boxes = {b1}
  NQ = 2
  Slides = {1}
  Texts = {}
  Ranges = {}
  Hidden = {0}
  Points = {0}
  Subs = {s1, s2}
  Ctls = {c1, c2}
  LiveNumbers = {0}
  Nobody = Nobody
SYMMETRY Symmetry
INVARIANTS TypeOK BlobFollowsHost 
CHECK_DEADLOCK FALSE
