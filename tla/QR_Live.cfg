SPECIFICATION FairSpec
CONSTANTS
  Phones = {p1}
  Boxes = {b1}
  NQ = 1
  Slides = {}
  Texts = {}
  Ranges = {}
  Hidden = {}
  Points = {0, 1}
  Subs = {s1, s2, s3}
  Ctls = {c1}
  LiveNumbers = {}
  Nobody = Nobody
PROPERTIES EveryRunEnds EveryoneAnsweredIsTold ImplementsBook
CHECK_DEADLOCK FALSE
