SPECIFICATION Spec
CONSTANTS
  Phones = {p1, p2}
  Hosts = {h1}
  Remotes = {m1}
  Reused = {}
  FirstHost = NoPage
  Boxes = {b1}
  BoxName <- MCBoxName
  Names = {n1, n2}
  Runs = {r1}
  Kicks = {k1}
  Conns <- Once
  NoName = NoName
  NoSid = NoSid
  NoPage = NoPage
SYMMETRY PhoneSymmetry
INVARIANTS KickHitsNamed
CHECK_DEADLOCK FALSE
