SPECIFICATION Spec
CONSTANTS
  Phones = {p1, p2}
  Hosts = {h1}
  Remotes = {}
  Reused = {}
  FirstHost = h1
  Boxes = {}
  BoxName <- MCBoxName
  Names = {n1}
  Runs = {r1, r2}
  Kicks = {k1}
  Conns <- OneBack
  NoName = NoName
  NoSid = NoSid
  NoPage = NoPage
SYMMETRY RunSymmetry
INVARIANTS TypeOK OneEntryPerName SeatIsListed StartHeard CanAnswer
CHECK_DEADLOCK FALSE
