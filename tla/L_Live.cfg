SPECIFICATION FairSpec
CONSTANTS
  Phones = {p1}
  Hosts = {h1}
  Remotes = {}
  Reused = {}
  FirstHost = h1
  Boxes = {}
  BoxName <- MCBoxName
  Names = {n1}
  Runs = {r1, r2}
  Kicks = {}
  Conns <- Twice
  NoName = NoName
  NoSid = NoSid
  NoPage = NoPage
PROPERTIES AcceptedGetsIn
CHECK_DEADLOCK FALSE
