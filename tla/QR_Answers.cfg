SPECIFICATION Spec
CONSTANTS
  Phones = {p1, p2}
  Boxes = {}
  NQ = 2
  Slides = {}
  Texts = {0}
  Ranges = {}
  Hidden = {}
  Points = {0, 1}
  Subs = {s1, s2, s3}
  Ctls = {c1}
  LiveNumbers = {}
  Nobody = Nobody
SYMMETRY Symmetry
INVARIANTS ListsHoldScoredAnswers LostOnlyByOverlap AnsweredStaysAnswered ScoresMatchLists LastAnswerAnnounced
CHECK_DEADLOCK FALSE
