CONSTANTS
  Nothing = Nothing
  i1 = i1
  i2 = i2
  Items = {i1, i2}
  Size <- Sizes
  Limit = 1
  Runs = {r1, r2}
  MaxCrashes = 1
SPECIFICATION FairSpec
INVARIANTS ServedIsStored UsedIsSum 
PROPERTY HandedOverIsHashed
CHECK_DEADLOCK FALSE
