CONSTANTS
  Nothing = Nothing
  Runs = {r1, r2, r3}
  AtOnce = 2
SPECIFICATION FairSpec
INVARIANTS TypeOK PasswordKept PasswordFresh
PROPERTIES VerifiedStays DeletedAccountFades DeletedKeyFades
CHECK_DEADLOCK FALSE
