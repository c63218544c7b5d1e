SPECIFICATION Spec
CONSTANTS
  UserKey = {1, 2}
  KeyLen = 2018
  ValLens = {0}
  MaxTxn = 3
  MaxOps = 1
  MaxPages = 10
  MaxFail = 0
  MaxCrash = 0
INVARIANTS LatestVersionFound
CHECK_DEADLOCK FALSE
