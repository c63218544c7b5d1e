SPECIFICATION ServerFairSpec
CONSTANTS
  Key = {1}
  Val = {v}
  Client = {c1, c2}
  MaxTxn = 2
  MaxOps = 1
  MaxFail = 1
INVARIANTS SessionInLiveTxn OrphansHoldNoKey
PROPERTIES DisconnectReleases
CHECK_DEADLOCK FALSE
