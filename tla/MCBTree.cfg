SPECIFICATION FairSpec
CONSTANTS
  UserKey = {1, 2}
  KeyLen = 2018
  ValLens = {0, 1000}
  MaxTxn = 2
  MaxOps = 2
  MaxPages = 10
  MaxFail = 1
  MaxCrash = 1
INVARIANTS
  TypeOK PagesLaidOut RoutingSound NothingDestroyed Findable
  RollbackErases OneWriterPerKey LatestFound
PROPERTIES UpsertReturns
CHECK_DEADLOCK FALSE
