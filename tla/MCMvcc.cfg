SPECIFICATION FairSpec
CONSTANTS
  Key = {1}
  Val = {v}
  MaxTxn = 2
  MaxOps = 2
  MaxFail = 1
INVARIANTS FirstUpdaterWins StatusAgrees RolledBackDataErased
PROPERTIES VacuumContract ReadsRepeat ImplementsStore RollbackCompletes FinishedArePruned
CHECK_DEADLOCK FALSE
