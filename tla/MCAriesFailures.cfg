SPECIFICATION FairSpec
CONSTANTS
  Page = {p}
  Op = {"insert", "delete"}
  Failure = {"process", "power", "torn"}
  MaxTxn = 1
  MaxOps = 1
  MaxCkpt = 1
  MaxCrash = 3
INVARIANTS UndoErases
PROPERTIES CommittedNeverUndone RecoveryTerminates
CHECK_DEADLOCK FALSE
