SPECIFICATION Spec
CONSTANTS
  Page = {p, q}
  Op = {"insert", "delete"}
  Failure = {"process"}
  MaxTxn = 1
  MaxOps = 2
  MaxCkpt = 1
  MaxCrash = 2
INVARIANTS CommittedKept UndoErases CompensatedOnce
SYMMETRY Symmetry
CHECK_DEADLOCK FALSE
