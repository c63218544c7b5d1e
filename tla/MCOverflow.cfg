SPECIFICATION FairSpec
CONSTANTS
  Lens = {1024, 8120}
  MaxTxn = 2
  MaxWrites = 3
  MaxPages = 6
  MaxFail = 1
  MaxReads = 1
  MaxSweeps = 2
  MaxEvents = 3
INVARIANTS TypeOK OneUse ChainsWhole ReadIntact
PROPERTIES CallsReturn
CHECK_DEADLOCK FALSE
