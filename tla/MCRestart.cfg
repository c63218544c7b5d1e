SPECIFICATION FairSpec
CONSTANTS
  MaxTxn = 1
  MaxCrash = 2
  MaxFail = 1
INVARIANTS TypeOK AckedInLog AckedKnown LSNIsOffset RootKnown
PROPERTIES StartEnds
CHECK_DEADLOCK FALSE
