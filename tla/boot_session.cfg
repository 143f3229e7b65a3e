SPECIFICATION FairSpec
CONSTANTS
  Pages = 2
  SPM_PAGESIZE = 4
  EepromSize = 1
  EpSize = 2
  Sessions <- MCSessions
INVARIANTS CommandOver ReadBack
PROPERTIES MainLoopRuns
