SPECIFICATION FairSpec
CONSTANTS
  SettleMS = 1
  StepMS = 1
  FaultSets <- MCFaultSets
  Devices = {"keyboard", "other"}
  Reports = {"k"}
INVARIANTS ConnectedTrue  
 
