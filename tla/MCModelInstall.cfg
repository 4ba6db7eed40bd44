SPECIFICATION Spec
CONSTANTS
  t1 = t1
  t2 = t2
  p1 = p1
  p2 = p2
  NoThread = NoThread
  Threads <- MCThreads
  Processes <- MCProcesses
  ModelFileList <- MCModelFileList
  MaxVersion <- MCMaxVersion
  MaxUpgrades <- MCMaxUpgrades
  MaxCalls <- MCMaxCalls
  MaxFaults <- MCMaxFaults
SYMMETRY MCSymmetry
CHECK_DEADLOCK FALSE
INVARIANTS
  LoadedIsVerified
  AloneSucceeds
  OldSetsPruned
