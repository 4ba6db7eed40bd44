SPECIFICATION Spec
CONSTANTS
  Threads <- MCThreads
  NoThread <- MCNoThread
  MaxEngines <- MCMaxEngines
CHECK_DEADLOCK FALSE
INVARIANTS
  CallsCounted
  FreedUnused
  NoLostSignal
PROPERTIES
  DestroyReturns
