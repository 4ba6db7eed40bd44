SPECIFICATION Spec
CONSTANTS
  MaxWorkers <- MCMaxWorkers
  MaxRuns <- MCMaxRuns
INVARIANTS
  TypeOK
  NoLostWakeup
  CallbackInsideRun
  PendingExact
  NoThreadAfterFree
PROPERTIES
  EveryCallReturns
  ImplementsParallelFor
