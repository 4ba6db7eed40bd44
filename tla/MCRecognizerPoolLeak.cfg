SPECIFICATION Spec
CONSTANTS
  WorkerCount <- MCWorkerCount
  Buckets <- MCBuckets
  MaxWidth <- MCMaxWidth
  LineWidths <- MCLineWidths
CHECK_DEADLOCK FALSE
INVARIANT ConstantsReleased
