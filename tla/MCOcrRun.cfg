SPECIFICATION Spec
CONSTANTS
  WorkerCount <- MCWorkerCount
  MaxLines <- MCMaxLines
  TextCapacity <- MCTextCapacity
  Images <- MCImages
  Capacities <- MCCapacities
  StartWidth <- MCStartWidth
INVARIANTS
  TypeOK
  EachLineOnce
  WorkersContained
  SlotsIntact
PROPERTIES
  ImplementsOcrService
