SPECIFICATION Spec
CONSTANTS
  Images <- MCImages
  ByteLength <- MCByteLength
  ReadingOrders <- MCReadingOrders
  DefaultOrder <- MCDefaultOrder
  MaxCalls <- MCMaxCalls
  MaxErrors <- MCMaxErrors
CHECK_DEADLOCK FALSE
INVARIANTS
  AnswersItsOwnCall
  DestroyedIsFinal
PROPERTY
  EveryCallSettles
