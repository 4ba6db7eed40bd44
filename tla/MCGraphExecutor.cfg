SPECIFICATION Spec
CONSTANTS
  GraphSet <- MCGraphSet
  Limits <- MCLimits
  Alignment <- MCAlignment
  MaxWord <- MCMaxWord
  Lanes <- MCLanes
CHECK_DEADLOCK FALSE
INVARIANTS
  ResultExact
  FusedWriteSafe
