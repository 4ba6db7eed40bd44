SPECIFICATION PlannerSpec
CONSTANTS
  GraphSet <- MCGraphSet
  Limits <- MCLimits
  Alignment <- MCAlignment
  MaxWord <- MCMaxWord
CHECK_DEADLOCK FALSE
INVARIANTS
  NoOverlap
  PlanSound
  FreeListSound
  FreeListFits
