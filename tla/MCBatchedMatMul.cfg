SPECIFICATION Spec
CONSTANTS
  MaxBatchRank <- MCMaxBatchRank
  MaxDimension <- MCMaxDimension
CHECK_DEADLOCK FALSE
INVARIANT MatMulBroadcasts
