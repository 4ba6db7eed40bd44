CONSTANTS
  WideLanes = 4
  NarrowLanes = 2
  Tile4 = 2
  Tile8 = 4
  Wrap = 256
  Convs <- MCConvs
  Levels = {"scalar", "sse2", "avx2", "neon", "lsx"}
  ThreadCounts = {1, 2, 3}
  MinMultiplyAdds = 40
  LargePlane = 15
SPECIFICATION NodeSpec
INVARIANTS
  NodeExact
  ChannelHasOneWorker
