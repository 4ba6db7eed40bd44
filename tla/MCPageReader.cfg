CONSTANTS
  BitmapThreshold = 3
  BoxThreshold = 6
  RatioOver = 8
  RatioUnder = 5
  MaxCandidates = 2
  Images <- MCImages
  ImageLimit <- MCImageLimit
  FirstSize <- MCFirstSize
  Capacities = {0, 1, 4}
  IntraThreads = {0, 2}
  LabelLengths <- MCLabelLengths
  Lanes = 4
  ColumnTile = 2
  MinPackedInner = 2
  MinPackedColumns = 5
  LineLevels = {"scalar", "sse2", "avx2"}
  Graphs <- MCGraphs
  Lines <- MCLines
  Spoilings <- MCSpoilings
  TextCapacities = {0, 1, 4, 6, 7, 12, 13, 14}
  MaxSteps = 4
SPECIFICATION Spec
INVARIANTS
  DetectorCoherent
  BoxesAreRegions
  RectanglesAreSmallest
  OrderSettled
  PathsAgree
  BufferSafe
