CONSTANTS
  BlockWeights = 2
  AttentionRows = 2
  HeadBatch = 2
  FlashBlock = 2
  FlashSplit = 2
  RowsPerWalk = 2
  Grain = 1
  TileSide = 4
  TileStep = 2
  QuantRows = 2
  RowThreshold = 3
  DecodeSplit = 2
  CubeChunk = 2
  Jobs <- OddGroups
SPECIFICATION KernelSpec
INVARIANT Delivers
CHECK_DEADLOCK FALSE
