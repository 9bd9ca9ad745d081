\* Two callers, two workers: the frame outlives the body, nobody is two
\* behind, the pool implements ParallelFor and everybody gets out.  And every
\* op: no two lanes write one address, each gets its terms, none is outside.
SPECIFICATION MCSpec
CONSTANTS
  c1 = c1  c2 = c2  w1 = w1  w2 = w2
  None = None
  Callers <- MCCallers
  Workers <- MCWorkers
  Shapes <- MCShapes
  MaxCalls = 2
  BlockWeights = 2
  AttentionRows = 2
  HeadBatch = 2
  FlashBlock = 2
  FlashSplit = 2
  RowsPerWalk = 2
  Grain = 1
  TileSide = 4
  TileStep = 2
  QuantRows = 2
  RowThreshold = 3
  DecodeSplit = 2
  CubeChunk = 2
  Jobs <- Calls
INVARIANTS FrameOutlivesBody Inv NoTwoWrite Delivers StaysInside
PROPERTIES ImplementsParallelFor EveryoneReturns
