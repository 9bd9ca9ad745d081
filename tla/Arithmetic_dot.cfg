CONSTANTS
  DotSizes = {6, 8}
  TileRows = 4
  Unit = 8
  HalfCalls = {}
  BlockCalls = {}
  SampleCalls = {}
  ImageCalls = {}
  GridCalls = {}
  ClipCalls = {}
  TransformCalls = {}
  ConvCalls = {}
  SplitCalls = {}
  MergeCalls = {}
  TextCalls = {}
  Tokens = {}
  Stops <- OneStop
  Mode = "thinking"
  CapMin = 20
  CapPer = 1
  Budget = 5
  Stall = 2
  HardCap = 4
  MaxBytes = 3
SPECIFICATION DotsSpec
INVARIANT SwitchKeepsBytes
CHECK_DEADLOCK FALSE
