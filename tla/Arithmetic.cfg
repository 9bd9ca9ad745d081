CONSTANTS
  DotSizes = {0, 4, 6, 8, 11}
  TileRows = 4
  Unit = 8
  HalfCalls <- Halves
  BlockCalls <- Blocks
  SampleCalls <- Samples
  ImageCalls <- Images
  GridCalls <- Grids
  ClipCalls <- Clips
  TransformCalls <- Transforms
  ConvCalls <- Convs
  SplitCalls <- Splits
  MergeCalls <- Merges
  TextCalls <- Texts
  Tokens <- MCTokens
  Stops <- OneStop
  Mode = "thinking"
  CapMin = 20
  CapPer = 1
  Budget = 5
  Stall = 2
  HardCap = 4
  MaxBytes = 3
SPECIFICATION MCSpec
INVARIANT MeetsItsOwn
INVARIANT OneOrder
INVARIANT NumbersWithin
INVARIANT SamplesLikeReference
INVARIANT PicturesInPlace
INVARIANT SoundsCovered
INVARIANT WordsLikeReference
INVARIANT TextComesBack
INVARIANT NotMangled
INVARIANT AnswerIsResult
INVARIANT Transparent
INVARIANT OutcomeIsTrue
PROPERTY TextOnlyGrows
PROPERTY WatchEnds
