\* Five programs over one cache: a conversation, every call in any order, the
\* server, and the image and sound compositions.
SPECIFICATION HostsSpec
CONSTANTS
  Junk = Junk
  LayerCounts = {1, 2}
  Capacity = 6
  InitialPositions = 1
  Tokens = {0, 1, 2, 3, 4}
  MaxBatch = 2
  Window = 4
  Prompts = {1, 3, 4}
  MaxTokens = {2, 9}
  Sides = {1, 2}
  Lengths = {1, 2}
  Windows = {1, 2}
INVARIANTS RopeCoversCache CompositionInPlace
PROPERTIES ForwardStaysInside ImplementsLog GroupFitsItsReservation RefusedOnlyPastContext
