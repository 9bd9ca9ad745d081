\* A window shorter than the context: a serial request after a group grows.
SPECIFICATION ServeSpec
CONSTANTS
  Junk = Junk
  LayerCounts = {2}
  Capacity = 4
  InitialPositions = 1
  Tokens = {0, 1, 2, 3, 4}
  MaxBatch = 2
  Window = 2
  Prompts = {1, 2}
  MaxTokens = {2, 9}
PROPERTIES ServedLog
