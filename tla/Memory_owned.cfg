SPECIFICATION MemorySpec
CONSTANTS
  MaxPlaces = 8
  Shapes <- MCShapes
  Capacity = 3
  Positions = {1, 2}
  MaxCalls = 3
  Patches <- MCPatches
  MaxPatches = 3
  Graphs <- MCGraphs
  MaxRuns = 3
INVARIANT OwnedIsAllocated
CHECK_DEADLOCK FALSE
