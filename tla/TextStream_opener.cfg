\* A model that thinks, and one stop sequence; the decode buffer suffices.
\* An opener whose two halves come in two tokens.
SPECIFICATION Spec
CONSTANTS
  Tokens <- MCTokens
  Stops <- OneStop
  Mode = "thinking"
  CapMin = 20
  CapPer = 1
  Budget = 3
INVARIANTS OnlyMarkerIsLost
\* The request is over once its result is delivered.
CHECK_DEADLOCK FALSE
