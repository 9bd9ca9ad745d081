\* A stream that leaves its worker inside the vendor call.
SPECIFICATION MCLeavingSpec
CONSTANTS
  c1 = c1  s1 = s1  s2 = s2
  Closer = Closer  None = None
  Callers <- MCCallers
  Streamers <- MCStreamers
  MaxPieces = 2
INVARIANTS AnswersAreOwn
