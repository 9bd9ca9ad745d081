\* Two callers, at least one a stream, patient or not, and a close.
SPECIFICATION MCSpec
CONSTANTS
  c1 = c1  s1 = s1  s2 = s2
  Closer = Closer  None = None
  Callers <- MCCallers
  Streamers <- MCStreamers
  MaxPieces = 1
INVARIANTS PatientAnswersAreOwn StdoutPutBack DestroyedAlone
PROPERTIES EveryCallEnds
