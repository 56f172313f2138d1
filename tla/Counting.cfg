SPECIFICATION CountingSpec
CHECK_DEADLOCK FALSE
CONSTANTS
  Streams = 2
  Stride = 2
  Buffer = 2
  MaxLength = 5
  Track = {t1, t2, t3}
INVARIANTS LostTrackGoesOnOnce
PROPERTIES AnalysisIsSequential CountNeedsConfirmation
