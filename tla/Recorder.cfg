SPECIFICATION RecorderFairSpec
CONSTANTS
  Door = {d1}
  Watched = {d1}
  Heartbeat = 1
  StaleTimeout = 2
  LivenessTimeout = 3
  ReconnectDelay = 1
  Limit = 2
  LocalLimit = 1
  MaxAge = 0
  MaxStops = 1
  MaxFrames = 2
INVARIANTS EncoderMatchesLifecycle OneCapturePerInterval
PROPERTIES ClosedDoorEndsCapture
