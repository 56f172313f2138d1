SPECIFICATION LicensedBusFairSpec
CONSTANTS
  Door = {d1}
  Watched = {d1}
  StaleTimeout = 2
  LivenessTimeout = 3
  ReconnectDelay = 1
  Heartbeat = 1
  Limit = 2
  LocalLimit = 1
  MaxAge = 0
  MaxStops = 0
  MaxFrames = 1
PROPERTY LicenceErrorKeepsRecording
