SPECIFICATION GateSpec
CONSTANTS
  Door = {d1, d2}
  Watched = {d1, d2}
  Heartbeat = 1
  StaleTimeout = 2
  LivenessTimeout = 3
  ReconnectDelay = 1
  Limit = 2
  LocalLimit = 1
  MaxAge = 6
  MaxStops = 1
  DoorStateTTL = 1
INVARIANT AdmissionIsCurrent
SYMMETRY DoorSymmetry
