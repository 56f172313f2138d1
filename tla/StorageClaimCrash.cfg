SPECIFICATION Spec
CONSTANTS
  Cameras = {cam1}
  Processor = processor
  MaxTime = 1
  MaxStops = 1
  Crashable = {processor}
  ClockMayStepBack = FALSE
  Absent = Absent
  NoManifest = NoManifest
  NoSession = NoSession
INVARIANTS IntactNeverFailed
