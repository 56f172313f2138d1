SPECIFICATION FairSpec
CONSTANTS
  Cameras = {cam1}
  Processor = processor
  MaxTime = 2
  MaxStops = 2
  Crashable = {cam1, processor}
  ClockMayStepBack = FALSE
  Absent = Absent
  NoManifest = NoManifest
  NoSession = NoSession
INVARIANTS TypeOK OneHome DurableResultEndsSession NoStorageError
PROPERTIES LifecycleSpec CaptureSettles SessionSettles
