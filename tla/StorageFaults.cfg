SPECIFICATION Spec
CONSTANTS
  Cameras = {cam1, cam2}
  Processor = processor
  MaxTime = 1
  MaxStops = 2
  Crashable = {cam1, cam2, processor}
  ClockMayStepBack = TRUE
  Absent = Absent
  NoManifest = NoManifest
  NoSession = NoSession
INVARIANTS PublishedIsKept
PROPERTIES SoundNeverFailed FailedIsFinal CaptureHasOneOwner
SYMMETRY CameraSymmetry
