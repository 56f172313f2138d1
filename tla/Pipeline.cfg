SPECIFICATION PipelineFairSpec
CHECK_DEADLOCK FALSE
CONSTANTS
  Session = {s1, s2}
  Result = {r1, r2}
  NoRow = NoRow
  Uploaders = {u1}
  InitialBackoff = 1
  MaxBackoff = 1
  MaxTime = 1
  MaxAttempts = 1
  MaxTrouble = 1
  ClockMayStepBack = TRUE
  NoSession = NoSession
  MaxStops = 2
INVARIANTS PipelineTypeOK EveryRecordingAccounted VideoGoneBeforeSending NeverAnalysedTwice ProcessorNeverConflicts
PROPERTIES QueueUsedAsAssumed StorageUsedAsAssumed RecordingSettles
