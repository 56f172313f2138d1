SPECIFICATION UploaderSpec
CHECK_DEADLOCK FALSE
CONSTANTS
  Session = {s1, s2}
  Result = {r1}
  NoRow = NoRow
  Uploaders = {u1}
  InitialBackoff = 1
  MaxBackoff = 2
  MaxTime = 3
  MaxAttempts = 3
  MaxTrouble = 2
  ClockMayStepBack = TRUE
  NoSession = NoSession
INVARIANTS NothingLost PreparedIsUnsent RepeatOnlyAfterTrouble UploaderNeverErrs WaitIsBounded
PROPERTIES DeadLetterIsKept
