SPECIFICATION MCSpec
CONSTANTS
  Default = Default
  Names = {Default, named}
  MaxKeys = 2
  MaxEdits = 2
  MaxFailures = 1
  MaxReloads = 1
  Calls = {p1}
  Subs = {s1}
  MaxAttempts = 2
CHECK_DEADLOCK FALSE
INVARIANTS
  RestartIsFlagged
  ClosedIsClosed
PROPERTIES
  FailedSetupKeepsNoKey
  PublishSettles
