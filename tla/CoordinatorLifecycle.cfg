\* Starts, stops, restarts, retries and destroys; no symmetry under liveness.
CONSTANTS
  Rooms = {r1, r2}
  NoRoom = NoRoom
  Calls = {p1, p2}
  MaxGenerations = 6
  MaxAttempts = 3
SPECIFICATION FairSpec
INVARIANTS OneCoordinator StatusTellsTheTruth
PROPERTIES ProgressIsKept CallsSettle
CHECK_DEADLOCK FALSE
