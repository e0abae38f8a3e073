SPECIFICATION MCSpec
CONSTANTS
  Hosted = {h1, h2}
  Joined = {j1}
  MaxSessions = 4
  MaxStarts = 2
  MaxChanges = 1
  Coordinators = {c1, c2}
  Chat = c1
  MaxProbes = 2
  MaxEvents = 3
  MaxMisses = 1
CHECK_DEADLOCK FALSE
INVARIANTS
  OneLivePerRoom
  RemovedIsRemembered
PROPERTIES
  FresherEvidenceStands
  ReachabilitySettles
