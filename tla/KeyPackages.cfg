\* Two devices, two packages, a quota of one or three that a restart may change; two
\* rooms and a guest; two callers with a burst of two.
CONSTANTS
  Devices = {d1, d2}
  MaxPackages = 2
  Quotas = {1, 3}
  MaxTries = 2
  MaxRestarts = 1
  Rooms = {r1, r2}
  Guests = {g1}
  MaxPending = 1
  MaxWelcomes = 2
  MaxRequests = 2
  ReadTtl = 1
  UnreadTtl = 1
  MaxTime = 3
  Askers = {a1, a2, a3}
  MaxCalls = 4
  MaxOthers = 2
  Callers = {c1, c2}
  Parts = 2
  Burst = 2
  Refill = 1
  IdleTtl = 4
  MaxClock = 5
  MaxSetBacks = 1
SYMMETRY Symmetry
SPECIFICATION MCSpec
INVARIANTS HandedOutOnce NoMoreThanTheRate
PROPERTIES RetriedRequestIsKept AnswerBringsWelcome
CHECK_DEADLOCK FALSE
