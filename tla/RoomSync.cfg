\* Two guests join and members write; calls and saves fail and the host's page dies.
CONSTANTS
  Guests = {g1, g2}
  Host = h
  Crashing = {h}
  MaxWriters = 2
  MaxSends = 1
  MaxFaults = 2
SYMMETRY Symmetry
SPECIFICATION MCSpec
INVARIANT EveryoneFollowsHost
CHECK_DEADLOCK FALSE
