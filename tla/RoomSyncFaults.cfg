\* A call is lost or a page dies, and the room goes on.
CONSTANTS
  Guests = {g1}
  Host = h
  Crashing = {g1, h}
  MaxWriters = 2
  MaxSends = 2
  MaxFaults = 1
SPECIFICATION FairSpec
INVARIANT ExactlyOnce
PROPERTY NobodyIsStranded
CHECK_DEADLOCK FALSE
