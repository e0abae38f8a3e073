\* A post moves the cursor past records of others.
CONSTANTS
  Guests = {g1, g2}
  Host = h
  Crashing = {}
  MaxWriters = 3
  MaxSends = 1
  MaxFaults = 0
SPECIFICATION Spec
INVARIANT PulledInOrder
CHECK_DEADLOCK FALSE
