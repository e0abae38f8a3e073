\* Two hosted rooms and one joined; one failing write and one death of the page.
CONSTANTS
  HostRooms = {h1, h2}
  GuestRooms = {g1}
  MaxKeys = 2
  MaxFaults = 1
  MaxCrashes = 1
  MaxCalls = 1
SYMMETRY Symmetry
SPECIFICATION Spec
INVARIANTS NeverHalfRetired ReloadKeepsIdentity
CHECK_DEADLOCK FALSE
