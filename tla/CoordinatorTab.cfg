\* Two tabs of one browser or of two, with web locks or without; two keys and two
\* rooms, with writes that may throw at any change.
CONSTANTS
  Tabs = {t1, t2}
  Browsers = {b1, b2}
  None = None
  MaxStarts = 2
  MaxClock = 2
  LeaseDuration = 2
  FreshTicks = 1
  Groups = {g1, g2}
  MaxRecords = 1
  MaxIdentities = 2
  SavesFail = TRUE
SYMMETRY Symmetry
SPECIFICATION MCSpec
INVARIANTS OnePerBrowser StopWins DeletionSurvives AcknowledgedIsKept
PROPERTY RefusalIsJustified
CHECK_DEADLOCK FALSE
