\* One stream over two groups; snapshots that may fail to be written, so that posts and
\* deletions half happen; the abstract promise, its progress included.  No symmetry
\* under liveness.
CONSTANTS
  Groups = {g1, g2}
  Streams = {s1}
  MaxMessages = 2
  MaxAfter = 3
  Undefined = Undefined
  PersistFails = TRUE
SPECIFICATION FairSpec
INVARIANTS GapFree RegisteredWhileOpen
PROPERTIES DeletionIsFinal KeepsPromise
CHECK_DEADLOCK FALSE
