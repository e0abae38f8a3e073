SPECIFICATION ViewSpec
CONSTANTS
  Online = {o1}
  Messages = {m1}
  Requests = {g1}
  Invitations = {i1}
  MaxHistory = 2
  Alice = {a1, a2}
  Bob = {b1}
  OfAlice = {}
  OfBob = {m1}
  MaxClicks = 2
  MaxMishaps = 1
  Ahead = 2
SYMMETRY AliceHasAlikeDevices
CHECK_DEADLOCK FALSE
INVARIANTS
  NewestAreKept
  ShownIsWanted
  LastReactionIsShown
  UnreadIsWhatCame
