SPECIFICATION MCSpec
CONSTANTS
  Connects = {c1, c2}
  Invites = {i1}
  Replay = 1
  Backdate = 1
  Retention = 1
  Life = 2
  MaxDay = 3
  MaxOverlap = 1
  MaxChoices = 3
  MaxLinks = 2
  MaxScans = 4
CHECK_DEADLOCK FALSE
INVARIANTS
  NotShownForLong
  AnsweredStaysAnswered
  OnlineAreMutuals
  PreviousLinksAreClosed
  WaitingRoomsAsked
  CameraFollowsTheDialog

