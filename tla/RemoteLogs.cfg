SPECIFICATION FairSpec
CHECK_DEADLOCK FALSE
CONSTANTS
  e1 = e1
  e2 = e2
  Events = {e1}
  Text = Text
  Partial = Partial
  Own = Own
  MaxPieces = 2
  MaxAttempts = 2
INVARIANTS
  EventsArriveOnce
  FollowerPrintsAll
PROPERTIES
  LogIsMirrored
  FollowerEnds
  JobEndIsSeen
