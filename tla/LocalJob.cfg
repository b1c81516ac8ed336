\* Four lines of every kind, pipes that hold one line.
SPECIFICATION FairSpec
CHECK_DEADLOCK FALSE
CONSTANTS
  Kinds = {"text", "event", "long"}
  MaxLines = 4
  Capacity = 1
INVARIANTS
  EventsFollowLog
  FetchedIsLogged
PROPERTIES
  StreamsAreMirrored
  SubmitReturns
