\* One job with two log entries and every fault.
SPECIFICATION FairSpec
CHECK_DEADLOCK FALSE
CONSTANTS
  MaxAttempts = 1
  MaxEntries = 2
  Kinds = {"checkpoint", "blank"}
  Faults <- AllFaults
INVARIANTS
  RowsAreTrue
  NoJobIsAbandoned
  LiveJobIsListed
  CanceledJobIsAsked
  EntriesOnceInOrder
  SuccessIsDrained
PROPERTIES
  JobEndReturns
  RowsConverge
