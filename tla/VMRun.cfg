\* Two attempts of a run with every vendor, region and fault.
SPECIFICATION FairSpec
CHECK_DEADLOCK FALSE
CONSTANTS
  r1 = r1
  r2 = r2
  Regions = {r1, r2}
  Endpoint = Endpoint
  Plans <- MCPlans
  MaxAttempts = 2
  Faults = {"create", "terminate", "status", "db", "crash", "cloud"}
INVARIANTS
  GoneIsTrue
  RowLeadsToVM
  StrayVMIsListed
PROPERTIES
  VMEndIsSeen
