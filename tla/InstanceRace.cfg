\* One instance, a cancel, an operator who keeps at it, every configuration
\* and fault.
SPECIFICATION FairSpec
CHECK_DEADLOCK FALSE
CONSTANTS
  i1 = i1
  i2 = i2
  op1 = op1
  op2 = op2
  Instances = {i1}
  Operators = {op1}
  Configs <- MCAllConfigs
  MaxCancels = 1
  Faults = {"launch", "terminate", "status", "db", "crash", "cloud"}
INVARIANTS
  TerminatingIsTrue
  RetainedStays
PROPERTIES
  SurvivorIsReclaimed
