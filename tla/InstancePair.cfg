\* Two instances, an operator whose commands stop at the first error; no
\* launch or terminate request is refused.
SPECIFICATION Spec
CHECK_DEADLOCK FALSE
CONSTANTS
  i1 = i1
  i2 = i2
  op1 = op1
  op2 = op2
  Instances = {i1, i2}
  Operators = {op1}
  Configs <- MCDefault
  MaxCancels = 0
  Faults = {"status", "db", "crash", "cloud"}
SYMMETRY MCInstanceSymmetry
INVARIANTS
  SurvivorIsListed
