SPECIFICATION Spec
CONSTANTS
  trainer = trainer
  resumer1 = resumer1
  resumer2 = resumer2
  canceler1 = canceler1
  canceler2 = canceler2
  local = local
  lambda = lambda
  gcp = gcp
  file = file
  gs = gs
  AutoRoute = AutoRoute
  NoProvider = NoProvider
  Trainer = trainer
  Resumers = {}
  Cancelers = {}
  Providers = {local, lambda, gcp}
  Schemes = {file, gs}
  Reads <- MCReads3
  Steps = {1, 2}
  OutcomeCodes = {0, 1}
  RoutingMaxAttempts = 3
  MaxEvents = 3
  Overlap = TRUE
  Faults = {"crash", "io"}
INVARIANTS
  FailoverMovesOn
  NoProgressLost
  RunningHasOwner
CHECK_DEADLOCK FALSE
