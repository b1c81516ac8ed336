SPECIFICATION Spec
CONSTANTS
  trainer = trainer
  resumer1 = resumer1
  resumer2 = resumer2
  canceler1 = canceler1
  canceler2 = canceler2
  local = local
  lambda = lambda
  gcp = gcp
  file = file
  gs = gs
  AutoRoute = AutoRoute
  NoProvider = NoProvider
  Trainer = trainer
  Resumers = {}
  Cancelers = {canceler1}
  Providers = {local, gcp}
  Schemes = {file, gs}
  Reads <- MCReads2
  Steps = {1}
  OutcomeCodes = {0, 1}
  RoutingMaxAttempts = 2
  MaxEvents = 1
  Overlap = TRUE
  Faults = {}
INVARIANTS
  CancelIsFinal
CHECK_DEADLOCK FALSE
