\* Some eight hundred configurations, a market that moves once, three attempts.
SPECIFICATION Spec
CHECK_DEADLOCK FALSE
CONSTANTS
  Rank <- MCRank
  NoHardware = NoHardware
  NoCheckpoint = NoCheckpoint
  NoChoice = NoChoice
  Configs <- MCConfigs
  Markets <- MCMarkets
  Profiles <- MCProfiles
  Resumes <- MCResumes
  Saved <- MCSaved
  MaxMoves = 1
INVARIANTS
  PlanForeseesTrain
  RoutedJobFits
  FirstChoiceIsBest
