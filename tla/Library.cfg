SPECIFICATION FairSpec
CONSTANTS
  PE <- MCPE
  Thread <- MCThread
  Plans <- MCPlans
  ProgressAll = TRUE
  ProgressPEs = {3}
  SpillBlock = 1
  MaxCreates <- MCCreates
  MaxPuts <- MCPuts
  NodeSize = 2
  MaxSplits = 3
  Garbage = {0, 3}
INVARIANTS
  OneOwner
  ReachesTheLiving
  NothingLeft
  TranslationSound
PROPERTY EveryoneEnds
