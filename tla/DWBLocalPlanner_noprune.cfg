\* The plan window: transformGlobalPlan, prune and the local goal.
CONSTANTS
  Positions <- MCPositions
  Plans <- MCPlans
  FrameOffset = 1
  LateTfCanFail = FALSE
  DistThreshold = 4
  PruneDistance = 2
  PrunePlan = FALSE
  NumTwists = 1
  NumCritics = 1
  CriticScale <- MCOneCritic
  RawScores = {0}
  GoalTolerance = 1
SPECIFICATION Spec
INVARIANT NoSpuriousEmptyWindow
