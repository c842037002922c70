\* The window when the lookups after the robot pose's may fail: the goal.
CONSTANTS
  Positions <- MCPositions
  Plans <- MCPlans
  FrameOffset = 1
  LateTfCanFail = TRUE
  DistThreshold = 3
  PruneDistance = 2
  PrunePlan = TRUE
  NumTwists = 1
  NumCritics = 1
  CriticScale <- MCOneCritic
  RawScores = {0}
  GoalTolerance = 1
SPECIFICATION Spec
INVARIANT LocalGoalIsPlanGoal
