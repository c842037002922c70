\* The scoring loop: early termination against full scoring.
CONSTANTS
  Positions <- MCScoringPositions
  Plans <- MCScoringPlans
  FrameOffset = 1
  LateTfCanFail = FALSE
  DistThreshold = 3
  PruneDistance = 2
  PrunePlan = TRUE
  NumTwists = 3
  NumCritics = 3
  CriticScale <- MCCriticScale
  RawScores = {0, 1, 2}
  GoalTolerance = 1
SPECIFICATION Spec
INVARIANT SelectionMatchesFullScoring
INVARIANT SelectionInv
