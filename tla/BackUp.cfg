\* BackUp facing +x: the collision check before the target, and termination.
CONSTANTS
  Commands <- MCCommands
  Starts = {0}
  Facings = {1}
  ObstacleMaps <- MCObstacleMaps
  MaxCycleCount = 3
SPECIFICATION FairSpec
INVARIANT NoCollisionBeforeTarget
INVARIANT RefinementInv
PROPERTY BackUpTerminates
PROPERTY RefinesSafeBackUp
