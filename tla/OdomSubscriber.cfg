\* Two odometry messages against any number of copies.
CONSTANTS
  Velocities <- MCVelocities
  MinX = 1
  MinY = 1
  MinTheta = 1
  MaxMsgs = 2
SPECIFICATION Spec
INVARIANT CleanReadIsLastMessage
INVARIANT IInv
