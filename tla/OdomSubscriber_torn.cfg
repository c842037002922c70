\* A copy of odom_vel_ racing the callback that rewrites it.
CONSTANTS
  Velocities <- MCVelocities
  MinX = 1
  MinY = 1
  MinTheta = 1
  MaxMsgs = 2
SPECIFICATION Spec
INVARIANT ReadIsStoredTwist
