------------------------------- MODULE BackUp -------------------------------
(***************************************************************************)
(* nav2_recoveries::BackUp (back_up.cpp): onRun records the goal distance  *)
(* and the starting pose; the recovery loop then calls onCycleUpdate once  *)
(* per cycle until it returns something other than RUNNING.  Each cycle    *)
(* either stops (no pose, distance covered, collision ahead) or publishes  *)
(* a fixed backing-up speed of 0.025 m/s, after simulating the next        *)
(* max_cycle_count cycles with isCollisionFree.                           *)
(*                                                                         *)
(* The world is one line along the odom x axis.  Lengths are integers in  *)
(* units of the distance 0.025 m/s covers in one cycle (0.025 / f m, f =   *)
(* cycle_frequency_): sim_position_change at cycle_count k is then k       *)
(* units.  The robot faces +x (facing = 1) or -x (facing = -1): a positive *)
(* cmd_vel.linear.x moves it along its heading.  The robot and the pose    *)
(* lookup are the environment: between two cycles the robot covers at most *)
(* one unit of the last published velocity (none if stalled), and the      *)
(* transform behind getCurrentPose may come and go.  The collision         *)
(* checker is the test that a pose is not an obstacle cell.               *)
(***************************************************************************)
EXTENDS Integers

CONSTANTS
  Commands,       \* the goal target.x values, in units
  Starts,         \* the robot's possible starting positions
  Facings,        \* the robot's possible headings, 1 (yaw 0) or -1 (yaw pi)
  ObstacleMaps,   \* the possible sets of occupied cells
  MaxCycleCount   \* static_cast<int>(cycle_frequency_ * simulate_ahead_time_)

ASSUME BackUpAssumption ==
  /\ Commands \subseteq Int
  /\ Starts \subseteq Int
  /\ Facings \subseteq {-1, 1}
  /\ ObstacleMaps \subseteq SUBSET Int
  /\ MaxCycleCount \in Nat

VARIABLES
  status,       \* "IDLE" before onRun, then the last Status returned
  commandX,     \* command_x_
  initialPose,  \* initial_pose_.pose.position.x
  pose,         \* the robot's position (what getCurrentPose returns)
  facing,       \* the robot's heading
  obstacles,    \* the occupied cells
  vel,          \* the last cmd_vel.linear.x published, in {-1, 0, 1}
  travelled,    \* units the robot has moved since the last cycle
  poseOk        \* getCurrentPose would succeed

vars == <<status, commandX, initialPose, pose, facing, obstacles, vel,
          travelled, poseOk>>

Statuses == {"IDLE", "RUNNING", "SUCCEEDED", "FAILED"}

TypeOK ==
  /\ status \in Statuses
  /\ commandX \in Commands \cup {0}
  /\ initialPose \in Int
  /\ pose \in Int
  /\ facing \in Facings
  /\ obstacles \in ObstacleMaps
  /\ vel \in -1 .. 1
  /\ travelled \in 0 .. 1
  /\ poseOk \in BOOLEAN

Abs(x) == IF x < 0 THEN -x ELSE x

-----------------------------------------------------------------------------
\* distance in onCycleUpdate (lines 63-65): the straight-line distance from
\* the initial pose, here along x.
Distance == Abs(initialPose - pose)

\* The velocity with the negative branch left at zero (mutant).
CmdSignNegZero == IF commandX < 0 THEN 0 ELSE 1

\* cmd_vel.linear.x (line 75), in units of 0.025 m/s.
CmdSign == IF commandX < 0 THEN -1 ELSE 1

\* pose2d.x after the loop body has run for cycle_count = 0 .. k: the sum of
\* the sim_position_change values 0, s, 2s, .. ks (lines 105-106).
SimulatedPose(x, s, k) == x + s * ((k * (k + 1)) \div 2)

\* isCollisionFree simulating forward whatever the command (mutant).
IsCollisionFreeForward(distance, s, x) ==
  \A k \in 0 .. MaxCycleCount - 1 :
    k < Abs(commandX) - distance => SimulatedPose(x, 1, k) \notin obstacles

\* isCollisionFree (lines 93-118): the loop checks the simulated pose of
\* every cycle_count k below max_cycle_count until the first k whose
\* |sim_position_change| = k reaches diff_dist; the break (line 109) comes
\* before the check, so that pose is not checked.  The heading is not used.
IsCollisionFree(distance, s, x) ==
  \A k \in 0 .. MaxCycleCount - 1 :
    k < Abs(commandX) - distance => SimulatedPose(x, s, k) \notin obstacles

-----------------------------------------------------------------------------
Init ==
  /\ pose \in Starts
  /\ facing \in Facings
  /\ obstacles \in ObstacleMaps
  /\ pose \notin obstacles
  /\ status = "IDLE"
  /\ commandX = 0
  /\ initialPose = pose
  /\ vel = 0
  /\ travelled = 0
  /\ poseOk \in BOOLEAN

\* onRun (lines 38-53): command_x_ is set before the pose is looked up; a
\* failed lookup leaves initial_pose_ as it was and fails the recovery.
OnRun(c) ==
  /\ status = "IDLE"
  /\ commandX' = c
  /\ IF poseOk
       THEN initialPose' = pose /\ status' = "RUNNING"
       ELSE UNCHANGED initialPose /\ status' = "FAILED"
  /\ UNCHANGED <<pose, facing, obstacles, vel, travelled, poseOk>>

\* onCycleUpdate, no current pose (lines 57-61): FAILED, without stopRobot.
CycleNoPose ==
  /\ status = "RUNNING"
  /\ ~poseOk
  /\ status' = "FAILED"
  /\ UNCHANGED <<commandX, initialPose, pose, facing, obstacles, vel,
                 travelled, poseOk>>

\* onCycleUpdate, the distance is covered: stopRobot and succeed (67-70).
CycleReached ==
  /\ status = "RUNNING"
  /\ poseOk
  /\ Distance >= Abs(commandX)
  /\ status' = "SUCCEEDED"
  /\ vel' = 0
  /\ travelled' = 0
  /\ UNCHANGED <<commandX, initialPose, pose, facing, obstacles, poseOk>>

\* onCycleUpdate, a collision is predicted: stopRobot, and the recovery
\* still returns SUCCEEDED (lines 72-86).
CycleCollisionAhead ==
  /\ status = "RUNNING"
  /\ poseOk
  /\ Distance < Abs(commandX)
  /\ ~IsCollisionFree(Distance, CmdSign, pose)
  /\ status' = "SUCCEEDED"
  /\ vel' = 0
  /\ travelled' = 0
  /\ UNCHANGED <<commandX, initialPose, pose, facing, obstacles, poseOk>>

\* onCycleUpdate with the target test after the publish (mutant).
CyclePublishPastTarget ==
  /\ status = "RUNNING"
  /\ poseOk
  /\ Distance <= Abs(commandX)
  /\ IsCollisionFree(Distance, CmdSign, pose)
  /\ vel' = CmdSign
  /\ travelled' = 0
  /\ UNCHANGED <<status, commandX, initialPose, pose, facing, obstacles,
                 poseOk>>

\* onCycleUpdate publishes cmd_vel and returns RUNNING (lines 72-90).
CyclePublish ==
  /\ status = "RUNNING"
  /\ poseOk
  /\ Distance < Abs(commandX)
  /\ IsCollisionFree(Distance, CmdSign, pose)
  /\ vel' = CmdSign
  /\ travelled' = 0
  /\ UNCHANGED <<status, commandX, initialPose, pose, facing, obstacles,
                 poseOk>>

CycleUpdate ==
  CycleNoPose \/ CycleReached \/ CycleCollisionAhead \/ CyclePublish

\* The robot covers one unit along its heading at the published velocity,
\* at most once between two cycles; once the recovery has returned, its
\* loop no longer drives the robot.
RobotMove ==
  /\ status = "RUNNING"
  /\ vel # 0
  /\ travelled = 0
  /\ pose' = pose + facing * vel
  /\ travelled' = 1
  /\ UNCHANGED <<status, commandX, initialPose, facing, obstacles, vel, poseOk>>

\* The transform from odom to the base frame is lost or comes back.
PoseLookupChange ==
  /\ poseOk' = ~poseOk
  /\ UNCHANGED <<status, commandX, initialPose, pose, facing, obstacles, vel,
                 travelled>>

Next ==
  \/ \E c \in Commands : OnRun(c)
  \/ CycleUpdate
  \/ RobotMove
  \/ PoseLookupChange

Spec == Init /\ [][Next]_vars

\* The recovery loop keeps calling onCycleUpdate while it returns RUNNING,
\* and the robot is not stalled for ever: a published velocity moves it.
\* The pose lookup gets no fairness: it may be lost for good.
FairSpec == Spec /\ WF_vars(CycleUpdate) /\ WF_vars(RobotMove)

-----------------------------------------------------------------------------
\* The collision check of onCycleUpdate/isCollisionFree (lines 82-86,
\* 104-116) keeps the robot out of every obstacle cell it would enter
\* before it has covered the commanded distance.
NoCollisionBeforeTarget ==
  pose \in obstacles => Distance >= Abs(commandX)

\* A robot that backs up into an obstacle cell at all, the last cell of the
\* commanded distance included, was not stopped by the collision check.
NoCollision == pose \notin obstacles

\* SafeBackUp with every variable mapped to itself; the velocity, the
\* heading, the pose lookup and the simulation ahead are hidden.
Safe == INSTANCE SafeBackUp
          WITH status <- status, commandX <- commandX,
               initialPose <- initialPose, pose <- pose, obstacles <- obstacles

\* BackUp implements SafeBackUp: every move of the robot driven by the
\* velocity onCycleUpdate published (lines 55-90, 93-118) is one cell
\* toward the target, never past it and never into an obstacle before it;
\* every other step of the recovery starts it, ends it or leaves the
\* abstract state alone.
RefinesSafeBackUp == Safe!Spec

\* Once running, BackUp ends: onCycleUpdate eventually returns SUCCEEDED or
\* FAILED (line 67), provided the robot is not stalled for ever.
BackUpTerminates == status = "RUNNING" ~> status \in {"SUCCEEDED", "FAILED"}

=============================================================================
