------------------------------ MODULE SafeBackUp ------------------------------
(***************************************************************************)
(* What BackUp promises, without its mechanism: once started with a       *)
(* command, the robot moves along the command's direction one cell at a   *)
(* time, never beyond the commanded distance and never into an occupied   *)
(* cell before that distance is covered; the recovery ends SUCCEEDED or    *)
(* FAILED at any time.  There is no velocity, no simulation ahead and no  *)
(* heading: a step of this specification is a move of the robot.         *)
(***************************************************************************)
EXTENDS Integers

CONSTANTS Commands, Starts, ObstacleMaps

VARIABLES status, commandX, initialPose, pose, obstacles

avars == <<status, commandX, initialPose, pose, obstacles>>

AbsDist(x) == IF x < 0 THEN -x ELSE x

\* How far the robot is from where the recovery started.
Covered == AbsDist(pose - initialPose)

\* The direction the command asks for.
Direction == IF commandX < 0 THEN -1 ELSE 1

Init ==
  /\ pose \in Starts
  /\ obstacles \in ObstacleMaps
  /\ pose \notin obstacles
  /\ status = "IDLE"
  /\ commandX = 0
  /\ initialPose = pose

\* The recovery is started with command c; it may fail at once.
Start(c) ==
  /\ status = "IDLE"
  /\ commandX' = c
  /\ \/ initialPose' = pose /\ status' = "RUNNING"
     \/ initialPose' = initialPose /\ status' = "FAILED"
  /\ UNCHANGED <<pose, obstacles>>

\* The robot moves one cell in the command's direction while the distance
\* is not covered, into a free cell or onto the cell that covers it.
Advance ==
  /\ status = "RUNNING"
  /\ Covered < AbsDist(commandX)
  /\ pose' = pose + Direction
  /\ pose' \notin obstacles \/ AbsDist(pose' - initialPose) >= AbsDist(commandX)
  /\ UNCHANGED <<status, commandX, initialPose, obstacles>>

\* The recovery stops the robot and succeeds, or fails.
Finish ==
  /\ status = "RUNNING"
  /\ status' \in {"SUCCEEDED", "FAILED"}
  /\ UNCHANGED <<commandX, initialPose, pose, obstacles>>

Next == (\E c \in Commands : Start(c)) \/ Advance \/ Finish

Spec == Init /\ [][Next]_avars

=============================================================================
