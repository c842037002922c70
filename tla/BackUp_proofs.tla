---------------------------- MODULE BackUp_proofs ----------------------------
(***************************************************************************)
(* Proofs about BackUp: for a robot facing +x whose check simulates at    *)
(* least two cycles, the collision check of onCycleUpdate keeps it out of  *)
(* every obstacle before the commanded distance, for every goal, start and *)
(* obstacle map.                                                           *)
(***************************************************************************)
EXTENDS BackUp, TLAPS

\* Before onRun the robot stands still where it started, outside every
\* obstacle.
IdleInv ==
  status = "IDLE" => /\ pose \notin obstacles
                     /\ initialPose = pose
                     /\ vel = 0

\* While BackUp runs, the robot has only moved away from initial_pose_ in
\* the direction of the command, the published velocity is zero or that
\* direction, and a velocity not yet acted on was published after the cell
\* it leads to was checked, unless that cell ends the commanded distance.
RunInv ==
  status = "RUNNING" =>
    /\ vel \in {0, CmdSign}
    /\ CmdSign * (pose - initialPose) >= 0
    /\ (vel # 0 /\ travelled = 0) =>
         (pose + vel \notin obstacles \/ Distance + 1 >= Abs(commandX))

\* The inductive strengthening of NoCollisionBeforeTarget.
IInv == TypeOK /\ NoCollisionBeforeTarget /\ IdleInv /\ RunInv

-----------------------------------------------------------------------------
\* The heading and the simulation length the theorem needs: yaw 0, and a
\* simulate_ahead_time of at least two cycles (max_cycle_count >= 2).
ForwardFacing == Facings = {1}
LongEnough == MaxCycleCount >= 2

\* CmdSign is a direction.
LEMMA CmdSignUnit == commandX \in Int => CmdSign \in {-1, 1}
BY DEF CmdSign

\* Init establishes the strengthening: the robot starts idle, still, and
\* outside every obstacle.
LEMMA InitIInv == Init => IInv
<1> SUFFICES ASSUME Init PROVE IInv
  OBVIOUS
<1>1. TypeOK
  BY BackUpAssumption DEF Init, TypeOK, Statuses
<1>2. NoCollisionBeforeTarget
  BY DEF Init, NoCollisionBeforeTarget
<1>3. IdleInv
  BY DEF Init, IdleInv
<1>4. RunInv
  BY DEF Init, RunInv
<1>. QED
  BY <1>1, <1>2, <1>3, <1>4 DEF IInv

\* Every step of BackUp and of its environment preserves the strengthening.
LEMMA StepIInv ==
  ASSUME ForwardFacing, LongEnough, IInv, [Next]_vars
  PROVE  IInv'
<1> USE BackUpAssumption
<1>1. TypeOK'
  <2>1. CASE \E c \in Commands : OnRun(c)
    BY <2>1 DEF OnRun, IInv, TypeOK, Statuses
  <2>2. CASE CycleUpdate
    BY <2>2, CmdSignUnit
       DEF CycleUpdate, CycleNoPose, CycleReached, CycleCollisionAhead,
           CyclePublish, IInv, TypeOK, Statuses
  <2>3. CASE RobotMove
    BY <2>3 DEF RobotMove, IInv, TypeOK, Statuses
  <2>4. CASE PoseLookupChange
    BY <2>4 DEF PoseLookupChange, IInv, TypeOK, Statuses
  <2>5. CASE UNCHANGED vars
    BY <2>5 DEF vars, IInv, TypeOK, Statuses
  <2>. QED
    BY <2>1, <2>2, <2>3, <2>4, <2>5 DEF Next
<1>2. /\ commandX \in Int /\ pose \in Int /\ initialPose \in Int
      /\ vel \in -1 .. 1 /\ facing \in Facings
  BY DEF IInv, TypeOK
<1>3. NoCollisionBeforeTarget'
  <2>1. CASE \E c \in Commands : OnRun(c)
    BY <2>1, <1>2 DEF OnRun, IInv, IdleInv, NoCollisionBeforeTarget, Distance
  <2>2. CASE RobotMove
    <3>1. facing = 1
      BY DEF ForwardFacing, IInv, TypeOK
    <3>2. vel = CmdSign /\ CmdSign * (pose - initialPose) >= 0
      BY <2>2, <1>2, CmdSignUnit DEF RobotMove, IInv, RunInv
    <3>3. pose' = pose + vel /\ initialPose' = initialPose
      BY <2>2, <3>1, <1>2 DEF RobotMove
    <3>4. Distance' = Distance + 1
      <4>1. CASE CmdSign = 1
        BY <4>1, <3>2, <3>3, <1>2 DEF Distance, Abs
      <4>2. CASE CmdSign = -1
        BY <4>2, <3>2, <3>3, <1>2 DEF Distance, Abs
      <4>. QED
        BY <4>1, <4>2, <1>2, CmdSignUnit
    <3>. QED
      BY <2>2, <3>4, <3>3
         DEF RobotMove, IInv, RunInv, NoCollisionBeforeTarget
  <2>3. CASE ~(\E c \in Commands : OnRun(c)) /\ ~RobotMove
    <3>1. UNCHANGED <<pose, initialPose, commandX, obstacles>>
      BY <2>3 DEF Next, CycleUpdate, CycleNoPose, CycleReached,
                  CycleCollisionAhead, CyclePublish, PoseLookupChange, vars
    <3>. QED
      BY <3>1 DEF IInv, NoCollisionBeforeTarget, Distance
  <2>. QED
    BY <2>1, <2>2, <2>3
<1>4. IdleInv'
  <2>1. status' = "IDLE" =>
          UNCHANGED <<status, pose, initialPose, vel, obstacles>>
    BY DEF Next, OnRun, CycleUpdate, CycleNoPose, CycleReached,
           CycleCollisionAhead, CyclePublish, RobotMove, PoseLookupChange, vars
  <2>. QED
    BY <2>1 DEF IInv, IdleInv
<1>5. RunInv'
  <2>1. CASE \E c \in Commands : OnRun(c)
    <3>1. PICK c \in Commands : OnRun(c)
      BY <2>1
    <3>2. vel' = 0 /\ pose' = pose
      BY <3>1 DEF OnRun, IInv, IdleInv
    <3>3. status' = "RUNNING" => initialPose' = pose
      BY <3>1 DEF OnRun
    <3>4. commandX' \in Int
      BY <3>1, BackUpAssumption DEF OnRun
    <3>. QED
      BY <3>2, <3>3, <3>4, <1>2 DEF RunInv, CmdSign
  <2>2. CASE CycleNoPose \/ CycleReached \/ CycleCollisionAhead
    BY <2>2 DEF CycleNoPose, CycleReached, CycleCollisionAhead, RunInv
  <2>3. CASE CyclePublish
    <3>1. SimulatedPose(pose, CmdSign, 1) = pose + CmdSign
      BY <1>2, CmdSignUnit DEF SimulatedPose
    <3>2. 1 \in 0 .. MaxCycleCount - 1
      BY DEF LongEnough
    <3>3. 1 < Abs(commandX) - Distance => pose + CmdSign \notin obstacles
      BY <2>3, <3>1, <3>2 DEF CyclePublish, IsCollisionFree
    <3>4. UNCHANGED <<status, commandX, initialPose, pose, obstacles>>
      BY <2>3 DEF CyclePublish
    <3>5. vel' = CmdSign
      BY <2>3 DEF CyclePublish
    <3>. QED
      BY <2>3, <3>3, <3>4, <3>5, <1>2, CmdSignUnit
         DEF IInv, RunInv, Distance, Abs, CmdSign
  <2>4. CASE RobotMove
    <3>1. facing = 1
      BY DEF ForwardFacing, IInv, TypeOK
    <3>2. vel = CmdSign /\ CmdSign * (pose - initialPose) >= 0
      BY <2>4, <1>2, CmdSignUnit DEF RobotMove, IInv, RunInv
    <3>3. pose' = pose + CmdSign /\ travelled' = 1
      BY <2>4, <3>1, <3>2, <1>2 DEF RobotMove
    <3>4. UNCHANGED <<status, commandX, initialPose, vel>>
      BY <2>4 DEF RobotMove
    <3>5. CmdSign' = CmdSign
      BY <3>4 DEF CmdSign
    <3>6. CmdSign * (pose' - initialPose') >= 0
      <4>1. CASE CmdSign = 1
        BY <4>1, <3>2, <3>3, <3>4, <1>2
      <4>2. CASE CmdSign = -1
        BY <4>2, <3>2, <3>3, <3>4, <1>2
      <4>. QED
        BY <4>1, <4>2, <1>2, CmdSignUnit
    <3>. QED
      BY <3>2, <3>3, <3>4, <3>5, <3>6 DEF RunInv
  <2>5. CASE PoseLookupChange \/ UNCHANGED vars
    BY <2>5 DEF PoseLookupChange, vars, IInv, RunInv, Distance, CmdSign
  <2>. QED
    BY <2>1, <2>2, <2>3, <2>4, <2>5 DEF Next, CycleUpdate
<1>. QED
  BY <1>1, <1>3, <1>4, <1>5 DEF IInv

\* The collision check of onCycleUpdate and isCollisionFree keeps a robot
\* facing +x out of every obstacle cell before the commanded distance, for
\* every goal, start, obstacle map and max_cycle_count of at least two.
THEOREM CollisionCheckSafe ==
  ASSUME ForwardFacing, LongEnough
  PROVE  Spec => []NoCollisionBeforeTarget
<1>1. Init => IInv
  BY InitIInv
<1>2. IInv /\ [Next]_vars => IInv'
  BY StepIInv
<1>3. IInv => NoCollisionBeforeTarget
  BY DEF IInv
<1>. QED
  BY <1>1, <1>2, <1>3, PTL DEF Spec
-----------------------------------------------------------------------------
(***************************************************************************)
(* BackUp implements SafeBackUp.                                           *)
(***************************************************************************)

\* A velocity the robot has not yet acted on was published while the
\* commanded distance was not yet covered.
PublishedInv ==
  (status = "RUNNING" /\ vel # 0 /\ travelled = 0) => Distance < Abs(commandX)

\* What the refinement proof rests on: the strengthening of
\* NoCollisionBeforeTarget, and that onCycleUpdate published the velocity
\* the robot is about to act on only while the distance was not covered.
RefinementInv == IInv /\ PublishedInv

\* Before onRun nothing is published.
LEMMA InitPublished == Init => PublishedInv
BY DEF Init, PublishedInv

\* Only CyclePublish makes a velocity pending, and it checks the distance
\* first; the move that acts on it clears travelled.
LEMMA StepPublished ==
  ASSUME IInv, PublishedInv, [Next]_vars
  PROVE  PublishedInv'
<1>1. CASE \E c \in Commands : OnRun(c)
  BY <1>1 DEF OnRun, IInv, IdleInv, PublishedInv
<1>2. CASE CycleNoPose \/ CycleReached \/ CycleCollisionAhead
  BY <1>2 DEF CycleNoPose, CycleReached, CycleCollisionAhead, PublishedInv
<1>3. CASE CyclePublish
  BY <1>3 DEF CyclePublish, PublishedInv, Distance
<1>4. CASE RobotMove
  BY <1>4 DEF RobotMove, PublishedInv
<1>5. CASE PoseLookupChange \/ UNCHANGED vars
  BY <1>5 DEF PoseLookupChange, vars, PublishedInv, Distance
<1>. QED  BY <1>1, <1>2, <1>3, <1>4, <1>5 DEF Next, CycleUpdate

\* The initial states of BackUp are initial states of SafeBackUp.
LEMMA RefineInit == Init => Safe!Init
BY DEF Init, Safe!Init

\* Every step of BackUp is a step of SafeBackUp or leaves its state alone.
LEMMA RefineStep ==
  ASSUME ForwardFacing, IInv, PublishedInv, [Next]_vars
  PROVE  [Safe!Next]_Safe!avars
<1> USE BackUpAssumption
<1>0. /\ commandX \in Int /\ pose \in Int /\ initialPose \in Int
      /\ vel \in -1 .. 1
  BY DEF IInv, TypeOK
<1>1. CASE \E c \in Commands : OnRun(c)
  <2>1. PICK c \in Commands : OnRun(c)
    BY <1>1
  <2>. QED  BY <2>1 DEF OnRun, Safe!Next, Safe!Start
<1>2. CASE CycleNoPose \/ CycleReached \/ CycleCollisionAhead
  BY <1>2 DEF CycleNoPose, CycleReached, CycleCollisionAhead,
              Safe!Next, Safe!Finish
<1>3. CASE CyclePublish \/ PoseLookupChange \/ UNCHANGED vars
  BY <1>3 DEF CyclePublish, PoseLookupChange, vars, Safe!avars
<1>4. CASE RobotMove
  <2>1. facing = 1
    BY DEF ForwardFacing, IInv, TypeOK
  <2>2. vel = CmdSign /\ CmdSign * (pose - initialPose) >= 0
    BY <1>4, <1>0, CmdSignUnit DEF RobotMove, IInv, RunInv
  <2>3. pose' = pose + CmdSign
        /\ UNCHANGED <<status, commandX, initialPose, obstacles>>
    BY <1>4, <2>1, <2>2, <1>0 DEF RobotMove
  <2>4. Distance' = Distance + 1
    <3>1. CASE CmdSign = 1
      BY <3>1, <2>2, <2>3, <1>0 DEF Distance, Abs
    <3>2. CASE CmdSign = -1
      BY <3>2, <2>2, <2>3, <1>0 DEF Distance, Abs
    <3>. QED  BY <3>1, <3>2, <1>0, CmdSignUnit
  <2>5. status = "RUNNING" /\ Distance < Abs(commandX)
    BY <1>4 DEF RobotMove, PublishedInv
  <2>6. pose' \notin obstacles \/ Distance' >= Abs(commandX)
    BY <1>4, <2>2, <2>3, <2>4, <2>5 DEF RobotMove, IInv, RunInv
  <2>7. Safe!Covered = Distance
    BY <1>0 DEF Safe!Covered, Safe!AbsDist, Distance, Abs
  <2>8. Safe!AbsDist(pose' - initialPose) = Distance'
    BY <1>0, <2>3, CmdSignUnit DEF Safe!AbsDist, Distance, Abs
  <2>9. Safe!AbsDist(commandX) = Abs(commandX)
    BY DEF Safe!AbsDist, Abs
  <2>10. Safe!Direction = CmdSign
    BY DEF Safe!Direction, CmdSign
  <2>11. Safe!Advance
    BY <2>3, <2>5, <2>6, <2>7, <2>8, <2>9, <2>10 DEF Safe!Advance
  <2>. QED  BY <2>11 DEF Safe!Next
<1>. QED  BY <1>1, <1>2, <1>3, <1>4 DEF Next, CycleUpdate

\* For a robot facing +x whose check simulates at least two cycles, every
\* behaviour of onRun/onCycleUpdate (lines 38-118) with the robot and the
\* pose lookup around it is a behaviour of SafeBackUp: the robot only ever
\* moves one cell toward the target, never past it, and never into an
\* obstacle before it.
THEOREM BackUpRefinesSafe ==
  ASSUME ForwardFacing, LongEnough
  PROVE  Spec => RefinesSafeBackUp
<1>1. Init => IInv /\ PublishedInv
  BY InitIInv, InitPublished
<1>2. IInv /\ PublishedInv /\ [Next]_vars => IInv' /\ PublishedInv'
  BY StepIInv, StepPublished
<1>3. IInv /\ PublishedInv /\ [Next]_vars => [Safe!Next]_Safe!avars
  BY RefineStep
<1>4. Init => Safe!Init
  BY RefineInit
<1>. QED  BY <1>1, <1>2, <1>3, <1>4, PTL DEF Spec, RefinesSafeBackUp, Safe!Spec


\* For a robot facing +x whose check simulates at least two cycles,
\* onCycleUpdate (lines 55-118) keeps the robot off every obstacle before
\* the target, and publishes a velocity only while the commanded distance is
\* not yet covered, at every step of every behaviour.
THEOREM RefinementInvHolds ==
  ASSUME ForwardFacing, LongEnough
  PROVE  Spec => []RefinementInv
<1>1. Init => IInv /\ PublishedInv
  BY InitIInv, InitPublished
<1>2. IInv /\ PublishedInv /\ [Next]_vars => IInv' /\ PublishedInv'
  BY StepIInv, StepPublished
<1>. QED  BY <1>1, <1>2, PTL DEF Spec, RefinementInv

============================================================================
