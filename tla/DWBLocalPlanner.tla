-------------------------- MODULE DWBLocalPlanner --------------------------
(***************************************************************************)
(* The local planner of dwb_core (DWBLocalPlanner, whose implementation is *)
(* the second file embedded in nav_2d_utils/odom_subscriber.hpp):          *)
(*                                                                         *)
(*   setPlan                  stores a new global plan, resets critics;    *)
(*   computeVelocityCommands  windows and prunes the stored plan           *)
(*                            (transformGlobalPlan, prepareGlobalPlan),    *)
(*                            prepares the critics, scores every twist of  *)
(*                            the generator (coreScoringAlgorithm,         *)
(*                            scoreTrajectory), debriefs the critics and   *)
(*                            returns the best twist or throws;            *)
(*   isGoalReached            compares the robot with the plan's last pose.*)
(*                                                                         *)
(* Poses are points on a line (integers), so that squared distances are    *)
(* exact.  The costmap's global frame is the plan frame shifted by         *)
(* FrameOffset: the robot pose arrives in the costmap frame, is moved into *)
(* the plan frame to measure distances, and plan poses are moved into the  *)
(* costmap frame before they reach the critics.                            *)
(*                                                                         *)
(* The generator's twists are their indices 1..NumTwists in sample order;  *)
(* trajectory generation is a pure function and is not modelled here.  The *)
(* critics are external: what critic c returns for the current trajectory  *)
(* is an input chosen from RawScores, or Illegal when it throws            *)
(* IllegalTrajectoryException.                                             *)
(*                                                                         *)
(* computeVelocityCommands runs on the caller's thread from start to end;  *)
(* its loops are modelled one iteration per step (phase "scoring") so that *)
(* their invariants are state invariants.  setPlan and isGoalReached are   *)
(* called from the same thread and so only between two cycles.            *)
(*                                                                         *)
(* The ghost variables reference, refTotal and refLegal score every        *)
(* trajectory in full, as scoreTrajectory does when it is given no         *)
(* threshold, so that early termination can be compared with full scoring. *)
(***************************************************************************)
EXTENDS Integers, Sequences

CONSTANTS
  Positions,      \* the poses robot and plans may take
  Plans,          \* the global plans setPlan may be handed
  FrameOffset,    \* costmap global frame = plan frame + FrameOffset
  LateTfCanFail,  \* the plan-to-costmap lookups after the robot's may fail
  DistThreshold,  \* half the local costmap's extent (line 601)
  PruneDistance,  \* prune_distance_
  PrunePlan,      \* prune_plan_
  NumTwists,      \* number of twists the generator yields in a cycle
  NumCritics,     \* number of loaded critics
  CriticScale,    \* critic->getScale() of each critic, in configured order
  RawScores,      \* the raw scores a critic's scoreTrajectory may return
  GoalTolerance   \* position tolerance of the goal checker

ASSUME PlanAssumption ==
  /\ Positions \subseteq Int
  /\ Plans \subseteq Seq(Positions)
  /\ FrameOffset \in Int
  /\ LateTfCanFail \in BOOLEAN
  /\ DistThreshold \in Nat
  /\ PruneDistance \in Nat
  /\ PrunePlan \in BOOLEAN
  /\ GoalTolerance \in Nat

ASSUME ScoringAssumption ==
  /\ NumTwists \in Nat
  /\ NumCritics \in Nat
  /\ CriticScale \in [1 .. NumCritics -> Int]
  /\ RawScores \subseteq Nat

Twists  == 1 .. NumTwists
Critics == 1 .. NumCritics

\* raw_score recorded for a rejected trajectory (line 517); never a raw
\* score, since RawScores are natural numbers.
Illegal == -1

\* The zero twist (empty_cmd, line 461) that critics are debriefed with
\* when no trajectory is legal.
NoTwist == 0

\* The sentinel best.total = -1 of coreScoringAlgorithm (line 483).
NoScore == [idx |-> NoTwist, total |-> -1]

Outcomes == {"none", "cmd", "NoLegal", "EmptyPlan", "TFError", "ZeroPoses"}

VARIABLES
  globalPlan,   \* global_plan_.poses, in the plan frame
  phase,        \* "idle" between calls, "scoring" inside coreScoringAlgorithm
  robot,        \* the pose passed to the current computeVelocityCommands
  localPlan,    \* transformed_plan handed to the critics' prepare
  localGoal,    \* goal_pose handed to the critics' prepare
  twist,        \* index of the twist being scored
  critic,       \* index of the critic scoreTrajectory is at
  total,        \* score.total of the trajectory being scored
  cut,          \* scoreTrajectory broke out early (line 565)
  rejectedBy,   \* critic that threw IllegalTrajectoryException, or 0
  best,         \* best (index and total) of coreScoringAlgorithm
  tracker,      \* IllegalTrajectoryTracker: whether a legal trajectory was
                \* seen, and which critics rejected one (its counts only
                \* feed the exception's message)
  result,       \* outcome of the last operation
  debriefed,    \* twist the critics were last debriefed with
  goalReached,  \* answer of the last isGoalReached
  lastSetPlan,  \* ghost: the plan most recently given to setPlan
  refTotal,     \* ghost: total of the current trajectory, scored in full
  refLegal,     \* ghost: no critic has rejected the current trajectory
  reference     \* ghost: full score of every twist scored in this cycle

scoreVars == <<twist, critic, total, cut, rejectedBy, best, tracker>>
ghostVars == <<lastSetPlan, refTotal, refLegal, reference>>
vars == <<globalPlan, phase, robot, localPlan, localGoal, result, debriefed,
          goalReached, twist, critic, total, cut, rejectedBy, best, tracker,
          lastSetPlan, refTotal, refLegal, reference>>

-----------------------------------------------------------------------------
(***************************************************************************)
(* Helpers of transformGlobalPlan.                                         *)
(***************************************************************************)

\* getSquareDistance
SqDist(a, b) == (a - b) * (a - b)

MinInt(a, b) == IF a <= b THEN a ELSE b

\* sq_transform_start_threshold: the prune distance only counts when the
\* plan is pruned.
StartThreshold ==
  IF PrunePlan
    THEN MinInt(DistThreshold * DistThreshold, PruneDistance * PruneDistance)
    ELSE DistThreshold * DistThreshold

\* sq_transform_end_threshold: shorten_transformed_plan is always true.
EndThreshold ==
  MinInt(DistThreshold * DistThreshold, PruneDistance * PruneDistance)

\* std::find_if from index from: the first index i >= from whose pose p
\* satisfies Test(p), or Len(s) + 1 (the end iterator).
FindFrom(s, from, Test(_)) ==
  LET hits == {i \in from .. Len(s) : Test(s[i])}
  IN  IF hits = {} THEN Len(s) + 1
                   ELSE CHOOSE i \in hits : \A j \in hits : i <= j

\* transformation_begin: first pose closer than the start threshold to the
\* robot pose rp (in the plan frame).
TransformationBegin(plan, rp) ==
  FindFrom(plan, 1, LAMBDA p : SqDist(rp, p) < StartThreshold)

\* transformation_end: first pose from b on that is farther than the end
\* threshold.
TransformationEnd(plan, rp, b) ==
  FindFrom(plan, b, LAMBDA p : SqDist(rp, p) > EndThreshold)

\* Whether a transformPose call after the robot pose's succeeds.
LateTfOutcomes == IF LateTfCanFail THEN BOOLEAN ELSE {TRUE}

\* A default-constructed Pose2D.
DefaultPose == 0

\* Mutant: the pose is moved by the inverse transform.
PoseToLocalInverse(p, ok) == IF ok THEN p - FrameOffset ELSE DefaultPose

\* transformGlobalPoseToLocal (lines 655-666): transformPose's result is
\* ignored, so a failed lookup returns the default transformed_pose.
PoseToLocal(p, ok) == IF ok THEN p + FrameOffset ELSE DefaultPose

\* std::transform of [b, e) into the costmap frame (lines 668-671).  Every
\* pose is looked up between the same frames at the same (zero) stamp, so
\* the lookups of one call succeed or fail together.
TransformedPlan(plan, b, e, ok) ==
  [i \in 1 .. (e - b) |-> PoseToLocal(plan[b + i - 1], ok)]

\* Mutant: the erase also removes transformation_begin itself.
PrunedPlanPastBegin(plan, b) ==
  IF PrunePlan THEN SubSeq(plan, b + 1, Len(plan)) ELSE plan

\* global_plan_ after the erase of [begin, transformation_begin).
PrunedPlan(plan, b) ==
  IF PrunePlan THEN SubSeq(plan, b, Len(plan)) ELSE plan

\* Mutant: the goal is taken from the end of the local window.
LocalGoalOfWindow(plan, lp, ok) == lp[Len(lp)]

\* prepareGlobalPlan (lines 415-418): the last pose of the (pruned) global
\* plan, moved into the costmap frame in place; the result of transformPose
\* is ignored, so a failed lookup leaves it in the plan frame.
LocalGoalOf(plan, lp, ok) ==
  IF ok THEN plan[Len(plan)] + FrameOffset ELSE plan[Len(plan)]

-----------------------------------------------------------------------------
(***************************************************************************)
(* Helpers of scoreTrajectory and coreScoringAlgorithm.                    *)
(***************************************************************************)

\* Mutant: breaks out without the best_score > 0 test, so also against the
\* -1 sentinel.
EarlyExitAnyBest(newTotal, bestTotal) == newTotal > bestTotal

\* The early termination test of scoreTrajectory (line 563).
EarlyExit(newTotal, bestTotal) == bestTotal > 0 /\ newTotal > bestTotal

\* Mutant: a tie replaces the earlier best.
IsNewBestOrTie(score, b) == b.total < 0 \/ score <= b.total

\* The best update of coreScoringAlgorithm (line 498).
IsNewBest(score, b) == b.total < 0 \/ score < b.total

\* The failure test after the loop (line 526).
NoLegalFound(b) == b.total < 0

\* Mutant: the generator skips a twist.
NextTwistSkip(t) == t + 2

\* The iterator advance of the twist loop (lines 487-489).
NextTwist(t) == t + 1

NoIllegal == {}

-----------------------------------------------------------------------------
\* The planner as the constructor (lines 169-187) leaves it: no plan, no
\* scoring under way.  The parameters it declares are the CONSTANTS.
Init ==
  /\ globalPlan = <<>>
  /\ phase = "idle"
  /\ robot \in Positions
  /\ localPlan = <<>>
  /\ localGoal = 0
  /\ twist = 1
  /\ critic = 1
  /\ total = 0
  /\ cut = FALSE
  /\ rejectedBy = 0
  /\ best = NoScore
  /\ tracker = [legal |-> FALSE, illegal |-> NoIllegal]
  /\ result = [kind |-> "none", twist |-> NoTwist]
  /\ debriefed = NoTwist
  /\ goalReached = FALSE
  /\ lastSetPlan = <<>>
  /\ refTotal = 0
  /\ refLegal = TRUE
  /\ reference = [t \in Twists |-> [legal |-> FALSE, total |-> 0]]

\* setPlan (lines 375-383): critics are reset (their state is not
\* modelled), the plan is replaced wholesale.
SetPlan(p) ==
  /\ phase = "idle"
  /\ globalPlan' = p
  /\ lastSetPlan' = p
  /\ result' = [kind |-> "none", twist |-> NoTwist]
  /\ UNCHANGED <<phase, robot, localPlan, localGoal, debriefed, goalReached,
                 refTotal, refLegal, reference>>
  /\ UNCHANGED scoreVars

\* isGoalReached (lines 353-372) with a goal checker that accepts a
\* position within GoalTolerance of the goal.
IsGoalReached(r) ==
  /\ phase = "idle"
  /\ goalReached' =
       /\ globalPlan # <<>>
       /\ SqDist(r, globalPlan[Len(globalPlan)] + FrameOffset)
            <= GoalTolerance * GoalTolerance
  /\ result' = [kind |-> "none", twist |-> NoTwist]
  /\ UNCHANGED <<globalPlan, phase, robot, localPlan, localGoal, debriefed>>
  /\ UNCHANGED scoreVars
  /\ UNCHANGED ghostVars

\* A call that throws before any critic is prepared.
Throw(kind) ==
  /\ result' = [kind |-> kind, twist |-> NoTwist]
  /\ UNCHANGED <<phase, localPlan, localGoal, debriefed>>

\* computeVelocityCommands up to the scoring loop (lines 386-443 and
\* 584-684): transformGlobalPlan with its prune, prepareGlobalPlan, and
\* prepare of every critic.  tfOk is whether the robot pose can be
\* transformed into the plan's frame, winOk and goalOk whether the later
\* lookups of the window's poses and of the goal succeed.
ComputeVelocityCommands(r, tfOk, winOk, goalOk) ==
  /\ phase = "idle"
  /\ robot' = r
  /\ \/ /\ globalPlan = <<>>
        /\ Throw("EmptyPlan")
        /\ UNCHANGED globalPlan
     \/ /\ globalPlan # <<>>
        /\ ~tfOk
        /\ Throw("TFError")
        /\ UNCHANGED globalPlan
     \/ /\ globalPlan # <<>>
        /\ tfOk
        /\ LET rp == r - FrameOffset
               b  == TransformationBegin(globalPlan, rp)
               e  == TransformationEnd(globalPlan, rp, b)
               lp == TransformedPlan(globalPlan, b, e, winOk)
           IN  /\ globalPlan' = PrunedPlan(globalPlan, b)
               /\ \/ /\ lp = <<>>
                     /\ Throw("ZeroPoses")
                  \/ /\ lp # <<>>
                     /\ phase' = "scoring"
                     /\ localPlan' = lp
                     /\ localGoal' = LocalGoalOf(globalPlan', lp, goalOk)
                     /\ result' = [kind |-> "none", twist |-> NoTwist]
                     /\ UNCHANGED debriefed
  /\ twist' = 1
  /\ critic' = 1
  /\ total' = 0
  /\ cut' = FALSE
  /\ rejectedBy' = 0
  /\ best' = NoScore
  /\ tracker' = [legal |-> FALSE, illegal |-> NoIllegal]
  /\ refTotal' = 0
  /\ refLegal' = TRUE
  /\ reference' = [t \in Twists |-> [legal |-> FALSE, total |-> 0]]
  /\ UNCHANGED <<goalReached, lastSetPlan>>

\* Critic `critic` returns raw for the current trajectory; scoreTrajectory
\* adds it (lines 559-566) unless it has already broken out or thrown.
ScoreCritic(raw) ==
  LET w == CriticScale[critic] IN
  /\ IF rejectedBy = 0 /\ ~cut
       THEN \/ /\ raw = Illegal
               /\ rejectedBy' = critic
               /\ UNCHANGED <<total, cut>>
            \/ /\ raw # Illegal
               /\ total' = total + raw * w
               /\ cut' = EarlyExit(total + raw * w, best.total)
               /\ UNCHANGED rejectedBy
       ELSE UNCHANGED <<total, cut, rejectedBy>>
  /\ refLegal' = (raw # Illegal)
  /\ refTotal' = IF raw = Illegal THEN refTotal ELSE refTotal + raw * w

\* One iteration of the critic loop of scoreTrajectory (lines 549-567).
CriticStep ==
  /\ phase = "scoring"
  /\ twist \in Twists
  /\ critic \in Critics
  /\ refLegal
  /\ \/ /\ CriticScale[critic] = 0
        /\ UNCHANGED <<total, cut, rejectedBy, refTotal, refLegal>>
     \/ /\ CriticScale[critic] # 0
        /\ \E raw \in RawScores \cup {Illegal} : ScoreCritic(raw)
  /\ critic' = critic + 1
  /\ UNCHANGED <<globalPlan, phase, robot, localPlan, localGoal, result,
                 debriefed, goalReached, twist, best, tracker, lastSetPlan,
                 reference>>

\* scoreTrajectory has returned or thrown: coreScoringAlgorithm records
\* the trajectory (lines 493-523) and moves to the next twist.
EndTrajectory ==
  /\ phase = "scoring"
  /\ twist \in Twists
  /\ critic > NumCritics \/ ~refLegal
  /\ IF rejectedBy # 0
       THEN /\ tracker' = [legal   |-> tracker.legal,
                           illegal |-> tracker.illegal \cup {rejectedBy}]
            /\ UNCHANGED best
       ELSE /\ tracker' = [legal   |-> TRUE,
                           illegal |-> tracker.illegal]
            /\ best' = IF IsNewBest(total, best)
                         THEN [idx |-> twist, total |-> total]
                         ELSE best
  /\ reference' = [reference EXCEPT ![twist] =
                     [legal |-> refLegal, total |-> refTotal]]
  /\ twist' = NextTwist(twist)
  /\ critic' = 1
  /\ total' = 0
  /\ cut' = FALSE
  /\ rejectedBy' = 0
  /\ refTotal' = 0
  /\ refLegal' = TRUE
  /\ UNCHANGED <<globalPlan, phase, robot, localPlan, localGoal, result,
                 debriefed, goalReached, lastSetPlan>>

\* No twist is left: coreScoringAlgorithm returns best or throws
\* NoLegalTrajectoriesException (lines 526-538); computeVelocityCommands
\* debriefs the critics with the chosen or the zero twist (lines 444-471).
FinishCycle ==
  /\ phase = "scoring"
  /\ twist = NumTwists + 1
  /\ IF NoLegalFound(best)
       THEN /\ result' = [kind |-> "NoLegal", twist |-> NoTwist]
            /\ debriefed' = NoTwist
       ELSE /\ result' = [kind |-> "cmd", twist |-> best.idx]
            /\ debriefed' = best.idx
  /\ phase' = "idle"
  /\ UNCHANGED <<globalPlan, robot, localPlan, localGoal, goalReached>>
  /\ UNCHANGED scoreVars
  /\ UNCHANGED ghostVars

Scoring == CriticStep \/ EndTrajectory \/ FinishCycle

Next ==
  \/ \E p \in Plans : SetPlan(p)
  \/ \E r \in Positions : IsGoalReached(r)
  \/ \E r \in Positions, tfOk \in BOOLEAN, winOk, goalOk \in LateTfOutcomes :
       ComputeVelocityCommands(r, tfOk, winOk, goalOk)
  \/ Scoring

Spec == Init /\ [][Next]_vars

-----------------------------------------------------------------------------
(***************************************************************************)
(* Properties.                                                             *)
(***************************************************************************)

Record(S) == [idx : S, total : Int]

\* Every variable holds a value of its type.
TypeOK ==
  /\ globalPlan \in Seq(Int)
  /\ phase \in {"idle", "scoring"}
  /\ robot \in Positions
  /\ localPlan \in Seq(Int)
  /\ localGoal \in Int
  /\ twist \in 1 .. NumTwists + 1
  /\ critic \in 1 .. NumCritics + 1
  /\ total \in Int
  /\ cut \in BOOLEAN
  /\ rejectedBy \in 0 .. NumCritics
  /\ best \in Record(0 .. NumTwists)
  /\ tracker \in [legal : BOOLEAN, illegal : SUBSET Critics]
  /\ result \in [kind : Outcomes, twist : 0 .. NumTwists]
  /\ debriefed \in 0 .. NumTwists
  /\ goalReached \in BOOLEAN
  /\ lastSetPlan \in Seq(Int)
  /\ refTotal \in Int
  /\ refLegal \in BOOLEAN
  /\ reference \in [Twists -> [legal : BOOLEAN, total : Int]]

\* Early termination of scoreTrajectory is sound (coreScoringAlgorithm with
\* the threshold best.total): a successful cycle returns the twist whose
\* trajectory has the lowest full score among those no critic rejects, the
\* first one in sample order on a tie, and a cycle fails with no legal
\* trajectories only when every critic-scored trajectory was rejected.
SelectionMatchesFullScoring ==
  LET Legal == {t \in Twists : reference[t].legal}
      full(t) == reference[t].total
  IN  /\ result.kind = "NoLegal" => Legal = {}
      /\ result.kind = "cmd" =>
           /\ result.twist \in Legal
           /\ \A t \in Legal :
                \/ full(result.twist) < full(t)
                \/ full(result.twist) = full(t) /\ result.twist <= t

\* The twists coreScoringAlgorithm has finished with in this cycle, those
\* of them no critic rejects, and a twist's full score.
ScoredTwists == {t \in Twists : t < twist}
LegalScored == {t \in ScoredTwists : reference[t].legal}
FullScore(t) == reference[t].total

\* i is in S and has the least full score of S, the first one on a tie.
FirstLeast(i, S) ==
  /\ i \in S
  /\ \A t \in S : \/ FullScore(i) < FullScore(t)
                  \/ FullScore(i) = FullScore(t) /\ i <= t

\* best of coreScoringAlgorithm: the sentinel -1 exactly while no legal
\* trajectory has been scored (all of which score >= 0), and otherwise the
\* first least of them with its full score.
BestInv ==
  /\ \A t \in LegalScored : FullScore(t) >= 0
  /\ (best.total < 0) = (LegalScored = {})
  /\ best.total >= 0 =>
       /\ FirstLeast(best.idx, LegalScored)
       /\ best.total = FullScore(best.idx)

\* The trajectory scoreTrajectory is working on: its total agrees with the
\* full score until a critic throws or the loop breaks out, a throw is
\* seen by both, and the loop breaks out only above a positive best.
CurrentInv ==
  phase = "scoring" /\ twist \in Twists =>
    /\ refTotal >= 0
    /\ rejectedBy # 0 => ~refLegal /\ ~cut
    /\ ~refLegal /\ ~cut => rejectedBy # 0
    /\ rejectedBy = 0 /\ ~cut => total = refTotal
    /\ cut => best.total > 0 /\ total > best.total /\ refTotal >= total

\* A command or NoLegal is reported only after the last twist, from best.
ResultInv ==
  /\ result.kind = "cmd" =>
       twist = NumTwists + 1 /\ best.total >= 0 /\ result.twist = best.idx
  /\ result.kind = "NoLegal" => twist = NumTwists + 1 /\ best.total < 0

\* The reasoning behind SelectionMatchesFullScoring, as a state invariant of
\* coreScoringAlgorithm and scoreTrajectory: early termination never lets a
\* trajectory that is cut short become best, and best is at every twist the
\* first least legal trajectory so far.
SelectionInv == BestInv /\ CurrentInv /\ ResultInv

\* The goal handed to the critics is the last pose of the plan last given
\* to setPlan, however much of it transformGlobalPlan has pruned.
LocalGoalIsPlanGoal ==
  phase = "scoring" =>
    /\ lastSetPlan # <<>>
    /\ localGoal = lastSetPlan[Len(lastSetPlan)] + FrameOffset

\* transformGlobalPlan's prune keeps the stored plan a suffix of the plan
\* last set, and only erases poses that were not within the start
\* threshold of the robot pose of that call.
PruneOnlyDropsPassedPoses ==
  [][ \/ globalPlan' = lastSetPlan'
      \/ \E k \in 0 .. Len(globalPlan) :
           /\ globalPlan' = SubSeq(globalPlan, k + 1, Len(globalPlan))
           /\ \A i \in 1 .. k :
                SqDist(robot' - FrameOffset, globalPlan[i]) >= StartThreshold
    ]_vars

\* Every pose handed to the critics is a pose of the stored plan moved into
\* the costmap frame, in plan order (spec: the local path is the window of
\* the global path transformed into the local working frame).
WindowIsPlanSegment ==
  phase = "scoring" =>
    \E k \in 0 .. Len(globalPlan) - Len(localPlan) :
      \A i \in 1 .. Len(localPlan) :
        localPlan[i] = globalPlan[k + i] + FrameOffset

\* Pruning never erases the goal: the stored plan keeps the last pose of
\* the plan last set (spec: pruning never removes poses ahead of the robot).
GoalNeverPruned ==
  lastSetPlan # <<>> =>
    /\ globalPlan # <<>>
    /\ globalPlan[Len(globalPlan)] = lastSetPlan[Len(lastSetPlan)]

\* transformGlobalPlan fails with "Resulting plan has 0 poses" only when no
\* pose of the plan is within the window around the robot (spec: the local
\* path runs from the first pose within the threshold to the horizon).
NoSpuriousEmptyWindow ==
  result.kind = "ZeroPoses" =>
    \A i \in 1 .. Len(globalPlan) :
      SqDist(robot - FrameOffset, globalPlan[i]) > EndThreshold

=============================================================================
