# TLA+ models of the nav2 DWB controller, costmap inflation and BackUp

This directory holds TLA+ models of the navigation code under `src/`. It also
holds the TLC configurations that model-check them and the TLAPS proofs about
them. Four components are modelled:

- the DWB local planner (`dwb_core::DWBLocalPlanner`), the core of the repository;
- the OdomSubscriber that feeds it;
- the inflation layer of the costmap;
- the BackUp recovery.

## The system

The code under `src/navigation2` is a slice of ROS 2 nav2. Its parts are:

| Part | Source | Role |
|---|---|---|
| DWB local planner | implementation embedded in `nav_2d_utils/odom_subscriber.hpp` (lines 148-689); header `dwb_core/dwb_local_planner.hpp` | Holds the global plan. Every control cycle it cuts out a local window of the plan, scores the generator's twists with weighted critics and returns the best one. It also answers `isGoalReached`. |
| OdomSubscriber | `odom_subscriber.hpp` lines 34-114 | Keeps the latest odometry twist. The executor thread writes it and the controller reads it. |
| Kinematic parameters | `unnamed/part_000`, `part_002` | The velocity and acceleration limits, and `isValidSpeed`. |
| Velocity iterators, StandardTrajectoryGenerator | `dwb_plugins/standard_traj_generator.hpp`, tests in `unnamed/part_001` | Produce the twists and trajectories the planner scores. Only the header and tests are in the repository. |
| Goal checker | `dwb_plugins/test/goal_checker.cpp` (test only) | The position and velocity tolerance test behind `isGoalReached`. |
| BackUp recovery | `nav2_recoveries/src/back_up.cpp`, `back_up_action.hpp` | Drives backwards a given distance and simulates ahead for collisions. |
| Inflation layer | `nav2_costmap_2d/plugins/inflation_layer.cpp` | Spreads obstacle cost outwards in order of distance. |
| Map saver, test helpers, PlannerTester, geometry utils, build files | various | Scaffolding, I/O and configuration. |

How the planner's calls interact within one control cycle:

1. The controller calls `setPlan`, which replaces `global_plan_`.
2. `computeVelocityCommands` calls `prepareGlobalPlan`, which calls `transformGlobalPlan`. That function does the following:
   - it moves the robot pose into the plan frame;
   - it finds `transformation_begin`, the first pose closer than the start threshold;
   - it finds `transformation_end`, the first pose after that one that is farther than the end threshold;
   - it transforms the window between them into the costmap frame;
   - it erases the plan before `transformation_begin` when `prune_plan` is on.
3. `prepareGlobalPlan` takes the goal from the pruned plan's last pose.
4. The critics are prepared with the window and the goal.
5. `coreScoringAlgorithm` scores every twist with `scoreTrajectory`. That call stops early once the partial total exceeds the best total so far. A critic can reject a trajectory with `IllegalTrajectoryException`.
6. The best twist is returned, or `NoLegalTrajectoriesException` is thrown. In both cases the critics are debriefed first.

All of this runs on the caller's thread. The odometry the controller reads comes
from `OdomSubscriber`, which the executor thread writes. The costmap the critics
read is inflated by `InflationLayer::updateCosts` on the costmap thread. When the
controller fails, the behavior tree can run the BackUp recovery, whose loop calls
`onCycleUpdate` once per cycle.

## Modules

### `DWBLocalPlanner.tla`: the planner

**Abstractions:**

- Poses are integers on a line, so squared distances are exact.
- The costmap frame is the plan frame shifted by `FrameOffset`.
- The generator's twists are their indices `1..NumTwists`.
- A critic's answer for the current trajectory is an input. It is a raw score from `RawScores`, or `Illegal` when the critic throws.
- `CriticScale` holds the critics' scales in configured order.
- The illegal-trajectory tracker records only whether a legal trajectory was seen and which critics rejected one. The code keeps counts, but nothing the planner decides reads them, and counts would make the state space unbounded.

**State.** The variables are `global_plan_`, the robot pose of the call, the window and goal handed to the critics, and the loop state of `coreScoringAlgorithm` and `scoreTrajectory`: twist index, critic index, `score.total`, whether it broke out, which critic threw, `best`, and the illegal-trajectory tracker. The state also records the outcome of the call and the twist the critics were debriefed with.

**Ghost variables:**

- `lastSetPlan` is the plan last given to `setPlan`.
- `refTotal`, `refLegal` and `reference` hold the full score of every trajectory. That is the score `scoreTrajectory` would give without early termination.

**Actions:**

| Action | Code |
|---|---|
| `SetPlan(p)` | `setPlan` |
| `IsGoalReached(r)` | `isGoalReached` |
| `ComputeVelocityCommands(r, tfOk, winOk, goalOk)` | `computeVelocityCommands` up to the scoring loop: the empty-plan and TF throws, the whole of `transformGlobalPlan` including the prune and the zero-poses throw, and `prepareGlobalPlan`. `winOk` and `goalOk` are the outcomes of the later `transformPose` calls, whose results the code ignores: a failed window lookup gives default poses (`PoseToLocal`), a failed goal lookup leaves the goal in the plan frame (`LocalGoalOf`). The constant `LateTfCanFail` says whether they may fail. |
| `CriticStep` | one iteration of the critic loop of `scoreTrajectory`: zero-scale skip, add, early break, rejection |
| `EndTrajectory` | the rest of one twist iteration of `coreScoringAlgorithm`: tracker update and best update |
| `FinishCycle` | the `best.total < 0` test, the return or throw, and the debrief |

The loops are stepped one iteration at a time so that their invariants are state invariants. `setPlan` and `isGoalReached` are enabled only between cycles, because the same thread calls them.

### `OdomSubscriber.tla`

Two threads. `odomCallback` takes `odom_mutex_` (`CallbackStart`) and writes the
thresholded twist into `odom_vel_` one field at a time (`CallbackWrite`).
`getTwist` and `getTwistStamped` (`ReadStart`, `ReadField`) copy it one field at
a time without the mutex. Each field is a machine word, so a read returns the
last value written to it; the race is on the struct as a whole. Ghost variables:
`stored`, every value `odom_vel_` held between callbacks, and `clean`, no write
since the current copy began.

### `InflationLayer.tla`

`updateCosts` and `enqueue` on a small grid. `StartUpdateCosts(box)` clears
`seen_` and grows and clamps the window. The double loop that seeds bin 0 with
the window's lethal cells is one step per iteration: `ScanCell` looks at one
cell, `ScanNextRow` moves to the next row, and `EndScan` leaves the loop.
`ProcessCell` is one iteration of the inner loop of the bins. It skips a seen
cell. Otherwise it marks the cell, gives it the cost of its distance to its
source, and makes the four conditional `enqueue` calls (`EnqueueNeighbours`).
`NextBin` moves the outer iterator and `FinishUpdateCosts` clears the bins.
`LowerLayersUpdate(g)` is the environment rewriting the master grid between two
updates. Distances are squared cell distances, which order cells as `hypot` does.
The cost table `computeCost` fills is the constant `CostOfSq`.

### `BackUp.tla`

One line along the odom x axis, in units of the distance 0.025 m/s covers in one
cycle, so the k-th simulated displacement is k units. `OnRun(c)` is `onRun`;
`CycleNoPose`, `CycleReached`, `CycleCollisionAhead` and `CyclePublish` are the
four exits of `onCycleUpdate`; `IsCollisionFree` is the simulation loop with its
break before the check. The environment: `RobotMove` moves the robot one unit
along its heading at the published velocity, at most once per cycle;
`PoseLookupChange` makes `getCurrentPose` fail or succeed. The heading `facing`
is 1 (yaw 0) or -1 (yaw pi); the obstacles are a set of cells.

### `SafeBackUp.tla`

The abstract specification of what BackUp promises, written from the spec and
not from the code. `Start(c)` begins a run from the current pose, or fails.
`Advance` moves the robot one cell in the command's direction while it has not
covered the distance. It never moves onto an obstacle unless that cell
completes the distance. `Finish` ends the run. BackUp is shown to implement it
under the identity mapping: the two modules share `status`, `commandX`,
`initialPose`, `pose` and `obstacles`, and BackUp's `vel`, `travelled` and
pose-lookup state are hidden.

### `MC_*.tla`

These modules give model values to the constants whose values cfg files cannot write: position and plan sets, critic scale vectors, odometry velocities, grids and cost tables, BackUp commands and obstacle maps.

### `DWBLocalPlanner_proofs.tla`, `OdomSubscriber_proofs.tla`, `BackUp_proofs.tla`, `InflationLayer_proofs.tla`

These modules hold the TLAPS proofs (see below).

## Runs

| Run | cfg | Expect | Checks |
|---|---|---|---|
| window | `DWBLocalPlanner_window.cfg` | pass | `TypeOK`; `LocalGoalIsPlanGoal`: during scoring the critics' goal is the last pose of the plan last set, in the costmap frame; `WindowIsPlanSegment`: during scoring the window is a contiguous segment of the stored plan moved into the costmap frame; `PruneOnlyDropsPassedPoses` (action property): each step either sets a plan or leaves a suffix of the stored plan, every erased pose being outside the start threshold of that call's robot pose. |
| scoring | `DWBLocalPlanner_scoring.cfg` | pass | `SelectionMatchesFullScoring`: the twist returned is a legal twist with the least full score and the first in sample order on a tie, and NoLegal is thrown only when no twist is legal; `SelectionInv`: the inductive invariant behind that property (below), checked on every reachable state. A mutant that drops `best_score > 0` from the early-exit test of line 563 breaks both: the first trajectory is then cut against the -1 sentinel after its first critic and becomes best with a partial total. |
| negscale | `DWBLocalPlanner_negscale.cfg` | violation | `SelectionMatchesFullScoring` with scales `<<1, 0, -1>>`. |
| prunegoal | `DWBLocalPlanner_prunegoal.cfg` | violation | `GoalNeverPruned`. |
| noprune | `DWBLocalPlanner_noprune.cfg` | violation | `NoSpuriousEmptyWindow` with `prune_plan` off. |
| goaltf | `DWBLocalPlanner_goaltf.cfg` | violation | `LocalGoalIsPlanGoal` when the goal's `transformPose` may fail. |
| odom | `OdomSubscriber.cfg` | pass | `CleanReadIsLastMessage`: a copy that no callback overlapped returns the last message, thresholded, under its stamp; `IInv`: the inductive invariant `CleanReadCorrect` is proved from (below). |
| odom_torn | `OdomSubscriber_torn.cfg` | violation | `ReadIsStoredTwist`: every copy is some value `odom_vel_` held. |
| inflation | `InflationLayer_cover.cfg` | pass | `TypeOK`; `InflationCoversRadius`: when `updateCosts` returns, every cell within the radius of a lethal cell holds the cost of its distance to one of them and every other cell is untouched; `ChangedOnlyWithinRadius`: at every point, a changed cell lies within the radius of a lethal cell of the window and holds the cost of its distance to one of them; `IInv`: the inductive invariant of the inflation proofs; `NothingQueuedBehind` (action property): no cell is appended to a bin the iterator has passed. |
| inflation_nearest | `InflationLayer_nearest.cfg` | violation | `InflationUsesNearestObstacle`: the cost is that of the nearest lethal cell. |
| backup | `BackUp.cfg` | pass | `NoCollisionBeforeTarget`: the robot never stands on an obstacle before covering the commanded distance; `RefinementInv`: the invariant the refinement proof rests on; `BackUpTerminates`: a running BackUp ends; `RefinesSafeBackUp`: every behaviour is one of `SafeBackUp`. |
| backup_heading | `BackUp_heading.cfg` | violation | `NoCollisionBeforeTarget` for a robot facing -x. |

**Bounds.** Window runs use positions 0..5 and plans `<<0,2,4>>`, `<<5,3,1>>` and `<<1,4,1>>`, with `FrameOffset` 1, a costmap radius of 3 and a prune distance of 2. With these values:

- the robot can be on, before, between or beyond the poses;
- windows can be empty, partial or full;
- a plan can come back towards the robot;
- the prune can erase nothing, some poses or all of them.

The scoring run uses 3 twists, 3 critics with one scale 0, and raw scores 0..2 or a rejection. This covers the following:

- early breaks, both when best is 0 and when it is positive;
- ties;
- rejections after a partial total;
- cycles where every twist is rejected.

OdomSubscriber: two messages, velocities -2, 1, 2 against thresholds of 1 (so a
component is zeroed or kept, of either sign), and any number of copies. Two
messages are enough for a copy to straddle a callback and see both.

Inflation: a 5x5 map, radius 3 cells, one to three lethal cells among seven
chosen so that a cell lies between two obstacles at nearly the same distance,
at most one unknown cell, and the window being the whole map or a corner.

BackUp: start 0, commands -4, 0 and 3, obstacle maps of at most two cells in
-5..5, and `max_cycle_count` 3. Obstacles can lie before, at and after the
target on either side, and the simulation horizon is shorter than the command.

**Fairness.** The DWB and inflation runs check no liveness and use `Spec`
without fairness. Their loops are bounded: the twist and critic counters only
grow, and a 4-neighbour's squared distance to a source differs from the cell's
by the odd number 2dx+1, so `enqueue` never appends to the bin being walked. A
termination property would then hold whatever the code did, so none is
checked.

BackUp's `FairSpec` has weak fairness on `CycleUpdate`, because the recovery loop
keeps calling `onCycleUpdate` while it returns RUNNING. It also has weak
fairness on `RobotMove`: a published velocity eventually moves the robot, that
is, it is not stalled for ever. The pose lookup gets no fairness. It may be lost
for good, and then `CycleNoPose` ends the recovery.

## Findings

1. **negscale.** `best.total = -1` is both a sentinel and a possible score. With a negative critic scale, a legal trajectory totalling -1 is taken for "nothing legal". The cycle can then throw `NoLegalTrajectoriesException` even though a legal trajectory exists. The code needs non-negative scales and raw scores, and neither the code nor the spec says so. The scoring run keeps scales non-negative.
2. **prunegoal.** When no plan pose is within the start threshold, `transformation_begin` is the end iterator. The prune then erases the whole plan, goal included. Every later call throws "zero length" until `setPlan` is called again.
3. **noprune.** With `prune_plan` off, the start threshold (the costmap radius) exceeds the end threshold (`min(radius, prune_distance)`, because `shorten_transformed_plan` is hard-coded true). The window can be empty even though poses lie next to the robot.

4. **inflation_nearest.** A cell takes the cost of the obstacle whose wave reached it first, not of the nearest one (`inflation_layer.cpp` lines 221-225 against the comment at 192-193). In TLC's trace (5x5 map, radius 3, lethal cells (0,4), (1,2) and (2,1)), cell (3,4) is claimed from (0,4) at squared distance 9 and gets cost 72, although (1,2) is at squared distance 8, whose cost is 92. The cell is still inflated (run inflation).
5. **odom_torn.** `getTwist` and `getTwistStamped` copy `odom_vel_` without the mutex that `odomCallback` holds while writing it. A copy can mix the fields of two messages, although the class comment says the topic is read with a mutex.
6. **backup_heading.** `isCollisionFree` adds the simulated displacement to x whatever the yaw, but the robot moves along its heading. In TLC's trace the robot faces -x at 0 with an obstacle at 1 and `command_x` -4. The check simulates x = 0, -1, -3, all free, and the published -0.025 moves the robot backwards onto the obstacle at 1. With a forward command the mirror case happens.
7. **goaltf.** `prepareGlobalPlan` ignores the result of the goal's `transformPose`. When the lookup fails, the critics get the goal in the plan frame. The spec says a transform error fails the cycle.
The same omission is at line 663: `transformGlobalPoseToLocal` returns a default pose when its lookup fails, so the critics get a window of origin poses. With `LateTfCanFail = TRUE`, `WindowIsPlanSegment` fails in the same way; the window run keeps those lookups successful.

## Proofs

`DWBLocalPlanner_proofs.tla` proves **`TypeCorrect`**: `Spec => []TypeOK` for every value of the constants allowed by `PlanAssumption` and `ScoringAssumption`. It is the usual induction:

- `Init => TypeOK`;
- `TypeOK /\ [Next]_vars => TypeOK'`, with one step per action;
- `PTL`.

`TypeOK` is inductive as it stands. The work is in the window action, which rests on these lemmas:

- `MinExists`: a non-empty set of naturals has a least element. It follows from `WFMin` and `NatLessThanWellFounded`, so the `CHOOSE` in `FindFrom` is the first matching index.
- `BeginType` and `EndType`: `1 <= transformation_begin <= transformation_end <= Len + 1`.
- `TransformedPlanType`: the window is a sequence of length `end - begin`.
- `PrunedPlanType`: the pruned plan is a sequence. When the window is non-empty, the pruned plan is non-empty and keeps the plan's last pose, so the goal pose read by `prepareGlobalPlan` exists.

`DWBLocalPlanner_proofs.tla` also proves **`SelectionCorrect`**. It assumes `ScalesNonNeg` (every critic scale is at least 0) and shows `Spec => [](SelectionInv /\ SelectionMatchesFullScoring)`. `SelectionMatchesFullScoring` alone is not inductive, because it speaks only of the end of a cycle. The strengthening `SelectionInv` speaks of the twists already scored in the cycle, `ScoredTwists` (those below `twist`), and of the legal ones among them, `LegalScored`. It has three parts:

- `BestInv`: every legal full score so far is at least 0; `best.total < 0` exactly when no scored twist is legal; otherwise `best` is the first scored legal twist of least full score, and `best.total` is its full score.
- `CurrentInv`: while a twist is being scored, its full score so far is at least 0. A rejection means the twist is illegal and was not cut. When not cut and not rejected, the code's total equals the full score. When cut, `best.total > 0` and the full score is at least the code's total, which exceeds `best.total`.
- `ResultInv`: a returned command or a NoLegal throw happens only with every twist scored, and agrees with `best`.

The argument, one lemma per action:

- `computeVelocityCommands` resets to the sentinel with nothing scored.
- A critic step keeps the total equal to the full score until the break. After the break the full score can only grow, because scales and raw scores are non-negative. This is the one place `ScalesNonNeg` is used, and run negscale shows it is needed.
- The end of a trajectory makes it best exactly when it is legal, uncut and strictly below `best.total`. That is exactly when it becomes the first least: a cut trajectory's full score exceeds `best.total`, and a tie goes to the earlier twist.
- `FinishCycle` reads off `best`.
- With `twist = NumTwists + 1`, `ScoredTwists` is all of `Twists`, so `BestInv` and `ResultInv` give the property.

The lemmas `ScoredFacts`, `SelectionCallStep`, `SelectionStartStep`, `SelectionCriticStep`, `SelectionEndStep`, `SelectionFinishStep`, `SelectionInit`, `SelectionStep` and `SelectionImpliesMatch` carry the steps.

`DWBLocalPlanner_proofs.tla` also proves **`LocalGoalCorrect`**: under
`LookupsSucceed` (`LateTfCanFail = FALSE`), `Spec => []LocalGoalIsPlanGoal`. The
property alone is not inductive, because the goal is taken from the stored plan
after pruning. The strengthening `StoredGoalInv` says that the stored plan, while
not empty, ends with the last pose of the plan last set. The lemma
`PrunedKeepsGoal` shows that whatever the prune keeps ends with the plan's last
pose. This covers the case where `transformation_begin` is the end iterator, in
which the prune leaves an empty plan. Run goaltf shows the assumption is needed.

`BackUp_proofs.tla` proves **`CollisionCheckSafe`**: under `ForwardFacing` (the
robot faces +x) and `LongEnough` (`max_cycle_count >= 2`),
`Spec => []NoCollisionBeforeTarget`, for every command, start and obstacle map.
The strengthening `IInv` adds the following:

- `IdleInv`: before `onRun` the robot is still and outside every obstacle.
- `RunInv`: while running, the robot has moved only in the command's direction. The published velocity is zero or that direction, and a velocity not yet acted on leads to a cell that was checked free, unless that cell ends the commanded distance.

The last conjunct is what `RobotMove` needs. It holds because `isCollisionFree`
checks the cell one step ahead (k = 1), and that needs `max_cycle_count >= 2`.
With `max_cycle_count` 1 the loop checks only the current pose; no run checks
that case. Run backup_heading shows
`ForwardFacing` is needed.

`BackUp_proofs.tla` also proves **`BackUpRefinesSafe`**: under the same two
assumptions, `Spec => RefinesSafeBackUp`, that is, BackUp implements
`SafeBackUp`. It is the usual refinement argument:

- `RefineInit`: an initial state of BackUp is one of `SafeBackUp`.
- `RefineStep`: under `RefinementInv`, every step of BackUp is a `SafeBackUp`
  step or leaves its variables unchanged. `OnRun` is `Start`.
  `CycleReached`, `CycleCollisionAhead` and `CycleNoPose` are `Finish`.
  `RobotMove` is `Advance`. The publish step and the pose lookup are stutters.

`RobotMove` is `Advance` only if the robot has not yet covered the distance,
since the abstract `Advance` needs `Covered < |commandX|`. That fact is
`PublishedInv`: a running BackUp with a non-zero velocity and no move yet this
cycle has not covered the distance. It holds because `CyclePublish` is guarded
by `Distance < |commandX|`. `RefinementInv == IInv /\ PublishedInv`. A mutant
that publishes at the target distance makes TLC find `RefinesSafeBackUp`
violated.

`OdomSubscriber_proofs.tla` proves **`CleanReadCorrect`**:
`Spec => []CleanReadIsLastMessage`. It holds for every set of velocities,
thresholds and number of messages allowed by `OdomAssumption`. The property
speaks only of a finished copy. The strengthening `IInv` also speaks of a copy
and a callback that are midway. Fields are ranked in the order both threads go
through them (`header`, `x`, `y`, `theta`):

- `WriterInv`: the fields the callback has already written hold the new
  message's thresholded value.
- `ReadInv`: while no write has overlapped the copy, each field the copy has
  already read equals that field of `odom_vel_`. The copy's header is 0 until
  it is stamped.
- `ResultInv`: a finished clean copy is what `getTwist` and `getTwistStamped`
  return of `odom_vel_`.

A write by the callback makes the copy unclean, so `ReadInv` is needed only for
clean copies. A copy started while a callback is midway sees, field by field,
what `WriterInv` describes. The odom run also checks `IInv`. A callback that
forgets to assign `velocity.y` (the field order skipping y) breaks `WriterInv`.

`DWBLocalPlanner_proofs.tla` also proves these:

- **`WindowCorrect`**: under `LookupsSucceed`, `Spec => []WindowIsPlanSegment`.
  `TypeOK` is enough as the strengthening. The lemma `WindowOfPrunedPlan` shows
  that the window `transformGlobalPlan` builds is a segment of the stored plan
  after the prune. It starts at index 0 when the prune ran, and at
  `transformation_begin - 1` when it did not.
- **`PruneCorrect`**: the action property `PruneOnlyDropsPassedPoses`. It
  follows from `TypeCorrect` and the step lemma `PruneStep`. The lemma
  `BeginSkipsFarPoses` shows that every pose before `transformation_begin` is at
  least the start threshold from the robot. This is because
  `transformation_begin` is the least index inside it (`MinExists`).
- **`ScoringLoopInvariant`**: `Spec => []SelectionInv` under `ScalesNonNeg`.
  It is stated apart from `SelectionCorrect` because the scoring run checks it.

`OdomSubscriber_proofs.tla` and `BackUp_proofs.tla` also state their
strengthenings as theorems of their own, **`IInvHolds`** and
**`RefinementInvHolds`**, because the odom and backup runs check them.

`InflationLayer_proofs.tla` proves **`InflationTypeCorrect`**
(`Spec => []TypeOK`) and **`InflationSound`**
(`Spec => []ChangedOnlyWithinRadius`). They hold for every map size, radius,
cost table, set of grids and set of windows allowed by `InflationAssumption`.
Both follow from **`IInvHolds`**. `TypeOK` is not inductive alone: costing a
cell reads `CostOfSq` at the cell's distance to its source, and nothing in
`TypeOK` says that distance is within the radius. The strengthening `IInv`
adds the following:

- `WellKeyed(bins, sources)`: every queued `<<cell, source>>` sits in the bin of
  its squared distance to the source, and the source is a lethal cell the scan
  found.
- `UnseenInv`: a cell not yet marked in `seen_` still holds what the lower layers
  wrote, so the first time a cell is taken out of a bin its cost combines with
  the lower layers' cost.
- Between calls the queue is empty, so `LowerLayersUpdate` can reset `sources`.

The lemmas `AppendInv`, `EnqueueInv` and `EnqueueNeighboursInv` show that a
scan step and the four `enqueue` calls keep the queue well typed and well keyed.

To make these proofs possible, the model had to give up the community modules'
`FoldLeft` and `SetToSortSeq`, which are recursive. The obstacle scan is now
the code's double loop, one step per iteration. The neighbour enqueue is the
four `if`s of lines 243-255. Both are closer to the code than the folds they
replace, and the runs give the same results.

**Only model-checked.** The following are checked by TLC and not proved:

- `BackUpTerminates`, the only liveness property: TLAPS does not handle liveness or `ENABLED`.
- `InflationCoversRadius`, the completeness half: every cell within the radius of a lethal cell is reached. `NothingQueuedBehind` is also unproved. Both rest on a geometric argument about the whole wave: which cells each source's wave has reached, and in which order, as distances grow. That is induction over paths in the grid, which these provers cannot do here. TLC checks them on the 5x5 map.

## Not modelled, and why

- **Trajectory generation and velocity sampling.** Only headers and tests are in the repository. Here they are abstracted to a count of twists.
- **Worst-score tracking, the `results` evaluation and the publishers.** Nothing the planner decides depends on them.
- **The transform of the robot pose inside `isGoalReached`** (lines 364-369). Only the window and goal lookups of `computeVelocityCommands` are modelled as failing.
- **Plugin loading and parameter reading** (`on_configure`, `loadCritics`). Their result is the model's constants.
- **Kinematic parameters.** These are parameter reads and a speed predicate with no state machine. Their hazards are listed in `PROJECT.json`.
- **Inflation layer bookkeeping.** `updateBounds` and `onFootprintChanged` work in floating-point world coordinates, and `computeCaches` and `deleteKernels` only allocate lookup tables. Their results are the model's windows and `CostOfSq`.
- **The Recovery base class and the BackUp behavior-tree node.** The loop that calls `onCycleUpdate` is not in this repository. It is modelled only as the guard `status = "RUNNING"` and the fairness of the loop. The BT node only fills in the goal. `RobotMove` moves the robot only while the status is RUNNING, so the velocity `CycleNoPose` leaves published after FAILED (it does not call `stopRobot`) is not explored.
- **Map saver, behavior-tree engine, test helpers and build files.** These are I/O and scaffolding.
