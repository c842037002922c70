------------------------ MODULE MC_DWBLocalPlanner --------------------------
(***************************************************************************)
(* Small instances of DWBLocalPlanner for TLC.                             *)
(*                                                                         *)
(* Poses lie on 0..5.  The costmap reaches 3 from the robot and the prune  *)
(* distance is 2, so the start threshold (pruned) keeps poses within 1 of  *)
(* the robot and the end threshold cuts the window beyond 2.  The plans    *)
(* run forwards, backwards and double back, so that the robot can be near  *)
(* the start, the middle, the end or none of a plan.                       *)
(*                                                                         *)
(* Three twists and three critics, the middle one with scale 0, raw scores *)
(* 0..2: totals reach 0, ties and the early exit above a positive best.    *)
(***************************************************************************)
EXTENDS DWBLocalPlanner

MCPositions == 0 .. 5

MCPlans == {<<>>, <<0, 2, 4>>, <<5, 3, 1>>, <<1, 4, 1>>}

\* Plans for the scoring runs, where the window is not the question.
MCScoringPlans == {<<2>>}

MCScoringPositions == {2}

MCCriticScale == <<1, 0, 2>>

\* One critic that scores everything 0, for the window runs.
MCOneCritic == <<1>>

\* A critic configured with a negative scale, which nothing rejects.
MCNegativeScale == <<1, 0, -1>>
=============================================================================
