----------------------- MODULE DWBLocalPlanner_proofs -----------------------
(***************************************************************************)
(* Machine-checked proofs about the DWB local planner model, for every     *)
(* value of the constants that satisfies PlanAssumption and                *)
(* ScoringAssumption.                                                      *)
(***************************************************************************)
EXTENDS DWBLocalPlanner, SequenceTheorems, WellFoundedInduction, TLAPS

(***************************************************************************)
(* Lemmas about the helpers of transformGlobalPlan.                        *)
(***************************************************************************)

\* A non-empty set of naturals has a least element, so the CHOOSE of
\* FindFrom picks the first matching index (the one std::find_if returns).
LEMMA MinExists ==
  ASSUME NEW T \in SUBSET Nat, T # {}
  PROVE  \E x \in T : \A y \in T : x <= y
<1>. DEFINE R == {ss \in Nat \X Nat : ss[1] < ss[2]}
<1>1. IsWellFoundedOn(R, Nat)
  <2>1. R = OpToRel(<, Nat)
    BY Zenon DEF OpToRel
  <2>. QED  BY <2>1, NatLessThanWellFounded
<1>2. \E x \in T : \A y \in T : ~(<<y, x>> \in R)
  BY <1>1, WFMin
<1>3. ASSUME NEW x \in Nat, NEW y \in Nat, y < x PROVE <<y, x>> \in R
  BY <1>3
<1>4. PICK x \in T : \A y \in T : ~(<<y, x>> \in R)
  BY <1>2
<1>5. ASSUME NEW y \in T PROVE x <= y
  <2>1. ~(y < x)
    BY <1>3, <1>4
  <2>. QED  BY <2>1
<1>. QED  BY <1>5

\* transformation_begin is an index of the plan or its end.
LEMMA BeginType ==
  ASSUME NEW s \in Seq(Int), NEW rp \in Int
  PROVE  TransformationBegin(s, rp) \in 1 .. Len(s) + 1
<1>. DEFINE hits == {i \in 1 .. Len(s) : SqDist(rp, s[i]) < StartThreshold}
<1>1. CASE hits = {}
  BY <1>1 DEF TransformationBegin, FindFrom
<1>2. CASE hits # {}
  <2>1. hits \in SUBSET Nat
    OBVIOUS
  <2>2. \E x \in hits : \A y \in hits : x <= y
    BY <1>2, <2>1, MinExists
  <2>3. hits \subseteq 1 .. Len(s)
    OBVIOUS
  <2>4. (CHOOSE i \in hits : \A j \in hits : i <= j) \in hits
    BY <2>2
  <2>5. TransformationBegin(s, rp) = CHOOSE i \in hits : \A j \in hits : i <= j
    BY <1>2 DEF TransformationBegin, FindFrom
  <2>. QED  BY <2>3, <2>4, <2>5
<1>. QED  BY <1>1, <1>2

\* transformation_end lies between transformation_begin and the plan's end.
LEMMA EndType ==
  ASSUME NEW s \in Seq(Int), NEW rp \in Int, NEW b \in 1 .. Len(s) + 1
  PROVE  TransformationEnd(s, rp, b) \in b .. Len(s) + 1
<1>. DEFINE hits == {i \in b .. Len(s) : SqDist(rp, s[i]) > EndThreshold}
<1>1. CASE hits = {}
  BY <1>1 DEF TransformationEnd, FindFrom
<1>2. CASE hits # {}
  <2>1. hits \in SUBSET Nat
    OBVIOUS
  <2>2. \E x \in hits : \A y \in hits : x <= y
    BY <1>2, <2>1, MinExists
  <2>3. hits \subseteq b .. Len(s)
    OBVIOUS
  <2>4. (CHOOSE i \in hits : \A j \in hits : i <= j) \in hits
    BY <2>2
  <2>5. TransformationEnd(s, rp, b) = CHOOSE i \in hits : \A j \in hits : i <= j
    BY <1>2 DEF TransformationEnd, FindFrom
  <2>. QED  BY <2>3, <2>4, <2>5
<1>. QED  BY <1>1, <1>2

\* The window handed to the critics is a sequence of costmap poses.
LEMMA TransformedPlanType ==
  ASSUME NEW s \in Seq(Int), NEW b \in 1 .. Len(s) + 1,
         NEW e \in b .. Len(s) + 1, NEW ok \in BOOLEAN
  PROVE  /\ TransformedPlan(s, b, e, ok) \in Seq(Int)
         /\ Len(TransformedPlan(s, b, e, ok)) = e - b
<1>1. \A i \in 1 .. (e - b) : PoseToLocal(s[b + i - 1], ok) \in Int
  BY PlanAssumption DEF PoseToLocal, DefaultPose
<1>2. TransformedPlan(s, b, e, ok) \in [1 .. (e - b) -> Int]
  BY <1>1 DEF TransformedPlan
<1>3. e - b \in Nat
  OBVIOUS
<1>4. TransformedPlan(s, b, e, ok) \in Seq(Int)
  BY <1>2, <1>3, SeqDef
<1>5. /\ Len(TransformedPlan(s, b, e, ok)) \in Nat
      /\ DOMAIN TransformedPlan(s, b, e, ok)
           = 1 .. Len(TransformedPlan(s, b, e, ok))
  BY <1>4, LenProperties
<1>6. 1 .. Len(TransformedPlan(s, b, e, ok)) = 1 .. (e - b)
  BY <1>2, <1>5
<1>. QED  BY <1>3, <1>4, <1>5, <1>6

\* The pruned plan is a sequence; when the window is not empty it still
\* ends with the plan's last pose.
LEMMA PrunedPlanType ==
  ASSUME NEW s \in Seq(Int), NEW b \in 1 .. Len(s) + 1
  PROVE  /\ PrunedPlan(s, b) \in Seq(Int)
         /\ b <= Len(s) =>
              /\ Len(PrunedPlan(s, b)) > 0
              /\ PrunedPlan(s, b)[Len(PrunedPlan(s, b))] = s[Len(s)]
<1>1. \A i \in b .. Len(s) : s[i] \in Int
  OBVIOUS
<1>2. /\ SubSeq(s, b, Len(s)) \in Seq(Int)
      /\ Len(SubSeq(s, b, Len(s))) = IF b <= Len(s) THEN Len(s) - b + 1 ELSE 0
      /\ \A i \in 1 .. Len(s) - b + 1 : SubSeq(s, b, Len(s))[i] = s[b + i - 1]
  BY <1>1, SubSeqProperties
<1>3. CASE PrunePlan
  <2>1. PrunedPlan(s, b) = SubSeq(s, b, Len(s))
    BY <1>3 DEF PrunedPlan
  <2>2. ASSUME b <= Len(s)
        PROVE  SubSeq(s, b, Len(s))[Len(s) - b + 1] = s[Len(s)]
    BY <1>2, <2>2
  <2>. QED  BY <1>2, <2>1, <2>2
<1>4. CASE ~PrunePlan
  BY <1>4 DEF PrunedPlan
<1>. QED  BY <1>3, <1>4

-----------------------------------------------------------------------------
(***************************************************************************)
(* Type correctness.                                                       *)
(***************************************************************************)

\* The initial state is well typed.
LEMMA TypeInit == Init => TypeOK
<2>. USE ScoringAssumption
  <2>. SUFFICES ASSUME Init PROVE TypeOK
    OBVIOUS
  <2>1. <<>> \in Seq(Int)
    BY EmptySeq
  <2>2. best \in Record(0 .. NumTwists)
    BY DEF Init, NoScore, NoTwist, Record
  <2>3. tracker \in [legal : BOOLEAN, illegal : SUBSET Critics]
    BY DEF Init, NoIllegal
  <2>4. /\ result \in [kind : Outcomes, twist : 0 .. NumTwists]
        /\ debriefed \in 0 .. NumTwists
    BY DEF Init, NoTwist, Outcomes
  <2>5. reference \in [Twists -> [legal : BOOLEAN, total : Int]]
    BY DEF Init
  <2>6. /\ twist \in 1 .. NumTwists + 1
        /\ critic \in 1 .. NumCritics + 1
        /\ rejectedBy \in 0 .. NumCritics
        /\ total \in Int /\ refTotal \in Int /\ localGoal \in Int
    BY DEF Init
  <2>7. /\ globalPlan = <<>> /\ localPlan = <<>> /\ lastSetPlan = <<>>
        /\ phase \in {"idle", "scoring"} /\ robot \in Positions
        /\ cut \in BOOLEAN /\ goalReached \in BOOLEAN /\ refLegal \in BOOLEAN
    BY DEF Init
  <2>. QED  BY <2>1, <2>2, <2>3, <2>4, <2>5, <2>6, <2>7 DEF TypeOK

\* Every step of the planner keeps every variable within its type.
LEMMA TypeStep == TypeOK /\ [Next]_vars => TypeOK'
<2>. USE ScoringAssumption
  <2>. SUFFICES ASSUME TypeOK, [Next]_vars PROVE TypeOK'
    OBVIOUS
  <2>1. ASSUME NEW p \in Plans, SetPlan(p) PROVE TypeOK'
    <3>1. p \in Seq(Int)
      <4>1. Plans \subseteq Seq(Positions) /\ Positions \subseteq Int
        BY PlanAssumption
      <4>. QED  BY <4>1, SeqMonotonic
    <3>2. /\ globalPlan' = p /\ lastSetPlan' = p
          /\ result' \in [kind : Outcomes, twist : 0 .. NumTwists]
      BY <2>1 DEF SetPlan, Outcomes, NoTwist
    <3>3. UNCHANGED <<phase, robot, localPlan, localGoal, debriefed,
                      goalReached, refTotal, refLegal, reference>>
      BY <2>1 DEF SetPlan
    <3>4. UNCHANGED <<twist, critic, total, cut, rejectedBy, best, tracker>>
      BY <2>1 DEF SetPlan, scoreVars
    <3>. QED  BY <3>1, <3>2, <3>3, <3>4 DEF TypeOK
  <2>2. ASSUME NEW r \in Positions, IsGoalReached(r) PROVE TypeOK'
    <3>1. /\ goalReached' \in BOOLEAN
          /\ result' \in [kind : Outcomes, twist : 0 .. NumTwists]
      BY <2>2 DEF IsGoalReached, Outcomes, NoTwist
    <3>2. UNCHANGED <<globalPlan, phase, robot, localPlan, localGoal, debriefed>>
      BY <2>2 DEF IsGoalReached
    <3>3. UNCHANGED <<twist, critic, total, cut, rejectedBy, best, tracker>>
      BY <2>2 DEF IsGoalReached, scoreVars
    <3>4. UNCHANGED <<lastSetPlan, refTotal, refLegal, reference>>
      BY <2>2 DEF IsGoalReached, ghostVars
    <3>. QED  BY <3>1, <3>2, <3>3, <3>4 DEF TypeOK
  <2>3. ASSUME NEW r \in Positions, NEW tfOk \in BOOLEAN,
               NEW winOk \in BOOLEAN, NEW goalOk \in BOOLEAN,
               ComputeVelocityCommands(r, tfOk, winOk, goalOk)
        PROVE  TypeOK'
    <3>a. /\ twist' = 1 /\ critic' = 1 /\ total' = 0 /\ cut' = FALSE
          /\ rejectedBy' = 0 /\ refTotal' = 0 /\ refLegal' = TRUE
      BY <2>3 DEF ComputeVelocityCommands
    <3>0. /\ best' = NoScore
          /\ tracker' = [legal |-> FALSE, illegal |-> NoIllegal]
          /\ refTotal' = 0 /\ refLegal' = TRUE
          /\ reference' = [t \in Twists |-> [legal |-> FALSE, total |-> 0]]
          /\ robot' = r
          /\ UNCHANGED <<goalReached, lastSetPlan>>
      BY <2>3 DEF ComputeVelocityCommands
    <3>1. /\ twist' \in 1 .. NumTwists + 1
          /\ critic' \in 1 .. NumCritics + 1
          /\ total' \in Int /\ cut' \in BOOLEAN
          /\ rejectedBy' \in 0 .. NumCritics
          /\ best' \in Record(0 .. NumTwists)
          /\ tracker' \in [legal : BOOLEAN, illegal : SUBSET Critics]
          /\ refTotal' \in Int /\ refLegal' \in BOOLEAN
          /\ reference' \in [Twists -> [legal : BOOLEAN, total : Int]]
          /\ robot' \in Positions
          /\ UNCHANGED <<goalReached, lastSetPlan>>
      <4>1. /\ twist' \in 1 .. NumTwists + 1
            /\ critic' \in 1 .. NumCritics + 1
            /\ total' \in Int /\ cut' \in BOOLEAN
            /\ rejectedBy' \in 0 .. NumCritics
            /\ refTotal' \in Int /\ refLegal' \in BOOLEAN
        <5>1. twist' \in 1 .. NumTwists + 1
          BY <3>a
        <5>2. critic' \in 1 .. NumCritics + 1
          BY <3>a
        <5>3. rejectedBy' \in 0 .. NumCritics
          BY <3>a
        <5>4. total' \in Int /\ refTotal' \in Int
          BY <3>a
        <5>5. cut' \in BOOLEAN /\ refLegal' \in BOOLEAN
          BY <3>a
        <5>. QED  BY <5>1, <5>2, <5>3, <5>4, <5>5
      <4>2. best' \in Record(0 .. NumTwists)
        BY <3>0 DEF Record, NoScore, NoTwist
      <4>3. tracker' \in [legal : BOOLEAN, illegal : SUBSET Critics]
        BY <3>0 DEF NoIllegal
      <4>4. reference' \in [Twists -> [legal : BOOLEAN, total : Int]]
        BY <3>0
      <4>. QED  BY <3>0, <4>1, <4>2, <4>3, <4>4
    <3>2. CASE globalPlan = <<>> \/ ~tfOk
      <4>. /\ result' \in [kind : Outcomes, twist : 0 .. NumTwists]
           /\ UNCHANGED <<globalPlan, phase, localPlan, localGoal, debriefed>>
        BY <2>3, <3>2 DEF ComputeVelocityCommands, Throw, Outcomes, NoTwist
      <4>. QED  BY <3>1 DEF TypeOK
    <3>3. CASE globalPlan # <<>> /\ tfOk
      <4>. DEFINE rp == r - FrameOffset
                  b  == TransformationBegin(globalPlan, rp)
                  e  == TransformationEnd(globalPlan, rp, b)
                  lp == TransformedPlan(globalPlan, b, e, winOk)
      <4>. HIDE DEF rp, b, e, lp
      <4>1. rp \in Int /\ globalPlan \in Seq(Int)
        BY PlanAssumption DEF TypeOK, rp
      <4>2. b \in 1 .. Len(globalPlan) + 1
        BY <4>1, BeginType DEF b
      <4>3. e \in b .. Len(globalPlan) + 1
        BY <4>1, <4>2, EndType DEF e
      <4>4. lp \in Seq(Int) /\ Len(lp) = e - b
        BY <4>1, <4>2, <4>3, TransformedPlanType DEF lp
      <4>5. /\ PrunedPlan(globalPlan, b) \in Seq(Int)
            /\ b <= Len(globalPlan) =>
                 /\ Len(PrunedPlan(globalPlan, b)) > 0
                 /\ PrunedPlan(globalPlan, b)[Len(PrunedPlan(globalPlan, b))]
                      = globalPlan[Len(globalPlan)]
        BY <4>1, <4>2, PrunedPlanType
      <4>6. globalPlan' = PrunedPlan(globalPlan, b)
        BY <2>3, <3>3 DEF ComputeVelocityCommands, rp, b, e, lp
      <4>7. CASE lp = <<>>
        <5>. /\ result' \in [kind : Outcomes, twist : 0 .. NumTwists]
             /\ UNCHANGED <<phase, localPlan, localGoal, debriefed>>
          BY <2>3, <3>3, <4>7 DEF ComputeVelocityCommands, Throw, Outcomes,
                                  NoTwist, rp, b, e, lp
        <5>. QED  BY <3>1, <4>5, <4>6 DEF TypeOK
      <4>8. CASE lp # <<>>
        <5>1. /\ phase' = "scoring"
              /\ localPlan' = lp
              /\ localGoal' = LocalGoalOf(globalPlan', lp, goalOk)
              /\ result' \in [kind : Outcomes, twist : 0 .. NumTwists]
              /\ UNCHANGED debriefed
          BY <2>3, <3>3, <4>8 DEF ComputeVelocityCommands, Throw, Outcomes,
                                  NoTwist, rp, b, e, lp
        <5>2. b <= Len(globalPlan)
          <6>1. Len(lp) \in Nat \ {0}
            BY <4>4, <4>8, EmptySeq
          <6>2. Len(globalPlan) \in Nat
            BY <4>1, LenProperties
          <6>. QED  BY <4>2, <4>3, <4>4, <6>1, <6>2
        <5>3. globalPlan[Len(globalPlan)] \in Int
          BY <4>1, <4>2, <5>2, ElementOfSeq
        <5>4. localGoal' \in Int
          BY <5>1, <5>2, <5>3, <4>5, <4>6, PlanAssumption DEF LocalGoalOf
        <5>. QED  BY <3>1, <4>4, <4>5, <4>6, <5>1, <5>4 DEF TypeOK
      <4>. QED  BY <4>7, <4>8
    <3>. QED  BY <3>2, <3>3
  <2>4. ASSUME CriticStep PROVE TypeOK'
    <3>1. critic \in Critics /\ twist \in Twists
      BY <2>4 DEF CriticStep
    <3>2. CriticScale[critic] \in Int
      BY <3>1 DEF Critics
    <3>3. ASSUME NEW raw \in RawScores \cup {Illegal}, ScoreCritic(raw)
          PROVE  /\ total' \in Int /\ cut' \in BOOLEAN
                 /\ rejectedBy' \in 0 .. NumCritics
                 /\ refTotal' \in Int /\ refLegal' \in BOOLEAN
      <4>1. raw \in Int /\ CriticScale[critic] * raw \in Int
        BY <3>2 DEF Illegal
      <4>2. refTotal' \in Int /\ refLegal' \in BOOLEAN
        BY <3>3, <4>1 DEF ScoreCritic, TypeOK
      <4>3. CASE rejectedBy = 0 /\ ~cut /\ raw = Illegal
        <5>1. rejectedBy' = critic /\ total' = total /\ cut' = cut
          BY <3>3, <4>3 DEF ScoreCritic
        <5>. QED  BY <3>1, <4>2, <5>1 DEF TypeOK, Critics
      <4>4. CASE rejectedBy = 0 /\ ~cut /\ raw # Illegal
        <5>1. /\ rejectedBy' = rejectedBy
              /\ total' = total + raw * CriticScale[critic]
              /\ cut' \in BOOLEAN
          BY <3>3, <4>4 DEF ScoreCritic, EarlyExit
        <5>. QED  BY <4>1, <4>2, <5>1 DEF TypeOK
      <4>5. CASE ~(rejectedBy = 0 /\ ~cut)
        <5>1. UNCHANGED <<total, cut, rejectedBy>>
          BY <3>3, <4>5 DEF ScoreCritic
        <5>. QED  BY <4>2, <5>1 DEF TypeOK
      <4>. QED  BY <4>3, <4>4, <4>5
    <3>4. /\ total' \in Int /\ cut' \in BOOLEAN
          /\ rejectedBy' \in 0 .. NumCritics
          /\ refTotal' \in Int /\ refLegal' \in BOOLEAN
      BY <2>4, <3>3 DEF CriticStep, TypeOK
    <3>5. critic' \in 1 .. NumCritics + 1
      BY <2>4, <3>1 DEF CriticStep, Critics
    <3>6. UNCHANGED <<globalPlan, phase, robot, localPlan, localGoal, result,
                      debriefed, goalReached, twist, best, tracker,
                      lastSetPlan, reference>>
      BY <2>4 DEF CriticStep
    <3>. QED  BY <3>4, <3>5, <3>6 DEF TypeOK
  <2>5. ASSUME EndTrajectory PROVE TypeOK'
    <3>1. twist \in Twists /\ TypeOK
      BY <2>5 DEF EndTrajectory
    <3>2. tracker' \in [legal : BOOLEAN, illegal : SUBSET Critics]
      <4>1. CASE rejectedBy # 0
        <5>1. rejectedBy \in Critics
          BY <3>1, <4>1 DEF TypeOK, Critics
        <5>2. tracker' = [legal   |-> tracker.legal,
                          illegal |-> tracker.illegal \cup {rejectedBy}]
          BY <2>5, <4>1 DEF EndTrajectory
        <5>3. tracker.legal \in BOOLEAN /\ tracker.illegal \in SUBSET Critics
          BY <3>1 DEF TypeOK
        <5>. QED  BY <5>1, <5>2, <5>3
      <4>2. CASE rejectedBy = 0
        <5>1. tracker' = [legal |-> TRUE, illegal |-> tracker.illegal]
          BY <2>5, <4>2 DEF EndTrajectory
        <5>2. tracker.illegal \in SUBSET Critics
          BY <3>1 DEF TypeOK
        <5>. QED  BY <5>1, <5>2
      <4>. QED  BY <4>1, <4>2
    <3>3. best' \in Record(0 .. NumTwists)
      <4>1. [idx |-> twist, total |-> total] \in Record(0 .. NumTwists)
        BY <3>1 DEF TypeOK, Record, Twists
      <4>2. best' = best \/ best' = [idx |-> twist, total |-> total]
        BY <2>5 DEF EndTrajectory
      <4>. QED  BY <3>1, <4>1, <4>2 DEF TypeOK
    <3>4. reference' \in [Twists -> [legal : BOOLEAN, total : Int]]
      BY <2>5, <3>1 DEF EndTrajectory, TypeOK
    <3>5. twist' \in 1 .. NumTwists + 1
      BY <2>5, <3>1 DEF EndTrajectory, NextTwist, Twists
    <3>6. /\ critic' = 1 /\ total' = 0 /\ cut' = FALSE /\ rejectedBy' = 0
          /\ refTotal' = 0 /\ refLegal' = TRUE
      BY <2>5 DEF EndTrajectory
    <3>7. UNCHANGED <<globalPlan, phase, robot, localPlan, localGoal, result,
                      debriefed, goalReached, lastSetPlan>>
      BY <2>5 DEF EndTrajectory
    <3>8. /\ critic' \in 1 .. NumCritics + 1
          /\ rejectedBy' \in 0 .. NumCritics
          /\ total' \in Int /\ refTotal' \in Int
          /\ cut' \in BOOLEAN /\ refLegal' \in BOOLEAN
      <4>1. critic' \in 1 .. NumCritics + 1
        BY <3>6
      <4>2. rejectedBy' \in 0 .. NumCritics
        BY <3>6
      <4>3. total' \in Int /\ refTotal' \in Int
        BY <3>6
      <4>4. cut' \in BOOLEAN /\ refLegal' \in BOOLEAN
        BY <3>6
      <4>. QED  BY <4>1, <4>2, <4>3, <4>4
    <3>. QED  BY <3>1, <3>2, <3>3, <3>4, <3>5, <3>7, <3>8 DEF TypeOK
  <2>6. ASSUME FinishCycle PROVE TypeOK'
    BY <2>6 DEF FinishCycle, TypeOK, Record, Outcomes, NoTwist, scoreVars,
                ghostVars
  <2>7. CASE UNCHANGED vars
    BY <2>7 DEF vars, TypeOK
  <2>. QED  BY <2>1, <2>2, <2>3, <2>4, <2>5, <2>6, <2>7
             DEF Next, Scoring, LateTfOutcomes

\* Every reachable state of the planner gives each variable a value of its
\* type: in particular the plan indices computed by transformGlobalPlan stay
\* within the plan, so the window, the pruned plan and the goal pose read by
\* prepareGlobalPlan are well defined, and the twist and critic loops stay
\* within their ranges.
THEOREM TypeCorrect == Spec => []TypeOK
<1>. QED  BY TypeInit, TypeStep, PTL DEF Spec
-----------------------------------------------------------------------------
(***************************************************************************)
(* Early termination of scoreTrajectory is sound.                          *)
(***************************************************************************)

\* Every critic weighs its raw score by a non-negative scale.  The comment
\* at line 564 relies on it ("we keep adding positives"); run negscale
\* shows what goes wrong without it.
ScalesNonNeg == \A c \in Critics : CriticScale[c] >= 0

\* The facts about the scored twists that every step below uses.
LEMMA ScoredFacts ==
  ASSUME ScoringAssumption
  PROVE  /\ twist = 1 => ScoredTwists = {}
         /\ twist = NumTwists + 1 => ScoredTwists = Twists
         /\ twist \in Twists =>
              {t \in Twists : t < twist + 1} = ScoredTwists \cup {twist}
<1>1. twist = 1 => ScoredTwists = {}
  BY DEF ScoredTwists, Twists
<1>2. twist = NumTwists + 1 => ScoredTwists = Twists
  BY DEF ScoredTwists, Twists
<1>3. twist \in Twists =>
        {t \in Twists : t < twist + 1} = ScoredTwists \cup {twist}
  BY DEF ScoredTwists, Twists
<1>. QED  BY <1>1, <1>2, <1>3

\* setPlan and isGoalReached leave the scoring state alone and report no
\* command.
LEMMA SelectionCallStep ==
  ASSUME TypeOK, SelectionInv,
         \/ \E p \in Plans : SetPlan(p)
         \/ \E r \in Positions : IsGoalReached(r)
  PROVE  SelectionInv'
<1>1. /\ UNCHANGED <<phase, twist, critic, total, cut, rejectedBy, best>>
      /\ UNCHANGED <<refTotal, refLegal, reference>>
      /\ result'.kind = "none"
  <2>1. CASE \E p \in Plans : SetPlan(p)
    <3>1. PICK p \in Plans : SetPlan(p)
      BY <2>1
    <3>. QED  BY <3>1 DEF SetPlan, scoreVars
  <2>2. CASE \E r \in Positions : IsGoalReached(r)
    <3>1. PICK r \in Positions : IsGoalReached(r)
      BY <2>2
    <3>. QED  BY <3>1 DEF IsGoalReached, scoreVars, ghostVars
  <2>. QED  BY <2>1, <2>2
<1>2. BestInv'
  BY <1>1 DEF SelectionInv, BestInv, LegalScored, ScoredTwists, FullScore,
              FirstLeast
<1>3. CurrentInv'
  BY <1>1 DEF SelectionInv, CurrentInv
<1>4. ResultInv'
  BY <1>1 DEF ResultInv
<1>. QED  BY <1>2, <1>3, <1>4 DEF SelectionInv

\* computeVelocityCommands starts a new cycle from the sentinel best, or
\* throws before scoring.
LEMMA SelectionStartStep ==
  ASSUME ScoringAssumption, TypeOK,
         NEW r \in Positions, NEW tfOk \in BOOLEAN,
         NEW winOk \in BOOLEAN, NEW goalOk \in BOOLEAN,
         ComputeVelocityCommands(r, tfOk, winOk, goalOk)
  PROVE  SelectionInv'
<1>1. /\ twist' = 1 /\ best' = NoScore
      /\ total' = 0 /\ cut' = FALSE /\ rejectedBy' = 0
      /\ refTotal' = 0 /\ refLegal' = TRUE
  BY DEF ComputeVelocityCommands
<1>2. result'.kind \notin {"cmd", "NoLegal"}
  BY DEF ComputeVelocityCommands, Throw
<1>3. ScoredTwists' = {}
  BY <1>1, ScoredFacts DEF ScoredTwists, Twists
<1>4. LegalScored' = {}
  BY <1>3 DEF LegalScored
<1>5. BestInv'
  BY <1>1, <1>4 DEF BestInv, NoScore
<1>6. CurrentInv'
  BY <1>1 DEF CurrentInv
<1>7. ResultInv'
  BY <1>2 DEF ResultInv
<1>. QED  BY <1>5, <1>6, <1>7 DEF SelectionInv

\* One critic of scoreTrajectory: the code's total follows the full score
\* until the loop breaks out, and since scales and raw scores are
\* non-negative the full score only grows after the break.
LEMMA SelectionCriticStep ==
  ASSUME ScoringAssumption, ScalesNonNeg, TypeOK, SelectionInv, CriticStep
  PROVE  SelectionInv'
<1>0. /\ total \in Int /\ refTotal \in Int /\ best.total \in Int
      /\ cut \in BOOLEAN /\ refLegal \in BOOLEAN
  BY DEF TypeOK, Record
<1>1. /\ UNCHANGED <<phase, twist, best, reference, result>>
      /\ phase = "scoring" /\ twist \in Twists /\ critic \in Critics
      /\ refLegal
  BY DEF CriticStep
<1>2. BestInv'
  BY <1>1 DEF SelectionInv, BestInv, LegalScored, ScoredTwists, FullScore,
              FirstLeast
<1>3. ResultInv'
  BY <1>1 DEF SelectionInv, ResultInv
<1>4. CurrentInv'
  <2>. DEFINE w == CriticScale[critic]
  <2>1. w \in Nat
    BY <1>1 DEF ScalesNonNeg, Critics
  <2>2. /\ refTotal >= 0
        /\ rejectedBy # 0 => ~refLegal /\ ~cut
        /\ ~refLegal /\ ~cut => rejectedBy # 0
        /\ rejectedBy = 0 /\ ~cut => total = refTotal
        /\ cut => best.total > 0 /\ total > best.total /\ refTotal >= total
    BY <1>1 DEF SelectionInv, CurrentInv
  <2>3. rejectedBy = 0
    BY <1>1, <2>2
  <2>4. CASE w = 0
    <3>1. UNCHANGED <<total, cut, rejectedBy, refTotal, refLegal>>
      BY <2>4 DEF CriticStep
    <3>. QED  BY <1>1, <2>2, <3>1 DEF CurrentInv
  <2>5. CASE w # 0
    <3>1. PICK raw \in RawScores \cup {Illegal} : ScoreCritic(raw)
      BY <2>5 DEF CriticStep
    <3>2. CASE raw = Illegal
      <4>1. refLegal' = FALSE /\ refTotal' = refTotal
        BY <3>1, <3>2 DEF ScoreCritic
      <4>2. CASE ~cut
        <5>1. rejectedBy' = critic /\ cut' = cut
          BY <2>3, <3>1, <3>2, <4>2 DEF ScoreCritic
        <5>. QED  BY <1>1, <2>2, <4>1, <4>2, <5>1 DEF CurrentInv, Critics
      <4>3. CASE cut
        <5>1. UNCHANGED <<total, cut, rejectedBy>>
          BY <3>1, <4>3 DEF ScoreCritic
        <5>. QED  BY <1>0, <1>1, <2>2, <2>3, <4>1, <4>3, <5>1 DEF CurrentInv
      <4>. QED  BY <4>2, <4>3
    <3>3. CASE raw # Illegal
      <4>1. raw \in Nat
        BY <3>1, <3>3
      <4>2. refLegal' = TRUE /\ refTotal' = refTotal + raw * w
        BY <3>1, <3>3 DEF ScoreCritic
      <4>3. raw * w \in Nat
        BY <2>1, <4>1
      <4>4. CASE ~cut
        <5>1. /\ total' = total + raw * w
              /\ cut' = EarlyExit(total + raw * w, best.total)
              /\ rejectedBy' = rejectedBy
          BY <2>3, <3>1, <3>3, <4>4 DEF ScoreCritic
        <5>2. total = refTotal
          BY <2>2, <2>3, <4>4
        <5>. QED  BY <1>0, <1>1, <2>2, <2>3, <4>2, <4>3, <5>1, <5>2
                  DEF CurrentInv, EarlyExit
      <4>5. CASE cut
        <5>1. UNCHANGED <<total, cut, rejectedBy>>
          BY <3>1, <4>5 DEF ScoreCritic
        <5>. QED  BY <1>0, <1>1, <2>2, <2>3, <4>2, <4>3, <4>5, <5>1
                  DEF CurrentInv
      <4>. QED  BY <4>4, <4>5
    <3>. QED  BY <3>2, <3>3
  <2>. QED  BY <2>4, <2>5
<1>. QED  BY <1>2, <1>3, <1>4 DEF SelectionInv

\* coreScoringAlgorithm records a finished trajectory: it becomes best only
\* if it is legal, was not cut short and is strictly better, which is
\* exactly when its full score is the first least so far.
LEMMA SelectionEndStep ==
  ASSUME ScoringAssumption, TypeOK, SelectionInv, EndTrajectory
  PROVE  SelectionInv'
<1>0. /\ total \in Int /\ refTotal \in Int /\ best.total \in Int
      /\ best.idx \in 0 .. NumTwists
      /\ reference \in [Twists -> [legal : BOOLEAN, total : Int]]
      /\ cut \in BOOLEAN /\ refLegal \in BOOLEAN
  BY DEF TypeOK, Record
<1>1. /\ phase = "scoring" /\ twist \in Twists
      /\ twist' = twist + 1
      /\ reference' = [reference EXCEPT ![twist] = [legal |-> refLegal, total |-> refTotal]]
      /\ total' = 0 /\ cut' = FALSE /\ rejectedBy' = 0
      /\ refTotal' = 0 /\ refLegal' = TRUE
      /\ UNCHANGED <<phase, result>>
  BY DEF EndTrajectory, NextTwist
<1>2. /\ refTotal >= 0
      /\ rejectedBy # 0 => ~refLegal /\ ~cut
      /\ ~refLegal /\ ~cut => rejectedBy # 0
      /\ rejectedBy = 0 /\ ~cut => total = refTotal
      /\ cut => best.total > 0 /\ total > best.total /\ refTotal >= total
  BY <1>1 DEF SelectionInv, CurrentInv
<1>3. /\ \A t \in LegalScored : FullScore(t) >= 0
      /\ (best.total < 0) = (LegalScored = {})
      /\ best.total >= 0 =>
           /\ FirstLeast(best.idx, LegalScored)
           /\ best.total = FullScore(best.idx)
  BY DEF SelectionInv, BestInv
<1>4. ScoredTwists' = ScoredTwists \cup {twist}
  BY <1>1, ScoredFacts DEF ScoredTwists
<1>5. /\ \A t \in ScoredTwists : reference'[t] = reference[t]
      /\ reference'[twist] = [legal |-> refLegal, total |-> refTotal]
  BY <1>0, <1>1 DEF ScoredTwists, Twists
<1>6. LegalScored' = IF refLegal THEN LegalScored \cup {twist}
                                 ELSE LegalScored
  BY <1>4, <1>5 DEF LegalScored
<1>. DEFINE F2(t) == reference'[t].total
             FL2(i, S) == /\ i \in S
                          /\ \A t \in S : \/ F2(i) < F2(t)
                                          \/ F2(i) = F2(t) /\ i <= t
<1>7. /\ \A t \in ScoredTwists : F2(t) = FullScore(t)
      /\ F2(twist) = refTotal
  BY <1>5 DEF FullScore
<1>8. twist \notin ScoredTwists /\ \A t \in ScoredTwists : t < twist
  BY <1>1 DEF ScoredTwists, Twists
<1>9. LegalScored \subseteq ScoredTwists
  BY DEF LegalScored
<1>13. /\ twist \in Int
       /\ \A t \in ScoredTwists : t \in Int /\ FullScore(t) \in Int
  BY <1>0, <1>1 DEF ScoredTwists, Twists, FullScore
<1>14. /\ \A t \in LegalScored : F2(t) >= 0
       /\ F2(twist) >= 0
  <2>1. \A t \in LegalScored : F2(t) >= 0
    BY <1>3, <1>7, <1>9
  <2>2. F2(twist) >= 0
    BY <1>2, <1>7
  <2>. QED  BY <2>1, <2>2
<1>10. ResultInv'
  <2>1. result.kind \notin {"cmd", "NoLegal"}
    BY <1>1 DEF SelectionInv, ResultInv, Twists
  <2>. QED  BY <1>1, <2>1 DEF ResultInv
<1>11. CurrentInv'
  BY <1>1 DEF CurrentInv
<1>12. BestInv'
  <2>0. SUFFICES /\ \A t \in LegalScored' : F2(t) >= 0
                 /\ (best'.total < 0) = (LegalScored' = {})
                 /\ best'.total >= 0 =>
                      /\ FL2(best'.idx, LegalScored')
                      /\ best'.total = F2(best'.idx)
    BY Zenon DEF BestInv, FirstLeast, FullScore
  <2>1. CASE rejectedBy # 0
    <3>1. ~refLegal /\ best' = best
      BY <1>2, <2>1 DEF EndTrajectory
    <3>2. LegalScored' = LegalScored
      BY <1>6, <3>1
    <3>3. \A t \in LegalScored : F2(t) = FullScore(t)
      BY <1>7, <1>9
    <3>. QED  BY <1>3, <3>1, <3>2, <3>3 DEF FirstLeast
  <2>2. CASE rejectedBy = 0 /\ ~cut
    <3>1. refLegal /\ total = refTotal /\ refTotal >= 0
      BY <1>2, <2>2
    <3>2. LegalScored' = LegalScored \cup {twist}
      BY <1>6, <3>1
    <3>3. best' = IF IsNewBest(total, best)
                    THEN [idx |-> twist, total |-> total] ELSE best
      BY <2>2 DEF EndTrajectory
    <3>4. \A t \in LegalScored' : F2(t) >= 0
      BY <1>14, <3>2
    <3>5. CASE best.total < 0
      <4>1. LegalScored = {} /\ LegalScored' = {twist}
        BY <1>3, <3>2, <3>5
      <4>2. best' = [idx |-> twist, total |-> total]
        BY <3>3, <3>5 DEF IsNewBest
      <4>. QED  BY <1>0, <1>7, <1>13, <3>1, <3>4, <4>1, <4>2
    <3>6. CASE best.total >= 0 /\ total < best.total
      <4>1. best' = [idx |-> twist, total |-> total]
        BY <3>3, <3>6 DEF IsNewBest
      <4>2. \A t \in LegalScored : total < FullScore(t)
        BY <1>0, <1>3, <1>9, <1>13, <3>6 DEF FirstLeast
      <4>3. FL2(twist, LegalScored')
        BY <1>7, <1>9, <1>13, <3>1, <3>2, <4>2
      <4>. QED  BY <1>0, <1>7, <3>1, <3>2, <3>4, <3>6, <4>1, <4>3
    <3>7. CASE best.total >= 0 /\ ~(total < best.total)
      <4>1. best' = best
        BY <1>0, <3>3, <3>7 DEF IsNewBest
      <4>2. /\ best.idx \in LegalScored
            /\ best.total = FullScore(best.idx)
            /\ FirstLeast(best.idx, LegalScored)
        BY <1>3, <3>7 DEF FirstLeast
      <4>3. best.idx < twist /\ best.idx \in ScoredTwists
        BY <1>8, <1>9, <4>2
      <4>4. FL2(best.idx, LegalScored')
        BY <1>0, <1>7, <1>9, <1>13, <3>1, <3>2, <3>7, <4>2, <4>3
        DEF FirstLeast
      <4>5. best.total = F2(best.idx)
        BY <1>7, <4>2, <4>3
      <4>6. LegalScored' # {}
        BY <3>2
      <4>. QED  BY <1>0, <3>4, <3>7, <4>1, <4>4, <4>5, <4>6
    <3>. QED  BY <1>0, <3>5, <3>6, <3>7
  <2>3. CASE rejectedBy = 0 /\ cut
    <3>1. best.total > 0 /\ total > best.total /\ refTotal >= total
      BY <1>2, <2>3
    <3>2. best' = best
      BY <1>0, <2>3, <3>1 DEF EndTrajectory, IsNewBest
    <3>3. /\ best.idx \in LegalScored
          /\ best.total = FullScore(best.idx)
          /\ FirstLeast(best.idx, LegalScored)
      BY <1>0, <1>3, <3>1 DEF FirstLeast
    <3>4. best.idx < twist /\ best.idx \in ScoredTwists
      BY <1>8, <1>9, <3>3
    <3>5. LegalScored' \subseteq LegalScored \cup {twist}
      BY <1>6
    <3>6. \A t \in LegalScored' : F2(t) >= 0
      BY <1>14, <3>5
    <3>7. best.idx \in LegalScored'
      BY <1>6, <3>3
    <3>8. FL2(best.idx, LegalScored')
      BY <1>0, <1>7, <1>9, <3>1, <3>3, <3>4, <3>5, <3>7 DEF FirstLeast
    <3>9. best.total = F2(best.idx)
      BY <1>7, <3>3, <3>4
    <3>. QED  BY <1>0, <3>1, <3>2, <3>6, <3>7, <3>8, <3>9
  <2>. QED  BY <2>1, <2>2, <2>3
<1>. QED  BY <1>10, <1>11, <1>12 DEF SelectionInv

\* The end of coreScoringAlgorithm reads best once every twist is scored:
\* it returns best.idx unless best still holds the sentinel.
LEMMA SelectionFinishStep ==
  ASSUME TypeOK, SelectionInv, FinishCycle
  PROVE  SelectionInv'
<1>1. /\ twist = NumTwists + 1
      /\ UNCHANGED <<twist, critic, total, cut, rejectedBy, best>>
      /\ UNCHANGED <<refTotal, refLegal, reference>>
      /\ phase' = "idle"
  BY DEF FinishCycle, scoreVars, ghostVars
<1>2. BestInv'
  BY <1>1 DEF SelectionInv, BestInv, LegalScored, ScoredTwists, FullScore,
              FirstLeast
<1>3. CurrentInv'
  BY <1>1 DEF CurrentInv
<1>4. CASE NoLegalFound(best)
  <2>1. result' = [kind |-> "NoLegal", twist |-> NoTwist]
    BY <1>4 DEF FinishCycle
  <2>. QED  BY <1>1, <1>2, <1>3, <1>4, <2>1
            DEF SelectionInv, ResultInv, NoLegalFound
<1>5. CASE ~NoLegalFound(best)
  <2>1. result' = [kind |-> "cmd", twist |-> best.idx]
    BY <1>5 DEF FinishCycle
  <2>2. best.total \in Int
    BY DEF TypeOK, Record
  <2>. QED  BY <1>1, <1>2, <1>3, <1>5, <2>1, <2>2
            DEF SelectionInv, ResultInv, NoLegalFound
<1>. QED  BY <1>4, <1>5

\* The selection invariant holds in the initial state: nothing is scored
\* and best is the sentinel.
LEMMA SelectionInit ==
  ASSUME ScoringAssumption, Init
  PROVE  SelectionInv
<1>1. ScoredTwists = {}
  BY ScoredFacts DEF Init
<1>2. LegalScored = {}
  BY <1>1 DEF LegalScored
<1>3. BestInv
  BY <1>2 DEF Init, BestInv, NoScore
<1>4. CurrentInv
  BY DEF Init, CurrentInv
<1>5. ResultInv
  BY DEF Init, ResultInv
<1>. QED  BY <1>3, <1>4, <1>5 DEF SelectionInv

\* Every step of the planner keeps the selection invariant.
LEMMA SelectionStep ==
  ASSUME ScoringAssumption, ScalesNonNeg, TypeOK, SelectionInv, [Next]_vars
  PROVE  SelectionInv'
<1>1. CASE \E p \in Plans : SetPlan(p)
  BY <1>1, SelectionCallStep
<1>2. CASE \E r \in Positions : IsGoalReached(r)
  BY <1>2, SelectionCallStep
<1>3. CASE \E r \in Positions, tfOk \in BOOLEAN,
             winOk, goalOk \in LateTfOutcomes :
            ComputeVelocityCommands(r, tfOk, winOk, goalOk)
  <2>1. PICK r \in Positions, tfOk \in BOOLEAN,
             winOk, goalOk \in LateTfOutcomes :
               ComputeVelocityCommands(r, tfOk, winOk, goalOk)
    BY <1>3
  <2>2. winOk \in BOOLEAN /\ goalOk \in BOOLEAN
    BY <2>1 DEF LateTfOutcomes
  <2>. QED  BY <2>1, <2>2, SelectionStartStep
<1>4. CASE CriticStep
  BY <1>4, SelectionCriticStep
<1>5. CASE EndTrajectory
  BY <1>5, SelectionEndStep
<1>6. CASE FinishCycle
  BY <1>6, SelectionFinishStep
<1>7. CASE UNCHANGED vars
  BY <1>7 DEF vars, SelectionInv, BestInv, CurrentInv, ResultInv,
              LegalScored, ScoredTwists, FullScore, FirstLeast
<1>. QED  BY <1>1, <1>2, <1>3, <1>4, <1>5, <1>6, <1>7 DEF Next, Scoring

\* Once every twist is scored, the selection invariant is the property.
LEMMA SelectionImpliesMatch ==
  ASSUME ScoringAssumption, SelectionInv
  PROVE  SelectionMatchesFullScoring
<1>1. CASE result.kind = "NoLegal"
  <2>1. twist = NumTwists + 1 /\ best.total < 0
    BY <1>1 DEF SelectionInv, ResultInv
  <2>2. ScoredTwists = Twists
    BY <2>1, ScoredFacts
  <2>3. LegalScored = {}
    BY <2>1 DEF SelectionInv, BestInv
  <2>. QED  BY <1>1, <2>2, <2>3 DEF SelectionMatchesFullScoring, LegalScored
<1>2. CASE result.kind = "cmd"
  <2>1. twist = NumTwists + 1 /\ best.total >= 0 /\ result.twist = best.idx
    BY <1>2 DEF SelectionInv, ResultInv
  <2>2. ScoredTwists = Twists
    BY <2>1, ScoredFacts
  <2>3. FirstLeast(best.idx, LegalScored)
    BY <2>1 DEF SelectionInv, BestInv
  <2>. QED  BY <1>2, <2>1, <2>2, <2>3
            DEF SelectionMatchesFullScoring, LegalScored, FirstLeast, FullScore
<1>. QED  BY <1>1, <1>2 DEF SelectionMatchesFullScoring

\* With non-negative critic scales, the twist computeVelocityCommands
\* returns is the one full scoring of every trajectory would pick: early
\* termination in scoreTrajectory (lines 563-566) and the -1 sentinel of
\* coreScoringAlgorithm (lines 498-503, 526) never change the outcome.
THEOREM SelectionCorrect ==
  ASSUME ScalesNonNeg
  PROVE  Spec => [](SelectionInv /\ SelectionMatchesFullScoring)
<1>1. Init => TypeOK /\ SelectionInv
  BY TypeInit, SelectionInit, ScoringAssumption
<1>2. TypeOK /\ SelectionInv /\ [Next]_vars => TypeOK' /\ SelectionInv'
  BY TypeStep, SelectionStep, ScoringAssumption
<1>3. SelectionInv => SelectionMatchesFullScoring
  BY SelectionImpliesMatch, ScoringAssumption
<1>. QED  BY <1>1, <1>2, <1>3, PTL DEF Spec

\* With non-negative critic scales, at every point of a cycle best holds
\* the first least-scored legal twist among those coreScoringAlgorithm has
\* scored so far, with its full score, and a trajectory scoreTrajectory cut
\* short (lines 563-566) scores no less than best: the loop invariant of
\* lines 487-511.
THEOREM ScoringLoopInvariant ==
  ASSUME ScalesNonNeg
  PROVE  Spec => []SelectionInv
BY SelectionCorrect, PTL
-----------------------------------------------------------------------------
(***************************************************************************)
(* The local goal.                                                         *)
(***************************************************************************)

\* Every transformPose call after the robot pose's succeeds.
LookupsSucceed == LateTfCanFail = FALSE

\* Whatever the prune keeps of a plan ends with the plan's last pose.
LEMMA PrunedKeepsGoal ==
  ASSUME NEW s \in Seq(Int), NEW b \in 1 .. Len(s) + 1
  PROVE  PrunedPlan(s, b) # <<>> =>
           /\ s # <<>>
           /\ PrunedPlan(s, b)[Len(PrunedPlan(s, b))] = s[Len(s)]
<1>1. CASE b <= Len(s)
  <2>1. s # <<>>
    BY <1>1, EmptySeq
  <2>. QED  BY <1>1, <2>1, PrunedPlanType
<1>2. CASE b = Len(s) + 1 /\ PrunePlan
  <2>1. Len(SubSeq(s, b, Len(s))) = 0
    BY <1>2, SubSeqProperties
  <2>2. PrunedPlan(s, b) = <<>>
    BY <1>2, <2>1, EmptySeq, SubSeqProperties DEF PrunedPlan
  <2>. QED  BY <2>2
<1>3. CASE ~PrunePlan
  BY <1>3, EmptySeq DEF PrunedPlan
<1>. QED  BY <1>1, <1>2, <1>3

\* The stored plan, while not empty, still ends with the goal of the plan
\* last set; with LocalGoalIsPlanGoal this is inductive.
StoredGoalInv ==
  globalPlan # <<>> =>
    /\ lastSetPlan # <<>>
    /\ globalPlan[Len(globalPlan)] = lastSetPlan[Len(lastSetPlan)]

GoalInv == StoredGoalInv /\ LocalGoalIsPlanGoal

\* The initial state has no plan and does not score.
LEMMA GoalInit == Init => GoalInv
BY DEF Init, GoalInv, StoredGoalInv, LocalGoalIsPlanGoal

\* Every step keeps the stored plan's goal and the critics' goal equal to
\* the goal of the plan last set.
LEMMA GoalStep ==
  ASSUME LookupsSucceed, TypeOK, GoalInv, [Next]_vars
  PROVE  GoalInv'
<1>1. CASE \E p \in Plans : SetPlan(p)
  <2>1. PICK p \in Plans : SetPlan(p)
    BY <1>1
  <2>2. globalPlan' = p /\ lastSetPlan' = p /\ phase' = "idle"
    BY <2>1 DEF SetPlan
  <2>. QED  BY <2>2 DEF GoalInv, StoredGoalInv, LocalGoalIsPlanGoal
<1>2. CASE \E r \in Positions : IsGoalReached(r)
  <2>1. UNCHANGED <<globalPlan, phase, localGoal, lastSetPlan>>
    BY <1>2 DEF IsGoalReached, ghostVars
  <2>. QED  BY <2>1 DEF GoalInv, StoredGoalInv, LocalGoalIsPlanGoal
<1>3. CASE \E r \in Positions, tfOk \in BOOLEAN,
             winOk, goalOk \in LateTfOutcomes :
            ComputeVelocityCommands(r, tfOk, winOk, goalOk)
  <2>1. PICK r \in Positions, tfOk \in BOOLEAN,
             winOk, goalOk \in LateTfOutcomes :
               ComputeVelocityCommands(r, tfOk, winOk, goalOk)
    BY <1>3
  <2>2. goalOk = TRUE /\ winOk = TRUE
    BY <2>1 DEF LookupsSucceed, LateTfOutcomes
  <2>3. phase = "idle" /\ UNCHANGED lastSetPlan
    BY <2>1 DEF ComputeVelocityCommands
  <2>4. CASE globalPlan = <<>> \/ ~tfOk
    <3>1. UNCHANGED <<globalPlan, phase, localGoal>>
      BY <2>1, <2>4 DEF ComputeVelocityCommands, Throw
    <3>. QED  BY <2>3, <3>1 DEF GoalInv, StoredGoalInv, LocalGoalIsPlanGoal
  <2>5. CASE globalPlan # <<>> /\ tfOk
    <3>. DEFINE rp == r - FrameOffset
                b  == TransformationBegin(globalPlan, rp)
                e  == TransformationEnd(globalPlan, rp, b)
                lp == TransformedPlan(globalPlan, b, e, winOk)
    <3>. HIDE DEF rp, b, e, lp
    <3>1. rp \in Int /\ globalPlan \in Seq(Int)
      BY PlanAssumption DEF TypeOK, rp
    <3>2. b \in 1 .. Len(globalPlan) + 1
      BY <3>1, BeginType DEF b
    <3>3. e \in b .. Len(globalPlan) + 1
      BY <3>1, <3>2, EndType DEF e
    <3>4. lp \in Seq(Int) /\ Len(lp) = e - b
      BY <3>1, <3>2, <3>3, <2>2, TransformedPlanType DEF lp
    <3>5. globalPlan' = PrunedPlan(globalPlan, b)
      BY <2>1, <2>5 DEF ComputeVelocityCommands, rp, b, e, lp
    <3>6. StoredGoalInv'
      <4>1. globalPlan' # <<>> =>
              globalPlan'[Len(globalPlan')] = globalPlan[Len(globalPlan)]
        BY <3>1, <3>2, <3>5, PrunedKeepsGoal
      <4>. QED  BY <2>3, <2>5, <4>1 DEF GoalInv, StoredGoalInv
    <3>7. CASE lp = <<>>
      <4>1. phase' = phase
        BY <2>1, <2>5, <3>7 DEF ComputeVelocityCommands, Throw, rp, b, e, lp
      <4>. QED  BY <2>3, <3>6, <4>1 DEF GoalInv, LocalGoalIsPlanGoal
    <3>8. CASE lp # <<>>
      <4>1. localGoal' = LocalGoalOf(globalPlan', lp, goalOk)
        BY <2>1, <2>5, <3>8 DEF ComputeVelocityCommands, rp, b, e, lp
      <4>2. b <= Len(globalPlan)
        <5>1. Len(lp) \in Nat \ {0}
          BY <3>4, <3>8, EmptySeq
        <5>2. Len(globalPlan) \in Nat
          BY <3>1, LenProperties
        <5>. QED  BY <3>2, <3>3, <3>4, <5>1, <5>2
      <4>3. /\ globalPlan' # <<>>
            /\ globalPlan'[Len(globalPlan')] = globalPlan[Len(globalPlan)]
        BY <3>1, <3>2, <3>5, <4>2, PrunedPlanType, EmptySeq
      <4>4. localGoal' = lastSetPlan[Len(lastSetPlan)] + FrameOffset
        BY <2>2, <2>5, <4>1, <4>3 DEF LocalGoalOf, GoalInv, StoredGoalInv
      <4>5. lastSetPlan # <<>>
        BY <2>5 DEF GoalInv, StoredGoalInv
      <4>. QED  BY <2>3, <3>6, <4>4, <4>5 DEF GoalInv, LocalGoalIsPlanGoal
    <3>. QED  BY <3>7, <3>8
  <2>. QED  BY <2>4, <2>5
<1>4. CASE Scoring
  <2>1. UNCHANGED <<globalPlan, localGoal, lastSetPlan>>
    BY <1>4 DEF Scoring, CriticStep, EndTrajectory, FinishCycle, ghostVars
  <2>2. phase' = "scoring" => phase = "scoring"
    BY <1>4 DEF Scoring, CriticStep, EndTrajectory, FinishCycle
  <2>. QED  BY <2>1, <2>2 DEF GoalInv, StoredGoalInv, LocalGoalIsPlanGoal
<1>5. CASE UNCHANGED vars
  BY <1>5 DEF vars, GoalInv, StoredGoalInv, LocalGoalIsPlanGoal
<1>. QED  BY <1>1, <1>2, <1>3, <1>4, <1>5 DEF Next

\* When the lookups after the robot pose's succeed, the goal prepareGlobalPlan
\* hands to the critics (lines 415-418) is always the last pose of the plan
\* last given to setPlan, in the costmap frame, however much of the plan
\* transformGlobalPlan has pruned (lines 673-676).
THEOREM LocalGoalCorrect ==
  ASSUME LookupsSucceed
  PROVE  Spec => []LocalGoalIsPlanGoal
<1>1. Init => TypeOK /\ GoalInv
  BY TypeInit, GoalInit
<1>2. TypeOK /\ GoalInv /\ [Next]_vars => TypeOK' /\ GoalInv'
  BY TypeStep, GoalStep
<1>3. GoalInv => LocalGoalIsPlanGoal
  BY DEF GoalInv
<1>. QED  BY <1>1, <1>2, <1>3, PTL DEF Spec
-----------------------------------------------------------------------------
(***************************************************************************)
(* The local window.                                                       *)
(***************************************************************************)

\* The window transformGlobalPlan cuts out of a plan is the segment
\* [b, e) of it moved into the costmap frame, and it stays a segment of
\* what the prune keeps: from its start when the prune is on, at offset
\* b - 1 when it is off.
LEMMA WindowOfPrunedPlan ==
  ASSUME NEW s \in Seq(Int), NEW b \in 1 .. Len(s) + 1,
         NEW e \in b .. Len(s) + 1
  PROVE  LET lp == TransformedPlan(s, b, e, TRUE)
             ps == PrunedPlan(s, b)
         IN  \E k \in 0 .. Len(ps) - Len(lp) :
               \A i \in 1 .. Len(lp) : lp[i] = ps[k + i] + FrameOffset
<1>. DEFINE lp == TransformedPlan(s, b, e, TRUE)
            ps == PrunedPlan(s, b)
<1>0. Len(s) \in Nat /\ b \in Nat /\ e \in Nat /\ b <= e /\ e <= Len(s) + 1
  BY LenProperties
<1>1. Len(lp) = e - b /\ \A i \in 1 .. e - b : lp[i] = s[b + i - 1] + FrameOffset
  BY TransformedPlanType DEF TransformedPlan, PoseToLocal
<1>. HIDE DEF lp, ps
<1>2. CASE PrunePlan
  <2>1. /\ Len(SubSeq(s, b, Len(s))) = Len(s) - b + 1
        /\ \A i \in 1 .. Len(s) - b + 1 : SubSeq(s, b, Len(s))[i] = s[b + i - 1]
    BY SubSeqProperties
  <2>2. ps = SubSeq(s, b, Len(s))
    BY <1>2 DEF PrunedPlan, ps
  <2>3. /\ Len(ps) = Len(s) - b + 1
        /\ \A i \in 1 .. Len(s) - b + 1 : ps[i] = s[b + i - 1]
    BY <2>1, <2>2, Zenon
  <2>4. 0 \in 0 .. Len(ps) - Len(lp)
    BY <1>0, <1>1, <2>3
  <2>5. \A i \in 1 .. Len(lp) : lp[i] = ps[0 + i] + FrameOffset
    <3>1. SUFFICES ASSUME NEW i \in 1 .. Len(lp)
                   PROVE  lp[i] = ps[0 + i] + FrameOffset
      OBVIOUS
    <3>2. i \in 1 .. e - b /\ i \in 1 .. Len(s) - b + 1 /\ 0 + i = i
      BY <1>0, <1>1
    <3>3. lp[i] = s[b + i - 1] + FrameOffset /\ ps[i] = s[b + i - 1]
      BY <1>1, <2>3, <3>2
    <3>. QED  BY <3>2, <3>3
  <2>. QED  BY <2>4, <2>5 DEF lp, ps
<1>3. CASE ~PrunePlan
  <2>1. ps = s
    BY <1>3 DEF PrunedPlan, ps
  <2>2. b - 1 \in 0 .. Len(ps) - Len(lp)
    BY <1>0, <1>1, <2>1
  <2>3. \A i \in 1 .. Len(lp) : lp[i] = ps[(b - 1) + i] + FrameOffset
    BY <1>0, <1>1, <2>1
  <2>. QED  BY <2>2, <2>3 DEF lp, ps
<1>. QED  BY <1>2, <1>3

\* Every step keeps the window the critics score a segment of the stored
\* plan in the costmap frame.
LEMMA WindowStep ==
  ASSUME LookupsSucceed, TypeOK, WindowIsPlanSegment, [Next]_vars
  PROVE  WindowIsPlanSegment'
<1>1. CASE \E p \in Plans : SetPlan(p)
  BY <1>1 DEF SetPlan, WindowIsPlanSegment
<1>2. CASE \E r \in Positions : IsGoalReached(r)
  BY <1>2 DEF IsGoalReached, WindowIsPlanSegment
<1>3. CASE \E r \in Positions, tfOk \in BOOLEAN,
             winOk, goalOk \in LateTfOutcomes :
            ComputeVelocityCommands(r, tfOk, winOk, goalOk)
  <2>1. PICK r \in Positions, tfOk \in BOOLEAN,
             winOk, goalOk \in LateTfOutcomes :
               ComputeVelocityCommands(r, tfOk, winOk, goalOk)
    BY <1>3
  <2>2. winOk = TRUE
    BY <2>1 DEF LookupsSucceed, LateTfOutcomes
  <2>3. CASE globalPlan = <<>> \/ ~tfOk
    BY <2>1, <2>3 DEF ComputeVelocityCommands, Throw, WindowIsPlanSegment
  <2>4. CASE globalPlan # <<>> /\ tfOk
    <3>. DEFINE rp == r - FrameOffset
                b  == TransformationBegin(globalPlan, rp)
                e  == TransformationEnd(globalPlan, rp, b)
                lp == TransformedPlan(globalPlan, b, e, TRUE)
    <3>. HIDE DEF rp, b, e, lp
    <3>1. rp \in Int /\ globalPlan \in Seq(Int)
      BY PlanAssumption DEF TypeOK, rp
    <3>2. b \in 1 .. Len(globalPlan) + 1
      BY <3>1, BeginType DEF b
    <3>3. e \in b .. Len(globalPlan) + 1
      BY <3>1, <3>2, EndType DEF e
    <3>4. globalPlan' = PrunedPlan(globalPlan, b)
      BY <2>1, <2>4 DEF ComputeVelocityCommands, rp, b, e, lp
    <3>5. CASE lp = <<>>
      BY <2>1, <2>2, <2>4, <3>5
         DEF ComputeVelocityCommands, Throw, WindowIsPlanSegment, rp, b, e, lp
    <3>6. CASE lp # <<>>
      <4>1. localPlan' = lp
        BY <2>1, <2>2, <2>4, <3>6 DEF ComputeVelocityCommands, rp, b, e, lp
      <4>. QED  BY <3>1, <3>2, <3>3, <3>4, <4>1, WindowOfPrunedPlan
                DEF WindowIsPlanSegment, lp
    <3>. QED  BY <3>5, <3>6
  <2>. QED  BY <2>3, <2>4
<1>4. CASE Scoring
  <2>1. UNCHANGED <<globalPlan, localPlan>>
    BY <1>4 DEF Scoring, CriticStep, EndTrajectory, FinishCycle
  <2>2. phase' = "scoring" => phase = "scoring"
    BY <1>4 DEF Scoring, CriticStep, EndTrajectory, FinishCycle
  <2>. QED  BY <2>1, <2>2 DEF WindowIsPlanSegment
<1>5. CASE UNCHANGED vars
  BY <1>5 DEF vars, WindowIsPlanSegment
<1>. QED  BY <1>1, <1>2, <1>3, <1>4, <1>5 DEF Next

\* When the pose lookups of transformGlobalPoseToLocal succeed, the local
\* plan every critic scores (lines 604-676) is a contiguous run of the
\* stored global plan moved into the costmap frame, whether prune_plan
\* erased the poses before it or not.
THEOREM WindowCorrect ==
  ASSUME LookupsSucceed
  PROVE  Spec => []WindowIsPlanSegment
<1>1. Init => TypeOK /\ WindowIsPlanSegment
  BY TypeInit DEF Init, WindowIsPlanSegment
<1>2. TypeOK /\ WindowIsPlanSegment /\ [Next]_vars
        => TypeOK' /\ WindowIsPlanSegment'
  BY TypeStep, WindowStep
<1>. QED  BY <1>1, <1>2, PTL DEF Spec

-----------------------------------------------------------------------------
(***************************************************************************)
(* The prune.                                                              *)
(***************************************************************************)

\* Every pose before transformation_begin is outside the start threshold
\* of the robot pose: find_if stops at the first one inside it.
LEMMA BeginSkipsFarPoses ==
  ASSUME NEW s \in Seq(Int), NEW rp \in Int
  PROVE  \A i \in 1 .. TransformationBegin(s, rp) - 1 :
           SqDist(rp, s[i]) >= StartThreshold
<1>. DEFINE hits == {i \in 1 .. Len(s) : SqDist(rp, s[i]) < StartThreshold}
<1>0. StartThreshold \in Int /\ \A i \in 1 .. Len(s) : SqDist(rp, s[i]) \in Int
  BY PlanAssumption DEF StartThreshold, MinInt, SqDist
<1>1. CASE hits = {}
  <2>1. TransformationBegin(s, rp) = Len(s) + 1
    BY <1>1 DEF TransformationBegin, FindFrom
  <2>2. \A i \in 1 .. Len(s) : ~(SqDist(rp, s[i]) < StartThreshold)
    BY <1>1
  <2>. QED  BY <1>0, <2>1, <2>2
<1>2. CASE hits # {}
  <2>. DEFINE m == CHOOSE i \in hits : \A j \in hits : i <= j
  <2>0. hits \in SUBSET Nat
    OBVIOUS
  <2>1. \E x \in hits : \A y \in hits : x <= y
    BY <1>2, <2>0, MinExists
  <2>2. m \in hits /\ \A y \in hits : m <= y
    BY <2>1
  <2>3. TransformationBegin(s, rp) = m
    BY <1>2 DEF TransformationBegin, FindFrom
  <2>4. SUFFICES ASSUME NEW i \in 1 .. m - 1
                 PROVE  SqDist(rp, s[i]) >= StartThreshold
    BY <2>3
  <2>5. m <= Len(s) /\ i \in 1 .. Len(s)
    BY <2>2
  <2>6. i \notin hits
    <3>1. i < m /\ m \in Int
      BY <2>2, <2>5
    <3>2. i \in hits => m <= i
      BY <2>2
    <3>. QED  BY <3>1, <3>2
  <2>7. ~(SqDist(rp, s[i]) < StartThreshold)
    BY <2>5, <2>6
  <2>. QED  BY <1>0, <2>5, <2>7
<1>. QED  BY <1>1, <1>2

\* Every step either sets a plan or leaves a suffix of the stored plan,
\* having erased only poses outside the start threshold of the call's
\* robot pose.
LEMMA PruneStep ==
  ASSUME TypeOK, [Next]_vars
  PROVE  \/ globalPlan' = lastSetPlan'
         \/ \E k \in 0 .. Len(globalPlan) :
              /\ globalPlan' = SubSeq(globalPlan, k + 1, Len(globalPlan))
              /\ \A i \in 1 .. k :
                   SqDist(robot' - FrameOffset, globalPlan[i]) >= StartThreshold
<1>0. globalPlan \in Seq(Int)
  BY DEF TypeOK
<1>1. SubSeq(globalPlan, 0 + 1, Len(globalPlan)) = globalPlan
  BY <1>0, SubSeqFull
<1>2. SUFFICES ASSUME globalPlan' # globalPlan PROVE globalPlan' = lastSetPlan'
                   \/ \E k \in 0 .. Len(globalPlan) :
                        /\ globalPlan' = SubSeq(globalPlan, k + 1, Len(globalPlan))
                        /\ \A i \in 1 .. k :
                             SqDist(robot' - FrameOffset, globalPlan[i])
                               >= StartThreshold
  BY <1>1
<1>3. CASE \E p \in Plans : SetPlan(p)
  BY <1>3 DEF SetPlan
<1>4. CASE \E r \in Positions, tfOk \in BOOLEAN,
             winOk, goalOk \in LateTfOutcomes :
            ComputeVelocityCommands(r, tfOk, winOk, goalOk)
  <2>1. PICK r \in Positions, tfOk \in BOOLEAN,
             winOk, goalOk \in LateTfOutcomes :
               ComputeVelocityCommands(r, tfOk, winOk, goalOk)
    BY <1>4
  <2>. DEFINE rp == r - FrameOffset
              b  == TransformationBegin(globalPlan, rp)
  <2>. HIDE DEF rp, b
  <2>8. robot' = r
    BY <2>1, Zenon DEF ComputeVelocityCommands
  <2>9. rp \in Int
    <3>1. r \in Int /\ FrameOffset \in Int
      BY PlanAssumption
    <3>. QED  BY <3>1 DEF rp
  <2>2. rp \in Int /\ robot' = r
    BY <2>8, <2>9
  <2>3. globalPlan' = PrunedPlan(globalPlan, b)
    BY <1>2, <2>1 DEF ComputeVelocityCommands, rp, b
  <2>4. PrunePlan
    BY <1>2, <2>3 DEF PrunedPlan
  <2>5. b \in 1 .. Len(globalPlan) + 1
    BY <1>0, <2>2, BeginType DEF b
  <2>6. \A i \in 1 .. b - 1 : SqDist(rp, globalPlan[i]) >= StartThreshold
    BY <1>0, <2>2, BeginSkipsFarPoses DEF b
  <2>7. /\ b - 1 \in 0 .. Len(globalPlan)
        /\ globalPlan' = SubSeq(globalPlan, (b - 1) + 1, Len(globalPlan))
    BY <2>3, <2>4, <2>5 DEF PrunedPlan
  <2>. QED  BY <2>2, <2>6, <2>7 DEF rp
<1>5. CASE \/ \E r \in Positions : IsGoalReached(r)
           \/ Scoring
           \/ UNCHANGED vars
  BY <1>2, <1>5 DEF IsGoalReached, Scoring, CriticStep, EndTrajectory,
                    FinishCycle, vars
<1>. QED  BY <1>3, <1>4, <1>5 DEF Next

\* transformGlobalPlan's prune (lines 673-676) keeps global_plan_ a suffix
\* of the plan last given to setPlan, and erases only poses that were not
\* within the start threshold of the robot pose of that call.
THEOREM PruneCorrect == Spec => PruneOnlyDropsPassedPoses
<1>1. TypeOK /\ [Next]_vars =>
        [ \/ globalPlan' = lastSetPlan'
          \/ \E k \in 0 .. Len(globalPlan) :
               /\ globalPlan' = SubSeq(globalPlan, k + 1, Len(globalPlan))
               /\ \A i \in 1 .. k :
                    SqDist(robot' - FrameOffset, globalPlan[i])
                      >= StartThreshold ]_vars
  BY PruneStep
<1>. QED  BY <1>1, TypeCorrect, PTL DEF Spec, PruneOnlyDropsPassedPoses

=============================================================================
