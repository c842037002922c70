------------------------ MODULE OdomSubscriber_proofs ------------------------
(***************************************************************************)
(* Proofs about OdomSubscriber: a copy of odom_vel_ that no odomCallback   *)
(* write overlapped returns the last message, thresholded, for every       *)
(* choice of thresholds, velocities and number of messages.                *)
(***************************************************************************)
EXTENDS OdomSubscriber, TLAPS

Fields == {"header", "x", "y", "theta"}

\* The position of a field in the order odomCallback writes and the copy
\* reads them; "idle" comes after the last field.
Rank == [header |-> 0, x |-> 1, y |-> 2, theta |-> 3, idle |-> 4]

\* Every field odomCallback has already assigned holds the value of the
\* message it is storing (the last one, once it is idle).
WriterInv ==
  \A g \in Fields :
    Rank[g] < Rank[cbPc] => odomVel[g] = StoredValue(cbMsg, sent)[g]

\* While no write has overlapped the copy, every field it has read still
\* equals odom_vel_'s; getTwist leaves the stamp at zero.
ReadInv ==
  /\ clean => \A g \in Fields :
                (Rank[g] < Rank[rdPc] /\ (g # "header" \/ rdStamped))
                  => rdBuf[g] = odomVel[g]
  /\ ~rdStamped => rdBuf.header = 0
  /\ rdPc = "header" => rdStamped

\* A copy finished with no write since it began returned odom_vel_.
ResultInv ==
  rdPc = "idle" /\ clean => result = Returned(odomVel)

\* The inductive strengthening of CleanReadIsLastMessage: whatever point
\* odomCallback and the unlocked getTwist/getTwistStamped copy have each
\* reached, the callback's written fields hold the new message, a copy no
\* write overlapped agrees field by field with odom_vel_, and such a copy,
\* once finished, returned odom_vel_.
IInv == TypeOK /\ WriterInv /\ ReadInv /\ ResultInv

-----------------------------------------------------------------------------
(***************************************************************************)
(* Lemmas about the operators.                                             *)
(***************************************************************************)

\* The fields are the non-idle program counters, and each step of a copy
\* or of a callback moves one place along the order.
LEMMA NextFieldRank ==
  ASSUME NEW f \in PcValues \ {"idle"}
  PROVE  /\ f \in Fields
         /\ NextField(f) \in PcValues
         /\ Rank[NextField(f)] = Rank[f] + 1
         /\ \A g \in Fields :
              Rank[g] < Rank[NextField(f)] <=> (Rank[g] < Rank[f] \/ g = f)
BY DEF PcValues, Fields, NextField, Rank

\* A thresholded component is an integer.
LEMMA ThresholdedType ==
  ASSUME NEW v \in Int, NEW t \in Nat
  PROVE  ThresholdedVelocity(v, t) \in Int
BY DEF ThresholdedVelocity

\* What odomCallback stores is a stamped twist.
LEMMA StoredValueType ==
  ASSUME NEW m \in [x : Int, y : Int, theta : Int], NEW k \in Nat
  PROVE  StoredValue(m, k) \in Stamped
BY OdomAssumption, ThresholdedType DEF StoredValue, Stamped

\* Two stamped twists that agree on every field are equal.
LEMMA StampedExt ==
  ASSUME NEW a \in Stamped, NEW b \in Stamped,
         \A g \in Fields : a[g] = b[g]
  PROVE  a = b
BY DEF Stamped, Fields

\* What getTwist returns is a stamped twist.
LEMMA ReturnedType ==
  ASSUME NEW v \in Stamped
  PROVE  Returned(v) \in Stamped
BY DEF Returned, Stamped

-----------------------------------------------------------------------------
\* The initial state satisfies the strengthening.
LEMMA InitIInv == Init => IInv
<1> SUFFICES ASSUME Init PROVE IInv
  OBVIOUS
<1>1. TypeOK
  <2>1. ZeroTwist \in Stamped
    BY DEF ZeroTwist, Stamped
  <2>2. 0 \in 0 .. MaxMsgs
    BY OdomAssumption
  <2>3. /\ cbMsg \in [x : Int, y : Int, theta : Int]
        /\ stored \in SUBSET Stamped
        /\ odomVel \in Stamped /\ rdBuf \in Stamped /\ result \in Stamped
    BY <2>1 DEF Init
  <2>4. /\ cbPc \in PcValues /\ rdPc \in PcValues /\ sent \in 0 .. MaxMsgs
    BY <2>2 DEF Init, PcValues
  <2>5. locked \in BOOLEAN /\ rdStamped \in BOOLEAN /\ clean \in BOOLEAN
    BY DEF Init
  <2>. QED  BY <2>3, <2>4, <2>5 DEF TypeOK
<1>2. WriterInv
  BY DEF Init, WriterInv, Fields, Rank, StoredValue, ThresholdedVelocity,
         ZeroTwist
<1>3. ReadInv
  BY DEF Init, ReadInv, Fields, Rank, ZeroTwist
<1>4. ResultInv
  BY DEF Init, ResultInv, Returned, ZeroTwist
<1>. QED  BY <1>1, <1>2, <1>3, <1>4 DEF IInv

\* Every step of the callback or of a copy preserves the strengthening.
LEMMA StepIInv ==
  ASSUME IInv, [Next]_vars
  PROVE  IInv'
<1>. USE DEF IInv
<1>0. /\ odomVel \in Stamped /\ rdBuf \in Stamped /\ result \in Stamped
      /\ cbPc \in PcValues /\ rdPc \in PcValues /\ sent \in 0 .. MaxMsgs
      /\ cbMsg \in [x : Int, y : Int, theta : Int]
      /\ stored \in SUBSET Stamped
  BY DEF TypeOK
<1>1. CASE \E m \in Msg : CallbackStart(m)
  <2>1. PICK m \in Msg : CallbackStart(m)
    BY <1>1
  <2>2. m \in [x : Int, y : Int, theta : Int]
    BY OdomAssumption DEF Msg
  <2>3. sent + 1 \in 0 .. MaxMsgs
    BY <1>0, <2>1, OdomAssumption DEF CallbackStart
  <2>4. TypeOK'
    BY <1>0, <2>1, <2>2, <2>3 DEF CallbackStart, TypeOK, PcValues
  <2>5. WriterInv'
    BY <2>1 DEF CallbackStart, WriterInv, Rank, Fields
  <2>6. ReadInv' /\ ResultInv'
    BY <2>1 DEF CallbackStart, ReadInv, ResultInv, Returned
  <2>. QED  BY <2>4, <2>5, <2>6
<1>2. CASE CallbackWrite
  <2>. DEFINE f == cbPc
              w == StoredValue(cbMsg, sent)
              v == [odomVel EXCEPT ![f] = w[f]]
  <2>1. f \in PcValues \ {"idle"}
    BY <1>0, <1>2 DEF CallbackWrite
  <2>2. /\ f \in Fields
        /\ NextField(f) \in PcValues
        /\ \A g \in Fields :
             Rank[g] < Rank[NextField(f)] <=> (Rank[g] < Rank[f] \/ g = f)
    BY <2>1, NextFieldRank
  <2>3. w \in Stamped
    BY <1>0, StoredValueType
  <2>4. v \in Stamped /\ \A g \in Fields : v[g] = IF g = f THEN w[g] ELSE odomVel[g]
    BY <1>0, <2>2, <2>3 DEF Stamped, Fields
  <2>5. /\ odomVel' = v /\ cbPc' = NextField(f) /\ clean' = FALSE
        /\ stored' \subseteq stored \cup {v}
        /\ UNCHANGED <<cbMsg, sent, rdPc, rdStamped, rdBuf, result>>
    BY <1>2 DEF CallbackWrite
  <2>6. TypeOK'
    <3>1. locked' \in BOOLEAN /\ clean' \in BOOLEAN
      BY <1>2 DEF CallbackWrite
    <3>. QED  BY <1>0, <2>2, <2>4, <2>5, <3>1 DEF TypeOK
  <2>7. WriterInv'
    BY <2>2, <2>4, <2>5 DEF WriterInv
  <2>8. ReadInv'
    BY <2>5 DEF ReadInv
  <2>9. ResultInv'
    BY <2>5 DEF ResultInv
  <2>. QED  BY <2>6, <2>7, <2>8, <2>9
<1>3. CASE \E stamped \in BOOLEAN : ReadStart(stamped)
  <2>1. PICK stamped \in BOOLEAN : ReadStart(stamped)
    BY <1>3
  <2>2. ZeroTwist \in Stamped
    BY DEF ZeroTwist, Stamped
  <2>3. TypeOK'
    BY <1>0, <2>1, <2>2 DEF ReadStart, TypeOK, PcValues
  <2>4. WriterInv'
    BY <2>1 DEF ReadStart, WriterInv
  <2>5. ReadInv'
    BY <2>1 DEF ReadStart, ReadInv, Rank, Fields, ZeroTwist
  <2>6. ResultInv'
    BY <2>1 DEF ReadStart, ResultInv
  <2>. QED  BY <2>3, <2>4, <2>5, <2>6
<1>4. CASE ReadField
  <2>. DEFINE f == rdPc
              b == [rdBuf EXCEPT ![f] = odomVel[f]]
  <2>1. f \in PcValues \ {"idle"}
    BY <1>0, <1>4 DEF ReadField
  <2>2. /\ f \in Fields
        /\ NextField(f) \in PcValues
        /\ Rank[NextField(f)] = Rank[f] + 1
        /\ \A g \in Fields :
             Rank[g] < Rank[NextField(f)] <=> (Rank[g] < Rank[f] \/ g = f)
    BY <2>1, NextFieldRank
  <2>3. b \in Stamped /\ \A g \in Fields : b[g] = IF g = f THEN odomVel[g] ELSE rdBuf[g]
    BY <1>0, <2>2 DEF Stamped, Fields
  <2>4. /\ rdBuf' = b /\ rdPc' = NextField(f)
        /\ result' = IF NextField(f) = "idle" THEN b ELSE result
        /\ UNCHANGED <<odomVel, cbPc, cbMsg, sent, rdStamped, stored, clean>>
    BY <1>4 DEF ReadField
  <2>5. TypeOK'
    <3>1. locked' \in BOOLEAN /\ rdStamped' \in BOOLEAN /\ clean' \in BOOLEAN
      BY <1>4 DEF ReadField, TypeOK
    <3>. QED  BY <1>0, <2>2, <2>3, <2>4, <3>1 DEF TypeOK
  <2>6. WriterInv'
    BY <2>4 DEF WriterInv
  <2>7. f = "header" => rdStamped
    BY DEF ReadInv
  <2>8. ReadInv'
    <3>1. (~rdStamped => rdBuf.header = 0)'
      BY <2>3, <2>4, <2>7 DEF ReadInv, Fields
    <3>2. (rdPc = "header" => rdStamped)'
      <4>1. NextField(f) # "header"
        BY <2>1 DEF NextField, PcValues
      <4>. QED  BY <2>4, <4>1
    <3>3. (clean => \A g \in Fields :
             (Rank[g] < Rank[rdPc] /\ (g # "header" \/ rdStamped))
               => rdBuf[g] = odomVel[g])'
      BY <2>2, <2>3, <2>4 DEF ReadInv
    <3>. QED  BY <3>1, <3>2, <3>3 DEF ReadInv
  <2>9. ResultInv'
    <3>1. CASE NextField(f) = "idle" /\ clean
      <4>1. \A g \in Fields : Rank[g] < Rank[NextField(f)]
        BY <2>2, <3>1 DEF Rank, Fields
      <4>2. \A g \in Fields : (g # "header" \/ rdStamped) => b[g] = odomVel[g]
        BY <2>4, <3>1, <4>1, <2>8 DEF ReadInv
      <4>3. b.header = IF rdStamped THEN odomVel.header ELSE 0
        BY <2>4, <4>2, <2>8 DEF ReadInv, Fields
      <4>4. Returned(odomVel) \in Stamped
        BY <1>0, ReturnedType
      <4>5. \A g \in Fields : b[g] = Returned(odomVel)[g]
        <5>1. CASE rdStamped
          BY <4>2, <5>1 DEF Returned
        <5>2. CASE ~rdStamped
          <6>1. Returned(odomVel) = [odomVel EXCEPT !.header = 0]
            BY <5>2 DEF Returned
          <6>. QED  BY <1>0, <4>2, <4>3, <5>2, <6>1 DEF Stamped, Fields
        <5>. QED  BY <5>1, <5>2
      <4>6. b = Returned(odomVel)
        BY <2>3, <4>4, <4>5, StampedExt
      <4>7. Returned(odomVel)' = Returned(odomVel)
        BY <2>4 DEF Returned
      <4>. QED  BY <2>4, <3>1, <4>6, <4>7 DEF ResultInv
    <3>2. CASE ~(NextField(f) = "idle" /\ clean)
      BY <2>4, <3>2 DEF ResultInv
    <3>. QED  BY <3>1, <3>2
  <2>. QED  BY <2>5, <2>6, <2>8, <2>9
<1>5. CASE UNCHANGED vars
  BY <1>5 DEF vars, TypeOK, WriterInv, ReadInv, ResultInv, Returned
<1>. QED  BY <1>1, <1>2, <1>3, <1>4, <1>5 DEF Next

\* The strengthening gives the property: once the callback is idle every
\* field of odom_vel_ holds the last message, and a clean copy returned it.
LEMMA IInvImpliesClean == IInv => CleanReadIsLastMessage
<1> SUFFICES ASSUME IInv, rdPc = "idle", clean, cbPc = "idle"
             PROVE  result = Returned(StoredValue(cbMsg, sent))
  BY DEF CleanReadIsLastMessage
<1>1. odomVel \in Stamped /\ sent \in Nat /\ cbMsg \in [x : Int, y : Int, theta : Int]
  BY OdomAssumption DEF IInv, TypeOK
<1>2. StoredValue(cbMsg, sent) \in Stamped
  BY <1>1, StoredValueType
<1>3. \A g \in Fields : odomVel[g] = StoredValue(cbMsg, sent)[g]
  BY DEF IInv, WriterInv, Rank, Fields
<1>4. odomVel = StoredValue(cbMsg, sent)
  BY <1>1, <1>2, <1>3, StampedExt
<1>. QED  BY <1>4 DEF IInv, ResultInv

\* Whatever the interleaving of odomCallback's locked writes and the
\* unlocked field-by-field copies of getTwist/getTwistStamped (lines 81-82),
\* a copy that no write overlapped returns the last odometry message with
\* each component zeroed within its threshold, under its stamp: the mutex
\* is needed only against the overlap itself.
THEOREM CleanReadCorrect == Spec => []CleanReadIsLastMessage
<1>1. Init => IInv
  BY InitIInv
<1>2. IInv /\ [Next]_vars => IInv'
  BY StepIInv
<1>3. IInv => CleanReadIsLastMessage
  BY IInvImpliesClean
<1>. QED  BY <1>1, <1>2, <1>3, PTL DEF Spec


\* The strengthening itself holds at every point of every interleaving of
\* odomCallback (lines 85-95) and the unlocked copies of getTwist and
\* getTwistStamped (lines 81-82): written fields hold the new message, and
\* what a clean copy has read agrees with odom_vel_.
THEOREM IInvHolds == Spec => []IInv
<1>1. Init => IInv
  BY InitIInv
<1>2. IInv /\ [Next]_vars => IInv'
  BY StepIInv
<1>. QED  BY <1>1, <1>2, PTL DEF Spec

====
