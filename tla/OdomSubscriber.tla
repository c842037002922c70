--------------------------- MODULE OdomSubscriber ---------------------------
(***************************************************************************)
(* nav_2d_utils::OdomSubscriber (odom_subscriber.hpp, lines 54-111): the  *)
(* executor thread runs odomCallback, which stores the thresholded twist   *)
(* of each odometry message in odom_vel_ field by field while holding      *)
(* odom_mutex_; the controller thread calls getTwist or getTwistStamped,   *)
(* which copy odom_vel_ without taking the mutex.                          *)
(*                                                                         *)
(* A copy of a struct is a sequence of field reads and an assignment a     *)
(* sequence of field writes, so each field access is a step of its own.   *)
(* Each field is a machine word: a read of it returns the last value       *)
(* written to it.  The header is the message's stamp, a number.            *)
(***************************************************************************)
EXTENDS Integers

CONSTANTS
  Velocities,   \* the values a message's velocity components take
  MinX,         \* min_x_velocity_threshold_
  MinY,         \* min_y_velocity_threshold_
  MinTheta,     \* min_theta_velocity_threshold_
  MaxMsgs       \* bound on the number of odometry messages

ASSUME OdomAssumption ==
  /\ Velocities \subseteq Int
  /\ {MinX, MinY, MinTheta} \subseteq Nat
  /\ MaxMsgs \in Nat

Stamped == [header : Nat, x : Int, y : Int, theta : Int]
Msg == [x : Velocities, y : Velocities, theta : Velocities]
ZeroTwist == [header |-> 0, x |-> 0, y |-> 0, theta |-> 0]

VARIABLES
  odomVel,    \* odom_vel_
  locked,     \* odom_mutex_ is held
  cbPc,       \* the next field odomCallback writes, or "idle"
  cbMsg,      \* the message odomCallback is storing
  sent,       \* the number of messages received so far
  rdPc,       \* the next field the reader copies, or "idle"
  rdStamped,  \* the reader is in getTwistStamped (else getTwist)
  rdBuf,      \* the copy being made
  result,     \* the last value getTwist/getTwistStamped returned
  stored,     \* ghost: every value odom_vel_ held between two callbacks
  clean       \* ghost: no callback wrote odom_vel_ since the last copy began

vars == <<odomVel, locked, cbPc, cbMsg, sent, rdPc, rdStamped, rdBuf,
          result, stored, clean>>

PcValues == {"idle", "header", "x", "y", "theta"}

TypeOK ==
  /\ odomVel \in Stamped
  /\ locked \in BOOLEAN
  /\ cbPc \in PcValues
  /\ cbMsg \in [x : Int, y : Int, theta : Int]
  /\ sent \in 0 .. MaxMsgs
  /\ rdPc \in PcValues
  /\ rdStamped \in BOOLEAN
  /\ rdBuf \in Stamped
  /\ result \in Stamped
  /\ stored \in SUBSET Stamped
  /\ clean \in BOOLEAN

-----------------------------------------------------------------------------
\* thresholded_velocity (lines 98-101): a component whose magnitude is not
\* above the threshold reads as zero.
ThresholdedVelocity(v, threshold) ==
  IF v > threshold \/ -v > threshold THEN v ELSE 0

\* What odomCallback stores for message m with stamp k (lines 89-95).
StoredValue(m, k) ==
  [header |-> k,
   x      |-> ThresholdedVelocity(m.x, MinX),
   y      |-> ThresholdedVelocity(m.y, MinY),
   theta  |-> ThresholdedVelocity(m.theta, MinTheta)]

\* The field order with y forgotten (mutant).
NextFieldSkipY(f) ==
  CASE f = "header" -> "x" [] f = "x" -> "theta" [] f = "y" -> "theta"
    [] f = "theta" -> "idle"

\* The field copied or written after f.
NextField(f) ==
  CASE f = "header" -> "x" [] f = "x" -> "y" [] f = "y" -> "theta"
    [] f = "theta" -> "idle"

-----------------------------------------------------------------------------
\* The constructor (lines 63-79): odom_vel_ is default-constructed, zero.
Init ==
  /\ odomVel = ZeroTwist
  /\ locked = FALSE
  /\ cbPc = "idle"
  /\ cbMsg = [x |-> 0, y |-> 0, theta |-> 0]
  /\ sent = 0
  /\ rdPc = "idle"
  /\ rdStamped = FALSE
  /\ rdBuf = ZeroTwist
  /\ result = ZeroTwist
  /\ stored = {ZeroTwist}
  /\ clean = TRUE

\* A message arrives: odomCallback takes the lock (line 88).
CallbackStart(m) ==
  /\ cbPc = "idle"
  /\ sent < MaxMsgs
  /\ ~locked
  /\ locked' = TRUE
  /\ cbPc' = "header"
  /\ cbMsg' = m
  /\ sent' = sent + 1
  /\ UNCHANGED <<odomVel, rdPc, rdStamped, rdBuf, result, stored, clean>>

\* One assignment of odomCallback (lines 89-96); after the last one the
\* lock_guard is released.
CallbackWrite ==
  /\ cbPc # "idle"
  /\ LET f == cbPc
         v == [odomVel EXCEPT ![f] = StoredValue(cbMsg, sent)[f]]
     IN  /\ odomVel' = v
         /\ cbPc' = NextField(f)
         /\ locked' = (NextField(f) # "idle")
         /\ stored' = IF NextField(f) = "idle" THEN stored \cup {v}
                                               ELSE stored
  /\ clean' = FALSE
  /\ UNCHANGED <<cbMsg, sent, rdPc, rdStamped, rdBuf, result>>

\* getTwist (line 81) or getTwistStamped (line 82) is called; neither
\* takes odom_mutex_.
ReadStart(stamped) ==
  /\ rdPc = "idle"
  /\ rdPc' = IF stamped THEN "header" ELSE "x"
  /\ rdStamped' = stamped
  /\ rdBuf' = ZeroTwist
  /\ clean' = TRUE
  /\ UNCHANGED <<odomVel, locked, cbPc, cbMsg, sent, result, stored>>

\* One field of the copy; after the last one the copy is returned.
ReadField ==
  /\ rdPc # "idle"
  /\ LET f == rdPc
         b == [rdBuf EXCEPT ![f] = odomVel[f]]
     IN  /\ rdBuf' = b
         /\ rdPc' = NextField(f)
         /\ result' = IF NextField(f) = "idle" THEN b ELSE result
  /\ UNCHANGED <<odomVel, locked, cbPc, cbMsg, sent, rdStamped, stored, clean>>

Next ==
  \/ \E m \in Msg : CallbackStart(m)
  \/ CallbackWrite
  \/ \E stamped \in BOOLEAN : ReadStart(stamped)
  \/ ReadField

Spec == Init /\ [][Next]_vars

-----------------------------------------------------------------------------
\* The part of a copy that getTwist or getTwistStamped returns.
Returned(v) ==
  IF rdStamped THEN v ELSE [v EXCEPT !.header = 0]

\* A copy made while no callback wrote odom_vel_ returns what the last
\* message became: its components, each zeroed when within its threshold
\* (lines 90-101), under its stamp, whatever the order of the callbacks'
\* and the copies' steps before.
CleanReadIsLastMessage ==
  rdPc = "idle" /\ clean /\ cbPc = "idle" =>
    result = Returned(StoredValue(cbMsg, sent))

\* The class comment (line 52) says the topic is read "with a mutex": every
\* value getTwist or getTwistStamped returns is one odom_vel_ held between
\* two callbacks, never the fields of two messages mixed.
ReadIsStoredTwist ==
  rdPc = "idle" => \E v \in stored : result = Returned(v)

=============================================================================
