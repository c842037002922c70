------------------------- MODULE MC_OdomSubscriber -------------------------
(***************************************************************************)
(* Model values for OdomSubscriber.                                        *)
(***************************************************************************)
EXTENDS OdomSubscriber_proofs

\* Components at the threshold 1 and above it, of either sign.
MCVelocities == {-2, 1, 2}
=============================================================================
