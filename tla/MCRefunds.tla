------------------------------ MODULE MCRefunds ------------------------------
(***************************************************************************)
(* Small instances of Refunds for TLC: a tick is an hour, the 23 hours of  *)
(* Window are one tick, a call takes at most one more, and Stripe forgets  *)
(* a key the tick after.                                                   *)
(***************************************************************************)
EXTENDS Refunds, TLC

Symmetry == Permutations(RefundIds) \cup Permutations(Workers)
=============================================================================
