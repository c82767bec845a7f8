---------------------------- MODULE RefundPromise ----------------------------
(***************************************************************************)
(* What the books promise about a refund, without keys, calls or answers:  *)
(* once it is owed the money goes out at most once, and it is entered as   *)
(* repaid only after it went out.                                          *)
(***************************************************************************)
CONSTANT Refunds       \* the provider's identifiers

VARIABLES owed,        \* what the books say
          paidOut      \* refunds whose money has left

vars == <<owed, paidOut>>

Init == owed = "none" /\ paidOut = {}

Owe == owed = "none" /\ owed' = "owed" /\ UNCHANGED paidOut

PayOut(id) == owed = "owed" /\ paidOut = {} /\ paidOut' = {id} /\ UNCHANGED owed

Enter == owed = "owed" /\ paidOut # {} /\ owed' = "repaid" /\ UNCHANGED paidOut

\* The provider cancelled it: no money left and none will.
GiveUp == owed = "owed" /\ paidOut = {} /\ owed' = "canceled" /\ UNCHANGED paidOut

Next == Owe \/ Enter \/ GiveUp \/ \E id \in Refunds : PayOut(id)

Spec == Init /\ [][Next]_vars
=============================================================================
