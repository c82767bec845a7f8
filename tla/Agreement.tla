----------------------------- MODULE Agreement -----------------------------
(***************************************************************************)
(* What a contract promises its parties, without codes, revisions or       *)
(* proposals: each party agrees once to the terms that are on the table,   *)
(* the terms hold when all have agreed, and new terms have to be agreed to *)
(* from the start.                                                         *)
(***************************************************************************)
CONSTANTS Parties, Terms

VARIABLES terms,     \* what the rental says
          agreed,    \* who accepted exactly these terms
          state      \* "open", "sealed" or "void"

vars == <<terms, agreed, state>>

Init == terms \in Terms /\ agreed = {} /\ state = "open"

Agree(p) ==
  /\ state = "open" /\ p \notin agreed
  /\ agreed' = agreed \cup {p}
  /\ state' = IF agreed' = Parties THEN "sealed" ELSE "open"
  /\ UNCHANGED terms

Renegotiate(t) ==
  /\ state # "void" /\ t # terms
  /\ terms' = t /\ agreed' = {} /\ state' = "open"

Void == state # "void" /\ state' = "void" /\ UNCHANGED <<terms, agreed>>

Next == Void \/ (\E p \in Parties : Agree(p)) \/ (\E t \in Terms : Renegotiate(t))

Spec == Init /\ [][Next]_vars
=============================================================================
