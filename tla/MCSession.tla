------------------------------ MODULE MCSession ------------------------------
(***************************************************************************)
(* A small instance of Session: two people sharing a browser, with         *)
(* different roles, and the routes where their roles matter.               *)
(***************************************************************************)
EXTENDS Session, TLC

CONSTANTS ana, beto
TwoRoles == (ana :> "operador") @@ (beto :> "locador")
=============================================================================
