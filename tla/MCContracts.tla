----------------------------- MODULE MCContracts -----------------------------
(***************************************************************************)
(* Small instances of ContractSigning for TLC.                             *)
(***************************************************************************)
EXTENDS ContractSigning, TLC

Symmetry == Permutations(Emails) \cup Permutations(Workers)
=============================================================================
