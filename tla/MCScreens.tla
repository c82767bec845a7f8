----------------------------- MODULE MCScreens -----------------------------
(***************************************************************************)
(* Screens for TLC: the smallest instance of each in which its hazards     *)
(* happen.                                                                 *)
(***************************************************************************)
EXTENDS Screens, TLC

MCRequests  == ("messages" :> 2) @@ [team |-> 5, account |-> 5, signup |-> 2]
MCRevision  == ("owner signs" :> 1) @@ ("tenant signs" :> 2) @@ [series |-> 4]
MCOpens     == ("owner signs" :> 2) @@ ("tenant signs" :> 2) @@ [fleet |-> 2, listing |-> 2] @@ ("new listing" :> 1)
MCFiles     == [licences |-> 2, certificates |-> 1]
MCContracts == ("owner signs" :> {1, 2}) @@ ("tenant signs" :> {1})
MCMoving    == ("owner signs" :> {1}) @@ ("tenant signs" :> {1})
MCRentals   == [reviews |-> {1, 2}, meter |-> {1}]
MCRunning   == [reviews |-> {2}, meter |-> {1}]
MCCancelable == [reviews |-> {2}, meter |-> {}]
MCHours     == [reviews |-> 0, meter |-> 2]
MCPeople    == [team |-> {1, 2}, account |-> {1}, signup |-> {1}]
MCForms     == [team |-> 2, account |-> 1, signup |-> 1]
MCCeps      == [team |-> {1, 2}, account |-> {1, 2}, signup |-> {1, 2}, listing |-> {2}] @@ ("new listing" :> {1})
MCMachines  == ("listing" :> {}) @@ ("new listing" :> {1, 2})
MCAddresses == ("listing" :> {1}) @@ ("new listing" :> {})
MCSelections == ("listing" :> 0) @@ ("new listing" :> 3)
MCOwnerOf   == (1 :> 3) @@ (2 :> 3)
MCPlaceOf   == [finder |-> (1 :> 1), search |-> (1 :> 1) @@ (2 :> 1)]
MCStatesOf  == [finder |-> (1 :> {1}), search |-> (1 :> {1}) @@ (2 :> {2})]
MCSignedIn  == [finder |-> {TRUE}, search |-> BOOLEAN]
MCAsks      == [finder |-> 2, search |-> 0]
MCVisits    == [finder |-> 0, search |-> 2]
MCReads     == [finder |-> 0, search |-> 2]

Symmetry == Permutations(Threads)
=============================================================================
