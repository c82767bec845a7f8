----------------------------- MODULE MCCheckout -----------------------------
(***************************************************************************)
(* Small instances of Checkout for TLC.  One tick stands for the half hour *)
(* of a hold and for the days of the calendar at once: what matters is the *)
(* order of the instants, and a tick is the shortest distance between two. *)
(***************************************************************************)
EXTENDS Checkout, TLC

CONSTANTS listing1, listing2, machine1

Period(first, last) == [start |-> first, end |-> last]

\* Two rivals that clash only through the cleaning day.
NeighbourPeriods == {Period(3, 3), Period(4, 4)}

\* One period and a longer one, for a tenant who changes the dates.
EditPeriods == {Period(3, 3), Period(3, 4)}

\* Neighbours a tick earlier, for two attempts and two workers in a short time.
EarlyPeriods == {Period(2, 2), Period(3, 3)}

TwoListings == (listing1 :> machine1) @@ (listing2 :> machine1)
OneListing  == (listing1 :> machine1)

Symmetry == Permutations(Rentals) \cup Permutations(Workers)
=============================================================================
