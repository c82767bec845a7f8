--------------------------- MODULE MachineCalendar ---------------------------
(***************************************************************************)
(* What the availability rules promise, without holds, payments or clocks: *)
(* each machine has a calendar of periods, a step may take one period that *)
(* is free at that moment, and any number of periods may be let go.        *)
(***************************************************************************)
EXTENDS Naturals

CONSTANTS Rentals, Machines, Periods, CleaningGap, Nothing

VARIABLE booked   \* booked[r]: the machine and period rental r occupies, or Nothing

Slots == [machine : Machines, period : Periods]

Overlap(p, q) == /\ p.start <= q.end + CleaningGap
                 /\ p.end + CleaningGap >= q.start

Clash(x, y) == x.machine = y.machine /\ Overlap(x.period, y.period)

Init == booked = [r \in Rentals |-> Nothing]

\* The rentals of gone let their periods go; with them out of the way, r takes a slot.
Release(gone) ==
  booked' = [r \in Rentals |-> IF r \in gone THEN Nothing ELSE booked[r]]

Take(r, slot) ==
  /\ \A s \in Rentals \ {r} : booked[s] # Nothing => ~Clash(booked[s], slot)
  /\ booked' = [booked EXCEPT ![r] = slot]

Next == \/ \E gone \in SUBSET Rentals : Release(gone)
        \/ \E r \in Rentals, slot \in Slots : Take(r, slot)

Spec == Init /\ [][Next]_booked

Disjoint ==
  \A r, s \in Rentals :
     r # s /\ booked[r] # Nothing /\ booked[s] # Nothing => ~Clash(booked[r], booked[s])
=============================================================================
