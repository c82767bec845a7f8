------------------------------ MODULE Booking ------------------------------
(***************************************************************************)
(* The booking page of one tenant: the dates, the quote, the creation of   *)
(* the rental, the trip to the payment provider and back.                  *)
(*                                                                         *)
(* Days are numbers, 0 being no day; a rental is its place in db.rentals,  *)
(* 0 being none.  The page is mounted again by a reload and by the return  *)
(* from the provider: all it keeps then is its address.                    *)
(*                                                                         *)
(* ui is the page and its address, db the rentals the tenant created, net  *)
(* the requests in flight.  A request whose page is gone has here = FALSE. *)
(***************************************************************************)
EXTENDS Integers, Sequences

CONSTANTS
  MaxDay,        \* bound: the calendar
  Earliest,      \* first day the booking policy accepts
  MaxDays,       \* days the listing allows at most
  MaxRentals,    \* bound: rentals created
  MaxPolls,      \* MAX_TENTATIVAS
  MaxMounts      \* bound: times the page is mounted

VARIABLES ui, db, net
vars == <<ui, db, net>>

Days    == 1..MaxDay
None    == [start |-> 0, end |-> 0]
Pending == {"pending", "awaiting_payment"}
Results == {"none", "sucesso", "cancelado"}
NoAddress == [rental |-> 0, result |-> "none"]

\* ---------------------------------------------------------------- helpers
Dates == [start |-> ui.start, end |-> ui.end]
Length(p) == IF p.start = 0 \/ p.end < p.start THEN 0 ELSE p.end - p.start + 1

\* The day before and the day after a rental are kept for cleaning.
Around(p) == p.start - 1..p.end + 1
Blocked(p) == p.start..p.end \cap ui.blocked # {}

Occupies(r) == r.status = "paid" \/ (r.status \in Pending /\ r.held)
Conflict(p, except) ==
  \E i \in DOMAIN db.rentals \ {except} :
    Occupies(db.rentals[i]) /\ Around(db.rentals[i].dates) \cap p.start..p.end # {}

\* Changing the dates drops the quote and ignores the answer under way.
Ignored(m) == m.kind = "quote"

Quoted(u, p) == [u EXCEPT !.start = p.start, !.end = p.end, !.quote = None]
Asking(ms, p) ==
  LET kept == {m \in ms : ~Ignored(m)}
  IN IF Length(p) > 0 THEN kept \cup {[kind |-> "quote", dates |-> p]} ELSE kept

\* ---------------------------------------------------------------- mounting
\* What a request leaves behind when its page is gone: only what it changes.
Orphans(ms) == {[m EXCEPT !.here = FALSE] : m \in {n \in ms : n.kind \in {"create", "created", "checkout"}}}
\* The rentals that were created for a page that will not hear of it.
Unheard(ms) == {m.rental : m \in {n \in ms : n.kind = "created"}}
Lose(rentals, lost) == [i \in DOMAIN rentals |-> IF i \in lost THEN [rentals[i] EXCEPT !.lost = TRUE] ELSE rentals[i]]

\* The page as its address has it.
Page(address, n) ==
  [at |-> "page", mounts |-> n, step |-> 1, start |-> 0, end |-> 0, quote |-> None, blocked |-> {},
   rental |-> 0, paying |-> FALSE, polls |-> 0, error |-> FALSE, review |-> FALSE,
   restoring |-> address.rental # 0 /\ address.result # "sucesso",
   confirming |-> address.rental # 0 /\ address.result = "sucesso",
   address |-> IF address.result = "cancelado" THEN [address EXCEPT !.result = "none"] ELSE address]
First(address) ==
  {[kind |-> "occupancy"]} \cup
  (CASE address.rental = 0 -> {}
     [] address.rental # 0 /\ address.result = "sucesso" -> {[kind |-> "poll", rental |-> address.rental]}
     [] OTHER -> {[kind |-> "restore", rental |-> address.rental]})

Mount(address) ==
  /\ ui.mounts < MaxMounts
  /\ ui' = Page(address, ui.mounts + 1)
  /\ net' = First(address) \cup Orphans(net)
  /\ db' = [db EXCEPT !.rentals = Lose(@, Unheard(net))]

Reload == ui.at = "page" /\ Mount(ui.address)

Init ==
  /\ ui = Page(NoAddress, 1)
  /\ db = [rentals |-> <<>>]
  /\ net = First(NoAddress)

\* A form is on screen only when nothing is loading, failed or under review.
Shown(step) ==
  ui.at = "page" /\ ui.step = step /\ ~ui.restoring /\ ~ui.confirming /\ ~ui.error /\ ~ui.review

\* ---------------------------------------------------------------- step 1
OccupancyArrives(m) ==
  /\ m.kind = "occupancy" /\ net' = net \ {m}
  /\ ui' = [ui EXCEPT !.blocked = UNION {Around(db.rentals[i].dates) : i \in {j \in DOMAIN db.rentals : Occupies(db.rentals[j])}}]
  /\ UNCHANGED db

QuoteArrives(m) ==
  /\ m.kind = "quote" /\ net' = net \ {m}
  /\ ui' = [ui EXCEPT !.quote = m.dates]
  /\ UNCHANGED db

\* The first click starts the period, or starts it again; the second ends it.
Selected(d) ==
  IF ui.start = 0 \/ ui.end # 0 THEN [start |-> d, end |-> 0]
  ELSE IF d < ui.start THEN [start |-> d, end |-> 0]
  ELSE IF Blocked([start |-> ui.start, end |-> d]) THEN Dates
  ELSE [start |-> ui.start, end |-> d]

\* The days the calendar lets the tenant click.
Clickable(d) ==
  /\ d >= Earliest /\ d \notin ui.blocked
  /\ ui.start # 0 /\ ui.end = 0 => Length([start |-> ui.start, end |-> d]) <= MaxDays

SelectDay(d) ==
  /\ Shown(1) /\ Clickable(d) /\ Selected(d) # Dates
  /\ ui' = Quoted(ui, Selected(d))
  /\ net' = Asking(net, Selected(d))
  /\ UNCHANGED db

Clear(p) ==
  /\ Shown(1) /\ p # Dates
  /\ ui' = Quoted(ui, p)
  /\ net' = Asking(net, p)
  /\ UNCHANGED db

Advance ==
  /\ Shown(1) /\ ui.start >= Earliest /\ Length(Dates) \in 1..MaxDays /\ ~Blocked(Dates)
  /\ ui' = [ui EXCEPT !.step = 2]
  /\ UNCHANGED <<db, net>>

\* ---------------------------------------------------------------- step 2
\* (mutant) the way back stays open while the rental is created
MayReturnAlways == ui.rental = 0

\* The way back to the dates: closed by a rental, and by the click on pay.
MayReturn == ui.rental = 0 /\ ~ui.paying

BackToDates ==
  /\ Shown(2) /\ MayReturn
  /\ ui' = [ui EXCEPT !.step = 1]
  /\ UNCHANGED <<db, net>>

Pay ==
  /\ Shown(2) /\ ~ui.paying
  /\ ui' = [ui EXCEPT !.paying = TRUE]
  /\ net' = net \cup {IF ui.rental = 0 THEN [kind |-> "create", dates |-> Dates, here |-> TRUE]
                      ELSE [kind |-> "checkout", rental |-> ui.rental, here |-> TRUE]}
  /\ UNCHANGED db

\* (mutant) the rental is kept by the page alone
NotKept(r) == NoAddress

\* The address a rental leaves: a reload finds it there.
Kept(r) == [rental |-> r, result |-> "none"]

\* The page keeps the rental, writes it in the address and asks for a checkout.
CreatedArrives(m) ==
  /\ m.kind = "created" /\ m.here
  /\ ui' = [ui EXCEPT !.rental = m.rental, !.address = Kept(m.rental)]
  /\ net' = (net \ {m}) \cup {[kind |-> "checkout", rental |-> m.rental, here |-> TRUE]}
  /\ UNCHANGED db

\* Refused, or lost before or after it was served.
PayFails(m) ==
  /\ m.kind \in {"create", "created", "checkout", "opened"} /\ m.here
  /\ ui' = [ui EXCEPT !.paying = FALSE]
  /\ db' = [db EXCEPT !.rentals = Lose(@, Unheard({m}))]
  /\ net' = net \ {m}

OpenedArrives(m) ==
  /\ m.kind = "opened" /\ m.here
  /\ ui' = [ui EXCEPT !.at = "stripe", !.paying = FALSE]
  /\ net' = Orphans(net \ {m})
  /\ UNCHANGED db

\* The provider sends the tenant back with the rental it was opened for.
StripeReturns(result) ==
  /\ ui.at = "stripe"
  /\ result = "sucesso" => db.rentals[ui.rental].pay # "expired"
  /\ ui.mounts < MaxMounts
  /\ ui' = Page([rental |-> ui.rental, result |-> result], ui.mounts + 1)
  /\ net' = First([rental |-> ui.rental, result |-> result]) \cup net
  /\ db' = IF result = "sucesso" THEN [db EXCEPT !.rentals[ui.rental].charged = TRUE] ELSE db

\* ---------------------------------------------------------------- the way back
RestoreArrives(m) ==
  /\ m.kind = "restore"
  /\ LET r == db.rentals[m.rental]
     IN IF r.status \in Pending
        THEN /\ ui' = [Quoted(ui, r.dates) EXCEPT !.rental = m.rental, !.step = 2, !.restoring = FALSE]
             /\ net' = Asking(net \ {m}, r.dates)
        ELSE /\ ui' = [ui EXCEPT !.error = TRUE, !.restoring = FALSE]
             /\ net' = net \ {m}
  /\ UNCHANGED db

RestoreFails(m) ==
  /\ m.kind = "restore" /\ net' = net \ {m}
  /\ ui' = [ui EXCEPT !.error = TRUE, !.restoring = FALSE]
  /\ UNCHANGED db

\* No answer settles the payment yet: ask again, MaxPolls times in all.
Again(m) ==
  IF ui.polls + 1 < MaxPolls
  THEN ui' = [ui EXCEPT !.polls = @ + 1] /\ UNCHANGED <<db, net>>
  ELSE /\ ui' = [ui EXCEPT !.polls = @ + 1, !.confirming = FALSE]
       /\ db' = [db EXCEPT !.rentals = Lose(@, {m.rental})]
       /\ net' = net \ {m}

PollArrives(m) ==
  /\ m.kind = "poll"
  /\ LET pay == db.rentals[m.rental].pay
     IN \/ pay = "review"
           /\ ui' = [ui EXCEPT !.address = NoAddress, !.confirming = FALSE, !.review = TRUE]
           /\ net' = net \ {m} /\ UNCHANGED db
        \/ pay \in {"expired", "refunded"}
           /\ ui' = [ui EXCEPT !.address = NoAddress, !.confirming = FALSE]
           /\ net' = net \ {m} /\ UNCHANGED db
        \/ pay = "approved"
           /\ net' = (net \ {m}) \cup {[kind |-> "conclude", rental |-> m.rental]}
           /\ UNCHANGED <<ui, db>>
        \/ pay \in {"none", "pending"} /\ Again(m)

PollFails(m) == m.kind = "poll" /\ Again(m)

ConcludeArrives(m) ==
  /\ m.kind = "conclude"
  /\ ui' = [Quoted(ui, db.rentals[m.rental].dates) EXCEPT
              !.rental = m.rental, !.step = 3, !.confirming = FALSE, !.address = NoAddress]
  /\ net' = Asking(net \ {m}, db.rentals[m.rental].dates)
  /\ UNCHANGED db

ConcludeFails(m) ==
  /\ m.kind = "conclude" /\ net' = net \ {m}
  /\ ui' = [ui EXCEPT !.error = TRUE, !.confirming = FALSE]
  /\ UNCHANGED db

BackToPayment ==
  /\ Shown(3)
  /\ ui' = [ui EXCEPT !.step = 2]
  /\ UNCHANGED <<db, net>>

\* ---------------------------------------------------------------- the server
ServeCreate(m) ==
  /\ m.kind = "create" /\ Len(db.rentals) < MaxRentals /\ ~Conflict(m.dates, 0)
  /\ db' = [db EXCEPT !.rentals = Append(@,
       [dates |-> m.dates, status |-> "pending", held |-> TRUE, pay |-> "none", charged |-> FALSE, lost |-> ~m.here])]
  /\ net' = (net \ {m}) \cup {[kind |-> "created", rental |-> Len(db.rentals) + 1, here |-> m.here]}
  /\ UNCHANGED ui

ServeCheckout(m) ==
  /\ m.kind = "checkout"
  /\ LET r == db.rentals[m.rental]
     IN /\ r.status \in Pending /\ r.pay \notin {"approved", "review"} /\ ~Conflict(r.dates, m.rental)
        /\ db' = [db EXCEPT !.rentals[m.rental] =
                    [@ EXCEPT !.status = "awaiting_payment", !.held = TRUE, !.pay = "pending", !.charged = FALSE]]
  /\ net' = (net \ {m}) \cup (IF m.here THEN {[kind |-> "opened", here |-> TRUE]} ELSE {})
  /\ UNCHANGED ui

WebhookPaid(i) ==
  LET r == db.rentals[i]
  IN /\ r.pay = "pending" /\ r.charged
     /\ db' = [db EXCEPT !.rentals[i] =
                 IF r.status \in Pending /\ ~Conflict(r.dates, i)
                 THEN [@ EXCEPT !.status = "paid", !.pay = "approved"] ELSE [@ EXCEPT !.pay = "review"]]
     /\ UNCHANGED <<ui, net>>

SessionExpires(i) ==
  LET r == db.rentals[i]
  IN /\ r.pay = "pending" /\ ~r.charged
     /\ db' = [db EXCEPT !.rentals[i] =
                 [r EXCEPT !.pay = "expired", !.status = IF @ = "awaiting_payment" THEN "cancelled" ELSE @]]
     /\ UNCHANGED <<ui, net>>

\* The half hour of a rental nobody is paying passes.
HoldLapses(i) ==
  LET r == db.rentals[i]
  IN /\ r.held /\ r.status = "pending"
     /\ db' = [db EXCEPT !.rentals[i].held = FALSE]
     /\ UNCHANGED <<ui, net>>

\* Either party cancels, from another page.
Cancelled(i) ==
  LET r == db.rentals[i]
  IN /\ r.status # "cancelled"
     /\ db' = [db EXCEPT !.rentals[i] =
                 [r EXCEPT !.status = "cancelled", !.pay = IF @ = "approved" THEN "refunded" ELSE @]]
     /\ UNCHANGED <<ui, net>>

Next ==
  \/ \E m \in net :
       \/ OccupancyArrives(m) \/ QuoteArrives(m) \/ CreatedArrives(m) \/ PayFails(m) \/ OpenedArrives(m)
       \/ RestoreArrives(m) \/ RestoreFails(m) \/ PollArrives(m) \/ PollFails(m)
       \/ ConcludeArrives(m) \/ ConcludeFails(m) \/ ServeCreate(m) \/ ServeCheckout(m)
  \/ \E d \in Days : SelectDay(d)
  \/ \E p \in {None, [start |-> ui.start, end |-> 0]} : Clear(p)
  \/ Advance \/ BackToDates \/ BackToPayment \/ Pay \/ Reload
  \/ \E result \in {"sucesso", "cancelado"} : StripeReturns(result)
  \/ \E i \in DOMAIN db.rentals : WebhookPaid(i) \/ SessionExpires(i) \/ HoldLapses(i) \/ Cancelled(i)

Spec == Init /\ [][Next]_vars
-----------------------------------------------------------------------------
TypeOK ==
  /\ ui.at \in {"page", "stripe"} /\ ui.step \in 1..3 /\ ui.start \in 0..MaxDay /\ ui.end \in 0..MaxDay
  /\ ui.rental \in 0..Len(db.rentals) /\ ui.address.rental \in 0..Len(db.rentals)
  /\ ui.address.result \in Results /\ ui.polls \in 0..MaxPolls
  /\ \A i \in DOMAIN db.rentals : db.rentals[i].status \in Pending \cup {"paid", "cancelled"}

\* "Retrying or refreshing must never create another rental for these dates":
\* of two live rentals of the same tenant for the same dates, the page never
\* heard that one was created, or gave up waiting for its payment.
NoTwinRental ==
  \A i, j \in DOMAIN db.rentals :
    i < j /\ db.rentals[i].dates = db.rentals[j].dates
    /\ db.rentals[i].status # "cancelled" /\ db.rentals[j].status # "cancelled"
      => db.rentals[i].lost \/ db.rentals[j].lost

\* What the tenant sees is what he books: the quote and the rental on screen
\* are those of the dates on screen, whichever answer came late.
WhatIsPaidIsShown ==
  ui.at = "page" =>
    /\ ui.quote # None => ui.quote = Dates
    /\ ui.rental # 0 => db.rentals[ui.rental].dates = Dates
=============================================================================
