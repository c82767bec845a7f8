----------------------------- MODULE DealProofs -----------------------------
(***************************************************************************)
(* What a tenant books, pays for and signs is what was on screen, proved   *)
(* of the booking page, the weekly series and the signature dialogs for    *)
(* any dates, rentals, weeks, keys and revisions.                          *)
(*                                                                         *)
(* Each invariant relates what the page shows, what it asked for and what  *)
(* the server keeps.  The hard part of the booking page is its memory: a   *)
(* rental that still waits to be paid is on the page, in its address while *)
(* no form is shown, or in an answer under way, or it was lost.            *)
(***************************************************************************)
EXTENDS Screens, Sequences, TLAPS

YesNo == {TRUE, FALSE}

Period == [start : Int, end : Int]
Span   == {p \in Period : p.start # 0 /\ p.start <= p.end}

\* A rental nobody is paying may lose its hold; one being paid keeps it.
Rental ==
  {r \in [dates : Span, status : {"pending", "awaiting_payment", "paid", "cancelled"}, held : YesNo,
          pay : {"none", "pending", "approved", "review", "expired", "refunded"}, charged : YesNo, lost : YesNo] :
     /\ r.status = "pending" => r.pay = "none"
     /\ r.status = "awaiting_payment" => r.held
     /\ r.status = "paid" => r.pay = "approved"}

Request ==
  [kind : {"occupancy"}]
    \cup [kind : {"quote"}, dates : Period]
    \cup [kind : {"poll", "conclude", "restore"}, rental : DOMAIN db.rentals]
    \cup [kind : {"create"}, dates : Span, here : YesNo]
    \cup [kind : {"created", "checkout"}, rental : DOMAIN db.rentals, here : YesNo]
    \cup [kind : {"opened"}, here : {TRUE}]

Returning(m) == m.kind \in {"poll", "conclude", "restore"}
Paying(m)    == m.kind \in {"create", "created", "checkout", "opened"} /\ m.here

BookingShape ==
  /\ DOMAIN ui = {"at", "mounts", "step", "start", "end", "quote", "blocked", "rental", "paying", "polls", "error",
                  "review", "restoring", "confirming", "address"}
  /\ DOMAIN db = {"rentals"} /\ db.rentals \in Seq(Rental)
  /\ ui.start \in Int /\ ui.end \in Int /\ ui.rental \in Nat
  /\ ui.address \in [rental : Nat, result : {"none", "sucesso", "cancelado"}]
  /\ net \subseteq Request

\* The quote and the rental on screen, and the quote asked for, are of the
\* dates on screen, which only change while there is no rental.
DatesKept ==
  /\ ui.quote # Booking!None => ui.quote = Booking!Dates
  /\ \A m \in net : m.kind = "quote" => ui.at = "page" /\ m.dates = Booking!Dates
  /\ ui.rental # 0 => ui.rental \in DOMAIN db.rentals /\ db.rentals[ui.rental].dates = Booking!Dates
  /\ ui.address.rental # 0 => ui.address.rental \in DOMAIN db.rentals
  /\ IF ui.step = 1 THEN ui.rental = 0 ELSE Booking!Dates \in Span
  /\ ui.at = "stripe" => ui.rental # 0

\* The page that comes back asks one thing at a time about the rental of its
\* address, and shows no form meanwhile.
OneReturn ==
  \A m \in net : Returning(m) =>
    /\ ui.at = "page" /\ m.rental = ui.address.rental
    /\ IF m.kind = "restore" THEN ui.restoring ELSE ui.confirming
    /\ m.kind = "conclude" => db.rentals[m.rental].status # "pending"
    /\ \A n \in net : Returning(n) => n = m

\* The page has one payment under way, for what is on screen.
OnePayment ==
  \A m \in net : Paying(m) =>
    /\ ui.at = "page" /\ ui.paying /\ ui.step = 2 /\ ~ui.restoring /\ ~ui.confirming /\ ~ui.error
    /\ m.kind = "create" => ui.rental = 0 /\ m.dates = Booking!Dates
    /\ m.kind = "created" => ui.rental = 0 /\ db.rentals[m.rental].dates = Booking!Dates
    /\ m.kind = "checkout" => m.rental = ui.rental
    /\ m.kind = "opened" => ui.rental # 0
    /\ \A n \in net : Paying(n) => n = m

\* The page knows of a rental that still has to be paid, or its address does
\* while no form is shown.
Known(i) ==
  \/ \E m \in net : m.kind = "created" /\ m.here /\ m.rental = i
  \/ ui.rental = i /\ ui.address.rental = i
  \/ ui.at = "page" /\ ui.address.rental = i /\ (ui.restoring \/ ui.confirming \/ ui.error)

Awaits(r) == r.status = "pending" /\ ~r.lost

Remembered == \A i \in DOMAIN db.rentals : Awaits(db.rentals[i]) => Known(i)

BookingInv == BookingShape /\ DatesKept /\ OneReturn /\ OnePayment /\ Remembered /\ Booking!NoTwinRental

-----------------------------------------------------------------------------
\* No payment is under way on a page that is not at its last form.
LEMMA NoPayment ==
  ASSUME OnePayment,
         ~ui.paying \/ ui.step # 2 \/ ui.restoring \/ ui.confirming \/ ui.error \/ ui.at # "page"
  PROVE  \A m \in net : ~Paying(m)
BY DEF OnePayment

\* Nothing is asked about the address of a page that shows a form.
LEMMA NoReturn ==
  ASSUME OneReturn, ui.at # "page" \/ (~ui.restoring /\ ~ui.confirming)
  PROVE  \A m \in net : ~Returning(m)
BY DEF OneReturn

(***************************************************************************)
(* The server changes a rental, and the page loses one, only this way.     *)
(***************************************************************************)
Ages(r, t) ==
  /\ t.dates = r.dates /\ (r.lost => t.lost)
  /\ t.status = "pending" => r.status = "pending"
  /\ r.status = "cancelled" => t.status = "cancelled"

NoneCreated == DOMAIN db'.rentals = DOMAIN db.rentals

Evolves ==
  /\ DOMAIN db' = {"rentals"} /\ db'.rentals \in Seq(Rental)
  /\ DOMAIN db.rentals \subseteq DOMAIN db'.rentals
  /\ \A i \in DOMAIN db.rentals : Ages(db.rentals[i], db'.rentals[i])

\* Rentals that evolve stay without a twin.
LEMMA EvolvesWithoutTwin ==
  ASSUME Booking!NoTwinRental, Evolves, NoneCreated
  PROVE  Booking!NoTwinRental'
BY DEF Booking!NoTwinRental, Evolves, NoneCreated, Ages

\* One rental changes.
LEMMA OneEvolves ==
  ASSUME BookingShape, NEW i \in DOMAIN db.rentals, NEW r \in Rental, Ages(db.rentals[i], r),
         db' = [db EXCEPT !.rentals = [@ EXCEPT ![i] = r]]
  PROVE  Evolves /\ NoneCreated /\ db'.rentals[i] = r
<1>1. db'.rentals = [db.rentals EXCEPT ![i] = r] /\ DOMAIN db' = {"rentals"}
  BY DEF BookingShape
<1>2. db.rentals \in Seq(Rental)
  BY DEF BookingShape
<1>3. db'.rentals \in Seq(Rental) /\ DOMAIN db'.rentals = DOMAIN db.rentals
  BY <1>1, <1>2
<1>4. \A j \in DOMAIN db.rentals : db'.rentals[j] = IF j = i THEN r ELSE db.rentals[j]
  BY <1>1, <1>2
<1>5. \A j \in DOMAIN db.rentals : Ages(db.rentals[j], db'.rentals[j])
  BY <1>4 DEF Ages
<1> QED BY <1>1, <1>3, <1>4, <1>5 DEF Evolves, NoneCreated

\* The page stops hearing of some rentals.
LEMMA LoseEvolves ==
  ASSUME BookingShape, NEW S, db' = [db EXCEPT !.rentals = Booking!Lose(@, S)]
  PROVE  Evolves /\ NoneCreated /\ \A i \in DOMAIN db.rentals \cap S : db'.rentals[i].lost
<1>1. db.rentals \in Seq(Rental)
  BY DEF BookingShape
<1>2. db'.rentals = Booking!Lose(db.rentals, S) /\ DOMAIN db' = {"rentals"}
  BY DEF BookingShape
<1>3. DOMAIN db'.rentals = DOMAIN db.rentals
  BY <1>2 DEF Booking!Lose
<1>4. ASSUME NEW i \in DOMAIN db.rentals
      PROVE  db'.rentals[i] \in Rental /\ Ages(db.rentals[i], db'.rentals[i]) /\ (i \in S => db'.rentals[i].lost)
  <2>1. db.rentals[i] \in Rental
    BY <1>1
  <2>2. PICK yes \in YesNo : yes = TRUE
    BY DEF YesNo
  <2>3. CASE i \in S
    <3>1. db'.rentals[i] = [db.rentals[i] EXCEPT !.lost = yes]
      BY <1>2, <2>2, <2>3 DEF Booking!Lose
    <3>2. db'.rentals[i] \in Rental
      BY <2>1, <3>1 DEF Rental
    <3>3. Ages(db.rentals[i], db'.rentals[i])
      BY <2>1, <2>2, <3>1 DEF Rental, Ages
    <3>4. db'.rentals[i].lost
      BY <2>1, <2>2, <3>1 DEF Rental
    <3> QED BY <3>2, <3>3, <3>4
  <2>4. CASE i \notin S
    BY <1>2, <2>1, <2>4 DEF Booking!Lose, Ages
  <2> QED BY <2>3, <2>4
<1>5. db'.rentals \in Seq(Rental)
  <2>1. DOMAIN db'.rentals = 1..Len(db.rentals) /\ Len(db.rentals) \in Nat
    BY <1>1, <1>3
  <2>2. db'.rentals = [i \in 1..Len(db.rentals) |-> db'.rentals[i]]
    BY <1>2, <1>1 DEF Booking!Lose
  <2> QED BY <1>3, <1>4, <2>1, <2>2
<1> QED BY <1>2, <1>3, <1>4, <1>5 DEF Evolves, NoneCreated

(***************************************************************************)
(* What a step must leave alone to keep each part of the invariant.        *)
(***************************************************************************)
SameDates == ui'.start = ui.start /\ ui'.end = ui.end
SamePlace == ui'.at = ui.at /\ ui'.restoring = ui.restoring /\ ui'.confirming = ui.confirming
SameRental == ui'.rental = ui.rental /\ ui'.address.rental = ui.address.rental

\* A rental that exists goes on existing.
LEMMA RequestsStay ==
  ASSUME Evolves, NEW m \in Request
  PROVE  m \in Request'
BY DEF Evolves, Request

\* No new question about the address.
LEMMA KeepsReturns ==
  ASSUME BookingShape, OneReturn, Evolves, SamePlace, ui'.address.rental = ui.address.rental,
         \A m \in net' : Returning(m) => m \in net
  PROVE  OneReturn'
<1> SUFFICES ASSUME NEW m \in net', Returning(m)
             PROVE  /\ ui'.at = "page" /\ m.rental = ui'.address.rental
                    /\ IF m.kind = "restore" THEN ui'.restoring ELSE ui'.confirming
                    /\ m.kind = "conclude" => db'.rentals[m.rental].status # "pending"
                    /\ \A n \in net' : Returning(n) => n = m
  BY DEF OneReturn, Returning
<1>1. m \in net /\ m \in Request
  BY DEF BookingShape
<1>2. m.rental \in DOMAIN db.rentals
  BY <1>1 DEF Request, Returning
<1> QED BY <1>1, <1>2 DEF OneReturn, SamePlace, Evolves, Ages

\* No new payment, and the page that has one under way stays as it is.
LEMMA KeepsPayments ==
  ASSUME BookingShape, OnePayment, Evolves, SameDates, SamePlace, ui'.rental = ui.rental,
         ui'.paying = ui.paying, ui'.step = ui.step, ui'.error = ui.error,
         \A m \in net' : Paying(m) => m \in net
  PROVE  OnePayment'
<1> SUFFICES ASSUME NEW m \in net', Paying(m)
             PROVE  /\ ui'.at = "page" /\ ui'.paying /\ ui'.step = 2
                    /\ ~ui'.restoring /\ ~ui'.confirming /\ ~ui'.error
                    /\ m.kind = "create" => ui'.rental = 0 /\ m.dates = Booking!Dates'
                    /\ m.kind = "created" => ui'.rental = 0 /\ db'.rentals[m.rental].dates = Booking!Dates'
                    /\ m.kind = "checkout" => m.rental = ui'.rental
                    /\ m.kind = "opened" => ui'.rental # 0
                    /\ \A n \in net' : Paying(n) => n = m
  BY DEF OnePayment, Paying
<1>1. m \in net /\ m \in Request
  BY DEF BookingShape
<1>2. m.kind = "created" => m.rental \in DOMAIN db.rentals
  BY <1>1 DEF Request
<1>3. Booking!Dates' = Booking!Dates
  BY DEF SameDates, Booking!Dates
<1> QED BY <1>1, <1>2, <1>3 DEF OnePayment, SamePlace, Evolves, Ages

\* The dates on screen stay, and no other quote is asked for.
LEMMA KeepsDates ==
  ASSUME BookingShape, DatesKept, Evolves, SameDates, SameRental, ui'.at = ui.at, ui'.step = ui.step,
         ui'.quote \in {ui.quote, Booking!Dates}, \A m \in net' : m.kind = "quote" => m \in net
  PROVE  DatesKept'
<1>1. Booking!Dates' = Booking!Dates /\ Booking!None' = Booking!None
  BY DEF SameDates, Booking!Dates, Booking!None
<1> QED BY <1>1 DEF DatesKept, SameRental, Evolves, Ages, Span, Period

\* The page goes on knowing what it knew, unless it is lost.
LEMMA KeepsMemory ==
  ASSUME BookingShape, Remembered, Evolves, NoneCreated, SamePlace, SameRental, ui'.error = ui.error,
         \A m \in net : m.kind = "created" /\ m.here => m \in net' \/ db'.rentals[m.rental].lost
  PROVE  Remembered'
<1> SUFFICES ASSUME NEW i \in DOMAIN db.rentals, Awaits(db'.rentals[i])
             PROVE  Known(i)'
  BY DEF Remembered, NoneCreated
<1>1. Awaits(db.rentals[i])
  BY DEF Awaits, Evolves, Ages
<1>2. Known(i)
  BY <1>1 DEF Remembered
<1>3. CASE \E m \in net : m.kind = "created" /\ m.here /\ m.rental = i
  BY <1>3 DEF Known, Awaits
<1>4. CASE ~\E m \in net : m.kind = "created" /\ m.here /\ m.rental = i
  BY <1>2, <1>4 DEF Known, SamePlace, SameRental
<1> QED BY <1>3, <1>4

\* The page is left alone but for what it shows of the calendar and the quote.
SameDeal ==
  /\ DOMAIN ui' = DOMAIN ui /\ SameDates /\ SamePlace /\ SameRental /\ ui'.address = ui.address
  /\ ui'.paying = ui.paying /\ ui'.step = ui.step /\ ui'.error = ui.error
  /\ ui'.quote \in {ui.quote, Booking!Dates}

\* Such a step keeps the invariant, whatever the server does meanwhile.
LEMMA SameDealKeeps ==
  ASSUME BookingInv, SameDeal, Evolves, NoneCreated, net' \subseteq net,
         \A m \in net : m.kind = "created" => m \in net'
  PROVE  BookingInv'
<1>1. BookingShape'
  <2>1. net' \subseteq Request'
    BY RequestsStay DEF BookingInv, BookingShape
  <2> QED BY <2>1 DEF BookingInv, BookingShape, SameDeal, SameDates, SameRental, Evolves
<1>2. DatesKept' /\ OneReturn' /\ OnePayment' /\ Remembered' /\ Booking!NoTwinRental'
  <2>1. DatesKept'
    BY KeepsDates DEF BookingInv, SameDeal, SamePlace
  <2>2. OneReturn'
    BY KeepsReturns DEF BookingInv, SameDeal, SameRental
  <2>3. OnePayment'
    BY KeepsPayments DEF BookingInv, SameDeal, SameRental
  <2>4. Remembered'
    BY KeepsMemory DEF BookingInv, SameDeal
  <2> QED BY <2>1, <2>2, <2>3, <2>4, EvolvesWithoutTwin DEF BookingInv
<1> QED BY <1>1, <1>2 DEF BookingInv

\* The calendar and the quote arrive.
LEMMA ArrivalSteps ==
  ASSUME BookingInv, NEW m \in net, Booking!OccupancyArrives(m) \/ Booking!QuoteArrives(m)
  PROVE  BookingInv'
<1>1. Evolves /\ NoneCreated
  BY DEF Booking!OccupancyArrives, Booking!QuoteArrives, Evolves, NoneCreated, Ages, BookingInv, BookingShape
<1>2. SameDeal
  BY DEF Booking!OccupancyArrives, Booking!QuoteArrives, SameDeal, SameDates, SamePlace, SameRental, BookingInv,
         BookingShape, DatesKept
<1>3. net' \subseteq net /\ \A n \in net : n.kind = "created" => n \in net'
  BY DEF Booking!OccupancyArrives, Booking!QuoteArrives
<1> QED BY <1>1, <1>2, <1>3, SameDealKeeps

\* The server settles a payment, lets a hold lapse, or cancels.
LEMMA RentalSteps ==
  ASSUME BookingInv, NEW i \in DOMAIN db.rentals,
         Booking!WebhookPaid(i) \/ Booking!SessionExpires(i) \/ Booking!HoldLapses(i) \/ Booking!Cancelled(i)
  PROVE  BookingInv'
<1> DEFINE r == db.rentals[i]
<1>1. r \in Rental
  BY DEF BookingInv, BookingShape
<1>2. UNCHANGED <<ui, net>>
  BY DEF Booking!WebhookPaid, Booking!SessionExpires, Booking!HoldLapses, Booking!Cancelled
<1>3. \E t \in Rental : Ages(r, t) /\ db' = [db EXCEPT !.rentals = [@ EXCEPT ![i] = t]]
  <2>1. CASE Booking!WebhookPaid(i)
    <3>1. CASE r.status \in Booking!Pending /\ ~Booking!Conflict(r.dates, i)
      <4>1. [r EXCEPT !.status = "paid", !.pay = "approved"] \in Rental
        BY <1>1 DEF Rental
      <4>2. Ages(r, [r EXCEPT !.status = "paid", !.pay = "approved"])
        BY <1>1, <3>1 DEF Rental, Ages, Booking!Pending
      <4> QED BY <2>1, <3>1, <4>1, <4>2 DEF Booking!WebhookPaid
    <3>2. CASE ~(r.status \in Booking!Pending /\ ~Booking!Conflict(r.dates, i))
      <4>1. [r EXCEPT !.pay = "review"] \in Rental
        BY <1>1, <2>1 DEF Rental, Booking!WebhookPaid
      <4>2. Ages(r, [r EXCEPT !.pay = "review"])
        BY <1>1 DEF Rental, Ages
      <4> QED BY <2>1, <3>2, <4>1, <4>2 DEF Booking!WebhookPaid
    <3> QED BY <3>1, <3>2
  <2>2. CASE Booking!SessionExpires(i)
    <3> DEFINE t == [r EXCEPT !.pay = "expired", !.status = IF @ = "awaiting_payment" THEN "cancelled" ELSE @]
    <3>1. t \in Rental
      BY <1>1, <2>2 DEF Rental, Booking!SessionExpires
    <3>2. Ages(r, t)
      BY <1>1 DEF Rental, Ages
    <3>3. db' = [db EXCEPT !.rentals = [@ EXCEPT ![i] = t]]
      BY <2>2 DEF Booking!SessionExpires
    <3> HIDE DEF t
    <3> QED BY <3>1, <3>2, <3>3
  <2>3. CASE Booking!HoldLapses(i)
    <3>1. PICK no \in YesNo : no = FALSE
      BY DEF YesNo
    <3>2. [r EXCEPT !.held = no] \in Rental
      BY <1>1, <2>3 DEF Rental, Booking!HoldLapses
    <3>3. Ages(r, [r EXCEPT !.held = no])
      BY <1>1 DEF Rental, Ages
    <3>4. db' = [db EXCEPT !.rentals = [@ EXCEPT ![i] = [r EXCEPT !.held = no]]]
      BY <2>3, <3>1 DEF Booking!HoldLapses
    <3> QED BY <3>2, <3>3, <3>4
  <2>4. CASE Booking!Cancelled(i)
    <3> DEFINE t == [r EXCEPT !.status = "cancelled", !.pay = IF @ = "approved" THEN "refunded" ELSE @]
    <3>1. t \in Rental
      BY <1>1 DEF Rental
    <3>2. Ages(r, t)
      BY <1>1 DEF Rental, Ages
    <3>3. db' = [db EXCEPT !.rentals = [@ EXCEPT ![i] = t]]
      BY <2>4 DEF Booking!Cancelled
    <3> HIDE DEF t
    <3> QED BY <3>1, <3>2, <3>3
  <2> QED BY <2>1, <2>2, <2>3, <2>4
<1>4. Evolves /\ NoneCreated
  BY <1>3, OneEvolves DEF BookingInv
<1>5. SameDeal
  BY <1>2 DEF SameDeal, SameDates, SamePlace, SameRental
<1> QED BY <1>2, <1>4, <1>5, SameDealKeeps

\* Nothing the server keeps changes.
LEMMA StoredStays ==
  ASSUME BookingShape, db' = db
  PROVE  Evolves /\ NoneCreated
BY DEF BookingShape, Evolves, NoneCreated, Ages

\* The tenant chooses other dates on the first form, where nothing is under way.
LEMMA DatesSteps ==
  ASSUME BookingInv, NEW p \in Period, Booking!Shown(1), ui' = Booking!Quoted(ui, p), net' = Booking!Asking(net, p),
         db' = db
  PROVE  BookingInv'
<1>1. /\ ui' = [ui EXCEPT !.start = p.start, !.end = p.end, !.quote = Booking!None]
      /\ DOMAIN ui' = DOMAIN ui /\ ui'.start = p.start /\ ui'.end = p.end /\ ui'.quote = Booking!None
      /\ SamePlace /\ SameRental /\ ui'.address = ui.address
      /\ ui'.paying = ui.paying /\ ui'.step = ui.step /\ ui'.error = ui.error
  BY DEF Booking!Quoted, BookingInv, BookingShape, SamePlace, SameRental
<1>2. ui.at = "page" /\ ui.step = 1 /\ ui.rental = 0
  BY DEF Booking!Shown, BookingInv, DatesKept
<1>3. \A m \in net' : m.kind # "quote" => m \in net
  BY DEF Booking!Asking, Booking!Ignored
<1>4. \A m \in net' : m.kind = "quote" => m = [kind |-> "quote", dates |-> p]
  BY DEF Booking!Asking, Booking!Ignored
<1>5. Evolves /\ NoneCreated
  BY StoredStays DEF BookingInv
<1>6. p = Booking!Dates'
  BY <1>1 DEF Booking!Dates, Period
<1>7. BookingShape'
  <2>1. net' \subseteq Request'
    <3> SUFFICES ASSUME NEW m \in net' PROVE m \in Request'
      OBVIOUS
    <3>1. CASE m \in net
      BY <3>1, <1>5, RequestsStay DEF BookingInv, BookingShape
    <3>2. CASE m \notin net
      <4>1. m = [kind |-> "quote", dates |-> p]
        BY <3>2, <1>3, <1>4
      <4>2. m \in [kind : {"quote"}, dates : Period]
        BY <4>1
      <4>3. m \in Request
        BY <4>2 DEF Request
      <4> QED BY <4>3, <1>5, RequestsStay
    <3> QED BY <3>1, <3>2
  <2> QED BY <1>1, <1>5, <2>1 DEF BookingInv, BookingShape, SameRental, Evolves, Period
<1>8. DatesKept'
  BY <1>1, <1>2, <1>4, <1>6 DEF DatesKept, SameRental, SamePlace, Booking!None, BookingInv
<1>9. OneReturn'
  BY <1>1, <1>3, <1>5, KeepsReturns DEF BookingInv, Returning, SameRental
<1>10. OnePayment'
  <2>1. \A m \in net' : ~Paying(m)
    BY <1>2, <1>3, NoPayment DEF BookingInv, Paying
  <2> QED BY <2>1 DEF OnePayment
<1>11. Remembered'
  <2>1. \A m \in net : m.kind = "created" => m \in net'
    BY DEF Booking!Asking, Booking!Ignored
  <2> QED BY <1>1, <1>5, <2>1, KeepsMemory DEF BookingInv
<1> QED BY <1>5, <1>7, <1>8, <1>9, <1>10, <1>11, EvolvesWithoutTwin DEF BookingInv

\* The calendar is clicked, or the dates cleared.
LEMMA CalendarSteps ==
  ASSUME BookingInv,
         \/ \E d \in Booking!Days : Booking!SelectDay(d)
         \/ \E p \in {Booking!None, [start |-> ui.start, end |-> 0]} : Booking!Clear(p)
  PROVE  BookingInv'
<1>1. ASSUME NEW d \in Booking!Days, Booking!SelectDay(d)
      PROVE  BookingInv'
  <2>1. d \in Int
    BY DEF Booking!Days
  <2>2. Booking!Selected(d) \in Period
    BY <2>1 DEF Booking!Selected, Booking!Dates, Period, BookingInv, BookingShape
  <2> QED BY <1>1, <2>2, DatesSteps DEF Booking!SelectDay
<1>2. ASSUME NEW p \in {Booking!None, [start |-> ui.start, end |-> 0]}, Booking!Clear(p)
      PROVE  BookingInv'
  <2>1. p \in Period
    BY DEF Booking!None, Period, BookingInv, BookingShape
  <2> QED BY <1>2, <2>1, DatesSteps DEF Booking!Clear
<1> QED BY <1>1, <1>2

\* The forms follow each other and nothing else changes.
LEMMA FormSteps ==
  ASSUME BookingInv, Booking!Advance \/ Booking!BackToDates \/ Booking!BackToPayment
  PROVE  BookingInv'
<1>1. /\ DOMAIN ui' = DOMAIN ui /\ SameDates /\ SamePlace /\ SameRental /\ ui'.address = ui.address
      /\ ui'.quote = ui.quote /\ ui'.error = ui.error /\ db' = db /\ net' = net
  BY DEF Booking!Advance, Booking!BackToDates, Booking!BackToPayment, BookingInv, BookingShape, SameDates, SamePlace,
         SameRental
<1>2. Evolves /\ NoneCreated
  BY <1>1, StoredStays DEF BookingInv
<1>3. Booking!Dates' = Booking!Dates /\ Booking!None' = Booking!None
  BY <1>1 DEF SameDates, Booking!Dates, Booking!None
<1>4. IF ui'.step = 1 THEN ui.rental = 0 ELSE Booking!Dates \in Span
  <2>1. CASE Booking!Advance
    <3>1. Booking!Length(Booking!Dates) \in 1..MaxDays /\ ui'.step = 2
      BY <2>1 DEF Booking!Advance, BookingInv, BookingShape
    <3>2. Booking!Dates \in Span
      BY <3>1 DEF Booking!Length, Booking!Dates, Span, Period, BookingInv, BookingShape
    <3> QED BY <3>1, <3>2
  <2>2. CASE Booking!BackToDates
    BY <2>2 DEF Booking!BackToDates, Booking!MayReturn, BookingInv, BookingShape
  <2>3. CASE Booking!BackToPayment
    BY <2>3 DEF Booking!BackToPayment, Booking!Shown, BookingInv, BookingShape, DatesKept
  <2> QED BY <2>1, <2>2, <2>3
<1>5. \A m \in net : ~Paying(m)
  BY NoPayment DEF BookingInv, Booking!Advance, Booking!BackToDates, Booking!BackToPayment, Booking!Shown,
                   Booking!MayReturn
<1>6. BookingShape'
  BY <1>1, <1>2, RequestsStay DEF BookingInv, BookingShape, SameDates, SameRental, Evolves
<1>7. DatesKept'
  BY <1>1, <1>2, <1>3, <1>4 DEF BookingInv, DatesKept, SameRental, SamePlace
<1>8. OneReturn' /\ OnePayment'
  BY <1>1, <1>2, <1>5, KeepsReturns DEF BookingInv, OnePayment, Paying, SameRental
<1>9. Remembered'
  BY <1>1, <1>2, KeepsMemory DEF BookingInv
<1> QED BY <1>2, <1>6, <1>7, <1>8, <1>9, EvolvesWithoutTwin DEF BookingInv

\* The tenant pays: for a new rental, or for the one on screen.
LEMMA PayStep ==
  ASSUME BookingInv, Booking!Pay
  PROVE  BookingInv'
<1>1. /\ DOMAIN ui' = DOMAIN ui /\ SameDates /\ SamePlace /\ SameRental /\ ui'.address = ui.address
      /\ ui'.quote = ui.quote /\ ui'.error = ui.error /\ ui'.step = ui.step /\ ui'.paying /\ db' = db
  BY DEF Booking!Pay, BookingInv, BookingShape, SameDates, SamePlace, SameRental
<1>2. Evolves /\ NoneCreated
  BY <1>1, StoredStays DEF BookingInv
<1>3. \A m \in net : ~Paying(m)
  BY NoPayment DEF BookingInv, Booking!Pay
<1>4. ui.at = "page" /\ ui.step = 2 /\ ~ui.restoring /\ ~ui.confirming /\ ~ui.error
  BY DEF Booking!Pay, Booking!Shown
<1>5. Booking!Dates \in Span /\ Booking!Dates' = Booking!Dates
  BY <1>1, <1>4 DEF BookingInv, DatesKept, SameDates, Booking!Dates
<1>6. PICK yes \in YesNo : yes = TRUE
  BY DEF YesNo
<1>7. PICK m \in Request :
        /\ net' = net \cup {m} /\ m.kind \in {"create", "checkout"} /\ m.here
        /\ m.kind = "create" => ui.rental = 0 /\ m.dates = Booking!Dates
        /\ m.kind = "checkout" => m.rental = ui.rental
  <2>1. CASE ui.rental = 0
    <3> DEFINE m == [kind |-> "create", dates |-> Booking!Dates, here |-> yes]
    <3>1. m \in Request
      BY <1>5 DEF Request
    <3>2. net' = net \cup {m}
      BY <2>1, <1>6 DEF Booking!Pay
    <3> QED BY <1>6, <2>1, <3>1, <3>2
  <2>2. CASE ui.rental # 0
    <3> DEFINE m == [kind |-> "checkout", rental |-> ui.rental, here |-> yes]
    <3>1. m \in Request
      BY <2>2 DEF Request, BookingInv, DatesKept
    <3>2. net' = net \cup {m}
      BY <2>2, <1>6 DEF Booking!Pay
    <3> QED BY <1>6, <2>2, <3>1, <3>2
  <2> QED BY <2>1, <2>2
<1>8. BookingShape'
  BY <1>1, <1>2, <1>7, RequestsStay DEF BookingInv, BookingShape, SameDates, SameRental, Evolves
<1>9. DatesKept'
  BY <1>1, <1>2, <1>7, KeepsDates DEF BookingInv, SamePlace
<1>10. OneReturn'
  BY <1>1, <1>2, <1>7, KeepsReturns DEF BookingInv, Returning, SameRental
<1>11. OnePayment'
  BY <1>1, <1>3, <1>4, <1>5, <1>7 DEF OnePayment, Paying, SamePlace, SameRental
<1>12. Remembered'
  BY <1>1, <1>2, <1>7, KeepsMemory DEF BookingInv
<1> QED BY <1>2, <1>8, <1>9, <1>10, <1>11, <1>12, EvolvesWithoutTwin DEF BookingInv

\* The rental is created: the page keeps it, and its address does.
LEMMA CreatedStep ==
  ASSUME BookingInv, NEW m \in net, Booking!CreatedArrives(m)
  PROVE  BookingInv'
<1>1. Paying(m) /\ m \in Request /\ m.rental \in DOMAIN db.rentals /\ m.rental # 0
  <2>1. Paying(m) /\ m \in Request /\ m.kind = "created"
    BY DEF Booking!CreatedArrives, Paying, BookingInv, BookingShape
  <2>2. m.rental \in DOMAIN db.rentals
    BY <2>1 DEF Request
  <2> QED BY <2>1, <2>2 DEF BookingInv, BookingShape
<1>2. /\ ui.at = "page" /\ ui.paying /\ ui.step = 2 /\ ~ui.restoring /\ ~ui.confirming /\ ~ui.error
      /\ ui.rental = 0 /\ db.rentals[m.rental].dates = Booking!Dates /\ \A n \in net : Paying(n) => n = m
  BY <1>1 DEF BookingInv, OnePayment, Booking!CreatedArrives
<1>3. /\ DOMAIN ui' = DOMAIN ui /\ SameDates /\ SamePlace /\ ui'.quote = ui.quote /\ ui'.error = ui.error
      /\ ui'.step = ui.step /\ ui'.paying = ui.paying /\ db' = db
      /\ ui'.rental = m.rental /\ ui'.address = [rental |-> m.rental, result |-> "none"]
  BY DEF Booking!CreatedArrives, Booking!Kept, BookingInv, BookingShape, SameDates, SamePlace
<1>4. Evolves /\ NoneCreated
  BY <1>3, StoredStays DEF BookingInv
<1>5. PICK yes \in YesNo : yes = TRUE
  BY DEF YesNo
<1>6. PICK c : c = [kind |-> "checkout", rental |-> m.rental, here |-> yes]
  OBVIOUS
<1>7. c \in Request /\ c.kind = "checkout" /\ c.rental = m.rental
  BY <1>1, <1>6 DEF Request
<1>8. net' = (net \ {m}) \cup {c}
  BY <1>5, <1>6 DEF Booking!CreatedArrives
<1>9. Booking!Dates' = Booking!Dates /\ Booking!None' = Booking!None
  BY <1>3 DEF SameDates, Booking!Dates, Booking!None
<1>10. BookingShape'
  <2>1. m.rental \in Nat
    BY <1>1 DEF BookingInv, BookingShape
  <2>2. net' \subseteq Request'
    BY <1>4, <1>7, <1>8, RequestsStay DEF BookingInv, BookingShape
  <2>3. ui'.address \in [rental : Nat, result : {"none", "sucesso", "cancelado"}]
    BY <1>3, <2>1
  <2> QED BY <1>3, <1>4, <2>1, <2>2, <2>3 DEF BookingInv, BookingShape, SameDates, Evolves
<1>11. DatesKept'
  <2>1. ui'.address.rental = m.rental
    BY <1>3
  <2>2. \A n \in net' : n.kind = "quote" => n \in net
    BY <1>7, <1>8
  <2> QED BY <1>1, <1>2, <1>3, <1>9, <2>1, <2>2 DEF BookingInv, DatesKept, SamePlace
<1>12. OneReturn'
  <2>1. \A n \in net' : ~Returning(n)
    BY <1>2, <1>7, <1>8, NoReturn DEF BookingInv, Returning
  <2> QED BY <2>1 DEF OneReturn, Returning
<1>13. OnePayment'
  <2>1. \A n \in net' : Paying(n) => n = c
    BY <1>2, <1>8
  <2> QED BY <1>1, <1>2, <1>3, <1>7, <2>1 DEF OnePayment, Paying, SamePlace
<1>14. Remembered'
  <2> SUFFICES ASSUME NEW i \in DOMAIN db.rentals, Awaits(db.rentals[i])
               PROVE  i = m.rental
    BY <1>3 DEF Remembered, Known, BookingInv, BookingShape
  <2>1. Known(i) /\ i # 0
    BY DEF Remembered, BookingInv, BookingShape
  <2> QED BY <1>1, <1>2, <2>1 DEF Known, Paying
<1>15. Booking!NoTwinRental'
  BY <1>4, EvolvesWithoutTwin DEF BookingInv
<1> QED BY <1>10, <1>11, <1>12, <1>13, <1>14, <1>15 DEF BookingInv

\* The payment fails, and a rental it made is one the page will not hear of.
LEMMA PayFailsStep ==
  ASSUME BookingInv, NEW m \in net, Booking!PayFails(m)
  PROVE  BookingInv'
<1>1. Paying(m) /\ m \in Request
  BY DEF Booking!PayFails, Paying, BookingInv, BookingShape
<1>2. \A n \in net : Paying(n) => n = m
  BY <1>1 DEF BookingInv, OnePayment
<1>3. /\ DOMAIN ui' = DOMAIN ui /\ SameDates /\ SamePlace /\ SameRental /\ ui'.address = ui.address
      /\ ui'.quote = ui.quote /\ ui'.error = ui.error /\ ui'.step = ui.step /\ net' = net \ {m}
  BY DEF Booking!PayFails, BookingInv, BookingShape, SameDates, SamePlace, SameRental
<1>4. Evolves /\ NoneCreated /\ \A i \in DOMAIN db.rentals \cap Booking!Unheard({m}) : db'.rentals[i].lost
  BY LoseEvolves DEF Booking!PayFails, BookingInv
<1>5. m.kind = "created" => db'.rentals[m.rental].lost
  <2> SUFFICES ASSUME m.kind = "created" PROVE db'.rentals[m.rental].lost
    OBVIOUS
  <2>1. m.rental \in DOMAIN db.rentals /\ m.rental \in Booking!Unheard({m})
    BY <1>1 DEF Request, Booking!Unheard
  <2> QED BY <1>4, <2>1
<1>6. BookingShape'
  BY <1>3, <1>4, RequestsStay DEF BookingInv, BookingShape, SameDates, SameRental, Evolves
<1>7. DatesKept'
  BY <1>3, <1>4, KeepsDates DEF BookingInv, SamePlace
<1>8. OneReturn'
  BY <1>3, <1>4, KeepsReturns DEF BookingInv, SameRental
<1>9. OnePayment'
  BY <1>2, <1>3 DEF OnePayment, Paying
<1>10. Remembered'
  BY <1>3, <1>4, <1>5, KeepsMemory DEF BookingInv
<1> QED BY <1>4, <1>6, <1>7, <1>8, <1>9, <1>10, EvolvesWithoutTwin DEF BookingInv

\* What a page that goes leaves behind is a payment that is nobody's.
LEMMA OrphansAreNotHere ==
  ASSUME NEW S \in SUBSET Request
  PROVE  /\ Booking!Orphans(S) \subseteq Request
         /\ \A m \in Booking!Orphans(S) : m.kind # "quote" /\ ~Returning(m) /\ ~Paying(m)
<1> SUFFICES ASSUME NEW n \in S, n.kind \in {"create", "created", "checkout"}
             PROVE  /\ [n EXCEPT !.here = FALSE] \in Request
                    /\ [n EXCEPT !.here = FALSE].kind = n.kind /\ ~[n EXCEPT !.here = FALSE].here
  BY DEF Booking!Orphans, Returning, Paying
<1>1. PICK no \in YesNo : no = FALSE
  BY DEF YesNo
<1>2. CASE n.kind = "create"
  <2>1. n \in [kind : {"create"}, dates : Span, here : YesNo]
    BY <1>2 DEF Request
  <2> QED BY <1>1, <2>1 DEF Request
<1>3. CASE n.kind \in {"created", "checkout"}
  <2>1. n \in [kind : {"created", "checkout"}, rental : DOMAIN db.rentals, here : YesNo]
    BY <1>3 DEF Request
  <2> QED BY <1>1, <2>1 DEF Request
<1> QED BY <1>2, <1>3

\* The tenant leaves for the payment provider.
LEMMA OpenedStep ==
  ASSUME BookingInv, NEW m \in net, Booking!OpenedArrives(m)
  PROVE  BookingInv'
<1>1. Paying(m)
  BY DEF Booking!OpenedArrives, Paying
<1>2. /\ ui.at = "page" /\ ~ui.restoring /\ ~ui.confirming /\ ~ui.error /\ ui.rental # 0
      /\ \A n \in net : Paying(n) => n = m
  BY <1>1 DEF BookingInv, OnePayment, Booking!OpenedArrives
<1>3. /\ DOMAIN ui' = DOMAIN ui /\ SameDates /\ SameRental /\ ui'.address = ui.address /\ ui'.quote = ui.quote
      /\ ui'.step = ui.step /\ ui'.at = "stripe" /\ db' = db /\ net' = Booking!Orphans(net \ {m})
  BY DEF Booking!OpenedArrives, BookingInv, BookingShape, SameDates, SameRental
<1>4. Evolves /\ NoneCreated
  BY <1>3, StoredStays DEF BookingInv
<1>5. net' \subseteq Request /\ \A n \in net' : n.kind # "quote" /\ ~Returning(n) /\ ~Paying(n)
  BY <1>3, OrphansAreNotHere DEF BookingInv, BookingShape
<1>6. BookingShape'
  BY <1>3, <1>4, <1>5, RequestsStay DEF BookingInv, BookingShape, SameDates, SameRental, Evolves
<1>7. DatesKept'
  <2>1. Booking!Dates' = Booking!Dates /\ Booking!None' = Booking!None
    BY <1>3 DEF SameDates, Booking!Dates, Booking!None
  <2> QED BY <1>2, <1>3, <1>5, <2>1 DEF BookingInv, DatesKept, SameRental
<1>8. OneReturn' /\ OnePayment'
  BY <1>5 DEF OneReturn, OnePayment, Returning, Paying
<1>9. Remembered'
  <2> SUFFICES ASSUME NEW i \in DOMAIN db.rentals, Awaits(db.rentals[i])
               PROVE  ui.rental = i /\ ui.address.rental = i
    BY <1>3 DEF Remembered, Known, SameRental
  <2>1. Known(i)
    BY DEF Remembered, BookingInv
  <2>2. \A n \in net : n.kind = "created" => ~n.here
    BY <1>2 DEF Paying, Booking!OpenedArrives
  <2> QED BY <1>2, <2>1, <2>2 DEF Known
<1> QED BY <1>4, <1>6, <1>7, <1>8, <1>9, EvolvesWithoutTwin DEF BookingInv

\* A page that is mounted knows what its address knows.
LEMMA MountKeeps ==
  ASSUME BookingInv, NEW a \in [rental : Nat, result : {"none", "sucesso", "cancelado"}], NEW k,
         a.rental # 0 => a.rental \in DOMAIN db.rentals,
         NEW S \in SUBSET Request, \A m \in S : m.kind # "quote" /\ ~Returning(m) /\ ~Paying(m),
         ui' = Booking!Page(a, k), net' = Booking!First(a) \cup S, Evolves, NoneCreated,
         \A i \in DOMAIN db.rentals : Awaits(db'.rentals[i]) => a.rental = i
  PROVE  BookingInv'
<1>1. /\ DOMAIN ui' = DOMAIN ui /\ ui'.at = "page" /\ ui'.step = 1 /\ ui'.start = 0 /\ ui'.end = 0
      /\ ui'.quote = Booking!None /\ ui'.rental = 0
      /\ (ui'.restoring <=> a.rental # 0 /\ a.result # "sucesso")
      /\ (ui'.confirming <=> a.rental # 0 /\ a.result = "sucesso")
      /\ ui'.address = IF a.result = "cancelado" THEN [a EXCEPT !.result = "none"] ELSE a
  BY DEF Booking!Page, BookingInv, BookingShape
<1>2. ui'.address \in [rental : Nat, result : {"none", "sucesso", "cancelado"}] /\ ui'.address.rental = a.rental
  BY <1>1
<1>3. \A m \in Booking!First(a) :
         \/ m = [kind |-> "occupancy"]
         \/ m = [kind |-> "poll", rental |-> a.rental] /\ ui'.confirming
         \/ m = [kind |-> "restore", rental |-> a.rental] /\ ui'.restoring
  <2>1. CASE a.rental = 0
    BY <2>1 DEF Booking!First
  <2>2. CASE a.rental # 0 /\ a.result = "sucesso"
    BY <2>2, <1>1 DEF Booking!First
  <2>3. CASE a.rental # 0 /\ a.result # "sucesso"
    BY <2>3, <1>1 DEF Booking!First
  <2> QED BY <2>1, <2>2, <2>3
<1>4. ASSUME NEW m \in Booking!First(a)
      PROVE  m \in Request
  <2>1. CASE m = [kind |-> "occupancy"]
    BY <2>1 DEF Request
  <2>2. CASE m # [kind |-> "occupancy"]
    <3>1. a.rental \in DOMAIN db.rentals /\ \E asks \in {"poll", "restore"} : m = [kind |-> asks, rental |-> a.rental]
      BY <1>1, <1>3, <2>2
    <3> QED BY <3>1 DEF Request
  <2> QED BY <2>1, <2>2
<1>5. BookingShape'
  <2>1. net' \subseteq Request'
    BY <1>4, RequestsStay
  <2> QED BY <1>1, <1>2, <2>1 DEF BookingInv, BookingShape, Evolves
<1>6. \A m \in Booking!First(a) : m.kind # "quote" /\ ~Paying(m)
  BY <1>3 DEF Paying
<1>7. DatesKept'
  <2>1. \A m \in net' : m.kind # "quote"
    BY <1>6
  <2> QED BY <1>1, <1>2, <2>1 DEF DatesKept, NoneCreated, Booking!None
<1>8. OneReturn'
  <2>1. \A m \in net' : Returning(m) =>
          \/ m = [kind |-> "poll", rental |-> a.rental] /\ ui'.confirming
          \/ m = [kind |-> "restore", rental |-> a.rental] /\ ui'.restoring
    BY <1>3 DEF Returning
  <2> QED BY <1>1, <1>2, <2>1 DEF OneReturn, Returning
<1>9. OnePayment'
  <2>1. \A m \in net' : ~Paying(m)
    BY <1>6
  <2> QED BY <2>1 DEF OnePayment, Paying
<1>10. Remembered'
  <2> SUFFICES ASSUME NEW i \in DOMAIN db.rentals, Awaits(db'.rentals[i])
               PROVE  ui'.at = "page" /\ ui'.address.rental = i /\ (ui'.restoring \/ ui'.confirming)
    BY DEF Remembered, Known, NoneCreated
  <2>1. i # 0
    BY DEF BookingInv, BookingShape
  <2> QED BY <1>1, <1>2, <2>1
<1> QED BY <1>5, <1>7, <1>8, <1>9, <1>10, EvolvesWithoutTwin DEF BookingInv

\* A reload: the page starts from its address.
LEMMA ReloadStep ==
  ASSUME BookingInv, Booking!Reload
  PROVE  BookingInv'
<1>1. /\ ui' = Booking!Page(ui.address, ui.mounts + 1)
      /\ net' = Booking!First(ui.address) \cup Booking!Orphans(net)
      /\ db' = [db EXCEPT !.rentals = Booking!Lose(@, Booking!Unheard(net))]
  BY DEF Booking!Reload, Booking!Mount
<1>2. Evolves /\ NoneCreated /\ \A i \in DOMAIN db.rentals \cap Booking!Unheard(net) : db'.rentals[i].lost
  BY <1>1, LoseEvolves DEF BookingInv
<1>3. Booking!Orphans(net) \subseteq Request
      /\ \A m \in Booking!Orphans(net) : m.kind # "quote" /\ ~Returning(m) /\ ~Paying(m)
  BY OrphansAreNotHere DEF BookingInv, BookingShape
<1>4. ASSUME NEW i \in DOMAIN db.rentals, Awaits(db'.rentals[i])
      PROVE  ui.address.rental = i
  <2>1. Awaits(db.rentals[i]) /\ ~db'.rentals[i].lost
    BY <1>2, <1>4 DEF Awaits, Evolves, Ages
  <2>2. Known(i)
    BY <2>1 DEF BookingInv, Remembered
  <2>3. i \notin Booking!Unheard(net)
    BY <1>2, <2>1
  <2> QED BY <2>2, <2>3 DEF Known, Booking!Unheard
<1>5. ui.address \in [rental : Nat, result : {"none", "sucesso", "cancelado"}]
      /\ (ui.address.rental # 0 => ui.address.rental \in DOMAIN db.rentals)
  BY DEF BookingInv, BookingShape, DatesKept
<1> QED BY <1>1, <1>2, <1>3, <1>4, <1>5, MountKeeps

\* The provider sends the tenant back.
LEMMA ReturnStep ==
  ASSUME BookingInv, NEW result \in {"sucesso", "cancelado"}, Booking!StripeReturns(result)
  PROVE  BookingInv'
<1>1. ui.at = "stripe" /\ ui.rental \in DOMAIN db.rentals /\ ui.rental \in Nat
  BY DEF Booking!StripeReturns, BookingInv, BookingShape, DatesKept
<1>2. PICK a \in [rental : Nat, result : {"none", "sucesso", "cancelado"}] :
        a = [rental |-> ui.rental, result |-> result]
  BY <1>1
<1>3. ui' = Booking!Page(a, ui.mounts + 1) /\ net' = Booking!First(a) \cup net /\ a.rental = ui.rental
  BY <1>2 DEF Booking!StripeReturns
<1>4. \A m \in net : m.kind # "quote" /\ ~Returning(m) /\ ~Paying(m)
  BY <1>1, NoPayment, NoReturn DEF BookingInv, DatesKept
<1>5. Evolves /\ NoneCreated
  <2>1. CASE result = "sucesso"
    <3>1. PICK yes \in YesNo : yes = TRUE
      BY DEF YesNo
    <3> DEFINE r == db.rentals[ui.rental]
               t == [r EXCEPT !.charged = yes]
    <3>2. r \in Rental
      BY <1>1 DEF BookingInv, BookingShape
    <3>3. t \in Rental
      BY <3>2 DEF Rental
    <3>4. Ages(r, t)
      BY <3>2 DEF Rental, Ages
    <3>5. db' = [db EXCEPT !.rentals = [@ EXCEPT ![ui.rental] = t]]
      BY <2>1, <3>1 DEF Booking!StripeReturns
    <3> HIDE DEF t
    <3> QED BY <1>1, <3>3, <3>4, <3>5, OneEvolves DEF BookingInv
  <2>2. CASE result # "sucesso"
    BY <2>2, StoredStays DEF Booking!StripeReturns, BookingInv
  <2> QED BY <2>1, <2>2
<1>6. ASSUME NEW i \in DOMAIN db.rentals, Awaits(db'.rentals[i])
      PROVE  a.rental = i
  <2>1. Awaits(db.rentals[i])
    BY <1>5, <1>6 DEF Awaits, Evolves, Ages
  <2>2. Known(i)
    BY <2>1 DEF BookingInv, Remembered
  <2> QED BY <1>1, <1>3, <1>4, <2>2 DEF Known, Paying
<1> QED BY <1>1, <1>3, <1>4, <1>5, <1>6, MountKeeps DEF BookingInv, BookingShape

(***************************************************************************)
(* The page that comes back hears of the rental of its address.            *)
(***************************************************************************)
\* What is known while the answer is under way.
LEMMA ReturnFacts ==
  ASSUME BookingInv, NEW m \in net, Returning(m)
  PROVE  /\ ui.at = "page" /\ m.rental = ui.address.rental /\ m.rental \in DOMAIN db.rentals /\ m.rental # 0
         /\ IF m.kind = "restore" THEN ui.restoring ELSE ui.confirming
         /\ \A n \in net : ~Paying(n) /\ (Returning(n) => n = m)
         /\ \A i \in DOMAIN db.rentals : Awaits(db.rentals[i]) => i = m.rental
<1>1. /\ ui.at = "page" /\ m.rental = ui.address.rental
      /\ IF m.kind = "restore" THEN ui.restoring ELSE ui.confirming
      /\ \A n \in net : Returning(n) => n = m
  BY DEF BookingInv, OneReturn
<1>2. \A n \in net : ~Paying(n)
  BY <1>1, NoPayment DEF BookingInv
<1>3. m.rental \in DOMAIN db.rentals
  <2>1. m \in Request
    BY DEF BookingInv, BookingShape
  <2> QED BY <2>1 DEF Request, Returning
<1>4. m.rental # 0
  BY <1>3 DEF BookingInv, BookingShape
<1>5. ASSUME NEW i \in DOMAIN db.rentals, Awaits(db.rentals[i])
      PROVE  i = m.rental
  BY <1>1, <1>2, <1>5 DEF BookingInv, Remembered, Known, Paying
<1> QED BY <1>1, <1>2, <1>3, <1>4, <1>5

\* The question ends without a rental on screen.
LEMMA ReturnEnds ==
  ASSUME BookingInv, NEW m \in net, Returning(m), net' = net \ {m}, Evolves, NoneCreated,
         DOMAIN ui' = DOMAIN ui, SameDates, ui'.at = ui.at, ui'.step = ui.step, ui'.quote = ui.quote,
         ui'.rental = ui.rental, ui'.address \in {ui.address, Booking!NoAddress}, Remembered'
  PROVE  BookingInv'
<1>1. \A n \in net' : ~Paying(n) /\ ~Returning(n)
  BY ReturnFacts
<1>2. BookingShape'
  <2>1. net' \subseteq Request'
    BY RequestsStay DEF BookingInv, BookingShape
  <2>2. ui'.address \in [rental : Nat, result : {"none", "sucesso", "cancelado"}]
    BY DEF BookingInv, BookingShape, Booking!NoAddress
  <2> QED BY <2>1, <2>2 DEF BookingInv, BookingShape, SameDates, Evolves
<1>3. DatesKept'
  <2>1. Booking!Dates' = Booking!Dates /\ Booking!None' = Booking!None
    BY DEF SameDates, Booking!Dates, Booking!None
  <2>2. ui'.address.rental # 0 => ui'.address.rental \in DOMAIN db'.rentals
    BY DEF BookingInv, DatesKept, Booking!NoAddress, NoneCreated
  <2> QED BY <2>1, <2>2 DEF BookingInv, DatesKept, Evolves, Ages
<1>4. OneReturn' /\ OnePayment'
  BY <1>1 DEF OneReturn, OnePayment, Returning, Paying
<1> QED BY <1>2, <1>3, <1>4, EvolvesWithoutTwin DEF BookingInv

\* The question is answered with the rental, which the page shows.
LEMMA ReturnShows ==
  ASSUME BookingInv, NEW m \in net, Returning(m), db' = db,
         DOMAIN ui' = DOMAIN ui, ui'.at = ui.at, ui'.step \in {2, 3}, ui'.rental = m.rental,
         ui'.quote = Booking!None,
         ui'.start = db.rentals[m.rental].dates.start, ui'.end = db.rentals[m.rental].dates.end,
         net' = Booking!Asking(net \ {m}, db.rentals[m.rental].dates),
         \/ ui'.address = ui.address
         \/ ui'.address = Booking!NoAddress /\ db.rentals[m.rental].status # "pending"
  PROVE  BookingInv'
<1> DEFINE p == db.rentals[m.rental].dates
<1>1. /\ ui.at = "page" /\ m.rental = ui.address.rental /\ m.rental \in DOMAIN db.rentals /\ m.rental # 0
      /\ \A n \in net : ~Paying(n) /\ (Returning(n) => n = m)
      /\ \A i \in DOMAIN db.rentals : Awaits(db.rentals[i]) => i = m.rental
  BY ReturnFacts
<1>2. p \in Span /\ m.rental \in Nat
  <2>1. db.rentals[m.rental] \in Rental
    BY <1>1 DEF BookingInv, BookingShape
  <2> QED BY <1>1, <2>1 DEF Rental, BookingInv, BookingShape
<1>3. p = Booking!Dates'
  BY <1>2 DEF Booking!Dates, Span, Period
<1> HIDE DEF p
<1>4. \A n \in net' : n.kind = "quote" => n = [kind |-> "quote", dates |-> p]
  BY DEF p, Booking!Asking, Booking!Ignored
<1>5. \A n \in net' : n.kind # "quote" => n \in net \ {m}
  BY SMTT(30) DEF p, Booking!Asking, Booking!Ignored
<1>6. \A n \in net' : ~Paying(n) /\ ~Returning(n)
  BY <1>1, <1>4, <1>5 DEF Paying, Returning
<1>7. Evolves /\ NoneCreated
  BY StoredStays DEF BookingInv
<1>8. BookingShape'
  <2>1. ASSUME NEW n \in net'
        PROVE  n \in Request'
    <3>1. CASE n.kind = "quote"
      <4>1. n \in [kind : {"quote"}, dates : Period]
        BY <1>2, <1>4, <3>1 DEF Span
      <4>2. n \in Request
        BY <4>1 DEF Request
      <4> QED BY <4>2, <1>7, RequestsStay
    <3>2. CASE n.kind # "quote"
      BY <1>5, <1>7, <3>2, RequestsStay DEF BookingInv, BookingShape
    <3> QED BY <3>1, <3>2
  <2>2. ui'.start \in Int /\ ui'.end \in Int
    BY <1>2 DEF p, Span, Period
  <2>3. ui'.address \in [rental : Nat, result : {"none", "sucesso", "cancelado"}]
    BY SMTT(30) DEF BookingInv, BookingShape, Booking!NoAddress
  <2> QED BY <1>2, <2>1, <2>2, <2>3 DEF BookingInv, BookingShape
<1>9. DatesKept'
  <2>1. ui'.address.rental # 0 => ui'.address.rental \in DOMAIN db.rentals
    BY <1>1 DEF Booking!NoAddress
  <2>2. Booking!None' = Booking!None
    BY DEF Booking!None
  <2>3. \A n \in net' : n.kind = "quote" => n.dates = p
    BY <1>4
  <2>4. db'.rentals[ui'.rental].dates = Booking!Dates' /\ ui'.rental \in DOMAIN db'.rentals
    BY <1>1, <1>3 DEF p
  <2>5. Booking!Dates' \in Span
    BY <1>2, <1>3
  <2> QED BY <1>1, <1>3, <2>1, <2>2, <2>3, <2>4, <2>5 DEF DatesKept, Span, Period
<1>10. OneReturn' /\ OnePayment'
  BY <1>6 DEF OneReturn, OnePayment, Returning, Paying
<1>11. Remembered'
  BY <1>1 DEF Remembered, Known, Awaits
<1> QED BY <1>7, <1>8, <1>9, <1>10, <1>11, EvolvesWithoutTwin DEF BookingInv

\* A rental of the address is shown again, or cannot be.
LEMMA RestoreSteps ==
  ASSUME BookingInv, NEW m \in net, Booking!RestoreArrives(m) \/ Booking!RestoreFails(m)
  PROVE  BookingInv'
<1>1. Returning(m) /\ m.kind = "restore"
  BY SMTT(30) DEF Booking!RestoreArrives, Booking!RestoreFails, Returning
<1>2. CASE Booking!RestoreArrives(m) /\ db.rentals[m.rental].status \in Booking!Pending
  <2> DEFINE r == db.rentals[m.rental]
  <2>1. ui' = [Booking!Quoted(ui, r.dates) EXCEPT !.rental = m.rental, !.step = 2, !.restoring = FALSE]
        /\ net' = Booking!Asking(net \ {m}, r.dates) /\ db' = db
    BY <1>2 DEF Booking!RestoreArrives
  <2>2. /\ DOMAIN ui' = DOMAIN ui /\ ui'.at = ui.at /\ ui'.step = 2 /\ ui'.rental = m.rental
        /\ ui'.quote = Booking!None /\ ui'.start = r.dates.start /\ ui'.end = r.dates.end /\ ui'.address = ui.address
    BY <2>1 DEF Booking!Quoted, BookingInv, BookingShape
  <2> QED BY <1>1, <2>1, <2>2, ReturnShows
<1>3. CASE ~(Booking!RestoreArrives(m) /\ db.rentals[m.rental].status \in Booking!Pending)
  <2>1. ui' = [ui EXCEPT !.error = TRUE, !.restoring = FALSE] /\ net' = net \ {m} /\ db' = db
    BY <1>3 DEF Booking!RestoreArrives, Booking!RestoreFails
  <2>2. /\ DOMAIN ui' = DOMAIN ui /\ SameDates /\ ui'.at = ui.at /\ ui'.step = ui.step /\ ui'.quote = ui.quote
        /\ ui'.rental = ui.rental /\ ui'.address = ui.address /\ ui'.error
    BY <2>1 DEF SameDates, BookingInv, BookingShape
  <2>3. Remembered'
    BY <1>1, <2>1, <2>2, ReturnFacts DEF Remembered, Known
  <2> QED BY <1>1, <2>1, <2>2, <2>3, ReturnEnds, StoredStays DEF BookingInv
<1> QED BY <1>2, <1>3

\* The page asks again how the payment went, or gives the rental up.
LEMMA AgainStep ==
  ASSUME BookingInv, NEW m \in net, m.kind = "poll", Booking!Again(m)
  PROVE  BookingInv'
<1>1. CASE ui.polls + 1 < MaxPolls
  <2>1. ui' = [ui EXCEPT !.polls = @ + 1] /\ db' = db /\ net' = net
    BY <1>1 DEF Booking!Again
  <2>2. SameDeal
    BY <2>1 DEF SameDeal, SameDates, SamePlace, SameRental, BookingInv, BookingShape
  <2> QED BY <2>1, <2>2, SameDealKeeps, StoredStays DEF BookingInv
<1>2. CASE ~(ui.polls + 1 < MaxPolls)
  <2>1. /\ ui' = [ui EXCEPT !.polls = @ + 1, !.confirming = FALSE] /\ net' = net \ {m}
        /\ db' = [db EXCEPT !.rentals = Booking!Lose(@, {m.rental})]
    BY <1>2 DEF Booking!Again
  <2>2. /\ DOMAIN ui' = DOMAIN ui /\ SameDates /\ ui'.at = ui.at /\ ui'.step = ui.step /\ ui'.quote = ui.quote
        /\ ui'.rental = ui.rental /\ ui'.address = ui.address
    BY <2>1 DEF SameDates, BookingInv, BookingShape
  <2>3. Evolves /\ NoneCreated /\ \A i \in DOMAIN db.rentals \cap {m.rental} : db'.rentals[i].lost
    BY <2>1, LoseEvolves DEF BookingInv
  <2>4. Returning(m)
    BY DEF Returning
  <2>5. Remembered'
    <3> SUFFICES ASSUME NEW i \in DOMAIN db.rentals, Awaits(db'.rentals[i])
                 PROVE  FALSE
      BY <2>3 DEF Remembered, NoneCreated
    <3>1. Awaits(db.rentals[i])
      BY <2>3 DEF Awaits, Evolves, Ages
    <3>2. i = m.rental
      BY <2>4, <3>1, ReturnFacts
    <3> QED BY <2>3, <3>2 DEF Awaits
  <2> QED BY <2>1, <2>2, <2>3, <2>4, <2>5, ReturnEnds
<1> QED BY <1>1, <1>2

\* The payment of the rental is what the page asked about.
LEMMA PollSteps ==
  ASSUME BookingInv, NEW m \in net, Booking!PollArrives(m) \/ Booking!PollFails(m)
  PROVE  BookingInv'
<1> DEFINE pay == db.rentals[m.rental].pay
<1>1. m.kind = "poll" /\ Returning(m)
  BY DEF Booking!PollArrives, Booking!PollFails, Returning
<1>2. m.rental \in DOMAIN db.rentals /\ \A i \in DOMAIN db.rentals : Awaits(db.rentals[i]) => i = m.rental
  BY <1>1, ReturnFacts
<1>3. pay # "none" => db.rentals[m.rental].status # "pending"
  <2>1. db.rentals[m.rental] \in Rental
    BY <1>2 DEF BookingInv, BookingShape
  <2> QED BY <2>1 DEF Rental
<1>4. CASE Booking!Again(m)
  BY <1>1, <1>4, AgainStep
<1>5. CASE /\ pay \in {"review", "expired", "refunded"} /\ net' = net \ {m} /\ db' = db
           /\ \/ ui' = [ui EXCEPT !.address = Booking!NoAddress, !.confirming = FALSE, !.review = TRUE]
              \/ ui' = [ui EXCEPT !.address = Booking!NoAddress, !.confirming = FALSE]
  <2>1. /\ DOMAIN ui' = DOMAIN ui /\ SameDates /\ ui'.at = ui.at /\ ui'.step = ui.step /\ ui'.quote = ui.quote
        /\ ui'.rental = ui.rental /\ ui'.address = Booking!NoAddress
    BY <1>5 DEF SameDates, BookingInv, BookingShape
  <2>2. Remembered'
    BY <1>2, <1>3, <1>5 DEF Remembered, Awaits
  <2> QED BY <1>1, <1>5, <2>1, <2>2, ReturnEnds, StoredStays DEF BookingInv
<1>6. CASE pay = "approved" /\ net' = (net \ {m}) \cup {[kind |-> "conclude", rental |-> m.rental]}
           /\ UNCHANGED <<ui, db>>
  <2>1. PICK c : c = [kind |-> "conclude", rental |-> m.rental]
    OBVIOUS
  <2>2. c \in Request /\ c.kind = "conclude" /\ c.rental = m.rental /\ net' = (net \ {m}) \cup {c}
    BY <1>2, <1>6, <2>1 DEF Request
  <2>3. Evolves /\ NoneCreated
    BY <1>6, StoredStays DEF BookingInv
  <2>4. BookingShape'
    BY <1>6, <2>2, <2>3, RequestsStay DEF BookingInv, BookingShape
  <2>5. DatesKept'
    BY <1>6, <2>2, <2>3, KeepsDates DEF BookingInv, SameDates, SameRental
  <2>6. OneReturn'
    <3>1. ui.at = "page" /\ c.rental = ui.address.rental /\ ui.confirming /\ db.rentals[c.rental].status # "pending"
      BY <1>1, <1>3, <1>6, <2>2, ReturnFacts
    <3>2. \A n \in net' : Returning(n) => n = c
      BY <1>1, <2>2, ReturnFacts
    <3> QED BY <1>6, <2>2, <3>1, <3>2 DEF OneReturn, Returning
  <2>7. OnePayment'
    BY <1>6, <2>2, <2>3, KeepsPayments DEF BookingInv, SameDates, SamePlace, Paying
  <2>8. Remembered'
    BY <1>6, <1>1, <2>2, <2>3, KeepsMemory DEF BookingInv, SamePlace, SameRental
  <2> QED BY <2>3, <2>4, <2>5, <2>6, <2>7, <2>8, EvolvesWithoutTwin DEF BookingInv
<1> QED BY <1>4, <1>5, <1>6 DEF Booking!PollArrives, Booking!PollFails

\* The approved rental is shown, or cannot be.
LEMMA ConcludeSteps ==
  ASSUME BookingInv, NEW m \in net, Booking!ConcludeArrives(m) \/ Booking!ConcludeFails(m)
  PROVE  BookingInv'
<1>1. Returning(m) /\ m.kind = "conclude"
  BY SMTT(30) DEF Booking!ConcludeArrives, Booking!ConcludeFails, Returning
<1>2. CASE Booking!ConcludeArrives(m)
  <2> DEFINE r == db.rentals[m.rental]
  <2>1. /\ ui' = [Booking!Quoted(ui, r.dates) EXCEPT !.rental = m.rental, !.step = 3, !.confirming = FALSE,
                                                     !.address = Booking!NoAddress]
        /\ net' = Booking!Asking(net \ {m}, r.dates) /\ db' = db
    BY <1>2 DEF Booking!ConcludeArrives
  <2>2. /\ DOMAIN ui' = DOMAIN ui /\ ui'.at = ui.at /\ ui'.step = 3 /\ ui'.rental = m.rental
        /\ ui'.quote = Booking!None /\ ui'.start = r.dates.start /\ ui'.end = r.dates.end
        /\ ui'.address = Booking!NoAddress
    BY <2>1 DEF Booking!Quoted, BookingInv, BookingShape
  <2>3. r.status # "pending"
    BY <1>1 DEF BookingInv, OneReturn
  <2> QED BY <1>1, <2>1, <2>2, <2>3, ReturnShows
<1>3. CASE Booking!ConcludeFails(m)
  <2>1. ui' = [ui EXCEPT !.error = TRUE, !.confirming = FALSE] /\ net' = net \ {m} /\ db' = db
    BY <1>3 DEF Booking!ConcludeFails
  <2>2. /\ DOMAIN ui' = DOMAIN ui /\ SameDates /\ ui'.at = ui.at /\ ui'.step = ui.step /\ ui'.quote = ui.quote
        /\ ui'.rental = ui.rental /\ ui'.address = ui.address /\ ui'.error
    BY <2>1 DEF SameDates, BookingInv, BookingShape
  <2>3. Remembered'
    BY <1>1, <2>1, <2>2, ReturnFacts DEF Remembered, Known
  <2> QED BY <1>1, <2>1, <2>2, <2>3, ReturnEnds, StoredStays DEF BookingInv
<1> QED BY <1>2, <1>3

(***************************************************************************)
(* The server makes rentals and opens payments for them.                   *)
(***************************************************************************)
\* A rental is made for dates no live one of the tenant overlaps.
LEMMA ServeCreateStep ==
  ASSUME BookingInv, NEW m \in net, Booking!ServeCreate(m)
  PROVE  BookingInv'
<1> DEFINE k == Len(db.rentals) + 1
<1>1. m \in [kind : {"create"}, dates : Span, here : YesNo] /\ m.kind = "create"
  BY DEF Booking!ServeCreate, BookingInv, BookingShape, Request
<1>2. db.rentals \in Seq(Rental) /\ DOMAIN db.rentals = 1..Len(db.rentals) /\ Len(db.rentals) \in Nat
  BY DEF BookingInv, BookingShape
<1>3. PICK lost \in YesNo : lost = ~m.here
  BY <1>1 DEF YesNo
<1>4. PICK yes \in YesNo : yes = TRUE
  BY DEF YesNo
<1>5. PICK no \in YesNo : no = FALSE
  BY DEF YesNo
<1>6. PICK r : r = [dates |-> m.dates, status |-> "pending", held |-> yes, pay |-> "none", charged |-> no,
                    lost |-> lost]
  OBVIOUS
<1>7. r \in Rental /\ r.dates = m.dates /\ r.status = "pending" /\ (r.lost <=> ~m.here)
  BY <1>1, <1>3, <1>6 DEF Rental
<1>8. db'.rentals = Append(db.rentals, r) /\ DOMAIN db' = {"rentals"}
  BY <1>3, <1>4, <1>5, <1>6 DEF Booking!ServeCreate, BookingInv, BookingShape
<1>9. /\ db'.rentals \in Seq(Rental) /\ DOMAIN db'.rentals = DOMAIN db.rentals \cup {k}
      /\ db'.rentals[k] = r /\ k \notin DOMAIN db.rentals /\ k \in Nat /\ k # 0
      /\ \A i \in DOMAIN db.rentals : db'.rentals[i] = db.rentals[i] /\ i < k
  BY <1>2, <1>7, <1>8
<1>10. Evolves
  BY <1>8, <1>9 DEF Evolves, Ages
<1>11. PICK c : c = [kind |-> "created", rental |-> k, here |-> m.here]
  OBVIOUS
<1>12. c.kind = "created" /\ c.rental = k /\ (c.here <=> m.here) /\ ui' = ui /\ net' = (net \ {m}) \cup {c}
  BY <1>11 DEF Booking!ServeCreate
<1> HIDE DEF k
<1>13. BookingShape'
  <2>1. c \in [kind : {"created", "checkout"}, rental : DOMAIN db'.rentals, here : YesNo]
    BY <1>1, <1>9, <1>11
  <2>2. c \in Request'
    BY <2>1 DEF Request, YesNo
  <2>3. net' \subseteq Request'
    BY <1>10, <1>12, <2>2, RequestsStay DEF BookingInv, BookingShape
  <2> QED BY <1>8, <1>9, <1>12, <2>3 DEF BookingInv, BookingShape
<1>14. DatesKept'
  BY <1>10, <1>12, KeepsDates DEF BookingInv, SameDates, SameRental
<1>15. OneReturn'
  BY <1>10, <1>12, KeepsReturns DEF BookingInv, SamePlace, Returning
<1>16. OnePayment'
  <2>1. CASE m.here
    <3>1. Paying(m)
      BY <1>1, <2>1 DEF Paying
    <3>2. /\ ui.at = "page" /\ ui.paying /\ ui.step = 2 /\ ~ui.restoring /\ ~ui.confirming /\ ~ui.error
          /\ ui.rental = 0 /\ m.dates = Booking!Dates /\ \A n \in net : Paying(n) => n = m
      BY <1>1, <3>1 DEF BookingInv, OnePayment
    <3>3. \A n \in net' : Paying(n) => n = c
      BY <1>12, <3>2
    <3>4. db'.rentals[c.rental].dates = Booking!Dates /\ Booking!Dates' = Booking!Dates
      BY <1>7, <1>9, <1>12, <3>2 DEF Booking!Dates
    <3> QED BY <1>12, <3>2, <3>3, <3>4 DEF OnePayment, Paying
  <2>2. CASE ~m.here
    BY <1>10, <1>12, <2>2, KeepsPayments DEF BookingInv, SameDates, SamePlace, Paying
  <2> QED BY <2>1, <2>2
<1>17. m.here => \A i \in DOMAIN db.rentals : ~Awaits(db.rentals[i])
  <2> SUFFICES ASSUME m.here, NEW i \in DOMAIN db.rentals, Awaits(db.rentals[i])
               PROVE  FALSE
    OBVIOUS
  <2>1. Paying(m)
    BY <1>1 DEF Paying
  <2>2. ~ui.restoring /\ ~ui.confirming /\ ~ui.error /\ ui.rental = 0 /\ \A n \in net : Paying(n) => n = m
    BY <1>1, <2>1 DEF BookingInv, OnePayment
  <2>3. Known(i) /\ i # 0
    BY <1>2 DEF BookingInv, Remembered
  <2> QED BY <1>1, <2>2, <2>3 DEF Known, Paying
<1>18. Remembered'
  <2> SUFFICES ASSUME NEW i \in DOMAIN db'.rentals, Awaits(db'.rentals[i])
               PROVE  Known(i)'
    BY DEF Remembered
  <2>1. CASE i = k
    <3>1. m.here
      BY <1>7, <1>9, <2>1 DEF Awaits
    <3> QED BY <1>12, <2>1, <3>1 DEF Known
  <2>2. CASE i # k
    <3>1. i \in DOMAIN db.rentals /\ Awaits(db.rentals[i])
      BY <1>9, <2>2
    <3>2. Known(i)
      BY <3>1 DEF BookingInv, Remembered
    <3> QED BY <1>1, <1>12, <3>2 DEF Known
  <2> QED BY <2>1, <2>2
<1>19. Booking!NoTwinRental'
  <2> SUFFICES ASSUME NEW i \in DOMAIN db.rentals, db.rentals[i].dates = r.dates,
                      db.rentals[i].status # "cancelled", ~db.rentals[i].lost, m.here
               PROVE  FALSE
    <3> SUFFICES ASSUME NEW i \in DOMAIN db'.rentals, NEW j \in DOMAIN db'.rentals, i < j,
                        db'.rentals[i].dates = db'.rentals[j].dates,
                        db'.rentals[i].status # "cancelled", db'.rentals[j].status # "cancelled",
                        ~db'.rentals[i].lost, ~db'.rentals[j].lost
                 PROVE  FALSE
      BY DEF Booking!NoTwinRental
    <3>1. CASE j \in DOMAIN db.rentals
      <4>1. i \in DOMAIN db.rentals
        BY <1>2, <1>9, <3>1
      <4> QED BY <1>9, <3>1, <4>1 DEF BookingInv, Booking!NoTwinRental
    <3>2. CASE j = k
      <4>1. i \in DOMAIN db.rentals /\ m.here
        BY <1>2, <1>7, <1>9, <3>2
      <4> QED BY <1>9, <3>2, <4>1
    <3> QED BY <1>9, <3>1, <3>2
  <2>1. db.rentals[i] \in Rental
    BY <1>2
  <2>2. Booking!Occupies(db.rentals[i])
    BY <1>17, <2>1 DEF Rental, Awaits, Booking!Occupies, Booking!Pending
  <2>3. r.dates \in Span
    BY <1>1, <1>7
  <2>4. r.dates.start \in Booking!Around(db.rentals[i].dates) \cap (r.dates.start..r.dates.end)
    BY <2>3 DEF Booking!Around, Span, Period
  <2>5. Booking!Conflict(m.dates, 0)
    BY <1>2, <1>7, <2>2, <2>4 DEF Booking!Conflict
  <2> QED BY <2>5 DEF Booking!ServeCreate
<1> QED BY <1>13, <1>14, <1>15, <1>16, <1>18, <1>19 DEF BookingInv

\* A payment is opened, and the hold of its rental is renewed.
LEMMA ServeCheckoutStep ==
  ASSUME BookingInv, NEW m \in net, Booking!ServeCheckout(m)
  PROVE  BookingInv'
<1> DEFINE r == db.rentals[m.rental]
<1>1. m \in [kind : {"created", "checkout"}, rental : DOMAIN db.rentals, here : YesNo] /\ m.kind = "checkout"
  BY DEF Booking!ServeCheckout, BookingInv, BookingShape, Request
<1>2. r \in Rental
  BY <1>1 DEF BookingInv, BookingShape
<1>3. PICK yes \in YesNo : yes = TRUE
  BY DEF YesNo
<1>4. PICK no \in YesNo : no = FALSE
  BY DEF YesNo
<1> DEFINE t == [r EXCEPT !.status = "awaiting_payment", !.held = yes, !.pay = "pending", !.charged = no]
<1>5. t \in Rental
  BY <1>2, <1>3 DEF Rental
<1>6. Ages(r, t)
  BY <1>2 DEF Rental, Ages, Booking!ServeCheckout, Booking!Pending
<1>7. db' = [db EXCEPT !.rentals = [@ EXCEPT ![m.rental] = t]]
  BY <1>3, <1>4 DEF Booking!ServeCheckout
<1> HIDE DEF t
<1>8. Evolves /\ NoneCreated
  BY <1>1, <1>5, <1>6, <1>7, OneEvolves DEF BookingInv
<1>9. ui' = ui
  BY DEF Booking!ServeCheckout
<1>10. PICK c \in [kind : {"opened"}, here : {TRUE}] : c = [kind |-> "opened", here |-> TRUE]
  OBVIOUS
<1>11. c \in Request /\ c.kind = "opened" /\ c.here
  BY <1>10 DEF Request
<1>12. net' = (net \ {m}) \cup (IF m.here THEN {c} ELSE {})
  BY <1>10 DEF Booking!ServeCheckout
<1>13. BookingShape'
  BY <1>8, <1>9, <1>11, <1>12, RequestsStay DEF BookingInv, BookingShape, Evolves
<1>14. DatesKept'
  BY <1>8, <1>9, <1>11, <1>12, KeepsDates DEF BookingInv, SameDates, SameRental
<1>15. OneReturn'
  BY <1>8, <1>9, <1>11, <1>12, KeepsReturns DEF BookingInv, SamePlace, Returning
<1>16. OnePayment'
  <2>1. CASE m.here
    <3>1. Paying(m)
      BY <1>1, <2>1 DEF Paying
    <3>2. /\ ui.at = "page" /\ ui.paying /\ ui.step = 2 /\ ~ui.restoring /\ ~ui.confirming /\ ~ui.error
          /\ ui.rental # 0 /\ \A n \in net : Paying(n) => n = m
      <4>1. m.rental # 0
        BY <1>1 DEF BookingInv, BookingShape
      <4> QED BY <1>1, <3>1, <4>1 DEF BookingInv, OnePayment
    <3>3. \A n \in net' : Paying(n) => n = c
      BY <1>12, <3>2
    <3> QED BY <1>9, <1>11, <3>2, <3>3 DEF OnePayment, Paying
  <2>2. CASE ~m.here
    BY <1>8, <1>9, <1>12, <2>2, KeepsPayments DEF BookingInv, SameDates, SamePlace
  <2> QED BY <2>1, <2>2
<1>17. Remembered'
  BY <1>1, <1>8, <1>9, <1>12, KeepsMemory DEF BookingInv, SamePlace, SameRental
<1> QED BY <1>8, <1>13, <1>14, <1>15, <1>16, <1>17, EvolvesWithoutTwin DEF BookingInv

\* The page is first mounted without an address.
LEMMA BookingStart ==
  ASSUME Booking!Init
  PROVE  BookingInv
<1>1. /\ DOMAIN ui = {"at", "mounts", "step", "start", "end", "quote", "blocked", "rental", "paying",
                     "polls", "error",
                      "review", "restoring", "confirming", "address"}
      /\ ui.at = "page" /\ ui.step = 1 /\ ui.start = 0 /\ ui.end = 0 /\ ui.rental = 0 /\ ui.quote = Booking!None
      /\ ui.address = [rental |-> 0, result |-> "none"] /\ ~ui.paying
  BY DEF Booking!Init, Booking!Page, Booking!NoAddress
<1>2. net = {[kind |-> "occupancy"]}
  BY DEF Booking!Init, Booking!First, Booking!NoAddress
<1>3. db = [rentals |-> <<>>]
  BY DEF Booking!Init
<1>4. net \subseteq Request
  BY <1>2 DEF Request
<1>5. BookingShape
  BY <1>1, <1>3, <1>4 DEF BookingShape
<1>6. \A m \in net : m.kind = "occupancy"
  BY <1>2
<1>7. DatesKept /\ OneReturn /\ OnePayment
  BY <1>1, <1>6 DEF DatesKept, OneReturn, OnePayment, Returning, Paying
<1>8. Remembered /\ Booking!NoTwinRental
  BY <1>3 DEF Remembered, Booking!NoTwinRental
<1> QED BY <1>5, <1>7, <1>8 DEF BookingInv

\* Every step keeps the invariant.
LEMMA BookingNext ==
  ASSUME BookingInv, Booking!Next \/ UNCHANGED <<ui, db, net>>
  PROVE  BookingInv'
<1>1. CASE UNCHANGED <<ui, db, net>>
  <2>1. SameDeal
    BY <1>1 DEF SameDeal, SameDates, SamePlace, SameRental
  <2> QED BY <1>1, <2>1, SameDealKeeps, StoredStays DEF BookingInv
<1>2. ASSUME NEW m \in net,
             \/ Booking!OccupancyArrives(m) \/ Booking!QuoteArrives(m) \/ Booking!CreatedArrives(m)
             \/ Booking!PayFails(m) \/ Booking!OpenedArrives(m) \/ Booking!RestoreArrives(m)
             \/ Booking!RestoreFails(m) \/ Booking!PollArrives(m) \/ Booking!PollFails(m)
             \/ Booking!ConcludeArrives(m) \/ Booking!ConcludeFails(m) \/ Booking!ServeCreate(m)
             \/ Booking!ServeCheckout(m)
      PROVE  BookingInv'
  BY <1>2, ArrivalSteps, CreatedStep, PayFailsStep, OpenedStep, RestoreSteps, PollSteps, ConcludeSteps,
     ServeCreateStep, ServeCheckoutStep
<1> QED BY <1>1, <1>2, CalendarSteps, FormSteps, PayStep, ReloadStep, ReturnStep, RentalSteps DEF Booking!Next

-----------------------------------------------------------------------------
(***************************************************************************)
(* The dialog of the weekly series.                                        *)
(***************************************************************************)
Fields == [first : Int, step : Int, occurrences : Int]

Dialog == [source : Sources, open : YesNo, input : Fields, preview : Int, created : Int,
           revision : Int, attempt : Int, key : Int, previewing : YesNo, creating : YesNo]

Tables == [series : SUBSET [key : Int, source : Sources, input : Fields, attempt : Int],
           taken : SUBSET Int, keys : Nat]

Creation(m) == m.kind \in {"create", "created"}

\* Attempts are numbered by the edits that began them.
AttemptsBegun ==
  /\ ui.attempt <= ui.revision
  /\ \A s \in db.series : s.attempt <= ui.revision

\* A series of the attempt on screen was made under its key, of its fields.
AttemptKept ==
  \A s \in db.series :
     /\ s.key # 0
     /\ s.attempt = ui.attempt => s.key = ui.key /\ Series!Same(s, ui)

\* The dialog waits for the one creation in flight, which is of its attempt.
OneCreation ==
  \A m \in net :
     Creation(m) =>
       /\ ui.creating /\ m.key = ui.key /\ m.key # 0
       /\ m.kind = "create" => m.attempt = ui.attempt /\ Series!Same(m, ui)
       /\ m.kind = "created" => \E s \in db.series : s.key = m.key /\ Series!Same(s, ui)
       /\ \A n \in net : Creation(n) => n = m

\* The dialog cannot be closed while it creates, nor show what it created.
DialogBusy == ui.creating => ui.open /\ ui.created = 0

SeriesInv ==
  /\ ui \in Dialog /\ db \in Tables
  /\ AttemptsBegun /\ AttemptKept /\ OneCreation /\ DialogBusy /\ Series!SeriesOnce

(***************************************************************************)
(* Two kinds of step, and the ones that are of neither.                    *)
(***************************************************************************)
\* The fields of the attempt stay, and nothing is created or in flight anew.
SameAttempt ==
  /\ ui'.source = ui.source /\ ui'.input = ui.input /\ ui'.attempt = ui.attempt /\ ui'.key = ui.key
  /\ ui'.revision >= ui.revision /\ ui'.created = ui.created /\ ui'.creating = ui.creating
  /\ ui.creating => ui'.open = ui.open
  /\ db'.series = db.series
  /\ \A m \in net' : Creation(m) => m \in net

\* Another attempt begins while nothing is being created.
AnotherAttempt ==
  /\ ui'.attempt = ui.revision + 1 /\ ui'.revision = ui.revision + 1 /\ ui'.created = 0
  /\ ~ui.creating /\ ~ui'.creating /\ db' = db
  /\ \A m \in net' : Creation(m) => m \in net

\* What belongs to the attempt goes on belonging to it.
LEMMA SameAttemptKeeps ==
  ASSUME SeriesInv, SameAttempt, ui' \in Dialog, db' \in Tables
  PROVE  SeriesInv'
<1>1. AttemptsBegun'
  BY DEF SeriesInv, SameAttempt, AttemptsBegun, Dialog, Tables
<1>2. AttemptKept'
  BY DEF SeriesInv, SameAttempt, AttemptKept, Series!Same
<1>3. OneCreation'
  BY DEF SeriesInv, SameAttempt, OneCreation, Series!Same
<1>4. Series!SeriesOnce'
  BY DEF SeriesInv, SameAttempt, Series!SeriesOnce, Series!Same
<1>5. DialogBusy'
  BY DEF SeriesInv, SameAttempt, DialogBusy
<1> QED BY <1>1, <1>2, <1>3, <1>4, <1>5 DEF SeriesInv

\* No series is of an attempt that only begins.
LEMMA AnotherAttemptKeeps ==
  ASSUME SeriesInv, AnotherAttempt, ui' \in Dialog
  PROVE  SeriesInv'
<1>1. \A m \in net' : ~Creation(m)
  BY DEF SeriesInv, AnotherAttempt, OneCreation
<1>2. AttemptsBegun' /\ AttemptKept'
  BY DEF SeriesInv, AnotherAttempt, AttemptsBegun, AttemptKept, Dialog, Tables
<1>3. OneCreation' /\ Series!SeriesOnce'
  BY <1>1 DEF SeriesInv, AnotherAttempt, OneCreation, Series!SeriesOnce
<1>4. DialogBusy'
  BY DEF AnotherAttempt, DialogBusy
<1> QED BY <1>2, <1>3, <1>4 DEF SeriesInv, AnotherAttempt

\* What the fields of a new dialog hold.
LEMMA FirstInput == [first |-> 0, step |-> 1, occurrences |-> 2] \in Fields
<1>1. \A x, y, z \in Int : [first |-> x, step |-> y, occurrences |-> z] \in Fields
  BY DEF Fields
<1>2. 0 \in Int /\ 1 \in Int /\ 2 \in Int
  OBVIOUS
<1> QED BY <1>1, <1>2, Zenon

\* A dialog opened again on its rental, closed, or asked for a preview.
LEMMA SameSteps ==
  ASSUME SeriesInv, Series!Open(ui.source) \/ Series!Close \/ Series!RequestPreview
  PROVE  SeriesInv'
<1>1. CASE Series!Open(ui.source)
  <2>1. ui' = [ui EXCEPT !.open = TRUE] /\ UNCHANGED <<db, net>>
    BY <1>1 DEF Series!Open
  <2>2. ui' \in Dialog
    BY <2>1 DEF SeriesInv, Dialog, YesNo
  <2>3. ~ui.creating
    BY <1>1 DEF Series!Open, SeriesInv, DialogBusy
  <2>4. /\ ui'.source = ui.source /\ ui'.input = ui.input /\ ui'.attempt = ui.attempt /\ ui'.key = ui.key
        /\ ui'.revision = ui.revision /\ ui'.created = ui.created /\ ui'.creating = ui.creating
    BY <2>1 DEF SeriesInv, Dialog
  <2>5. ui.revision \in Int
    BY DEF SeriesInv, Dialog
  <2>6. SameAttempt
    <3>1. ui'.revision >= ui.revision
      BY <2>4, <2>5
    <3> QED BY Zenon, <2>1, <2>3, <2>4, <3>1 DEF SameAttempt
  <2> QED BY <2>1, <2>2, <2>6, SameAttemptKeeps DEF SeriesInv
<1>2. CASE Series!Close
  <2>1. ui' \in Dialog
    BY <1>2 DEF SeriesInv, Dialog, YesNo, Series!Close
  <2>2. SameAttempt
    BY <1>2 DEF SeriesInv, Series!Close, Dialog, SameAttempt
  <2> QED BY <1>2, <2>1, <2>2, SameAttemptKeeps DEF SeriesInv, Series!Close
<1>3. CASE Series!RequestPreview
  <2>1. PICK n \in Int, z \in Int : n = ui.revision + 1 /\ z = 0
    BY DEF SeriesInv, Dialog
  <2>2. PICK b \in YesNo : b = TRUE
    BY DEF YesNo
  <2>3. ui' \in Dialog
    <3>1. ui' = [ui EXCEPT !.revision = n, !.preview = z, !.previewing = b]
      BY <1>3, <2>1, <2>2 DEF Series!RequestPreview
    <3> QED BY <3>1 DEF SeriesInv, Dialog
  <2>4. SameAttempt
    BY <1>3 DEF SeriesInv, Series!RequestPreview, Dialog, SameAttempt, Creation
  <2> QED BY <1>3, <2>3, <2>4, SameAttemptKeeps DEF SeriesInv, Series!RequestPreview
<1> QED BY <1>1, <1>2, <1>3

\* The dialog of another rental, other fields, another series.
LEMMA AnotherSteps ==
  ASSUME SeriesInv,
         \/ \E s \in Sources : s # ui.source /\ Series!Open(s)
         \/ \E input \in Series!Inputs : Series!UpdateInput(input)
         \/ Series!StartAnother
  PROVE  SeriesInv'
<1>1. ASSUME NEW s \in Sources, s # ui.source, Series!Open(s)
      PROVE  SeriesInv'
  <2>1. ui' = Series!Fresh(s, ui.revision + 1) /\ ~ui.open /\ net' \subseteq net /\ db' = db
    BY <1>1 DEF Series!Open
  <2>2. PICK n \in Int, z \in Int : n = ui.revision + 1 /\ z = 0
    BY DEF SeriesInv, Dialog
  <2>3. PICK input \in Fields : input = [first |-> 0, step |-> 1, occurrences |-> 2]
    BY FirstInput
  <2>4. PICK yes \in YesNo : yes = TRUE
    BY DEF YesNo
  <2>5. PICK no \in YesNo : no = FALSE
    BY DEF YesNo
  <2>6. ui' \in Dialog
    <3>1. ui' = [source |-> s, open |-> yes, input |-> input, preview |-> z, created |-> z, revision |-> n,
                 attempt |-> n, key |-> z, previewing |-> no, creating |-> no]
      BY <2>1, <2>2, <2>3, <2>4, <2>5 DEF Series!Fresh
    <3> QED BY <3>1 DEF Dialog
  <2>7. ui'.attempt = ui.revision + 1 /\ ui'.revision = ui.revision + 1 /\ ui'.created = 0
    BY <2>1 DEF Series!Fresh
  <2>8. AnotherAttempt
    BY <2>1, <2>7 DEF Series!Fresh, SeriesInv, DialogBusy, AnotherAttempt
  <2> QED BY <2>6, <2>8, AnotherAttemptKeeps
<1>2. ASSUME NEW input \in Series!Inputs, Series!UpdateInput(input)
      PROVE  SeriesInv'
  <2>1. PICK n \in Int, z \in Int : n = ui.revision + 1 /\ z = 0
    BY DEF SeriesInv, Dialog
  <2>2. PICK b \in YesNo : b = FALSE
    BY DEF YesNo
  <2>3. input \in Fields
    BY DEF Series!Inputs, Fields
  <2>4. ui' \in Dialog
    <3>1. ui' = [ui EXCEPT !.input = input, !.revision = n, !.attempt = n, !.key = z, !.preview = z,
                           !.previewing = b]
      BY <1>2, <2>1, <2>2 DEF Series!UpdateInput
    <3> QED BY <2>3, <3>1 DEF SeriesInv, Dialog
  <2>5. AnotherAttempt
    BY <1>2 DEF SeriesInv, Dialog, Series!UpdateInput, Series!Shown, AnotherAttempt
  <2> QED BY <2>4, <2>5, AnotherAttemptKeeps
<1>3. CASE Series!StartAnother
  <2>1. PICK n \in Int, z \in Int : n = ui.revision + 1 /\ z = 0
    BY DEF SeriesInv, Dialog
  <2>2. PICK input \in Fields : input = [ui.input EXCEPT !.first = 0]
    <3>1. [ui.input EXCEPT !.first = z] \in Fields
      BY DEF SeriesInv, Dialog, Fields
    <3> QED BY <2>1, <3>1
  <2>3. ui' = [ui EXCEPT !.revision = n, !.attempt = n, !.key = z, !.input = input, !.preview = z,
                         !.created = z]
    BY <1>3, <2>1, <2>2 DEF Series!StartAnother
  <2>4. ui' \in Dialog
    BY <2>3 DEF SeriesInv, Dialog
  <2>5. AnotherAttempt
    BY <1>3, <2>1, <2>3 DEF SeriesInv, Dialog, DialogBusy, Series!StartAnother, AnotherAttempt
  <2> QED BY <2>4, <2>5, AnotherAttemptKeeps
<1> QED BY <1>1, <1>2, <1>3

\* Previews come and go beside the creation.
LEMMA PreviewSteps ==
  ASSUME SeriesInv, NEW m \in net, Series!PreviewArrives(m) \/ Series!PreviewFails(m) \/ Series!ServePreview(m)
  PROVE  SeriesInv'
<1>1. db' = db /\ \A n \in net' : Creation(n) => n \in net
  BY DEF Series!PreviewArrives, Series!PreviewFails, Series!ServePreview, Creation
<1>2. \/ ui' = ui
      \/ ui' = [ui EXCEPT !.previewing = FALSE]
      \/ ui' = [ui EXCEPT !.preview = ui.revision, !.previewing = FALSE]
  BY DEF Series!PreviewArrives, Series!PreviewFails, Series!ServePreview
<1>3. ui' \in Dialog
  <2>1. PICK p \in Int : p = ui.revision
    BY DEF SeriesInv, Dialog
  <2>2. PICK b \in YesNo : b = FALSE
    BY DEF YesNo
  <2>3. CASE ui' = [ui EXCEPT !.preview = ui.revision, !.previewing = FALSE]
    <3>1. ui' = [ui EXCEPT !.preview = p, !.previewing = b]
      BY <2>1, <2>2, <2>3
    <3> QED BY <3>1 DEF SeriesInv, Dialog
  <2>4. CASE ui' = [ui EXCEPT !.previewing = FALSE]
    BY <2>2, <2>4 DEF SeriesInv, Dialog
  <2> QED BY <1>2, <2>3, <2>4 DEF SeriesInv
<1>4. SameAttempt
  <2>1. CASE ui' = [ui EXCEPT !.preview = ui.revision, !.previewing = FALSE]
    BY <1>1, <2>1 DEF SeriesInv, Dialog, SameAttempt
  <2>2. CASE ui' = [ui EXCEPT !.previewing = FALSE] \/ ui' = ui
    BY <1>1, <2>2 DEF SeriesInv, Dialog, SameAttempt
  <2> QED BY <1>2, <2>1, <2>2
<1> QED BY <1>1, <1>3, <1>4, SameAttemptKeeps DEF SeriesInv

\* The button: the attempt gets a key, unless it has one.
LEMMA CreateStep ==
  ASSUME SeriesInv, Series!Create
  PROVE  SeriesInv'
<1>1. PICK k \in Int : k = Series!AttemptKey /\ k # 0
  BY DEF Series!AttemptKey, SeriesInv, Dialog, Tables
<1>2. PICK b \in YesNo : b = TRUE
  BY DEF YesNo
<1>3. ui' = [ui EXCEPT !.creating = b, !.key = k] /\ ~ui.creating /\ ui.open /\ ui.created = 0
  BY <1>1, <1>2 DEF Series!Create, Series!Shown
<1>4. /\ ui' \in Dialog
      /\ ui'.source = ui.source /\ ui'.input = ui.input /\ ui'.attempt = ui.attempt /\ ui'.key = k
      /\ ui'.revision = ui.revision /\ ui'.created = ui.created /\ ui'.creating = b /\ ui'.open = ui.open
  BY <1>3 DEF SeriesInv, Dialog
<1>5. db' \in Tables /\ db'.series = db.series
  <2>1. PICK n \in Nat : db' = [db EXCEPT !.keys = n]
    BY <1>1 DEF Series!Create, SeriesInv, Dialog, Tables, Series!AttemptKey
  <2> QED BY <2>1 DEF SeriesInv, Tables
<1> DEFINE m == [kind |-> "create", key |-> k, source |-> ui.source, input |-> ui.input, attempt |-> ui.attempt]
<1>6. net' = net \cup {m}
  BY <1>1 DEF Series!Create
<1>7. \A n \in net : ~Creation(n)
  BY <1>3 DEF SeriesInv, OneCreation
<1>8. \A s \in db.series : s.attempt = ui.attempt => s.key = k
  BY <1>1 DEF SeriesInv, AttemptKept, Series!AttemptKey
<1>9. AttemptsBegun' /\ AttemptKept'
  BY <1>4, <1>5, <1>8 DEF SeriesInv, AttemptsBegun, AttemptKept, Series!Same
<1>10. OneCreation'
  BY <1>1, <1>2, <1>4, <1>6, <1>7 DEF OneCreation, Creation, Series!Same
<1>11. DialogBusy' /\ Series!SeriesOnce'
  BY <1>3, <1>4, <1>5 DEF SeriesInv, DialogBusy, Series!SeriesOnce
<1> QED BY <1>4, <1>5, <1>9, <1>10, <1>11 DEF SeriesInv

\* The server makes the series of a key once, and of one attempt.
LEMMA ServeSeriesStep ==
  ASSUME SeriesInv, NEW m \in net, Series!ServeCreate(m)
  PROVE  SeriesInv'
<1> DEFINE made == [key |-> m.key, source |-> m.source, input |-> m.input, attempt |-> m.attempt]
<1>1. /\ ui' = ui /\ ui.creating /\ m.key = ui.key /\ m.key # 0 /\ m.attempt = ui.attempt /\ Series!Same(m, ui)
      /\ \A n \in net : Creation(n) => n = m
  BY DEF Series!ServeCreate, SeriesInv, OneCreation, Creation
<1>2. made \in [key : Int, source : Sources, input : Fields, attempt : Int]
  BY <1>1 DEF SeriesInv, Dialog, Series!Same
<1>3. \/ db' = db /\ \E s \in db.series : s.key = m.key /\ Series!Same(s, m)
      \/ db'.series = db.series \cup {made} /\ Series!SeriesOf(m) = {}
  BY DEF Series!ServeCreate, Series!SeriesOf, SeriesInv, Tables
<1>4. db' \in Tables
  <2>1. CASE db' = db
    BY <2>1 DEF SeriesInv
  <2>2. CASE db' = [db EXCEPT !.taken = @ \cup Series!Dates(m.input), !.series = @ \cup {made}]
    <3>1. PICK taken \in SUBSET Int : taken = db.taken \cup Series!Dates(m.input)
      <4>1. m.input \in Fields
        BY <1>1 DEF SeriesInv, Dialog, Series!Same
      <4>2. Series!Dates(m.input) \subseteq Int
        BY <4>1 DEF Series!Dates, Fields
      <4> QED BY <4>2 DEF SeriesInv, Tables
    <3>2. db' = [db EXCEPT !.taken = taken, !.series = db.series \cup {made}]
      BY <2>2, <3>1
    <3> HIDE DEF made
    <3> QED BY <1>2, <3>2 DEF SeriesInv, Tables
  <2> QED BY <2>1, <2>2 DEF Series!ServeCreate
<1>5. \A s \in db.series : s.key # m.key => s.attempt # m.attempt
  BY <1>1 DEF SeriesInv, AttemptKept
<1>6. /\ \A s \in db'.series : s \in db.series \/ s = made
      /\ \A s \in db.series : s \in db'.series
      /\ \E s \in db'.series : s.key = m.key /\ Series!Same(s, ui)
  <2>1. CASE db' = db /\ \E s \in db.series : s.key = m.key /\ Series!Same(s, m)
    BY <1>1, <2>1 DEF Series!Same
  <2>2. CASE db'.series = db.series \cup {made}
    <3>1. made.key = m.key /\ Series!Same(made, ui)
      BY <1>1 DEF Series!Same
    <3> HIDE DEF made
    <3> QED BY <2>2, <3>1
  <2> QED BY <1>3, <2>1, <2>2
<1>7. AttemptsBegun' /\ AttemptKept'
  BY <1>1, <1>6 DEF SeriesInv, AttemptsBegun, AttemptKept, Series!Same
<1>8. OneCreation'
  <2>1. net' = (net \ {m}) \cup {[kind |-> "created", key |-> m.key]}
    BY DEF Series!ServeCreate
  <2>2. \A n \in net' : Creation(n) => n = [kind |-> "created", key |-> m.key]
    BY <1>1, <2>1
  <2> QED BY <1>1, <1>6, <2>2 DEF OneCreation
<1>9. Series!SeriesOnce'
  <2>1. \A s, t \in db'.series : s.attempt = t.attempt => s = t
    BY <1>3, <1>5 DEF SeriesInv, Series!SeriesOnce, Series!SeriesOf
  <2> QED BY <1>1, <1>6, <2>1 DEF SeriesInv, Series!SeriesOnce
<1>10. DialogBusy'
  BY <1>1 DEF SeriesInv, DialogBusy
<1> QED BY <1>1, <1>4, <1>7, <1>8, <1>9, <1>10 DEF SeriesInv

\* The answer shows the series that was made of the fields on screen; a lost
\* one leaves the dialog ready to repeat.
LEMMA CreationSteps ==
  ASSUME SeriesInv, NEW m \in net, Series!CreatedArrives(m) \/ Series!CreateFails(m)
  PROVE  SeriesInv'
<1>1. /\ m.key = ui.key /\ m.key # 0 /\ \A n \in net : Creation(n) => n = m
      /\ m.kind = "created" => \E s \in db.series : s.key = m.key /\ Series!Same(s, ui)
  BY DEF Series!CreatedArrives, Series!CreateFails, SeriesInv, OneCreation, Creation
<1>2. PICK b \in YesNo : b = FALSE
  BY DEF YesNo
<1>3. PICK c \in Int : /\ c = IF Series!CreatedArrives(m) THEN m.key ELSE ui.created
                       /\ ui' = [ui EXCEPT !.created = c, !.creating = b]
  <2>1. CASE Series!CreatedArrives(m)
    <3>1. ui.key \in Int
      BY DEF SeriesInv, Dialog
    <3> QED BY <1>1, <1>2, <2>1, <3>1 DEF Series!CreatedArrives
  <2>2. CASE ~Series!CreatedArrives(m)
    <3>1. ui' = [ui EXCEPT !.creating = FALSE] /\ ui.created \in Int
      BY <2>2 DEF Series!CreateFails, SeriesInv, Dialog
    <3>2. ui' = [ui EXCEPT !.created = ui.created, !.creating = b]
      BY <1>2, <3>1 DEF SeriesInv, Dialog
    <3> QED BY <2>2, <3>1, <3>2
  <2> QED BY <2>1, <2>2
<1>4. /\ ui' \in Dialog
      /\ ui'.source = ui.source /\ ui'.input = ui.input /\ ui'.attempt = ui.attempt /\ ui'.key = ui.key
      /\ ui'.revision = ui.revision /\ ui'.created = c /\ ui'.creating = b
  BY <1>3 DEF SeriesInv, Dialog
<1>5. db' = db /\ net' = net \ {m}
  BY DEF Series!CreatedArrives, Series!CreateFails
<1>6. AttemptsBegun' /\ AttemptKept'
  BY <1>4, <1>5 DEF SeriesInv, AttemptsBegun, AttemptKept, Series!Same
<1>7. OneCreation' /\ DialogBusy'
  BY <1>1, <1>2, <1>4, <1>5 DEF OneCreation, DialogBusy
<1>8. Series!SeriesOnce'
  <2>1. c # 0 => \E s \in db.series : s.key = c /\ Series!Same(s, ui)
    BY <1>1, <1>3 DEF SeriesInv, Series!SeriesOnce, Series!CreatedArrives
  <2> QED BY <1>4, <1>5, <2>1 DEF SeriesInv, Series!SeriesOnce, Series!Same
<1> QED BY <1>4, <1>5, <1>6, <1>7, <1>8 DEF SeriesInv

\* Other tenants book and free weeks.
LEMMA WeekSteps ==
  ASSUME SeriesInv, NEW w \in 1..MaxWeek, Series!OthersBook(w) \/ Series!Frees(w)
  PROVE  SeriesInv'
<1>1. PICK taken \in SUBSET Int : db' = [db EXCEPT !.taken = taken]
  BY DEF Series!OthersBook, Series!Frees, SeriesInv, Tables
<1>2. db' \in Tables /\ db'.series = db.series
  BY <1>1 DEF SeriesInv, Tables
<1>3. ui' = ui /\ net' = net
  BY DEF Series!OthersBook, Series!Frees
<1>4. SameAttempt
  BY <1>2, <1>3 DEF SeriesInv, Dialog, SameAttempt
<1> QED BY <1>2, <1>3, <1>4, SameAttemptKeeps DEF SeriesInv

(***************************************************************************)
(* The theorem.                                                            *)
(***************************************************************************)
\* A dialog opens with nothing made.
LEMMA SeriesStart ==
  ASSUME Series!Init
  PROVE  SeriesInv
<1>1. PICK s \in Sources : ui = Series!Fresh(s, 0)
  BY DEF Series!Init
<1>2. PICK z \in Int, input \in Fields : z = 0 /\ input = [first |-> 0, step |-> 1, occurrences |-> 2]
  BY FirstInput
<1>3. ui \in Dialog
  <2>1. PICK yes \in YesNo : yes = TRUE
    BY DEF YesNo
  <2>2. PICK no \in YesNo : no = FALSE
    BY DEF YesNo
  <2>3. ui = [source |-> s, open |-> yes, input |-> input, preview |-> z, created |-> z, revision |-> z,
              attempt |-> z, key |-> z, previewing |-> no, creating |-> no]
    BY <1>1, <1>2, <2>1, <2>2 DEF Series!Fresh
  <2> QED BY <2>3 DEF Dialog
<1>4. ui.attempt = 0 /\ ui.revision = 0 /\ ui.created = 0 /\ ~ui.creating
  BY <1>1 DEF Series!Fresh
<1>5. db \in Tables /\ db.series = {} /\ net = {}
  BY DEF Series!Init, Tables
<1> QED BY <1>3, <1>4, <1>5 DEF SeriesInv, AttemptsBegun, AttemptKept, OneCreation, DialogBusy, Series!SeriesOnce

\* Every step keeps the invariant.
LEMMA SeriesNext ==
  ASSUME SeriesInv, Series!Next \/ UNCHANGED <<ui, db, net>>
  PROVE  SeriesInv'
<1>1. ASSUME NEW s \in Sources, Series!Open(s)
      PROVE  SeriesInv'
  <2>1. CASE s = ui.source
    BY <1>1, <2>1, SameSteps DEF Series!Open
  <2>2. CASE s # ui.source
    BY <1>1, <2>2, AnotherSteps
  <2> QED BY <2>1, <2>2
<1>2. CASE UNCHANGED <<ui, db, net>>
  <2>1. SameAttempt
    BY <1>2 DEF SeriesInv, Dialog, SameAttempt
  <2> QED BY <1>2, <2>1, SameAttemptKeeps DEF SeriesInv
<1>3. ASSUME NEW m \in net,
             \/ Series!PreviewArrives(m) \/ Series!PreviewFails(m) \/ Series!CreatedArrives(m)
             \/ Series!CreateFails(m)
             \/ Series!ServePreview(m) \/ Series!ServeCreate(m)
      PROVE  SeriesInv'
  BY <1>3, PreviewSteps, CreationSteps, ServeSeriesStep
<1> QED BY <1>1, <1>2, <1>3, SameSteps, AnotherSteps, CreateStep, WeekSteps DEF Series!Next

-----------------------------------------------------------------------------
(***************************************************************************)
(* The signature dialogs, of the owner and of the tenant.                  *)
(***************************************************************************)
Loading(m) == m.kind \in {"load", "loaded"}

SigningShape(s) ==
  /\ DOMAIN ui = {"open", "loads", "doc", "mine", "loading", "error", "ticked", "code", "sent", "asking", "signing",
                  "receipt", "panel", "base", "busy"}
  /\ DOMAIN db = Contracts[s]
  /\ \A c \in DOMAIN db :
        DOMAIN db[c] = {"revision", "signed", "code", "used", "proposal", "cancelled", "log"}

\* The box that is ticked is under the document on screen.
TickOfDocument(s) ==
  ui.open # 0 /\ ui.ticked # Signs(s)!NoTick => ui.ticked = [contract |-> ui.open, revision |-> ui.doc]

\* One document is loading at a time, and then no box is ticked.
OneLoad(s) ==
  \A m \in net : Loading(m) => ui.loading /\ ui.ticked = Signs(s)!NoTick /\ \A n \in net : Loading(n) => n = m

\* What is sent to be signed is what was ticked.
SentAsRead == \A m \in net : m.kind = "sign" => m.read = [contract |-> m.contract, revision |-> m.revision]

SigningInv(s) ==
  SigningShape(s) /\ TickOfDocument(s) /\ OneLoad(s) /\ SentAsRead /\ Signs(s)!AcceptedWasRead

\* No signature is recorded.
LogsStay ==
  /\ DOMAIN db' = DOMAIN db
  /\ \A c \in DOMAIN db : DOMAIN db'[c] = DOMAIN db[c] /\ db'[c].log = db[c].log

\* A step that loads nothing, signs nothing and leaves the box alone.
QuietNet == \A m \in net' : Loading(m) \/ m.kind = "sign" => m \in net
QuietBox == /\ DOMAIN ui' = DOMAIN ui /\ ui'.ticked = ui.ticked
            /\ ui'.open # 0 => ui'.open = ui.open /\ ui'.doc = ui.doc

\* Such a step keeps the invariant, also when it ends the load under way.
LEMMA QuietStep ==
  ASSUME NEW s \in SigningScreens, SigningInv(s), LogsStay, QuietNet, QuietBox,
         ui'.loading = ui.loading \/ \A m \in net' : ~Loading(m)
  PROVE  SigningInv(s)'
<1>1. SigningShape(s)' /\ Signs(s)!AcceptedWasRead'
  BY DEF SigningInv, SigningShape, LogsStay, QuietBox, Signs!AcceptedWasRead
<1>2. TickOfDocument(s)'
  BY DEF SigningInv, TickOfDocument, QuietBox, Signs!NoTick
<1>3. OneLoad(s)' /\ SentAsRead'
  BY DEF SigningInv, OneLoad, SentAsRead, QuietNet, QuietBox, Loading, Signs!NoTick
<1> QED BY <1>1, <1>2, <1>3 DEF SigningInv

\* A document starts to load, and the box is empty.
LEMMA LoadStep ==
  ASSUME NEW s \in SigningScreens, SigningInv(s), db' = db, NEW u, DOMAIN u = DOMAIN ui, NEW c, NEW S \in SUBSET net,
         Signs(s)!Load(u, c, S)
  PROVE  SigningInv(s)'
<1>1. /\ DOMAIN ui' = DOMAIN ui /\ ui'.loading /\ ui'.ticked = Signs(s)!NoTick
      /\ net' = {m \in S : m.kind \notin {"load", "loaded"}} \cup {[kind |-> "load", contract |-> c]}
  BY DEF Signs!Load, Signs!FromNothing, SigningInv, SigningShape
<1>2. \A m \in net' : Loading(m) => m = [kind |-> "load", contract |-> c]
  BY <1>1 DEF Loading
<1>3. \A m \in net' : m.kind = "sign" => m \in net
  BY <1>1
<1>4. TickOfDocument(s)' /\ OneLoad(s)' /\ SentAsRead'
  BY <1>1, <1>2, <1>3 DEF SigningInv, TickOfDocument, OneLoad, SentAsRead, Loading, Signs!NoTick
<1> QED BY <1>1, <1>4 DEF SigningInv, SigningShape, Signs!AcceptedWasRead

\* The dialog opens, closes, shows the document or says that it cannot.
LEMMA DialogSteps ==
  ASSUME NEW s \in SigningScreens, SigningInv(s),
         \/ \E c \in Contracts[s] : Signs(s)!Open(c)
         \/ Signs(s)!Close
         \/ \E m \in net : Signs(s)!LoadedArrives(m) \/ Signs(s)!LoadFails(m)
  PROVE  SigningInv(s)'
<1>1. ASSUME NEW c \in Contracts[s], Signs(s)!Open(c)
      PROVE  SigningInv(s)'
  BY <1>1, LoadStep DEF Signs!Open
<1>2. CASE Signs(s)!Close
  <2>1. LogsStay /\ QuietNet /\ QuietBox /\ ui'.loading = ui.loading
    BY <1>2 DEF Signs!Close, SigningInv, SigningShape, LogsStay, QuietNet, QuietBox
  <2> QED BY <2>1, QuietStep
<1>3. ASSUME NEW m \in net, Signs(s)!LoadedArrives(m)
      PROVE  SigningInv(s)'
  <2>1. Loading(m) /\ ui.ticked = Signs(s)!NoTick /\ \A n \in net : Loading(n) => n = m
    BY <1>3 DEF Signs!LoadedArrives, SigningInv, OneLoad, Loading
  <2>2. /\ DOMAIN ui' = DOMAIN ui /\ ui'.ticked = ui.ticked /\ db' = db /\ net' = net \ {m}
    BY <1>3 DEF Signs!LoadedArrives, SigningInv, SigningShape
  <2>3. TickOfDocument(s)' /\ OneLoad(s)' /\ SentAsRead'
    BY <2>1, <2>2 DEF SigningInv, TickOfDocument, OneLoad, SentAsRead, Loading, Signs!NoTick
  <2> QED BY <2>2, <2>3 DEF SigningInv, SigningShape, Signs!AcceptedWasRead
<1>4. ASSUME NEW m \in net, Signs(s)!LoadFails(m)
      PROVE  SigningInv(s)'
  <2>1. \A n \in net' : ~Loading(n)
    BY <1>4 DEF Signs!LoadFails, SigningInv, OneLoad, Loading
  <2>2. LogsStay /\ QuietNet /\ QuietBox
    BY <1>4 DEF Signs!LoadFails, SigningInv, SigningShape, LogsStay, QuietNet, QuietBox
  <2> QED BY <2>1, <2>2, QuietStep
<1> QED BY <1>1, <1>2, <1>3, <1>4

\* The box is ticked under the document on screen, or unticked.
LEMMA TickStep ==
  ASSUME NEW s \in SigningScreens, SigningInv(s), Signs(s)!Tick
  PROVE  SigningInv(s)'
<1>1. \A m \in net : ~Loading(m)
  BY DEF Signs!Tick, Signs!FormShown, SigningInv, OneLoad
<1>2. /\ DOMAIN ui' = DOMAIN ui /\ ui'.open = ui.open /\ ui'.doc = ui.doc
      /\ ui'.ticked \in {Signs(s)!NoTick, [contract |-> ui.open, revision |-> ui.doc]}
      /\ db' = db /\ net' = net
  BY DEF Signs!Tick, SigningInv, SigningShape
<1>3. TickOfDocument(s)' /\ OneLoad(s)' /\ SentAsRead'
  BY <1>1, <1>2 DEF SigningInv, TickOfDocument, OneLoad, SentAsRead, Loading, Signs!NoTick
<1> QED BY <1>2, <1>3 DEF SigningInv, SigningShape, Signs!AcceptedWasRead

\* The contract on screen is sent to be signed as it was ticked.
LEMMA SignStep ==
  ASSUME NEW s \in SigningScreens, SigningInv(s), Signs(s)!Sign
  PROVE  SigningInv(s)'
<1>1. ui.ticked = [contract |-> ui.open, revision |-> ui.doc]
  BY DEF Signs!Sign, Signs!FormShown, SigningInv, TickOfDocument
<1>2. PICK m : m = [kind |-> "sign", contract |-> ui.open, revision |-> ui.doc, code |-> ui.code, read |-> ui.ticked]
  OBVIOUS
<1>3. m.kind = "sign" /\ m.read = [contract |-> m.contract, revision |-> m.revision] /\ net' = net \cup {m}
  BY <1>1, <1>2 DEF Signs!Sign
<1>4. /\ DOMAIN ui' = DOMAIN ui /\ ui'.open = ui.open /\ ui'.doc = ui.doc /\ ui'.ticked = ui.ticked
      /\ ui'.loading = ui.loading /\ db' = db
  BY DEF Signs!Sign, SigningInv, SigningShape
<1>5. TickOfDocument(s)' /\ OneLoad(s)' /\ SentAsRead'
  BY <1>3, <1>4 DEF SigningInv, TickOfDocument, OneLoad, SentAsRead, Loading, Signs!NoTick
<1> QED BY <1>4, <1>5 DEF SigningInv, SigningShape, Signs!AcceptedWasRead

\* The revision moved: the document of the contract now open is loaded again.
LEMMA StaleStep ==
  ASSUME NEW s \in SigningScreens, SigningInv(s), NEW m \in net, Signs(s)!StaleArrives(m)
  PROVE  SigningInv(s)'
<1> DEFINE u == Signs(s)!Idle(ui, m.of)
<1>1. /\ DOMAIN u = DOMAIN ui /\ u.ticked = ui.ticked /\ u.loading = ui.loading
      /\ u.open = ui.open /\ u.doc = ui.doc
  BY DEF Signs!Idle, SigningInv, SigningShape
<1> HIDE DEF u
<1>2. CASE ui.open = 0
  <2>1. ui' = u /\ net' = net \ {m} /\ db' = db
    BY <1>2 DEF u, Signs!StaleArrives
  <2>2. LogsStay /\ QuietNet /\ QuietBox
    BY <1>1, <2>1 DEF LogsStay, QuietNet, QuietBox
  <2> QED BY <1>1, <2>1, <2>2, QuietStep
<1>3. CASE ui.open # 0
  <2>1. Signs(s)!Load(u, ui.open, net \ {m}) /\ db' = db
    BY <1>3 DEF u, Signs!StaleArrives
  <2> QED BY <1>1, <2>1, LoadStep
<1> QED BY <1>2, <1>3

\* The other steps of the dialog and of the panel.
LEMMA ScreenSteps ==
  ASSUME NEW s \in SigningScreens, SigningInv(s),
         \/ \E m \in net : Signs(s)!CodeSent(m) \/ Signs(s)!SignedArrives(m) \/ Signs(s)!RequestFails(m)
                           \/ Signs(s)!PanelAnswered(m)
         \/ \E c \in Contracts[s] : Signs(s)!OpenPanel(c) \/ \E r : Signs(s)!TypeCode(c, r)
         \/ Signs(s)!AskCode \/ Signs(s)!ClosePanel \/ Signs(s)!Propose
         \/ \E answer : Signs(s)!Decide(answer)
  PROVE  SigningInv(s)'
<1> DEFINE Quiet == LogsStay /\ QuietNet /\ QuietBox /\ ui'.loading = ui.loading
<1>1. ASSUME NEW m \in net, Signs(s)!CodeSent(m)
      PROVE  Quiet
  BY <1>1 DEF Signs!CodeSent, LogsStay, QuietNet, QuietBox, Loading, SigningInv, SigningShape
<1>2. ASSUME NEW m \in net, Signs(s)!SignedArrives(m)
      PROVE  Quiet
  BY <1>2 DEF Signs!SignedArrives, LogsStay, QuietNet, QuietBox, Loading, SigningInv, SigningShape
<1>3. ASSUME NEW m \in net, Signs(s)!RequestFails(m)
      PROVE  Quiet
  BY <1>3 DEF Signs!RequestFails, Signs!Idle, LogsStay, QuietNet, QuietBox, Loading, SigningInv, SigningShape
<1>4. ASSUME NEW m \in net, Signs(s)!PanelAnswered(m)
      PROVE  Quiet
  BY <1>4 DEF Signs!PanelAnswered, LogsStay, QuietNet, QuietBox, Loading, SigningInv, SigningShape
<1>5. ASSUME NEW c, Signs(s)!OpenPanel(c)
      PROVE  Quiet
  BY <1>5 DEF Signs!OpenPanel, LogsStay, QuietNet, QuietBox, Loading, SigningInv, SigningShape
<1>6. ASSUME NEW c, NEW r, Signs(s)!TypeCode(c, r)
      PROVE  Quiet
  BY <1>6 DEF Signs!TypeCode, LogsStay, QuietNet, QuietBox, Loading, SigningInv, SigningShape
<1>7. ASSUME Signs(s)!AskCode
      PROVE  Quiet
  BY <1>7 DEF Signs!AskCode, LogsStay, QuietNet, QuietBox, Loading, SigningInv, SigningShape
<1>8. ASSUME Signs(s)!ClosePanel
      PROVE  Quiet
  BY <1>8 DEF Signs!ClosePanel, LogsStay, QuietNet, QuietBox, Loading, SigningInv, SigningShape
<1>9. ASSUME Signs(s)!Propose
      PROVE  Quiet
  BY <1>9 DEF Signs!Propose, LogsStay, QuietNet, QuietBox, Loading, SigningInv, SigningShape
<1>10. ASSUME NEW answer, Signs(s)!Decide(answer)
      PROVE  Quiet
  BY <1>10 DEF Signs!Decide, LogsStay, QuietNet, QuietBox, Loading, SigningInv, SigningShape
<1> HIDE DEF Quiet
<1>11. Quiet
  BY <1>1, <1>2, <1>3, <1>4, <1>5, <1>6, <1>7, <1>8, <1>9, <1>10
<1> QED BY <1>11, QuietStep DEF Quiet

\* The server answers what is not a signature, and the other party acts.
LEMMA ContractSteps ==
  ASSUME NEW s \in SigningScreens, SigningInv(s),
         \/ \E m \in net : Signs(s)!ServeOtp(m) \/ Signs(s)!ServePropose(m) \/ Signs(s)!ServeDecide(m)
         \/ \E c \in Contracts[s] : Signs(s)!OtherProposes(c) \/ Signs(s)!OtherAccepts(c) \/ Signs(s)!OtherDrops(c)
                                    \/ Signs(s)!RentalEnds(c)
  PROVE  SigningInv(s)'
<1> DEFINE Quiet == ui' = ui /\ LogsStay /\ QuietNet
<1>1. ASSUME NEW m \in net, Signs(s)!ServeOtp(m)
      PROVE  Quiet
  BY <1>1 DEF Signs!ServeOtp, Signs!Answered, Signs!Stale, LogsStay, QuietNet, Loading, SigningInv, SigningShape
<1>2. ASSUME NEW m \in net, Signs(s)!ServePropose(m)
      PROVE  Quiet
  BY <1>2 DEF Signs!ServePropose, Signs!Settled, Signs!Answered, LogsStay, QuietNet, Loading, SigningInv, SigningShape
<1>3. ASSUME NEW m \in net, Signs(s)!ServeDecide(m)
      PROVE  Quiet
  <2>1. ui' = ui /\ QuietNet
    BY <1>3 DEF Signs!ServeDecide, Signs!Settled, Signs!Answered, QuietNet, Loading
  <2>2. CASE m.answer = "accept"
    <3>1. db' = [db EXCEPT ![m.contract] = Signs(s)!Refrozen(@)]
      BY <1>3, <2>2 DEF Signs!ServeDecide
    <3> QED BY <2>1, <3>1 DEF Signs!Refrozen, LogsStay, SigningInv, SigningShape
  <2>3. CASE m.answer # "accept"
    <3>1. db' = [db EXCEPT ![m.contract] = [@ EXCEPT !.proposal = "none"]]
      BY <1>3, <2>3 DEF Signs!ServeDecide
    <3> QED BY <2>1, <3>1 DEF LogsStay, SigningInv, SigningShape
  <2> QED BY <2>2, <2>3
<1>4. ASSUME NEW c, Signs(s)!OtherProposes(c)
      PROVE  Quiet
  BY <1>4 DEF Signs!OtherProposes, LogsStay, QuietNet, Loading, SigningInv, SigningShape
<1>5. ASSUME NEW c, Signs(s)!OtherAccepts(c)
      PROVE  Quiet
  BY <1>5 DEF Signs!OtherAccepts, Signs!Refrozen, LogsStay, QuietNet, Loading, SigningInv, SigningShape
<1>6. ASSUME NEW c, Signs(s)!OtherDrops(c)
      PROVE  Quiet
  BY <1>6 DEF Signs!OtherDrops, LogsStay, QuietNet, Loading, SigningInv, SigningShape
<1>7. ASSUME NEW c, Signs(s)!RentalEnds(c)
      PROVE  Quiet
  BY <1>7 DEF Signs!RentalEnds, LogsStay, QuietNet, Loading, SigningInv, SigningShape
<1> HIDE DEF Quiet
<1>8. Quiet
  BY <1>1, <1>2, <1>3, <1>4, <1>5, <1>6, <1>7
<1> QED BY <1>8, QuietStep DEF Quiet, QuietBox

\* The server reads a document.
LEMMA ServeLoadStep ==
  ASSUME NEW s \in SigningScreens, SigningInv(s), NEW m \in net, Signs(s)!ServeLoad(m)
  PROVE  SigningInv(s)'
<1>1. PICK a : a = [kind |-> "loaded", revision |-> db[m.contract].revision, mine |-> db[m.contract].signed]
  OBVIOUS
<1>2. a.kind = "loaded" /\ net' = (net \ {m}) \cup {a} /\ ui' = ui /\ db' = db
  BY <1>1 DEF Signs!ServeLoad
<1>3. ui.loading /\ ui.ticked = Signs(s)!NoTick /\ \A n \in net : Loading(n) => n = m
  BY DEF Signs!ServeLoad, SigningInv, OneLoad, Loading
<1>4. \A n \in net' : Loading(n) => n = a
  BY <1>2, <1>3
<1>5. TickOfDocument(s)' /\ OneLoad(s)' /\ SentAsRead'
  BY <1>2, <1>3, <1>4 DEF SigningInv, TickOfDocument, OneLoad, SentAsRead, Loading, Signs!NoTick
<1> QED BY <1>2, <1>5 DEF SigningInv, SigningShape, Signs!AcceptedWasRead

\* A signature is recorded with what its signer had ticked.
LEMMA ServeSignStep ==
  ASSUME NEW s \in SigningScreens, SigningInv(s), NEW m \in net, Signs(s)!ServeSign(m)
  PROVE  SigningInv(s)'
<1>1. ui' = ui /\ QuietNet
  BY DEF Signs!ServeSign, Signs!Answered, Signs!Stale, QuietNet, Loading
<1>2. CASE m.revision # db[m.contract].revision
  <2>1. LogsStay
    BY <1>2 DEF Signs!ServeSign, LogsStay
  <2> QED BY <1>1, <2>1, QuietStep DEF QuietBox
<1>3. CASE m.revision = db[m.contract].revision
  <2>1. PICK e : e = [revision |-> m.revision, read |-> m.read]
    OBVIOUS
  <2>2. e.read = [contract |-> m.contract, revision |-> e.revision]
    BY <2>1 DEF Signs!ServeSign, SigningInv, SentAsRead
  <2>3. db' = [db EXCEPT ![m.contract].used = TRUE, ![m.contract].signed = TRUE, ![m.contract].log = @ \cup {e}]
    BY <1>3, <2>1 DEF Signs!ServeSign
  <2>4. DOMAIN db' = DOMAIN db
        /\ \A c \in DOMAIN db : /\ DOMAIN db'[c] = DOMAIN db[c]
                                /\ db'[c].log = IF c = m.contract THEN db[c].log \cup {e} ELSE db[c].log
    BY <2>3 DEF SigningInv, SigningShape
  <2>5. Signs(s)!AcceptedWasRead'
    <3> SUFFICES ASSUME NEW c \in Contracts[s], NEW g \in db'[c].log
                 PROVE  g.read = [contract |-> c, revision |-> g.revision]
      BY DEF Signs!AcceptedWasRead
    <3>1. c \in DOMAIN db
      BY DEF SigningInv, SigningShape
    <3>2. CASE c = m.contract
      <4>1. g \in db[c].log \cup {e}
        BY <2>4, <3>1, <3>2
      <4> QED BY <2>2, <3>2, <4>1 DEF SigningInv, Signs!AcceptedWasRead
    <3>3. CASE c # m.contract
      <4>1. g \in db[c].log
        BY <2>4, <3>1, <3>3
      <4> QED BY <4>1 DEF SigningInv, Signs!AcceptedWasRead
    <3> QED BY <3>2, <3>3
  <2>6. SigningShape(s)'
    BY <1>1, <2>4 DEF SigningInv, SigningShape
  <2>7. TickOfDocument(s)' /\ OneLoad(s)' /\ SentAsRead'
    BY <1>1 DEF SigningInv, TickOfDocument, OneLoad, SentAsRead, QuietNet, Loading, Signs!NoTick
  <2> QED BY <2>5, <2>6, <2>7 DEF SigningInv
<1> QED BY <1>2, <1>3

\* The dialog is closed at first, and nothing is signed.
LEMMA SigningStart ==
  ASSUME NEW s \in SigningScreens, Signs(s)!Init
  PROVE  SigningInv(s)
BY DEF Signs!Init, SigningInv, SigningShape, TickOfDocument, OneLoad, SentAsRead, Signs!AcceptedWasRead

\* Every step keeps the invariant.
LEMMA SigningNext ==
  ASSUME NEW s \in SigningScreens, SigningInv(s), Signs(s)!Next \/ UNCHANGED <<ui, db, net>>
  PROVE  SigningInv(s)'
<1>1. CASE UNCHANGED <<ui, db, net>>
  BY <1>1, QuietStep DEF LogsStay, QuietNet, QuietBox
<1>2. CASE Signs(s)!Next
  BY <1>2, DialogSteps, TickStep, SignStep, StaleStep, ScreenSteps, ContractSteps, ServeLoadStep, ServeSignStep
     DEF Signs!Next
<1> QED BY <1>1, <1>2

-----------------------------------------------------------------------------
DealInv ==
  /\ screen = "booking" => BookingInv
  /\ screen = "series"  => SeriesInv
  /\ \A s \in SigningScreens : screen = s => SigningInv(s)

\* A behaviour stays on its screen.
LEMMA DealStays ==
  ASSUME [Next]_vars
  PROVE  /\ screen' = screen
         /\ screen = "booking" => Booking!Next \/ UNCHANGED <<ui, db, net>>
         /\ screen = "series"  => Series!Next \/ UNCHANGED <<ui, db, net>>
         /\ \A s \in SigningScreens : screen = s => Signs(s)!Next \/ UNCHANGED <<ui, db, net>>
BY DEF Next, vars, PaperScreens, SigningScreens, RentalScreens, FormScreens, ListingScreens, SearchScreens

\* Each screen starts with its invariant.
LEMMA DealStart ==
  ASSUME Init
  PROVE  DealInv
<1>1. /\ screen = "booking" => Booking!Init
      /\ screen = "series"  => Series!Init
      /\ \A s \in SigningScreens : screen = s => Signs(s)!Init
  BY DEF Init, PaperScreens, SigningScreens, RentalScreens, FormScreens, ListingScreens, SearchScreens
<1> QED BY <1>1, BookingStart, SeriesStart, SigningStart DEF DealInv

\* The invariant holds of every reachable state of the screens of a deal.
THEOREM DealInvariance == Spec => []DealInv
<1>1. DealInv /\ [Next]_vars => DealInv'
  <2> SUFFICES ASSUME DealInv, [Next]_vars PROVE DealInv'
    OBVIOUS
  <2>1. screen = "booking" => BookingInv'
    BY DealStays, BookingNext DEF DealInv
  <2>2. screen = "series" => SeriesInv'
    BY DealStays, SeriesNext DEF DealInv
  <2>3. ASSUME NEW s \in SigningScreens, screen = s
        PROVE  SigningInv(s)'
    BY <2>3, DealStays, SigningNext DEF DealInv
  <2>4. screen' = screen
    BY DealStays
  <2> QED BY <2>1, <2>2, <2>3, <2>4 DEF DealInv, SigningScreens
<1> QED BY <1>1, DealStart, PTL DEF Spec

\* However often the page is reloaded, left for the provider or answered late,
\* no live rental has a twin the page should have known of (Reservar.tsx keeps
\* the rental in its address before it asks for a payment).
THEOREM RentalsHaveNoTwin == Spec => []NoTwinRental
<1>1. DealInv => NoTwinRental
  BY DEF DealInv, BookingInv, NoTwinRental
<1> QED BY <1>1, DealInvariance, PTL

\* The quote and the rental on screen are those of the dates on screen,
\* whichever answer came late (Reservar.tsx drops the answers it outlived).
THEOREM PaidIsShown == Spec => []WhatIsPaidIsShown
<1>1. DealInv => WhatIsPaidIsShown
  BY DEF DealInv, BookingInv, DatesKept, Booking!WhatIsPaidIsShown, WhatIsPaidIsShown
<1> QED BY <1>1, DealInvariance, PTL

\* However often the answer is lost and the button pressed again, one attempt
\* makes one series, and the one shown is of the fields on screen
\* (create_recurrence and the idempotency key of the dialog).
THEOREM SeriesAreMadeOnce == Spec => []SeriesOnce
<1>1. DealInv => SeriesOnce
  BY DEF DealInv, SeriesInv, SeriesOnce
<1> QED BY <1>1, DealInvariance, PTL

\* Whatever was proposed, answered or opened meanwhile, the revision a party
\* accepted was on screen, for that contract, when the box was ticked (the
\* dialog loads every document with its box empty, and sign_contract refuses
\* another revision than the present one).
THEOREM SignaturesWereRead == Spec => []AcceptedWasRead
<1>1. DealInv => AcceptedWasRead
  BY DEF DealInv, SigningInv, AcceptedWasRead
<1> QED BY <1>1, DealInvariance, PTL
=============================================================================
