--------------------------- MODULE CheckoutProofs ---------------------------
(***************************************************************************)
(* Proofs about Checkout, for every value of its constants.                *)
(*                                                                         *)
(* NoDoubleBooking is not inductive by itself: AttachSession writes a hold *)
(* without looking at the calendar, so the proof needs to know that the    *)
(* hold it writes is the one the rental already has (HoldCoversAttempt),   *)
(* which in turn needs that a rental has one live attempt at most          *)
(* (OneLiveAttempt), and all of them that rows refer to rows that exist    *)
(* (Refs).  An event of Stripe reaches its row through a look-up: that a   *)
(* row knows no session but its own (OwnSessions, part of Refs) makes the  *)
(* row it finds the one the event is of.  IInv is their conjunction.       *)
(***************************************************************************)
EXTENDS Checkout, TLAPS

\* What a thread may be about to do (Worker).
PCs == {"idle", "create", "attach", "lost", "refused", "close", "paid", "expired"}

Exists(a) == payment[a].status # "none"

\* An attempt belongs to a rental that was made; one not made yet to none.
AttemptsOfRentals ==
  \A a \in Attempts : IF Exists(a)
                      THEN payment[a].rental \in Rentals /\ rental[payment[a].rental].status # "none"
                      ELSE payment[a].rental = NoRental

\* Sessions and busy workers refer to attempts that were made.
SessionsOfAttempts ==
  \A a \in Attempts : session[a].status # "none" \/ session[a].money # "unpaid" => Exists(a)

WorkersOnAttempts ==
  \A w \in Workers : worker[w].pc # "idle" =>
     worker[w].attempt \in Attempts /\ Exists(worker[w].attempt)

\* A moderation has read rentals that were made.
MarkedRentals == \A r \in Rentals : marked[r] # "no" => rental[r].status # "none"

\* A row that knows a session knows the one made with its own key.
OwnSessions == \A a \in Attempts : payment[a].session_id \in {NoAttempt, a}

Refs == /\ AttemptsOfRentals /\ SessionsOfAttempts /\ WorkersOnAttempts
        /\ MarkedRentals /\ OwnSessions

IInv == TypeOK /\ Refs /\ OneLiveAttempt /\ HoldCoversAttempt /\ NoDoubleBooking

(***************************************************************************)
(* What most steps leave as it was, said once for every action.            *)
(***************************************************************************)
\* Attempts grow older: none appears, and none becomes live again.
PaymentsAge ==
  \A a \in Attempts :
     /\ payment'[a].rental = payment[a].rental
     /\ payment'[a].expires = payment[a].expires
     /\ payment'[a].session_id \in {payment[a].session_id, a}
     /\ Exists(a)' <=> Exists(a)
     /\ payment'[a].status \in LIVE => payment[a].status \in LIVE
     /\ payment'[a].status = "creating" => payment[a].status = "creating"

\* Rentals grow older: none appears, none is unpaid again, no hold moves.
RentalsAge ==
  \A r \in Rentals :
     /\ rental[r].status = "none" <=> rental'[r].status = "none"
     /\ marked'[r] # "no" => marked[r] # "no" \/ rental[r].status # "none"
     /\ rental'[r].status \in PROVISIONAL =>
          rental[r].status \in PROVISIONAL /\ rental'[r].hold = rental[r].hold

SameSlot(r) == /\ rental'[r].posting = rental[r].posting
               /\ rental'[r].period = rental[r].period

\* No rental occupies a period it did not occupy before.
SlotsKept == \A r \in Rentals : Occupies(r)' => Occupies(r) /\ SameSlot(r)

\* Only r may occupy a new period, one that was free.
SlotTaken(r) ==
  /\ \A s \in Rentals \ {r} : (Occupies(s)' <=> Occupies(s)) /\ SameSlot(s)
  /\ ~Conflict(r, rental'[r].posting, rental'[r].period)

CalendarMoves == SlotsKept \/ \E r \in Rentals : SlotTaken(r)

USE DEF OCCUPYING, PROVISIONAL, PAID, LIVE, OPEN_PAYMENT_STATUSES

-----------------------------------------------------------------------------
(***************************************************************************)
(* The invariant follows from what ages and from the calendar's moves.     *)
(***************************************************************************)
\* No step that keeps its slots, or takes a free one, books a machine twice.
LEMMA CalendarKept ==
  ASSUME NoDoubleBooking, CalendarMoves
  PROVE  NoDoubleBooking'
<1>1. CASE SlotsKept
  BY <1>1 DEF NoDoubleBooking, SlotsKept, SameSlot
<1>2. ASSUME NEW r \in Rentals, SlotTaken(r)
      PROVE  NoDoubleBooking'
  <2>1. \A s \in Rentals \ {r} :
          Occupies(s)' /\ MachineOf[rental'[s].posting] = MachineOf[rental'[r].posting]
          => ~Overlap(rental'[s].period, rental'[r].period)
    BY <1>2 DEF SlotTaken, SameSlot, Conflict
  <2>2. \A p, q : Overlap(p, q) <=> Overlap(q, p)
    BY DEF Overlap
  <2> QED BY <1>2, <2>1, <2>2 DEF NoDoubleBooking, SlotTaken, SameSlot
<1> QED BY <1>1, <1>2 DEF CalendarMoves

\* At most one attempt is live while none becomes live, the hold covers the
\* attempt while neither moves, and what exists goes on existing.
LEMMA AgeingKeeps ==
  ASSUME IInv, TypeOK', PaymentsAge, RentalsAge, CalendarMoves,
         SessionsOfAttempts', WorkersOnAttempts'
  PROVE  IInv'
<1>1. OneLiveAttempt'
  BY DEF IInv, OneLiveAttempt, PaymentsAge
<1>2. HoldCoversAttempt'
  BY DEF IInv, TypeOK, Refs, AttemptsOfRentals, Exists, HoldCoversAttempt, PaymentsAge, RentalsAge
<1>3. AttemptsOfRentals'
  BY DEF IInv, Refs, AttemptsOfRentals, PaymentsAge, RentalsAge
<1>4. NoDoubleBooking'
  BY CalendarKept DEF IInv
<1>5. MarkedRentals'
  BY DEF IInv, Refs, MarkedRentals, RentalsAge
<1>6. OwnSessions'
  BY DEF IInv, Refs, OwnSessions, PaymentsAge
<1> QED BY <1>1, <1>2, <1>3, <1>4, <1>5, <1>6 DEF IInv, Refs

\* A session or a busy worker that was of an attempt still is.
LEMMA UnmovedRefs ==
  ASSUME Refs, PaymentsAge
  PROVE  /\ session' = session => SessionsOfAttempts'
         /\ worker' = worker => WorkersOnAttempts'
  BY DEF Refs, SessionsOfAttempts, WorkersOnAttempts, PaymentsAge

WorkerGoesOn(w) ==
  worker[w].pc # "idle" /\ ((\E pc \in PCs : Goto(w, pc)) \/ Close(w) \/ Finish(w))

\* A busy worker that goes on stays on its attempt; one that ends has none.
LEMMA WorkerMoved ==
  ASSUME TypeOK, Refs, PaymentsAge, NEW w \in Workers, WorkerGoesOn(w)
  PROVE  WorkersOnAttempts'
<1>1. ASSUME NEW pc \in PCs, Goto(w, pc)
      PROVE  WorkersOnAttempts'
  BY <1>1 DEF WorkerGoesOn, Goto, TypeOK, Worker, Refs, WorkersOnAttempts, PaymentsAge
<1>2. ASSUME Finish(w)
      PROVE  WorkersOnAttempts'
  BY <1>2 DEF Finish, Idle, TypeOK, Worker, Refs, WorkersOnAttempts, PaymentsAge
<1>3. ASSUME Close(w)
      PROVE  WorkersOnAttempts'
  BY <1>3 DEF WorkerGoesOn, Close, TypeOK, Worker, Refs, WorkersOnAttempts, PaymentsAge
<1> QED BY <1>1, <1>2, <1>3 DEF WorkerGoesOn

\* Its row keeps its type.
LEMMA WorkerTyped ==
  ASSUME TypeOK, NEW w \in Workers, WorkerGoesOn(w)
  PROVE  worker' \in [Workers -> Worker]
<1>1. \A pc \in PCs : [worker[w] EXCEPT !.pc = pc] \in Worker
  BY DEF TypeOK, Worker, PCs
<1>2. Idle \in Worker
  BY DEF Idle, Worker
<1>3. [worker[w] EXCEPT !.pc = "close", !.mode = "closing"] \in Worker
  BY DEF TypeOK, Worker
<1> QED BY <1>1, <1>2, <1>3 DEF TypeOK, WorkerGoesOn, Goto, Close, Finish

-----------------------------------------------------------------------------
(***************************************************************************)
(* Bookings and contracts.                                                 *)
(***************************************************************************)
\* New dates are free when they are taken.
LEMMA UpdateRentalStep ==
  ASSUME IInv, NEW r \in Rentals,
         NEW period \in Periods, NEW quote \in Prices, UpdateRental(r, period, quote)
  PROVE  IInv' /\ CalendarMoves
<1>1. [rental[r] EXCEPT !.period = period, !.total = quote] \in RentalRow
  BY PricesAssumption, DurationsAssumption DEF IInv, TypeOK, RentalRow
<1>2. TypeOK'
  BY <1>1, SwitchesAssumption DEF IInv, TypeOK, UpdateRental
<1>3. PaymentsAge
  BY DEF IInv, TypeOK, PaymentRow, PaymentsAge, Exists, UpdateRental
<1>4. RentalsAge
  BY DEF IInv, TypeOK, RentalRow, RentalsAge, UpdateRental
<1>5. SlotTaken(r)
  BY DEF IInv, TypeOK, RentalRow, SlotTaken, SameSlot, Occupies, Held, UpdateRental
<1>6. CalendarMoves
  BY <1>5 DEF CalendarMoves
<1>7. SessionsOfAttempts' /\ WorkersOnAttempts'
  BY <1>3, UnmovedRefs DEF IInv, UpdateRental
<1> QED BY <1>2, <1>3, <1>4, <1>6, <1>7, AgeingKeeps

\* The end of a rental occupies what it occupied.
LEMMA CompleteRentalStep ==
  ASSUME IInv, NEW r \in Rentals, CompleteRental(r)
  PROVE  IInv' /\ CalendarMoves
<1>1. [rental[r] EXCEPT !.status = "completed"] \in RentalRow
  BY PricesAssumption, DurationsAssumption DEF IInv, TypeOK, RentalRow
<1>2. TypeOK'
  BY <1>1, SwitchesAssumption DEF IInv, TypeOK, CompleteRental
<1>3. PaymentsAge
  BY DEF IInv, TypeOK, PaymentRow, PaymentsAge, Exists, CompleteRental
<1>4. RentalsAge
  BY DEF IInv, TypeOK, RentalRow, RentalsAge, CompleteRental
<1>5. CalendarMoves
  BY DEF IInv, TypeOK, RentalRow, CalendarMoves, SlotsKept, SameSlot, Occupies, Held, CompleteRental
<1>6. SessionsOfAttempts' /\ WorkersOnAttempts'
  BY <1>3, UnmovedRefs DEF IInv, CompleteRental
<1> QED BY <1>2, <1>3, <1>4, <1>5, <1>6, AgeingKeeps

\* A signed rental occupies what it occupied.
LEMMA SignContractStep ==
  ASSUME IInv, NEW r \in Rentals, SignContract(r)
  PROVE  IInv' /\ CalendarMoves
<1>1. [rental[r] EXCEPT !.status = "signed", !.contract = "signed"] \in RentalRow
  BY PricesAssumption, DurationsAssumption DEF IInv, TypeOK, RentalRow
<1>2. TypeOK'
  BY <1>1, SwitchesAssumption DEF IInv, TypeOK, SignContract
<1>3. PaymentsAge
  BY DEF IInv, TypeOK, PaymentRow, PaymentsAge, Exists, SignContract
<1>4. RentalsAge
  BY DEF IInv, TypeOK, RentalRow, RentalsAge, SignContract
<1>5. CalendarMoves
  BY DEF IInv, TypeOK, RentalRow, CalendarMoves, SlotsKept, SameSlot, Occupies, Held, SignContract
<1>6. SessionsOfAttempts' /\ WorkersOnAttempts'
  BY <1>3, UnmovedRefs DEF IInv, SignContract
<1> QED BY <1>2, <1>3, <1>4, <1>5, <1>6, AgeingKeeps

\* Amended dates are free when they are taken.
LEMMA AcceptAmendmentStep ==
  ASSUME IInv, NEW r \in Rentals, NEW period \in Periods, AcceptAmendment(r, period)
  PROVE  IInv' /\ CalendarMoves
<1>1. Refreeze(rental[r].terms, period) \in SUBSET Terms
  BY PricesAssumption, DurationsAssumption DEF IInv, TypeOK, RentalRow, Refreeze, Terms
<1>2. [rental[r] EXCEPT !.period = period, !.status = "active", !.contract = "pending_signatures",
                      !.terms = Refreeze(@, period)] \in RentalRow
  BY <1>1, PricesAssumption, DurationsAssumption DEF IInv, TypeOK, RentalRow
<1>3. TypeOK'
  BY <1>1, <1>2, SwitchesAssumption DEF IInv, TypeOK, AcceptAmendment
<1>4. PaymentsAge
  BY DEF IInv, TypeOK, PaymentRow, PaymentsAge, Exists, AcceptAmendment
<1>5. RentalsAge
  BY DEF IInv, TypeOK, RentalRow, RentalsAge, AcceptAmendment
<1>6. SlotTaken(r)
  BY DEF IInv, TypeOK, RentalRow, SlotTaken, SameSlot, Occupies, Held, AcceptAmendment
<1>7. CalendarMoves
  BY <1>6 DEF CalendarMoves
<1>8. SessionsOfAttempts' /\ WorkersOnAttempts'
  BY <1>4, UnmovedRefs DEF IInv, AcceptAmendment
<1> QED BY <1>3, <1>4, <1>5, <1>7, <1>8, AgeingKeeps

\* A cancellation frees a period.
LEMMA CancelRentalStep ==
  ASSUME IInv, NEW r \in Rentals, NEW actor, CancelRental(r, actor)
  PROVE  IInv' /\ CalendarMoves
<1>1. \A row \in PaymentRow, share \in {"full", "late"} :
        [row EXCEPT !.status = "expired"] \in PaymentRow /\ Owed(row, share) \in PaymentRow
  BY PricesAssumption, DurationsAssumption DEF IInv, TypeOK, PaymentRow, Owed
<1>2. [rental[r] EXCEPT !.status = "cancelled", !.hold = 0, !.contract = "cancelled"] \in RentalRow
  BY <1>1, PricesAssumption, DurationsAssumption DEF IInv, TypeOK, RentalRow
<1>3. TypeOK'
  BY <1>1, <1>2, SwitchesAssumption, ZenonT(60) DEF IInv, TypeOK, CancelRental, CancelEffects,
              Owed, Session, PendingLinked, PaymentsIn
<1>4. PaymentsAge
  BY DEF IInv, TypeOK, PaymentRow, PaymentsAge, Exists, CancelRental, CancelEffects, Owed, Session,
         PendingLinked, PaymentsIn
<1>5. RentalsAge
  BY DEF IInv, TypeOK, RentalRow, RentalsAge, CancelRental, CancelEffects, Owed, Session, PendingLinked, PaymentsIn
<1>6. CalendarMoves
  BY DEF IInv, TypeOK, RentalRow, CalendarMoves, SlotsKept, SameSlot, Occupies, Held, CancelRental,
         CancelEffects, Owed, Session, PendingLinked, PaymentsIn
<1>7. SessionsOfAttempts'
  BY <1>4, UnmovedRefs DEF IInv, TypeOK, Refs, SessionsOfAttempts, WorkersOnAttempts, PaymentsAge,
         CancelRental, CancelEffects, Owed, Session, PendingLinked, PaymentsIn
<1>8. WorkersOnAttempts'
  BY <1>4, UnmovedRefs DEF IInv, CancelRental
<1> QED BY <1>3, <1>4, <1>5, <1>6, <1>7, <1>8, AgeingKeeps

\* So does an unsigned contract.
LEMMA CancelUnsignedStep ==
  ASSUME IInv, NEW r \in Rentals, CancelUnsigned(r)
  PROVE  IInv' /\ CalendarMoves
<1>1. \A row \in PaymentRow, share \in {"full", "late"} :
        [row EXCEPT !.status = "expired"] \in PaymentRow /\ Owed(row, share) \in PaymentRow
  BY PricesAssumption, DurationsAssumption DEF IInv, TypeOK, PaymentRow, Owed
<1>2. [rental[r] EXCEPT !.status = "cancelled", !.hold = 0, !.contract = "cancelled"] \in RentalRow
  BY <1>1, PricesAssumption, DurationsAssumption DEF IInv, TypeOK, RentalRow
<1>3. TypeOK'
  BY <1>1, <1>2, SwitchesAssumption, ZenonT(60) DEF IInv, TypeOK, CancelUnsigned, Unsigned,
              CancelEffects, Owed, Session, PendingLinked, PaymentsIn
<1>4. PaymentsAge
  BY DEF IInv, TypeOK, PaymentRow, PaymentsAge, Exists, CancelUnsigned, Unsigned, CancelEffects, Owed,
         Session, PendingLinked, PaymentsIn
<1>5. RentalsAge
  BY DEF IInv, TypeOK, RentalRow, RentalsAge, CancelUnsigned, Unsigned, CancelEffects, Owed, Session,
         PendingLinked, PaymentsIn
<1>6. CalendarMoves
  BY DEF IInv, TypeOK, RentalRow, CalendarMoves, SlotsKept, SameSlot, Occupies, Held, CancelUnsigned,
         Unsigned, CancelEffects, Owed, Session, PendingLinked, PaymentsIn
<1>7. SessionsOfAttempts'
  BY <1>4, UnmovedRefs DEF IInv, TypeOK, Refs, SessionsOfAttempts, WorkersOnAttempts, PaymentsAge,
         CancelUnsigned, Unsigned, CancelEffects, Owed, Session, PendingLinked, PaymentsIn
<1>8. WorkersOnAttempts'
  BY <1>4, UnmovedRefs DEF IInv, CancelUnsigned
<1> QED BY <1>3, <1>4, <1>5, <1>6, <1>7, <1>8, AgeingKeeps

\* A cancellation that failed frees none.
LEMMA CancelRolledBackStep ==
  ASSUME IInv, NEW r \in Rentals, CancelRolledBack(r)
  PROVE  IInv' /\ CalendarMoves
<1>1. TypeOK'
  BY SwitchesAssumption DEF IInv, TypeOK, CancelRolledBack, Session, PendingLinked, PaymentsIn
<1>2. PaymentsAge
  BY DEF IInv, TypeOK, PaymentRow, PaymentsAge, Exists, CancelRolledBack, Session, PendingLinked, PaymentsIn
<1>3. RentalsAge
  BY DEF IInv, TypeOK, RentalRow, RentalsAge, CancelRolledBack, Session, PendingLinked, PaymentsIn
<1>4. CalendarMoves
  BY DEF IInv, TypeOK, RentalRow, CalendarMoves, SlotsKept, SameSlot, Occupies, Held, CancelRolledBack,
         Session, PendingLinked, PaymentsIn
<1>5. SessionsOfAttempts'
  BY <1>2, UnmovedRefs DEF IInv, TypeOK, Refs, SessionsOfAttempts, WorkersOnAttempts, PaymentsAge,
         CancelRolledBack, Session, PendingLinked, PaymentsIn
<1>6. WorkersOnAttempts'
  BY <1>2, UnmovedRefs DEF IInv, CancelRolledBack
<1> QED BY <1>1, <1>2, <1>3, <1>4, <1>5, <1>6, AgeingKeeps

\* Reading changes nothing.
LEMMA ReadRentalsStep ==
  ASSUME IInv, NEW r \in Rentals, NEW kind \in Moderation, ReadRentals(r, kind)
  PROVE  IInv' /\ CalendarMoves
<1>1. TypeOK'
  BY SwitchesAssumption DEF IInv, TypeOK, ReadRentals
<1>2. PaymentsAge
  BY DEF IInv, TypeOK, PaymentRow, PaymentsAge, Exists, ReadRentals
<1>3. RentalsAge
  BY DEF IInv, TypeOK, RentalRow, RentalsAge, ReadRentals
<1>4. CalendarMoves
  BY DEF IInv, TypeOK, RentalRow, CalendarMoves, SlotsKept, SameSlot, Occupies, Held, ReadRentals
<1>5. SessionsOfAttempts' /\ WorkersOnAttempts'
  BY <1>2, UnmovedRefs DEF IInv, ReadRentals
<1> QED BY <1>1, <1>2, <1>3, <1>4, <1>5, AgeingKeeps

\* The update of a moderation frees a period.
LEMMA CancelMarkedStep ==
  ASSUME IInv, NEW r \in Rentals, CancelMarked(r)
  PROVE  IInv' /\ CalendarMoves
<1>1. Cancelled(rental[r]) \in RentalRow
  BY PricesAssumption, DurationsAssumption DEF IInv, TypeOK, RentalRow, Cancelled
<1>2. TypeOK'
  BY <1>1, SwitchesAssumption DEF IInv, TypeOK, CancelMarked, Cancelled
<1>3. PaymentsAge
  BY DEF IInv, TypeOK, PaymentRow, PaymentsAge, Exists, CancelMarked, Cancelled
<1>4. RentalsAge
  BY DEF IInv, TypeOK, RentalRow, RentalsAge, CancelMarked, Cancelled, Refs, MarkedRentals
<1>5. CalendarMoves
  BY DEF IInv, TypeOK, RentalRow, CalendarMoves, SlotsKept, SameSlot, Occupies, Held, CancelMarked, Cancelled
<1>6. SessionsOfAttempts' /\ WorkersOnAttempts'
  BY <1>3, UnmovedRefs DEF IInv, CancelMarked
<1> QED BY <1>2, <1>3, <1>4, <1>5, <1>6, AgeingKeeps

-----------------------------------------------------------------------------
(***************************************************************************)
(* Payments, answers of Stripe and events.                                 *)
(***************************************************************************)
\* A session is created for an attempt that exists.
LEMMA StripeCreatesStep ==
  ASSUME IInv, NEW w \in Workers, StripeCreates(w)
  PROVE  IInv' /\ CalendarMoves
<1>1. WorkerGoesOn(w)
  BY PricesAssumption, DurationsAssumption DEF IInv, TypeOK, WorkerGoesOn, PCs, Outcome, StripeCreates
<1>2. worker' \in [Workers -> Worker]
  BY <1>1, WorkerTyped DEF IInv
<1>3. \A row \in Session : /\ [row EXCEPT !.status = "open"] \in Session
                       /\ [row EXCEPT !.status = "expired"] \in Session
  BY <1>1, <1>2, PricesAssumption, DurationsAssumption DEF IInv, TypeOK, Session
<1>4. TypeOK'
  BY <1>1, <1>2, <1>3, SwitchesAssumption DEF IInv, TypeOK, StripeCreates
<1>5. PaymentsAge
  BY DEF IInv, TypeOK, PaymentRow, PaymentsAge, Exists, StripeCreates
<1>6. RentalsAge
  BY DEF IInv, TypeOK, RentalRow, RentalsAge, StripeCreates
<1>7. CalendarMoves
  BY DEF IInv, TypeOK, RentalRow, CalendarMoves, SlotsKept, SameSlot, Occupies, Held, StripeCreates
<1>8. SessionsOfAttempts'
  BY <1>5, UnmovedRefs DEF IInv, TypeOK, Refs, SessionsOfAttempts, WorkersOnAttempts, PaymentsAge, StripeCreates
<1>9. WorkersOnAttempts'
  BY <1>1, <1>5, WorkerMoved DEF IInv
<1> QED BY <1>4, <1>5, <1>6, <1>7, <1>8, <1>9, AgeingKeeps

\* An answer that never comes moves nothing.
LEMMA StripeDoesNotCreateStep ==
  ASSUME IInv, NEW w \in Workers, StripeDoesNotCreate(w)
  PROVE  IInv' /\ CalendarMoves
<1>1. WorkerGoesOn(w)
  BY PricesAssumption, DurationsAssumption DEF IInv, TypeOK, WorkerGoesOn, PCs, Outcome, StripeDoesNotCreate
<1>2. worker' \in [Workers -> Worker]
  BY <1>1, WorkerTyped DEF IInv
<1>3. TypeOK'
  BY <1>1, <1>2, SwitchesAssumption DEF IInv, TypeOK, StripeDoesNotCreate
<1>4. PaymentsAge
  BY DEF IInv, TypeOK, PaymentRow, PaymentsAge, Exists, StripeDoesNotCreate
<1>5. RentalsAge
  BY DEF IInv, TypeOK, RentalRow, RentalsAge, StripeDoesNotCreate
<1>6. CalendarMoves
  BY DEF IInv, TypeOK, RentalRow, CalendarMoves, SlotsKept, SameSlot, Occupies, Held, StripeDoesNotCreate
<1>7. SessionsOfAttempts'
  BY <1>4, UnmovedRefs DEF IInv, StripeDoesNotCreate
<1>8. WorkersOnAttempts'
  BY <1>1, <1>4, WorkerMoved DEF IInv
<1> QED BY <1>3, <1>4, <1>5, <1>6, <1>7, <1>8, AgeingKeeps

\* A rental goes back to pending with the hold it had.
LEMMA AttemptFailedStep ==
  ASSUME IInv, NEW w \in Workers, AttemptFailed(w)
  PROVE  IInv' /\ CalendarMoves
<1>1. WorkerGoesOn(w)
  BY PricesAssumption, DurationsAssumption DEF IInv, TypeOK, WorkerGoesOn, PCs, Outcome, AttemptFailed
<1>2. worker' \in [Workers -> Worker]
  BY <1>1, WorkerTyped DEF IInv
<1>3. \A row \in PaymentRow : [row EXCEPT !.status = "failed"] \in PaymentRow
  BY <1>1, <1>2, PricesAssumption, DurationsAssumption DEF IInv, TypeOK, PaymentRow
<1>4. \A row \in RentalRow : [row EXCEPT !.status = "pending"] \in RentalRow
  BY <1>1, <1>2, <1>3, PricesAssumption, DurationsAssumption DEF IInv, TypeOK, RentalRow
<1>5. TypeOK'
  BY <1>1, <1>2, <1>3, <1>4, SwitchesAssumption DEF IInv, TypeOK, AttemptFailed
<1>6. PaymentsAge
  BY DEF IInv, TypeOK, PaymentRow, PaymentsAge, Exists, AttemptFailed
<1>7. RentalsAge
  BY SMTT(30) DEF IInv, TypeOK, RentalRow, RentalsAge, AttemptFailed
<1>8. CalendarMoves
  BY DEF IInv, TypeOK, RentalRow, CalendarMoves, SlotsKept, SameSlot, Occupies, Held, AttemptFailed
<1>9. SessionsOfAttempts'
  BY <1>6, UnmovedRefs DEF IInv, AttemptFailed
<1>10. WorkersOnAttempts'
  BY <1>1, <1>6, WorkerMoved DEF IInv
<1> QED BY <1>5, <1>6, <1>7, <1>8, <1>9, <1>10, AgeingKeeps

\* The job begins with an attempt that exists.
LEMMA ReconcileCreatingStep ==
  ASSUME IInv, NEW w \in Workers, NEW a \in Attempts, ReconcileCreating(w, a)
  PROVE  IInv' /\ CalendarMoves
<1>1. Exists(a)
  BY PricesAssumption, DurationsAssumption DEF IInv, TypeOK, Exists, ReconcileCreating
<1>2. TypeOK'
  BY <1>1, SwitchesAssumption DEF IInv, TypeOK, ReconcileCreating, Worker
<1>3. PaymentsAge
  BY DEF IInv, TypeOK, PaymentRow, PaymentsAge, Exists, ReconcileCreating, Worker
<1>4. RentalsAge
  BY DEF IInv, TypeOK, RentalRow, RentalsAge, ReconcileCreating, Worker
<1>5. CalendarMoves
  BY DEF IInv, TypeOK, RentalRow, CalendarMoves, SlotsKept, SameSlot, Occupies, Held, ReconcileCreating, Worker
<1>6. SessionsOfAttempts'
  BY <1>1, <1>3, UnmovedRefs DEF IInv, ReconcileCreating
<1>7. WorkersOnAttempts'
  BY <1>1, <1>3, UnmovedRefs DEF IInv, TypeOK, Refs, WorkersOnAttempts, PaymentsAge, ReconcileCreating, Worker
<1> QED BY <1>2, <1>3, <1>4, <1>5, <1>6, <1>7, AgeingKeeps

\* The job begins with an attempt that exists.
LEMMA ReconcilePendingStep ==
  ASSUME IInv, NEW w \in Workers, NEW a \in Attempts, ReconcilePending(w, a)
  PROVE  IInv' /\ CalendarMoves
<1>1. Exists(a)
  BY PricesAssumption, DurationsAssumption DEF IInv, TypeOK, Exists, ReconcilePending
<1>2. TypeOK'
  BY <1>1, SwitchesAssumption DEF IInv, TypeOK, ReconcilePending, Worker, Outcome
<1>3. PaymentsAge
  BY DEF IInv, TypeOK, PaymentRow, PaymentsAge, Exists, ReconcilePending, Worker, Outcome
<1>4. RentalsAge
  BY DEF IInv, TypeOK, RentalRow, RentalsAge, ReconcilePending, Worker, Outcome
<1>5. CalendarMoves
  BY DEF IInv, TypeOK, RentalRow, CalendarMoves, SlotsKept, SameSlot, Occupies, Held, ReconcilePending, Worker, Outcome
<1>6. SessionsOfAttempts'
  BY <1>1, <1>3, UnmovedRefs DEF IInv, ReconcilePending
<1>7. WorkersOnAttempts'
  BY <1>1, <1>3, UnmovedRefs DEF IInv, TypeOK, Refs, WorkersOnAttempts, PaymentsAge, ReconcilePending, Worker, Outcome
<1> QED BY <1>2, <1>3, <1>4, <1>5, <1>6, <1>7, AgeingKeeps

\* A session that is closed was of an attempt.
LEMMA CloseSessionStep ==
  ASSUME IInv, NEW w \in Workers, CloseSession(w)
  PROVE  IInv' /\ CalendarMoves
<1>1. WorkerGoesOn(w)
  BY PricesAssumption, DurationsAssumption DEF IInv, TypeOK, WorkerGoesOn, PCs, Outcome, CloseSession
<1>2. worker' \in [Workers -> Worker]
  BY <1>1, WorkerTyped DEF IInv
<1>3. session' \in [Attempts -> Session]
  BY <1>1, <1>2, PricesAssumption, DurationsAssumption DEF IInv, TypeOK, Session, CloseSession
<1>4. TypeOK'
  BY <1>1, <1>2, <1>3, SwitchesAssumption DEF IInv, TypeOK, CloseSession
<1>5. PaymentsAge
  BY DEF IInv, TypeOK, PaymentRow, PaymentsAge, Exists, CloseSession
<1>6. RentalsAge
  BY DEF IInv, TypeOK, RentalRow, RentalsAge, CloseSession
<1>7. CalendarMoves
  BY DEF IInv, TypeOK, RentalRow, CalendarMoves, SlotsKept, SameSlot, Occupies, Held, CloseSession
<1>8. SessionsOfAttempts'
  BY <1>5, UnmovedRefs DEF IInv, TypeOK, Refs, SessionsOfAttempts, WorkersOnAttempts, PaymentsAge, CloseSession
<1>9. WorkersOnAttempts'
  BY <1>1, <1>5, WorkerMoved DEF IInv
<1> QED BY <1>4, <1>5, <1>6, <1>7, <1>8, <1>9, AgeingKeeps

\* A crash forgets only the worker.
LEMMA CrashStep ==
  ASSUME IInv, NEW w \in Workers, Crash(w)
  PROVE  IInv' /\ CalendarMoves
<1>1. WorkerGoesOn(w)
  BY PricesAssumption, DurationsAssumption DEF IInv, TypeOK, WorkerGoesOn, PCs, Outcome, Crash
<1>2. worker' \in [Workers -> Worker]
  BY <1>1, WorkerTyped DEF IInv
<1>3. TypeOK'
  BY <1>1, <1>2, SwitchesAssumption DEF IInv, TypeOK, Crash
<1>4. PaymentsAge
  BY DEF IInv, TypeOK, PaymentRow, PaymentsAge, Exists, Crash
<1>5. RentalsAge
  BY DEF IInv, TypeOK, RentalRow, RentalsAge, Crash
<1>6. CalendarMoves
  BY DEF IInv, TypeOK, RentalRow, CalendarMoves, SlotsKept, SameSlot, Occupies, Held, Crash
<1>7. SessionsOfAttempts'
  BY <1>4, UnmovedRefs DEF IInv, Crash
<1>8. WorkersOnAttempts'
  BY <1>1, <1>4, WorkerMoved DEF IInv
<1> QED BY <1>3, <1>4, <1>5, <1>6, <1>7, <1>8, AgeingKeeps

\* Who pays, pays for an attempt that exists.
LEMMA PayStep ==
  ASSUME IInv, NEW a \in Attempts, Pay(a)
  PROVE  IInv' /\ CalendarMoves
<1>1. TypeOK'
  BY SwitchesAssumption DEF IInv, TypeOK, Pay, Session
<1>2. PaymentsAge
  BY DEF IInv, TypeOK, PaymentRow, PaymentsAge, Exists, Pay, Session
<1>3. RentalsAge
  BY DEF IInv, TypeOK, RentalRow, RentalsAge, Pay, Session
<1>4. CalendarMoves
  BY DEF IInv, TypeOK, RentalRow, CalendarMoves, SlotsKept, SameSlot, Occupies, Held, Pay, Session
<1>5. SessionsOfAttempts'
  BY <1>2, UnmovedRefs DEF IInv, TypeOK, Refs, SessionsOfAttempts, WorkersOnAttempts, PaymentsAge, Pay, Session
<1>6. WorkersOnAttempts'
  BY <1>2, UnmovedRefs DEF IInv, Pay
<1> QED BY <1>1, <1>2, <1>3, <1>4, <1>5, <1>6, AgeingKeeps

\* A slip is of an attempt that exists.
LEMMA SettleSlipStep ==
  ASSUME IInv, NEW a \in Attempts, SettleSlip(a)
  PROVE  IInv' /\ CalendarMoves
<1>1. TypeOK'
  BY SwitchesAssumption DEF IInv, TypeOK, SettleSlip, Session
<1>2. PaymentsAge
  BY DEF IInv, TypeOK, PaymentRow, PaymentsAge, Exists, SettleSlip, Session
<1>3. RentalsAge
  BY DEF IInv, TypeOK, RentalRow, RentalsAge, SettleSlip, Session
<1>4. CalendarMoves
  BY DEF IInv, TypeOK, RentalRow, CalendarMoves, SlotsKept, SameSlot, Occupies, Held, SettleSlip, Session
<1>5. SessionsOfAttempts'
  BY <1>2, UnmovedRefs DEF IInv, TypeOK, Refs, SessionsOfAttempts, WorkersOnAttempts, PaymentsAge, SettleSlip, Session
<1>6. WorkersOnAttempts'
  BY <1>2, UnmovedRefs DEF IInv, SettleSlip
<1> QED BY <1>1, <1>2, <1>3, <1>4, <1>5, <1>6, AgeingKeeps

\* An expired session is of an attempt that exists.
LEMMA SessionExpiresStep ==
  ASSUME IInv, NEW a \in Attempts, SessionExpires(a)
  PROVE  IInv' /\ CalendarMoves
<1>1. TypeOK'
  BY SwitchesAssumption DEF IInv, TypeOK, SessionExpires, Session
<1>2. PaymentsAge
  BY DEF IInv, TypeOK, PaymentRow, PaymentsAge, Exists, SessionExpires, Session
<1>3. RentalsAge
  BY DEF IInv, TypeOK, RentalRow, RentalsAge, SessionExpires, Session
<1>4. CalendarMoves
  BY DEF IInv, TypeOK, RentalRow, CalendarMoves, SlotsKept, SameSlot, Occupies, Held, SessionExpires, Session
<1>5. SessionsOfAttempts'
  BY <1>2, UnmovedRefs DEF IInv, TypeOK, Refs, SessionsOfAttempts, WorkersOnAttempts, PaymentsAge,
         SessionExpires, Session
<1>6. WorkersOnAttempts'
  BY <1>2, UnmovedRefs DEF IInv, SessionExpires
<1> QED BY <1>1, <1>2, <1>3, <1>4, <1>5, <1>6, AgeingKeeps

\* As time goes by holds lapse and none begins.
LEMMA TickStep ==
  ASSUME IInv, Tick
  PROVE  IInv' /\ CalendarMoves
<1>1. TypeOK'
  BY SwitchesAssumption DEF IInv, TypeOK, Tick
<1>2. PaymentsAge
  BY DEF IInv, TypeOK, PaymentRow, PaymentsAge, Exists, Tick
<1>3. RentalsAge
  BY DEF IInv, TypeOK, RentalRow, RentalsAge, Tick
<1>4. CalendarMoves
  BY DEF IInv, TypeOK, RentalRow, CalendarMoves, SlotsKept, SameSlot, Occupies, Held, Tick
<1>5. SessionsOfAttempts' /\ WorkersOnAttempts'
  BY <1>2, UnmovedRefs DEF IInv, Tick
<1> QED BY <1>1, <1>2, <1>3, <1>4, <1>5, AgeingKeeps

\* A row that learns its session keeps the rest.
LEMMA KnownKeeps ==
  ASSUME NEW a \in Attempts, NEW row \in PaymentRow
  PROVE  /\ Known(row, a) \in PaymentRow /\ Known(row, a).status = row.status
         /\ Known(row, a).rental = row.rental /\ Known(row, a).expires = row.expires
         /\ Known(row, a).refund = row.refund
         /\ Known(row, a).session_id \in {row.session_id, a}
  BY DEF PaymentRow, Known

LEMMA FollowedKeeps ==
  ASSUME NEW a \in Attempts, NEW row \in PaymentRow
  PROVE  /\ Known(Followed(row), a) \in PaymentRow
         /\ Known(Followed(row), a).status = IF row.status = "creating" THEN "pending" ELSE row.status
         /\ Known(Followed(row), a).rental = row.rental
         /\ Known(Followed(row), a).expires = row.expires
         /\ Known(Followed(row), a).refund = row.refund
         /\ Known(Followed(row), a).session_id \in {row.session_id, a}
<1>1. /\ Followed(row) \in PaymentRow
      /\ Followed(row).status = IF row.status = "creating" THEN "pending" ELSE row.status
      /\ Followed(row).rental = row.rental /\ Followed(row).expires = row.expires
      /\ Followed(row).refund = row.refund /\ Followed(row).session_id = row.session_id
  BY DEF PaymentRow, Followed
<1>2. /\ Known(Followed(row), a) \in PaymentRow
      /\ Known(Followed(row), a).status = Followed(row).status
      /\ Known(Followed(row), a).rental = Followed(row).rental
      /\ Known(Followed(row), a).expires = Followed(row).expires
      /\ Known(Followed(row), a).refund = Followed(row).refund
      /\ Known(Followed(row), a).session_id \in {Followed(row).session_id, a}
  BY <1>1, KnownKeeps
<1> QED BY <1>1, <1>2

\* A row written off keeps the rest.
LEMMA GoneKeeps ==
  ASSUME NEW a \in Attempts, NEW row \in PaymentRow
  PROVE  LET gone == Known([row EXCEPT !.status = "expired"], a) IN
         /\ gone \in PaymentRow /\ gone.status = "expired"
         /\ gone.rental = row.rental /\ gone.expires = row.expires /\ gone.refund = row.refund
         /\ gone.session_id \in {row.session_id, a}
<1> DEFINE mid == [row EXCEPT !.status = "expired"]
<1>1. /\ mid \in PaymentRow /\ mid.status = "expired" /\ mid.session_id = row.session_id
      /\ mid.rental = row.rental /\ mid.expires = row.expires /\ mid.refund = row.refund
  BY DEF PaymentRow
<1> HIDE DEF mid
<1>2. /\ Known(mid, a) \in PaymentRow /\ Known(mid, a).status = mid.status
      /\ Known(mid, a).rental = mid.rental /\ Known(mid, a).expires = mid.expires
      /\ Known(mid, a).refund = mid.refund
      /\ Known(mid, a).session_id \in {mid.session_id, a}
  BY <1>1, KnownKeeps
<1> QED BY <1>1, <1>2 DEF mid

\* A payment event leaves the rental alone, or confirms it on a free period.
LEMMA ApproveAges ==
  ASSUME IInv, NEW a \in Attempts, Exists(a), Approve(a), now' = now, marked' = marked
  PROVE  /\ payment' \in [Attempts -> PaymentRow] /\ rental' \in [Rentals -> RentalRow]
         /\ PaymentsAge /\ RentalsAge /\ CalendarMoves
<1> DEFINE r == payment[a].rental
           row == [rental[r] EXCEPT !.status = "active",
                     !.terms = IF @ = {} THEN {[period |-> rental[r].period, total |-> rental[r].total]} ELSE @]
<1>1. r \in Rentals /\ rental[r] \in RentalRow /\ payment[a] \in PaymentRow
  BY DEF IInv, TypeOK, Refs, AttemptsOfRentals
<1>2. UNCHANGED rental \/ (Bookable(r) /\ rental' = [rental EXCEPT ![r] = row])
  BY DEF Approve, Confirm
<1> DEFINE paid(status) == Known([payment[a] EXCEPT !.status = status], a)
           after == {paid(status) : status \in {"approved", "requires_review"}}
                      \cup {Owed(paid("approved"), "full")}
<1>3. PICK new \in after : payment' = [payment EXCEPT ![a] = new]
  BY <1>1 DEF Approve, Receive, Recorded, PaymentRow, IInv, TypeOK
<1>4. /\ new \in PaymentRow /\ new.rental = payment[a].rental /\ new.expires = payment[a].expires
      /\ new.status \in {"approved", "requires_review"}
      /\ new.session_id \in {payment[a].session_id, a}
  BY <1>1 DEF PaymentRow, Owed, Known
<1>5. PaymentsAge
  BY <1>1, <1>3, <1>4 DEF IInv, TypeOK, PaymentsAge, Exists
<1>6. payment' \in [Attempts -> PaymentRow]
  BY <1>3, <1>4 DEF IInv, TypeOK
<1>7. CASE UNCHANGED rental
  <2>1. RentalsAge
    BY <1>7 DEF RentalsAge
  <2>2. SlotsKept
    BY <1>7 DEF SlotsKept, SameSlot, Occupies, Held
  <2> QED BY <1>5, <1>6, <1>7, <2>1, <2>2 DEF IInv, TypeOK, CalendarMoves
<1>8. CASE Bookable(r) /\ rental' = [rental EXCEPT ![r] = row]
  <2>1. row \in RentalRow
    <3>1. [period |-> rental[r].period, total |-> rental[r].total] \in Terms
      BY <1>1 DEF RentalRow, Terms
    <3> QED BY <1>1, <3>1 DEF RentalRow
  <2>2. RentalsAge
    BY <1>1, <1>8 DEF IInv, TypeOK, RentalRow, RentalsAge, Bookable
  <2>3. SlotTaken(r)
    BY <1>1, <1>8 DEF IInv, TypeOK, RentalRow, SlotTaken, SameSlot, Occupies, Held, Bookable, HasConflict
  <2> QED BY <1>1, <1>5, <1>6, <1>8, <2>1, <2>2, <2>3, SMTT(30) DEF IInv, TypeOK, CalendarMoves
<1> QED BY <1>2, <1>7, <1>8

\* An expired attempt may cancel its rental, which frees a period.
LEMMA ExpireAges ==
  ASSUME IInv, NEW a \in Attempts, Exists(a), Expire(a), now' = now, marked' = marked
  PROVE  /\ payment' \in [Attempts -> PaymentRow] /\ rental' \in [Rentals -> RentalRow]
         /\ PaymentsAge /\ RentalsAge /\ CalendarMoves
<1> DEFINE r == payment[a].rental
<1>1. r \in Rentals /\ rental[r] \in RentalRow /\ payment[a] \in PaymentRow
  BY DEF IInv, TypeOK, Refs, AttemptsOfRentals
<1> DEFINE gone == Known([payment[a] EXCEPT !.status = "expired"], a)
<1>2. /\ gone \in PaymentRow /\ gone.status = "expired"
      /\ gone.rental = payment[a].rental /\ gone.expires = payment[a].expires
      /\ gone.session_id \in {payment[a].session_id, a}
  BY <1>1, GoneKeeps
<1> HIDE DEF gone
<1>0. UNCHANGED payment \/ (payment[a].status \in LIVE /\ payment' = [payment EXCEPT ![a] = gone])
  BY DEF Expire, gone
<1> DEFINE row == Cancelled(rental[r])
<1>3. row \in RentalRow /\ row.status = "cancelled"
  BY <1>1 DEF RentalRow, Cancelled
<1>4. payment' \in [Attempts -> PaymentRow] /\ rental' \in [Rentals -> RentalRow]
  BY <1>0, <1>2, <1>3 DEF IInv, TypeOK, Expire
<1>5. PaymentsAge
  BY <1>0, <1>2 DEF IInv, TypeOK, PaymentsAge, Exists
<1> DEFINE canceled == rental[r].status = "awaiting_payment" /\ rental' = [rental EXCEPT ![r] = row]
<1>6. UNCHANGED rental \/ canceled
  BY DEF Expire
<1> HIDE DEF row
<1>7. RentalsAge
  BY <1>1, <1>3, <1>6 DEF IInv, TypeOK, RentalsAge
<1>8. CalendarMoves
  BY <1>1, <1>3, <1>6 DEF IInv, TypeOK, CalendarMoves, SlotsKept, SameSlot, Occupies, Held
<1> QED BY <1>4, <1>5, <1>7, <1>8

\* However an event arrives, by webhook or by the job, the row it finds is that
\* of the attempt whose session it is about: by the session the row keeps, or
\* by the name in the session's metadata.
LEMMA FoundIsOwn ==
  ASSUME IInv, NEW a \in Attempts, NEW named \in {a, NoAttempt}
  PROVE  FindPayment(a, named) \subseteq {a}
  BY AttemptsAssumption DEF IInv, Refs, OwnSessions, FindPayment

\* Money received has its effect on that row, or none.
LEMMA PaidAges ==
  ASSUME IInv, NEW a \in Attempts, NEW named \in {a, NoAttempt}, Exists(a),
         Settle(a, named, Approve), now' = now, marked' = marked
  PROVE  /\ payment' \in [Attempts -> PaymentRow] /\ rental' \in [Rentals -> RentalRow]
         /\ PaymentsAge /\ RentalsAge /\ CalendarMoves
<1>1. CASE Approve(a)
  BY <1>1, ApproveAges
<1>2. CASE UNCHANGED <<rental, payment>>
  BY <1>2 DEF IInv, TypeOK, PaymentsAge, Exists, RentalsAge, CalendarMoves, SlotsKept, SameSlot, Occupies, Held
<1> QED BY <1>1, <1>2, FoundIsOwn DEF Settle

\* So has a session that is over.
LEMMA OverAges ==
  ASSUME IInv, NEW a \in Attempts, NEW named \in {a, NoAttempt}, Exists(a),
         Settle(a, named, Expire), now' = now, marked' = marked
  PROVE  /\ payment' \in [Attempts -> PaymentRow] /\ rental' \in [Rentals -> RentalRow]
         /\ PaymentsAge /\ RentalsAge /\ CalendarMoves
<1>1. CASE Expire(a)
  BY <1>1, ExpireAges
<1>2. CASE UNCHANGED <<rental, payment>>
  BY <1>2 DEF IInv, TypeOK, PaymentsAge, Exists, RentalsAge, CalendarMoves, SlotsKept, SameSlot, Occupies, Held
<1> QED BY <1>1, <1>2, FoundIsOwn DEF Settle

\* An event of the webhook that reports money.
LEMMA WebhookPaidStep ==
  ASSUME IInv, NEW a \in Attempts, WebhookPaid(a)
  PROVE  IInv' /\ CalendarMoves
<1> DEFINE att == a
<1>1. att \in Attempts /\ Exists(att)
  BY DEF IInv, Refs, SessionsOfAttempts, WebhookPaid
<1>2. /\ payment' \in [Attempts -> PaymentRow] /\ rental' \in [Rentals -> RentalRow]
      /\ PaymentsAge /\ RentalsAge /\ CalendarMoves
  BY <1>1, PaidAges DEF WebhookPaid
<1>3. TypeOK'
  BY <1>2 DEF IInv, TypeOK, WebhookPaid
<1>4. SessionsOfAttempts' /\ WorkersOnAttempts'
  BY <1>2, UnmovedRefs DEF IInv, WebhookPaid
<1> QED BY <1>2, <1>3, <1>4, AgeingKeeps

\* An expired or failed session may free a period.
LEMMA WebhookExpiredStep ==
  ASSUME IInv, NEW a \in Attempts, WebhookExpired(a)
  PROVE  IInv' /\ CalendarMoves
<1> DEFINE att == a
<1>1. att \in Attempts /\ Exists(att)
  BY DEF IInv, Refs, SessionsOfAttempts, WebhookExpired
<1>2. /\ payment' \in [Attempts -> PaymentRow] /\ rental' \in [Rentals -> RentalRow]
      /\ PaymentsAge /\ RentalsAge /\ CalendarMoves
  BY <1>1, OverAges DEF WebhookExpired
<1>3. TypeOK'
  BY <1>2 DEF IInv, TypeOK, WebhookExpired
<1>4. SessionsOfAttempts' /\ WorkersOnAttempts'
  BY <1>2, UnmovedRefs DEF IInv, WebhookExpired
<1> QED BY <1>2, <1>3, <1>4, AgeingKeeps

\* The job that finds money received does what the webhook does.
LEMMA SettlePaidStep ==
  ASSUME IInv, NEW w \in Workers, SettlePaid(w)
  PROVE  IInv' /\ CalendarMoves
<1> DEFINE att == worker[w].attempt
<1>1. att \in Attempts /\ Exists(att)
  BY DEF IInv, Refs, WorkersOnAttempts, SettlePaid
<1>2. /\ payment' \in [Attempts -> PaymentRow] /\ rental' \in [Rentals -> RentalRow]
      /\ PaymentsAge /\ RentalsAge /\ CalendarMoves
  BY <1>1, PaidAges DEF SettlePaid, Named
<1>3. WorkerGoesOn(w)
  BY DEF SettlePaid, WorkerGoesOn
<1>4. worker' \in [Workers -> Worker] /\ WorkersOnAttempts'
  BY <1>2, <1>3, WorkerTyped, WorkerMoved DEF IInv
<1>5. TypeOK'
  BY <1>2, <1>4 DEF IInv, TypeOK, SettlePaid
<1>6. SessionsOfAttempts'
  BY <1>2, UnmovedRefs DEF IInv, SettlePaid
<1> QED BY <1>2, <1>4, <1>5, <1>6, AgeingKeeps

\* The job that finds a session over does what the webhook does.
LEMMA SettleExpiredStep ==
  ASSUME IInv, NEW w \in Workers, SettleExpired(w)
  PROVE  IInv' /\ CalendarMoves
<1> DEFINE att == worker[w].attempt
<1>1. att \in Attempts /\ Exists(att)
  BY DEF IInv, Refs, WorkersOnAttempts, SettleExpired
<1>2. /\ payment' \in [Attempts -> PaymentRow] /\ rental' \in [Rentals -> RentalRow]
      /\ PaymentsAge /\ RentalsAge /\ CalendarMoves
  BY <1>1, OverAges DEF SettleExpired, Named
<1>3. WorkerGoesOn(w)
  BY DEF SettleExpired, WorkerGoesOn
<1>4. worker' \in [Workers -> Worker] /\ WorkersOnAttempts'
  BY <1>2, <1>3, WorkerTyped, WorkerMoved DEF IInv
<1>5. TypeOK'
  BY <1>2, <1>4 DEF IInv, TypeOK, SettleExpired
<1>6. SessionsOfAttempts'
  BY <1>2, UnmovedRefs DEF IInv, SettleExpired
<1> QED BY <1>2, <1>4, <1>5, <1>6, AgeingKeeps

\* An answer that comes late ties a session to its attempt, and writes a hold
\* that an unpaid rental has already.
LEMMA AttachSessionStep ==
  ASSUME IInv, NEW w \in Workers, AttachSession(w)
  PROVE  IInv' /\ CalendarMoves
<1> DEFINE a == worker[w].attempt
           r == payment[a].rental
           row == [rental[r] EXCEPT !.hold = payment[a].expires,
                                    !.status = IF @ = "pending" THEN "awaiting_payment" ELSE @]
<1>1. a \in Attempts /\ Exists(a) /\ r \in Rentals
  BY DEF IInv, Refs, AttemptsOfRentals, WorkersOnAttempts, AttachSession
<1>2. payment[a] \in PaymentRow /\ rental[r] \in RentalRow
  BY <1>1, SMTT(30) DEF IInv, TypeOK
<1>3. UNCHANGED rental \/ (payment[a].status = "creating" /\ rental' = [rental EXCEPT ![r] = row])
  BY DEF AttachSession
<1>4. row \in RentalRow
  BY <1>2 DEF RentalRow, PaymentRow
<1>5. /\ row.posting = rental[r].posting /\ row.period = rental[r].period
      /\ row.status = "none" <=> rental[r].status = "none"
      /\ row.status \in PROVISIONAL => rental[r].status \in PROVISIONAL
      /\ row.status \in OCCUPYING <=> rental[r].status \in OCCUPYING
      /\ row.hold = payment[a].expires
  BY <1>2 DEF RentalRow
<1> HIDE DEF row
<1> DEFINE tied == Known(Followed(payment[a]), a)
<1>0. /\ tied \in PaymentRow
      /\ tied.status = IF payment[a].status = "creating" THEN "pending" ELSE payment[a].status
      /\ tied.rental = payment[a].rental /\ tied.expires = payment[a].expires
      /\ tied.session_id \in {payment[a].session_id, a}
  BY <1>1, <1>2, FollowedKeeps
<1>13. payment' = [payment EXCEPT ![a] = tied]
  BY DEF AttachSession
<1> HIDE DEF tied
<1>6. PaymentsAge
  BY <1>0, <1>1, <1>13 DEF IInv, TypeOK, PaymentsAge, Exists
<1>7. marked' = marked /\ now' = now /\ session' = session
  BY DEF AttachSession
<1>8. RentalsAge
  BY <1>1, <1>3, <1>5, <1>7 DEF IInv, TypeOK, HoldCoversAttempt, RentalsAge
<1>9. SlotsKept
  BY <1>1, <1>3, <1>5, <1>7, SMTT(30) DEF IInv, TypeOK, HoldCoversAttempt, SlotsKept, SameSlot, Occupies, Held
<1>10. WorkerGoesOn(w)
  BY DEF AttachSession, WorkerGoesOn, PCs
<1>11. worker' \in [Workers -> Worker] /\ WorkersOnAttempts'
  BY <1>6, <1>10, WorkerTyped, WorkerMoved DEF IInv
<1>12. payment' \in [Attempts -> PaymentRow]
  BY <1>0, <1>1, <1>13 DEF IInv, TypeOK
<1>14. shown' \subseteq Attempts
  BY <1>1 DEF IInv, TypeOK, AttachSession
<1>15. TypeOK'
  BY <1>3, <1>4, <1>7, <1>11, <1>12, <1>14 DEF IInv, TypeOK
<1>16. SessionsOfAttempts'
  BY <1>6, <1>7, UnmovedRefs DEF IInv
<1> QED BY <1>6, <1>8, <1>9, <1>11, <1>15, <1>16, AgeingKeeps, SMTT(30) DEF CalendarMoves

-----------------------------------------------------------------------------
(***************************************************************************)
(* Rentals and attempts that are made, and holds that move.                *)
(***************************************************************************)
\* A new rental takes a free period; no attempt refers to it yet.
LEMMA CreateRentalStep ==
  ASSUME IInv, NEW r \in Rentals, NEW posting \in Postings, NEW period \in Periods,
         NEW quote \in Prices, CreateRental(r, posting, period, quote)
  PROVE  IInv' /\ CalendarMoves
<1> DEFINE row == [status |-> "pending", posting |-> posting, period |-> period,
                   hold |-> now + HoldTime, total |-> quote,
                   contract |-> "pending_signatures", terms |-> {}]
<1>1. row \in RentalRow
  BY PricesAssumption, DurationsAssumption DEF IInv, TypeOK, RentalRow
<1>2. /\ rental[r].status = "none" /\ ~Conflict(r, posting, period)
      /\ rental' = [rental EXCEPT ![r] = row]
      /\ UNCHANGED <<now, payment, session, shown, worker, marked>>
  BY DEF CreateRental
<1>3. row.status = "pending" /\ row.posting = posting /\ row.period = period
  OBVIOUS
<1> HIDE DEF row
<1>4. TypeOK'
  BY <1>1, <1>2 DEF IInv, TypeOK
<1>5. Refs'
  BY <1>2, <1>3 DEF IInv, TypeOK, Refs, AttemptsOfRentals, SessionsOfAttempts, WorkersOnAttempts,
                    MarkedRentals, OwnSessions, Exists
<1>6. OneLiveAttempt'
  BY <1>2 DEF IInv, OneLiveAttempt
<1>7. HoldCoversAttempt'
  BY <1>2 DEF IInv, TypeOK, Refs, AttemptsOfRentals, Exists, HoldCoversAttempt
<1>8. SlotTaken(r)
  BY <1>2, <1>3 DEF IInv, TypeOK, SlotTaken, SameSlot, Occupies, Held
<1>9. CalendarMoves /\ NoDoubleBooking'
  BY <1>8, CalendarKept DEF IInv, CalendarMoves
<1> QED BY <1>4, <1>5, <1>6, <1>7, <1>9 DEF IInv

\* To go back to paying is to take the period again, which is still free.
LEMMA AwaitTakes ==
  ASSUME IInv, NEW r \in Rentals, NEW total \in Nat, NEW expires \in Nat,
         MayPay(r), AwaitPayment(r, total, expires), now' = now
  PROVE  /\ rental' \in [Rentals -> RentalRow]
         /\ \A s \in Rentals \ {r} : rental'[s] = rental[s]
         /\ rental[r].status # "none" /\ rental'[r].status = "awaiting_payment"
         /\ rental'[r].hold = expires
         /\ SlotTaken(r)
<1> DEFINE row == [rental[r] EXCEPT !.status = "awaiting_payment", !.total = total, !.hold = expires]
<1>1. row \in RentalRow
  BY DEF IInv, TypeOK, RentalRow
<1>2. rental' = [rental EXCEPT ![r] = row]
  BY DEF AwaitPayment
<1>3. /\ row.posting = rental[r].posting /\ row.period = rental[r].period
      /\ row.status = "awaiting_payment" /\ row.hold = expires
  BY DEF IInv, TypeOK, RentalRow
<1> HIDE DEF row
<1>4. SlotTaken(r)
  BY <1>2, <1>3 DEF IInv, TypeOK, SlotTaken, SameSlot, Occupies, Held, MayPay, HasConflict
<1> QED BY <1>1, <1>2, <1>3, <1>4 DEF IInv, TypeOK, MayPay

\* The session gone back to is that of the one live attempt.
LEMMA ResumeCheckoutStep ==
  ASSUME IInv, NEW r \in Rentals, ResumeCheckout(r)
  PROVE  IInv' /\ CalendarMoves
<1>1. PICK a \in PaymentsIn(r, {"pending"}) :
        /\ MayPay(r) /\ AwaitPayment(r, payment[a].amount, payment[a].expires)
        /\ shown' = shown \cup {a}
        /\ UNCHANGED <<now, payment, session, worker, marked>>
  BY DEF ResumeCheckout
<1>2. /\ a \in Attempts /\ payment[a].rental = r /\ payment[a].status = "pending"
      /\ payment[a].amount \in Nat /\ payment[a].expires \in Nat
  BY DEF PaymentsIn, IInv, TypeOK, PaymentRow
<1>3. /\ rental' \in [Rentals -> RentalRow]
      /\ \A s \in Rentals \ {r} : rental'[s] = rental[s]
      /\ rental[r].status # "none" /\ rental'[r].status = "awaiting_payment"
      /\ SlotTaken(r)
  BY <1>1, <1>2, AwaitTakes
<1>4. TypeOK'
  BY <1>1, <1>2, <1>3 DEF IInv, TypeOK
<1>5. Refs'
  BY <1>1, <1>3 DEF IInv, Refs, AttemptsOfRentals, SessionsOfAttempts, WorkersOnAttempts, MarkedRentals,
                    OwnSessions, Exists
<1>6. OneLiveAttempt'
  BY <1>1 DEF IInv, OneLiveAttempt
<1>7. \A b \in Attempts : payment[b].rental = r => payment[b].status # "creating"
  BY <1>2 DEF IInv, OneLiveAttempt
<1>8. HoldCoversAttempt'
  BY <1>1, <1>3, <1>7 DEF IInv, Refs, AttemptsOfRentals, Exists, HoldCoversAttempt
<1>9. CalendarMoves /\ NoDoubleBooking'
  BY <1>3, CalendarKept DEF IInv, CalendarMoves
<1> QED BY <1>4, <1>5, <1>6, <1>8, <1>9 DEF IInv

\* An attempt sent again is the only live one, and the hold becomes its life.
LEMMA ReuseAttemptStep ==
  ASSUME IInv, NEW w \in Workers, NEW r \in Rentals, NEW quote \in Prices, ReuseAttempt(w, r, quote)
  PROVE  IInv' /\ CalendarMoves
<1> DEFINE total == PriceNow(r, quote)
<1>1. PICK a \in PaymentsIn(r, {"creating"}) :
        /\ MayPay(r) /\ AwaitPayment(r, total, payment[a].expires)
        /\ payment' = AfterPrepare(r, NoAttempt, 0)
        /\ worker' = [worker EXCEPT ![w] = [pc |-> "create", attempt |-> a, mode |-> "tenant"]]
        /\ UNCHANGED <<now, session, shown, marked>>
  BY DEF ReuseAttempt
<1>2. /\ a \in Attempts /\ payment[a].rental = r /\ payment[a].status = "creating"
      /\ total \in Nat /\ payment[a].expires \in Nat
  BY PricesAssumption DEF PaymentsIn, IInv, TypeOK, PaymentRow, RentalRow, PriceNow
<1>3. \A b \in Attempts : payment'[b] = IF b \in PaymentsIn(r, {"pending"})
                                        THEN [payment[b] EXCEPT !.status = "expired"] ELSE payment[b]
  BY <1>1, AttemptsAssumption DEF AfterPrepare
<1>4. \A b \in Attempts : payment[b] \in PaymentRow =>
        LET gone == [payment[b] EXCEPT !.status = "expired"]
        IN  /\ gone \in PaymentRow /\ gone.status = "expired"
            /\ gone.rental = payment[b].rental /\ gone.expires = payment[b].expires
            /\ gone.session_id = payment[b].session_id
  BY DEF PaymentRow
<1>5. payment' \in [Attempts -> PaymentRow]
  <2>1. DOMAIN payment' = Attempts /\ payment' = [b \in Attempts |-> payment'[b]]
    BY <1>1 DEF AfterPrepare
  <2> QED BY <1>3, <1>4, <2>1 DEF IInv, TypeOK
<1>6. PaymentsAge
  BY <1>3, <1>4 DEF IInv, TypeOK, PaymentsAge, Exists, PaymentsIn
<1>7. /\ rental' \in [Rentals -> RentalRow]
      /\ \A s \in Rentals \ {r} : rental'[s] = rental[s]
      /\ rental[r].status # "none" /\ rental'[r].status = "awaiting_payment"
      /\ rental'[r].hold = payment[a].expires
      /\ SlotTaken(r)
  BY <1>1, <1>2, AwaitTakes
<1>8. TypeOK'
  BY <1>1, <1>2, <1>5, <1>7 DEF IInv, TypeOK, Worker
<1>9. AttemptsOfRentals' /\ MarkedRentals'
  BY <1>1, <1>6, <1>7 DEF IInv, Refs, AttemptsOfRentals, MarkedRentals, PaymentsAge
<1>10. SessionsOfAttempts'
  BY <1>1, <1>6, UnmovedRefs DEF IInv
<1>11. Exists(a)
  BY <1>2 DEF Exists
<1>12. WorkersOnAttempts'
  BY <1>1, <1>2, <1>6, <1>11 DEF IInv, TypeOK, Refs, WorkersOnAttempts, PaymentsAge
<1>13. OneLiveAttempt'
  BY <1>6 DEF IInv, OneLiveAttempt, PaymentsAge
<1>14. HoldCoversAttempt'
  BY <1>2, <1>6, <1>7 DEF IInv, Refs, AttemptsOfRentals, Exists, OneLiveAttempt, HoldCoversAttempt, PaymentsAge
<1>0. OwnSessions'
  BY <1>6 DEF IInv, Refs, OwnSessions, PaymentsAge
<1>15. CalendarMoves /\ NoDoubleBooking'
  BY <1>7, CalendarKept DEF IInv, CalendarMoves
<1> QED BY <1>0, <1>8, <1>9, <1>10, <1>12, <1>13, <1>14, <1>15 DEF IInv, Refs

\* A new attempt leaves no other live, and the hold becomes its life.
LEMMA NewAttemptStep ==
  ASSUME IInv, NEW w \in Workers, NEW r \in Rentals, NEW b \in Attempts, NEW quote \in Prices,
         NewAttempt(w, r, b, quote)
  PROVE  IInv' /\ CalendarMoves
<1> DEFINE total == PriceNow(r, quote)
           new == [status |-> "creating", rental |-> r, amount |-> total, expires |-> now + SessionLife,
                   session_id |-> NoAttempt, replaced |-> FALSE, refund |-> "none"]
<1>1. /\ MayPay(r) /\ AwaitPayment(r, total, now + SessionLife)
      /\ payment[b].status = "none"
      /\ payment' = AfterPrepare(r, b, total)
      /\ worker' = [worker EXCEPT ![w] = [pc |-> "create", attempt |-> b, mode |-> "tenant"]]
      /\ UNCHANGED <<now, session, shown, marked>>
  BY DEF NewAttempt
<1>2. total \in Nat /\ now + SessionLife \in Nat
  BY PricesAssumption, DurationsAssumption DEF IInv, TypeOK, RentalRow, PriceNow
<1> DEFINE gone(c) == [payment[c] EXCEPT !.status = "expired"]
           dropped(c) == [payment[c] EXCEPT !.status = "failed", !.replaced = TRUE]
<1>3. \A c \in Attempts : payment'[c] = IF c = b THEN new
                                        ELSE IF c \in PaymentsIn(r, {"pending"}) THEN gone(c)
                                        ELSE IF c \in PaymentsIn(r, {"creating"}) THEN dropped(c)
                                        ELSE payment[c]
  BY <1>1, AttemptsAssumption DEF AfterPrepare
<1>4. \A c \in Attempts :
        /\ gone(c) \in PaymentRow /\ gone(c).status = "expired" /\ gone(c).rental = payment[c].rental
        /\ dropped(c) \in PaymentRow /\ dropped(c).status = "failed" /\ dropped(c).rental = payment[c].rental
        /\ gone(c).session_id = payment[c].session_id /\ dropped(c).session_id = payment[c].session_id
  BY DEF IInv, TypeOK, PaymentRow
<1>5. /\ new \in PaymentRow /\ new.status = "creating" /\ new.rental = r
      /\ new.expires = now + SessionLife /\ new.session_id = NoAttempt
  BY <1>2 DEF PaymentRow
<1> HIDE DEF new, gone, dropped
<1>6. payment' \in [Attempts -> PaymentRow]
  <2>1. DOMAIN payment' = Attempts /\ payment' = [c \in Attempts |-> payment'[c]]
    BY <1>1 DEF AfterPrepare
  <2> QED BY <1>3, <1>4, <1>5, <2>1 DEF IInv, TypeOK
<1>7. /\ rental' \in [Rentals -> RentalRow]
      /\ \A s \in Rentals \ {r} : rental'[s] = rental[s]
      /\ rental[r].status # "none" /\ rental'[r].status = "awaiting_payment"
      /\ rental'[r].hold = now + SessionLife
      /\ SlotTaken(r)
  BY <1>1, <1>2, AwaitTakes
<1>8. TypeOK'
  BY <1>1, <1>6, <1>7 DEF IInv, TypeOK, Worker
<1>9. \A c \in Attempts \ {b} :
        /\ payment'[c].rental = payment[c].rental
        /\ payment'[c].status = "none" <=> payment[c].status = "none"
        /\ payment'[c].status \in LIVE => payment[c].rental # r /\ payment'[c] = payment[c]
        /\ payment'[c].session_id = payment[c].session_id
  BY <1>3, <1>4 DEF PaymentsIn
<1>10. payment'[b] = new /\ payment'[b].status = "creating" /\ payment'[b].session_id = NoAttempt
  BY <1>3, <1>5
<1>0. OwnSessions'
  BY <1>9, <1>10 DEF IInv, Refs, OwnSessions
<1>11. AttemptsOfRentals' /\ MarkedRentals'
  BY <1>1, <1>5, <1>7, <1>9, <1>10 DEF IInv, Refs, AttemptsOfRentals, MarkedRentals, Exists
<1>12. SessionsOfAttempts' /\ WorkersOnAttempts'
  BY <1>1, <1>9, <1>10 DEF IInv, TypeOK, Refs, SessionsOfAttempts, WorkersOnAttempts, Exists
<1>13. OneLiveAttempt'
  BY <1>5, <1>9, <1>10 DEF IInv, OneLiveAttempt
<1>14. HoldCoversAttempt'
  BY <1>5, <1>7, <1>9, <1>10 DEF IInv, Refs, AttemptsOfRentals, Exists, HoldCoversAttempt
<1>15. CalendarMoves /\ NoDoubleBooking'
  BY <1>7, CalendarKept DEF IInv, CalendarMoves
<1> QED BY <1>0, <1>8, <1>11, <1>12, <1>13, <1>14, <1>15 DEF IInv, Refs

-----------------------------------------------------------------------------
(***************************************************************************)
(* The invariant and the theorems.                                         *)
(***************************************************************************)
\* A row of the tables comes from CHOOSE until it is made; it has a type even so.
LEMMA InitInv ==
  ASSUME Init
  PROVE  IInv
<1>1. (CHOOSE p \in Postings : TRUE) \in Postings /\ (CHOOSE p \in Periods : TRUE) \in Periods
  BY PostingsAssumption, PeriodsAssumption
<1>2. TypeOK
  BY <1>1 DEF Init, TypeOK, RentalRow, PaymentRow, Session, Worker, Idle
<1>3. Refs
  BY DEF Init, Refs, AttemptsOfRentals, SessionsOfAttempts, WorkersOnAttempts, MarkedRentals, OwnSessions,
         Exists, Idle
<1>4. OneLiveAttempt /\ HoldCoversAttempt /\ NoDoubleBooking
  BY DEF Init, OneLiveAttempt, HoldCoversAttempt, NoDoubleBooking, Occupies
<1> QED BY <1>2, <1>3, <1>4 DEF IInv

\* Every step keeps the invariant and moves the calendar as it may.
LEMMA NextInv ==
  ASSUME IInv, Next
  PROVE  IInv' /\ CalendarMoves
<1>1. ASSUME NEW r \in Rentals, RentalNext(r)
      PROVE  IInv' /\ CalendarMoves
  <2>1. CASE \E posting \in Postings, period \in Periods, quote \in Prices :
                    CreateRental(r, posting, period, quote)
    BY <2>1, CreateRentalStep
  <2>2. CASE \E period \in Periods, quote \in Prices : UpdateRental(r, period, quote)
    BY <2>2, UpdateRentalStep
  <2>3. CASE CompleteRental(r)
    BY <2>3, CompleteRentalStep
  <2>4. CASE SignContract(r)
    BY <2>4, SignContractStep
  <2>5. CASE \E period \in Periods : AcceptAmendment(r, period)
    BY <2>5, AcceptAmendmentStep
  <2>6. CASE ResumeCheckout(r)
    BY <2>6, ResumeCheckoutStep
  <2>7. CASE \E actor \in {"lessee", "owner", "admin"} : CancelRental(r, actor)
    BY <2>7, CancelRentalStep
  <2>8. CASE CancelUnsigned(r)
    BY <2>8, CancelUnsignedStep
  <2>9. CASE CancelRolledBack(r)
    BY <2>9, CancelRolledBackStep
  <2>10. CASE \E kind \in Moderation : ReadRentals(r, kind)
    BY <2>10, ReadRentalsStep
  <2>11. CASE CancelMarked(r)
    BY <2>11, CancelMarkedStep
  <2> QED BY <1>1, <2>1, <2>2, <2>3, <2>4, <2>5, <2>6, <2>7, <2>8, <2>9, <2>10, <2>11 DEF RentalNext
<1>2. ASSUME NEW w \in Workers, WorkerNext(w)
      PROVE  IInv' /\ CalendarMoves
  <2>1. CASE \E r \in Rentals, quote \in Prices : ReuseAttempt(w, r, quote)
    BY <2>1, ReuseAttemptStep
  <2>2. CASE \E r \in Rentals, quote \in Prices, b \in Attempts : NewAttempt(w, r, b, quote)
    BY <2>2, NewAttemptStep
  <2>3. CASE StripeCreates(w)
    BY <2>3, StripeCreatesStep
  <2>4. CASE StripeDoesNotCreate(w)
    BY <2>4, StripeDoesNotCreateStep
  <2>5. CASE AttemptFailed(w)
    BY <2>5, AttemptFailedStep
  <2>6. CASE AttachSession(w)
    BY <2>6, AttachSessionStep
  <2>7. CASE \E a \in Attempts : ReconcileCreating(w, a)
    BY <2>7, ReconcileCreatingStep
  <2>8. CASE \E a \in Attempts : ReconcilePending(w, a)
    BY <2>8, ReconcilePendingStep
  <2>9. CASE CloseSession(w)
    BY <2>9, CloseSessionStep
  <2>10. CASE SettlePaid(w)
    BY <2>10, SettlePaidStep
  <2>11. CASE SettleExpired(w)
    BY <2>11, SettleExpiredStep
  <2>12. CASE Crash(w)
    BY <2>12, CrashStep
  <2> QED BY <1>2, <2>1, <2>2, <2>3, <2>4, <2>5, <2>6, <2>7, <2>8, <2>9, <2>10, <2>11, <2>12 DEF WorkerNext
<1>3. ASSUME NEW a \in Attempts, StripeNext(a)
      PROVE  IInv' /\ CalendarMoves
  <2>1. CASE WebhookPaid(a)
    BY <2>1, WebhookPaidStep
  <2>2. CASE WebhookExpired(a)
    BY <2>2, WebhookExpiredStep
  <2>3. CASE Pay(a)
    BY <2>3, PayStep
  <2>4. CASE SettleSlip(a)
    BY <2>4, SettleSlipStep
  <2>5. CASE SessionExpires(a)
    BY <2>5, SessionExpiresStep
  <2> QED BY <1>3, <2>1, <2>2, <2>3, <2>4, <2>5 DEF StripeNext
<1>4. CASE Tick
  BY <1>4, TickStep
<1> QED BY <1>1, <1>2, <1>3, <1>4 DEF Next

\* A step that changes nothing keeps the invariant.
LEMMA StutterInv ==
  ASSUME IInv, UNCHANGED vars
  PROVE  IInv' /\ CalendarMoves
<1>1. PaymentsAge /\ RentalsAge /\ SlotsKept
  BY DEF vars, PaymentsAge, RentalsAge, SlotsKept, SameSlot, Occupies, Held, Exists
<1>2. TypeOK' /\ SessionsOfAttempts' /\ WorkersOnAttempts'
  BY <1>1, UnmovedRefs DEF IInv, TypeOK, vars
<1> QED BY <1>1, <1>2, AgeingKeeps DEF CalendarMoves

\* The inductive invariant holds of every reachable state.
THEOREM Invariance == Spec => []IInv
<1>1. Init => IInv
  BY InitInv
<1>2. IInv /\ [Next]_vars => IInv'
  BY NextInv, StutterInv
<1> QED BY <1>1, <1>2, PTL DEF Spec

\* Every row of every table has the type its column declares, whatever the
\* requests, the job and Stripe do, and in whatever order.
THEOREM TypeCorrect == Spec => []TypeOK
<1>1. IInv => TypeOK
  BY DEF IInv
<1> QED BY <1>1, Invariance, PTL

\* No machine is promised twice, for any number of listings, rentals, attempts
\* and threads, and any lengths of holds, sessions and notices.
THEOREM MachinesAreNeverDoubleBooked == Spec => []NoDoubleBooking
<1>1. IInv => NoDoubleBooking
  BY DEF IInv
<1> QED BY <1>1, Invariance, PTL

\* A rental has one attempt in flight at most.
THEOREM AttemptsAreSerial == Spec => []OneLiveAttempt
<1>1. IInv => OneLiveAttempt
  BY DEF IInv
<1> QED BY <1>1, Invariance, PTL

\* A late answer finds the very hold it is about to write.
THEOREM LateAnswersMoveNoHold == Spec => []HoldCoversAttempt
<1>1. IInv => HoldCoversAttempt
  BY DEF IInv
<1> QED BY <1>1, Invariance, PTL

(***************************************************************************)
(* The refinement: Checkout implements MachineCalendar.                    *)
(***************************************************************************)
\* To keep one's slots is to release those of the rentals that end or lapse.
LEMMA KeptIsReleased ==
  ASSUME SlotsKept
  PROVE  \E gone \in SUBSET Rentals : Calendar!Release(gone)
<1> DEFINE gone == {r \in Rentals : ~Occupies(r)'}
<1>1. Calendar!Release(gone)
  BY DEF SlotsKept, SameSlot, Booked, Calendar!Release
<1> QED BY <1>1

\* To take a free period is to take that slot, if the hold is not over already.
LEMMA TakenIsTaken ==
  ASSUME TypeOK', NEW r \in Rentals, SlotTaken(r)
  PROVE  Calendar!Next
<1>1. CASE ~Occupies(r)'
  <2>1. SlotsKept
    BY <1>1 DEF SlotsKept, SlotTaken
  <2> QED BY <2>1, KeptIsReleased DEF Calendar!Next
<1>2. CASE Occupies(r)'
  <2> DEFINE slot == [machine |-> MachineOf[rental'[r].posting], period |-> rental'[r].period]
  <2>1. slot \in Calendar!Slots
    BY DEF TypeOK, RentalRow, Calendar!Slots, Machines
  <2>2. Booked' = [Booked EXCEPT ![r] = slot]
    BY <1>2 DEF Booked, SlotTaken, SameSlot
  <2>3. \A s \in Rentals \ {r} : Booked[s] # NoRental => ~Calendar!Clash(Booked[s], slot)
    BY DEF Booked, SlotTaken, Conflict, Calendar!Clash, Overlap, Calendar!Overlap
  <2>4. Calendar!Take(r, slot)
    BY <2>2, <2>3 DEF Calendar!Take
  <2> QED BY <2>1, <2>4 DEF Calendar!Next
<1> QED BY <1>1, <1>2

\* The bookings of Checkout are a calendar: every step, a crash or a late
\* webhook included, releases periods or takes one that is free.
THEOREM ImplementsTheCalendar == Spec => ImplementsCalendar
<1>1. Init => Calendar!Init
  BY DEF Init, Calendar!Init, Booked, Occupies
<1>2. IInv /\ IInv' /\ [Next]_vars => [Calendar!Next]_Booked
  <2> SUFFICES ASSUME IInv, IInv', [Next]_vars PROVE Calendar!Next
    OBVIOUS
  <2>1. CalendarMoves
    BY NextInv, StutterInv
  <2> QED BY <2>1, KeptIsReleased, TakenIsTaken DEF CalendarMoves, IInv, Calendar!Next
<1> QED BY <1>1, <1>2, Invariance, PTL DEF Spec, ImplementsCalendar, Calendar!Spec

-----------------------------------------------------------------------------
(***************************************************************************)
(* What becomes of the money and of the terms.                             *)
(*                                                                         *)
(* Each property needs to be told what holds before it can be violated: an *)
(* unpaid rental has no approved payment and no frozen terms, only         *)
(* received money is owed back, a thread that will write an attempt off    *)
(* has seen its session over.  Books is their conjunction; the rows it     *)
(* speaks of are those IInv says there are.                                *)
(***************************************************************************)
UNPAID == PROVISIONAL \cup {"none"}

Approved(r) == PaymentsIn(r, {"approved"})

UnpaidHasNoMoney == \A r \in Rentals : rental[r].status \in UNPAID => Approved(r) = {}

UnpaidHasNoTerms == \A r \in Rentals : rental[r].status \in UNPAID => rental[r].terms = {}

OwedIsReceived == \A a \in Attempts : payment[a].refund # "none" => payment[a].status = "approved"

\* A payment that came or failed left its session complete.
PaidIsComplete == \A a \in Attempts : session[a].money # "unpaid" => session[a].status = "complete"

WriteOffsAreSeen ==
  \A w \in Workers : worker[w].pc = "expired" => session[worker[w].attempt].status = "expired"

\* Without moderation nothing but a cancellation ends a paid rental.
NobodyIsModerated ==
  Moderation = {} => (\A r \in Rentals : marked[r] = "no") /\ CancelledMoneyIsOwed

Money  == UnpaidHasNoMoney /\ ConfirmedPaidOnce
Frozen == UnpaidHasNoTerms /\ SignedTermsAreCurrent
Closed == PaidIsComplete /\ WriteOffsAreSeen /\ ExpiredTakesNoMoney

Books == Money /\ Frozen /\ Closed /\ OwedIsReceived /\ NobodyIsModerated

USE DEF OCCUPYING, PROVISIONAL, PAID, LIVE, OPEN_PAYMENT_STATUSES, UNPAID

\* The action of OutcomesAreFinal.
Final ==
  /\ \A a \in Attempts :
       /\ payment[a].status = "approved" => payment'[a].status = "approved"
       /\ payment[a].status = "requires_review" =>
            \/ payment'[a].status = "requires_review"
            \/ payment'[a].status = "approved" /\ payment'[a].refund = "full"
       /\ payment[a].refund # "none" => payment'[a].refund = payment[a].refund
  /\ \A r \in Rentals :
       rental[r].status = "cancelled" => rental'[r].status = "cancelled"

(***************************************************************************)
(* What most steps leave as it was.                                        *)
(***************************************************************************)
\* No money is received, no obligation made, and no rental paid or brought back.
MoneyStays ==
  /\ \A a \in Attempts :
       /\ payment'[a].status = "approved" <=> payment[a].status = "approved"
       /\ payment[a].status = "requires_review" => payment'[a].status = "requires_review"
       /\ payment'[a].refund = payment[a].refund
       /\ payment[a].status = "approved" => payment'[a].rental = payment[a].rental
  /\ \A r \in Rentals :
       /\ rental'[r].status \in OCCUPYING => rental[r].status \in OCCUPYING
       /\ rental'[r].status \in UNPAID => rental[r].status \in UNPAID
       /\ rental[r].status = "cancelled" => rental'[r].status = "cancelled"

\* The terms of a rental that is paid stay with it.
TermsStay ==
  \A r \in Rentals :
     /\ rental'[r].terms = rental[r].terms
     /\ rental'[r].status \in UNPAID => rental[r].status \in UNPAID
     /\ rental'[r].status \in OCCUPYING =>
          /\ rental[r].status \in OCCUPYING
          /\ rental'[r].period = rental[r].period /\ rental'[r].total = rental[r].total

\* What is over at Stripe stays so, and nothing is written off.
OverStays ==
  \A a \in Attempts :
     /\ session[a].status = "expired" => session'[a].status = "expired"
     /\ session[a].money = "failed" => session'[a].money = "failed"
     /\ session'[a] = session[a] \/ (session[a].status # "complete" /\ session'[a].money = session[a].money)

NoWriteOff ==
  /\ \A a \in Attempts : payment'[a].status = "expired" => payment[a].status = "expired"
  /\ \A w \in Workers : worker'[w] = worker[w] \/ worker'[w].pc # "expired"

\* Only a cancellation cancels what is paid, and only a moderator marks a rental.
CancelsUnpaid ==
  \A r \in Rentals :
     /\ rental'[r].status = "cancelled" => rental[r].status \in UNPAID \cup {"cancelled"}
     /\ marked[r] = "no" => marked'[r] = "no"

\* Rentals on their way: made, edited or waiting for payment; signed or ended.
RentalsAdvance ==
  \A r \in Rentals :
     \/ rental'[r] = rental[r]
     \/ /\ rental[r].status \in UNPAID /\ rental'[r].status \in PROVISIONAL
        /\ rental'[r].terms = {} \/ rental'[r].terms = rental[r].terms
     \/ /\ rental[r].status \in OCCUPYING /\ rental'[r].status \in OCCUPYING
        /\ rental'[r].terms = rental[r].terms
        /\ rental'[r].period = rental[r].period /\ rental'[r].total = rental[r].total

\* Attempts on their way: made, given up, or tied to a session.
PaymentsAdvance ==
  \A a \in Attempts :
     /\ payment'[a].refund = payment[a].refund
     /\ payment'[a].status = "expired" => payment[a].status = "expired"
     /\ \/ payment'[a].status = payment[a].status /\ payment'[a].rental = payment[a].rental
        \/ /\ payment[a].status \in {"none", "creating"}
           /\ payment'[a].status \in {"creating", "pending", "failed"}

\* Rentals and attempts on their way leave the money and the terms alone.
LEMMA AdvanceStays ==
  ASSUME Books, RentalsAdvance, PaymentsAdvance
  PROVE  MoneyStays /\ TermsStay
<1>1. MoneyStays
  BY DEF RentalsAdvance, PaymentsAdvance, MoneyStays
<1>2. TermsStay
  BY DEF RentalsAdvance, TermsStay, Books, Frozen, UnpaidHasNoTerms
<1> QED BY <1>1, <1>2

\* Where no money moves, what was received, owed and confirmed stands.
LEMMA MoneyFrame == ASSUME Money, OwedIsReceived, MoneyStays PROVE Money' /\ OwedIsReceived' /\ Final
<1>1. \A r \in Rentals : Approved(r)' = Approved(r)
  BY DEF Approved, PaymentsIn, MoneyStays
<1> QED
  BY <1>1 DEF Money, UnpaidHasNoMoney, ConfirmedPaidOnce, Approved, OwedIsReceived, MoneyStays, Final

\* Where the terms stay, they are still those of the rental.
LEMMA TermsFrame == ASSUME Frozen, TermsStay PROVE Frozen'
  BY DEF Frozen, UnpaidHasNoTerms, SignedTermsAreCurrent, TermsStay

\* Where nothing is written off, what was written off stays closed.
LEMMA ClosedFrame ==
  ASSUME Closed, IInv, OverStays, NoWriteOff
  PROVE  Closed'
  BY DEF Closed, PaidIsComplete, WriteOffsAreSeen, ExpiredTakesNoMoney, OverStays, NoWriteOff, IInv, Refs,
         WorkersOnAttempts

\* Where only unpaid rentals are cancelled, nothing more is owed.
LEMMA OwedFrame ==
  ASSUME NobodyIsModerated, UnpaidHasNoMoney, IInv, MoneyStays, CancelsUnpaid
  PROVE  NobodyIsModerated'
<1>1. ASSUME Moderation = {}
      PROVE  CancelledMoneyIsOwed'
  <2> SUFFICES ASSUME NEW a \in Attempts, payment'[a].status = "approved",
                      rental'[payment'[a].rental].status = "cancelled"
               PROVE  payment'[a].refund # "none"
    BY DEF CancelledMoneyIsOwed
  <2>1. payment[a].status = "approved" /\ payment'[a].rental = payment[a].rental
    BY DEF MoneyStays
  <2>2. payment[a].rental \in Rentals
    BY <2>1 DEF IInv, Refs, AttemptsOfRentals, Exists
  <2>3. rental[payment[a].rental].status \notin UNPAID
    BY <2>1, <2>2 DEF UnpaidHasNoMoney, Approved, PaymentsIn
  <2>4. rental[payment[a].rental].status = "cancelled"
    BY <2>1, <2>2, <2>3 DEF CancelsUnpaid
  <2> QED BY <1>1, <2>1, <2>4 DEF NobodyIsModerated, CancelledMoneyIsOwed, MoneyStays
<1>2. ASSUME Moderation = {}
      PROVE  \A r \in Rentals : marked'[r] = "no"
  BY <1>2 DEF NobodyIsModerated, CancelsUnpaid
<1> QED BY <1>1, <1>2 DEF NobodyIsModerated

\* A step that does none of this keeps the books.
LEMMA QuietKeeps ==
  ASSUME IInv, Books, MoneyStays, TermsStay, OverStays, NoWriteOff, CancelsUnpaid
  PROVE  Books' /\ Final
  BY MoneyFrame, TermsFrame, ClosedFrame, OwedFrame DEF Books, Money

-----------------------------------------------------------------------------
(***************************************************************************)
(* One lemma per kind of step.                                             *)
(***************************************************************************)
\* Bookings that nobody has paid for, signatures, and what is over.
LEMMA BookingSteps ==
  ASSUME IInv, Books, NEW r \in Rentals,
         \/ \E posting \in Postings, period \in Periods, quote \in Prices :
              CreateRental(r, posting, period, quote)
         \/ \E period \in Periods, quote \in Prices : UpdateRental(r, period, quote)
         \/ CompleteRental(r) \/ SignContract(r) \/ ResumeCheckout(r) \/ CancelRolledBack(r)
  PROVE  Books' /\ Final
<1>1. UNCHANGED <<payment, worker, marked>>
  BY DEF CreateRental, UpdateRental, CompleteRental, SignContract, ResumeCheckout, CancelRolledBack
<1>2. RentalsAdvance
  <2>1. ASSUME NEW posting \in Postings, NEW period \in Periods, NEW quote \in Prices,
               CreateRental(r, posting, period, quote)
        PROVE  RentalsAdvance
    BY <2>1 DEF IInv, TypeOK, RentalsAdvance, CreateRental
  <2>2. ASSUME NEW period \in Periods, NEW quote \in Prices, UpdateRental(r, period, quote)
        PROVE  RentalsAdvance
    BY <2>2 DEF IInv, TypeOK, RentalRow, RentalsAdvance, UpdateRental
  <2>3. CASE CompleteRental(r)
    BY <2>3 DEF IInv, TypeOK, RentalRow, RentalsAdvance, CompleteRental
  <2>4. CASE SignContract(r)
    BY <2>4 DEF IInv, TypeOK, RentalRow, RentalsAdvance, SignContract
  <2>5. CASE ResumeCheckout(r)
    <3>1. PICK total, expires : AwaitPayment(r, total, expires)
      BY <2>5 DEF ResumeCheckout
    <3>2. /\ \A s \in Rentals \ {r} : rental'[s] = rental[s]
          /\ rental'[r].status = "awaiting_payment" /\ rental'[r].terms = rental[r].terms
      BY <3>1 DEF IInv, TypeOK, RentalRow, AwaitPayment
    <3>3. rental[r].status \in PROVISIONAL
      BY <2>5 DEF ResumeCheckout, MayPay
    <3> QED BY <3>2, <3>3 DEF RentalsAdvance
  <2>6. CASE CancelRolledBack(r)
    BY <2>6 DEF RentalsAdvance, CancelRolledBack
  <2> QED BY <2>1, <2>2, <2>3, <2>4, <2>5, <2>6
<1>3. PaymentsAdvance /\ NoWriteOff
  BY <1>1 DEF PaymentsAdvance, NoWriteOff
<1>4. OverStays
  BY ZenonT(60) DEF IInv, TypeOK, Session, OverStays, CreateRental, UpdateRental, CompleteRental, SignContract,
         ResumeCheckout, CancelRolledBack
<1>5. CancelsUnpaid
  BY <1>1, <1>2 DEF RentalsAdvance, CancelsUnpaid
<1> QED BY <1>2, <1>3, <1>4, <1>5, AdvanceStays, QuietKeeps

\* An amendment freezes the new dates with the price of before.
LEMMA AmendmentStep ==
  ASSUME IInv, Books, NEW r \in Rentals, NEW period \in Periods, AcceptAmendment(r, period)
  PROVE  Books' /\ Final
<1>1. MoneyStays /\ OverStays /\ NoWriteOff /\ CancelsUnpaid
  BY DEF IInv, TypeOK, RentalRow, MoneyStays, OverStays, NoWriteOff, CancelsUnpaid, AcceptAmendment
<1>2. rental[r].terms = {[period |-> rental[r].period, total |-> rental[r].total]}
  BY DEF AcceptAmendment, Books, Frozen, SignedTermsAreCurrent
<1>3. Refreeze(rental[r].terms, period) = {[period |-> period, total |-> rental[r].total]}
  BY <1>2 DEF Refreeze
<1>4. /\ rental'[r].terms = {[period |-> rental'[r].period, total |-> rental'[r].total]}
      /\ rental'[r].status = "active"
      /\ \A s \in Rentals \ {r} : rental'[s] = rental[s]
  BY <1>3 DEF IInv, TypeOK, RentalRow, AcceptAmendment
<1>5. Frozen'
  BY <1>4 DEF Books, Frozen, UnpaidHasNoTerms, SignedTermsAreCurrent
<1> QED BY <1>1, <1>5, MoneyFrame, ClosedFrame, OwedFrame DEF Books, Money

\* A checkout writes off only attempts whose session is over.
LEMMA CheckoutSteps ==
  ASSUME IInv, Books, NEW w \in Workers, NEW r \in Rentals, NEW quote \in Prices,
         ReuseAttempt(w, r, quote) \/ \E b \in Attempts : NewAttempt(w, r, b, quote)
  PROVE  Books' /\ Final
<1>0. PICK b \in Attempts \cup {NoAttempt} :
         /\ \E total : payment' = AfterPrepare(r, b, total)
         /\ b # NoAttempt => payment[b].status = "none"
  BY DEF ReuseAttempt, NewAttempt
<1>1. PICK total :
         /\ payment' = AfterPrepare(r, b, total) /\ PreviousExpired(r)
         /\ b # NoAttempt => payment[b].status = "none"
         /\ UNCHANGED <<session, marked>>
  BY <1>0 DEF ReuseAttempt, NewAttempt
<1>2. /\ \A s \in Rentals \ {r} : rental'[s] = rental[s]
      /\ rental[r].status \in PROVISIONAL /\ rental'[r].status = "awaiting_payment"
      /\ rental'[r].terms = rental[r].terms
  BY DEF IInv, TypeOK, RentalRow, ReuseAttempt, NewAttempt, AwaitPayment, MayPay
<1>3. \A a \in Attempts : payment[a].status = "none" => payment[a].refund = "none"
  BY DEF Books, OwedIsReceived
<1>4. \A a \in Attempts :
        \/ payment'[a] = payment[a]
        \/ /\ payment[a].status \in {"none", "creating"} /\ payment'[a].refund = payment[a].refund
           /\ payment'[a].status \in {"creating", "failed"}
        \/ /\ payment[a].status = "pending" /\ session[a].status = "expired"
           /\ payment'[a].refund = payment[a].refund /\ payment'[a].status = "expired"
  <2> SUFFICES ASSUME NEW a \in Attempts
               PROVE  \/ payment'[a] = payment[a]
                      \/ /\ payment[a].status \in {"none", "creating"} /\ payment'[a].refund = payment[a].refund
                         /\ payment'[a].status \in {"creating", "failed"}
                      \/ /\ payment[a].status = "pending" /\ session[a].status = "expired"
                         /\ payment'[a].refund = payment[a].refund /\ payment'[a].status = "expired"
    OBVIOUS
  <2>1. payment[a] \in PaymentRow
    BY DEF IInv, TypeOK
  <2>2. CASE a = b
    BY <1>1, <1>3, <2>2, AttemptsAssumption DEF AfterPrepare
  <2>3. CASE a # b /\ a \in PaymentsIn(r, {"pending"})
    BY <1>1, <2>1, <2>3 DEF AfterPrepare, PaymentsIn, PreviousExpired, PaymentRow
  <2>4. CASE a # b /\ a \notin PaymentsIn(r, {"pending"})
    BY <1>1, <2>1, <2>4 DEF AfterPrepare, PaymentsIn, PaymentRow
  <2> QED BY <2>2, <2>3, <2>4
<1>5. MoneyStays
  BY <1>2, <1>4 DEF MoneyStays
<1>6. TermsStay /\ CancelsUnpaid
  BY <1>1, <1>2 DEF TermsStay, CancelsUnpaid
<1>7. \A v \in Workers : worker'[v] = worker[v] \/ worker'[v].pc # "expired"
  BY DEF IInv, TypeOK, ReuseAttempt, NewAttempt
<1>8. Closed'
  BY <1>1, <1>4, <1>7 DEF Books, Closed, PaidIsComplete, WriteOffsAreSeen, ExpiredTakesNoMoney, IInv, Refs,
         WorkersOnAttempts
<1> QED BY <1>5, <1>6, <1>8, MoneyFrame, TermsFrame, OwedFrame DEF Books, Money

\* Calls to Stripe, their answers, the job's reads, and deaths.
LEMMA CallSteps ==
  ASSUME IInv, Books, NEW w \in Workers,
         \/ StripeCreates(w) \/ StripeDoesNotCreate(w) \/ AttemptFailed(w) \/ AttachSession(w) \/ Crash(w)
         \/ \E a \in Attempts : ReconcileCreating(w, a)
  PROVE  Books' /\ Final
<1>1. worker[w].pc # "idle" => worker[w].attempt \in Attempts
  BY DEF IInv, Refs, WorkersOnAttempts
<1>2. RentalsAdvance
  <2>1. CASE AttemptFailed(w)
    BY <2>1, ZenonT(60) DEF IInv, TypeOK, RentalRow, RentalsAdvance, AttemptFailed
  <2>2. CASE AttachSession(w)
    <3> DEFINE a == worker[w].attempt
               r == payment[a].rental
    <3>1. a \in Attempts /\ r \in Rentals /\ rental[r].status # "none"
      BY <1>1, <2>2 DEF AttachSession, IInv, Refs, WorkersOnAttempts, AttemptsOfRentals
    <3>2. CASE UNCHANGED rental
      BY <3>2 DEF RentalsAdvance
    <3>3. CASE rental' = [rental EXCEPT ![r].hold = payment[a].expires,
                                        ![r].status = IF @ = "pending" THEN "awaiting_payment" ELSE @]
      <4>1. /\ \A s \in Rentals \ {r} : rental'[s] = rental[s]
            /\ rental'[r].status = IF rental[r].status = "pending" THEN "awaiting_payment" ELSE rental[r].status
            /\ rental'[r].terms = rental[r].terms
            /\ rental'[r].period = rental[r].period /\ rental'[r].total = rental[r].total
        <5>1. rental \in [Rentals -> RentalRow]
          BY DEF IInv, TypeOK
        <5> HIDE DEF r
        <5>2. rental' = [rental EXCEPT ![r] =
                [@ EXCEPT !.hold = payment[a].expires,
                          !.status = IF rental[r].status = "pending" THEN "awaiting_payment" ELSE rental[r].status]]
          BY <3>1, <3>3, <5>1 DEF RentalRow
        <5> QED BY <3>1, <5>1, <5>2 DEF RentalRow
      <4>2. rental[r].status \in PROVISIONAL \cup OCCUPYING \/ rental[r].status = "cancelled"
        BY <3>1 DEF IInv, TypeOK, RentalRow
      <4>3. rental[r].status # "cancelled" \/ UNCHANGED rental
        BY <2>2 DEF AttachSession
      <4> HIDE DEF r
      <4> QED BY <3>1, <3>2, <4>1, <4>2, <4>3 DEF RentalsAdvance
    <3> QED BY <2>2, <3>2, <3>3, ZenonT(60) DEF AttachSession
  <2> QED BY <2>1, <2>2, SMTT(30) DEF RentalsAdvance, StripeCreates, StripeDoesNotCreate, Crash, ReconcileCreating
<1>3. PaymentsAdvance
  <2>1. CASE AttemptFailed(w)
    BY <1>1, <2>1 DEF IInv, TypeOK, PaymentRow, PaymentsAdvance, AttemptFailed
  <2>2. CASE AttachSession(w)
    <3> DEFINE a == worker[w].attempt
    <3>1. a \in Attempts /\ payment[a] \in PaymentRow /\ payment \in [Attempts -> PaymentRow]
      BY <1>1, <2>2 DEF AttachSession, IInv, TypeOK
    <3> DEFINE tied == Known(Followed(payment[a]), a)
    <3>2. payment' = [payment EXCEPT ![a] = tied]
      BY <2>2 DEF AttachSession
    <3>4. /\ tied.refund = payment[a].refund
          /\ tied.status = IF payment[a].status = "creating" THEN "pending" ELSE payment[a].status
          /\ tied.rental = payment[a].rental
      BY <3>1, FollowedKeeps
    <3> HIDE DEF tied
    <3>3. /\ \A b \in Attempts \ {a} : payment'[b] = payment[b]
          /\ payment'[a] = tied
      BY <3>1, <3>2
    <3> QED BY <3>3, <3>4, SMTT(30) DEF PaymentsAdvance
  <2> QED BY <2>1, <2>2 DEF PaymentsAdvance, StripeCreates, StripeDoesNotCreate, Crash, ReconcileCreating
<1>4. OverStays
  <2>1. CASE StripeCreates(w)
    <3> DEFINE a == worker[w].attempt
    <3>1. a \in Attempts /\ session \in [Attempts -> Session]
      BY <1>1, <2>1 DEF StripeCreates, IInv, TypeOK
    <3>2. \/ UNCHANGED session
          \/ session[a].status = "none" /\ session' = [session EXCEPT ![a].status = "open"]
      BY <2>1 DEF StripeCreates
    <3>3. CASE UNCHANGED session
      BY <3>3 DEF OverStays
    <3>4. CASE session[a].status = "none" /\ session' = [session EXCEPT ![a].status = "open"]
      <4>1. /\ \A b \in Attempts \ {a} : session'[b] = session[b]
            /\ session'[a].money = session[a].money
        BY <3>1, <3>4 DEF Session
      <4> HIDE DEF a
      <4> QED BY <3>1, <3>4, <4>1 DEF OverStays
    <3> QED BY <3>2, <3>3, <3>4
  <2> QED BY <2>1 DEF OverStays, StripeDoesNotCreate, AttemptFailed, AttachSession, Crash, ReconcileCreating
<1>5. \A v \in Workers : worker'[v] = worker[v] \/ worker'[v].pc # "expired"
  <2>1. worker \in [Workers -> Worker]
    BY DEF IInv, TypeOK
  <2>2. ASSUME NEW pc \in PCs \ {"expired"}, Goto(w, pc)
        PROVE  \A v \in Workers : worker'[v] = worker[v] \/ worker'[v].pc # "expired"
    BY <2>1, <2>2 DEF Goto, Worker
  <2>3. CASE Finish(w)
    BY <2>1, <2>3 DEF Finish, Idle
  <2>4. CASE \E a \in Attempts : ReconcileCreating(w, a)
    BY <2>1, <2>4, SMTT(30) DEF ReconcileCreating
  <2>5. CASE Close(w)
    BY <2>1, <2>5 DEF Close, Worker
  <2>6. Goto(w, "close") \/ Goto(w, "attach") \/ Goto(w, "lost") \/ Goto(w, "refused") \/ Close(w)
        \/ Finish(w) \/ \E a \in Attempts : ReconcileCreating(w, a)
    BY DEF StripeCreates, StripeDoesNotCreate, AttemptFailed, AttachSession, Crash
  <2> QED BY <2>2, <2>3, <2>4, <2>5, <2>6 DEF PCs
<1>6. NoWriteOff
  BY <1>3, <1>5 DEF NoWriteOff, PaymentsAdvance
<1>7. CancelsUnpaid
  <2>1. UNCHANGED marked
    BY DEF StripeCreates, StripeDoesNotCreate, AttemptFailed, AttachSession, Crash, ReconcileCreating
  <2> QED BY <1>2, <2>1, SMTT(30) DEF CancelsUnpaid, RentalsAdvance
<1> QED BY <1>2, <1>3, <1>4, <1>6, <1>7, AdvanceStays, QuietKeeps

\* A thread that is told to write an attempt off has seen its session over.
LEMMA OutcomeSteps ==
  ASSUME IInv, Books, NEW w \in Workers,
         CloseSession(w) \/ \E a \in Attempts : ReconcilePending(w, a)
  PROVE  Books' /\ Final
<1>1. UNCHANGED <<payment, rental, marked>>
  BY DEF CloseSession, ReconcilePending
<1>2. RentalsAdvance /\ PaymentsAdvance /\ CancelsUnpaid
  BY <1>1 DEF RentalsAdvance, PaymentsAdvance, CancelsUnpaid
<1>3. OverStays
  BY DEF IInv, TypeOK, Session, OverStays, CloseSession, ReconcilePending
<1>4. \A v \in Workers : worker'[v].pc = "expired" => session'[worker'[v].attempt].status = "expired"
  <2>1. \A v \in Workers \ {w} : worker'[v] = worker[v]
    BY DEF IInv, TypeOK, CloseSession, ReconcilePending, Goto, Finish
  <2>2. \A v \in Workers : worker[v].pc = "expired" => worker[v].attempt \in Attempts
    BY DEF IInv, Refs, WorkersOnAttempts
  <2>3. worker'[w].pc = "expired" => session'[worker'[w].attempt].status = "expired"
    <3>1. CASE \E a \in Attempts : ReconcilePending(w, a)
      BY <3>1 DEF IInv, TypeOK, ReconcilePending, Outcome
    <3>2. CASE CloseSession(w)
      <4>1. worker[w].attempt \in Attempts /\ worker \in [Workers -> Worker] /\ session \in [Attempts -> Session]
        BY <3>2 DEF CloseSession, IInv, TypeOK, Refs, WorkersOnAttempts
      <4>2. CASE Finish(w)
        BY <4>1, <4>2 DEF Finish, Idle
      <4>3. ASSUME Goto(w, "expired"), session' = [session EXCEPT ![worker[w].attempt].status = "expired"]
            PROVE  worker'[w].pc = "expired" => session'[worker'[w].attempt].status = "expired"
        BY <4>1, <4>3 DEF Goto, Worker, Session
      <4>4. ASSUME Goto(w, Outcome(worker[w].attempt)), UNCHANGED session
            PROVE  worker'[w].pc = "expired" => session'[worker'[w].attempt].status = "expired"
        BY <4>1, <4>4 DEF Goto, Worker, Outcome
      <4> QED BY <3>2, <4>2, <4>3, <4>4 DEF CloseSession
    <3> QED BY <3>1, <3>2
  <2> QED BY <1>3, <2>1, <2>2, <2>3 DEF Books, Closed, PaidIsComplete, WriteOffsAreSeen, OverStays
<1>5. Closed'
  BY <1>1, <1>3, <1>4 DEF Books, Closed, PaidIsComplete, WriteOffsAreSeen, ExpiredTakesNoMoney, OverStays
<1> QED BY <1>2, <1>5, AdvanceStays, MoneyFrame, TermsFrame, OwedFrame DEF Books, Money

\* What the steps of an event leave alone.
Elsewhere == /\ UNCHANGED <<session, marked>>
             /\ \A v \in Workers : worker'[v] = worker[v] \/ worker'[v].pc # "expired"

\* A payment arrives: it confirms an unpaid rental, is owed back by a cancelled
\* one, and waits for a person otherwise.
LEMMA ApproveKeeps ==
  ASSUME IInv, Books, NEW a \in Attempts, Exists(a), Approve(a), Elsewhere
  PROVE  Books' /\ Final
<1>1. PICK r \in Rentals : payment[a].rental = r
  BY DEF IInv, Refs, AttemptsOfRentals
<1>2. payment \in [Attempts -> PaymentRow] /\ rental \in [Rentals -> RentalRow]
  BY DEF IInv, TypeOK
<1>3. OverStays
  BY DEF OverStays, Elsewhere
<1>4. ASSUME Receive(a, payment[a].status), UNCHANGED rental
      PROVE  Books' /\ Final
  <2>1. \A b \in Attempts : /\ payment'[b].status = payment[b].status /\ payment'[b].refund = payment[b].refund
                           /\ payment'[b].rental = payment[b].rental
    BY <1>2, <1>4 DEF Receive, Known, PaymentRow
  <2>2. RentalsAdvance /\ PaymentsAdvance /\ NoWriteOff /\ CancelsUnpaid
    BY <1>4, <2>1 DEF RentalsAdvance, PaymentsAdvance, NoWriteOff, CancelsUnpaid, Elsewhere
  <2> QED BY <1>3, <2>2, AdvanceStays, QuietKeeps
<1>5. ASSUME ~Recorded(a), Receive(a, "requires_review"), UNCHANGED rental
      PROVE  Books' /\ Final
  <2>1. /\ \A b \in Attempts \ {a} : payment'[b] = payment[b]
        /\ payment'[a].status = "requires_review" /\ payment'[a].refund = payment[a].refund
        /\ payment[a].status \notin {"approved", "requires_review"}
    BY <1>2, <1>5 DEF Receive, Known, PaymentRow, Recorded
  <2>2. MoneyStays /\ TermsStay /\ NoWriteOff /\ CancelsUnpaid
    BY <1>5, <2>1 DEF MoneyStays, TermsStay, NoWriteOff, CancelsUnpaid, Elsewhere
  <2> QED BY <1>3, <2>2, QuietKeeps
<1>6. ASSUME rental[r].status = "cancelled", UNCHANGED rental,
             payment' = [payment EXCEPT ![a] = Owed(Known([@ EXCEPT !.status = "approved"], a), "full")]
      PROVE  Books' /\ Final
  <2>1. /\ \A b \in Attempts \ {a} : payment'[b] = payment[b]
        /\ payment'[a].status = "approved" /\ payment'[a].rental = r
        /\ payment'[a].refund = IF payment[a].refund = "none" THEN "full" ELSE payment[a].refund
    BY <1>1, <1>2, <1>6 DEF Owed, Known, PaymentRow
  <2>2. Final /\ OwedIsReceived'
    BY <1>6, <2>1 DEF Final, Books, OwedIsReceived
  <2>3. \A s \in Rentals \ {r} : Approved(s)' = Approved(s)
    BY <1>1, <2>1 DEF Approved, PaymentsIn
  <2>4. Money'
    BY <1>6, <2>3 DEF Books, Money, UnpaidHasNoMoney, ConfirmedPaidOnce, Approved
  <2>5. TermsStay /\ NoWriteOff
    BY <1>6, <2>1 DEF TermsStay, NoWriteOff, Elsewhere
  <2>6. NobodyIsModerated'
    <3>1. payment'[a].refund # "none"
      BY <2>1
    <3> QED BY <1>6, <2>1, <3>1 DEF Books, NobodyIsModerated, CancelledMoneyIsOwed, Elsewhere
  <2> QED BY <1>3, <2>2, <2>4, <2>5, <2>6, TermsFrame, ClosedFrame DEF Books
<1>7. ASSUME ~Recorded(a), Bookable(r), Receive(a, "approved"), Confirm(r)
      PROVE  Books' /\ Final
  <2>1. /\ \A b \in Attempts \ {a} : payment'[b] = payment[b]
        /\ payment'[a].status = "approved" /\ payment'[a].rental = r
        /\ payment'[a].refund = payment[a].refund
        /\ payment[a].status \notin {"approved", "requires_review"}
    BY <1>1, <1>2, <1>7 DEF Receive, Known, PaymentRow, Recorded
  <2>2. rental[r].status \in PROVISIONAL /\ rental[r].terms = {} /\ Approved(r) = {}
    BY <1>1, <1>7 DEF Bookable, Books, Frozen, Money, UnpaidHasNoMoney, UnpaidHasNoTerms
  <2>3. /\ \A s \in Rentals \ {r} : rental'[s] = rental[s]
        /\ rental'[r].status = "active"
        /\ rental'[r].terms = {[period |-> rental'[r].period, total |-> rental'[r].total]}
    <3> QED BY <1>2, <1>7, <2>2 DEF Confirm, RentalRow
  <2>4. Final /\ OwedIsReceived'
    BY <2>1, <2>2, <2>3 DEF Final, Books, OwedIsReceived
  <2>5. Approved(r)' = {a} /\ \A s \in Rentals \ {r} : Approved(s)' = Approved(s)
    BY <2>1, <2>2 DEF Approved, PaymentsIn
  <2>6. Money'
    BY <2>3, <2>5 DEF Books, Money, UnpaidHasNoMoney, ConfirmedPaidOnce, Approved
  <2>7. Frozen'
    BY <2>3 DEF Books, Frozen, UnpaidHasNoTerms, SignedTermsAreCurrent
  <2>8. NoWriteOff
    BY <2>1 DEF NoWriteOff, Elsewhere
  <2>9. NobodyIsModerated'
    <3>1. \A b \in Attempts \ {a} : Exists(b) => payment[b].rental \in Rentals
      BY DEF IInv, Refs, AttemptsOfRentals
    <3> QED BY <2>1, <2>3, <3>1 DEF Books, NobodyIsModerated, CancelledMoneyIsOwed, Elsewhere, Exists
  <2> QED BY <1>3, <2>4, <2>6, <2>7, <2>8, <2>9, ClosedFrame DEF Books
<1> QED BY <1>1, <1>4, <1>5, <1>6, <1>7 DEF Approve

\* An attempt is written off when its session is over, with the rental that waited for it.
LEMMA ExpireKeeps ==
  ASSUME IInv, Books, NEW a \in Attempts, Exists(a), Expire(a), Elsewhere,
         session[a].status = "expired" \/ session[a].money = "failed"
  PROVE  Books' /\ Final
<1>0. PICK r \in Rentals : payment[a].rental = r
  BY DEF IInv, Refs, AttemptsOfRentals
<1>1. payment \in [Attempts -> PaymentRow] /\ rental \in [Rentals -> RentalRow]
  BY DEF IInv, TypeOK
<1>2. \/ UNCHANGED payment
      \/ /\ \A b \in Attempts \ {a} : payment'[b] = payment[b]
         /\ payment[a].status \in LIVE /\ payment'[a].status = "expired"
         /\ payment'[a].refund = payment[a].refund
  <2> DEFINE gone == Known([payment[a] EXCEPT !.status = "expired"], a)
  <2>1. gone.status = "expired" /\ gone.refund = payment[a].refund
    BY <1>1, GoneKeeps
  <2> HIDE DEF gone
  <2>2. UNCHANGED payment \/ (payment[a].status \in LIVE /\ payment' = [payment EXCEPT ![a] = gone])
    BY DEF Expire, gone
  <2> QED BY <1>1, <2>1, <2>2
<1>3. \/ UNCHANGED rental
      \/ /\ \A s \in Rentals \ {r} : rental'[s] = rental[s]
         /\ rental[r].status = "awaiting_payment" /\ rental'[r].status = "cancelled"
         /\ rental'[r].terms = rental[r].terms
  <2>1. UNCHANGED rental \/ (rental[r].status = "awaiting_payment" /\ rental' = [rental EXCEPT ![r] = Cancelled(rental[r])])
    BY <1>0 DEF Expire
  <2>2. Cancelled(rental[r]).status = "cancelled" /\ Cancelled(rental[r]).terms = rental[r].terms
    BY <1>1 DEF Cancelled, RentalRow
  <2> QED BY <1>1, <2>1, <2>2
<1>4. MoneyStays
  BY <1>2, <1>3 DEF MoneyStays
<1>5. TermsStay /\ CancelsUnpaid
  BY <1>3 DEF TermsStay, CancelsUnpaid, Elsewhere
<1>6. Closed'
  BY <1>2 DEF Books, Closed, PaidIsComplete, WriteOffsAreSeen, ExpiredTakesNoMoney, Elsewhere
<1> QED BY <1>4, <1>5, <1>6, MoneyFrame, TermsFrame, OwedFrame DEF Books, Money

\* A cancellation closes every session of the rental first, and whatever it
\* received becomes an obligation.
LEMMA CancelKeeps ==
  ASSUME IInv, Books, NEW r \in Rentals, NEW share \in {"full", "late"},
         rental[r].status \in PROVISIONAL \cup PAID, CancelEffects(r, share), UNCHANGED <<worker, marked>>
  PROVE  Books' /\ Final
<1>1. payment \in [Attempts -> PaymentRow] /\ rental \in [Rentals -> RentalRow] /\ session \in [Attempts -> Session]
  BY DEF IInv, TypeOK
<1>2. /\ \A s \in Rentals \ {r} : rental'[s] = rental[s]
      /\ rental'[r].status = "cancelled" /\ rental'[r].terms = rental[r].terms
  BY <1>1 DEF CancelEffects, RentalRow
<1>3. \A a \in PendingLinked(r) :
        /\ a \in Attempts /\ payment[a].status = "pending" /\ payment[a].rental = r
        /\ payment'[a].status = "expired" /\ payment'[a].refund = payment[a].refund
        /\ payment'[a].rental = r
  BY <1>1 DEF CancelEffects, PendingLinked, PaymentsIn, PaymentRow
<1>4. \A a \in Approved(r) :
        /\ payment[a].status = "approved" /\ payment[a].rental = r
        /\ payment'[a].status = "approved" /\ payment'[a].rental = r
        /\ payment'[a].refund = IF payment[a].refund = "none" THEN share ELSE payment[a].refund
  BY <1>1 DEF Approved, CancelEffects, PendingLinked, PaymentsIn, PaymentRow, Owed
<1>5. \A a \in Attempts : a \notin PendingLinked(r) /\ a \notin Approved(r) => payment'[a] = payment[a]
  BY DEF Approved, CancelEffects
<1>6. \A a \in Attempts :
        /\ session[a].status = "expired" => session'[a].status = "expired"
        /\ session[a].money = "failed" => session'[a].money = "failed"
        /\ session'[a] = session[a] \/ (session[a].status # "complete" /\ session'[a].money = session[a].money)
        /\ a \in PendingLinked(r) => session'[a].status = "expired"
  BY <1>1 DEF CancelEffects, Session
<1>7. \A a \in Attempts :
        /\ payment'[a].status = "approved" <=> payment[a].status = "approved"
        /\ payment'[a].rental = payment[a].rental
        /\ payment[a].status = "requires_review" => payment'[a].status = "requires_review"
        /\ payment[a].refund # "none" => payment'[a].refund = payment[a].refund
        /\ payment'[a].refund # "none" => payment[a].refund # "none" \/ payment[a].status = "approved"
        /\ payment'[a].status = "expired" => payment[a].status = "expired" \/ a \in PendingLinked(r)
  BY <1>3, <1>4, <1>5
<1>8. Final /\ OwedIsReceived'
  BY <1>2, <1>7 DEF Final, Books, OwedIsReceived
<1>9. \A s \in Rentals : Approved(s)' = Approved(s)
  BY <1>7 DEF Approved, PaymentsIn
<1>10. Money'
  BY <1>2, <1>9 DEF Books, Money, UnpaidHasNoMoney, ConfirmedPaidOnce, Approved
<1>11. TermsStay
  BY <1>2 DEF TermsStay
<1>12. Closed'
  BY <1>6, <1>7 DEF Books, Closed, PaidIsComplete, WriteOffsAreSeen, ExpiredTakesNoMoney, IInv, Refs, WorkersOnAttempts
<1>13. NobodyIsModerated'
  <2>1. ASSUME Moderation = {}, NEW a \in Attempts, payment'[a].status = "approved",
               rental'[payment'[a].rental].status = "cancelled"
        PROVE  payment'[a].refund # "none"
    <3>1. payment[a].status = "approved" /\ payment'[a].rental = payment[a].rental
      BY <1>7, <2>1
    <3>2. CASE payment[a].rental = r
      BY <1>4, <3>1, <3>2 DEF Approved, PaymentsIn
    <3>3. CASE payment[a].rental # r
      <4>1. payment[a].rental \in Rentals
        BY <3>1 DEF IInv, Refs, AttemptsOfRentals, Exists
      <4>2. rental[payment[a].rental].status = "cancelled"
        BY <1>2, <2>1, <3>1, <3>3, <4>1
      <4>3. payment[a].refund # "none"
        BY <2>1, <3>1, <4>2 DEF Books, NobodyIsModerated, CancelledMoneyIsOwed
      <4> QED BY <1>7, <4>3
    <3> QED BY <3>2, <3>3
  <2> QED BY <2>1 DEF Books, NobodyIsModerated, CancelledMoneyIsOwed
<1> QED BY <1>8, <1>10, <1>11, <1>12, <1>13, TermsFrame DEF Books

\* The tenant, the owner, an administrator, or the deadline of the signatures.
LEMMA CancelSteps ==
  ASSUME IInv, Books, NEW r \in Rentals,
         CancelUnsigned(r) \/ \E actor \in {"lessee", "owner", "admin"} : CancelRental(r, actor)
  PROVE  Books' /\ Final
<1>1. CASE CancelUnsigned(r)
  BY <1>1, CancelKeeps DEF CancelUnsigned, Unsigned
<1>2. ASSUME NEW actor, CancelRental(r, actor)
      PROVE  Books' /\ Final
  <2>1. PICK share \in {"full", "late"} : CancelEffects(r, share)
    BY <1>2 DEF CancelRental
  <2> QED BY <1>2, <2>1, CancelKeeps DEF CancelRental
<1> QED BY <1>1, <1>2

\* A moderator cancels whatever was read, but never brings a rental back.
LEMMA ModerationSteps ==
  ASSUME IInv, Books, NEW r \in Rentals,
         CancelMarked(r) \/ \E kind \in Moderation : ReadRentals(r, kind)
  PROVE  Books' /\ Final
<1>1. Moderation # {}
  BY DEF CancelMarked, Books, NobodyIsModerated
<1>2. /\ \A s \in Rentals \ {r} : rental'[s] = rental[s]
      /\ rental'[r] = rental[r] \/ (rental'[r].status = "cancelled" /\ rental'[r].terms = rental[r].terms)
  <2>1. rental \in [Rentals -> RentalRow]
    BY DEF IInv, TypeOK
  <2>2. Cancelled(rental[r]).status = "cancelled" /\ Cancelled(rental[r]).terms = rental[r].terms
    BY <2>1 DEF Cancelled, RentalRow
  <2> QED BY <2>1, <2>2 DEF CancelMarked, ReadRentals
<1>3. UNCHANGED <<payment, session, worker>>
  BY DEF CancelMarked, ReadRentals
<1>4. MoneyStays /\ TermsStay /\ OverStays /\ NoWriteOff
  BY <1>2, <1>3 DEF MoneyStays, TermsStay, OverStays, NoWriteOff
<1> QED BY <1>1, <1>4, MoneyFrame, TermsFrame, ClosedFrame DEF Books, Money, NobodyIsModerated

\* Whichever of the two it is, the row found is the attempt's own, or none is.
LEMMA SettleKeeps ==
  ASSUME IInv, Books, NEW a \in Attempts, NEW named \in {a, NoAttempt}, Exists(a), Elsewhere,
         \/ Settle(a, named, Approve)
         \/ Settle(a, named, Expire) /\ (session[a].status = "expired" \/ session[a].money = "failed")
  PROVE  Books' /\ Final
<1>1. CASE UNCHANGED <<rental, payment>>
  <2>1. RentalsAdvance /\ PaymentsAdvance /\ NoWriteOff /\ CancelsUnpaid /\ OverStays
    BY <1>1 DEF RentalsAdvance, PaymentsAdvance, NoWriteOff, CancelsUnpaid, OverStays, Elsewhere
  <2> QED BY <2>1, AdvanceStays, QuietKeeps
<1>2. CASE Approve(a)
  BY <1>2, ApproveKeeps
<1>3. CASE Expire(a) /\ (session[a].status = "expired" \/ session[a].money = "failed")
  BY <1>3, ExpireKeeps
<1> QED BY <1>1, <1>2, <1>3, FoundIsOwn DEF Settle

\* What Stripe reports to the webhook.
LEMMA WebhookSteps ==
  ASSUME IInv, Books, NEW a \in Attempts, WebhookPaid(a) \/ WebhookExpired(a)
  PROVE  Books' /\ Final
<1>1. Exists(a) /\ Elsewhere
  BY DEF WebhookPaid, WebhookExpired, Elsewhere, IInv, TypeOK, Session, Refs, SessionsOfAttempts
<1>2. CASE WebhookPaid(a)
  BY <1>1, <1>2, SettleKeeps DEF WebhookPaid
<1>3. CASE WebhookExpired(a)
  BY <1>1, <1>3, SettleKeeps DEF WebhookExpired
<1> QED BY <1>2, <1>3

\* What it reports to the job, or to a thread that closed a session.
LEMMA SettleSteps ==
  ASSUME IInv, Books, NEW w \in Workers, SettlePaid(w) \/ SettleExpired(w)
  PROVE  Books' /\ Final
<1>1. worker[w].attempt \in Attempts /\ Exists(worker[w].attempt)
  BY DEF SettlePaid, SettleExpired, IInv, Refs, WorkersOnAttempts
<1>2. Elsewhere
  BY DEF SettlePaid, SettleExpired, Finish, Idle, Elsewhere, IInv, TypeOK
<1>3. CASE SettlePaid(w)
  BY <1>1, <1>2, <1>3, SettleKeeps DEF SettlePaid, Named
<1>4. CASE SettleExpired(w)
  <2>1. session[worker[w].attempt].status = "expired"
    BY <1>4 DEF SettleExpired, Books, Closed, WriteOffsAreSeen
  <2> QED BY <1>1, <1>2, <1>4, <2>1, SettleKeeps DEF SettleExpired, Named
<1> QED BY <1>3, <1>4

\* The tenant and the clocks only move what is still open at Stripe.
LEMMA OutsideSteps ==
  ASSUME IInv, Books,
         \/ \E a \in Attempts : Pay(a) \/ SettleSlip(a) \/ SessionExpires(a)
         \/ Tick \/ UNCHANGED vars
  PROVE  Books' /\ Final
<1>1. UNCHANGED <<payment, rental, worker, marked>>
  BY DEF Pay, SettleSlip, SessionExpires, Tick, vars
<1>2. RentalsAdvance /\ PaymentsAdvance /\ NoWriteOff /\ CancelsUnpaid
  BY <1>1 DEF RentalsAdvance, PaymentsAdvance, NoWriteOff, CancelsUnpaid
<1>3. Closed'
  <2>1. \A a \in Attempts :
          \/ session'[a] = session[a]
          \/ session[a].status = "open" /\ session'[a].status = "complete"
          \/ session[a].status = "open" /\ session'[a].money = session[a].money
          \/ /\ session[a] = [status |-> "complete", money |-> "unpaid"]
             /\ session'[a].status = "complete"
    BY DEF IInv, TypeOK, Session, Pay, SettleSlip, SessionExpires, Tick, vars
  <2> QED BY <1>1, <2>1 DEF Books, Closed, PaidIsComplete, WriteOffsAreSeen, ExpiredTakesNoMoney, IInv, Refs,
         WorkersOnAttempts
<1> QED BY <1>2, <1>3, AdvanceStays, MoneyFrame, TermsFrame, OwedFrame DEF Books, Money

-----------------------------------------------------------------------------
(***************************************************************************)
(* The invariant and the theorems.                                         *)
(***************************************************************************)
\* Before anything is booked there is nothing to account for.
LEMMA InitBooks ==
  ASSUME Init
  PROVE  Books
<1>1. /\ \A r \in Rentals : rental[r].status = "none" /\ rental[r].terms = {} /\ marked[r] = "no"
      /\ \A a \in Attempts : payment[a].status = "none" /\ payment[a].refund = "none"
      /\ \A a \in Attempts : session[a].money = "unpaid"
      /\ \A w \in Workers : worker[w].pc = "idle"
  BY DEF Init, Idle
<1>2. Money /\ Frozen /\ OwedIsReceived
  BY <1>1 DEF Money, UnpaidHasNoMoney, ConfirmedPaidOnce, Frozen, UnpaidHasNoTerms, SignedTermsAreCurrent,
              OwedIsReceived, Approved, PaymentsIn
<1>3. Closed /\ NobodyIsModerated
  BY <1>1 DEF Closed, PaidIsComplete, WriteOffsAreSeen, ExpiredTakesNoMoney, NobodyIsModerated, CancelledMoneyIsOwed
<1> QED BY <1>2, <1>3 DEF Books

\* Every step keeps the books and the outcomes.
LEMMA NextBooks ==
  ASSUME IInv, Books, [Next]_vars
  PROVE  Books' /\ Final
<1>1. ASSUME NEW r \in Rentals, RentalNext(r)
      PROVE  Books' /\ Final
  <2>1. CASE \E period \in Periods : AcceptAmendment(r, period)
    BY <2>1, AmendmentStep
  <2>2. CASE CancelUnsigned(r) \/ \E actor \in {"lessee", "owner", "admin"} : CancelRental(r, actor)
    BY <2>2, CancelSteps
  <2>3. CASE CancelMarked(r) \/ \E kind \in Moderation : ReadRentals(r, kind)
    BY <2>3, ModerationSteps
  <2>4. CASE \/ \E posting \in Postings, period \in Periods, quote \in Prices :
                  CreateRental(r, posting, period, quote)
             \/ \E period \in Periods, quote \in Prices : UpdateRental(r, period, quote)
             \/ CompleteRental(r) \/ SignContract(r) \/ ResumeCheckout(r) \/ CancelRolledBack(r)
    BY <2>4, BookingSteps
  <2> QED BY <1>1, <2>1, <2>2, <2>3, <2>4 DEF RentalNext
<1>2. ASSUME NEW w \in Workers, WorkerNext(w)
      PROVE  Books' /\ Final
  <2>1. CASE \E r \in Rentals, quote \in Prices :
               ReuseAttempt(w, r, quote) \/ \E b \in Attempts : NewAttempt(w, r, b, quote)
    BY <2>1, CheckoutSteps
  <2>2. CASE CloseSession(w) \/ \E a \in Attempts : ReconcilePending(w, a)
    BY <2>2, OutcomeSteps
  <2>3. CASE SettlePaid(w) \/ SettleExpired(w)
    BY <2>3, SettleSteps
  <2>4. CASE \/ StripeCreates(w) \/ StripeDoesNotCreate(w) \/ AttemptFailed(w) \/ AttachSession(w) \/ Crash(w)
             \/ \E a \in Attempts : ReconcileCreating(w, a)
    BY <2>4, CallSteps
  <2> QED BY <1>2, <2>1, <2>2, <2>3, <2>4 DEF WorkerNext
<1>3. ASSUME NEW a \in Attempts, StripeNext(a)
      PROVE  Books' /\ Final
  <2>1. CASE WebhookPaid(a) \/ WebhookExpired(a)
    BY <2>1, WebhookSteps
  <2>2. CASE Pay(a) \/ SettleSlip(a) \/ SessionExpires(a)
    BY <2>2, OutsideSteps
  <2> QED BY <1>3, <2>1, <2>2 DEF StripeNext
<1>4. CASE Tick \/ UNCHANGED vars
  BY <1>4, OutsideSteps
<1> QED BY <1>1, <1>2, <1>3, <1>4 DEF Next

\* The books balance in every reachable state.
THEOREM BooksBalance == Spec => []Books
<1>1. Init => Books
  BY InitBooks
<1>2. IInv /\ Books /\ [Next]_vars => Books'
  BY NextBooks
<1> QED BY <1>1, <1>2, Invariance, PTL DEF Spec

\* A confirmed rental was paid for once and only once, however many attempts
\* were made and whatever order their webhooks arrive in (_approve).
THEOREM ConfirmedRentalsArePaidOnce == Spec => []ConfirmedPaidOnce
<1>1. Books => ConfirmedPaidOnce
  BY DEF Books, Money
<1> QED BY <1>1, BooksBalance, PTL

\* What the parties sign is what the rental says: payment and amendments
\* freeze it anew, and nothing else changes it (freeze_revision).
THEOREM TermsFollowTheRental == Spec => []SignedTermsAreCurrent
<1>1. Books => SignedTermsAreCurrent
  BY DEF Books, Frozen
<1> QED BY <1>1, BooksBalance, PTL

\* No attempt is written off while Stripe may still take money for it, not
\* even by a thread that decided to long before (_expire, _prepare_checkout).
THEOREM WrittenOffIsOver == Spec => []ExpiredTakesNoMoney
<1>1. Books => ExpiredTakesNoMoney
  BY DEF Books, Closed
<1> QED BY <1>1, BooksBalance, PTL

\* Late, repeated and reordered events do not undo a receipt, a refund
\* obligation or a cancellation (_approve, RefundService.request).
THEOREM OutcomesStand == Spec => OutcomesAreFinal
<1>1. IInv /\ Books /\ [Next]_vars => [Final]_vars
  BY NextBooks
<1> QED BY <1>1, BooksBalance, Invariance, PTL DEF Spec, OutcomesAreFinal, Final

\* Where no tenant is moderated, the money of a cancelled rental is owed back,
\* whether it came before the cancellation or after it.  (A moderation cancels
\* without an obligation, which is why the assumption is needed.)
THEOREM CancelledMoneyIsAlwaysOwed ==
  ASSUME Moderation = {}
  PROVE  Spec => []CancelledMoneyIsOwed
<1>1. Books => CancelledMoneyIsOwed
  BY DEF Books, NobodyIsModerated
<1> QED BY <1>1, BooksBalance, PTL
=============================================================================
