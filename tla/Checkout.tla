------------------------------ MODULE Checkout ------------------------------
(***************************************************************************)
(* From booking to money: the rentals of a set of machines, the payment    *)
(* attempts made for them, the Stripe Checkout sessions behind the         *)
(* attempts, and everything that may move them: the tenant's requests, the *)
(* webhook, the reconciliation job, cancellations and moderation.          *)
(*                                                                         *)
(* One action is one database transaction of the back end, or one call to  *)
(* Stripe, or one move of the tenant on Stripe's page.  A transaction that *)
(* takes the posting and machine row locks is serial with every other one  *)
(* on that machine, so it is one atomic step; a request that leaves the    *)
(* locks to call Stripe is several steps of one worker.                    *)
(*                                                                         *)
(* The listing's own state (active, window, maximum length) belongs to its *)
(* owner and may change at any moment; a guard on it only says that an     *)
(* action may be refused, which Next allows anyway, so it is left out.     *)
(***************************************************************************)
EXTENDS Naturals, FiniteSets

CONSTANTS
  Rentals,      \* identifiers of rentals
  Postings,     \* listings; several may offer the same machine
  MachineOf,    \* the machine a listing offers
  Periods,      \* periods a tenant may ask for: records [start, end]
  Prices,       \* totals a quote may come to
  Attempts,     \* identifiers of payment attempts (rows of Payments)
  Workers,      \* request threads and runs of the reconciliation job
  NoRental, NoAttempt,
  HoldTime,     \* MINUTOS_DE_RESERVA
  SessionLife,  \* life asked of a new session (30 min and 60 s)
  ReuseLife,    \* MIN_SESSION_LIFETIME (30 min and 30 s)
  StripeLife,   \* life below which Stripe refuses a new session (30 min)
  LeadTime,     \* ANTECEDENCIA_MINIMA_DIAS
  Notice,       \* notice that earns the tenant a full refund (7 days)
  SignMargin,   \* signatures close this long before the start (24 h)
  CleaningGap,  \* INTERVALO_DE_LIMPEZA
  MaxTime,      \* bound of the model: the clock stops here
  Slips,        \* whether the Stripe account takes slips, paid after checkout
  Moderation    \* what an administrator does to tenants: "suspend", "ban"

ASSUME RentalsAssumption   == NoRental \notin Rentals
ASSUME AttemptsAssumption  == NoAttempt \notin Attempts
ASSUME PostingsAssumption  == Postings # {} /\ MachineOf \in [Postings -> {MachineOf[p] : p \in Postings}]
ASSUME PeriodsAssumption   == /\ Periods # {}
                              /\ \A p \in Periods : p \in [start : Nat, end : Nat] /\ p.start <= p.end
ASSUME PricesAssumption    == Prices \subseteq Nat \ {0}
ASSUME DurationsAssumption ==
  /\ {HoldTime, SessionLife, ReuseLife, StripeLife, LeadTime, Notice, SignMargin, CleaningGap, MaxTime} \subseteq Nat
  /\ HoldTime <= SessionLife /\ StripeLife <= ReuseLife /\ ReuseLife <= SessionLife
ASSUME SwitchesAssumption  == Moderation \subseteq {"suspend", "ban"} /\ Slips \in BOOLEAN

VARIABLES
  now,      \* the clock
  rental,   \* table Rentals, with the contract made for each one
  payment,  \* table Payments, with the refund obligation of each row
  session,  \* Stripe: the session created under each attempt's idempotency key
  shown,    \* attempts whose checkout address the tenant has been given
  worker,   \* what each thread is about to do
  marked    \* rentals an administrator's request has read and will cancel

vars == <<now, rental, payment, session, shown, worker, marked>>

(***************************************************************************)
(* Tables and statuses.                                                    *)
(***************************************************************************)
OCCUPYING   == {"active", "signed", "completed"}
PROVISIONAL == {"pending", "awaiting_payment"}
PAID        == {"active", "signed"}
LIVE        == {"creating", "pending"}            \* may still become a payment
OPEN_PAYMENT_STATUSES == {"pending", "approved", "requires_review"}

Terms == [period : Periods, total : Nat]

RentalRow ==
  [status   : {"none", "cancelled"} \cup PROVISIONAL \cup OCCUPYING,
   posting  : Postings,
   period   : Periods,
   hold     : Nat,                    \* reservation_expires_at; 0 is null
   total    : Nat,                    \* total_price
   contract : {"none", "pending_signatures", "signed", "cancelled"},
   terms    : SUBSET Terms]           \* what the current revision froze, if any

PaymentRow ==
  [status   : {"none", "failed", "expired"} \cup LIVE \cup OPEN_PAYMENT_STATUSES,
   rental   : Rentals \cup {NoRental},
   amount   : Nat,
   expires  : Nat,                    \* provider_request.expires_at
   session_id : Attempts \cup {NoAttempt},
                                      \* a session goes by the attempt whose key made it
   replaced : BOOLEAN,                \* last_error: replaced by a new attempt
   refund   : {"none", "full", "late"}] \* obligation: all of it, or less the retained tenth

Session == [status : {"none", "open", "complete", "expired"},
            money  : {"unpaid", "paid", "failed"}]

Worker == [pc : {"idle", "create", "attach", "lost", "refused", "close", "paid", "expired"},
           attempt : Attempts \cup {NoAttempt},
           mode : {"tenant", "job", "closing"}]

Idle == [pc |-> "idle", attempt |-> NoAttempt, mode |-> "tenant"]

TypeOK ==
  /\ now \in Nat
  /\ rental \in [Rentals -> RentalRow]
  /\ payment \in [Attempts -> PaymentRow]
  /\ session \in [Attempts -> Session]
  /\ shown \subseteq Attempts
  /\ worker \in [Workers -> Worker]
  /\ marked \in [Rentals -> {"no", "suspend", "ban"}]

Init ==
  /\ now = 0
  /\ rental = [r \in Rentals |->
                 [status |-> "none", posting |-> CHOOSE p \in Postings : TRUE,
                  period |-> CHOOSE p \in Periods : TRUE, hold |-> 0, total |-> 0,
                  contract |-> "none", terms |-> {}]]
  /\ payment = [a \in Attempts |->
                  [status |-> "none", rental |-> NoRental, amount |-> 0, expires |-> 0,
                   session_id |-> NoAttempt, replaced |-> FALSE, refund |-> "none"]]
  /\ session = [a \in Attempts |-> [status |-> "none", money |-> "unpaid"]]
  /\ shown = {}
  /\ worker = [w \in Workers |-> Idle]
  /\ marked = [r \in Rentals |-> "no"]

(***************************************************************************)
(* Availability (payments/availability.py).                                *)
(***************************************************************************)
Held(r) == rental[r].hold > now

Occupies(r) == \/ rental[r].status \in OCCUPYING
               \/ rental[r].status \in PROVISIONAL /\ Held(r)

\* (mutant) back to back, with no day for cleaning
OverlapWithoutCleaning(p, q) == p.start <= q.end /\ p.end >= q.start

Overlap(p, q) == /\ p.start <= q.end + CleaningGap
                 /\ p.end + CleaningGap >= q.start

\* (mutant) the listing is compared, not the machine it offers
ConflictOnListing(r, posting, period) ==
  \E s \in Rentals \ {r} :
     Occupies(s) /\ rental[s].posting = posting /\ Overlap(rental[s].period, period)

Conflict(r, posting, period) ==
  \E s \in Rentals \ {r} :
     /\ Occupies(s)
     /\ MachineOf[rental[s].posting] = MachineOf[posting]
     /\ Overlap(rental[s].period, period)

HasConflict(r) == Conflict(r, rental[r].posting, rental[r].period)

PaymentsIn(r, statuses) ==
  {a \in Attempts : payment[a].rental = r /\ payment[a].status \in statuses}

Started(r) == rental[r].period.start <= now

Cancelled(row) ==
  [row EXCEPT !.status = "cancelled",
              !.contract = IF @ = "pending_signatures" THEN "cancelled" ELSE @]

\* (mutant) the obligation is only logged
OwedNothing(row, share) == row

\* RefundService.request: the first obligation stands, a repeated one is ignored.
Owed(row, share) == [row EXCEPT !.refund = IF @ = "none" THEN share ELSE @]

(***************************************************************************)
(* Bookings (rentals/services.py).                                         *)
(***************************************************************************)
CreateRental(r, posting, period, quote) ==
  /\ rental[r].status = "none"
  /\ period.start >= now + LeadTime
  /\ ~Conflict(r, posting, period)
  /\ rental' = [rental EXCEPT ![r] =
                  [status |-> "pending", posting |-> posting, period |-> period,
                   hold |-> now + HoldTime, total |-> quote,
                   contract |-> "pending_signatures", terms |-> {}]]
  /\ UNCHANGED <<now, payment, session, shown, worker, marked>>

\* An attempt still being created is not one of OPEN_PAYMENT_STATUSES.
UpdateRental(r, period, quote) ==
  /\ rental[r].status = "pending"
  /\ PaymentsIn(r, OPEN_PAYMENT_STATUSES) = {}
  /\ period # rental[r].period
  /\ period.start >= now + LeadTime
  /\ ~Conflict(r, rental[r].posting, period)
  /\ rental' = [rental EXCEPT ![r].period = period, ![r].total = quote]
  /\ UNCHANGED <<now, payment, session, shown, worker, marked>>

CompleteRental(r) ==
  /\ rental[r].status = "signed"
  /\ rental[r].contract = "signed"
  /\ rental[r].period.end <= now
  /\ rental' = [rental EXCEPT ![r].status = "completed"]
  /\ UNCHANGED <<now, payment, session, shown, worker, marked>>

(***************************************************************************)
(* The contract, as far as it moves a rental: the second of the two        *)
(* signatures, and an accepted change of dates.                            *)
(***************************************************************************)
DeadlinePassed(r) == now + SignMargin >= rental[r].period.start

SignContract(r) ==
  /\ rental[r].status \in PAID
  /\ rental[r].contract = "pending_signatures"
  /\ ~DeadlinePassed(r)
  /\ PaymentsIn(r, {"approved"}) # {}
  /\ ~HasConflict(r)
  /\ rental' = [rental EXCEPT ![r].status = "signed", ![r].contract = "signed"]
  /\ UNCHANGED <<now, payment, session, shown, worker, marked>>

\* (mutant) the accepted dates are not frozen in a new revision
KeepTerms(terms, period) == terms

\* freeze_revision for an amendment: the new dates, the price of before.
Refreeze(terms, period) == {[period |-> period, total |-> t.total] : t \in terms}

AcceptAmendment(r, period) ==
  LET old == rental[r].period IN
  /\ rental[r].status \in PAID
  /\ rental[r].contract # "cancelled"
  /\ ~Started(r)
  /\ rental[r].terms # {}
  /\ ~DeadlinePassed(r) /\ period.start > now + SignMargin  \* the proposal lapses then
  /\ PaymentsIn(r, {"approved"}) # {}
  /\ period # old
  /\ period.end + old.start = old.end + period.start      \* as many days as before
  /\ period.start >= now + LeadTime
  /\ ~Conflict(r, rental[r].posting, period)
  /\ rental' = [rental EXCEPT ![r].period = period, ![r].status = "active",
                              ![r].contract = "pending_signatures",
                              ![r].terms = Refreeze(@, period)]
  /\ UNCHANGED <<now, payment, session, shown, worker, marked>>

(***************************************************************************)
(* Opening a checkout (PaymentService.create_checkout).                    *)
(***************************************************************************)
MayPay(r) ==
  /\ rental[r].status \in PROVISIONAL
  /\ PaymentsIn(r, {"approved", "requires_review"}) = {}
  /\ ~Started(r)
  /\ ~HasConflict(r)

\* The agreed price stands while the hold lasts; a lapsed hold takes a new quote.
PriceNow(r, quote) == IF Held(r) THEN rental[r].total ELSE quote

\* (mutant) the usual half hour, whatever the session's own life is
AwaitHalfAnHour(r, total, expires) ==
  rental' = [rental EXCEPT ![r].status = "awaiting_payment",
                           ![r].total = total, ![r].hold = now + HoldTime]

AwaitPayment(r, total, expires) ==
  rental' = [rental EXCEPT ![r].status = "awaiting_payment",
                           ![r].total = total, ![r].hold = expires]

\* The previous session is still open: the tenant is sent back to it.
ResumeCheckout(r) ==
  /\ MayPay(r)
  /\ \E a \in PaymentsIn(r, {"pending"}) :
       /\ session[a].status = "open"
       /\ AwaitPayment(r, payment[a].amount, payment[a].expires)
       /\ shown' = shown \cup {a}
  /\ UNCHANGED <<now, payment, session, worker, marked>>

Reusable(a, total) == /\ payment[a].amount = total
                      /\ payment[a].expires >= now + ReuseLife

\* (mutant) the attempt that is not sent again is left as it was
AfterPrepareKeeping(r, b, total) ==
  [a \in Attempts |->
     IF a = b THEN
       [status |-> "creating", rental |-> r, amount |-> total, expires |-> now + SessionLife,
        session_id |-> NoAttempt, replaced |-> FALSE, refund |-> "none"]
     ELSE IF a \in PaymentsIn(r, {"pending"}) THEN [payment[a] EXCEPT !.status = "expired"]
     ELSE payment[a]]

\* What the transaction leaves of the attempts it found; b is the new one, if
\* any.  The code looks at the newest pending and the newest creating one; while
\* OneLiveAttempt holds, as it does before each step, there is no other.
AfterPrepare(r, b, total) ==
  [a \in Attempts |->
     IF a = b THEN
       [status |-> "creating", rental |-> r, amount |-> total, expires |-> now + SessionLife,
        session_id |-> NoAttempt, replaced |-> FALSE, refund |-> "none"]
     ELSE IF a \in PaymentsIn(r, {"pending"}) THEN [payment[a] EXCEPT !.status = "expired"]
     ELSE IF a \in PaymentsIn(r, {"creating"}) /\ b # NoAttempt THEN
       [payment[a] EXCEPT !.status = "failed", !.replaced = TRUE]
     ELSE payment[a]]

\* (mutant) a completed session counts as a closed one
PreviousNotOpen(r) ==
  \A a \in PaymentsIn(r, {"pending"}) : session[a].status # "open"

PreviousExpired(r) ==
  \A a \in PaymentsIn(r, {"pending"}) : session[a].status = "expired"

\* No session to go back to, and an attempt whose key may be sent again.
ReuseAttempt(w, r, quote) ==
  /\ worker[w].pc = "idle"
  /\ MayPay(r) /\ PreviousExpired(r)
  /\ \E a \in PaymentsIn(r, {"creating"}) :
       /\ Reusable(a, PriceNow(r, quote))
       /\ payment' = AfterPrepare(r, NoAttempt, 0)
       /\ AwaitPayment(r, PriceNow(r, quote), payment[a].expires)
       /\ worker' = [worker EXCEPT ![w] = [pc |-> "create", attempt |-> a, mode |-> "tenant"]]
  /\ UNCHANGED <<now, session, shown, marked>>

\* Otherwise a new attempt, numbered after those there are (idempotency_key);
\* one that cannot be sent again is given up.
NewAttempt(w, r, b, quote) ==
  LET total == PriceNow(r, quote) IN
  /\ worker[w].pc = "idle"
  /\ MayPay(r) /\ PreviousExpired(r)
  /\ \A a \in PaymentsIn(r, {"creating"}) : ~Reusable(a, total)
  /\ payment[b].status = "none"
  /\ b = CHOOSE c \in Attempts : payment[c].status = "none"
  /\ payment' = AfterPrepare(r, b, total)
  /\ AwaitPayment(r, total, now + SessionLife)
  /\ worker' = [worker EXCEPT ![w] = [pc |-> "create", attempt |-> b, mode |-> "tenant"]]
  /\ UNCHANGED <<now, session, shown, marked>>

Goto(w, pc) == worker' = [worker EXCEPT ![w].pc = pc]
Finish(w)   == worker' = [worker EXCEPT ![w] = Idle]
Close(w)    == worker' = [worker EXCEPT ![w].pc = "close", ![w].mode = "closing"]

\* Stripe creates the session, or answers again for a key it has seen.
StripeCreates(w) ==
  LET a == worker[w].attempt IN
  /\ worker[w].pc = "create"
  /\ session[a].status # "none" \/ payment[a].expires >= now + StripeLife
  /\ session' = IF session[a].status = "none"
                THEN [session EXCEPT ![a].status = "open"] ELSE session
  /\ \/ Goto(w, IF worker[w].mode = "closing" THEN "close" ELSE "attach")
     \/ Goto(w, "lost")                                 \* the answer never arrives
  /\ UNCHANGED <<now, rental, payment, shown, marked>>

\* The request never reaches Stripe, or Stripe refuses it: for its parameters,
\* for our key or our account, or for an idempotency key it has forgotten, and
\* then whether or not an earlier request made the session.
StripeDoesNotCreate(w) ==
  /\ worker[w].pc = "create"
  /\ \/ Goto(w, "lost")
     \/ Goto(w, "refused")
  /\ UNCHANGED <<now, rental, payment, session, shown, marked>>

\* _attempt_failed; the job only logs an answer it did not get.
AttemptFailed(w) ==
  LET a == worker[w].attempt
      r == payment[a].rental IN
  /\ worker[w].pc \in {"lost", "refused"}
  /\ payment' = IF worker[w].pc = "refused" /\ payment[a].status = "creating"
                THEN [payment EXCEPT ![a].status = "failed"] ELSE payment
  /\ rental' = IF /\ worker[w].pc = "refused" \/ worker[w].mode = "tenant"
                  /\ rental[r].status = "awaiting_payment"
                  /\ PaymentsIn(r, OPEN_PAYMENT_STATUSES) = {}
               THEN [rental EXCEPT ![r].status = "pending"] ELSE rental
  /\ Finish(w)
  /\ UNCHANGED <<now, session, shown, marked>>

\* The row keeps the session it is settled by, unless it knows one already.
Known(row, a) == [row EXCEPT !.session_id = IF @ = NoAttempt THEN a ELSE @]

\* From now on the job follows its session.
Followed(row) == [row EXCEPT !.status = IF @ = "creating" THEN "pending" ELSE @]

\* _attach_session: the answer arrives and the session is tied to its attempt.
AttachSession(w) ==
  LET a == worker[w].attempt
      r == payment[a].rental
      creating == payment[a].status = "creating" IN
  /\ worker[w].pc = "attach"
  /\ payment' = [payment EXCEPT ![a] = Known(Followed(@), a)]
  /\ IF rental[r].status = "cancelled" THEN
       Close(w) /\ UNCHANGED <<rental, shown>>
     ELSE
       /\ rental' = IF creating
                    THEN [rental EXCEPT ![r].hold = payment[a].expires,
                                        ![r].status = IF @ = "pending" THEN "awaiting_payment" ELSE @]
                    ELSE rental
       /\ shown' = IF worker[w].mode = "tenant" THEN shown \cup {a} ELSE shown
       /\ Finish(w)
  /\ UNCHANGED <<now, session, marked>>

(***************************************************************************)
(* What a provider event does (_approve and _expire).                      *)
(***************************************************************************)
\* (mutant) the rental's status is not looked at again
BookableWhenFree(r) == rental[r].status # "cancelled" /\ ~HasConflict(r)

\* (mutant) a cancelled rental is brought back by its payment
BookableAgain(r) == rental[r].status \in PROVISIONAL \cup {"cancelled"} /\ ~HasConflict(r)

Bookable(r) == rental[r].status \in PROVISIONAL /\ ~HasConflict(r)

Recorded(a) == payment[a].status \in {"approved", "requires_review"}

Receive(a, status) ==
  payment' = [payment EXCEPT ![a] = Known([@ EXCEPT !.status = status], a)]

Confirm(r) ==
  rental' = [rental EXCEPT ![r].status = "active",
                           ![r].terms = IF @ = {} THEN {[period |-> rental[r].period, total |-> rental[r].total]}
                                        ELSE @]

\* (mutant) a payment that finds the rental out of reach is dropped
ApproveInTime(a) ==
  LET r == payment[a].rental IN
  \/ Recorded(a) /\ Receive(a, payment[a].status) /\ UNCHANGED rental
  \/ ~Recorded(a) /\ Bookable(r) /\ Receive(a, "approved") /\ Confirm(r)

Approve(a) ==
  LET r == payment[a].rental IN
  \/ /\ rental[r].status = "cancelled" /\ ~Bookable(r)
     /\ payment' = [payment EXCEPT ![a] =
                      Owed(Known([@ EXCEPT !.status = "approved"], a), "full")]
     /\ UNCHANGED rental
  \/ /\ rental[r].status # "cancelled" /\ Recorded(a)
     /\ Receive(a, payment[a].status)
     /\ UNCHANGED rental
  \/ /\ rental[r].status # "cancelled" /\ ~Recorded(a) /\ ~Bookable(r)
     /\ Receive(a, "requires_review")
     /\ UNCHANGED rental
  \/ /\ ~Recorded(a) /\ Bookable(r)
     /\ Receive(a, "approved")
     /\ Confirm(r)

Expire(a) ==
  LET r == payment[a].rental IN
  IF payment[a].status \in LIVE THEN
    /\ payment' = [payment EXCEPT ![a] = Known([@ EXCEPT !.status = "expired"], a)]
    /\ rental' = IF rental[r].status = "awaiting_payment" /\ PaymentsIn(r, LIVE) = {a}
                 THEN [rental EXCEPT ![r] = Cancelled(@)] ELSE rental
  ELSE UNCHANGED <<payment, rental>>

\* (mutant) a row that knows its session is not looked for
FindUnattached(id, named) ==
  {a \in Attempts : a = named /\ payment[a].session_id = NoAttempt}

\* The row that keeps this session; else the one named in the session's
\* metadata, whose answer was lost and which keeps no session yet.
FindPayment(id, named) ==
  LET kept == {a \in Attempts : payment[a].session_id = id} IN
  IF kept # {} THEN kept ELSE {a \in Attempts : a = named /\ payment[a].session_id = NoAttempt}

\* An event that no row answers to changes nothing.
Settle(id, named, Effect(_)) ==
  IF FindPayment(id, named) = {} THEN UNCHANGED <<rental, payment>>
  ELSE \E a \in FindPayment(id, named) : Effect(a)

\* Stripe delivers events late, in any order and more than once, and two
\* deliveries of one event may both pass the processed_at check.
WebhookPaid(a) ==
  /\ session[a].money = "paid"
  /\ Settle(a, a, Approve)
  /\ UNCHANGED <<now, session, shown, worker, marked>>

WebhookExpired(a) ==
  /\ session[a].status = "expired" \/ session[a].money = "failed"
  /\ Settle(a, a, Expire)
  /\ UNCHANGED <<now, session, shown, worker, marked>>

(***************************************************************************)
(* Reconciliation (payments/reconcile.py).                                 *)
(***************************************************************************)
\* The rental's status is read with the attempt, before the call to Stripe.
ReconcileCreating(w, a) ==
  /\ worker[w].pc = "idle"
  /\ payment[a].status = "creating"
  /\ worker' = [worker EXCEPT ![w] =
                  [pc |-> "create", attempt |-> a,
                   mode |-> IF rental[payment[a].rental].status \in PROVISIONAL
                            THEN "job" ELSE "closing"]]
  /\ UNCHANGED <<now, rental, payment, session, shown, marked>>

\* (mutant) the job looks for sessions that are over, not for paid ones
OutcomeOverOnly(a) == IF session[a].status = "expired" THEN "expired" ELSE "idle"

Outcome(a) == IF session[a].money = "paid" THEN "paid"
              ELSE IF session[a].status = "expired" THEN "expired" ELSE "idle"

ReconcilePending(w, a) ==
  /\ worker[w].pc = "idle"
  /\ payment[a].status = "pending" /\ payment[a].session_id # NoAttempt
  /\ \/ /\ rental[payment[a].rental].status = "cancelled"
        /\ worker' = [worker EXCEPT ![w] = [pc |-> "close", attempt |-> a, mode |-> "closing"]]
     \/ /\ rental[payment[a].rental].status # "cancelled"
        /\ Outcome(a) # "idle"
        /\ worker' = [worker EXCEPT ![w] = [pc |-> Outcome(a), attempt |-> a, mode |-> "job"]]
  /\ UNCHANGED <<now, rental, payment, session, shown, marked>>

\* close_cancelled_checkout at Stripe: an open session is expired, if Stripe answers.
CloseSession(w) ==
  LET a == worker[w].attempt IN
  /\ worker[w].pc = "close"
  /\ \/ /\ session[a].status = "open"
        /\ session' = [session EXCEPT ![a].status = "expired"]
        /\ Goto(w, "expired")
     \/ /\ Outcome(a) # "idle"
        /\ Goto(w, Outcome(a))
        /\ UNCHANGED session
     \/ Finish(w) /\ UNCHANGED session                 \* uncertain: left to the next run
  /\ UNCHANGED <<now, rental, payment, shown, marked>>

\* Closing names the attempt; the job only knows the session kept with it.
Named(w) == IF worker[w].mode = "closing" THEN worker[w].attempt ELSE NoAttempt

SettlePaid(w) ==
  /\ worker[w].pc = "paid"
  /\ Settle(worker[w].attempt, Named(w), Approve)
  /\ Finish(w)
  /\ UNCHANGED <<now, session, shown, marked>>

SettleExpired(w) ==
  /\ worker[w].pc = "expired"
  /\ Settle(worker[w].attempt, Named(w), Expire)
  /\ Finish(w)
  /\ UNCHANGED <<now, session, shown, marked>>

\* The process dies between two steps; only the database and Stripe remember.
Crash(w) ==
  /\ worker[w].pc # "idle"
  /\ Finish(w)
  /\ UNCHANGED <<now, rental, payment, session, shown, marked>>

(***************************************************************************)
(* Cancellation (rentals/cancellation.py, rentals/policy.py).              *)
(***************************************************************************)
PendingLinked(r) == {a \in PaymentsIn(r, {"pending"}) : payment[a].session_id # NoAttempt}

\* Every pending session is closed at Stripe inside the transaction.
CancelEffects(r, share) ==
  /\ PaymentsIn(r, {"requires_review"}) = {}
  /\ \A a \in PendingLinked(r) : session[a].status \in {"open", "expired"}
  /\ session' = [a \in Attempts |-> IF a \in PendingLinked(r)
                                    THEN [session[a] EXCEPT !.status = "expired"] ELSE session[a]]
  /\ payment' = [a \in Attempts |->
                   IF a \in PendingLinked(r) THEN [payment[a] EXCEPT !.status = "expired"]
                   ELSE IF a \in PaymentsIn(r, {"approved"}) THEN Owed(payment[a], share)
                   ELSE payment[a]]
  /\ rental' = [rental EXCEPT ![r].status = "cancelled", ![r].hold = 0, ![r].contract = "cancelled"]

CancelRental(r, actor) ==
  /\ rental[r].status \in PROVISIONAL \cup PAID
  /\ actor = "admin" \/ ~Started(r)
  /\ CancelEffects(r, IF actor = "lessee" /\ rental[r].period.start < now + Notice
                      THEN "late" ELSE "full")
  /\ UNCHANGED <<now, shown, worker, marked>>

\* (mutant) the job waits for the start instead of the margin before it
UnsignedAtStart(r) ==
  /\ rental[r].status \in PAID
  /\ rental[r].contract = "pending_signatures" /\ rental[r].terms # {}
  /\ Started(r)

Unsigned(r) ==
  /\ rental[r].status \in PAID
  /\ rental[r].contract = "pending_signatures" /\ rental[r].terms # {}
  /\ DeadlinePassed(r)

\* expire_unsigned_contracts
CancelUnsigned(r) ==
  /\ Unsigned(r)
  /\ CancelEffects(r, "full")
  /\ UNCHANGED <<now, shown, worker, marked>>

\* Stripe closed the session but its answer was lost: the transaction rolls back.
CancelRolledBack(r) ==
  /\ rental[r].status \in PROVISIONAL \cup PAID
  /\ PaymentsIn(r, {"requires_review"}) = {}
  /\ \E a \in PendingLinked(r) :
       /\ session[a].status = "open"
       /\ session' = [session EXCEPT ![a].status = "expired"]
  /\ UNCHANGED <<now, rental, payment, shown, worker, marked>>

(***************************************************************************)
(* Moderation of the tenant (administration/services.py): the identifiers  *)
(* are read first, and the update that follows does not look at the status *)
(* again nor take the rental's locks.                                      *)
(***************************************************************************)
ReadRentals(r, kind) ==
  /\ marked[r] = "no"
  /\ rental[r].status \in IF kind = "ban" THEN {"pending", "active"} ELSE {"pending"}
  /\ marked' = [marked EXCEPT ![r] = kind]
  /\ UNCHANGED <<now, rental, payment, session, shown, worker>>

CancelMarked(r) ==
  /\ marked[r] # "no"
  /\ marked' = [marked EXCEPT ![r] = "no"]
  /\ rental' = [rental EXCEPT ![r] = Cancelled(@)]
  /\ UNCHANGED <<now, payment, session, shown, worker>>

(***************************************************************************)
(* The tenant on Stripe's page, Stripe's clock, and ours (external).       *)
(***************************************************************************)
Pay(a) ==
  /\ a \in shown
  /\ session[a].status = "open" /\ now < payment[a].expires
  /\ \E money \in {"paid"} \cup IF Slips THEN {"unpaid"} ELSE {} :
       session' = [session EXCEPT ![a] = [status |-> "complete", money |-> money]]
  /\ UNCHANGED <<now, rental, payment, shown, worker, marked>>

SettleSlip(a) ==
  /\ session[a] = [status |-> "complete", money |-> "unpaid"]
  /\ \E money \in {"paid", "failed"} : session' = [session EXCEPT ![a].money = money]
  /\ UNCHANGED <<now, rental, payment, shown, worker, marked>>

SessionExpires(a) ==
  /\ session[a].status = "open"
  /\ now >= payment[a].expires
  /\ session' = [session EXCEPT ![a].status = "expired"]
  /\ UNCHANGED <<now, rental, payment, shown, worker, marked>>

Tick ==
  /\ now < MaxTime
  /\ now' = now + 1
  /\ UNCHANGED <<rental, payment, session, shown, worker, marked>>

-----------------------------------------------------------------------------
RentalNext(r) ==
  \/ \E posting \in Postings, period \in Periods, quote \in Prices :
       CreateRental(r, posting, period, quote)
  \/ \E period \in Periods, quote \in Prices : UpdateRental(r, period, quote)
  \/ CompleteRental(r)
  \/ SignContract(r)
  \/ \E period \in Periods : AcceptAmendment(r, period)
  \/ ResumeCheckout(r)
  \/ \E actor \in {"lessee", "owner", "admin"} : CancelRental(r, actor)
  \/ CancelUnsigned(r)
  \/ CancelRolledBack(r)
  \/ \E kind \in Moderation : ReadRentals(r, kind)
  \/ CancelMarked(r)

WorkerNext(w) ==
  \/ \E r \in Rentals, quote \in Prices :
       ReuseAttempt(w, r, quote) \/ \E b \in Attempts : NewAttempt(w, r, b, quote)
  \/ StripeCreates(w) \/ StripeDoesNotCreate(w)
  \/ AttemptFailed(w) \/ AttachSession(w)
  \/ \E a \in Attempts : ReconcileCreating(w, a) \/ ReconcilePending(w, a)
  \/ CloseSession(w) \/ SettlePaid(w) \/ SettleExpired(w)
  \/ Crash(w)

StripeNext(a) == \/ WebhookPaid(a) \/ WebhookExpired(a)
                 \/ Pay(a) \/ SettleSlip(a) \/ SessionExpires(a)

Next == \/ \E r \in Rentals : RentalNext(r)
        \/ \E w \in Workers : WorkerNext(w)
        \/ \E a \in Attempts : StripeNext(a)
        \/ Tick

Spec == Init /\ [][Next]_vars

-----------------------------------------------------------------------------
(***************************************************************************)
(* What must hold.                                                         *)
(***************************************************************************)
\* No machine is promised twice: two rentals that occupy the same machine,
\* through whichever listings, are a cleaning day apart.  Creation, changes of
\* dates, payments that arrive after the hold lapsed and amendments all decide
\* it again (tem_conflito under the posting and machine locks).
NoDoubleBooking ==
  \A r, s \in Rentals :
     r # s /\ Occupies(r) /\ Occupies(s)
       /\ MachineOf[rental[r].posting] = MachineOf[rental[s].posting]
     => ~Overlap(rental[r].period, rental[s].period)

\* However answers, retries and the job interleave, at most one attempt of a
\* rental is still being created or pending: _prepare_checkout closes the
\* previous one under the rental's lock before it makes another.
OneLiveAttempt ==
  \A a, b \in Attempts :
     /\ payment[a].status \in LIVE /\ payment[b].status \in LIVE
     /\ payment[a].rental = payment[b].rental
     => a = b

\* While its attempt is being created, an unpaid rental's hold is exactly the
\* life of that attempt, so a late answer cannot lengthen a hold (the attach
\* step writes the hold without looking at the calendar).
HoldCoversAttempt ==
  \A a \in Attempts :
     payment[a].status = "creating" /\ rental[payment[a].rental].status \in PROVISIONAL
     => rental[payment[a].rental].hold = payment[a].expires

\* A confirmed rental was paid for once and only once; any further payment of
\* it waits for a person (requires_review in _approve).
ConfirmedPaidOnce ==
  \A r \in Rentals :
     rental[r].status \in OCCUPYING =>
       \E a \in Attempts : PaymentsIn(r, {"approved"}) = {a}

\* The revision both parties sign carries the rental's own dates and total
\* (freeze_revision at payment and at each amendment).
SignedTermsAreCurrent ==
  \A r \in Rentals :
     rental[r].status \in OCCUPYING =>
       rental[r].terms = {[period |-> rental[r].period, total |-> rental[r].total]}

\* An attempt is written off only when Stripe can no longer take money for
\* it: the tenant never pays for a session the database calls expired.
ExpiredTakesNoMoney ==
  \A a \in Attempts :
     payment[a].status = "expired" =>
       session[a].status = "expired" \/ session[a].money = "failed"

\* Cancelling frees the dates and leaves a durable obligation: money kept from
\* a cancelled rental is always owed back (rentals/cancellation.py:1).
CancelledMoneyIsOwed ==
  \A a \in Attempts :
     payment[a].status = "approved" /\ rental[payment[a].rental].status = "cancelled"
     => payment[a].refund # "none"

\* A payment recorded as received is never turned back into an unpaid one by
\* an event, an answer or a job that comes late, and its refund is fixed once;
\* a cancelled rental stays cancelled, whatever arrives for it afterwards.
OutcomesAreFinal ==
  [][/\ \A a \in Attempts :
          /\ payment[a].status = "approved" => payment'[a].status = "approved"
          /\ payment[a].status = "requires_review" =>
               \/ payment'[a].status = "requires_review"
               \/ payment'[a].status = "approved" /\ payment'[a].refund = "full"
          /\ payment[a].refund # "none" => payment'[a].refund = payment[a].refund
     /\ \A r \in Rentals :
          rental[r].status = "cancelled" => rental'[r].status = "cancelled"]_vars

(***************************************************************************)
(* What the code's comments and documents claim and the code does not do.  *)
(***************************************************************************)
\* payments/services.py:153: a replaced attempt's session is never shown.
ReplacedSessionNeverShown == \A a \in shown : ~payment[a].replaced

\* payments/services.py:117, rentals/services.py:104: the price of the dates
\* agreed is the one charged, because a booking in payment cannot be changed.
PaidWhatWasAgreed ==
  \A a \in Attempts :
     payment[a].status = "approved" /\ rental[payment[a].rental].status \in OCCUPYING
     => payment[a].amount = rental[payment[a].rental].total

\* administration/services.py:60: a suspension cancels pending bookings only.
SuspensionSparesConfirmed ==
  [][\A r \in Rentals :
       marked[r] = "suspend" /\ marked'[r] = "no" => rental[r].status \notin OCCUPYING]_vars

(***************************************************************************)
(* Progress.  Stripe repeats a webhook until it is answered; the job runs  *)
(* again and again and does not die at the same point every time; a thread *)
(* that has begun either goes on or dies.  Nothing obliges the tenant.     *)
(***************************************************************************)
Settled(a) == payment[a].status \in {"approved", "requires_review"}

WebhookFairness == \A a \in Attempts : WF_vars(WebhookPaid(a))

WorkerMoves(w) ==
  \/ StripeCreates(w) \/ StripeDoesNotCreate(w) \/ AttemptFailed(w) \/ AttachSession(w)
  \/ CloseSession(w) \/ SettlePaid(w) \/ SettleExpired(w) \/ Crash(w)

ReconcileFairness ==
  \A w \in Workers :
     /\ WF_vars(WorkerMoves(w))
     /\ \A a \in Attempts : SF_vars(ReconcilePending(w, a))
     /\ SF_vars(CloseSession(w) /\ worker'[w].pc = "paid")
     /\ SF_vars(SettlePaid(w))

DeadlineFairness == \A r \in Rentals : WF_vars(CancelUnsigned(r))

WebhookSpec   == Spec /\ WebhookFairness /\ DeadlineFairness
JobsSpec      == Spec /\ ReconcileFairness /\ DeadlineFairness

\* Money taken by Stripe is entered in the books, whatever became of the
\* rental and of the attempt in the meantime.
PaidIsSettled ==
  \A a \in Attempts : session[a].money = "paid" ~> Settled(a)

\* If every webhook is lost the job alone settles what the tenant paid in a
\* session the database still follows (a replaced attempt's it does not).
PendingIsReconciled ==
  \A a \in Attempts :
     session[a].money = "paid" /\ payment[a].status = "pending" ~> Settled(a)

\* A second payment of the rental is in review, or Stripe is confirming one:
\* the job leaves the rental to a person (expire_unsigned_contracts.py:21).
Contested(r) ==
  \/ PaymentsIn(r, {"requires_review"}) # {}
  \/ \E a \in PendingLinked(r) : session[a].status = "complete"

\* A contract not signed by all in time does not keep the machine: the rental
\* is cancelled, unless a second payment of it is contested from some point on.
OverdueIsCancelled ==
  \A r \in Rentals :
     (/\ rental[r].status \in PAID /\ rental[r].contract = "pending_signatures"
      /\ rental[r].terms # {} /\ DeadlinePassed(r))
     ~> (rental[r].status = "cancelled" \/ []Contested(r))

(***************************************************************************)
(* The machine calendar this implements: a rental is in it while it        *)
(* occupies its machine.                                                   *)
(***************************************************************************)
Machines == {MachineOf[p] : p \in Postings}

Booked == [r \in Rentals |->
             IF Occupies(r)
             THEN [machine |-> MachineOf[rental[r].posting], period |-> rental[r].period]
             ELSE NoRental]

Calendar == INSTANCE MachineCalendar WITH booked <- Booked, Nothing <- NoRental

\* Every step lets periods go, or takes one free period, and nothing else.
ImplementsCalendar == Calendar!Spec
=============================================================================
