------------------------------- MODULE Refunds -------------------------------
(***************************************************************************)
(* Paying one payment back (payments/refunds.py): the obligation, the      *)
(* attempts to fulfil it, each with its own idempotency key, and Stripe,   *)
(* which remembers a key for a day only.  The obligation is requested by a *)
(* cancellation or by a payment that arrives after one (see Checkout); it  *)
(* is worked on by the request that made it, by repeated requests, by the  *)
(* reconciliation job and by webhooks, all at once.                        *)
(*                                                                         *)
(* One action is one transaction, which holds the payment's and the        *)
(* refund's row locks, or one call to Stripe.                              *)
(***************************************************************************)
EXTENDS Naturals, Sequences, FiniteSets

CONSTANTS
  RefundIds,    \* Stripe's identifiers of refunds
  NoRefund,
  Workers,      \* requests, runs of the job and webhook deliveries
  Window,       \* age up to which an attempt sends its key again (23 h)
  CallLife,     \* longest time a call takes to reach Stripe
  KeyLife,      \* how long Stripe remembers a key (24 h)
  MaxTime,      \* bound of the model: the clock stops here
  MaxAttempts   \* bound of the model: attempts made for the obligation

\* The hour between 23 and 24 is there for a call under way.
ASSUME KeyAssumption ==
  /\ {Window, CallLife, KeyLife, MaxTime, MaxAttempts} \subseteq Nat
  /\ Window + CallLife < KeyLife
ASSUME IdsAssumption == NoRefund \notin RefundIds

VARIABLES
  now,
  payment,    \* the payment's status, as far as refunds tell it apart
  refund,     \* the row of Refunds: the obligation
  attempts,   \* the rows of RefundAttempts, by number
  stripe,     \* the refunds that exist at Stripe, and the key each was made under
  worker

vars == <<now, payment, refund, attempts, stripe, worker>>

RefundStatus == {"pending", "succeeded", "failed", "canceled"}
TERMINAL     == {"succeeded", "failed", "canceled"}
PROVIDER     == RefundStatus \cup {"requires_action"}

Attempt == [status : RefundStatus, provider : RefundIds \cup {NoRefund}, created : Nat]

\* number: of the attempt in its metadata and under whose key it was made;
\* first: the status in the answer that Stripe repeats for that key.
Refund == [status : {"none"} \cup PROVIDER, number : Nat, first : PROVIDER, since : Nat]

Answer   == [id : RefundIds \cup {NoRefund}, status : PROVIDER]
NoAnswer == [id |-> NoRefund, status |-> "pending"]

Worker == [pc : {"idle", "ask", "sent", "apply", "failed"},
           number : Nat,                        \* of the attempt; 0 when idle
           known : RefundIds \cup {NoRefund},   \* provider_refund_id, as read by _prepare
           asked : Nat,                         \* when the call was sent
           answer : Answer,
           event : BOOLEAN]                     \* a webhook, not process()

Idle == [pc |-> "idle", number |-> 0, known |-> NoRefund, asked |-> 0,
         answer |-> NoAnswer, event |-> FALSE]

TypeOK ==
  /\ now \in Nat
  /\ payment \in {"open", "approved", "refunded"}
  /\ refund \in {"none"} \cup RefundStatus
  /\ attempts \in Seq(Attempt)
  /\ stripe \in [RefundIds -> Refund]
  /\ worker \in [Workers -> Worker]

Init ==
  /\ now = 0
  /\ payment \in {"open", "approved"}
  /\ refund = "none"
  /\ attempts = <<>>
  /\ stripe = [id \in RefundIds |->
                 [status |-> "none", number |-> 0, first |-> "pending", since |-> 0]]
  /\ worker = [w \in Workers |-> Idle]

Latest == Len(attempts)
Exists(id) == stripe[id].status # "none"
Of(n)      == {id \in RefundIds : Exists(id) /\ stripe[id].number = n}
Alive(id)  == stripe[id].status \in {"pending", "requires_action", "succeeded"}

(***************************************************************************)
(* The obligation.                                                         *)
(***************************************************************************)
\* A cancellation finds an approved payment (rentals/cancellation.py).
Request ==
  /\ payment = "approved" /\ refund = "none"
  /\ refund' = "pending"
  /\ UNCHANGED <<now, payment, attempts, stripe, worker>>

\* (mutant) the payment is approved whatever it has become
ApprovedAgain == "approved"

AfterLatePayment == IF payment = "refunded" THEN payment ELSE "approved"

\* A payment arrives, perhaps again, for a rental that is cancelled (_approve).
LatePayment ==
  /\ payment' = AfterLatePayment
  /\ refund' = IF refund = "none" THEN "pending" ELSE refund
  /\ UNCHANGED <<now, attempts, stripe, worker>>

(***************************************************************************)
(* RefundService.process: prepare, ask Stripe, apply its answer.           *)
(***************************************************************************)
\* (mutant) an error of ours is taken for a failure of the refund
NeedsKeyAfterError ==
  Latest = 0 \/ refund = "failed"

\* Only a failure that Stripe confirmed allows another key.
NeedsKey ==
  Latest = 0 \/ (attempts[Latest].status = "failed" /\ attempts[Latest].provider # NoRefund)

\* (mutant) the job takes up what is under way, not what failed
Underway == {"pending"}

\* What the job takes up, and what _prepare does not turn away.
Unsettled == {"pending", "failed"}

\* Bounds: MaxAttempts, and time enough after an attempt to see its key age.
Prepare(w) ==
  /\ worker[w].pc = "idle"
  /\ refund \in Unsettled
  /\ IF NeedsKey
     THEN /\ Latest < MaxAttempts /\ now + Window < MaxTime
          /\ attempts' = Append(attempts, [status |-> "pending", provider |-> NoRefund, created |-> now])
     ELSE UNCHANGED attempts
  /\ worker' = [worker EXCEPT ![w] = [Idle EXCEPT !.pc = "ask", !.number = Len(attempts'),
                                                  !.known = attempts'[Len(attempts')].provider]]
  /\ UNCHANGED <<now, payment, refund, stripe>>

\* The answer, or an exception that process() catches.
Answered(w, id, status) ==
  worker' = [worker EXCEPT ![w].pc = "apply", ![w].answer = [id |-> id, status |-> status]]
CallFailed(w) == worker' = [worker EXCEPT ![w].pc = "failed"]
Finish(w)     == worker' = [worker EXCEPT ![w] = Idle]

Retrieve(w) ==
  LET id == worker[w].known IN
  /\ worker[w].pc = "ask" /\ id # NoRefund
  /\ Answered(w, id, stripe[id].status)
  /\ UNCHANGED <<now, payment, refund, attempts, stripe>>

\* (mutant) every attempt sends its key again
NeverTooOld(n) == FALSE

TooOld(n) == attempts[n].created + Window < now

\* Refund.list: evidence of an attempt whose key may have been forgotten.
Search(w) ==
  LET n == worker[w].number IN
  /\ worker[w].pc = "ask" /\ worker[w].known = NoRefund /\ TooOld(n)
  /\ \/ \E id \in Of(n) : Answered(w, id, stripe[id].status)
     \/ Of(n) = {} /\ CallFailed(w)                      \* left to a person
  /\ UNCHANGED <<now, payment, refund, attempts, stripe>>

Send(w) ==
  /\ worker[w].pc = "ask" /\ worker[w].known = NoRefund /\ ~TooOld(worker[w].number)
  /\ worker' = [worker EXCEPT ![w].pc = "sent", ![w].asked = now]
  /\ UNCHANGED <<now, payment, refund, attempts, stripe>>

\* No charge to refund, no connection, or an error of Stripe's.
CallFails(w) ==
  /\ worker[w].pc \in {"ask", "sent"}
  /\ CallFailed(w)
  /\ UNCHANGED <<now, payment, refund, attempts, stripe>>

Remembered(n) == {id \in Of(n) : now < stripe[id].since + KeyLife}

\* Refund.create: a key that Stripe remembers gets the answer it got before.
StripeRefunds(w) ==
  LET n == worker[w].number IN
  /\ worker[w].pc = "sent"
  /\ \/ (\E id \in Remembered(n) : Answered(w, id, stripe[id].first)) /\ UNCHANGED stripe
     \/ /\ Remembered(n) = {}
        /\ \E id \in RefundIds, status \in PROVIDER \ {"canceled"} :
             /\ ~Exists(id)
             /\ stripe' = [stripe EXCEPT ![id] = [status |-> status, number |-> n,
                                                  first |-> status, since |-> now]]
             /\ Answered(w, id, status) \/ CallFailed(w)   \* or the answer is lost
  /\ UNCHANGED <<now, payment, refund, attempts>>

\* (mutant) a status not known to us is no failure
LocalUnlessFailed(status) == IF status \in RefundStatus THEN status ELSE "succeeded"

\* requires_action, and whatever Stripe invents, stays pending.
Local(status) == IF status \in RefundStatus THEN status ELSE "pending"

\* (mutant) the last answer wins
AsAnswered(old, status) == Local(status)

\* A terminal result never goes back because of an answer that comes late.
Merge(old, status) == IF old \in TERMINAL THEN old ELSE Local(status)

\* The attempt an answer is about: the one with its identifier, else the one named.
About(w) ==
  LET known == {n \in DOMAIN attempts : attempts[n].provider = worker[w].answer.id}
  IN IF known = {} THEN worker[w].number ELSE CHOOSE n \in known : TRUE

\* RefundService.apply.  A second refund for one attempt is an error, which
\* process() catches and a webhook answers with a 500.
Apply(w) ==
  LET n      == About(w)
      id     == worker[w].answer.id
      status == Merge(attempts[n].status, worker[w].answer.status) IN
  /\ worker[w].pc = "apply"
  /\ IF attempts[n].provider \in {NoRefund, id}
     THEN /\ attempts' = [attempts EXCEPT ![n].provider = id, ![n].status = status]
          /\ refund'   = IF n = Latest THEN status ELSE refund
          /\ payment'  = IF n = Latest /\ status = "succeeded" THEN "refunded" ELSE payment
          /\ Finish(w)
     ELSE /\ IF worker[w].event THEN Finish(w) ELSE CallFailed(w)
          /\ UNCHANGED <<payment, refund, attempts>>
  /\ UNCHANGED <<now, stripe>>

\* RefundService.failed: a late error never undoes a success.
Failed(w) ==
  /\ worker[w].pc = "failed"
  /\ refund' = IF refund \in {"succeeded", "canceled"} \/ worker[w].number # Latest
               THEN refund ELSE "failed"
  /\ Finish(w)
  /\ UNCHANGED <<now, payment, attempts, stripe>>

\* handle_event asks Stripe for the present state, whatever the event said.
Webhook(w, id) ==
  /\ worker[w].pc = "idle" /\ Exists(id)
  /\ worker' = [worker EXCEPT ![w] = [Idle EXCEPT
                  !.pc = "apply", !.number = stripe[id].number, !.event = TRUE,
                  !.answer = [id |-> id, status |-> stripe[id].status]]]
  /\ UNCHANGED <<now, payment, refund, attempts, stripe>>

Crash(w) ==
  /\ worker[w].pc # "idle"
  /\ Finish(w)
  /\ UNCHANGED <<now, payment, refund, attempts, stripe>>

(***************************************************************************)
(* Stripe and the clock (external).                                        *)
(***************************************************************************)
StripeSettles(id) ==
  /\ stripe[id].status \in {"pending", "requires_action"}
  /\ \E status \in PROVIDER \ {stripe[id].status} : stripe' = [stripe EXCEPT ![id].status = status]
  /\ UNCHANGED <<now, payment, refund, attempts, worker>>

Tick ==
  /\ now < MaxTime
  /\ \A w \in Workers : worker[w].pc = "sent" => now < worker[w].asked + CallLife
  /\ now' = now + 1
  /\ UNCHANGED <<payment, refund, attempts, stripe, worker>>

-----------------------------------------------------------------------------
WorkerMoves(w) ==
  \/ Retrieve(w) \/ Search(w) \/ Send(w) \/ CallFails(w) \/ StripeRefunds(w)
  \/ Apply(w) \/ Failed(w) \/ Crash(w)

Next ==
  \/ Request \/ LatePayment \/ Tick
  \/ \E w \in Workers : Prepare(w) \/ WorkerMoves(w) \/ \E id \in RefundIds : Webhook(w, id)
  \/ \E id \in RefundIds : StripeSettles(id)

Spec == Init /\ [][Next]_vars

(***************************************************************************)
(* What must hold.                                                         *)
(***************************************************************************)
\* However often the refund is retried, by whomever, and whichever answers are
\* lost, at most one refund of it is under way or done at Stripe (the keys, the
\* 23 hours, and the rule that only a confirmed failure earns a new key).
PaidBackOnce ==
  \A i, j \in RefundIds : Alive(i) /\ Alive(j) => i = j

\* The books say that a refund was made exactly when the payment says so, and
\* then Stripe made it: no answer, late or lost, enters what did not happen, and
\* a payment delivered again does not take it back.
RepaidIsTrue ==
  /\ refund = "succeeded" <=> payment = "refunded"
  /\ refund = "succeeded" => \E id \in Of(Latest) : stripe[id].status = "succeeded"

\* An attempt made under a key that was replaced never comes back to life:
\* Stripe itself has it as failed.
ReplacedHasFailed ==
  \A n \in 1..Latest - 1 :
    /\ attempts[n].status = "failed" /\ attempts[n].provider \in Of(n)
    /\ \A id \in Of(n) : stripe[id].status = "failed"

\* What ended stays as it ended, for the obligation and for every attempt.
TerminalIsFinal ==
  [][/\ refund \in {"succeeded", "canceled"} => refund' = refund
     /\ \A n \in DOMAIN attempts :
          attempts[n].status \in TERMINAL => attempts'[n] = attempts[n]]_vars

(***************************************************************************)
(* Progress.  The job runs for ever, calls get through now and then, and a *)
(* thread goes on or dies, not always at the same point.  No webhook needs *)
(* to arrive.                                                              *)
(***************************************************************************)
JobFairness ==
  /\ WF_vars(Tick)
  /\ \A w \in Workers :
       /\ WF_vars(WorkerMoves(w))
       /\ SF_vars(Prepare(w)) /\ SF_vars(Retrieve(w)) /\ SF_vars(Search(w))
       /\ \A id \in RefundIds : SF_vars(worker[w].answer.id = id /\ Apply(w))

JobSpec == Spec /\ JobFairness

\* Money that went back is entered in the books, even if every answer to the
\* call that sent it was lost and Stripe forgot its key.
RepaidIsEntered ==
  \A id \in RefundIds : stripe[id].status = "succeeded" ~> refund = "succeeded"

(***************************************************************************)
(* The promise this implements.                                            *)
(***************************************************************************)
Owed == CASE refund = "none"                  -> "none"
          [] refund \in {"pending", "failed"} -> "owed"
          [] refund = "succeeded"             -> "repaid"
          [] refund = "canceled"              -> "canceled"

PaidOut == {id \in RefundIds : stripe[id].status = "succeeded"}

Promise == INSTANCE RefundPromise WITH Refunds <- RefundIds, owed <- Owed, paidOut <- PaidOut

\* The money goes out once, and is entered only after it went out.
ImplementsPromise == Promise!Spec
=============================================================================
