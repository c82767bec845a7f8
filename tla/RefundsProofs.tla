---------------------------- MODULE RefundsProofs ----------------------------
(***************************************************************************)
(* Proofs about Refunds, for every value of its constants.                 *)
(*                                                                         *)
(* That money goes back once rests on two facts.  An attempt has at most   *)
(* one refund at Stripe, because a call under way reaches Stripe while the *)
(* key of its attempt is remembered (OneRefundPerAttempt, WorkersInTime);  *)
(* and an attempt is followed by another only when its refund failed for   *)
(* good (Replaced).  The rest of the invariant says that what is known of  *)
(* a refund, in a row or in an answer under way, is true if it is final.   *)
(***************************************************************************)
EXTENDS Refunds, TLAPS

Numbers == 1..Latest

\* What is final in an answer about a refund is what became of it.
TrueOf(id, status) == status \in TERMINAL => stripe[id].status = status

RefundsOfAttempts ==
  \A id \in RefundIds : Exists(id) =>
    /\ stripe[id].number \in Numbers
    /\ attempts[stripe[id].number].created <= stripe[id].since
    /\ TrueOf(id, stripe[id].first)

OneRefundPerAttempt ==
  \A i, j \in RefundIds :
    Exists(i) /\ Exists(j) /\ stripe[i].number = stripe[j].number => i = j

AttemptsAreTrue ==
  \A n \in Numbers :
    /\ attempts[n].provider # NoRefund =>
         /\ attempts[n].provider \in Of(n)
         /\ TrueOf(attempts[n].provider, attempts[n].status)
    /\ attempts[n].status \in TERMINAL => attempts[n].provider # NoRefund

Replaced == \A n \in Numbers : n < Latest => attempts[n].status = "failed"

\* What a thread is about to do is about an attempt that was made.
OnAttempt(row) ==
  /\ row.pc # "idle" => row.number \in Numbers
  /\ row.pc = "ask" /\ row.known # NoRefund => row.known \in Of(row.number)
  /\ row.pc = "apply" =>
       /\ row.answer.id \in Of(row.number)
       /\ TrueOf(row.answer.id, row.answer.status)

\* A call under way was sent in time, and is in time.
InTime(row) ==
  row.pc = "sent" => /\ row.asked <= attempts[row.number].created + Window
                     /\ now <= row.asked + CallLife

CreatedBefore == \A n \in Numbers : attempts[n].created <= now

WorkersOnAttempts == \A w \in Workers : OnAttempt(worker[w])
WorkersInTime     == \A w \in Workers : InTime(worker[w])

\* The obligation says what the latest attempt says, once that is final.
Books ==
  /\ refund = "none" => Latest = 0
  /\ refund = "succeeded" <=> payment = "refunded"
  /\ \A status \in {"succeeded", "canceled"} :
       refund = status <=> Latest # 0 /\ attempts[Latest].status = status

IInv ==
  /\ TypeOK
  /\ RefundsOfAttempts /\ OneRefundPerAttempt
  /\ AttemptsAreTrue /\ Replaced /\ CreatedBefore
  /\ WorkersOnAttempts /\ WorkersInTime
  /\ Books

USE DEF TERMINAL, PROVIDER, RefundStatus

-----------------------------------------------------------------------------
\* Latest is a number, 0 if there is no attempt, and every attempt is one.
LEMMA AttemptTypes ==
  ASSUME TypeOK
  PROVE  /\ Latest \in Nat
         /\ \A n \in Numbers : n \in Nat \ {0} /\ n <= Latest /\ attempts[n] \in Attempt
         /\ Latest # 0 => Latest \in Numbers
         /\ DOMAIN attempts = Numbers
  BY DEF TypeOK, Latest, Numbers

\* Initially nothing is owed.
LEMMA InitInv == Init => IInv
<1> SUFFICES ASSUME Init PROVE IInv
  OBVIOUS
<1>1. TypeOK
  BY DEF Init, TypeOK, Attempt, Refund, Worker, Answer, NoAnswer, Idle
<1>2. Latest = 0 /\ Numbers = {}
  BY DEF Init, Latest, Numbers
<1>3. \A id \in RefundIds : ~Exists(id)
  BY DEF Init, Exists
<1>4. \A w \in Workers : worker[w].pc = "idle"
  BY DEF Init, Idle
<1> QED
  BY <1>1, <1>2, <1>3, <1>4
  DEF IInv, RefundsOfAttempts, OneRefundPerAttempt, AttemptsAreTrue, Replaced, CreatedBefore,
      WorkersOnAttempts, OnAttempt, WorkersInTime, InTime, Books, Init

(***************************************************************************)
(* What the invariant says of the state.                                   *)
(***************************************************************************)
\* An attempt that was replaced has one refund at Stripe, and it failed.
LEMMA ReplacedRefund ==
  ASSUME IInv, NEW n \in Numbers, n < Latest
  PROVE  /\ attempts[n].status = "failed"
         /\ attempts[n].provider \in Of(n)
         /\ \A id \in Of(n) : id = attempts[n].provider /\ stripe[id].status = "failed"
<1>1. attempts[n].status = "failed"
  BY DEF IInv, Replaced
<1>2. attempts[n].provider \in Of(n) /\ stripe[attempts[n].provider].status = "failed"
  BY <1>1 DEF IInv, AttemptsAreTrue, TrueOf
<1> QED BY <1>1, <1>2 DEF IInv, OneRefundPerAttempt, Of

\* A refund that is alive is the latest attempt's.
LEMMA AliveIsLatest ==
  ASSUME IInv, NEW id \in RefundIds, Alive(id)
  PROVE  stripe[id].number = Latest /\ id \in Of(Latest) /\ Latest \in Numbers
<1>1. Exists(id) /\ stripe[id].number \in Numbers
  BY DEF Alive, Exists, IInv, RefundsOfAttempts
<1>2. stripe[id].number <= Latest /\ stripe[id].number \in Nat /\ Latest \in Nat
  BY <1>1, AttemptTypes DEF IInv
<1>3. ~(stripe[id].number < Latest)
  BY <1>1, ReplacedRefund DEF Of, Alive
<1> QED BY <1>1, <1>2, <1>3 DEF Of

\* Hence at most one is.
LEMMA OneAlive == IInv => PaidBackOnce
  BY AliveIsLatest DEF IInv, OneRefundPerAttempt, PaidBackOnce, Of

\* A call under way finds its attempt's refund remembered, if there is one.
LEMMA KeyIsRemembered ==
  ASSUME IInv, NEW w \in Workers, worker[w].pc = "sent"
  PROVE  Of(worker[w].number) = Remembered(worker[w].number)
<1> DEFINE n == worker[w].number
<1>1. n \in Numbers /\ attempts[n].created \in Nat /\ now \in Nat /\ worker[w].asked \in Nat
  BY AttemptTypes DEF IInv, WorkersOnAttempts, OnAttempt, Attempt, TypeOK, Worker
<1>2. now <= attempts[n].created + Window + CallLife
  BY <1>1, KeyAssumption DEF IInv, WorkersInTime, InTime
<1>3. ASSUME NEW id \in Of(n)
      PROVE  now < stripe[id].since + KeyLife
  <2>1. attempts[n].created <= stripe[id].since /\ stripe[id].since \in Nat
    BY DEF IInv, TypeOK, Refund, RefundsOfAttempts, Of
  <2> QED BY <1>1, <1>2, <2>1, KeyAssumption
<1> QED BY <1>3 DEF Remembered

(***************************************************************************)
(* Every action keeps the invariant.                                       *)
(***************************************************************************)
\* A step of one thread that moves nothing else, if where it goes is right.
LEMMA ThreadMoved ==
  ASSUME IInv, NEW w \in Workers, NEW row \in Worker, OnAttempt(row), InTime(row),
         worker' = [worker EXCEPT ![w] = row],
         UNCHANGED <<now, payment, refund, attempts, stripe>>
  PROVE  IInv'
<1>1. TypeOK'
  BY DEF IInv, TypeOK
<1>2. \A v \in Workers : OnAttempt(worker'[v]) /\ InTime(worker'[v])
  BY DEF IInv, TypeOK, WorkersOnAttempts, WorkersInTime
<1>3. WorkersOnAttempts' /\ WorkersInTime'
  BY <1>2 DEF WorkersOnAttempts, WorkersInTime, OnAttempt, InTime, Numbers, Latest, Of, Exists, TrueOf
<1> QED
  BY <1>1, <1>3
  DEF IInv, RefundsOfAttempts, OneRefundPerAttempt, AttemptsAreTrue, Replaced, CreatedBefore, Books,
      Numbers, Latest, Of, Exists, TrueOf

\* A thread that ends is about nothing.
LEMMA IdleIsRight == Idle \in Worker /\ OnAttempt(Idle) /\ InTime(Idle)
  BY DEF Idle, NoAnswer, Worker, Answer, OnAttempt, InTime

\* A thread whose call failed has only to say so.
LEMMA FailedIsRight ==
  ASSUME IInv, NEW w \in Workers, worker[w].pc # "idle"
  PROVE  /\ [worker[w] EXCEPT !.pc = "failed"] \in Worker
         /\ OnAttempt([worker[w] EXCEPT !.pc = "failed"])
         /\ InTime([worker[w] EXCEPT !.pc = "failed"])
  BY DEF IInv, TypeOK, Worker, WorkersOnAttempts, OnAttempt, InTime

\* A cancellation requests a refund of an approved payment.
LEMMA RequestStep == IInv /\ Request => IInv'
<1> SUFFICES ASSUME IInv, Request PROVE IInv'
  OBVIOUS
<1>1. UNCHANGED <<now, attempts, stripe, worker>>
  BY DEF Request
<1>2. Latest' = Latest /\ Numbers' = Numbers
  BY <1>1 DEF Latest, Numbers
<1>3. TypeOK' /\ Books'
  BY <1>2 DEF Request, IInv, TypeOK, Books
<1> QED
  BY <1>1, <1>2, <1>3
  DEF IInv, RefundsOfAttempts, OneRefundPerAttempt, AttemptsAreTrue, Replaced, CreatedBefore,
      WorkersOnAttempts, OnAttempt, WorkersInTime, InTime, Of, Exists, TrueOf

\* A payment that comes late is owed, and one repaid stays repaid.
LEMMA LatePaymentStep == IInv /\ LatePayment => IInv'
<1> SUFFICES ASSUME IInv, LatePayment PROVE IInv'
  OBVIOUS
<1>1. UNCHANGED <<now, attempts, stripe, worker>>
  BY DEF LatePayment
<1>2. Latest' = Latest /\ Numbers' = Numbers
  BY <1>1 DEF Latest, Numbers
<1>3. TypeOK' /\ Books'
  BY <1>2 DEF LatePayment, AfterLatePayment, IInv, TypeOK, Books
<1> QED
  BY <1>1, <1>2, <1>3
  DEF IInv, RefundsOfAttempts, OneRefundPerAttempt, AttemptsAreTrue, Replaced, CreatedBefore,
      WorkersOnAttempts, OnAttempt, WorkersInTime, InTime, Of, Exists, TrueOf

\* Preparing takes the latest attempt, or makes one when it failed for good.
LEMMA PrepareStep ==
  ASSUME IInv, NEW w \in Workers, Prepare(w)
  PROVE  IInv'
<1> DEFINE row == [Idle EXCEPT !.pc = "ask", !.number = Len(attempts'),
                               !.known = attempts'[Len(attempts')].provider]
<1>1. CASE ~NeedsKey
  <2>1. UNCHANGED <<now, payment, refund, attempts, stripe>> /\ worker' = [worker EXCEPT ![w] = row]
    BY <1>1 DEF Prepare
  <2>2. Latest \in Numbers /\ attempts[Latest] \in Attempt /\ Latest \in Nat
    BY <1>1, AttemptTypes DEF NeedsKey, IInv
  <2>3. row = [Idle EXCEPT !.pc = "ask", !.number = Latest, !.known = attempts[Latest].provider]
    BY <2>1 DEF Latest
  <2>4. row \in Worker /\ OnAttempt(row) /\ InTime(row)
    BY <2>2, <2>3 DEF Idle, NoAnswer, Worker, Answer, Attempt, OnAttempt, InTime, IInv, AttemptsAreTrue
  <2> HIDE DEF row
  <2> QED BY <2>1, <2>4, ThreadMoved
<1>2. CASE NeedsKey
  <2> DEFINE new == [status |-> "pending", provider |-> NoRefund, created |-> now]
  <2>1. /\ attempts' = Append(attempts, new) /\ worker' = [worker EXCEPT ![w] = row]
        /\ UNCHANGED <<now, payment, refund, stripe>> /\ refund \in {"pending", "failed"}
    BY <1>2 DEF Prepare, Unsettled
  <2>2. new \in Attempt
    BY DEF Attempt, IInv, TypeOK
  <2>3. /\ attempts' \in Seq(Attempt) /\ Latest' = Latest + 1 /\ Latest \in Nat
        /\ attempts'[Latest'] = new /\ \A n \in Numbers : attempts'[n] = attempts[n]
    BY <2>1, <2>2 DEF Latest, Numbers, IInv, TypeOK
  <2>4. Numbers' = Numbers \cup {Latest'}
    BY <2>3 DEF Numbers
  <2>5. row = [Idle EXCEPT !.pc = "ask", !.number = Latest', !.known = NoRefund]
    BY <2>3 DEF Latest
  <2>6. row \in Worker
    <3>1. Latest' \in Nat
      BY <2>3
    <3> HIDE DEF row
    <3> QED BY <2>5, <3>1 DEF Idle, NoAnswer, Worker, Answer
  <2>7. TypeOK'
    BY <2>1, <2>3, <2>6 DEF IInv, TypeOK
  <2>8. \A n : Of(n)' = Of(n)
    BY <2>1 DEF Of, Exists
  <2>9. RefundsOfAttempts' /\ OneRefundPerAttempt'
    BY <2>1, <2>3, <2>4 DEF IInv, RefundsOfAttempts, OneRefundPerAttempt, Exists, TrueOf
  <2>10. AttemptsAreTrue'
    <3>1. attempts'[Latest'].provider = NoRefund /\ attempts'[Latest'].status = "pending"
      BY <2>3
    <3> QED BY <2>1, <2>3, <2>4, <2>8, <3>1, ZenonT(60) DEF IInv, AttemptsAreTrue, TrueOf
  <2>11. Replaced'
    BY <1>2, <2>3, <2>4, AttemptTypes DEF IInv, Replaced, NeedsKey
  <2>12. WorkersOnAttempts'
    <3>1. row.pc = "ask" /\ row.number \in Numbers' /\ row.known = NoRefund
      BY <2>4, <2>5 DEF Idle
    <3> HIDE DEF row
    <3>2. ASSUME NEW v \in Workers PROVE OnAttempt(worker[v])'
      <4>1. CASE v = w
        <5>1. worker'[v] = row
          BY <2>1, <4>1 DEF IInv, TypeOK
        <5> QED BY <3>1, <5>1 DEF OnAttempt
      <4>2. CASE v # w
        <5>1. worker'[v] = worker[v] /\ OnAttempt(worker[v])
          BY <2>1, <4>2 DEF IInv, TypeOK, WorkersOnAttempts
        <5> QED BY <2>1, <2>4, <2>8, <5>1 DEF OnAttempt, TrueOf
      <4> QED BY <4>1, <4>2
    <3> QED BY <3>2 DEF WorkersOnAttempts
  <2>13. WorkersInTime'
    BY <2>1, <2>3, <2>5 DEF IInv, TypeOK, WorkersOnAttempts, OnAttempt, WorkersInTime, InTime, Idle
  <2>14. Books'
    <3>1. attempts'[Latest'].status = "pending" /\ Latest' # 0
      BY <2>3
    <3>2. refund' \in {"pending", "failed"} /\ payment' = payment
      BY <2>1
    <3> QED BY <2>1, <3>1, <3>2 DEF IInv, Books
  <2>15. CreatedBefore'
    <3>1. attempts'[Latest'].created <= now'
      <4>1. attempts'[Latest'].created = now
        BY <2>3
      <4>2. now' = now /\ now \in Nat
        BY <2>1 DEF IInv, TypeOK
      <4> QED BY <4>1, <4>2
    <3>2. \A n \in Numbers : attempts'[n].created <= now'
      BY <2>1, <2>3 DEF IInv, CreatedBefore
    <3> QED BY <2>4, <3>1, <3>2 DEF CreatedBefore
  <2> QED BY <2>7, <2>9, <2>10, <2>11, <2>12, <2>13, <2>14, <2>15 DEF IInv
<1> QED BY <1>1, <1>2

\* An answer read from Stripe is true when it is read.
LEMMA PresentAnswer ==
  ASSUME IInv, NEW row \in Worker, NEW n \in Numbers, NEW id \in Of(n)
  PROVE  LET answered == [row EXCEPT !.pc = "apply", !.number = n,
                                     !.answer = [id |-> id, status |-> stripe[id].status]]
         IN answered \in Worker /\ OnAttempt(answered) /\ InTime(answered)
<1> DEFINE answered == [row EXCEPT !.pc = "apply", !.number = n,
                                   !.answer = [id |-> id, status |-> stripe[id].status]]
<1>1. [id |-> id, status |-> stripe[id].status] \in Answer
  BY DEF IInv, TypeOK, Refund, Of, Exists, Answer
<1>2. answered \in Worker
  BY <1>1, AttemptTypes DEF IInv, Worker
<1>3. OnAttempt(answered) /\ InTime(answered)
  BY <1>1 DEF OnAttempt, InTime, TrueOf, Worker
<1> QED BY <1>2, <1>3

\* Retrieve answers with the present state of the refund known to the attempt.
LEMMA RetrieveStep ==
  ASSUME IInv, NEW w \in Workers, Retrieve(w)
  PROVE  IInv'
<1> DEFINE id  == worker[w].known
           n   == worker[w].number
           row == [worker[w] EXCEPT !.pc = "apply", !.number = n,
                                    !.answer = [id |-> id, status |-> stripe[id].status]]
<1>1. worker[w] \in Worker /\ n \in Numbers /\ id \in Of(n)
  BY DEF Retrieve, IInv, TypeOK, WorkersOnAttempts, OnAttempt
<1>2. row \in Worker /\ OnAttempt(row) /\ InTime(row)
  BY <1>1, PresentAnswer
<1>3. worker' = [worker EXCEPT ![w] = row]
  BY <1>1 DEF Retrieve, Answered, Worker, IInv, TypeOK
<1> HIDE DEF row
<1> QED BY <1>2, <1>3, ThreadMoved DEF Retrieve

\* Search answers with the present state of a refund of the attempt, or fails.
LEMMA SearchStep ==
  ASSUME IInv, NEW w \in Workers, Search(w)
  PROVE  IInv'
<1> DEFINE n == worker[w].number
<1>1. worker[w] \in Worker /\ n \in Numbers
  BY DEF Search, IInv, TypeOK, WorkersOnAttempts, OnAttempt
<1>2. ASSUME NEW id \in Of(n), Answered(w, id, stripe[id].status)
      PROVE  IInv'
  <2> DEFINE row == [worker[w] EXCEPT !.pc = "apply", !.number = n,
                                      !.answer = [id |-> id, status |-> stripe[id].status]]
  <2>1. row \in Worker /\ OnAttempt(row) /\ InTime(row)
    BY <1>1, PresentAnswer
  <2>2. worker' = [worker EXCEPT ![w] = row]
    BY <1>1, <1>2 DEF Answered, Worker, IInv, TypeOK
  <2> HIDE DEF row
  <2> QED BY <2>1, <2>2, ThreadMoved DEF Search
<1>3. ASSUME CallFailed(w)
      PROVE  IInv'
  <2>1. worker' = [worker EXCEPT ![w] = [worker[w] EXCEPT !.pc = "failed"]]
    BY <1>3 DEF CallFailed, IInv, TypeOK
  <2> QED BY <2>1, FailedIsRight, ThreadMoved DEF Search
<1> QED BY <1>2, <1>3 DEF Search

\* A call is sent while its attempt is young enough.
LEMMA SendStep ==
  ASSUME IInv, NEW w \in Workers, Send(w)
  PROVE  IInv'
<1> DEFINE n   == worker[w].number
           row == [worker[w] EXCEPT !.pc = "sent", !.asked = now]
<1>1. worker[w] \in Worker /\ n \in Numbers /\ now \in Nat /\ CallLife \in Nat /\ Window \in Nat
  BY KeyAssumption DEF Send, IInv, TypeOK, WorkersOnAttempts, OnAttempt
<1>2. attempts[n].created \in Nat
  BY <1>1, AttemptTypes DEF IInv, Attempt
<1>3. row \in Worker /\ OnAttempt(row)
  BY <1>1 DEF Worker, OnAttempt
<1>4. InTime(row)
  BY <1>1, <1>2 DEF Send, TooOld, InTime, Worker
<1>5. worker' = [worker EXCEPT ![w] = row]
  BY <1>1 DEF Send, Worker, IInv, TypeOK
<1> HIDE DEF row
<1> QED BY <1>3, <1>4, <1>5, ThreadMoved DEF Send

\* A call that fails leaves a thread that says so.
LEMMA CallFailsStep ==
  ASSUME IInv, NEW w \in Workers, CallFails(w)
  PROVE  IInv'
<1>1. worker' = [worker EXCEPT ![w] = [worker[w] EXCEPT !.pc = "failed"]]
  BY DEF CallFails, CallFailed, IInv, TypeOK
<1> QED BY <1>1, FailedIsRight, ThreadMoved DEF CallFails

\* A thread that dies leaves the rest as it was.
LEMMA CrashStep ==
  ASSUME IInv, NEW w \in Workers, Crash(w)
  PROVE  IInv'
  BY IdleIsRight, ThreadMoved DEF Crash, Finish

\* A webhook brings the present state of a refund.
LEMMA WebhookStep ==
  ASSUME IInv, NEW w \in Workers, NEW id \in RefundIds, Webhook(w, id)
  PROVE  IInv'
<1> DEFINE n   == stripe[id].number
           row == [[Idle EXCEPT !.event = TRUE] EXCEPT !.pc = "apply", !.number = n,
                     !.answer = [id |-> id, status |-> stripe[id].status]]
<1>1. n \in Numbers /\ id \in Of(n)
  BY DEF Webhook, IInv, RefundsOfAttempts, Of
<1>2. [Idle EXCEPT !.event = TRUE] \in Worker
  BY DEF Idle, NoAnswer, Worker, Answer
<1>3. row \in Worker /\ OnAttempt(row) /\ InTime(row)
  BY <1>1, <1>2, PresentAnswer
<1>4. worker' = [worker EXCEPT ![w] = row]
  BY DEF Webhook, Idle
<1> HIDE DEF row
<1> QED BY <1>3, <1>4, ThreadMoved DEF Webhook

\* An error is entered only against an obligation that is still open.
LEMMA FailedStep ==
  ASSUME IInv, NEW w \in Workers, Failed(w)
  PROVE  IInv'
<1>1. UNCHANGED <<now, payment, attempts, stripe>> /\ worker' = [worker EXCEPT ![w] = Idle]
  BY DEF Failed, Finish
<1>2. Latest' = Latest /\ Numbers' = Numbers /\ Latest # 0
  <2>1. worker[w].number \in Numbers
    BY DEF Failed, IInv, WorkersOnAttempts, OnAttempt
  <2> QED BY <1>1, <2>1 DEF Latest, Numbers
<1>3. Books'
  BY <1>1, <1>2 DEF Failed, IInv, Books
<1>4. TypeOK'
  BY <1>1, IdleIsRight DEF Failed, IInv, TypeOK
<1>5. \A v \in Workers : OnAttempt(worker'[v]) /\ InTime(worker'[v])
  BY <1>1, IdleIsRight DEF IInv, TypeOK, WorkersOnAttempts, WorkersInTime
<1>6. WorkersOnAttempts' /\ WorkersInTime'
  BY <1>1, <1>2, <1>5 DEF WorkersOnAttempts, WorkersInTime, OnAttempt, InTime, Of, Exists, TrueOf
<1> QED
  BY <1>1, <1>2, <1>3, <1>4, <1>6
  DEF IInv, RefundsOfAttempts, OneRefundPerAttempt, AttemptsAreTrue, Replaced, CreatedBefore, Of, Exists, TrueOf

\* Time passes only while every call under way is in time.
LEMMA TickStep == IInv /\ Tick => IInv'
<1> SUFFICES ASSUME IInv, Tick PROVE IInv'
  OBVIOUS
<1>1. UNCHANGED <<payment, refund, attempts, stripe, worker>> /\ now' = now + 1
  BY DEF Tick
<1>2. Latest' = Latest /\ Numbers' = Numbers
  BY <1>1 DEF Latest, Numbers
<1>3. TypeOK'
  BY <1>1 DEF IInv, TypeOK
<1>4. WorkersInTime'
  <2>1. \A w \in Workers : worker[w].pc = "sent" => now + 1 <= worker[w].asked + CallLife
    BY KeyAssumption DEF Tick, IInv, TypeOK, Worker
  <2> QED BY <1>1, <2>1 DEF IInv, WorkersInTime, InTime
<1>5. CreatedBefore'
  BY <1>1, <1>2, AttemptTypes DEF IInv, TypeOK, Attempt, CreatedBefore
<1> QED
  BY <1>1, <1>2, <1>3, <1>4, <1>5
  DEF IInv, RefundsOfAttempts, OneRefundPerAttempt, AttemptsAreTrue, Replaced,
      WorkersOnAttempts, OnAttempt, Books, Of, Exists, TrueOf

\* A thread's row is the only one that changes, and it is right.
LEMMA ThreadsRight ==
  ASSUME TypeOK, NEW w \in Workers, NEW row \in Worker, worker' = [worker EXCEPT ![w] = row],
         OnAttempt(row)', InTime(row)',
         \A v \in Workers \ {w} : OnAttempt(worker[v])' /\ InTime(worker[v])'
  PROVE  worker' \in [Workers -> Worker] /\ WorkersOnAttempts' /\ WorkersInTime'
<1>1. worker' \in [Workers -> Worker]
  BY DEF TypeOK
<1>2. \A v \in Workers : worker'[v] = IF v = w THEN row ELSE worker[v]
  BY DEF TypeOK
<1>3. \A v \in Workers : OnAttempt(worker[v])' /\ InTime(worker[v])'
  BY <1>2 DEF OnAttempt, InTime
<1> QED BY <1>1, <1>3 DEF WorkersOnAttempts, WorkersInTime

\* The call reaches Stripe: it answers as before for a key that it remembers,
\* which is the key of any attempt that has a refund, or makes the refund.
LEMMA StripeRefundsStep ==
  ASSUME IInv, NEW w \in Workers, StripeRefunds(w)
  PROVE  IInv'
<1> DEFINE n == worker[w].number
<1>1. worker[w] \in Worker /\ n \in Numbers /\ worker[w].pc = "sent"
  BY DEF StripeRefunds, IInv, TypeOK, WorkersOnAttempts, OnAttempt
<1>2. Of(n) = Remembered(n)
  BY <1>1, KeyIsRemembered
<1>3. ASSUME NEW id \in Remembered(n), Answered(w, id, stripe[id].first), UNCHANGED stripe
      PROVE  IInv'
  <2> DEFINE row == [worker[w] EXCEPT !.pc = "apply",
                                      !.answer = [id |-> id, status |-> stripe[id].first]]
  <2>1. id \in Of(n) /\ id \in RefundIds /\ Exists(id)
    BY <1>2, <1>3 DEF Of
  <2>2. [id |-> id, status |-> stripe[id].first] \in Answer
    BY <2>1 DEF IInv, TypeOK, Refund, Answer
  <2>3. row \in Worker
    BY <1>1, <2>2 DEF Worker
  <2>4. OnAttempt(row) /\ InTime(row)
    BY <1>1, <2>1 DEF OnAttempt, InTime, Worker, IInv, RefundsOfAttempts
  <2>5. worker' = [worker EXCEPT ![w] = row]
    BY <1>3 DEF Answered, IInv, TypeOK
  <2> HIDE DEF row
  <2> QED BY <1>3, <2>3, <2>4, <2>5, ThreadMoved DEF StripeRefunds
<1>4. ASSUME Remembered(n) = {}, NEW id \in RefundIds, NEW status \in PROVIDER \ {"canceled"}, ~Exists(id),
             stripe' = [stripe EXCEPT ![id] = [status |-> status, number |-> n,
                                               first |-> status, since |-> now]],
             Answered(w, id, status) \/ CallFailed(w)
      PROVE  IInv'
  <2> DEFINE made == [status |-> status, number |-> n, first |-> status, since |-> now]
  <2>1. UNCHANGED <<now, payment, refund, attempts>>
    BY DEF StripeRefunds
  <2>2. Latest' = Latest /\ Numbers' = Numbers
    BY <2>1 DEF Latest, Numbers
  <2>3. made \in Refund /\ n \in Nat /\ now \in Nat /\ attempts[n].created <= now
    <3>1. attempts[n].created \in Nat /\ n \in Nat /\ now \in Nat
      BY <1>1, AttemptTypes DEF IInv, TypeOK, Attempt
    <3>2. attempts[n].created <= now
      BY <1>1 DEF IInv, CreatedBefore
    <3> QED BY <3>1, <3>2 DEF Refund
  <2>4. stripe' \in [RefundIds -> Refund] /\ stripe'[id] = made
        /\ \A i \in RefundIds \ {id} : stripe'[i] = stripe[i]
    BY <1>4, <2>3 DEF IInv, TypeOK
  <2>5. \A i \in RefundIds : Exists(i)' <=> Exists(i) \/ i = id
    BY <1>4, <2>4 DEF Exists
  <2>6. (\A m : Of(m) \subseteq Of(m)') /\ Exists(id)' /\ stripe'[id].number = n
    <3>1. \A i \in RefundIds : Exists(i) => Exists(i)' /\ stripe'[i].number = stripe[i].number
      BY <1>4, <2>4, <2>5
    <3>2. stripe'[id].number = n
      BY <2>4
    <3> QED BY <2>5, <3>1, <3>2 DEF Of
  <2>7. \A i \in RefundIds : Exists(i) => i # id /\ stripe[i].number # n
    BY <1>2, <1>4 DEF Of
  <2>8. RefundsOfAttempts'
    BY <1>1, <2>1, <2>2, <2>3, <2>4, <2>5 DEF IInv, RefundsOfAttempts, TrueOf
  <2>9. OneRefundPerAttempt'
    BY <2>4, <2>5, <2>7 DEF IInv, OneRefundPerAttempt
  <2>10. AttemptsAreTrue'
    BY <2>1, <2>2, <2>4, <2>6, <2>7 DEF IInv, AttemptsAreTrue, TrueOf, Of
  <2>11. Replaced' /\ CreatedBefore' /\ Books'
    BY <2>1, <2>2 DEF IInv, Replaced, CreatedBefore, Books
  <2>12. \A v \in Workers : OnAttempt(worker[v]) /\ InTime(worker[v])
    BY DEF IInv, WorkersOnAttempts, WorkersInTime
  <2>13. \A i \in RefundIds : \A s : Exists(i) /\ TrueOf(i, s) => TrueOf(i, s)'
    BY <2>4, <2>7 DEF TrueOf
  <2>14. ASSUME NEW row \in Worker, row.pc # "idle" => row.number \in Numbers,
                row.pc = "failed" \/ (row.pc = "apply" /\ row.number = n
                                      /\ row.answer = [id |-> id, status |-> status]),
                worker' = [worker EXCEPT ![w] = row]
         PROVE  worker' \in [Workers -> Worker] /\ WorkersOnAttempts' /\ WorkersInTime'
    <3>1. ASSUME NEW v \in Workers \ {w} PROVE worker'[v] = worker[v]
      BY <2>14 DEF IInv, TypeOK
    <3>2. TrueOf(id, status)'
      BY <2>4 DEF TrueOf
    <3>3. OnAttempt(row)' /\ InTime(row)'
      BY <2>2, <2>6, <2>14, <3>2 DEF OnAttempt, InTime, Of
    <3>4. ASSUME NEW v \in Workers \ {w} PROVE OnAttempt(worker[v])' /\ InTime(worker[v])'
      BY <2>1, <2>2, <2>6, <2>12, <2>13, <3>1 DEF OnAttempt, InTime, Of
    <3>5. TypeOK
      BY DEF IInv
    <3> QED BY <2>14, <3>3, <3>4, <3>5, ThreadsRight
  <2>15. worker' \in [Workers -> Worker] /\ WorkersOnAttempts' /\ WorkersInTime'
    <3>1. CASE Answered(w, id, status)
      <4> DEFINE row == [worker[w] EXCEPT !.pc = "apply", !.answer = [id |-> id, status |-> status]]
      <4>1. row \in Worker /\ row.number = n /\ row.pc = "apply" /\ row.answer = [id |-> id, status |-> status]
        BY <1>1 DEF Worker, Answer
      <4>2. worker' = [worker EXCEPT ![w] = row]
        BY <3>1 DEF Answered, IInv, TypeOK
      <4> HIDE DEF row
      <4> QED BY <1>1, <2>14, <4>1, <4>2
    <3>2. CASE CallFailed(w)
      <4> DEFINE row == [worker[w] EXCEPT !.pc = "failed"]
      <4>1. row \in Worker /\ row.number = n /\ row.pc = "failed"
        BY <1>1 DEF Worker
      <4>2. worker' = [worker EXCEPT ![w] = row]
        BY <3>2 DEF CallFailed, IInv, TypeOK
      <4> HIDE DEF row
      <4> QED BY <1>1, <2>14, <4>1, <4>2
    <3> QED BY <1>4, <3>1, <3>2
  <2>16. TypeOK'
    BY <2>1, <2>4, <2>15 DEF IInv, TypeOK
  <2> QED BY <2>8, <2>9, <2>10, <2>11, <2>15, <2>16 DEF IInv
<1> QED BY <1>3, <1>4 DEF StripeRefunds

\* What becomes of a refund at Stripe does not undo what is known of it.
LEMMA StripeSettlesStep ==
  ASSUME IInv, NEW id \in RefundIds, StripeSettles(id)
  PROVE  IInv'
<1>1. UNCHANGED <<now, payment, refund, attempts, worker>>
  BY DEF StripeSettles
<1>2. Latest' = Latest /\ Numbers' = Numbers
  BY <1>1 DEF Latest, Numbers
<1>3. PICK status \in PROVIDER : stripe' = [stripe EXCEPT ![id].status = status]
  BY DEF StripeSettles
<1>4. stripe[id] \in Refund /\ stripe[id].status \in {"pending", "requires_action"}
  BY DEF StripeSettles, IInv, TypeOK
<1>5. [stripe[id] EXCEPT !.status = status] \in Refund
  BY <1>4 DEF Refund
<1>6. TypeOK'
  BY <1>1, <1>3, <1>5 DEF IInv, TypeOK
<1>7. \A i \in RefundIds :
        /\ stripe'[i].number = stripe[i].number /\ stripe'[i].since = stripe[i].since
        /\ stripe'[i].first = stripe[i].first
        /\ Exists(i)' <=> Exists(i)
        /\ \A s : TrueOf(i, s) => TrueOf(i, s)'
  BY <1>3, <1>4 DEF IInv, TypeOK, Refund, Exists, TrueOf
<1>8. \A n : Of(n)' = Of(n)
  BY <1>7 DEF Of
<1>9. RefundsOfAttempts' /\ OneRefundPerAttempt'
  BY <1>1, <1>2, <1>7 DEF IInv, RefundsOfAttempts, OneRefundPerAttempt, TrueOf
<1>10. AttemptsAreTrue'
  BY <1>1, <1>2, <1>7, <1>8 DEF IInv, AttemptsAreTrue, Of
<1>11. WorkersOnAttempts'
  BY <1>1, <1>2, <1>7, <1>8 DEF IInv, WorkersOnAttempts, OnAttempt, Of
<1>12. Replaced' /\ CreatedBefore' /\ WorkersInTime' /\ Books'
  BY <1>1, <1>2 DEF IInv, Replaced, CreatedBefore, WorkersInTime, InTime, Books
<1> QED BY <1>6, <1>9, <1>10, <1>11, <1>12 DEF IInv

\* An answer is applied to the attempt it was asked for.
LEMMA AboutItsAttempt ==
  ASSUME IInv, NEW w \in Workers, worker[w].pc = "apply"
  PROVE  /\ About(w) = worker[w].number /\ About(w) \in Numbers
         /\ attempts[About(w)].provider \in {NoRefund, worker[w].answer.id}
         /\ worker[w].answer.id \in Of(About(w))
         /\ TrueOf(worker[w].answer.id, worker[w].answer.status)
<1> DEFINE n  == worker[w].number
           id == worker[w].answer.id
<1>1. n \in Numbers /\ id \in Of(n) /\ TrueOf(id, worker[w].answer.status)
  BY DEF IInv, WorkersOnAttempts, OnAttempt
<1>2. id # NoRefund /\ DOMAIN attempts = Numbers
  BY <1>1, IdsAssumption, AttemptTypes DEF Of, IInv
<1>3. \A m \in DOMAIN attempts : attempts[m].provider = id => m = n
  BY <1>1, <1>2 DEF IInv, AttemptsAreTrue, Of
<1>4. About(w) = n
  BY <1>3 DEF About
<1>5. attempts[n].provider \in {NoRefund, id}
  BY <1>1 DEF IInv, AttemptsAreTrue, OneRefundPerAttempt, Of
<1> QED BY <1>1, <1>4, <1>5

\* Applying an answer enters what is true of the refund, and never goes back.
LEMMA ApplyStep ==
  ASSUME IInv, NEW w \in Workers, Apply(w)
  PROVE  /\ IInv'
         /\ \A m \in Numbers : attempts[m].status \in TERMINAL => attempts'[m] = attempts[m]
         /\ refund \in {"succeeded", "canceled"} => refund' = refund
<1> DEFINE n      == About(w)
           id     == worker[w].answer.id
           old    == attempts[n]
           status == Merge(attempts[n].status, worker[w].answer.status)
           new    == [old EXCEPT !.provider = id, !.status = status]
<1>1. /\ n \in Numbers /\ id \in Of(n) /\ id \in RefundIds /\ old.provider \in {NoRefund, id}
      /\ TrueOf(id, worker[w].answer.status) /\ n = worker[w].number
  BY AboutItsAttempt DEF Apply, Of
<1>2. /\ attempts' = [attempts EXCEPT ![n].provider = id, ![n].status = status]
      /\ refund' = IF n = Latest THEN status ELSE refund
      /\ payment' = IF n = Latest /\ status = "succeeded" THEN "refunded" ELSE payment
      /\ worker' = [worker EXCEPT ![w] = Idle]
      /\ UNCHANGED <<now, stripe>>
  BY <1>1 DEF Apply, Finish
<1>3. old \in Attempt /\ n \in Nat /\ Latest \in Nat /\ DOMAIN attempts = Numbers /\ Latest \in Numbers
  BY <1>1, AttemptTypes DEF IInv
<1>4. old.status \in TERMINAL => old.provider = id /\ TrueOf(id, old.status)
  BY <1>1 DEF IInv, AttemptsAreTrue
<1>5. /\ status \in RefundStatus /\ TrueOf(id, status)
      /\ old.status \in TERMINAL => status = old.status
  BY <1>1, <1>3, <1>4 DEF Merge, Local, TrueOf, Attempt
<1> HIDE DEF status
<1>6. new \in Attempt /\ (old.status \in TERMINAL => new = old)
  BY <1>1, <1>3, <1>4, <1>5 DEF Attempt
<1>7. attempts' = [attempts EXCEPT ![n] = new]
  BY <1>2
<1> HIDE DEF new, n, id
<1>8. /\ attempts' \in Seq(Attempt) /\ Latest' = Latest /\ Numbers' = Numbers
      /\ \A m \in Numbers : attempts'[m] = IF m = n THEN new ELSE attempts[m]
  BY <1>1, <1>3, <1>6, <1>7 DEF IInv, TypeOK, Latest, Numbers
<1>9. new.provider = id /\ new.status = status /\ new.created = old.created
  BY <1>3 DEF Attempt, new
<1>10. \A m \in Numbers : attempts[m].status \in TERMINAL => attempts'[m] = attempts[m]
  BY <1>6, <1>8
<1>11. \A m \in Numbers : attempts'[m].created = attempts[m].created
  BY <1>8, <1>9
<1>12. Books' /\ (refund \in {"succeeded", "canceled"} => refund' = refund)
  <2>1. CASE n = Latest
    BY <1>2, <1>3, <1>5, <1>8, <1>9, <2>1 DEF IInv, Books
  <2>2. CASE n # Latest
    BY <1>2, <1>3, <1>8, <2>2 DEF IInv, Books
  <2> QED BY <2>1, <2>2
<1>13. TypeOK'
  BY <1>2, <1>5, <1>8, IdleIsRight DEF IInv, TypeOK
<1>14. (\A m : Of(m)' = Of(m)) /\ (\A i, s : TrueOf(i, s)' <=> TrueOf(i, s))
  BY <1>2 DEF Of, Exists, TrueOf
<1>15. RefundsOfAttempts' /\ OneRefundPerAttempt'
  BY <1>2, <1>8, <1>11, ZenonT(60) DEF IInv, RefundsOfAttempts, OneRefundPerAttempt, Exists, TrueOf
<1>16. AttemptsAreTrue'
  <2>1. id # NoRefund
    BY <1>1, IdsAssumption
  <2> QED BY <1>1, <1>5, <1>8, <1>9, <1>14, <2>1 DEF IInv, AttemptsAreTrue
<1>17. Replaced' /\ CreatedBefore'
  BY <1>2, <1>8, <1>10, <1>11 DEF IInv, Replaced, CreatedBefore
<1>18. WorkersOnAttempts'
  <2>1. \A v \in Workers : OnAttempt(worker'[v])
    BY <1>2, IdleIsRight DEF IInv, TypeOK, WorkersOnAttempts
  <2> QED BY <1>8, <1>14, <2>1 DEF WorkersOnAttempts, OnAttempt
<1>19. WorkersInTime'
  <2>1. \A v \in Workers : InTime(worker'[v]) /\ OnAttempt(worker'[v])
    BY <1>2, IdleIsRight DEF IInv, TypeOK, WorkersInTime, WorkersOnAttempts
  <2> QED BY <1>2, <1>11, <2>1 DEF WorkersInTime, InTime, OnAttempt
<1> QED BY <1>10, <1>12, <1>13, <1>15, <1>16, <1>17, <1>18, <1>19 DEF IInv

\* Every action of every thread.
LEMMA ThreadInv ==
  ASSUME IInv, NEW w \in Workers, WorkerMoves(w)
  PROVE  IInv'
<1>1. CASE Retrieve(w)
  BY <1>1, RetrieveStep
<1>2. CASE Search(w)
  BY <1>2, SearchStep
<1>3. CASE Send(w)
  BY <1>3, SendStep
<1>4. CASE CallFails(w)
  BY <1>4, CallFailsStep
<1>5. CASE StripeRefunds(w)
  BY <1>5, StripeRefundsStep
<1>6. CASE Apply(w)
  BY <1>6, ApplyStep
<1>7. CASE Failed(w)
  BY <1>7, FailedStep
<1>8. CASE Crash(w)
  BY <1>8, CrashStep
<1> QED BY <1>1, <1>2, <1>3, <1>4, <1>5, <1>6, <1>7, <1>8 DEF WorkerMoves

\* Every step of the specification keeps the invariant.
LEMMA NextInv == IInv /\ [Next]_vars => IInv'
<1> SUFFICES ASSUME IInv, [Next]_vars PROVE IInv'
  OBVIOUS
<1>1. CASE Request
  BY <1>1, RequestStep
<1>2. CASE LatePayment
  BY <1>2, LatePaymentStep
<1>3. CASE Tick
  BY <1>3, TickStep
<1>4. ASSUME NEW w \in Workers, Prepare(w) \/ WorkerMoves(w) \/ \E id \in RefundIds : Webhook(w, id)
      PROVE  IInv'
  BY <1>4, PrepareStep, ThreadInv, WebhookStep
<1>5. ASSUME NEW id \in RefundIds, StripeSettles(id)
      PROVE  IInv'
  BY <1>5, StripeSettlesStep
<1>6. CASE UNCHANGED vars
  BY <1>6
  DEF vars, IInv, TypeOK, RefundsOfAttempts, OneRefundPerAttempt, AttemptsAreTrue, Replaced, CreatedBefore,
      WorkersOnAttempts, OnAttempt, WorkersInTime, InTime, Books, Numbers, Latest, Of, Exists, TrueOf
<1> QED BY <1>1, <1>2, <1>3, <1>4, <1>5, <1>6 DEF Next

\* The inductive invariant holds of every reachable state.
THEOREM Invariance == Spec => []IInv
<1> QED BY InitInv, NextInv, PTL DEF Spec

\* Every row and every answer under way has its type.
THEOREM TypeCorrect == Spec => []TypeOK
<1>1. IInv => TypeOK
  BY DEF IInv
<1> QED BY <1>1, Invariance, PTL

\* Whatever is retried or lost, for any number of attempts and threads, and any
\* window that leaves a call under way the time to arrive before Stripe forgets
\* its key, one refund at most is under way or done at Stripe.
THEOREM MoneyGoesBackOnce == Spec => []PaidBackOnce
<1> QED BY OneAlive, Invariance, PTL

\* A key was replaced only after its refund failed at Stripe.
THEOREM KeysAreReplacedAfterFailure == Spec => []ReplacedHasFailed
<1>1. IInv => ReplacedHasFailed
  <2> SUFFICES ASSUME IInv, NEW n \in 1..Latest - 1
               PROVE  /\ attempts[n].status = "failed" /\ attempts[n].provider \in Of(n)
                      /\ \A id \in Of(n) : stripe[id].status = "failed"
    BY DEF ReplacedHasFailed
  <2>1. n \in Numbers /\ n < Latest
    BY AttemptTypes DEF Numbers, IInv
  <2> QED BY <2>1, ReplacedRefund
<1> QED BY <1>1, Invariance, PTL

\* The books say repaid only of what Stripe repaid, and both tables agree.
THEOREM BooksAreTrue == Spec => []RepaidIsTrue
<1>1. IInv => RepaidIsTrue
  <2> SUFFICES ASSUME IInv PROVE RepaidIsTrue
    OBVIOUS
  <2>1. ASSUME refund = "succeeded" PROVE \E id \in Of(Latest) : stripe[id].status = "succeeded"
    <3>1. Latest \in Numbers /\ attempts[Latest].status = "succeeded"
      BY <2>1, AttemptTypes DEF IInv, Books
    <3> QED BY <3>1 DEF IInv, AttemptsAreTrue, TrueOf
  <2> QED BY <2>1 DEF IInv, Books, RepaidIsTrue
<1> QED BY <1>1, Invariance, PTL

\* A thread that has not come back with an answer changes no attempt, and
\* refund only to say that an open obligation failed.
LEMMA OnlyApplyIsFinal ==
  ASSUME IInv, [Next]_vars, \A w \in Workers : ~Apply(w)
  PROVE  /\ \A n \in Numbers : attempts'[n] = attempts[n]
         /\ \/ refund' = refund
            \/ refund = "none" /\ refund' = "pending"
            \/ refund \in {"pending", "failed"} /\ refund' = "failed"
<1>1. CASE \E w \in Workers : Prepare(w)
  <2>1. attempts \in Seq(Attempt) /\ DOMAIN attempts = Numbers
    BY AttemptTypes DEF IInv, TypeOK
  <2>2. PICK w \in Workers : Prepare(w)
    BY <1>1
  <2>3. \A e : \A n \in Numbers : Append(attempts, e)[n] = attempts[n]
    BY <2>1 DEF Latest, Numbers
  <2> QED BY <2>2, <2>3 DEF Prepare
<1>2. CASE \E w \in Workers : Failed(w)
  <2>1. PICK w \in Workers : Failed(w)
    BY <1>2
  <2>2. Latest # 0
    BY <2>1, AttemptTypes DEF Failed, IInv, WorkersOnAttempts, OnAttempt
  <2> QED BY <2>1, <2>2 DEF Failed, IInv, TypeOK, Books
<1>3. CASE Request \/ LatePayment
  BY <1>3 DEF Request, LatePayment
<1>4. CASE \E w \in Workers :
             Retrieve(w) \/ Search(w) \/ Send(w) \/ CallFails(w) \/ StripeRefunds(w) \/ Crash(w)
             \/ \E id \in RefundIds : Webhook(w, id)
  BY <1>4 DEF Retrieve, Search, Send, CallFails, StripeRefunds, Crash, Webhook
<1>5. CASE Tick \/ \E id \in RefundIds : StripeSettles(id)
  BY <1>5 DEF Tick, StripeSettles
<1>6. CASE UNCHANGED vars
  BY <1>6 DEF vars
<1> QED BY <1>1, <1>2, <1>3, <1>4, <1>5, <1>6 DEF Next, WorkerMoves

\* What ended, an attempt or the obligation, never changes again.
THEOREM EndedForGood == Spec => TerminalIsFinal
<1>1. IInv /\ [Next]_vars =>
        /\ refund \in {"succeeded", "canceled"} => refund' = refund
        /\ \A n \in DOMAIN attempts :
             attempts[n].status \in TERMINAL => attempts'[n] = attempts[n]
  <2> SUFFICES ASSUME IInv, [Next]_vars
               PROVE  /\ refund \in {"succeeded", "canceled"} => refund' = refund
                      /\ \A n \in DOMAIN attempts :
                           attempts[n].status \in TERMINAL => attempts'[n] = attempts[n]
    OBVIOUS
  <2>1. DOMAIN attempts = Numbers
    BY AttemptTypes DEF IInv
  <2>2. CASE \E w \in Workers : Apply(w)
    BY <2>1, <2>2, ApplyStep
  <2>3. CASE \A w \in Workers : ~Apply(w)
    BY <2>1, <2>3, OnlyApplyIsFinal
  <2> QED BY <2>2, <2>3
<1> QED BY <1>1, Invariance, PTL DEF Spec, TerminalIsFinal

(***************************************************************************)
(* The refinement: Refunds implements RefundPromise.                       *)
(***************************************************************************)
\* What the books say of the obligation agrees with what Stripe paid out.
Agree == /\ refund \in {"none", "canceled"} => PaidOut = {}
         /\ refund = "succeeded" => PaidOut # {}

\* It does, because the latest attempt's refund is what the obligation says.
LEMMA BooksAgree == IInv => Agree
<1> SUFFICES ASSUME IInv PROVE Agree
  OBVIOUS
<1>1. ASSUME NEW id \in PaidOut PROVE refund \notin {"none", "canceled"}
  <2>1. id \in Of(Latest) /\ Latest \in Numbers /\ stripe[id].status = "succeeded"
    BY <1>1, AliveIsLatest DEF PaidOut, Alive
  <2>2. refund # "none"
    BY <2>1, AttemptTypes DEF IInv, Books
  <2>3. refund # "canceled"
    <3> SUFFICES ASSUME refund = "canceled" PROVE FALSE
      OBVIOUS
    <3>1. attempts[Latest].provider \in Of(Latest) /\ stripe[attempts[Latest].provider].status = "canceled"
      BY <2>1 DEF IInv, Books, AttemptsAreTrue, TrueOf
    <3> QED BY <2>1, <3>1 DEF IInv, OneRefundPerAttempt, Of
  <2> QED BY <2>2, <2>3
<1>2. ASSUME refund = "succeeded" PROVE PaidOut # {}
  <2>1. Latest \in Numbers /\ attempts[Latest].status = "succeeded"
    BY <1>2, AttemptTypes DEF IInv, Books
  <2>2. attempts[Latest].provider \in Of(Latest) /\ stripe[attempts[Latest].provider].status = "succeeded"
    BY <2>1 DEF IInv, AttemptsAreTrue, TrueOf
  <2> QED BY <2>2 DEF PaidOut, Of
<1> QED BY <1>1, <1>2 DEF Agree

\* Stripe pays out or does not, while the books stay as they are.
LEMMA StripePaysOut ==
  ASSUME TypeOK, Agree, Agree', PaidBackOnce', refund' = refund,
         PaidOut' = PaidOut \/ \E id \in RefundIds : id \notin PaidOut /\ PaidOut' = PaidOut \cup {id}
  PROVE  [Promise!Next]_Promise!vars
<1>1. CASE PaidOut' = PaidOut
  BY <1>1 DEF Promise!vars, Owed
<1>2. ASSUME NEW id \in RefundIds, id \notin PaidOut, PaidOut' = PaidOut \cup {id}
      PROVE  Promise!PayOut(id)
  <2>1. \A i, j \in PaidOut' : i = j
    BY DEF PaidBackOnce, PaidOut, Alive
  <2>2. PaidOut = {}
    BY <1>2, <2>1
  <2>3. refund \notin {"none", "canceled", "succeeded"}
    BY <1>2, <2>2 DEF Agree
  <2>4. Owed = "owed" /\ Owed' = Owed
    BY <2>3 DEF Owed, TypeOK
  <2> QED BY <1>2, <2>2, <2>4 DEF Promise!PayOut
<1> QED BY <1>1, <1>2 DEF Promise!Next

\* The books change while Stripe pays nothing out.
LEMMA BooksChange ==
  ASSUME TypeOK, TypeOK', Agree', PaidOut' = PaidOut,
         \/ refund' = refund
         \/ refund = "none" /\ refund' = "pending"
         \/ refund \in {"pending", "failed"} /\ refund' # "none"
  PROVE  [Promise!Next]_Promise!vars
<1>1. CASE refund' = refund
  BY <1>1 DEF Promise!vars, Owed
<1>2. CASE refund = "none" /\ refund' = "pending"
  BY <1>2 DEF Promise!Next, Promise!Owe, Owed
<1>3. CASE refund \in {"pending", "failed"} /\ refund' \in {"pending", "failed"}
  BY <1>3 DEF Promise!vars, Owed
<1>4. CASE refund \in {"pending", "failed"} /\ refund' = "succeeded"
  BY <1>4 DEF Promise!Next, Promise!Enter, Owed, Agree
<1>5. CASE refund \in {"pending", "failed"} /\ refund' = "canceled"
  BY <1>5 DEF Promise!Next, Promise!GiveUp, Owed, Agree
<1> QED BY <1>1, <1>2, <1>3, <1>4, <1>5 DEF TypeOK

\* Every step of the attempts, of Stripe and of the books keeps the promise.
THEOREM ImplementsThePromise == Spec => ImplementsPromise
<1>1. Init => Promise!Init
  BY DEF Init, Promise!Init, Owed, PaidOut
<1>2. IInv /\ IInv' /\ Agree /\ Agree' /\ PaidBackOnce' /\ [Next]_vars
        => [Promise!Next]_Promise!vars
  <2> SUFFICES ASSUME IInv, IInv', Agree, Agree', PaidBackOnce', [Next]_vars
               PROVE  [Promise!Next]_Promise!vars
    OBVIOUS
  <2> USE DEF IInv
  <2>1. CASE \E w \in Workers : Apply(w)
    <3>1. PICK w \in Workers : Apply(w)
      BY <2>1
    <3>2. PaidOut' = PaidOut
      BY <3>1 DEF Apply, PaidOut
    <3>3. refund \in {"succeeded", "canceled"} => refund' = refund
      BY <3>1, ApplyStep
    <3>4. refund # "none" /\ refund' # "none"
      <4>1. worker[w].number \in Numbers /\ Latest \in Nat
        BY <3>1, AttemptTypes DEF Apply, WorkersOnAttempts, OnAttempt
      <4>2. Latest # 0
        BY <4>1, AttemptTypes
      <4>3. Latest' = Latest
        BY <3>1 DEF Apply, Latest, TypeOK
      <4> QED BY <4>2, <4>3 DEF Books
    <3> QED BY <3>2, <3>3, <3>4, BooksChange DEF TypeOK
  <2>2. CASE (\A w \in Workers : ~Apply(w)) /\ stripe' = stripe
    BY <2>2, OnlyApplyIsFinal, BooksChange DEF PaidOut
  <2>3. CASE \E w \in Workers : StripeRefunds(w)
    <3>1. PICK w \in Workers : StripeRefunds(w)
      BY <2>3
    <3>2. PaidOut' = PaidOut \/ \E id \in RefundIds : id \notin PaidOut /\ PaidOut' = PaidOut \cup {id}
      BY <3>1 DEF StripeRefunds, PaidOut, Exists, TypeOK
    <3> QED BY <3>1, <3>2, StripePaysOut DEF StripeRefunds
  <2>4. CASE \E id \in RefundIds : StripeSettles(id)
    <3>1. PICK id \in RefundIds : StripeSettles(id)
      BY <2>4
    <3>2. PaidOut' = PaidOut \/ (id \notin PaidOut /\ PaidOut' = PaidOut \cup {id})
      BY <3>1, SMTT(30) DEF StripeSettles, PaidOut, TypeOK, Refund
    <3> QED BY <3>1, <3>2, StripePaysOut DEF StripeSettles
  <2>5. stripe' = stripe \/ (\E w \in Workers : StripeRefunds(w)) \/ (\E id \in RefundIds : StripeSettles(id))
    BY DEF Next, vars, Request, LatePayment, Tick, Prepare, WorkerMoves, Retrieve, Search, Send,
           CallFails, Apply, Failed, Crash, Webhook
  <2> QED BY <2>1, <2>2, <2>3, <2>4, <2>5
<1> QED BY <1>1, <1>2, Invariance, MoneyGoesBackOnce, BooksAgree, PTL
        DEF Spec, ImplementsPromise, Promise!Spec

=============================================================================
