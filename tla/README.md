# A TLA+ verification project for Frota Rural

Frota Rural is a rental marketplace for farm machines. An owner registers a
machine and offers it in one or more listings; a tenant books a period, pays
through Stripe Checkout, both parties sign a contract, and a meter is read at
delivery and return. The back end is Django over PostgreSQL (`BackEnd/`), with
a React front end (`FrontEnd/`), Stripe as payment provider, periodic jobs run
as management commands, and a WebSocket chat.

What makes it hard is that one rental is moved by many hands: its tenant and
its owner (several tabs, retries), the administrator, Stripe's webhooks (late,
repeated, out of order), and jobs that run beside them; and that requests
leave the database locks to call Stripe and come back to a state that has
moved on. The screens are hard for the same reason: an answer arrives when the
user is already somewhere else. The project models both.

Paths below are relative to `src/BackEnd/`, those that begin with `pages/`,
`components/`, `features/` or `shared/` to `src/FrontEnd/src/`.

## 1. Inventory

| Component | State | Operations | Interacts with |
|---|---|---|---|
| Checkout and payment attempts (`payments/services.py`) | `Payments` rows: status, amount, session, frozen provider request | create_checkout (prepare, call Stripe, attach), webhook paid / expired, close of a late session | rentals, availability, Stripe, refunds, contract |
| Availability (`payments/availability.py`) | none of its own: reads status and `reservation_expires_at` of the rentals of a machine | occupancy, conflict with a cleaning day | bookings, checkout, signing, amendments |
| Reconciliation job (`payments/reconcile.py`) | none | replays unanswered attempts, reads open sessions, closes those of cancelled rentals, retries refunds | checkout, refunds |
| Bookings (`rentals/services.py`) | `Rentals` rows | create, update, complete | availability, policy, contract |
| Cancellation (`rentals/cancellation.py`, `rentals/policy.py`) | rental and contract status | cancel by tenant, owner, admin, deadline | Stripe, refunds, notifications |
| Refunds (`payments/refunds.py`) | `Refunds` (one obligation per payment), `RefundAttempts` | request, process, apply, failed, webhook, job | Stripe, payments, notifications |
| Contracts and signatures (`contracts/`) | contract, revisions, signatures, one-time codes, amendments, evidence chain | freeze, request code, sign, propose, decide, deadline job | rentals, availability, mail |
| Moderation (`administration/services.py`) | account status, cases | warn, suspend, ban, approve / reject a listing, resolve a report | users, listings, rentals, chat |
| Weekly recurrence (`api/recurrence.py`) | idempotency records | preview, create a series | bookings, availability |
| Hour-meter (`rentals/meter.py`) | readings | record at delivery and return | rentals |
| Notifications (`notifications/`) | one row per event key and recipient | create once, mark read | all of the above |
| Chat (`chat/`) | threads, messages, reports | send (idempotent key), read, report, hide | sockets, moderation |
| Document review (`document_validation/`) | documents, reviews | create, replace, screen, review | users, machines |
| Listings and machines (`postings/`, `machines/`) | listing status and fields | create, update, approve, reject | moderation, bookings |
| Accounts and sessions (`users/`, `authentication/`) | account, reset tokens, refresh cookies | login, refresh, reset, close | all |
| Session of a browser (`shared/auth/`, `shared/http/`) | access token, the user of the context, refresh cookie, requests that wait for a refresh | bootstrap, sign in, sign out, shared refresh, role-based routes | every request |
| Screens (`pages/`, `components/`, `features/`) | forms, dialogs, cached lists, requests in flight | what a person does, and answers that come when they please | the services above |
| Price suggestion, recommendations, reviews | market data; one review per party | suggest, search, review | listings, rentals |
| ML pipelines, storage, extension, seeds | | | |

`PROJECT.json` lists every one of them with its status and, under `hazards`,
the lines where each can go wrong and which property would show it.

### The hard behaviours

* *A request is not atomic.* `create_checkout` commits the attempt, leaves the
  locks, calls Stripe, and comes back with another transaction; meanwhile the
  hold may lapse, another tenant may take the dates, the same tenant may open
  another checkout, and the rental may be cancelled.
* *An answer may be lost after Stripe acted.* The idempotency key is then the
  only link to what exists at Stripe.
* *Events come late, repeated and out of order*, and race the job.
* *A cancellation calls Stripe inside its transaction*; if the answer is lost the
  database rolls back and Stripe does not.
* *Money can arrive for a rental that can no longer be honoured*: it must be
  recorded, and owed back or kept for a person to decide.
* *Some writers take no lock* (moderation, the failure path of a checkout).
* *One form, dialog or panel serves many subjects.* What was typed, ticked or
  asked about one contract, rental, listing or operator meets the answer, or the
  button, of another.
* *An answer is late.* The user has gone to another conversation, taken another
  photograph, chosen another machine, signed in as somebody else.
* *A request is repeated* because its answer was lost: a message, a series of
  bookings, a rental, a reading.

### What makes each component correct

* Availability: two rentals occupying one machine are a cleaning day apart.
* Checkout: one live attempt per rental; a confirmed rental is paid once; no
  money taken by Stripe is left out of the books; received money stays received.
* Cancellation: cancelled stays cancelled, and kept money is owed.
* Contract: what both sign is what the rental says; nobody signs a revision that
  was replaced; each code backs one signature.
* Refunds: one refund at Stripe per obligation, and a refund recorded only if
  Stripe made it.
* Recurrence: all or nothing, once per key.
* Chat: a repeated message appears once, and in its own conversation.
* Meter: a reading at the return is never below the one at the delivery.
* Session: requests carry the token of the user on screen; every request that
  met an expired token is answered; redirects end.
* Screens: what is sent is about the subject it was typed for; what is shown
  answers the question on screen; what is paid or signed is what was displayed.

## 2. The modules

### `Checkout` – the core

One module holds what the rental's lock ties together, because its hazards lie
between components: the rentals of a set of machines, their payment attempts,
Stripe's sessions, the threads of the back end, and moderation.

| Variable | Code |
|---|---|
| `now` | `timezone.now()`; one clock for holds and calendar |
| `rental` | table `Rentals` with its contract's status and the terms its current revision froze |
| `payment` | table `Payments`, `expires` being `provider_request.expires_at`, `refund` the row of `Refunds` |
| `session` | Stripe's session under the attempt's idempotency key (external) |
| `shown` | attempts whose checkout address was returned to the tenant |
| `worker` | what each request thread or run of the job is about to do between two transactions |
| `marked` | identifiers read by a moderation request and not updated yet |

**Granularity.** One action is one transaction, one call to Stripe, or one move
on Stripe's page. Transactions that take `select_for_update` on the posting and
the machine are serial on that machine, which is why creation, update, checkout,
payment, signing and amendment are each one step that may read the calendar and
write the rental. Steps that do not take those locks are split at the point
where the lock is missing: moderation reads identifiers (`ReadRentals`) and
updates them later (`CancelMarked`).

| Code | Actions |
|---|---|
| `RentalService.create / update / complete` | `CreateRental`, `UpdateRental`, `CompleteRental` |
| `ContractSignatureService._record_acceptance` (second signature) | `SignContract` |
| `AmendmentService.decide` (accepted) | `AcceptAmendment` |
| `PaymentService._prepare_checkout` | `ResumeCheckout` (the open session), `ReuseAttempt` (same key again), `NewAttempt` |
| the call `stripe.checkout.Session.create` | `StripeCreates`, `StripeDoesNotCreate` |
| `_attempt_failed`, `_attach_session` | `AttemptFailed`, `AttachSession` |
| `close_cancelled_checkout` | `CloseSession`, then `SettlePaid` or `SettleExpired` |
| `handle_webhook` → `_approve`, `_expire` | `WebhookPaid`, `WebhookExpired` (`Settle`: the row is looked for by session, then by the attempt named in the metadata, `FindPayment`; then `Approve` or `Expire`) |
| `reconcile_payments` | `ReconcileCreating`, `ReconcilePending`, and the same calls |
| `CancellationService._cancel` | `CancelRental`; `CancelRolledBack` when Stripe's answer is lost |
| `expire_unsigned_contracts` | `CancelUnsigned` |
| `AdministrationService.suspend / ban` | `ReadRentals`, `CancelMarked` |
| the process dying | `Crash` |
| Stripe and its page | `Pay`, `SettleSlip`, `SessionExpires` |

Abstractions, each towards more behaviours unless said otherwise:

* A listing's own guards (active, window, longest stay) may change at any moment
  by its owner; a refusal is a stutter, so they are left out.
* `PaymentEvents.processed_at` is checked in one transaction and set in another,
  so two deliveries of one event may both pass: the model lets any event be
  delivered any number of times.
* `policy_version` and `payment_intent` are audit data and are left out. The
  refund's amount is `full` or `late` (less the retained tenth).
* A moderation request works on all rentals of a user; the model marks them one
  by one, which gives every subset.
* The two minutes of grace the job leaves to a fresh attempt only delay it.
* Stripe may refuse a call at any time (parameters, key, account, an idempotency
  key it has forgotten), also after an earlier call made the session.
* An event of Stripe carries its session and, in the metadata, its attempt. The job
  knows the session alone, except when it closes a late one (`Named`).
* New attempts are numbered in one order (`CHOOSE` the unused one): their primary
  keys mean nothing else.
* `closed` rentals are not distinguished from `completed`: both occupy.
* `_attempt_failed` writes the attempt and the rental in one transaction without
  the rental's lock; it is one step here. What PostgreSQL's READ COMMITTED update
  does when the row it waited for has changed is **not** modelled.

### `MachineCalendar` – what availability promises

Without holds, payments or clocks: a step takes one period that is free on its
machine, or lets any number of periods go. `Checkout` implements it under the
mapping `Booked` (a rental is in the calendar while it occupies its machine);
the step of time, which lets holds lapse, is a `Release`.

### `Refunds` – paying one payment back

`Checkout` records that money is owed; `Refunds` is what happens next to one
such obligation, for one payment.

| Variable | Code |
|---|---|
| `payment` | the payment's status, as far as refunds tell it apart |
| `refund` | status of the row of `Refunds`, the obligation |
| `attempts` | rows of `RefundAttempts` by number: status, Stripe's identifier, creation |
| `stripe` | the refunds that exist at Stripe, the attempt under whose key each was made, and the answer Stripe repeats for that key (external) |
| `worker` | what each request, run of the job or webhook delivery is about to do |

| Code | Actions |
|---|---|
| `RefundService.request` from a cancellation; `_approve` on a cancelled rental | `Request`, `LatePayment` |
| `_prepare` | `Prepare` (the attempt to work on, or a new one after a confirmed failure) |
| `process`: `Refund.retrieve`, `Refund.list`, `Refund.create` | `Retrieve`, `Search` (attempts older than 23 h), `Send` |
| Stripe carries out the call, or not, and the answer arrives, or not | `StripeRefunds`, `CallFails`, `StripeSettles` (external) |
| `apply`, `failed`, `handle_event` | `Apply`, `Failed`, `Webhook` |
| the process dying | `Crash` |

Stripe's identifiers of refunds are the model's bound on how often money could
leave; `Of(n)` is what exists under attempt `n`'s key. The amount is fixed once
by the obligation's row and the notifications follow the status, so both are
left out. `canceled` ends an obligation, as in the code: a person takes over. A
terminal status at Stripe is taken to be stable.

### `RefundPromise` – what the books promise about a refund

Without keys, calls or answers: owed money leaves at most once and is entered as
repaid only after it left. `Refunds` implements it with `owed` read from the
obligation and `paidOut` from Stripe.

### `ContractSigning` – codes, signatures, amendments

One contract from the confirmed payment to its end.

| Variable | Code |
|---|---|
| `rental` | status and first day of the rental |
| `contract` | status, current revision, `accepted_by_*`, `signature_deadline` |
| `revisions` | `ContractRevisions` by number: the first day each froze |
| `signatures`, `codes`, `proposals` | `ContractSignatures`, `ContractSignatureOtps`, `ContractAmendments` |
| `email` | the address each party has registered |
| `worker` | a request to sign: what it read before it took any lock, and the code it spent |
| `marked` | a ban has read the rental as active and not updated it yet |

| Code | Actions |
|---|---|
| `request_otp` | `RequestOtp` (checks, row written), `OtpOutcome` (mail sent and committed, or neither) |
| `sign` | `CheckSign` (no locks), `ConsumeOtp` (a transaction), `RecordAcceptance` (another, under the locks), `Abandon` (refused, or dead) |
| `AmendmentService.list / propose / decide` | `ListProposals`, `Propose`, `Withdraw`, `Reject`, `Accept` |
| `CancellationService._cancel`, `expire_unsigned_contracts` | `CancelRental`, `CancelOverdue` |
| `UserModerationService.ban` | `BanReads`, `BanWrites` |
| `RentalService.complete`, an update of the account | `Complete`, `ChangeEmail` |

The number of days never changes, so a period is its first day. Whether the
dates are free, the listing allows them or a payment is in review is decided in
`Checkout`'s terms; here a refusal is `Abandon` or nothing. The hour-meter guard
of `_ensure_open` is left out because a reading needs the first day to have
come, when the start already forbids an amendment. A request to sign without a
code in the mail changes nothing and is left out. Requests for codes are ordered
as they are created; contracts that predate revisions are left out.

### `Agreement` – what a contract promises its parties

Terms on the table, who accepted them, sealed when all have, reopened by new
terms. `ContractSigning` implements it with the rental's own dates as terms and
the signatures under the current revision as acceptances.

### `Session` – one browser tab signed in

| Variable | Code |
|---|---|
| `auth`, `loading` | `AuthContext` |
| `token`, `owner` | `InMemoryTokenStore`; whose each access token is |
| `cookie` | the refresh cookie's owner |
| `mail` | calls to the authentication endpoints in flight, with the cookie and the era they left with |
| `req` | the screens' requests in `RefreshingHttpClient`: sent, waiting for the refresh, sent again |
| `place`, `from` | the route shown, and where the login page returns to |
| `era`, `crossed` | history: sign-ins and sign-outs, and whether an answer crossed one |

Actions: `RestoreSucceeds/Fails` (bootstrap), `Reload`, `SubmitLogin`,
`LoginSucceeds/Fails`, `Logout`, `LogoutEnds`, `Send`, `Ends`, `Unauthorized`
(joins the refresh under way or starts one), `RefreshSucceeds/Fails`, `Visit`.
`Land` is `ProtectedRoute` with `homeRoute`: it is applied in the step that
changes what it reads, as React renders before the next event. An access token
may expire before any request.

### The screens

Each module below has three variables: `ui` (state of the components and the
cache of lists), `db` (the rows the screen works on, as the server keeps them)
and `net` (requests and answers in flight). One action is one event of the
browser, one request served, or one change made by somebody else. A request may
be served and its answer lost; answers come in any order. The server's guards
are those of its services; where another module models a service in depth
(calendar, contract), the screen's `db` keeps only what the screen can tell
apart.

| Module | Screen | Server |
|---|---|---|
| `Chat` | `pages/messages/Mensagens.tsx`, `useChatSocket` | `chat/` consumer and service |
| `Documents` | the operator's documents, `CNHUpload`, the certificate page, `pages/admin/Documentos.tsx` | `document_validation/` |
| `Booking` | `pages/postings/Reservar.tsx` and the trip to Stripe | create, checkout, webhook, hold |
| `Signing` | `components/AssinaturaContratoModal.tsx` and the amendment panel | `contracts/` |
| `Recurrence` | the dialog of a series | `api/recurrence.py` |
| `RentalDesk` | the cards of both dashboards: review, meter, conclusion, cancellation | `rentals/meter.py`, `lifecycle`, `policy`, reviews |
| `AddressForm` | sign-up, account, `components/OperadoresPanel.tsx` | users and operators, the public CEP service (external) |
| `Listing` | `NovoAnuncio.tsx`, `GerenciarAnuncio.tsx`, the map point, the suggested price | `postings/` |
| `Equipment` | the fleet, `EditEquipamentoModal`, a new machine | `machines/` |
| `ModerationDesk` | `pages/admin/Anuncios.tsx`, `Users.tsx` | `administration/`, `postings/` |
| `MachineSearch` | the guided chat, the two lists with filters, `AnuncioDetalhe.tsx` | `postings/recommendations.py` |

Text and figures are abstracted to what they are about: a comment is the rental
it was typed under, a reason the listing, the fields of a licence the photograph
they were read from, an address the code it was looked up by. That is what the
properties compare.

### The rest

`Screens` is the front end as one specification: a variable says which screen is
mounted, a behaviour mounts one and stays on it, and the screens share `ui`, `db`
and `net`. What is one component of the source (the documents page of an operator
and of a machine, the two signature dialogs, the address forms, ...) is one module
instantiated with the screen as a parameter, and a constant that differs from
screen to screen is a function of the screen. Two assumptions are about the
program. `UserAssumption`: "Minha Conta" is somebody's. `SearchAssumption`: a page
of results has room for a listing, and the listings of a screen are finitely many.
The others (`ChatBounds`, `BookingBounds`, ..., one per screen) say that its bounds
are numbers, and leave room for the state it starts in: two machines in the fleet,
the first revision of a contract, one poll. Only the type theorem uses them.

`MCCheckout`, `MCRefunds`, `MCContracts`, `MCSession` and `MCScreens` give the
modules their small instances; `CheckoutProofs`, `RefundsProofs`, `ContractProofs`
and `SessionProofs` hold the theorems of the core, `DealProofs`, `DeskProofs` and
`ChatProofs` those of `Screens`, and `TypeProofs`, on top of the three, that its
types are kept.

## 3. What TLC checks

In `Checkout`, one tick of the clock stands for the half hour of a hold *and* for a day of the
calendar: what the properties tell apart is the order of instants (hold before
session life before start, notice before start), so each duration constant is
one or two ticks. `MaxTime` is 3 or 4, past the start of every period offered,
so holds lapse, sessions end, signatures close and rentals begin inside every
run; in `retries`, which has the most going on, every duration but the notice is
one tick, the periods begin a tick earlier (`EarlyPeriods`), and `MaxTime` is 2:
the hold and the session end together, and a rental paid at once meets its deadline
for signing. `CHECK_DEADLOCK FALSE` is set because the model may stop: the clock is
bounded and every rental may be cancelled or completed.

| Run | Instance | Shows |
|---|---|---|
| `contention` | 2 rentals, 2 listings of one machine, periods that clash only through the cleaning day, 2 attempts, 1 worker | `NoDoubleBooking`, `OneLiveAttempt`, `HoldCoversAttempt`; every step is a step of the machine calendar (`ImplementsCalendar`) |
| `retries` | 1 rental, 2 attempts, 2 workers, slips, webhooks and the deadline job fair | a confirmed rental has exactly one approved payment (`ConfirmedPaidOnce`); an attempt is written off only when Stripe can take no money for it (`ExpiredTakesNoMoney`); money of a cancelled rental is owed (`CancelledMoneyIsOwed`); received money, fixed refunds and cancellations are final (`OutcomesAreFinal`); money taken by Stripe is eventually entered in the books (`PaidIsSettled`); what is not signed in time is cancelled, unless a second payment stays contested (`OverdueIsCancelled`) |
| `moderated` | 1 rental, 1 attempt, 2 prices, slips, amendments, suspension and ban at any moment, the job fair, no webhook fairness | the terms frozen for signature are the rental's (`SignedTermsAreCurrent`); the reconciliation job alone settles what a followed session was paid (`PendingIsReconciled`) |
| `repay` | 2 threads, 2 attempts, 2 refunds at Stripe, keys forgotten inside the run | `PaidBackOnce`, `RepaidIsTrue`, `ReplacedHasFailed`, `TerminalIsFinal`, and `ImplementsPromise` |
| `repay_live` | 1 thread, no webhook fairness | a refund Stripe made is entered even if every answer was lost (`RepaidIsEntered`) |
| `agreed` | 2 requests to sign at once, 2 codes, 1 try, 3 addresses, 2 proposals | every signature rests on a code of its own (`EverySignatureIsProven`); a revision is one accepted proposal (`RevisionsAreAgreed`); a signed contract is signed by both under the present dates (`SignedByAll`); `EvidenceIsKept`; `ImplementsAgreement` |
| `sessions` | 2 people with different roles, 2 requests, 2 tokens, 2 sign-ins or sign-outs | `TokenFollowsUser`, `ScreensAdmit`, and, with calls that end, `EveryRequestSettles` |
| `screens` | every screen, one at a time (below) | one property per hazard of the screens (below) |
| `replaced_shown`, `price_drift`, `suspension_race`, `ban_unpaid` | as above | four claims of the code's comments that the code does not keep (section 5) |

What `screens` shows:

| Property | Says |
|---|---|
| `MessageOnce` | a message sent by socket, by POST and again by hand is stored once |
| `ShownOnce` | once a message is on screen as stored, the bubble it was written in is gone |
| `StrayIsOwn` | no list read for one conversation reaches another's screen; only the reader's own late POST can |
| `PhotoBacksFields` | a licence created and not edited since carries the photograph its fields were read from |
| `NoTwinRental` | failures, reloads and returns from Stripe make no second rental while the first holds |
| `WhatIsPaidIsShown` | the dates quoted and paid are those on screen |
| `AcceptedWasRead` | the revision a signature accepts is the one ticked as read |
| `SeriesOnce` | a series is created once and is the one previewed |
| `ReadingsInOrder` | the meter never runs backwards |
| `LookupFillsItsForm` | a CEP's answer fills the form it was asked from, where lookups are numbered |
| `PointIsOfAddress` | the point on the map was located for the address kept with it, unless `drift` records how an unnumbered lookup parted them |
| `TextIsOfItsSubject` | a review, a reason, the fields of a machine are filed under what they were typed for |
| `AnswerIsOfItsQuestion` | price, search result and page are of the machine, answers and filters on screen |

With them `screens` checks the type invariant of all the screens. The type
invariants of the other models are proved (section 4) instead of spending a run.

**Why the bounds are enough.** Conflicts are between pairs of rentals, so two
rentals over two listings of one machine show every kind; races of one rental
need the attempt that was and the one that replaces it, so two attempts; and
the job beside a request, so two workers where the property is about them. Two
attempts are also what a deadline needs: a rental paid and confirmed by one, while
the other's slip is confirming or its money is in review, is the case
`expire_unsigned_contracts.py:21` leaves to a person, so `OverdueIsCancelled` is
checked in `retries` and says what becomes of it. One
worker suffices in `contention`, since a worker's steps interleave with
webhooks, with the other tenant's transactions, which need no worker, and with
cancellations.

In `Refunds` a tick is an hour in which a call may still arrive: `Window` (23 h)
is one tick, a call takes at most one more, and a key is forgotten the tick
after, so every order of "key too old to send", "call under way" and "key
forgotten" is reached; new attempts start only while a tick is left to see
their key age. Two refunds at Stripe are the least that could show money
leaving twice, two attempts the least in which one replaces another. In
`ContractSigning` two dates, the proposal's and the present one, show every
mismatch of revision. Two requests may spend one code, the least that could back
two signatures, while the address and the revision it was sent for change, and
two proposals meet; two codes let both parties sign, and the contract change
afterwards. Three addresses leave a free one, since the table keeps them unique;
`Movers` lets one party change his (the parties are alike in every action), and
`MaxEvents` bounds the lapses and changes together.

In `Session` two tokens and two eras are the least in which an answer of one
session meets the next; two requests share one refresh.

The screens' bounds are constants of their modules: how often a page or form is
opened (`MaxOpens`, `MaxMounts`, `MaxForms`, `MaxVisits`), how many rows and
edits there are (`MaxRows`, `MaxLog`, `MaxRevision`, `MaxChanges`), and how many
requests are out at once (`MaxRequests`, `MaxInFlight`, `MaxSends`, `MaxSaves`).
Two of each subject are enough for "the other one", two openings for "the same
one again". `Moving` and `Running` name the contracts and rentals that change
meanwhile, `Cancelable` those whose cancellation is asked for on the screen:
the meter's window and the cancellation share no state and are instantiated
apart. A rental's card offers what a list read before would have offered, with
one bound: the list is not so old that a rental it shows as not begun has
ended. Because the bounds stop a screen (no opening is left), `CHECK_DEADLOCK
FALSE` is set in `Screens.cfg`; in `Sessions.cfg` it is not.

**Fairness.** Stripe repeats a webhook until it is answered with a 2xx, hence
`WF(WebhookPaid(a))`. The job is started again by the scheduler for ever, and
meets other work in between: `SF(ReconcilePending)`; it does not die at the same
place every time: `SF` on `CloseSession` when it finds the session paid, and on
`SettlePaid`; a thread that has begun goes on or dies:
`WF(WorkerMoves)`. Nothing obliges a tenant, an owner or an administrator. In
`moderated` there is no fairness on webhooks: the job has to be enough. The
same holds in `repay_live`: the job runs for ever, so a thread prepares
(`SF(Prepare)`), Stripe can be asked now and then (`SF(Retrieve)`,
`SF(Search)`), and its answer is applied for each refund now and then
(`SF(Apply)`), since a process does not die at the same place every time; that a
call to send money gets through is *not* assumed. The deadline job runs for
ever too: `WF(CancelUnsigned(r))`, in `retries` and `moderated`. With it a rental not
signed in time is cancelled or stays contested (`Contested`): nothing obliges a
person to decide a review, and a slip that lapsed while its webhook was lost stays
`pending` for good, since `reconcile.py` looks for sessions paid or expired only. In `sessions` a call is
answered or fails, since the browser ends every request: weak fairness on the
end of a refresh and on the end of each request. The screens have no fairness.

## 4. What TLAPS proves

`CheckoutProofs.tla`, for every set of rentals, listings, periods, attempts and
workers and every duration allowed by the named assumptions of `Checkout`
(`DurationsAssumption` says only that a session outlives the hold it replaces
and that a key is reused only while Stripe would still accept it):

| Theorem | States |
|---|---|
| `TypeCorrect` | `Spec => []TypeOK` |
| `MachinesAreNeverDoubleBooked` | `Spec => []NoDoubleBooking` |
| `AttemptsAreSerial` | `Spec => []OneLiveAttempt` |
| `LateAnswersMoveNoHold` | `Spec => []HoldCoversAttempt` |
| `ImplementsTheCalendar` | `Spec => Calendar!Spec` |

**The argument.** `NoDoubleBooking` is not inductive: `_attach_session` writes
the rental's hold from the attempt, without looking at the calendar, and an
arbitrary hold could revive a lapsed booking over a newer one. It does not,
because the hold it writes is the hold the rental already has
(`HoldCoversAttempt`). That is inductive only if no second live attempt could
have moved the hold (`OneLiveAttempt`), and if a worker's attempt exists and
belongs to a rental (`Refs`). `Refs` also says that a row keeps no session but the
one made under its own key (`OwnSessions`): that is why the look-up of an event finds
the attempt the event is of, or none (`FoundIsOwn`). Hence

    IInv == TypeOK /\ Refs /\ OneLiveAttempt /\ HoldCoversAttempt /\ NoDoubleBooking

One lemma per action proves `IInv' /\ CalendarMoves` from `IInv`, where
`CalendarMoves` says that the step keeps, drops or takes calendar entries; the
refinement follows from the same lemmas. The frame lemmas (`AgeingKeeps`,
`CalendarKept`, ...) say once what a step that adds no occupant leaves true.

Its second part is about the money and the terms, on top of `IInv` and for the same
constants:

| Theorem | States |
|---|---|
| `ConfirmedRentalsArePaidOnce` | `Spec => []ConfirmedPaidOnce` |
| `TermsFollowTheRental` | `Spec => []SignedTermsAreCurrent` |
| `WrittenOffIsOver` | `Spec => []ExpiredTakesNoMoney` |
| `OutcomesStand` | `Spec => OutcomesAreFinal` |
| `CancelledMoneyIsAlwaysOwed` | `Moderation = {}` implies `Spec => []CancelledMoneyIsOwed` |

**The argument.** Each of them needs what holds before it can be violated
(`Books`). `_approve` confirms a rental without counting its payments: that the
new payment is the only one needs that an unpaid rental has none
(`UnpaidHasNoMoney`), and that it freezes the present terms needs that none were
frozen before (`UnpaidHasNoTerms`). A thread that will write an attempt off
decided to after a call that is over, so it carries that its session had
expired (`WriteOffsAreSeen`), and a session that expired cannot be paid, because
only complete ones hold money (`PaidIsComplete`). Only received money is owed
(`OwedIsReceived`). Steps are taken in groups: what a group leaves as it was
(`MoneyStays`, `TermsStay`, `OverStays`, `CancelsUnpaid`) keeps the books by one
frame lemma each, and events and cancellations, which move money, have their own.
The assumption of the last theorem is what `ban_unpaid` and `suspension_race`
show to be needed: a moderation cancels what is paid and requests no refund.

`RefundsProofs.tla`, for any number of refunds, threads and attempts, under
`KeyAssumption`: what is left of a key's life after `Window` is longer than a
call takes to arrive.

| Theorem | States |
|---|---|
| `TypeCorrect` | `Spec => []TypeOK` |
| `MoneyGoesBackOnce` | `Spec => []PaidBackOnce` |
| `KeysAreReplacedAfterFailure` | `Spec => []ReplacedHasFailed` |
| `BooksAreTrue` | `Spec => []RepaidIsTrue` |
| `EndedForGood` | `Spec => TerminalIsFinal` |
| `ImplementsThePromise` | `Spec => Promise!Spec` |

**The argument.** Money leaves twice either under one key or under two. Under
one key: a call sent in time (`WorkersInTime`) reaches Stripe while the key is
remembered, so Stripe answers with the refund there is
(`OneRefundPerAttempt`). Under two: a new key is earned only by a failure that
Stripe confirmed, recorded against the refund it is about (`AttemptsAreTrue`),
and terminal statuses are stable, so every refund but the latest attempt's is
dead (`Replaced`). What threads carry must be true as well: an answer in
transit says of its refund what Stripe said, and a terminal answer is still so
when it is applied (`WorkersOnAttempts`). The invariant `IInv` joins these with
the agreement of payment, obligation and latest attempt (`Books`).

`ContractProofs.tla`, for any number of parties, addresses, requests, codes and
proposals, under `PartiesAssumption` and `TimesAssumption` (there is a party, and
rentals begin later than `SignMargin`):

| Theorem | States |
|---|---|
| `TypeCorrect` | `Spec => []TypeOK` |
| `SignaturesAreProven` | `Spec => []EverySignatureIsProven` |
| `SignedMeansByAll` | `Spec => []SignedByAll` |
| `EveryRevisionIsAgreed` | `Spec => []RevisionsAreAgreed` |
| `EvidenceStays` | `Spec => EvidenceIsKept` |
| `ImplementsTheAgreement` | `Spec => ImplementsAgreement` |

**The argument.** A signature comes from a request that spent its code earlier,
so `EverySignatureIsProven` needs what holds in between: a spent code fits the
request that holds it and backs no other request and no signature (`Proven`).
That a party does not sign one revision twice, although nothing but a flag stops
it, and that a signed contract is signed by all, need the flags to be what the
signatures say (`Books`). A proposal that waits on the current revision changes
its dates (`Proposed`), so an acceptance puts new terms on the table, as
`Agreement` wants. `RevisionsAreAgreed` is inductive beside these.

`SessionProofs.tla`, for any users, roles, routes, requests, tokens and number of
sessions:

| Theorem | States |
|---|---|
| `TypeCorrect` | `Spec => []TypeOK` |
| `TokenOfTheUser` | `Spec => []TokenFollowsUser` |
| `RedirectsEnd` | `Spec => []ScreensAdmit` |

**The argument.** Whose token an answer brings was decided when the call left.
Two facts carry that: no call in flight is of a session yet to come
(`NoneAhead`), and, until an answer crosses a sign-in, everyone the tab knows of
(the user shown, the owner of the cookie, those whose bootstrap or refresh is
under way in this session) is one person (`OnePerson`). `ScreensAdmit` holds
because every step that changes what the guard reads renders it again, and `Land`
is admitted for every route and role.

Four modules are about `Screens`, for any rentals, dates, people, listings,
machines, contracts, conversations and bounds, under its assumptions. Each has
one invariant, a conjunction over the screens it is about (`screen = s => ...`); that
it always holds is `DealInvariance`, `DeskInvariance` and `ChatInvariance`. The run
`screens` checks the same statements on the small instances.

`DealProofs.tla`, the booking page, the dialog of a series, the signature dialogs:

| Theorem | States |
|---|---|
| `RentalsHaveNoTwin` | `Spec => []NoTwinRental` |
| `PaidIsShown` | `Spec => []WhatIsPaidIsShown` |
| `SeriesAreMadeOnce` | `Spec => []SeriesOnce` |
| `SignaturesWereRead` | `Spec => []AcceptedWasRead` |

**The argument.** *Booking.* A second rental is made only by a page that does not
know of the first, so the invariant says where a rental still to be paid is known
(`Remembered`): on the page and in its address, in the address alone while no form is
shown, or in the answer under way; else an answer was lost, which is the one exception
`NoTwinRental` makes. That survives because the page has one payment under way
(`OnePayment`), a page back from Stripe asks one thing at a time (`OneReturn`), and
the dates on screen, in the quote and in the rental agree (`DatesKept`). *Series.* A
creation whose answer was lost is sent again under the key of the attempt. The second
finds the series of the first because an attempt has one key and one set of fields
while it leaves traces in the dialog and the request (`OneCreation`) and in the table
(`AttemptKept`), and the next attempt has a number no series bears (`AttemptsBegun`).
*Signing.* The box ticked is under the document on screen (`TickOfDocument`) although
answers of another contract may come late, because one document is loading at a time
and no box is ticked meanwhile (`OneLoad`); what is sent is what was ticked
(`SentAsRead`).

`DeskProofs.tla`, the dashboards, forms, documents, listings and searches:

| Theorem | States |
|---|---|
| `ReadingsStayInOrder` | `Spec => []ReadingsInOrder` |
| `TextsAreOfTheirSubjects` | `Spec => []TextIsOfItsSubject` |
| `LookupsFillTheirForm` | `Spec => []LookupFillsItsForm` |
| `PhotosBackFields` | `Spec => []PhotoBacksFields` |
| `PointsAreOfTheirAddress` | `Spec => []PointIsOfAddress` |
| `AnswersAreOfTheirQuestions` | `Spec => []AnswerIsOfItsQuestion` |

**The argument.** Each screen has an invariant of the same form: what the page shows is
of its subject, what each request or answer under way carries is of the subject it
names, what is stored is of its row. The hard conjunct is what makes a late answer
harmless.

* Cards and moderation (`RentalInv`, `ModerationInv`): a text is of the panel open or
  empty, so a request carries nothing else; a reading is applied under the row's lock
  against the other one.
* Fleet (`FleetInv`): the editing window is loaded for the machine selected, and its
  fields are those typed since it opened or those of a row that was held
  (`FleetWindow`), however old the list.
* Address forms (`FormInv`, of the two that number their lookups): a lookup that bears
  the last number was asked of the form as it is (`LookupsAsked`); all that changes the
  form takes another number.
* Documents (`PaperInv`): a check is of the file attached last, or finds another there
  (`ChecksOfPage`); fields recognised are of the photograph shown (`Recognised`).
* Listings (`ListingInv`): a point is of the address beside it until an unnumbered
  answer moves one of them, which `drift` records (`PointKept`); the question about a
  price that is listened to is of the selection on screen (`QuestionOfSelection`).
* Searches (`SearchInv`): the page drawn has seen the filters applied, and a page other
  than the first was chosen under them (`BrowserKept`); drawing may take the page back
  to the last there is, which is a number by `SearchAssumption`. The chat's answers are
  those said, in their order, and its search is about all of them (`ChatKept`); a search
  number belongs to one question (`SearchMessage`).

`ChatProofs.tla`, the messages page:

| Theorem | States |
|---|---|
| `MessagesAreStoredOnce` | `Spec => []MessageOnce` |
| `MessagesAreShownOnce` | `Spec => []ShownOnce` |
| `StraysAreOwn` | `Spec => []StrayIsOwn` |

**The argument.** A message is put on screen long after it was stored, so the
invariant says what each frame and each answer under way carries: a frame, a place
in the log that holds a message of its conversation (`OnWire`); a list, the
generation it was asked in, which while it is the present one means the
conversation on screen, and no more of the log than there is (`Asked`); a POST,
the place of the user's own message. Whatever puts a message on screen takes its
bubble away in the same step, and none comes back, because a message is written
once and only what has a bubble is sent again. The log only grows (`Grows`), so what was
true of a place stays true. The catch-up cursor is a place because a bounded set
of naturals has a greatest element (`BoundedHasMaximum`).

`TypeProofs.tla`, all the screens:

| Theorem | States |
|---|---|
| `TypeCorrect` | `Spec => []TypeOK` |

**The argument.** `TypeOK` says of a screen more than which set a variable is in: that
a field holds what the form offers or what one of its own answers brought, that
dialogs and statuses fit together, that nothing is counted past its bound. None of it
is inductive alone, for two reasons, and each section states what is missing beside
the type.

* *A field is filled by a late answer.* So what is under way carries the type as well,
  and what is stored, from which the answers are made: a code looked up is one that can
  be typed (`MessageLocated`, `RowsLocated`), a licence or a certificate under
  way says what can be attached (`PaperMessage`), a creation the dates of the calendar
  (`RentalsOnCalendar`), a frame or a request of the messages page a conversation that
  was opened (`AboutThreads`), what the signature dialogs send a contract of the user,
  and a revision loaded one that a contract can have (`AboutContract`).
* *A counter stays under its bound because of who may still move it.* The page asks
  for its rental again while a poll is out, so its polls are fewer than `MaxPolls` as
  long as one is (`PollsLeft`); the address form leaves one number for the answer of
  a save under way (`RoomForAnswer`); a question of the guided chat takes the next number
  only when there is one, and while no other waits under it (`SearchPageTyped`).

The rest of the shape of the pages (which fields there are, what the requests are
about) comes from the invariants of the other three modules, and the combined step
assumes them: `ScreenTypes` is inductive relative to `DealInv`, `DeskInv` and
`MessagesInv`.

**Only model-checked**: the liveness properties (`PaidIsSettled`,
`PendingIsReconciled`, `OverdueIsCancelled`, `RepaidIsEntered`,
`EveryRequestSettles`), since fairness and ENABLED are out of TLAPS's reach. Every
invariant and every action property of a passing run is a theorem.

## 5. Where the code does not do what it says

* `replaced_shown` – `payments/services.py:153`: a replaced attempt's session "is
  never shown to anyone". `_attach_session_locked` returns its URL whatever the
  attempt's status, so a slow answer shows it after all.
* `price_drift` – `rentals/services.py:104`: a booking in payment cannot be
  changed. The guard does not count an attempt still being created, so after an
  uncertain answer the dates and the total can change, and the session that was
  in flight charges the former total.
* `suspension_race` – `administration/services.py:60`: a suspension cancels
  pending bookings. Identifiers are read first and updated without lock or
  status, so a booking paid in between is cancelled too.
* `ban_unpaid` – `rentals/cancellation.py:1`: a durable obligation tracks the
  refund. A ban cancels paid rentals and requests none.

Seen in the code while modelling, and not given a run of their own. The models
do what the code does, and the properties are stated so as to say what is left.

* *Contracts.* `contracts/services.py:238`: "só o código mais recente vale". Only
  codes not consumed are compared (437), so once the newest is spent and the
  acceptance is refused or dies, the one before it counts again until it expires.
* *Chat.* `Mensagens.tsx:268` puts the answer of a POST on whatever conversation
  is open, against the comment at 48. `useChatSocket.ts:54` subscribes after the
  page was read, so a message stored in between is seen only at the next read.
* *Documents.* A verdict applies to the row as it is by then
  (`document_validation/services.py:208`), edited since the reviewer read it or
  not. A late answer closes, or stands beside, another document
  (`Documentos.tsx:130`, `165`, `451`). In `CNHUpload.tsx` a registered licence
  submitted while a second photograph is checked mixes the two (92), and a
  creation repeated after a lost answer makes a second row.
* *Booking.* `Reservar.tsx:702`: a creation whose answer was lost is repeated as a
  second rental once the first hold lapses. When the contract changed while it was
  read, the page "recarrega e exige nova leitura e novo código" (722): the tick is
  cleared before the new document is there, so the box can be ticked again over the
  old one meanwhile; the period and the price beside it are the page's own and are
  not read again; a reload that fails leaves no revision at all. This last step of
  the page, the signature, is read but not modelled (the same step of the dashboards'
  dialog is, in `Signing`).
* *Signing.* `AssinaturaContratoModal.tsx:118` and `152`: the late answer of
  contract A shows in the dialog of B. `DashboardLocador.tsx:1096` closes the
  dialog as soon as it is signed, so the receipt is never seen.
* *Sessions.* A late refresh, bootstrap or sign-out sets or drops the token of the
  session after it (`features/auth/api/AuthStore.ts:45`). Two requests at once leave two valid reset
  links (`authentication/services.py:91`: "só o pedido mais recente vale").
* *Addresses.* `Signup.tsx:53`, `NovoAnuncio.tsx:52` and `GerenciarAnuncio.tsx:94` do
  not number their lookups; a late one leaves a map point under another address,
  as does a row read again (81). In `OperadoresPanel.tsx:146` a late list drops the
  operator just created.
* *Listings.* The owner's update saves a row read without a lock and undoes a
  moderator's rejection (`postings/services.py:108`); `Listing` has the check and the
  write as two steps, so this happens in the model too, where no property speaks of it. A suggested price stays when
  another machine is chosen. A lost creation is repeated as a second listing.
* *Moderation.* `administration/services.py:110` activates a listing whatever its
  owner's status, against `Users.tsx:53`.
* *Rentals.* A quote of a cancellation may be old when it is executed
  (`rentals/policy.py:68`). A late success closes the panel or form of another
  rental. `DashboardLocador.tsx:321` trims a comment as it is typed.
* *Search.* A list that shrinks leaves the page past its end
  (`BuscarMaquinario`). The calendar of `AnuncioDetalhe.tsx:227` is drawn from the
  viewer's own rentals, so what others booked looks free.
* *Payments.* `_attempt_failed` (`payments/services.py:205`) updates the rental under a
  condition on the payments table without the rental's lock.

## 6. Plan

Done: the core with its proofs, refunds, contracts and sessions with theirs, the
screens with the proof of each of their safety properties and of their types. What is
left, in order:

1. **Proofs.** The frames of the screens stated once: `DealProofs`, `DeskProofs` and
   `TypeProofs` each say of many actions which fields they leave alone.
2. **`LockOrder`**: the row locks of each kind of transaction, with those foreign
   keys take. Property: no cycle of waiting transactions (`_cancel` takes rental
   before payments; `RefundService.apply` holds the payment and inserts a
   notification that references the rental); and what READ COMMITTED does to the
   updates that take no lock.
3. **The signature on the booking page** (`Reservar.tsx`, 722 to 788): the document,
   the tick and the code of one rental, with the reload a changed revision forces.
4. **Composition**: `Recurrence` and `Booking` over `MachineCalendar` instead of
   their own weeks and days; `Session` under a screen whose user changes.
5. **Notifications**: one row per event key and recipient.
6. **Chat**: read marks, reports, hidden messages, older pages.

## 7. What is not modelled, and why

* Notifications: written in the transaction of the event under a unique key;
  nothing depends on them but the bell.
* Chat's read marks, typing, reports and hiding; password reset and closing of
  accounts; the list of a machine's occupied periods: planned or display only.
* The evidence chain's hashes and the document's text: data the properties do
  not tell apart; a signature refers to a revision instead.
* The figure a price suggestion computes, the assistant's taste, machine learning:
  numeric code and language models, out of a model checker's reach. The models let
  them answer anything.
* Pages that only display (home, help, statistics), styling, maps' drawing.
* Storage, configuration, serializers, e-mail templates, seeds, container files,
  the browser extension: input and output without state of their own.
* What READ COMMITTED does to an update whose row changed while it waited, and the
  locks foreign keys take: the models' transactions are atomic (`LockOrder` in the
  plan).
