--------------------------- MODULE ContractSigning ---------------------------
(***************************************************************************)
(* One contract from its payment to its end (contracts/): the revisions    *)
(* frozen for signature, the one-time codes sent by e-mail, the two        *)
(* signatures, proposals to change the dates, and what cancels it all.     *)
(*                                                                         *)
(* One action is one transaction.  Those that write the contract hold its  *)
(* lock; signing is not one of them: a request checks without locks, then  *)
(* spends the code in a transaction of its own, and only then takes the    *)
(* locks and records the acceptance.  Whether the dates are free, the      *)
(* listing allows them or a payment is in review belongs to Checkout; here *)
(* it only means that a request may be refused.                            *)
(***************************************************************************)
EXTENDS Naturals, Sequences, FiniteSets, Functions

CONSTANTS
  Roles,         \* the parties: locatario, locador
  Emails,        \* addresses a party may register
  NoRole, NoEmail,
  Dates,         \* first days of the rental; it keeps its number of days
  Workers,       \* requests to sign
  SignMargin,    \* signatures close this long before the start (24 h)
  LeadTime,      \* ANTECEDENCIA_MINIMA_DIAS
  AnswerTime,    \* life of a proposal (7 days)
  Length,        \* from the first day to the last
  CodeLife,      \* OTP_TTL_SECONDS
  MaxTries,      \* OTP_MAX_ATTEMPTS
  Movers,        \* bound of the model: the parties who change their address
  MaxTime,       \* bound of the model: the clock stops here
  MaxCodes,      \* bound of the model: codes requested
  MaxProposals,  \* bound of the model: changes of dates proposed
  MaxEvents      \* bound of the model: codes and proposals together

ASSUME PartiesAssumption == Roles # {} /\ NoRole \notin Roles /\ NoEmail \notin Emails
ASSUME TimesAssumption ==
  /\ {SignMargin, LeadTime, AnswerTime, Length, CodeLife, MaxTries, MaxTime, MaxCodes, MaxProposals, MaxEvents}
       \subseteq Nat
  /\ Dates \subseteq {d \in Nat : d > SignMargin}

VARIABLES
  now,
  rental,      \* its status and first day
  contract,    \* status, current revision, who accepted it, signature deadline
  revisions,   \* ContractRevisions by number: the first day each one froze
  signatures,  \* ContractSignatures
  codes,       \* ContractSignatureOtps in order of creation
  proposals,   \* ContractAmendments in order of creation
  email,       \* the address each party has registered
  worker,
  marked       \* a ban has read the rental as active and will cancel it

vars == <<now, rental, contract, revisions, signatures, codes, proposals, email, worker, marked>>

PAID == {"active", "signed"}

Code == [role : Roles, revision : Nat, email : Emails, expires : Nat, tries : 0..MaxTries,
         status : {"sending", "live", "consumed"}]

\* The transaction that wrote the row was rolled back.
Undone == [role |-> NoRole, revision |-> 0, email |-> NoEmail, expires |-> 0, tries |-> 0,
           status |-> "undone"]

Signature == [role : Roles, revision : Nat, email : Emails, code : Nat]

Proposal == [proposer : Roles, base : Nat, start : Dates, expires : Nat,
             status : {"pending", "accepted", "rejected", "withdrawn", "expired"}]

\* What a request to sign read when it began, and the code it has spent.
Worker == [pc : {"idle", "checked", "verified"}, role : Roles \cup {NoRole}, revision : Nat,
           email : Emails \cup {NoEmail}, code : Nat]

TypeOK ==
  /\ now \in Nat
  /\ rental \in [status : PAID \cup {"completed", "cancelled"}, start : Dates]
  /\ contract \in [status : {"pending_signatures", "signed", "cancelled"}, current : Nat \ {0},
                   accepted : SUBSET Roles, deadline : Nat]
  /\ revisions \in Seq(Dates)
  /\ signatures \subseteq Signature
  /\ codes \in Seq(Code \cup {Undone})
  /\ proposals \in Seq(Proposal)
  /\ email \in [Roles -> Emails]
  /\ worker \in [Workers -> Worker]
  /\ marked \in BOOLEAN

Idle == [pc |-> "idle", role |-> NoRole, revision |-> 0, email |-> NoEmail, code |-> 0]

\* The payment is confirmed and froze the first revision (Bookable in Checkout).
Init ==
  /\ now = 0
  /\ \E start \in Dates :
       /\ rental = [status |-> "active", start |-> start]
       /\ contract = [status |-> "pending_signatures", current |-> 1, accepted |-> {},
                      deadline |-> start - SignMargin]
       /\ revisions = <<start>>
  /\ signatures = {}
  /\ codes = <<>>
  /\ proposals = <<>>
  /\ email \in {address \in [Roles -> Emails] : IsInjective(address)}   \* unique in the table
  /\ worker = [w \in Workers |-> Idle]
  /\ marked = FALSE

Mind(a, b) == IF a <= b THEN a ELSE b

(***************************************************************************)
(* One-time codes.                                                         *)
(***************************************************************************)
\* _ensure_deadline, _ensure_not_signed and _ensure_payable, in that order.
MaySign(role) ==
  /\ contract.status # "cancelled" /\ now < contract.deadline
  /\ role \notin contract.accepted
  /\ rental.status \in PAID

\* request_otp: the row is written, unseen by others, before the mail goes out.
RequestOtp(role) ==
  /\ MaySign(role)
  /\ Len(codes) < MaxCodes /\ Len(codes) + Len(proposals) < MaxEvents
  /\ codes' = Append(codes, [role |-> role, revision |-> contract.current, email |-> email[role],
                             expires |-> now + CodeLife, tries |-> 0, status |-> "sending"])
  /\ UNCHANGED <<now, rental, contract, revisions, signatures, proposals, email, worker, marked>>

\* The mail went out and the transaction commits, or neither.
OtpOutcome(c) ==
  /\ codes[c].status = "sending"
  /\ \E row \in {[codes[c] EXCEPT !.status = "live"], Undone} : codes' = [codes EXCEPT ![c] = row]
  /\ UNCHANGED <<now, rental, contract, revisions, signatures, proposals, email, worker, marked>>

ChangeEmail(role, address) ==
  /\ role \in Movers
  /\ \A other \in Roles : address # email[other]
  /\ email' = [email EXCEPT ![role] = address]
  /\ UNCHANGED <<now, rental, contract, revisions, signatures, codes, proposals, worker, marked>>

(***************************************************************************)
(* Signing (ContractSignatureService.sign).                                *)
(***************************************************************************)
Live(role) == {c \in DOMAIN codes : codes[c].role = role /\ codes[c].status = "live"}

\* Checks without locks; the party has the current revision on its screen and
\* types a code it was sent (with none it is refused and nothing changes).
CheckSign(w, role) ==
  /\ worker[w].pc = "idle"
  /\ Live(role) # {}
  /\ MaySign(role)
  /\ worker' = [worker EXCEPT ![w] = [pc |-> "checked", role |-> role, code |-> 0,
                                      revision |-> contract.current, email |-> email[role]]]
  /\ UNCHANGED <<now, rental, contract, revisions, signatures, codes, proposals, email, marked>>

Newest(c, role) == c \in Live(role) /\ \A d \in Live(role) : d <= c

\* (mutant) the code is taken whatever address it was sent to
UsableAtAnyAddress(c, w) ==
  /\ codes[c].revision = worker[w].revision
  /\ now < codes[c].expires
  /\ codes[c].tries < MaxTries

Usable(c, w) ==
  /\ codes[c].email = worker[w].email /\ codes[c].revision = worker[w].revision
  /\ now < codes[c].expires
  /\ codes[c].tries < MaxTries

\* _consume_otp: only the newest code not consumed is looked at.
ConsumeOtp(w) ==
  /\ worker[w].pc = "checked"
  /\ \E c \in DOMAIN codes :
       /\ Newest(c, worker[w].role) /\ Usable(c, w)
       /\ \/ /\ codes' = [codes EXCEPT ![c].tries = @ + 1, ![c].status = "consumed"]
             /\ worker' = [worker EXCEPT ![w].pc = "verified", ![w].code = c]
          \/ /\ codes' = [codes EXCEPT ![c].tries = @ + 1]       \* the wrong digits
             /\ worker' = [worker EXCEPT ![w] = Idle]
  /\ UNCHANGED <<now, rental, contract, revisions, signatures, proposals, email, marked>>

\* (mutant) the revision is not compared again under the lock
AnyRevision(w) == TRUE

StillCurrent(w) == contract.current = worker[w].revision

AcceptedBy(revision, all) == {s.role : s \in {t \in all : t.revision = revision}}

\* (mutant) whoever signed any revision counts
AcceptedEver(all) == {s.role : s \in all}

Accepted(all) == AcceptedBy(contract.current, all)

RecordAcceptance(w) ==
  /\ worker[w].pc = "verified"
  /\ StillCurrent(w) /\ MaySign(worker[w].role)
  /\ signatures' = signatures \cup {[role |-> worker[w].role, revision |-> contract.current,
                                     email |-> worker[w].email, code |-> worker[w].code]}
  /\ LET accepted == Accepted(signatures') IN
       /\ contract' = [contract EXCEPT !.accepted = accepted,
                         !.status = IF accepted = Roles THEN "signed" ELSE "pending_signatures"]
       /\ rental' = [rental EXCEPT !.status = IF accepted = Roles THEN "signed" ELSE "active"]
  /\ worker' = [worker EXCEPT ![w] = Idle]
  /\ UNCHANGED <<now, revisions, codes, proposals, email, marked>>

\* Refused at any point, or the process dies: a code that was spent stays spent.
Abandon(w) ==
  /\ worker[w].pc # "idle"
  /\ worker' = [worker EXCEPT ![w] = Idle]
  /\ UNCHANGED <<now, rental, contract, revisions, signatures, codes, proposals, email, marked>>

(***************************************************************************)
(* Changing the dates (AmendmentService).                                  *)
(***************************************************************************)
Pending(k) == proposals[k].status = "pending"

Lapse(k) == IF Pending(k) /\ proposals[k].expires <= now
            THEN [proposals[k] EXCEPT !.status = "expired"] ELSE proposals[k]

\* _expire, which listing and proposing begin with.
Lapsed == [k \in DOMAIN proposals |-> Lapse(k)]

OpenToChange ==
  /\ rental.status \in PAID /\ contract.status # "cancelled"
  /\ now < rental.start
  /\ contract.status # "signed" => now < contract.deadline

ListProposals ==
  /\ proposals' = Lapsed
  /\ UNCHANGED <<now, rental, contract, revisions, signatures, codes, email, worker, marked>>

\* (mutant) a second proposal may wait beside the first
NothingBlocks(all) == TRUE

NonePending(all) == \A k \in DOMAIN all : all[k].status # "pending"

Propose(role, start) ==
  LET deadline == Mind(rental.start, start) - SignMargin IN
  /\ OpenToChange
  /\ NonePending(Lapsed)
  /\ start # rental.start
  /\ start >= now + LeadTime
  /\ deadline > now
  /\ Len(proposals) < MaxProposals /\ Len(codes) + Len(proposals) < MaxEvents
  /\ proposals' = Append(Lapsed, [proposer |-> role, base |-> contract.current, start |-> start,
                                  expires |-> Mind(deadline, now + AnswerTime), status |-> "pending"])
  /\ UNCHANGED <<now, rental, contract, revisions, signatures, codes, email, worker, marked>>

Decidable(k) ==
  /\ Pending(k) /\ now < proposals[k].expires
  /\ OpenToChange
  /\ proposals[k].base = contract.current

Withdraw(role, k) ==
  /\ Decidable(k) /\ proposals[k].proposer = role
  /\ proposals' = [proposals EXCEPT ![k].status = "withdrawn"]
  /\ UNCHANGED <<now, rental, contract, revisions, signatures, codes, email, worker, marked>>

Reject(role, k) ==
  /\ Decidable(k) /\ proposals[k].proposer # role
  /\ proposals' = [proposals EXCEPT ![k].status = "rejected"]
  /\ UNCHANGED <<now, rental, contract, revisions, signatures, codes, email, worker, marked>>

\* (mutant) the contract keeps the status it had
FreezeAsItIs(start) ==
  [contract EXCEPT !.current = @ + 1, !.accepted = {}, !.deadline = start - SignMargin]

\* freeze_revision: the new revision needs every acceptance again.
Freeze(start) ==
  [contract EXCEPT !.status = "pending_signatures", !.current = @ + 1, !.accepted = {},
                   !.deadline = start - SignMargin]

Accept(role, k) ==
  LET start == proposals[k].start IN
  /\ Decidable(k) /\ proposals[k].proposer # role
  /\ start >= now + LeadTime
  /\ rental' = [rental EXCEPT !.start = start, !.status = "active"]
  /\ contract' = Freeze(start)
  /\ revisions' = Append(revisions, start)
  /\ proposals' = [proposals EXCEPT ![k].status = "accepted"]
  /\ UNCHANGED <<now, signatures, codes, email, worker, marked>>

(***************************************************************************)
(* The end: cancellation, the deadline job, a ban, completion.             *)
(***************************************************************************)
\* (mutant) every proposal is closed, decided or not
CloseAll == [k \in DOMAIN proposals |-> [proposals[k] EXCEPT !.status = "expired"]]

Closed == [k \in DOMAIN proposals |->
             IF Pending(k) THEN [proposals[k] EXCEPT !.status = "expired"] ELSE proposals[k]]

CancelAll ==
  /\ rental' = [rental EXCEPT !.status = "cancelled"]
  /\ contract' = [contract EXCEPT !.status = "cancelled"]
  /\ proposals' = Closed
  /\ UNCHANGED <<now, revisions, signatures, codes, email, worker, marked>>

\* By a party before the start, by an administrator at any time.
CancelRental == rental.status \in PAID /\ CancelAll

Overdue == /\ contract.status = "pending_signatures" /\ contract.deadline <= now
           /\ rental.status \in PAID

\* expire_unsigned_contracts
CancelOverdue == Overdue /\ CancelAll

\* UserModerationService.ban reads the tenant's rentals and updates them later.
BanReads ==
  /\ ~marked /\ rental.status = "active"
  /\ marked' = TRUE
  /\ UNCHANGED <<now, rental, contract, revisions, signatures, codes, proposals, email, worker>>

BanWrites ==
  /\ marked
  /\ marked' = FALSE
  /\ rental' = [rental EXCEPT !.status = "cancelled"]
  /\ contract' = [contract EXCEPT !.status = IF @ = "pending_signatures" THEN "cancelled" ELSE @]
  /\ UNCHANGED <<now, revisions, signatures, codes, proposals, email, worker>>

Complete ==
  /\ rental.status = "signed" /\ contract.status = "signed"
  /\ rental.start + Length <= now
  /\ rental' = [rental EXCEPT !.status = "completed"]
  /\ UNCHANGED <<now, contract, revisions, signatures, codes, proposals, email, worker, marked>>

Tick ==
  /\ now < MaxTime
  /\ now' = now + 1
  /\ UNCHANGED <<rental, contract, revisions, signatures, codes, proposals, email, worker, marked>>

-----------------------------------------------------------------------------
Next ==
  \/ Tick \/ ListProposals \/ CancelRental \/ CancelOverdue \/ BanReads \/ BanWrites \/ Complete
  \/ \E c \in DOMAIN codes : OtpOutcome(c)
  \/ \E role \in Roles :
       \/ RequestOtp(role)
       \/ \E address \in Emails : ChangeEmail(role, address)
       \/ \E start \in Dates : Propose(role, start)
       \/ \E k \in DOMAIN proposals : Withdraw(role, k) \/ Reject(role, k) \/ Accept(role, k)
       \/ \E w \in Workers : CheckSign(w, role)
  \/ \E w \in Workers : ConsumeOtp(w) \/ RecordAcceptance(w) \/ Abandon(w)

Spec == Init /\ [][Next]_vars

(***************************************************************************)
(* What must hold.                                                         *)
(***************************************************************************)
\* Every signature was backed by a code of its own, sent to the very address it
\* records, for that party and for the revision it accepts, whatever happened to
\* the contract and to the party's address while the request was on its way.
EverySignatureIsProven ==
  /\ \A s \in signatures :
       /\ s.code \in DOMAIN codes /\ codes[s.code].status = "consumed"
       /\ codes[s.code].role = s.role /\ codes[s.code].email = s.email
       /\ codes[s.code].revision = s.revision
  /\ \A s, t \in signatures : s.code = t.code \/ (s.role = t.role /\ s.revision = t.revision) => s = t

\* A signed contract bears the signature of every party under one and the same
\* revision, the current one, and that revision says what the rental says; a
\* rental counts as signed only then.
SignedByAll ==
  /\ contract.status = "signed" => AcceptedBy(contract.current, signatures) = Roles
  /\ contract.status # "cancelled" => revisions[contract.current] = rental.start
  /\ rental.status \in {"signed", "completed"} => contract.status = "signed"

\* Revisions come from accepted proposals alone, one from each, made on the
\* revision that was current when it was accepted: no proposal overwrites the
\* outcome of another one, and no two wait for an answer at once (the database
\* would refuse the second with an error of its own).
RevisionsAreAgreed ==
  /\ Len(revisions) = contract.current
  /\ \A n \in 2..contract.current :
       \E k \in DOMAIN proposals :
         proposals[k].status = "accepted" /\ proposals[k].base = n - 1 /\ proposals[k].start = revisions[n]
  /\ \A k \in DOMAIN proposals :
       proposals[k].status = "accepted" =>
         /\ proposals[k].base < contract.current
         /\ \A j \in DOMAIN proposals :
              proposals[j].status = "accepted" /\ proposals[j].base = proposals[k].base => j = k
  /\ \A j, k \in DOMAIN proposals : Pending(j) /\ Pending(k) => j = k

\* Evidence is only added to: signatures and revisions stay, a decision on a
\* proposal and a cancelled contract are never changed.
EvidenceIsKept ==
  [][/\ signatures \subseteq signatures'
     /\ \A n \in DOMAIN revisions : revisions'[n] = revisions[n]
     /\ \A k \in DOMAIN proposals : ~Pending(k) => proposals'[k] = proposals[k]
     /\ contract.status = "cancelled" => contract' = contract]_vars

(***************************************************************************)
(* The agreement this implements.                                          *)
(***************************************************************************)
State == CASE rental.status = "cancelled"                          -> "void"
           [] rental.status # "cancelled" /\ contract.status = "signed" -> "sealed"
           [] OTHER                                                -> "open"

Promise == INSTANCE Agreement WITH
  Parties <- Roles, Terms <- Dates, terms <- rental.start,
  agreed <- AcceptedBy(contract.current, signatures), state <- State

\* Parties agree to what the rental says, all of them before it is sealed, and
\* from the start when it changes.
ImplementsAgreement == Promise!Spec
=============================================================================
