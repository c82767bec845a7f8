--------------------------- MODULE ContractProofs ---------------------------
(***************************************************************************)
(* Proofs about ContractSigning, for every value of its constants.         *)
(*                                                                         *)
(* Three invariants stand beside the types.  Books: the contract counts    *)
(* exactly the signatures under its current revision, which is what the    *)
(* rental says.  Proven: a code that a request or a signature rests on is  *)
(* spent, fits it, and backs nothing else.  Proposed: proposals are made   *)
(* on revisions there have been, and one at most waits.                    *)
(***************************************************************************)
EXTENDS ContractSigning, TLAPS

Books ==
  /\ Len(revisions) = contract.current
  /\ revisions[contract.current] = rental.start
  /\ \A s \in signatures : s.revision <= contract.current
  /\ contract.accepted = Accepted(signatures)
  /\ contract.status = "signed" => contract.accepted = Roles
  /\ rental.status \in {"signed", "completed"} => contract.status = "signed"

\* The code c was spent, and for this party, address and revision.
Backs(c, row) ==
  /\ c \in DOMAIN codes /\ codes[c].status = "consumed"
  /\ codes[c].role = row.role /\ codes[c].email = row.email /\ codes[c].revision = row.revision

Begun == \A w \in Workers : worker[w].pc # "idle" => worker[w].role \in Roles /\ worker[w].email \in Emails

Verified == {w \in Workers : worker[w].pc = "verified"}

Proven ==
  /\ \A s \in signatures : Backs(s.code, s)
  /\ \A s, t \in signatures : s.code = t.code => s = t
  /\ \A s, t \in signatures : s.role = t.role /\ s.revision = t.revision => s = t
  /\ \A w \in Verified : Backs(worker[w].code, worker[w])
  /\ \A w \in Verified, s \in signatures : worker[w].code # s.code
  /\ \A w, v \in Verified : worker[w].code = worker[v].code => w = v

Proposed ==
  /\ \A k \in DOMAIN proposals : proposals[k].base <= contract.current
  /\ \A k \in DOMAIN proposals :
       Pending(k) /\ proposals[k].base = contract.current => proposals[k].start # rental.start

IInv == TypeOK /\ Begun /\ Books /\ Proven /\ Proposed /\ RevisionsAreAgreed

-----------------------------------------------------------------------------
\* Durations are numbers, and dates lie beyond the margin for signatures.
LEMMA Times ==
  /\ SignMargin \in Nat /\ AnswerTime \in Nat /\ CodeLife \in Nat /\ MaxTries \in Nat
  /\ \A day \in Dates : day \in Nat /\ day > SignMargin /\ day - SignMargin \in Nat
<1>1. SignMargin \in Nat /\ AnswerTime \in Nat /\ CodeLife \in Nat /\ MaxTries \in Nat
  BY TimesAssumption
<1>2. \A day \in Dates : day \in Nat /\ day > SignMargin
  BY TimesAssumption
<1> QED BY <1>1, <1>2

\* A row of the codes table is replaced by another.
LEMMA CodeRow ==
  ASSUME TypeOK, NEW c \in DOMAIN codes, NEW row \in Code \cup {Undone}
  PROVE  [codes EXCEPT ![c] = row] \in Seq(Code \cup {Undone})
  BY DEF TypeOK

\* A proposal may be rewritten as another.
LEMMA ProposalRow ==
  ASSUME TypeOK, NEW k \in DOMAIN proposals, NEW row \in Proposal
  PROVE  [proposals EXCEPT ![k] = row] \in Seq(Proposal)
  BY DEF TypeOK

\* A proposal is one, whatever becomes of its status.
LEMMA ProposalTypes ==
  ASSUME TypeOK, NEW k \in DOMAIN proposals
  PROVE  /\ proposals[k] \in Proposal
         /\ \A status \in {"pending", "accepted", "rejected", "withdrawn", "expired"} :
              [proposals[k] EXCEPT !.status = status] \in Proposal
<1>1. proposals[k] \in Proposal
  BY DEF TypeOK
<1> QED BY <1>1 DEF Proposal

\* What each proposal becomes when they lapse or are closed: they stay as many.
LEMMA ClosedRows ==
  ASSUME TypeOK
  PROVE  /\ Lapsed \in Seq(Proposal) /\ DOMAIN Lapsed = DOMAIN proposals /\ Len(Lapsed) = Len(proposals)
         /\ Closed \in Seq(Proposal) /\ DOMAIN Closed = DOMAIN proposals /\ Len(Closed) = Len(proposals)
<1>1. DOMAIN proposals = 1..Len(proposals) /\ Len(proposals) \in Nat
  BY DEF TypeOK
<1>2. \A k \in 1..Len(proposals) : Lapse(k) \in Proposal
  BY <1>1, ProposalTypes DEF Lapse
<1>3. Lapsed = [k \in 1..Len(proposals) |-> Lapse(k)]
  BY <1>1 DEF Lapsed
<1>4. Closed = [k \in 1..Len(proposals) |->
                 IF Pending(k) THEN [proposals[k] EXCEPT !.status = "expired"] ELSE proposals[k]]
  BY <1>1 DEF Closed
<1>5. \A k \in 1..Len(proposals) :
        (IF Pending(k) THEN [proposals[k] EXCEPT !.status = "expired"] ELSE proposals[k]) \in Proposal
  BY <1>1, ProposalTypes
<1> QED BY <1>1, <1>2, <1>3, <1>4, <1>5

\* A code consumed stays so, whatever row is written in another's place.
LEMMA BackedStays ==
  ASSUME TypeOK, NEW c, NEW row, Backs(c, row),
         \/ UNCHANGED codes
         \/ \E new : codes' = Append(codes, new)
         \/ \E d \in DOMAIN codes : \E new : codes[d].status # "consumed" /\ codes' = [codes EXCEPT ![d] = new]
  PROVE  /\ c \in DOMAIN codes' /\ codes'[c].status = "consumed"
         /\ codes'[c].role = row.role /\ codes'[c].email = row.email /\ codes'[c].revision = row.revision
<1> USE DEF Backs
<1>1. CASE UNCHANGED codes
  BY <1>1
<1>2. CASE \E new : codes' = Append(codes, new)
  <2>1. c \in 1..Len(codes) /\ Len(codes) \in Nat
    BY DEF TypeOK
  <2>2. Len(codes') = Len(codes) + 1 /\ DOMAIN codes' = 1..(Len(codes) + 1) /\ codes'[c] = codes[c]
    BY <1>2, <2>1 DEF TypeOK
  <2> QED BY <2>1, <2>2
<1>3. CASE \E d \in DOMAIN codes : \E new : codes[d].status # "consumed" /\ codes' = [codes EXCEPT ![d] = new]
  BY <1>3
<1> QED BY <1>1, <1>2, <1>3

(***************************************************************************)
(* What an action that leaves the variables of a conjunct alone keeps.     *)
(***************************************************************************)
\* The books are about rental, contract, revisions and signatures.
LEMMA BooksKept ==
  ASSUME Books, UNCHANGED <<rental, contract, revisions, signatures>>
  PROVE  Books'
  BY DEF Books, Accepted, AcceptedBy

\* What is begun and proven is about codes, signatures and requests.
LEMMA ProvenKept ==
  ASSUME Begun, Proven, UNCHANGED <<codes, signatures, worker>>
  PROVE  Begun' /\ Proven'
  BY DEF Begun, Proven, Backs, Verified

\* More codes, or another row in the place of one that is not spent, prove no less.
LEMMA ProvenWithCodes ==
  ASSUME TypeOK, Begun, Proven, UNCHANGED <<signatures, worker>>,
         \/ \E new : codes' = Append(codes, new)
         \/ \E d \in DOMAIN codes : \E new : codes[d].status # "consumed" /\ codes' = [codes EXCEPT ![d] = new]
  PROVE  Begun' /\ Proven'
<1>1. \A s \in signatures : Backs(s.code, s)'
  BY BackedStays DEF Proven, Backs
<1>2. \A w \in Verified : Backs(worker[w].code, worker[w])'
  BY BackedStays DEF Proven, Backs, Verified
<1> QED BY <1>1, <1>2 DEF Begun, Proven, Verified

\* Proposals and revisions are about the contract and the rental.
LEMMA ProposalsKept ==
  ASSUME Proposed, RevisionsAreAgreed,
         UNCHANGED <<rental, contract, revisions, proposals>>
  PROVE  Proposed' /\ RevisionsAreAgreed'
  BY DEF Proposed, RevisionsAreAgreed, Pending

\* Closing some of those that wait, without accepting any, upsets no agreement.
LEMMA ProposalsEnded ==
  ASSUME TypeOK, Proposed, RevisionsAreAgreed,
         UNCHANGED revisions, contract'.current = contract.current, rental'.start = rental.start,
         DOMAIN proposals' = DOMAIN proposals,
         \A k \in DOMAIN proposals :
           \/ proposals'[k] = proposals[k]
           \/ /\ Pending(k)
              /\ \E status \in {"expired", "rejected", "withdrawn"} :
                   proposals'[k] = [proposals[k] EXCEPT !.status = status]
  PROVE  Proposed' /\ RevisionsAreAgreed'
<1>1. \A k \in DOMAIN proposals :
        /\ proposals'[k].base = proposals[k].base /\ proposals'[k].start = proposals[k].start
        /\ proposals'[k].status = "accepted" <=> proposals[k].status = "accepted"
        /\ proposals'[k].status = "pending" => proposals[k].status = "pending"
  <2> SUFFICES ASSUME NEW k \in DOMAIN proposals,
                      NEW status \in {"expired", "rejected", "withdrawn"}, Pending(k),
                      proposals'[k] = [proposals[k] EXCEPT !.status = status]
               PROVE  /\ proposals'[k].base = proposals[k].base /\ proposals'[k].start = proposals[k].start
                      /\ proposals'[k].status = status
    BY DEF Pending
  <2> QED BY ProposalTypes DEF Proposal
<1>2. Proposed'
  BY <1>1 DEF Proposed, Pending
<1>3. RevisionsAreAgreed'
  BY <1>1 DEF RevisionsAreAgreed, Pending
<1> QED BY <1>2, <1>3

(***************************************************************************)
(* One lemma for each action: it keeps the invariant.                      *)
(***************************************************************************)
\* The clock, the addresses and a ban's reading touch no contract.
LEMMA OutsideStep ==
  ASSUME IInv, Tick \/ BanReads \/ \E role \in Roles, address \in Emails : ChangeEmail(role, address)
  PROVE  IInv'
<1>1. UNCHANGED <<rental, contract, revisions, signatures, codes, proposals, worker>>
  BY DEF Tick, BanReads, ChangeEmail
<1>2. now' \in Nat /\ email' \in [Roles -> Emails] /\ marked' \in BOOLEAN
  <2>1. CASE Tick
    BY <2>1 DEF IInv, TypeOK, Tick
  <2>3. CASE BanReads
    BY <2>3 DEF IInv, TypeOK, BanReads
  <2>2. CASE \E role \in Roles, address \in Emails : ChangeEmail(role, address)
    BY <2>2 DEF IInv, TypeOK, ChangeEmail
  <2> QED BY <2>1, <2>2, <2>3
<1>3. TypeOK'
  BY <1>1, <1>2 DEF IInv, TypeOK
<1> QED BY <1>1, <1>3, BooksKept, ProvenKept, ProposalsKept DEF IInv

\* A code is sent and nothing is proven by it yet.
LEMMA RequestOtpStep ==
  ASSUME IInv, NEW role \in Roles, RequestOtp(role)
  PROVE  IInv'
<1> DEFINE row == [role |-> role, revision |-> contract.current, email |-> email[role],
                   expires |-> now + CodeLife, tries |-> 0, status |-> "sending"]
<1>1. row \in Code
  BY Times DEF IInv, TypeOK, Code
<1>2. codes' = Append(codes, row)
  BY DEF RequestOtp
<1> HIDE DEF row
<1>3. TypeOK'
  BY <1>1, <1>2 DEF IInv, TypeOK, RequestOtp
<1> QED BY <1>2, <1>3, BooksKept, ProvenWithCodes, ProposalsKept DEF IInv, RequestOtp

\* The outcome of the e-mail tells of no signature.
LEMMA OtpOutcomeStep ==
  ASSUME IInv, NEW c \in DOMAIN codes, OtpOutcome(c)
  PROVE  IInv'
<1>1. codes[c] \in Code /\ codes[c].status # "consumed"
  BY DEF IInv, TypeOK, OtpOutcome, Undone
<1>2. [codes[c] EXCEPT !.status = "live"] \in Code
  BY <1>1 DEF Code
<1>3. PICK row \in Code \cup {Undone} : codes' = [codes EXCEPT ![c] = row]
  BY <1>2 DEF OtpOutcome
<1>4. TypeOK'
  BY <1>3, CodeRow DEF IInv, TypeOK, OtpOutcome
<1> QED BY <1>1, <1>3, <1>4, BooksKept, ProvenWithCodes, ProposalsKept DEF IInv, OtpOutcome

\* A signature begins with the checks, and proves nothing.
LEMMA CheckSignStep ==
  ASSUME IInv, NEW w \in Workers, NEW role \in Roles, CheckSign(w, role)
  PROVE  IInv'
<1> DEFINE row == [pc |-> "checked", role |-> role, code |-> 0,
                   revision |-> contract.current, email |-> email[role]]
<1>1. row \in Worker /\ row.role \in Roles /\ row.email \in Emails /\ row.pc = "checked"
  BY DEF IInv, TypeOK, Worker
<1>2. worker' = [worker EXCEPT ![w] = row]
  BY DEF CheckSign
<1> HIDE DEF row
<1>3. TypeOK'
  BY <1>1, <1>2 DEF IInv, TypeOK, CheckSign
<1>4. Begun'
  BY <1>1, <1>2 DEF IInv, TypeOK, Begun
<1>5. Verified' \subseteq Verified /\ \A v \in Verified' : worker'[v] = worker[v]
  BY <1>1, <1>2 DEF IInv, TypeOK, Verified
<1>6. Proven'
  BY <1>5 DEF IInv, Proven, Backs, CheckSign
<1> QED BY <1>3, <1>4, <1>6, BooksKept, ProposalsKept DEF IInv, CheckSign

\* A request that ends early leaves only the code it spent.
LEMMA AbandonStep ==
  ASSUME IInv, NEW w \in Workers, Abandon(w)
  PROVE  IInv'
<1>1. Idle \in Worker /\ Idle.pc = "idle"
  BY DEF Idle, Worker
<1>2. worker' = [worker EXCEPT ![w] = Idle]
  BY DEF Abandon
<1>3. TypeOK'
  BY <1>1, <1>2 DEF IInv, TypeOK, Abandon
<1>4. Begun'
  BY <1>1, <1>2 DEF IInv, TypeOK, Begun
<1>5. Verified' \subseteq Verified /\ \A v \in Verified' : worker'[v] = worker[v]
  BY <1>1, <1>2 DEF IInv, TypeOK, Verified
<1>6. Proven'
  BY <1>5 DEF IInv, Proven, Backs, Abandon
<1> QED BY <1>3, <1>4, <1>6, BooksKept, ProposalsKept DEF IInv, Abandon

\* A code is spent by one request, and only while nothing rests on it.
LEMMA ConsumeOtpStep ==
  ASSUME IInv, NEW w \in Workers, ConsumeOtp(w)
  PROVE  IInv'
<1> USE DEF IInv
<1>1. PICK c \in DOMAIN codes :
        /\ Newest(c, worker[w].role) /\ Usable(c, w)
        /\ \/ /\ codes' = [codes EXCEPT ![c].tries = @ + 1, ![c].status = "consumed"]
              /\ worker' = [worker EXCEPT ![w].pc = "verified", ![w].code = c]
           \/ /\ codes' = [codes EXCEPT ![c].tries = @ + 1]
              /\ worker' = [worker EXCEPT ![w] = Idle]
  BY DEF ConsumeOtp
<1>2. /\ codes[c] \in Code /\ codes[c].status = "live" /\ c \in Nat
      /\ codes[c].role = worker[w].role /\ codes[c].email = worker[w].email
      /\ codes[c].revision = worker[w].revision /\ codes[c].tries < MaxTries
  BY <1>1 DEF TypeOK, Newest, Live, Usable, Undone
<1>3. worker[w] \in Worker /\ worker[w].pc = "checked"
  BY DEF TypeOK, ConsumeOtp
<1> DEFINE spent == [codes[c] EXCEPT !.tries = @ + 1, !.status = "consumed"]
           tried == [codes[c] EXCEPT !.tries = @ + 1]
           served == [worker[w] EXCEPT !.pc = "verified", !.code = c]
<1>4. codes[c].tries + 1 \in 0..MaxTries
  BY <1>2, Times DEF Code
<1>5. spent \in Code /\ spent.status = "consumed" /\ tried \in Code
      /\ spent.role = codes[c].role /\ spent.email = codes[c].email /\ spent.revision = codes[c].revision
  BY <1>2, <1>4 DEF Code
<1>6. served \in Worker /\ served.pc = "verified" /\ served.code = c
      /\ served.role = worker[w].role /\ served.email = worker[w].email
      /\ served.revision = worker[w].revision
  BY <1>2, <1>3 DEF Worker
<1>7. Idle \in Worker /\ Idle.pc = "idle"
  BY DEF Idle, Worker
<1>8. \/ codes' = [codes EXCEPT ![c] = spent] /\ worker' = [worker EXCEPT ![w] = served]
      \/ codes' = [codes EXCEPT ![c] = tried] /\ worker' = [worker EXCEPT ![w] = Idle]
  BY <1>1 DEF TypeOK
<1> HIDE DEF spent, tried, served
<1>9. UNCHANGED <<now, rental, contract, revisions, signatures, proposals, email, marked>>
  BY DEF ConsumeOtp
<1>10. TypeOK'
  <2>1. codes' \in Seq(Code \cup {Undone})
    BY <1>5, <1>8, CodeRow
  <2>2. worker' \in [Workers -> Worker]
    BY <1>6, <1>7, <1>8 DEF TypeOK
  <2> QED BY <2>1, <2>2, <1>9 DEF TypeOK
<1>11. Begun'
  BY <1>3, <1>6, <1>7, <1>8 DEF TypeOK, Begun
<1>12. Proven'
  <2>1. \A d, row : Backs(d, row) => d # c /\ codes'[d] = codes[d] /\ d \in DOMAIN codes'
    BY <1>2, <1>8 DEF Backs, TypeOK
  <2>2. \A s \in signatures : Backs(s.code, s)' /\ s.code # c
    BY <1>9, <2>1 DEF Proven, Backs
  <2>3. \A v \in Verified : worker[v].code # c /\ v # w
    BY <1>3, <2>1 DEF Proven, Verified
  <2>4. \A v \in Verified' : v # w => v \in Verified /\ worker'[v] = worker[v]
    BY <1>8 DEF Verified, TypeOK
  <2>5. w \in Verified' => /\ worker'[w].code = c
                           /\ Backs(c, worker[w])'
                           /\ Backs(worker[w].code, worker[w])'
    BY <1>2, <1>5, <1>6, <1>7, <1>8 DEF Verified, TypeOK, Backs
  <2>6. \A v \in Verified' : Backs(worker[v].code, worker[v])'
    BY <2>1, <2>4, <2>5 DEF Proven, Backs
  <2> QED BY <1>9, <2>2, <2>3, <2>4, <2>5, <2>6 DEF Proven
<1> QED BY <1>9, <1>10, <1>11, <1>12, BooksKept, ProposalsKept

\* What a signature adds, if it is not there yet.
LEMMA RecordAcceptanceStep ==
  ASSUME IInv, NEW w \in Workers, RecordAcceptance(w)
  PROVE  IInv'
<1> USE DEF IInv
<1> DEFINE new == [role |-> worker[w].role, revision |-> contract.current,
                   email |-> worker[w].email, code |-> worker[w].code]
           accepted == Accepted(signatures')
<1>1. /\ worker[w] \in Worker /\ worker[w].pc = "verified" /\ w \in Verified
      /\ worker[w].role \in Roles /\ worker[w].email \in Emails
      /\ worker[w].revision = contract.current
  BY DEF TypeOK, RecordAcceptance, StillCurrent, Begun, Verified
<1>2. /\ new \in Signature /\ new.role = worker[w].role /\ new.revision = contract.current
      /\ new.email = worker[w].email /\ new.code = worker[w].code
  BY <1>1 DEF TypeOK, Signature, Worker
<1>3. signatures' = signatures \cup {new}
  BY DEF RecordAcceptance
<1> HIDE DEF new
<1>4. accepted \subseteq Roles
  BY <1>2, <1>3 DEF Accepted, AcceptedBy, TypeOK, Signature
<1>5. /\ contract' = [contract EXCEPT !.accepted = accepted,
                       !.status = IF accepted = Roles THEN "signed" ELSE "pending_signatures"]
      /\ rental' = [rental EXCEPT !.status = IF accepted = Roles THEN "signed" ELSE "active"]
      /\ worker' = [worker EXCEPT ![w] = Idle]
      /\ UNCHANGED <<now, revisions, codes, proposals, email, marked>>
  BY DEF RecordAcceptance
<1>6. contract'.accepted = accepted /\ contract'.current = contract.current /\ rental'.start = rental.start
  BY <1>5 DEF TypeOK
<1>7. accepted = {s.role : s \in {t \in signatures' : t.revision = contract.current}}
  BY DEF Accepted, AcceptedBy
<1> HIDE DEF accepted
<1>8. Idle \in Worker /\ Idle.pc = "idle"
  BY DEF Idle, Worker
<1>9. TypeOK'
  BY <1>2, <1>3, <1>4, <1>5, <1>8 DEF TypeOK, PAID
<1>10. Begun'
  BY <1>5, <1>8 DEF TypeOK, Begun
<1>11. Books'
  <2>1. contract'.accepted = Accepted(signatures)'
    BY <1>6, <1>7 DEF Accepted, AcceptedBy
  <2>2. \A s \in signatures' : s.revision <= contract'.current
    BY <1>2, <1>3, <1>6 DEF Books, TypeOK
  <2>3. contract'.status = "signed" => contract'.accepted = Roles
    BY <1>5 DEF TypeOK
  <2>4. rental'.status \in {"signed", "completed"} => contract'.status = "signed"
    BY <1>5 DEF TypeOK
  <2> QED BY <1>5, <1>6, <2>1, <2>2, <2>3, <2>4 DEF Books
<1>12. Proven'
  <2>1. \A v \in Verified' : v # w /\ v \in Verified /\ worker'[v] = worker[v]
    BY <1>5, <1>8 DEF Verified, TypeOK
  <2>2. \A s \in signatures : s.code # new.code
    BY <1>1, <1>2 DEF Proven
  <2>3. \A s \in signatures : ~(s.role = new.role /\ s.revision = new.revision)
    <3>1. worker[w].role \notin contract.accepted
      BY DEF RecordAcceptance, MaySign
    <3> QED BY <3>1, <1>2 DEF Books, Accepted, AcceptedBy
  <2>4. \A s \in signatures' : Backs(s.code, s)'
    BY <1>1, <1>2, <1>3, <1>5 DEF Proven, Backs
  <2>5. \A v \in Verified' : Backs(worker[v].code, worker[v])' /\ worker'[v].code # new.code
    BY <1>1, <1>2, <1>5, <2>1 DEF Proven, Backs
  <2> QED BY <1>3, <2>1, <2>2, <2>3, <2>4, <2>5 DEF Proven
<1>13. Proposed' /\ RevisionsAreAgreed'
  BY <1>5, <1>6 DEF Proposed, RevisionsAreAgreed, Pending
<1> QED BY <1>9, <1>10, <1>11, <1>12, <1>13

\* Listing the proposals expires the old ones.
LEMMA ListProposalsStep ==
  ASSUME IInv, ListProposals
  PROVE  IInv'
<1>1. TypeOK'
  BY ClosedRows DEF IInv, TypeOK, ListProposals
<1>2. Proposed' /\ RevisionsAreAgreed'
  BY ProposalsEnded, ClosedRows DEF IInv, ListProposals, Lapsed, Lapse
<1> QED BY <1>1, <1>2, BooksKept, ProvenKept DEF IInv, ListProposals

\* A proposal is withdrawn by whom it is from or rejected by the other party.
LEMMA DeclineStep ==
  ASSUME IInv, NEW role \in Roles, NEW k \in DOMAIN proposals, Withdraw(role, k) \/ Reject(role, k)
  PROVE  IInv'
<1>1. PICK status \in {"withdrawn", "rejected"} :
        proposals' = [proposals EXCEPT ![k] = [proposals[k] EXCEPT !.status = status]]
  BY DEF Withdraw, Reject
<1>2. Pending(k) /\ UNCHANGED <<now, rental, contract, revisions, signatures, codes, email, worker, marked>>
  BY DEF Withdraw, Reject, Decidable
<1>3. TypeOK'
  BY <1>1, <1>2, ProposalTypes, ProposalRow DEF IInv, TypeOK
<1>4. Proposed' /\ RevisionsAreAgreed'
  BY <1>1, <1>2, ProposalsEnded DEF IInv, TypeOK
<1> QED BY <1>2, <1>3, <1>4, BooksKept, ProvenKept DEF IInv

\* A new proposal changes dates, and waits alone.
LEMMA ProposeStep ==
  ASSUME IInv, NEW role \in Roles, NEW start \in Dates, Propose(role, start)
  PROVE  IInv'
<1> USE DEF IInv
<1> DEFINE deadline == Mind(rental.start, start) - SignMargin
           new == [proposer |-> role, base |-> contract.current, start |-> start,
                   expires |-> Mind(deadline, now + AnswerTime), status |-> "pending"]
<1>1. deadline \in Nat
  <2>1. rental.start \in Dates /\ SignMargin \in Nat
    BY Times DEF TypeOK
  <2>2. \A day \in Dates : day \in Nat /\ day > SignMargin
    BY Times
  <2>3. Mind(rental.start, start) \in Dates
    BY <2>1 DEF Mind
  <2> QED BY <2>1, <2>2, <2>3
<1>2. now + AnswerTime \in Nat
  BY Times DEF TypeOK
<1>3. new \in Proposal /\ new.base = contract.current /\ new.start = start /\ new.status = "pending"
  BY <1>1, <1>2 DEF Mind, Proposal, TypeOK
<1>4. proposals' = Append(Lapsed, new) /\ start # rental.start /\ NonePending(Lapsed)
      /\ UNCHANGED <<now, rental, contract, revisions, signatures, codes, email, worker, marked>>
  BY DEF Propose
<1> HIDE DEF new
<1> DEFINE L == Lapsed
           k0 == Len(proposals) + 1
<1>5. /\ Len(proposals) \in Nat /\ DOMAIN proposals = 1..Len(proposals) /\ DOMAIN proposals' = 1..k0
      /\ proposals'[k0] = new /\ \A k \in DOMAIN proposals : proposals'[k] = Lapsed[k] /\ k # k0
  BY <1>4, ClosedRows DEF TypeOK
<1>6. \A k \in DOMAIN proposals :
        /\ Lapsed[k].status # "pending"
        /\ Lapsed[k].base = proposals[k].base /\ Lapsed[k].start = proposals[k].start
        /\ Lapsed[k].status = "accepted" <=> proposals[k].status = "accepted"
  <2> SUFFICES ASSUME NEW k \in DOMAIN proposals
               PROVE  /\ Lapsed[k].status # "pending"
                      /\ Lapsed[k].base = proposals[k].base /\ Lapsed[k].start = proposals[k].start
                      /\ Lapsed[k].status = "accepted" <=> proposals[k].status = "accepted"
    OBVIOUS
  <2>1. Lapsed[k] = Lapse(k) /\ Lapsed[k].status # "pending"
    BY <1>4, ClosedRows DEF Lapsed, NonePending
  <2> QED BY <2>1, ProposalTypes DEF Lapse, Pending, Proposal
<1>7. TypeOK'
  BY <1>3, <1>4, ClosedRows DEF TypeOK
<1>8. Proposed'
  <2>1. \A k \in DOMAIN proposals' : k = k0 \/ k \in DOMAIN proposals
    BY <1>5
  <2>2. \A k \in DOMAIN proposals : proposals'[k].base <= contract.current /\ proposals'[k].status # "pending"
    BY <1>5, <1>6 DEF Proposed
  <2>3. contract.current <= contract.current
    BY DEF TypeOK
  <2> QED BY <1>3, <1>4, <1>5, <2>1, <2>2, <2>3 DEF Proposed, Pending
<1>9. RevisionsAreAgreed'
  BY <1>3, <1>4, <1>5, <1>6, SMTT(30) DEF RevisionsAreAgreed, Pending
<1> QED BY <1>4, <1>7, <1>8, <1>9, BooksKept, ProvenKept

\* An accepted proposal makes a revision that nobody has signed yet.
LEMMA AcceptStep ==
  ASSUME IInv, NEW role \in Roles, NEW k \in DOMAIN proposals, Accept(role, k)
  PROVE  IInv'
<1> USE DEF IInv
<1> DEFINE start == proposals[k].start
           new == [proposals[k] EXCEPT !.status = "accepted"]
<1>1. /\ rental' = [rental EXCEPT !.start = start, !.status = "active"]
      /\ contract' = Freeze(start) /\ revisions' = Append(revisions, start)
      /\ proposals' = [proposals EXCEPT ![k] = new]
      /\ UNCHANGED <<now, signatures, codes, email, worker, marked>>
  BY DEF Accept
<1>2. Pending(k) /\ proposals[k].base = contract.current
  BY DEF Accept, Decidable
<1>3. start \in Dates /\ new \in Proposal /\ new.status = "accepted"
      /\ new.base = proposals[k].base /\ new.start = start
  BY ProposalTypes DEF Proposal
<1>4. start - SignMargin \in Nat
  BY <1>3, Times
<1> HIDE DEF start, new
<1>5. /\ contract'.current = contract.current + 1 /\ contract'.accepted = {}
      /\ contract'.status = "pending_signatures" /\ contract'.deadline = start - SignMargin
      /\ contract'.current \in Nat \ {0} /\ contract.current \in Nat \ {0}
      /\ rental'.start = start /\ rental'.status = "active"
  BY <1>1 DEF TypeOK, Freeze
<1>6. TypeOK'
  <2>1. rental' \in [status : PAID \cup {"completed", "cancelled"}, start : Dates]
    BY <1>1, <1>3 DEF TypeOK, PAID
  <2>2. contract' \in [status : {"pending_signatures", "signed", "cancelled"}, current : Nat \ {0},
                       accepted : SUBSET Roles, deadline : Nat]
    <3>1. contract' = [contract EXCEPT !.status = "pending_signatures", !.current = contract.current + 1,
                                       !.accepted = {}, !.deadline = start - SignMargin]
      BY <1>1 DEF TypeOK, Freeze
    <3>2. contract.current + 1 \in Nat \ {0}
      BY <1>5
    <3> QED BY <3>1, <3>2, <1>4 DEF TypeOK
  <2>3. revisions' \in Seq(Dates) /\ proposals' \in Seq(Proposal)
    BY <1>1, <1>3, ProposalRow DEF TypeOK
  <2> QED BY <1>1, <2>1, <2>2, <2>3 DEF TypeOK
<1>7. /\ Len(revisions') = contract'.current /\ revisions'[contract'.current] = start
      /\ \A n \in 1..contract.current : revisions'[n] = revisions[n]
  BY <1>1, <1>3, <1>5 DEF TypeOK, Books
<1>8. \A s \in signatures : s.revision < contract'.current
  BY <1>5 DEF Books, TypeOK, Signature
<1>9. Books'
  <2>1. AcceptedBy(contract'.current, signatures) = {}
    BY <1>8, <1>5 DEF AcceptedBy, TypeOK, Signature
  <2>2. Accepted(signatures)' = {}
    BY <1>1, <2>1 DEF Accepted, AcceptedBy
  <2> QED BY <1>1, <1>5, <1>7, <1>8, <2>2 DEF Books, TypeOK, Signature
<1>10. \A j \in DOMAIN proposals :
         /\ proposals'[j] = IF j = k THEN new ELSE proposals[j]
         /\ proposals'[j].base = proposals[j].base /\ proposals'[j].start = proposals[j].start
         /\ proposals[j].base \in Nat /\ proposals[j].base <= contract.current
  BY <1>1, <1>3, ProposalTypes DEF Proposed, TypeOK, Proposal, start
<1>11. DOMAIN proposals' = DOMAIN proposals /\ DOMAIN proposals \subseteq Nat
  BY <1>1 DEF TypeOK
<1>12. Proposed'
  BY <1>5, <1>10, <1>11 DEF Proposed, Pending
<1>13. RevisionsAreAgreed'
  <2>1. \A n \in 2..contract'.current :
          \E j \in DOMAIN proposals' :
            /\ proposals'[j].status = "accepted" /\ proposals'[j].base = n - 1
            /\ proposals'[j].start = revisions'[n]
    <3> SUFFICES ASSUME NEW n \in 2..contract'.current
                 PROVE  \E j \in DOMAIN proposals' :
                          /\ proposals'[j].status = "accepted" /\ proposals'[j].base = n - 1
                          /\ proposals'[j].start = revisions'[n]
      OBVIOUS
    <3>1. CASE n = contract'.current
      BY <3>1, <1>2, <1>3, <1>5, <1>7, <1>10, <1>11
    <3>2. CASE n \in 2..contract.current
      <4>1. PICK j \in DOMAIN proposals :
              /\ proposals[j].status = "accepted" /\ proposals[j].base = n - 1
              /\ proposals[j].start = revisions[n]
        BY <3>2 DEF RevisionsAreAgreed
      <4>2. proposals'[j] = proposals[j]
        BY <4>1, <1>2, <1>10 DEF Pending
      <4>3. revisions'[n] = revisions[n]
        <5>1. n \in 1..contract.current
          BY <3>2, <1>5
        <5> QED BY <5>1, <1>7
      <4> QED BY <4>1, <4>2, <4>3, <1>11
    <3> QED BY <3>1, <3>2, <1>5
  <2>2. \A j \in DOMAIN proposals' :
          proposals'[j].status = "accepted" =>
            /\ proposals'[j].base < contract'.current
            /\ \A i \in DOMAIN proposals' :
                 proposals'[i].status = "accepted" /\ proposals'[i].base = proposals'[j].base => i = j
    <3>1. \A j \in DOMAIN proposals :
            proposals[j].status = "accepted" => proposals[j].base < contract.current
      BY DEF RevisionsAreAgreed
    <3>2. \A j \in DOMAIN proposals : proposals'[j].status = "accepted" => j = k \/ proposals[j].status = "accepted"
      BY <1>10
    <3> QED BY <1>2, <1>5, <1>10, <1>11, <3>1, <3>2 DEF RevisionsAreAgreed
  <2>3. \A i, j \in DOMAIN proposals' :
          proposals'[i].status = "pending" /\ proposals'[j].status = "pending" => i = j
    BY <1>3, <1>10, <1>11 DEF RevisionsAreAgreed, Pending
  <2> QED BY <1>7, <2>1, <2>2, <2>3 DEF RevisionsAreAgreed, Pending
<1> QED BY <1>1, <1>6, <1>9, <1>12, <1>13, ProvenKept

\* A rental that ends is not signed unless its contract is, and closes nothing decided.
LEMMA EndStep ==
  ASSUME IInv, CancelRental \/ CancelOverdue \/ BanWrites \/ Complete
  PROVE  IInv'
<1> USE DEF IInv
<1>1. UNCHANGED <<now, revisions, signatures, codes, email, worker>>
  BY DEF CancelRental, CancelOverdue, CancelAll, BanWrites, Complete
<1>2. CASE CancelRental \/ CancelOverdue
  <2>1. CancelAll
    BY <1>2 DEF CancelRental, CancelOverdue
  <2>2. TypeOK'
    BY <2>1, ClosedRows DEF TypeOK, CancelAll
  <2>3. Books'
    BY <2>1 DEF CancelAll, Books, TypeOK, Accepted, AcceptedBy
  <2>4. Proposed' /\ RevisionsAreAgreed'
    BY <2>1, ProposalsEnded, ClosedRows DEF CancelAll, Closed, TypeOK
  <2> QED BY <1>1, <2>2, <2>3, <2>4, ProvenKept
<1>3. CASE BanWrites \/ Complete
  <2>1. TypeOK'
    <3>1. CASE BanWrites
      BY <3>1 DEF TypeOK, BanWrites
    <3>2. CASE Complete
      BY <3>2 DEF TypeOK, Complete
    <3> QED BY <3>1, <3>2, <1>3
  <2>2. Books'
    <3>1. contract'.current = contract.current /\ contract'.accepted = contract.accepted
          /\ rental'.start = rental.start
      BY <1>3 DEF BanWrites, Complete, TypeOK
    <3>2. /\ contract'.status = "signed" => contract.status = "signed"
          /\ rental'.status \in {"signed", "completed"} => contract'.status = "signed"
      <4>1. CASE BanWrites
        BY <4>1 DEF BanWrites, TypeOK
      <4>2. CASE Complete
        BY <4>2 DEF Complete, TypeOK
      <4> QED BY <4>1, <4>2, <1>3
    <3>3. Accepted(signatures)' = Accepted(signatures)
      BY <1>1, <3>1 DEF Accepted, AcceptedBy
    <3> QED BY <1>1, <3>1, <3>2, <3>3 DEF Books
  <2>3. contract'.current = contract.current /\ rental'.start = rental.start /\ UNCHANGED proposals
    BY <1>3 DEF BanWrites, Complete, TypeOK
  <2>4. Proposed' /\ RevisionsAreAgreed'
    BY <1>1, <2>3, ProposalsEnded
  <2> QED BY <1>1, <2>1, <2>2, <2>4, ProvenKept
<1> QED BY <1>2, <1>3

(***************************************************************************)
(* The theorems.                                                           *)
(***************************************************************************)
\* It holds of a contract just made.
LEMMA InvStart == Init => IInv
<1> SUFFICES ASSUME Init PROVE IInv
  OBVIOUS
<1>1. PICK start \in Dates :
        /\ rental = [status |-> "active", start |-> start]
        /\ contract = [status |-> "pending_signatures", current |-> 1, accepted |-> {},
                       deadline |-> start - SignMargin]
        /\ revisions = <<start>>
  BY DEF Init
<1>2. start - SignMargin \in Nat
  BY Times
<1>3. Idle \in Worker /\ Idle.pc = "idle"
  BY DEF Idle, Worker
<1>4. TypeOK
  <2>1. email \in [Roles -> Emails] /\ worker \in [Workers -> Worker]
    BY <1>3 DEF Init
  <2>2. /\ rental \in [status : PAID \cup {"completed", "cancelled"}, start : Dates]
        /\ contract \in [status : {"pending_signatures", "signed", "cancelled"}, current : Nat \ {0},
                        accepted : SUBSET Roles, deadline : Nat]
    BY <1>1, <1>2 DEF PAID
  <2>3. revisions \in Seq(Dates) /\ codes \in Seq(Code \cup {Undone}) /\ proposals \in Seq(Proposal)
    BY <1>1 DEF Init
  <2> QED BY <2>1, <2>2, <2>3 DEF Init, TypeOK
<1>5. Begun /\ Proven
  BY <1>3 DEF Init, Begun, Proven, Verified
<1>6. Books
  BY <1>1 DEF Init, Books, Accepted, AcceptedBy
<1>7. Proposed /\ RevisionsAreAgreed
  BY <1>1 DEF Init, Proposed, RevisionsAreAgreed
<1> QED BY <1>4, <1>5, <1>6, <1>7 DEF IInv

\* Every step keeps the invariant.
LEMMA InvStep == IInv /\ [Next]_vars => IInv'
<1> SUFFICES ASSUME IInv, [Next]_vars PROVE IInv'
  OBVIOUS
<1>1. CASE Next
  <2>1. CASE Tick \/ BanReads
    BY <2>1, OutsideStep
  <2>2. CASE ListProposals
    BY <2>2, ListProposalsStep
  <2>3. CASE CancelRental \/ CancelOverdue \/ BanWrites \/ Complete
    BY <2>3, EndStep
  <2>4. CASE \E c \in DOMAIN codes : OtpOutcome(c)
    BY <2>4, OtpOutcomeStep
  <2>5. ASSUME NEW role \in Roles,
               \/ RequestOtp(role)
               \/ \E address \in Emails : ChangeEmail(role, address)
               \/ \E start \in Dates : Propose(role, start)
               \/ \E w \in Workers : CheckSign(w, role)
        PROVE  IInv'
    BY <2>5, RequestOtpStep, OutsideStep, ProposeStep, CheckSignStep
  <2>6. ASSUME NEW role \in Roles, NEW k \in DOMAIN proposals,
               Withdraw(role, k) \/ Reject(role, k) \/ Accept(role, k)
        PROVE  IInv'
    BY <2>6, DeclineStep, AcceptStep
  <2>7. ASSUME NEW w \in Workers, ConsumeOtp(w) \/ RecordAcceptance(w) \/ Abandon(w)
        PROVE  IInv'
    BY <2>7, ConsumeOtpStep, RecordAcceptanceStep, AbandonStep
  <2> QED BY <1>1, <2>1, <2>2, <2>3, <2>4, <2>5, <2>6, <2>7 DEF Next
<1>2. CASE UNCHANGED vars
  <2>1. UNCHANGED <<now, rental, contract, revisions, signatures, codes, proposals, email, worker, marked>>
    BY <1>2 DEF vars
  <2>2. TypeOK'
    BY <2>1 DEF IInv, TypeOK
  <2> QED BY <2>1, <2>2, BooksKept, ProvenKept, ProposalsKept DEF IInv
<1> QED BY <1>1, <1>2

\* The invariant holds of every reachable state.
THEOREM Invariance == Spec => []IInv
BY InvStart, InvStep, PTL DEF Spec

\* Rows and requests keep their types; no code is tried more often than allowed.
THEOREM TypeCorrect == Spec => []TypeOK
<1>1. IInv => TypeOK
  BY DEF IInv
<1> QED BY <1>1, Invariance, PTL

\* Every signature rests on a code of its own, sent to the address it records.
THEOREM SignaturesAreProven == Spec => []EverySignatureIsProven
<1>1. IInv => EverySignatureIsProven
  BY DEF IInv, Proven, Backs, EverySignatureIsProven
<1> QED BY <1>1, Invariance, PTL

\* A signed contract bears every party's signature under the rental's own dates.
THEOREM SignedMeansByAll == Spec => []SignedByAll
<1>1. IInv => SignedByAll
  BY DEF IInv, Books, SignedByAll, Accepted
<1> QED BY <1>1, Invariance, PTL

\* Each revision after the first is one accepted proposal, made on the one before.
THEOREM EveryRevisionIsAgreed == Spec => []RevisionsAreAgreed
<1>1. IInv => RevisionsAreAgreed
  BY DEF IInv
<1> QED BY <1>1, Invariance, PTL

(***************************************************************************)
(* Evidence, and the agreement.                                            *)
(***************************************************************************)
\* A step takes no evidence away, and a cancelled contract stays as it was.
LEMMA EvidenceStep ==
  ASSUME IInv, [Next]_vars
  PROVE  /\ signatures \subseteq signatures'
         /\ \A n \in DOMAIN revisions : revisions'[n] = revisions[n]
         /\ \A k \in DOMAIN proposals : ~Pending(k) => proposals'[k] = proposals[k]
         /\ contract.status = "cancelled" => contract' = contract
<1>1. signatures \subseteq signatures'
  BY DEF Next, vars, Tick, ListProposals, CancelRental, CancelOverdue, CancelAll, BanReads, BanWrites,
         Complete, OtpOutcome, RequestOtp, ChangeEmail, Propose, Withdraw, Reject, Accept, CheckSign,
         ConsumeOtp, RecordAcceptance, Abandon
<1>2. revisions' = revisions \/ \E start : revisions' = Append(revisions, start)
  BY DEF Next, vars, Tick, ListProposals, CancelRental, CancelOverdue, CancelAll, BanReads, BanWrites,
         Complete, OtpOutcome, RequestOtp, ChangeEmail, Propose, Withdraw, Reject, Accept, CheckSign,
         ConsumeOtp, RecordAcceptance, Abandon
<1>3. \A n \in DOMAIN revisions : revisions'[n] = revisions[n]
  BY <1>2 DEF IInv, TypeOK
<1>4. \A k \in DOMAIN proposals : ~Pending(k) => proposals'[k] = proposals[k]
  <2>1. CASE UNCHANGED proposals
    BY <2>1
  <2>2. CASE ListProposals \/ CancelAll
    BY <2>2 DEF ListProposals, CancelAll, Lapsed, Lapse, Closed
  <2>3. ASSUME NEW role \in Roles, NEW start \in Dates, Propose(role, start)
        PROVE  \A k \in DOMAIN proposals : ~Pending(k) => proposals'[k] = proposals[k]
    <3>1. PICK new : proposals' = Append(Lapsed, new)
      BY <2>3 DEF Propose
    <3>2. \A k \in DOMAIN proposals : proposals'[k] = Lapsed[k]
      BY <3>1, ClosedRows DEF IInv, TypeOK
    <3> QED BY <3>2 DEF Lapsed, Lapse
  <2>4. ASSUME NEW role \in Roles, NEW j \in DOMAIN proposals,
               Withdraw(role, j) \/ Reject(role, j) \/ Accept(role, j)
        PROVE  \A k \in DOMAIN proposals : ~Pending(k) => proposals'[k] = proposals[k]
    BY <2>4 DEF Withdraw, Reject, Accept, Decidable, Pending
  <2> QED BY <2>1, <2>2, <2>3, <2>4
       DEF Next, vars, Tick, CancelRental, CancelOverdue, BanReads, BanWrites, Complete, OtpOutcome,
           RequestOtp, ChangeEmail, CheckSign, ConsumeOtp, RecordAcceptance, Abandon
<1>5. contract.status = "cancelled" => contract' = contract
  <2>1. CASE UNCHANGED contract
    BY <2>1
  <2>2. CASE CancelAll \/ BanWrites
    BY <2>2 DEF CancelAll, BanWrites, IInv, TypeOK
  <2>3. ASSUME NEW role \in Roles, NEW k \in DOMAIN proposals, Accept(role, k)
        PROVE  contract.status # "cancelled"
    BY <2>3 DEF Accept, Decidable, OpenToChange
  <2>4. ASSUME NEW w \in Workers, RecordAcceptance(w)
        PROVE  contract.status # "cancelled"
    BY <2>4 DEF RecordAcceptance, MaySign
  <2> QED BY <2>1, <2>2, <2>3, <2>4
       DEF Next, vars, Tick, ListProposals, CancelRental, CancelOverdue, BanReads, Complete, OtpOutcome,
           RequestOtp, ChangeEmail, Propose, Withdraw, Reject, CheckSign, ConsumeOtp, Abandon
<1> QED BY <1>1, <1>3, <1>4, <1>5

\* Signatures and revisions stay; what was decided or cancelled is not changed.
THEOREM EvidenceStays == Spec => EvidenceIsKept
<1>1. IInv /\ [Next]_vars =>
        [/\ signatures \subseteq signatures'
         /\ \A n \in DOMAIN revisions : revisions'[n] = revisions[n]
         /\ \A k \in DOMAIN proposals : ~Pending(k) => proposals'[k] = proposals[k]
         /\ contract.status = "cancelled" => contract' = contract]_vars
  BY EvidenceStep
<1> QED BY <1>1, Invariance, PTL DEF Spec, EvidenceIsKept

\* The parties who agreed are those the contract counts.
LEMMA AgreedAreCounted == IInv => AcceptedBy(contract.current, signatures) = contract.accepted
  BY DEF IInv, Books, Accepted

\* A contract is open while somebody has not agreed to what the rental says.
LEMMA OpenUntilAllAgree ==
  ASSUME IInv, NEW role \in Roles, MaySign(role)
  PROVE  State = "open"
  BY DEF IInv, Books, MaySign, State, PAID

\* Every step is one of the agreement, or none.
LEMMA AgreementStep ==
  ASSUME IInv, IInv', [Next]_vars
  PROVE  [Promise!Next]_Promise!vars
<1>1. CASE UNCHANGED <<rental, contract, signatures>>
  BY <1>1 DEF Promise!vars, State, AcceptedBy
<1>2. ASSUME NEW w \in Workers, RecordAcceptance(w)
      PROVE  Promise!Agree(worker[w].role)
  <2>1. worker[w].role \in Roles /\ worker[w].role \notin contract.accepted /\ State = "open"
    BY <1>2, OpenUntilAllAgree DEF RecordAcceptance, MaySign, IInv, Begun
  <2>2. contract'.accepted = contract.accepted \cup {worker[w].role}
    <3>1. contract'.current = contract.current
      BY <1>2 DEF RecordAcceptance, IInv, TypeOK
    <3>2. AcceptedBy(contract'.current, signatures') = AcceptedBy(contract.current, signatures) \cup {worker[w].role}
      <4> DEFINE new == [role |-> worker[w].role, revision |-> contract.current,
                         email |-> worker[w].email, code |-> worker[w].code]
      <4>1. signatures' = signatures \cup {new}
        BY <1>2 DEF RecordAcceptance
      <4>2. new.role = worker[w].role /\ new.revision = contract.current
        OBVIOUS
      <4> HIDE DEF new
      <4> QED BY <3>1, <4>1, <4>2 DEF AcceptedBy
    <3> QED BY <3>2, AgreedAreCounted DEF IInv, Books, Accepted
  <2>3. rental'.start = rental.start
    BY <1>2 DEF RecordAcceptance, IInv, TypeOK
  <2>4. State' = IF contract'.accepted = Roles THEN "sealed" ELSE "open"
    <3>1. /\ contract'.status = IF contract'.accepted = Roles THEN "signed" ELSE "pending_signatures"
          /\ rental'.status \in {"signed", "active"}
      BY <1>2 DEF RecordAcceptance, IInv, TypeOK
    <3> QED BY <3>1 DEF State
  <2>5. AcceptedBy(contract.current, signatures)' = contract'.accepted
    BY DEF IInv, Books, Accepted
  <2> QED BY <2>1, <2>2, <2>3, <2>4, <2>5, AgreedAreCounted DEF Promise!Agree
<1>3. ASSUME NEW role \in Roles, NEW k \in DOMAIN proposals, Accept(role, k)
      PROVE  Promise!Renegotiate(proposals[k].start) /\ proposals[k].start \in Dates
  <2>1. proposals[k].start # rental.start /\ proposals[k].start \in Dates
    BY <1>3, ProposalTypes DEF IInv, Proposed, Accept, Decidable, Proposal
  <2>2. State # "void"
    BY <1>3 DEF Accept, Decidable, OpenToChange, State, PAID
  <2>3. rental'.start = proposals[k].start /\ rental'.status = "active"
        /\ contract'.status = "pending_signatures" /\ contract'.accepted = {}
    BY <1>3 DEF Accept, Freeze, IInv, TypeOK
  <2>4. AcceptedBy(contract.current, signatures)' = {}
    BY <2>3 DEF IInv, Books, Accepted
  <2>5. State' = "open"
    BY <2>3 DEF State
  <2> QED BY <2>1, <2>2, <2>3, <2>4, <2>5 DEF Promise!Renegotiate
<1>4. CASE CancelAll \/ BanWrites
  <2>1. /\ rental'.start = rental.start /\ rental'.status = "cancelled"
        /\ contract'.current = contract.current /\ UNCHANGED signatures
    BY <1>4 DEF CancelAll, BanWrites, IInv, TypeOK
  <2>2. State' = "void" /\ UNCHANGED <<rental.start, AcceptedBy(contract.current, signatures)>>
    BY <2>1 DEF State, AcceptedBy
  <2> QED BY <2>2 DEF Promise!Next, Promise!Void, Promise!vars
<1>5. CASE Complete
  <2>1. rental'.start = rental.start /\ UNCHANGED <<contract, signatures>> /\ State' = State
    BY <1>5 DEF Complete, State, IInv, TypeOK
  <2> QED BY <2>1 DEF Promise!vars, AcceptedBy
<1>6. \/ UNCHANGED <<rental, contract, signatures>>
      \/ \E w \in Workers : RecordAcceptance(w)
      \/ \E role \in Roles : \E k \in DOMAIN proposals : Accept(role, k)
      \/ CancelAll \/ BanWrites \/ Complete
  BY DEF Next, vars, Tick, ListProposals, CancelRental, CancelOverdue, BanReads, OtpOutcome,
         RequestOtp, ChangeEmail, Propose, Withdraw, Reject, CheckSign, ConsumeOtp, Abandon
<1>7. ASSUME NEW w \in Workers, RecordAcceptance(w)
      PROVE  Promise!Next
  BY <1>2, <1>7 DEF Promise!Next, RecordAcceptance, IInv, Begun
<1>8. ASSUME NEW role \in Roles, NEW k \in DOMAIN proposals, Accept(role, k)
      PROVE  Promise!Next
  BY <1>3, <1>8 DEF Promise!Next
<1> QED BY <1>1, <1>4, <1>5, <1>6, <1>7, <1>8

\* The contract, with its codes, revisions and proposals, keeps the agreement:
\* parties agree to what the rental says, and from the start when it changes.
THEOREM ImplementsTheAgreement == Spec => ImplementsAgreement
<1>1. Init => Promise!Init
  <2> SUFFICES ASSUME Init PROVE Promise!Init
    OBVIOUS
  <2>1. AcceptedBy(contract.current, signatures) = {}
    BY DEF Init, AcceptedBy
  <2>2. rental.start \in Dates /\ State = "open"
    BY DEF Init, State
  <2> QED BY <2>1, <2>2 DEF Promise!Init
<1>2. IInv /\ IInv' /\ [Next]_vars => [Promise!Next]_Promise!vars
  BY AgreementStep
<1> QED BY <1>1, <1>2, Invariance, PTL DEF Spec, ImplementsAgreement, Promise!Spec

=============================================================================
