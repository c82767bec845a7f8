------------------------------- MODULE Signing -------------------------------
(***************************************************************************)
(* The signature dialog that both dashboards open over their contracts,    *)
(* and the panel that changes the dates of a rental, against a contract    *)
(* whose revisions move under them.                                        *)
(*                                                                         *)
(* One dialog serves every contract of the list: its fields outlive the    *)
(* contract they were filled in for.  A contract is a number, 0 being      *)
(* none; a revision is a number, 0 being no document loaded.               *)
(*                                                                         *)
(* ui is the dialog and the panel, db the contracts as the server keeps    *)
(* them, net the requests in flight.                                       *)
(***************************************************************************)
EXTENDS Integers, FiniteSets

CONSTANTS
  Contracts,      \* the contracts of the user, numbers from 1
  Moving,         \* bound: those whose terms or rental change meanwhile
  Owner,          \* whether the dialog is that of the owner's dashboard
  MaxRevision,    \* bound: revisions of a contract
  MaxOpens        \* bound: times the document is loaded

VARIABLES ui, db, net
vars == <<ui, db, net>>

NoTick == [contract |-> 0, revision |-> 0]

Init ==
  /\ ui = [open |-> 0, loads |-> 0, doc |-> 0, mine |-> FALSE, loading |-> FALSE, error |-> FALSE,
           ticked |-> NoTick, code |-> NoTick, sent |-> FALSE, asking |-> FALSE, signing |-> FALSE,
           receipt |-> 0, panel |-> 0, base |-> 0, busy |-> FALSE]
  /\ db = [c \in Contracts |->
             [revision |-> 1, signed |-> FALSE, code |-> 0, used |-> FALSE, proposal |-> "none", cancelled |-> FALSE,
              log |-> {}]]
  /\ net = {}

\* ---------------------------------------------------------------- the dialog
\* (mutant) the box stays ticked when the document is loaded again
KeepsTick(u) == [u EXCEPT !.doc = 0, !.error = FALSE, !.code = NoTick, !.sent = FALSE, !.receipt = 0,
                          !.signing = FALSE, !.loading = TRUE]

\* Each load starts from nothing: no document, no tick, no code.
FromNothing(u) ==
  [u EXCEPT !.doc = 0, !.error = FALSE, !.ticked = NoTick, !.code = NoTick, !.sent = FALSE,
            !.receipt = 0, !.signing = FALSE, !.loading = TRUE]

\* The effect over (open, contract, recarga); the answer it waited for is dropped.
Load(u, c, ms) ==
  /\ u.loads < MaxOpens
  /\ ui' = [FromNothing(u) EXCEPT !.open = c, !.loads = @ + 1]
  /\ net' = {m \in ms : m.kind \notin {"load", "loaded"}} \cup {[kind |-> "load", contract |-> c]}

\* The owner and the tenant are offered it while the contract awaits them.
Offered(c) == ~db[c].signed /\ ~db[c].cancelled

Open(c) ==
  /\ ui.open = 0 /\ ui.panel = 0 /\ Offered(c)
  /\ Load(ui, c, net)
  /\ UNCHANGED db

Close ==
  /\ ui.open # 0
  /\ ui' = [ui EXCEPT !.open = 0]
  /\ net' = {m \in net : m.kind \notin {"load", "loaded"}}
  /\ UNCHANGED db

LoadedArrives(m) ==
  /\ m.kind = "loaded" /\ net' = net \ {m}
  /\ ui' = [ui EXCEPT !.doc = m.revision, !.mine = m.mine, !.loading = FALSE]
  /\ UNCHANGED db

LoadFails(m) ==
  /\ m.kind \in {"load", "loaded"} /\ net' = net \ {m}
  /\ ui' = [ui EXCEPT !.error = TRUE, !.loading = FALSE]
  /\ UNCHANGED db

\* The signing flow is on screen, under the document it signs.
FormShown == ui.open # 0 /\ ~ui.loading /\ ~ui.error /\ ui.receipt = 0 /\ ui.doc # 0 /\ ~ui.mine

Tick ==
  /\ FormShown
  /\ ui' = [ui EXCEPT !.ticked = IF @ = NoTick THEN [contract |-> ui.open, revision |-> ui.doc] ELSE NoTick]
  /\ UNCHANGED <<db, net>>

\* The field for the code appears once one was sent; any mail may be copied.
TypeCode(c, r) ==
  /\ FormShown /\ ui.sent /\ db[c].code >= r
  /\ ui' = [ui EXCEPT !.code = [contract |-> c, revision |-> r]]
  /\ UNCHANGED <<db, net>>

AskCode ==
  /\ FormShown /\ ~ui.asking
  /\ ui' = [ui EXCEPT !.asking = TRUE]
  /\ net' = net \cup {[kind |-> "otp", contract |-> ui.open, revision |-> ui.doc]}
  /\ UNCHANGED db

\* No contract is sent unless the terms are accepted and the code is typed.
Sign ==
  /\ FormShown /\ ~ui.signing /\ ui.ticked # NoTick /\ ui.code # NoTick
  /\ ui' = [ui EXCEPT !.signing = TRUE]
  /\ net' = net \cup {[kind |-> "sign", contract |-> ui.open, revision |-> ui.doc,
                       code |-> ui.code, read |-> ui.ticked]}
  /\ UNCHANGED db

CodeSent(m) ==
  /\ m.kind = "sent" /\ net' = net \ {m}
  /\ ui' = [ui EXCEPT !.sent = TRUE, !.asking = FALSE]
  /\ UNCHANGED db

\* The owner's dashboard closes the dialog, the tenant's leaves the receipt.
SignedArrives(m) ==
  /\ m.kind = "signed"
  /\ ui' = [ui EXCEPT !.receipt = m.contract, !.signing = FALSE, !.open = IF Owner THEN 0 ELSE @]
  /\ net' = IF Owner THEN {n \in net \ {m} : n.kind \notin {"load", "loaded"}} ELSE net \ {m}
  /\ UNCHANGED db

Idle(u, kind) == IF kind = "otp" THEN [u EXCEPT !.asking = FALSE] ELSE [u EXCEPT !.signing = FALSE]

\* stale_revision: the document of the contract now open is loaded again.
StaleArrives(m) ==
  /\ m.kind = "stale"
  /\ IF ui.open = 0
     THEN ui' = Idle(ui, m.of) /\ net' = net \ {m}
     ELSE Load(Idle(ui, m.of), ui.open, net \ {m})
  /\ UNCHANGED db

\* Refused for another reason, or lost before or after it was served.
RequestFails(m) ==
  /\ m.kind \in {"otp", "sign", "sent", "signed"} /\ net' = net \ {m}
  /\ ui' = Idle(ui, IF m.kind \in {"otp", "sent"} THEN "otp" ELSE "sign")
  /\ UNCHANGED db

\* ---------------------------------------------------------------- the panel
\* Opens over a document of its own and over the list of proposals.
OpenPanel(c) ==
  /\ c \in Moving /\ ui.open = 0 /\ ui.panel = 0 /\ ~db[c].cancelled
  /\ ui' = [ui EXCEPT !.panel = c, !.base = db[c].revision]
  /\ UNCHANGED <<db, net>>

ClosePanel ==
  /\ ui.panel # 0
  /\ ui' = [ui EXCEPT !.panel = 0, !.base = 0]
  /\ UNCHANGED <<db, net>>

PanelIdle == ui.panel # 0 /\ ~ui.busy

Propose ==
  /\ PanelIdle /\ db[ui.panel].proposal = "none"
  /\ ui' = [ui EXCEPT !.busy = TRUE]
  /\ net' = net \cup {[kind |-> "propose", contract |-> ui.panel, revision |-> ui.base]}
  /\ UNCHANGED db

\* Whoever proposed withdraws; the other party accepts or refuses.
Decide(answer) ==
  /\ PanelIdle
  /\ db[ui.panel].proposal = (IF answer = "withdraw" THEN "mine" ELSE "theirs")
  /\ ui' = [ui EXCEPT !.busy = TRUE]
  /\ net' = net \cup {[kind |-> "decide", contract |-> ui.panel, answer |-> answer]}
  /\ UNCHANGED db

\* A success makes the contract queries stale: the document is read again.
PanelAnswered(m) ==
  /\ m.kind \in {"propose", "decide", "settled"} /\ net' = net \ {m}
  /\ ui' = [ui EXCEPT !.busy = FALSE,
                      !.base = IF m.kind = "settled" /\ ui.panel # 0 THEN db[ui.panel].revision ELSE @]
  /\ UNCHANGED db

\* ---------------------------------------------------------------- the server
ServeLoad(m) ==
  /\ m.kind = "load"
  /\ net' = (net \ {m}) \cup {[kind |-> "loaded", revision |-> db[m.contract].revision, mine |-> db[m.contract].signed]}
  /\ UNCHANGED <<ui, db>>

Answered(m, answer) == net' = (net \ {m}) \cup {answer}
Stale(m) == [kind |-> "stale", of |-> m.kind]

\* request_otp: only the newest code counts, and only for its revision.
ServeOtp(m) ==
  /\ m.kind = "otp" /\ Offered(m.contract)
  /\ IF m.revision # db[m.contract].revision
     THEN Answered(m, Stale(m)) /\ UNCHANGED db
     ELSE /\ Answered(m, [kind |-> "sent"])
          /\ db' = [db EXCEPT ![m.contract].code = m.revision, ![m.contract].used = FALSE]
  /\ UNCHANGED ui

Accepts(m) ==
  /\ ~db[m.contract].used
  /\ m.code = [contract |-> m.contract, revision |-> m.revision]
  /\ db[m.contract].code = m.revision

ServeSign(m) ==
  /\ m.kind = "sign" /\ Offered(m.contract)
  /\ IF m.revision # db[m.contract].revision
     THEN Answered(m, Stale(m)) /\ UNCHANGED db
     ELSE /\ Accepts(m)
          /\ Answered(m, [kind |-> "signed", contract |-> m.contract])
          /\ db' = [db EXCEPT ![m.contract].used = TRUE, ![m.contract].signed = TRUE,
                              ![m.contract].log = @ \cup {[revision |-> m.revision, read |-> m.read]}]
  /\ UNCHANGED ui

Settled(m) == Answered(m, [kind |-> "settled"])

ServePropose(m) ==
  /\ m.kind = "propose" /\ ~db[m.contract].cancelled
  /\ m.revision = db[m.contract].revision /\ db[m.contract].proposal = "none"
  /\ Settled(m)
  /\ db' = [db EXCEPT ![m.contract].proposal = "mine"]
  /\ UNCHANGED ui

\* An accepted proposal freezes a revision that nobody signed yet.
Refrozen(row) == [row EXCEPT !.revision = @ + 1, !.signed = FALSE, !.proposal = "none"]

ServeDecide(m) ==
  /\ m.kind = "decide" /\ ~db[m.contract].cancelled
  /\ db[m.contract].proposal = (IF m.answer = "withdraw" THEN "mine" ELSE "theirs")
  /\ m.answer = "accept" => db[m.contract].revision < MaxRevision
  /\ Settled(m)
  /\ db' = [db EXCEPT ![m.contract] = IF m.answer = "accept" THEN Refrozen(@) ELSE [@ EXCEPT !.proposal = "none"]]
  /\ UNCHANGED ui

\* The other party proposes, withdraws, answers, or cancels the rental.
OtherProposes(c) ==
  /\ c \in Moving /\ db[c].proposal = "none" /\ ~db[c].cancelled
  /\ db' = [db EXCEPT ![c].proposal = "theirs"]
  /\ UNCHANGED <<ui, net>>

OtherAccepts(c) ==
  /\ db[c].proposal = "mine" /\ ~db[c].cancelled /\ db[c].revision < MaxRevision
  /\ db' = [db EXCEPT ![c] = Refrozen(@)]
  /\ UNCHANGED <<ui, net>>

OtherDrops(c) ==
  /\ db[c].proposal # "none"
  /\ db' = [db EXCEPT ![c].proposal = "none"]
  /\ UNCHANGED <<ui, net>>

RentalEnds(c) ==
  /\ c \in Moving /\ ~db[c].cancelled
  /\ db' = [db EXCEPT ![c].cancelled = TRUE, ![c].proposal = "none"]
  /\ UNCHANGED <<ui, net>>

Next ==
  \/ \E m \in net :
       \/ LoadedArrives(m) \/ LoadFails(m) \/ CodeSent(m) \/ SignedArrives(m) \/ StaleArrives(m)
       \/ RequestFails(m) \/ PanelAnswered(m) \/ ServeLoad(m) \/ ServeOtp(m) \/ ServeSign(m)
       \/ ServePropose(m) \/ ServeDecide(m)
  \/ \E c \in Contracts :
       \/ Open(c) \/ OpenPanel(c) \/ OtherProposes(c) \/ OtherAccepts(c) \/ OtherDrops(c) \/ RentalEnds(c)
       \/ \E r \in 1..MaxRevision : TypeCode(c, r)
  \/ Close \/ Tick \/ AskCode \/ Sign \/ ClosePanel \/ Propose
  \/ \E answer \in {"accept", "reject", "withdraw"} : Decide(answer)

Spec == Init /\ [][Next]_vars
-----------------------------------------------------------------------------
TypeOK ==
  /\ {ui.open, ui.panel, ui.receipt} \subseteq Contracts \cup {0}
  /\ ui.doc \in 0..MaxRevision /\ ui.base \in 0..MaxRevision /\ ui.loads \in 0..MaxOpens
  /\ \A c \in Contracts : db[c].revision \in 1..MaxRevision /\ db[c].code \in 0..db[c].revision

\* "Nada e assinado sem rever o texto novo": whatever was proposed, answered or
\* opened meanwhile, the revision a party is recorded to have accepted is the
\* one that was on screen, for that contract, when the party ticked the box.
AcceptedWasRead ==
  \A c \in Contracts : \A s \in db[c].log : s.read = [contract |-> c, revision |-> s.revision]
=============================================================================
