--------------------------- MODULE ModerationDesk ---------------------------
(***************************************************************************)
(* The moderator's pages for listings and for users.  A button of a row    *)
(* opens a dialog that names its target and, for a rejection, asks why;    *)
(* the buttons come from a list that may be out of date.  An answer closes *)
(* the dialog once the list was read again, whichever dialog is open.      *)
(*                                                                         *)
(* Listings and users are numbers, 0 being none.  A reason is the number   *)
(* of the listing it was written of.                                       *)
(*                                                                         *)
(* ui is the page, db the listings and users, net the requests in flight.  *)
(***************************************************************************)
EXTENDS Integers

CONSTANTS
  Postings,     \* the listings
  Users,        \* the users, other numbers
  Owner,        \* the user each listing belongs to
  MaxActions    \* bound: actions confirmed

VARIABLES ui, db, net
vars == <<ui, db, net>>

Targets(page) == IF page = "postings" THEN Postings ELSE Users
Actions(page) == IF page = "postings" THEN {"approve", "reject"} ELSE {"warn", "suspend", "ban"}
After == [approve |-> "active", reject |-> "rejected", warn |-> "warned", suspend |-> "suspended", ban |-> "banned"]

\* ---------------------------------------------------------------- the dialog
\* (mutant) the reason typed last is offered for the next target
Kept(u, t, a) == [u EXCEPT !.target = t, !.action = a]

\* openConfirm and closeConfirm
Confirm(u, t, a) == [u EXCEPT !.target = t, !.action = a, !.reason = 0]
Closed(u) == Confirm(u, 0, "none")

Init ==
  /\ ui = [page |-> "postings", list |-> [page \in {"postings", "users"} |-> [t \in {} |-> "none"]],
           target |-> 0, action |-> "none", reason |-> 0, submitting |-> FALSE, sent |-> 0]
  /\ db = [status |-> [t \in Postings \cup Users |-> "active"], reason |-> [t \in Postings |-> 0]]
  /\ net = {[kind |-> "list", page |-> "postings", mine |-> FALSE]}

\* ---------------------------------------------------------------- the lists
IsList(m, page) == m.kind \in {"list", "listed"} /\ m.page = page

\* A list read again takes the place of the reading in flight, and its duty.
Reread(ms, page, mine) ==
  LET old == {m \in ms : IsList(m, page)}
  IN  (ms \ old) \cup {[kind |-> "list", page |-> page, mine |-> mine \/ \E m \in old : m.mine]}

Refresh ==
  /\ net' = Reread(net, ui.page, FALSE)
  /\ UNCHANGED <<ui, db>>

\* The page left hears no answer; the one entered shows the list it last read,
\* and reads it again unless it is fresh or being read.
Visit(page) ==
  /\ page # ui.page
  /\ ui' = [Closed(ui) EXCEPT !.page = page, !.submitting = FALSE]
  /\ LET left == {[m EXCEPT !.mine = FALSE] : m \in net}
     IN  net' \in {left, IF \E m \in net : IsList(m, page) THEN left ELSE Reread(left, page, FALSE)}
  /\ UNCHANGED db

\* The buttons a row offers, by the status the list shows.
Offered(t, a) ==
  /\ t \in DOMAIN ui.list[ui.page]
  /\ LET status == ui.list[ui.page][t]
     IN  /\ a = "approve" => status # "active"
         /\ a = "reject" => status # "rejected"
         /\ a = "warn" => status # "suspended"
         /\ status # "banned"

OpenConfirm(t, a) ==
  /\ ui.target = 0 /\ Offered(t, a)
  /\ ui' = Confirm(ui, t, a)
  /\ UNCHANGED <<db, net>>

\* "Cancelar" waits for the answer; Esc and a click outside do not.
CloseConfirm ==
  /\ ui.target # 0
  /\ ui' = Closed(ui)
  /\ UNCHANGED <<db, net>>

Write ==
  /\ ui.target # 0 /\ ui.action = "reject"
  /\ \E r \in {0, ui.target} : ui' = [ui EXCEPT !.reason = r]
  /\ UNCHANGED <<db, net>>

RunAction ==
  /\ ui.target # 0 /\ ~ui.submitting /\ ui.sent < MaxActions
  /\ ui.action = "reject" => ui.reason # 0
  /\ ui' = [ui EXCEPT !.submitting = TRUE, !.sent = @ + 1]
  /\ net' = net \cup {[kind |-> "moderate", page |-> ui.page, mine |-> TRUE,
                       target |-> ui.target, action |-> ui.action, reason |-> ui.reason]}
  /\ UNCHANGED db

\* Done: the list is read again before the page is told.
ModeratedArrives(m) ==
  /\ m.kind = "moderated"
  /\ net' = IF m.page = ui.page THEN Reread(net \ {m}, m.page, m.mine) ELSE net \ {m}
  /\ UNCHANGED <<ui, db>>

Settled(u, m) == IF m.mine THEN [Closed(u) EXCEPT !.submitting = FALSE] ELSE u

ListArrives(m) ==
  /\ m.kind = "listed" /\ net' = net \ {m}
  /\ ui' = Settled([ui EXCEPT !.list[m.page] = m.rows], m)
  /\ UNCHANGED db

\* A list that cannot be read again is no failure of the action.
ListFails(m) ==
  /\ m.kind \in {"list", "listed"} /\ net' = net \ {m}
  /\ ui' = Settled(ui, m)
  /\ UNCHANGED db

\* Refused, or lost before or after it was served: the dialog stays.
RequestFails(m) ==
  /\ m.kind \in {"moderate", "moderated"} /\ net' = net \ {m}
  /\ ui' = [ui EXCEPT !.submitting = @ /\ ~m.mine]
  /\ UNCHANGED db

\* ---------------------------------------------------------------- the server
ServeList(m) ==
  /\ m.kind = "list"
  /\ net' = (net \ {m}) \cup {[kind |-> "listed", page |-> m.page, mine |-> m.mine,
                               rows |-> [t \in Targets(m.page) |-> db.status[t]]]}
  /\ UNCHANGED <<ui, db>>

\* _lock_user: a disabled account is not warned, a banned one not suspended.
Accepts(t, a) ==
  /\ a = "warn" => db.status[t] \notin {"suspended", "banned"}
  /\ a = "suspend" => db.status[t] # "banned"

\* What suspending and banning a user does to the user's listings.
Reaches(p, t, a) ==
  /\ p \in Postings /\ Owner[p] = t
  /\ \/ a = "suspend" /\ db.status[p] = "active"
     \/ a = "ban"
Fate == [suspend |-> "suspended", ban |-> "inactive"]

ServeAction(m) ==
  /\ m.kind = "moderate" /\ Accepts(m.target, m.action)
  /\ db' = [status |-> [t \in DOMAIN db.status |->
                          IF t = m.target THEN After[m.action]
                          ELSE IF Reaches(t, m.target, m.action) THEN Fate[m.action] ELSE db.status[t]],
            reason |-> IF m.action = "reject" THEN [db.reason EXCEPT ![m.target] = m.reason] ELSE db.reason]
  /\ net' = (net \ {m}) \cup {[m EXCEPT !.kind = "moderated"]}
  /\ UNCHANGED ui

Next ==
  \/ Refresh \/ CloseConfirm \/ Write \/ RunAction
  \/ \E page \in {"postings", "users"} : Visit(page)
  \/ \E t \in Targets(ui.page), a \in Actions(ui.page) : OpenConfirm(t, a)
  \/ \E m \in net :
       \/ ModeratedArrives(m) \/ ListArrives(m) \/ ListFails(m) \/ RequestFails(m)
       \/ ServeList(m) \/ ServeAction(m)

Spec == Init /\ [][Next]_vars
-----------------------------------------------------------------------------
TypeOK ==
  /\ ui.target \in Targets(ui.page) \cup {0} /\ ui.reason \in Postings \cup {0}
  /\ ui.action \in Actions(ui.page) \cup {"none"} /\ \A p \in DOMAIN ui.list : DOMAIN ui.list[p] \in {{}, Targets(p)}
  /\ \A m \in net : m.kind \in {"list", "listed", "moderate", "moderated"}

\* "O anúncio é desativado e o motivo informado fica registrado": the reason
\* recorded with a rejection was written of the listing it rejects.
ReasonIsOfItsPosting == \A t \in Postings : db.reason[t] \in {0, t}
=============================================================================
