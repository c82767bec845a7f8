----------------------------- MODULE RentalDesk -----------------------------
(***************************************************************************)
(* The rentals of a dashboard: the cards of an owner (who also reads the   *)
(* hour meter and closes the rental) or of a tenant, the review each may   *)
(* write of the other, and the cancellation both may ask for.              *)
(*                                                                         *)
(* The review form and the open panel are kept by the page, for all the    *)
(* cards; the meter form and the cancellation by each card, and lost with  *)
(* it when a search, another page or another tab takes it off the screen.  *)
(* The buttons come from a list that may be out of date: they offer what   *)
(* was allowed when it was read.                                           *)
(*                                                                         *)
(* ui is the page, db the rentals as the server keeps them, net the        *)
(* requests in flight.                                                     *)
(***************************************************************************)
EXTENDS Integers, FiniteSets

CONSTANTS
  Rentals,        \* numbers from 1
  Running,        \* those signed but not ended at first; the others are completed
  Cancelable,     \* bound: those whose cancellation is asked for here
  Owner,          \* whether this is the owner's dashboard
  MaxHours        \* bound: the readings of the hour meter

VARIABLES ui, db, net
vars == <<ui, db, net>>

None == -1
Hours == 0..MaxHours
Card == [form |-> "none", confirm |-> FALSE, quote |-> FALSE, loading |-> FALSE]

Init ==
  /\ ui = [shown |-> Rentals, open |-> 0, text |-> 0, sending |-> FALSE, given |-> {},
           card |-> [r \in Rentals |-> Card], busy |-> FALSE, cancelling |-> FALSE]
  /\ db = [r \in Rentals |->
             [status |-> IF r \in Running THEN "signed" ELSE "completed",
              stage |-> IF r \in Running THEN "before" ELSE "ended",
              in |-> None, out |-> None, review |-> 0]]
  /\ net = {}

Ask(kind, r, value) == [kind |-> kind, rental |-> r, value |-> value, alive |-> TRUE]
Send(m) == net' = net \cup {m}

\* Search, year, page and tab decide which cards are on screen; a card that
\* left it hears no answer.
Show(cards) ==
  /\ cards # ui.shown
  /\ ui' = [ui EXCEPT !.shown = cards, !.card = [r \in Rentals |-> IF r \in cards THEN @[r] ELSE Card]]
  /\ net' = {[m EXCEPT !.alive = @ /\ m.rental \in cards] :
               m \in {n \in net : n.kind \in {"quote", "quoted"} => n.rental \in cards}}
  /\ UNCHANGED db

\* What the list read before may offer now (bound: it is not so old that a
\* rental could be cancelled then and has ended since).
Offered(r, action) ==
  /\ r \in ui.shown
  /\ action = "review"    => db[r].status = "completed" /\ r \notin ui.given
  /\ action = "cancel"    => r \in Cancelable \cap Running /\ db[r].stage # "ended"
  /\ action = "check_in"  => Owner /\ r \in Running /\ db[r].stage # "before"
  /\ action = "check_out" => Owner /\ db[r].in # None
  /\ action = "complete"  => Owner /\ r \in Running /\ db[r].stage = "ended"

\* ---------------------------------------------------------------- the review
\* (mutant) what was written for one rental stays for the next
Carried(r) == [ui EXCEPT !.open = IF @ = r THEN 0 ELSE r]

\* onToggle: one form serves all cards, and starts empty under each.
Toggled(r) == [ui EXCEPT !.open = IF @ = r THEN 0 ELSE r, !.text = 0]

ToggleReview(r) == Offered(r, "review") /\ ui' = Toggled(r) /\ UNCHANGED <<db, net>>

\* text is the rental under which the comment was written.
Comment(r) ==
  /\ ui.open = r /\ Offered(r, "review")
  /\ ui' = [ui EXCEPT !.text = r]
  /\ UNCHANGED <<db, net>>

SubmitReview(r) ==
  /\ ui.open = r /\ Offered(r, "review") /\ ui.text # 0 /\ ~ui.sending
  /\ ui' = [ui EXCEPT !.sending = TRUE]
  /\ Send(Ask("review", r, ui.text))
  /\ UNCHANGED db

\* Closes whatever panel is open by then, and empties it.
ReviewArrives(m) ==
  /\ m.kind = "reviewed" /\ net' = net \ {m}
  /\ ui' = [ui EXCEPT !.open = 0, !.text = 0, !.sending = FALSE]
  /\ UNCHANGED db

GivenArrives ==
  /\ ui' = [ui EXCEPT !.given = {r \in Rentals : db[r].review # 0}]
  /\ UNCHANGED <<db, net>>

\* ---------------------------------------------------------------- the meter
OpenForm(r, form) ==
  /\ Offered(r, form)
  /\ ui' = [ui EXCEPT !.card[r].form = form]
  /\ UNCHANGED <<db, net>>

CloseForm(r) ==
  /\ r \in ui.shown /\ ui.card[r].form # "none" /\ ~ui.busy
  /\ ui' = [ui EXCEPT !.card[r].form = "none"]
  /\ UNCHANGED <<db, net>>

\* parseReading: a reading is required, but at the conclusion, where it is asked
\* for only after one at the delivery.
SubmitForm(r, value) ==
  /\ r \in ui.shown /\ ui.card[r].form # "none" /\ ~ui.busy
  /\ IF ui.card[r].form = "complete" THEN value # None => db[r].in # None ELSE value # None
  /\ ui' = [ui EXCEPT !.busy = TRUE]
  /\ Send(Ask(ui.card[r].form, r, value))
  /\ UNCHANGED db

\* Closes whatever form its card shows by then.
FormArrives(m) ==
  /\ m.kind = "saved" /\ net' = net \ {m}
  /\ ui' = [ui EXCEPT !.busy = FALSE, !.card[m.rental].form = IF m.alive THEN "none" ELSE @]
  /\ UNCHANGED db

\* ---------------------------------------------------------------- cancelling
AskCancel(r) ==
  /\ Offered(r, "cancel") /\ ~ui.cancelling
  /\ ui' = [ui EXCEPT !.card[r].confirm = TRUE, !.card[r].quote = FALSE, !.card[r].loading = TRUE]
  /\ Send(Ask("quote", r, None))
  /\ UNCHANGED db

QuoteArrives(m) ==
  /\ m.kind = "quoted" /\ net' = net \ {m}
  /\ ui' = [ui EXCEPT !.card[m.rental].quote = (m.value = 1), !.card[m.rental].loading = FALSE]
  /\ UNCHANGED db

KeepRental(r) ==
  /\ r \in ui.shown /\ ui.card[r].confirm /\ ~ui.cancelling
  /\ ui' = [ui EXCEPT !.card[r].confirm = FALSE]
  /\ UNCHANGED <<db, net>>

Cancel(r) ==
  /\ Offered(r, "cancel") /\ ui.card[r].confirm /\ ui.card[r].quote /\ ~ui.card[r].loading /\ ~ui.cancelling
  /\ ui' = [ui EXCEPT !.cancelling = TRUE]
  /\ Send(Ask("cancel", r, None))
  /\ UNCHANGED db

CancelArrives(m) ==
  /\ m.kind = "cancelled" /\ net' = net \ {m}
  /\ ui' = [ui EXCEPT !.cancelling = FALSE]
  /\ UNCHANGED db

\* Refused, or lost before or after it was served: every form stays as it is.
RequestFails(m) ==
  /\ net' = net \ {m}
  /\ ui' = CASE m.kind \in {"review", "reviewed"}  -> [ui EXCEPT !.sending = FALSE]
             [] m.kind \in {"cancel", "cancelled"} -> [ui EXCEPT !.cancelling = FALSE]
             [] m.kind \in {"quote", "quoted"}     -> [ui EXCEPT !.card[m.rental].loading = FALSE]
             [] OTHER                              -> [ui EXCEPT !.busy = FALSE]
  /\ UNCHANGED db

\* ---------------------------------------------------------------- the server
Served(m, answer) == net' = (net \ {m}) \cup {[m EXCEPT !.kind = answer]} /\ UNCHANGED ui

\* One review of a completed rental by each party.
ServeReview(m) ==
  /\ m.kind = "review" /\ db[m.rental].status = "completed" /\ db[m.rental].review = 0
  /\ db' = [db EXCEPT ![m.rental].review = m.value]
  /\ Served(m, "reviewed")

\* (mutant) only the reading at the return is compared
ReadableLast(row, kind, value) == kind = "check_out" => row.in # None /\ value >= row.in

\* MeterService.record: against the latest of each kind, under the rental's lock.
Readable(row, kind, value) ==
  IF kind = "check_out" THEN row.in # None /\ value >= row.in ELSE row.out # None => value <= row.out

Records(r, kind, value) ==
  /\ db[r].status = "signed" /\ db[r].stage # "before" /\ Readable(db[r], kind, value)
  /\ db' = IF kind = "check_in" THEN [db EXCEPT ![r].in = value] ELSE [db EXCEPT ![r].out = value]

ServeReading(m) ==
  /\ m.kind \in {"check_in", "check_out"}
  /\ Records(m.rental, m.kind, m.value)
  /\ Served(m, "saved")

\* The return is read and the rental closed in one transaction, once.
Completes(r, value) ==
  \/ db[r].status = "completed" /\ UNCHANGED db
  \/ /\ db[r].status = "signed" /\ db[r].stage = "ended"
     /\ value # None => Readable(db[r], "check_out", value)
     /\ db' = [db EXCEPT ![r].status = "completed", ![r].out = IF value = None THEN @ ELSE value]

ServeComplete(m) == m.kind = "complete" /\ Completes(m.rental, m.value) /\ Served(m, "saved")

\* cancellation_quote: until the rental starts.
Allowed(row) == row.status = "signed" /\ row.stage = "before"

ServeQuote(m) ==
  /\ m.kind = "quote"
  /\ net' = (net \ {m}) \cup {[m EXCEPT !.kind = "quoted", !.value = IF Allowed(db[m.rental]) THEN 1 ELSE 0]}
  /\ UNCHANGED <<ui, db>>

Cancels(r) ==
  /\ Allowed(db[r]) \/ db[r].status = "cancelled"
  /\ db' = [db EXCEPT ![r].status = "cancelled"]

ServeCancel(m) == m.kind = "cancel" /\ Cancels(m.rental) /\ Served(m, "cancelled")

\* Time passes; the owner works in another window; the other party cancels.
TimePasses(r) ==
  /\ db[r].stage # "ended"
  /\ db' = [db EXCEPT ![r].stage = IF @ = "before" THEN "running" ELSE "ended"]
  /\ UNCHANGED <<ui, net>>

Elsewhere(r) ==
  /\ \/ \E kind \in {"check_in", "check_out"}, value \in Hours : Records(r, kind, value)
     \/ \E value \in Hours \cup {None} : Completes(r, value)
     \/ Cancels(r)
  /\ db' # db
  /\ UNCHANGED <<ui, net>>

Next ==
  \/ \E cards \in SUBSET Rentals : Show(cards)
  \/ \E r \in Rentals :
       \/ ToggleReview(r) \/ Comment(r) \/ SubmitReview(r)
       \/ CloseForm(r) \/ AskCancel(r) \/ KeepRental(r) \/ Cancel(r)
       \/ \E form \in {"check_in", "check_out", "complete"} : OpenForm(r, form)
       \/ \E value \in Hours \cup {None} : SubmitForm(r, value)
       \/ TimePasses(r) \/ Elsewhere(r)
  \/ GivenArrives
  \/ \E m \in net :
       \/ ReviewArrives(m) \/ FormArrives(m) \/ QuoteArrives(m) \/ CancelArrives(m) \/ RequestFails(m)
       \/ ServeReview(m) \/ ServeReading(m) \/ ServeComplete(m) \/ ServeQuote(m) \/ ServeCancel(m)

Spec == Init /\ [][Next]_vars
-----------------------------------------------------------------------------
TypeOK ==
  /\ ui.shown \subseteq Rentals /\ ui.given \subseteq Rentals /\ {ui.open, ui.text} \subseteq Rentals \cup {0}
  /\ \A r \in Rentals :
       /\ db[r].in \in Hours \cup {None} /\ db[r].out \in Hours \cup {None}
       /\ db[r].status \in {"signed", "completed", "cancelled"}

\* One form and one open panel serve all the cards, and an answer may close
\* the panel of another rental: still a review is filed under the rental it was
\* written for, and nobody is rated for what somebody else did.
ReviewIsOfItsRental == \A r \in Rentals : db[r].review \in {0, r}

\* Readings are corrected at any time, from stale screens and in two windows,
\* each against the other kind, and once more as the rental is closed: the
\* machine never runs backwards, so the hours used that the dashboards add up
\* are never negative.
ReadingsInOrder == \A r \in Rentals : db[r].out # None => db[r].in # None /\ db[r].in <= db[r].out
=============================================================================
