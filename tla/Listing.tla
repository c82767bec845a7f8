------------------------------ MODULE Listing ------------------------------
(***************************************************************************)
(* The two pages of an owner's listing, "Novo Anúncio" and "Gerenciar      *)
(* Anúncio": the postal code (CEP) and its lookup, the address, the point  *)
(* the map finds for them, the suggested price, the photographs; and the   *)
(* moderator who judges the listing meanwhile.                             *)
(*                                                                         *)
(* An address is a number, 0 being none; code c stands in address c.  A    *)
(* point is what it was located by: a code and an address.                 *)
(*                                                                         *)
(* ui is the page and the listing as the browser last read it, db the      *)
(* listings, net the requests in flight.                                   *)
(***************************************************************************)
EXTENDS Integers, Sequences, FiniteSets

CONSTANTS
  Editing,        \* whether this is "Gerenciar Anúncio"
  Machines,       \* the owner's fleet, numbers from 1
  Ceps,           \* complete codes, numbers from 1; 0 is an incomplete one
  Addresses,      \* addresses the owner types, numbers from 1
  MaxOpens,       \* bound: times the page is opened
  MaxSelections,  \* bound: machines chosen
  MaxSends,       \* bound: times the form is sent, or the listing removed
  MaxInFlight     \* bound: requests in flight when the owner, or the network, acts

VARIABLES ui, db, net
vars == <<ui, db, net>>

Moderated == {"rejected", "suspended", "pending_review"}
Point(cep, address) == [cep |-> cep, address |-> address]
Nowhere == Point(0, 0)

\* drift is the history of a point: what it was located by has changed since.
\* price is the machine it was suggested for, 0 for a price typed.
Row(cep, address, point, drift, status, price) ==
  [cep |-> cep, address |-> address, point |-> point, drift |-> drift, status |-> status, price |-> price]
Unread == Row(0, 0, Nowhere, FALSE, "none", 0)

\* The question about a price: the machine it is about, and when that was chosen.
NoQuestion == [machine |-> 0, selection |-> 0]

\* ---------------------------------------------------------------- the map
Query(u) == Point(u.cep, u.address)
Searchable(u) == u.cep # 0 \/ u.address # 0

\* (mutant) the stored point stays with whatever is typed
StoredAlways(u) == u.read.point

\* The stored point serves as long as the address is the stored one.
Stored(u) == IF Editing /\ u.cep = u.read.cep /\ u.address = u.read.address THEN u.read.point ELSE Nowhere
Coordinates(u) == IF u.located # Nowhere THEN u.located ELSE Stored(u)

Needs(u) == u.open /\ ~u.error /\ Coordinates(u) = Nowhere /\ Searchable(u)

\* The effect of the map: a change drops the question under way and asks anew.
Mapped(u, v, ms) ==
  IF Needs(u) = Needs(v) /\ (Needs(v) => Query(u) = Query(v)) THEN ms
  ELSE {m \in ms : m.kind # "locate"} \cup (IF Needs(v) THEN {[kind |-> "locate"]} ELSE {})

Becomes(v, ms) == ui' = v /\ net' = Mapped(ui, v, ms)

\* One reading at a time: another joins it, or takes its place.
Reading(ms) == {m \in ms : m.kind \in {"detail", "detailed"}}
Joined(ms) == IF ~Editing \/ Reading(ms) # {} THEN ms ELSE ms \cup {[kind |-> "detail"]}
Restarted(ms) == (ms \ Reading(ms)) \cup {[kind |-> "detail"]}

Quiet == Cardinality(net) < MaxInFlight

\* ---------------------------------------------------------------- the page
\* What mounting the page starts from; what was read of the listing is kept.
Fresh(u) ==
  [u EXCEPT !.open = TRUE, !.opens = @ + 1, !.error = FALSE, !.cep = u.read.cep, !.address = u.read.address,
            !.status = u.read.status, !.located = Nowhere, !.drift = FALSE, !.pending = FALSE,
            !.machine = 0, !.asked = NoQuestion, !.answer = "none", !.price = 0]

Closed == [open |-> FALSE, opens |-> 0, sends |-> 0, error |-> FALSE, read |-> Unread, cep |-> 0, address |-> 0, status |-> "none",
           located |-> Nowhere, drift |-> FALSE, pending |-> FALSE,
           machine |-> 0, selection |-> 0, asked |-> NoQuestion, answer |-> "none", price |-> 0]

Init ==
  /\ ui = Closed
  /\ db = IF Editing THEN <<Row(1, 1, Point(1, 1), FALSE, "active", 0)>> ELSE <<>>
  /\ net = {}

Open ==
  /\ ~ui.open /\ ui.opens < MaxOpens
  /\ Becomes(Fresh(ui), Joined(net))
  /\ UNCHANGED db

\* Nothing the page waits for outlives it but what was sent to be done.
Left(ms) == {m \in ms : m.kind \notin {"lookup", "locate", "suggest"}}

Leave ==
  /\ ui.open
  /\ ui' = [ui EXCEPT !.open = FALSE] /\ net' = Left(net)
  /\ UNCHANGED db

\* The form is on screen once the listing was read and while no reading failed.
FormShown == ui.open /\ (Editing => ui.read # Unread /\ ~ui.error)

\* ---------------------------------------------------------------- the address
\* handleCepChange
TypeCep(c) ==
  /\ FormShown /\ c # ui.cep /\ Quiet
  /\ Becomes([ui EXCEPT !.cep = c, !.located = Nowhere, !.drift = FALSE],
             net \cup (IF c = 0 THEN {} ELSE {[kind |-> "lookup", cep |-> c]}))
  /\ UNCHANGED db

\* An address typed by hand leaves the code behind.
TypeAddress(a) ==
  /\ FormShown /\ a # ui.address /\ Quiet
  /\ Becomes([ui EXCEPT !.cep = 0, !.address = a, !.located = Nowhere, !.drift = FALSE], net)
  /\ UNCHANGED db

\* The lookups are not numbered, and their answer keeps the point.
LookupArrives(m) ==
  /\ m.kind = "lookup"
  /\ Becomes([ui EXCEPT !.address = m.cep, !.drift = @ \/ (ui.located # Nowhere /\ m.cep # ui.address)], net \ {m})
  /\ UNCHANGED db

LookupFails(m) == m.kind = "lookup" /\ net' = net \ {m} /\ UNCHANGED <<ui, db>>

\* onCoordenadas: the answer is for the query on screen, or it was dropped.
LocateArrives(m) ==
  /\ m.kind = "locate"
  /\ Becomes([ui EXCEPT !.located = Query(ui), !.drift = FALSE], net \ {m})
  /\ UNCHANGED db

\* Not recognised, or no answer: not asked again until something is typed.
LocateFails(m) == m.kind = "locate" /\ net' = net \ {m} /\ UNCHANGED <<ui, db>>

\* ---------------------------------------------------------------- the listing read
\* Mounting the page and coming back online read the listing again.
Reconnect ==
  /\ Editing /\ ui.open /\ ui.read # Unread /\ Quiet
  /\ net' = Joined(net)
  /\ UNCHANGED <<ui, db>>

\* A listing that changed meanwhile fills the form in again: form.reset keeps
\* the point found since.
Reset(u, row) ==
  IF row = u.read THEN [u EXCEPT !.error = FALSE] ELSE
  [u EXCEPT !.read = row, !.error = FALSE, !.cep = row.cep, !.address = row.address, !.status = row.status,
            !.drift = @ \/ (u.located # Nowhere /\ Query(u) # Point(row.cep, row.address))]

DetailArrives(m) ==
  /\ m.kind = "detailed"
  /\ IF ui.open THEN Becomes(Reset(ui, m.row), net \ {m})
     ELSE ui' = [ui EXCEPT !.read = m.row] /\ net' = net \ {m}
  /\ UNCHANGED db

\* The page gives way to an error and to the button that reads again.
DetailFails(m) ==
  /\ m.kind \in {"detail", "detailed"}
  /\ Becomes([ui EXCEPT !.error = ui.open], net \ {m})
  /\ UNCHANGED db

ReadAgain ==
  /\ ui.open /\ ui.error
  /\ net' = Restarted(net)
  /\ UNCHANGED <<ui, db>>

\* ---------------------------------------------------------------- the price
\* (mutant) the question asked for another selection is still listened to
StillHeard(u, k) == [u EXCEPT !.machine = k, !.selection = @ + 1]

\* usePricingSuggestion: another machine detaches the question under way.
Detached(u, k) == [u EXCEPT !.machine = k, !.selection = @ + 1, !.asked = NoQuestion, !.answer = "none"]

IsCurrent(u) == u.asked.machine = u.machine
Suggested(u) == u.answer \in {"shown", "dismissed"} /\ IsCurrent(u)

SelectMachine(k) ==
  /\ ~Editing /\ FormShown /\ k # ui.machine /\ ui.selection < MaxSelections
  /\ ui' = Detached(ui, k)
  /\ UNCHANGED <<db, net>>

RequestPrice ==
  /\ ~Editing /\ FormShown /\ ui.machine # 0 /\ ~ui.pending
  /\ IsCurrent(ui) => ui.answer \notin {"waiting", "shown"}
  /\ ui' = [ui EXCEPT !.asked = [machine |-> ui.machine, selection |-> ui.selection], !.answer = "waiting"]
  /\ net' = net \cup {[kind |-> "suggest", asked |-> ui'.asked]}
  /\ UNCHANGED db

\* Only the last question asked is listened to, if it is still attached.
PriceArrives(m, found) ==
  /\ m.kind = "suggest" /\ net' = net \ {m}
  /\ ui' = IF m.asked = ui.asked THEN [ui EXCEPT !.answer = IF found THEN "shown" ELSE "none"] ELSE ui
  /\ UNCHANGED db

\* The panel never fills the field by itself: the owner decides.  A price
\* applied stays when another machine is chosen.
PanelShown == FormShown /\ ui.answer = "shown" /\ IsCurrent(ui)

SetPrice ==
  /\ ~Editing /\ FormShown
  /\ \E price \in ({0} \cup {k \in {ui.asked.machine} : PanelShown}) \ {ui.price} :
       ui' = [ui EXCEPT !.price = price]
  /\ UNCHANGED <<db, net>>

\* The explanation goes; the suggestion is still sent with the listing.
Dismiss ==
  /\ PanelShown
  /\ ui' = [ui EXCEPT !.answer = "dismissed"]
  /\ UNCHANGED <<db, net>>

\* ---------------------------------------------------------------- saving
SelectStatus(s) ==
  /\ Editing /\ FormShown /\ ui.read.status \notin Moderated /\ s # ui.status
  /\ ui' = [ui EXCEPT !.status = s]
  /\ UNCHANGED <<db, net>>

\* toWritePayload and toEditPayload: without a point none is kept.
Content(u) ==
  Row(u.cep, u.address, Coordinates(u), IF u.located # Nowhere THEN u.drift ELSE u.read.drift,
      IF Editing THEN u.status ELSE "active", u.price)

\* The schemas of the two forms: an address, and a machine for a new listing.
Sendable(u) == u.address # 0 /\ (Editing \/ u.machine # 0)

\* The fields stay open while the form is sent; its buttons do not.
Submit ==
  /\ FormShown /\ ~ui.pending /\ Quiet /\ ui.sends < MaxSends /\ Sendable(ui)
  /\ ui' = [ui EXCEPT !.pending = TRUE, !.sends = @ + 1]
  /\ net' = net \cup {[kind |-> IF Editing THEN "save" ELSE "create", page |-> ui.opens, row |-> Content(ui)]}
  /\ UNCHANGED db

Remove ==
  /\ Editing /\ FormShown /\ ~ui.pending /\ Quiet /\ ui.sends < MaxSends
  /\ ui' = [ui EXCEPT !.pending = TRUE, !.sends = @ + 1]
  /\ net' = net \cup {[kind |-> "remove", page |-> ui.opens]}
  /\ UNCHANGED db

\* The photographs follow a new listing; those that fail stop nothing.
CreatedArrives(m) ==
  /\ m.kind = "created"
  /\ net' = (net \ {m}) \cup {[kind |-> "photos", page |-> m.page]}
  /\ UNCHANGED <<ui, db>>

\* Done: back to the listings, from whichever page is open by then.
Done(m) ==
  /\ m.kind \in {"photos", "saved", "removed"}
  /\ ui' = [ui EXCEPT !.open = FALSE]
  /\ net' = IF ui.open /\ m.kind = "saved" THEN Left(Restarted(net \ {m})) ELSE Left(net \ {m})
  /\ UNCHANGED db

\* Refused, or lost before or after it was served: the form keeps its fields.
RequestFails(m) ==
  /\ m.kind \in {"create", "created", "save", "saved", "remove", "removed"} /\ net' = net \ {m}
  /\ ui' = [ui EXCEPT !.pending = @ /\ m.page # ui.opens]
  /\ UNCHANGED db

\* ---------------------------------------------------------------- the server
Answered(m, answer) == net' = (net \ {m}) \cup {answer} /\ UNCHANGED ui

ServeDetail(m) ==
  /\ m.kind = "detail" /\ db[1].status # "removed"
  /\ Answered(m, [kind |-> "detailed", row |-> db[1]])
  /\ UNCHANGED db

ServeCreate(m) ==
  /\ m.kind = "create"
  /\ db' = Append(db, m.row)
  /\ Answered(m, [kind |-> "created", page |-> m.page])

\* validate_status: what a moderator decided only a moderator changes.
Keeps(status, sent) == status \in Moderated => sent = status

\* update: the row is read, checked and written back whole, without a lock.
ServeCheck(m) ==
  /\ m.kind = "save" /\ db[1].status # "removed" /\ Keeps(db[1].status, m.row.status)
  /\ Answered(m, [m EXCEPT !.kind = "checked"])
  /\ UNCHANGED db

ServeSave(m) ==
  /\ m.kind = "checked"
  /\ db' = [db EXCEPT ![1] = m.row]
  /\ Answered(m, [kind |-> "saved", page |-> m.page])

\* A listing with rentals stays: refused as any other.
ServeRemove(m) ==
  /\ m.kind = "remove" /\ db[1].status # "removed"
  /\ db' = [db EXCEPT ![1].status = "removed"]
  /\ Answered(m, [kind |-> "removed", page |-> m.page])

\* approve and reject
Moderate(status) ==
  /\ Editing /\ db[1].status \notin {"removed", status}
  /\ db' = [db EXCEPT ![1].status = status]
  /\ UNCHANGED <<ui, net>>

Next ==
  \/ Open \/ Leave \/ Reconnect \/ ReadAgain \/ RequestPrice \/ SetPrice \/ Dismiss \/ Submit \/ Remove
  \/ \E c \in Ceps \cup {0} : TypeCep(c)
  \/ \E a \in Addresses \cup {0} : TypeAddress(a)
  \/ \E k \in Machines \cup {0} : SelectMachine(k)
  \/ \E s \in {"active", "inactive"} : SelectStatus(s)
  \/ \E s \in {"active", "rejected"} : Moderate(s)
  \/ \E m \in net :
       \/ LookupArrives(m) \/ LookupFails(m) \/ LocateArrives(m) \/ LocateFails(m)
       \/ DetailArrives(m) \/ DetailFails(m) \/ CreatedArrives(m) \/ Done(m) \/ RequestFails(m)
       \/ ServeDetail(m) \/ ServeCreate(m) \/ ServeCheck(m) \/ ServeSave(m) \/ ServeRemove(m)
       \/ \E found \in BOOLEAN : PriceArrives(m, found)

Spec == Init /\ [][Next]_vars
-----------------------------------------------------------------------------
TypeOK ==
  /\ ui.opens \in 0..MaxOpens /\ ui.cep \in Ceps \cup {0, 1} /\ ui.machine \in Machines \cup {0}
  /\ ui.address \in Addresses \cup Ceps \cup {0, 1}
  /\ ui.answer \in {"none", "waiting", "shown", "dismissed"} /\ (Editing => Len(db) = 1)

\* "numa edição, omitir o campo deixaria o ponto antigo no endereço novo": the
\* point sent and stored is the one located for the code and the address beside
\* it, or none, unless an answer (of a lookup, of the listing read again) has
\* changed the address since the point was found.
PointIsOfAddress ==
  \A row \in {Content(ui)} \cup {db[i] : i \in DOMAIN db} :
    ~row.drift => row.point \in {Nowhere, Point(row.cep, row.address)}

\* "A late response cannot show or submit another selection's suggestion": what
\* is shown and sent was asked since the machine was chosen (A, B, and A again).
SuggestionIsOfItsMachine == Suggested(ui) => ui.asked.selection = ui.selection
=============================================================================
