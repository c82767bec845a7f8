------------------------------ MODULE Equipment ------------------------------
(***************************************************************************)
(* An owner's fleet: the list of machines, the window that edits one of    *)
(* them and the page that registers another.  The window stays mounted and *)
(* takes its fields from the machine it is opened on while rendering.      *)
(*                                                                         *)
(* A machine is its number, its Renagro registry and a text that stands    *)
(* for its other fields: the machine it was typed for and the opening of   *)
(* the window (or of the page) it was typed in.                            *)
(*                                                                         *)
(* ui is the browser, db the machines, net the requests in flight.         *)
(***************************************************************************)
EXTENDS Integers, Sequences

CONSTANTS
  Registries,   \* the registries there are
  MaxMachines,  \* bound: machines
  MaxOpens      \* bound: times a form is opened

VARIABLES ui, db, net
vars == <<ui, db, net>>

Text(machine, opening) == [machine |-> machine, opening |-> opening]
Row(registry, text) == [registry |-> registry, text |-> text]
Blank == Row(0, Text(0, 0))

\* ---------------------------------------------------------------- the window
\* (mutant) what was loaded is remembered while the window is closed
Loaded(u) ==
  IF u.open /\ u.loadedFor # u.selected THEN [u EXCEPT !.loadedFor = u.selected, !.form = u.machine] ELSE u

\* While rendering: a window that opens takes its machine's fields, once.
Synced(u) ==
  IF ~u.open THEN [u EXCEPT !.loadedFor = 0]
  ELSE IF u.loadedFor # u.selected THEN [u EXCEPT !.loadedFor = u.selected, !.form = u.machine]
  ELSE u

\* Mounting the fleet, or the page of a new machine.
Mounted(u, view) ==
  [u EXCEPT !.view = view, !.open = FALSE, !.selected = 0, !.machine = Blank, !.loadedFor = 0,
            !.form = Blank, !.sending = FALSE, !.opens = @ + 1]

Init ==
  /\ ui = [view |-> "fleet", list |-> <<>>, open |-> FALSE, selected |-> 0, machine |-> Blank, loadedFor |-> 0,
           form |-> Blank, sending |-> FALSE, opens |-> 0]
  /\ db = [rows |-> <<Row(1, Text(1, 0)), Row(2, Text(2, 0))>>, held |-> {Text(1, 0), Text(2, 0)}]
  /\ net = {[kind |-> "list", opening |-> 0]}

\* A reading takes the place of the one in flight, and its duty to the window.
Reread(ms, opening) ==
  LET old == {m \in ms : m.kind \in {"list", "listed"}}
      duty == {opening} \cup {m.opening : m \in old}
  IN  (ms \ old) \cup {[kind |-> "list", opening |-> CHOOSE o \in duty : \A p \in duty : p <= o]}

\* The page left hears no answer.
Visit(view) ==
  /\ view # ui.view /\ ui.opens < MaxOpens
  /\ ui' = Mounted(ui, view)
  /\ net' = IF view = "fleet" THEN Reread(net, 0) ELSE net
  /\ UNCHANGED db

\* openEditModalForMachine
OpenModal(m) ==
  /\ ui.view = "fleet" /\ ~ui.open /\ m \in DOMAIN ui.list /\ ui.opens < MaxOpens
  /\ ui' = Synced([ui EXCEPT !.open = TRUE, !.opens = @ + 1, !.selected = m, !.machine = ui.list[m]])
  /\ UNCHANGED <<db, net>>

CloseModal ==
  /\ ui.open /\ ~ui.sending
  /\ ui' = Synced([ui EXCEPT !.open = FALSE])
  /\ UNCHANGED <<db, net>>

\* The fields of the page stay open while it is sent; those of the window do not.
Editable == ui.view = "new" \/ (ui.open /\ ~ui.sending)

\* handleChange
Type ==
  /\ Editable
  /\ ui' = [ui EXCEPT !.form.text = Text(IF ui.open THEN ui.selected ELSE 0, ui.opens)]
  /\ UNCHANGED <<db, net>>

TypeRegistry(r) ==
  /\ Editable
  /\ ui' = [ui EXCEPT !.form.registry = r]
  /\ UNCHANGED <<db, net>>

\* validateMachineEdit, and the schema of the page.
Valid(row) == row.registry # 0

\* Every field goes, those left as they were read too.
Submit(kind) ==
  /\ kind = "save" => ui.open
  /\ kind = "create" => ui.view = "new"
  /\ ~ui.sending /\ Valid(ui.form)
  /\ ui' = [ui EXCEPT !.sending = TRUE]
  /\ net' = net \cup {[kind |-> kind, machine |-> ui.selected, opening |-> ui.opens, row |-> ui.form]}
  /\ UNCHANGED db

\* The window waits for the lists to be read again; the page does not.
SavedArrives(m) ==
  /\ m.kind = "saved"
  /\ net' = Reread(net \ {m}, m.opening)
  /\ UNCHANGED <<ui, db>>

\* A new machine empties the form, and what was typed meanwhile with it.
CreatedArrives(m) ==
  /\ m.kind = "created" /\ net' = net \ {m}
  /\ ui' = IF ui.view = "new" /\ m.opening = ui.opens THEN [ui EXCEPT !.form = Blank, !.sending = FALSE] ELSE ui
  /\ UNCHANGED db

\* onSave is over: the window that sent it shows what was saved, and closes.
Settled(u, opening) ==
  IF u.open /\ u.sending /\ opening = u.opens
  THEN Synced([u EXCEPT !.machine = u.form, !.open = FALSE, !.sending = FALSE])
  ELSE u

ListArrives(m) ==
  /\ m.kind = "listed" /\ net' = net \ {m}
  /\ ui' = Settled([ui EXCEPT !.list = m.rows], m.opening)
  /\ UNCHANGED db

ListFails(m) ==
  /\ m.kind \in {"list", "listed"} /\ net' = net \ {m}
  /\ ui' = Settled(ui, m.opening)
  /\ UNCHANGED db

\* Refused, or lost before or after it was served: the form stays as it is.
RequestFails(m) ==
  /\ m.kind \in {"save", "saved", "create", "created"} /\ net' = net \ {m}
  /\ ui' = [ui EXCEPT !.sending = @ /\ m.opening # ui.opens]
  /\ UNCHANGED db

\* ---------------------------------------------------------------- the server
Answered(m, answer) == net' = (net \ {m}) \cup {answer} /\ UNCHANGED ui

ServeList(m) ==
  /\ m.kind = "list"
  /\ Answered(m, [kind |-> "listed", opening |-> m.opening, rows |-> db.rows])
  /\ UNCHANGED db

\* The registry is unique.
Free(registry, but) == \A i \in DOMAIN db.rows : i # but => db.rows[i].registry # registry

Holding(rows, text) == db' = [rows |-> rows, held |-> db.held \cup {text}]

ServeSave(m) ==
  /\ m.kind = "save" /\ Free(m.row.registry, m.machine)
  /\ Holding([db.rows EXCEPT ![m.machine] = m.row], m.row.text)
  /\ Answered(m, [m EXCEPT !.kind = "saved"])

ServeCreate(m) ==
  /\ m.kind = "create" /\ Free(m.row.registry, 0) /\ Len(db.rows) < MaxMachines
  /\ LET text == [m.row.text EXCEPT !.machine = Len(db.rows) + 1]
     IN  Holding(Append(db.rows, [m.row EXCEPT !.text = text]), text)
  /\ Answered(m, [m EXCEPT !.kind = "created"])

Next ==
  \/ CloseModal \/ Type
  \/ \E view \in {"fleet", "new"} : Visit(view)
  \/ \E m \in 1..MaxMachines : OpenModal(m)
  \/ \E r \in Registries : TypeRegistry(r)
  \/ \E kind \in {"save", "create"} : Submit(kind)
  \/ \E m \in net :
       \/ SavedArrives(m) \/ CreatedArrives(m) \/ ListArrives(m) \/ ListFails(m) \/ RequestFails(m)
       \/ ServeList(m) \/ ServeSave(m) \/ ServeCreate(m)

Spec == Init /\ [][Next]_vars
-----------------------------------------------------------------------------
TypeOK ==
  /\ ui.view \in {"fleet", "new"} /\ ui.opens \in 0..MaxOpens /\ Len(db.rows) <= MaxMachines
  /\ ui.selected \in 0..MaxMachines /\ ui.loadedFor \in {0, ui.selected}
  /\ ui.form.registry \in Registries \cup {0}

\* "discards cancelled changes when reopening the same machine": a save carries
\* what was typed for that machine since the window opened, or what the machine
\* already held.
EditIsOfItsMachine ==
  \A m \in net : m.kind = "save" =>
    m.row.text.machine = m.machine /\ (m.row.text.opening = m.opening \/ m.row.text \in db.held)
=============================================================================
