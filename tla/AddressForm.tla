---------------------------- MODULE AddressForm ----------------------------
(***************************************************************************)
(* The forms with a person's data whose address is looked up from its      *)
(* postal code (CEP): "Minha Conta", the operators of a team, and sign-up. *)
(*                                                                         *)
(* The lookup is answered by a public service whenever it pleases, while   *)
(* the person types on, opens the form of somebody else or saves.  The     *)
(* first two forms number their lookups and hear only the last; sign-up    *)
(* does not.                                                               *)
(*                                                                         *)
(* ui is the form, db the people as the server keeps them, net the lookups *)
(* and requests in flight.                                                 *)
(***************************************************************************)
EXTENDS Integers, FiniteSets

CONSTANTS
  Screen,         \* "account", "team" or "signup"
  People,         \* numbers from 1
  Ceps,           \* complete postal codes, numbers from 1; 0 is an incomplete one
  MaxForms,       \* bound: forms opened
  MaxRequests     \* bound: lookups numbered

VARIABLES ui, db, net
vars == <<ui, db, net>>

(***************************************************************************)
(* An address is blank, typed, or looked up; own is the history of a       *)
(* lookup: nothing was typed, opened or closed between its question and    *)
(* its answer.                                                             *)
(***************************************************************************)
Blank == [by |-> "none", own |-> TRUE]
Typed == [by |-> "typed", own |-> TRUE]

Init ==
  /\ db = [p \in People |-> [here |-> Screen # "signup" /\ p = 1, cep |-> 0, address |-> Typed]]
  /\ ui = [open |-> Screen = "signup", form |-> 0, who |-> 0, cep |-> 0, address |-> Blank,
           request |-> 0, hand |-> 0, pending |-> FALSE, loading |-> Screen = "team", listed |-> {}]
  /\ net = IF Screen = "team" THEN {[kind |-> "list", people |-> {}]} ELSE {}

\* ---------------------------------------------------------------- the form
Numbered == Screen # "signup"
Bumped(u) == [u EXCEPT !.request = IF Numbered THEN @ + 1 ELSE @]
Room == ui.request < MaxRequests /\ ui.hand < MaxRequests

\* (mutant) a form forgets the lookups of the one before it only if it saves
KeepsHearing(who, cep, address) ==
  [ui EXCEPT !.open = TRUE, !.form = @ + 1, !.who = who, !.cep = cep, !.address = address, !.hand = 0]

\* openCreate and openEdit
Opened(who, cep, address) ==
  [Bumped(ui) EXCEPT !.open = TRUE, !.form = @ + 1, !.who = who, !.cep = cep, !.address = address, !.hand = 0]

\* "Minha Conta" is filled in once the user is known.
SyncUser ==
  /\ Screen = "account" /\ ~ui.open
  /\ ui' = [ui EXCEPT !.open = TRUE, !.who = 1, !.cep = db[1].cep, !.address = db[1].address]
  /\ UNCHANGED <<db, net>>

Free == Screen = "team" /\ ~ui.pending /\ ui.form < MaxForms /\ Room

\* The buttons of the list stay at hand while a form is open.
OpenCreate == Free /\ ~ui.open /\ ui' = Opened(0, 0, Blank) /\ UNCHANGED <<db, net>>

\* The form is filled from the row the list shows, whatever is stored by now.
OpenEdit(o) ==
  /\ Free /\ ~ui.loading
  /\ ui' = Opened(o.who, o.cep, o.address)
  /\ UNCHANGED <<db, net>>

\* The fields are locked while the form is saved, but at sign-up.
Editable == ui.open /\ (Numbered => ~ui.pending) /\ Room

\* handleCepChange: every change of the code silences the lookups before it.
TypeCep(c) ==
  /\ Editable /\ c # ui.cep
  /\ ui' = [Bumped(ui) EXCEPT !.cep = c]
  /\ net' = IF c = 0 THEN net
            ELSE net \cup {[kind |-> "lookup", request |-> Bumped(ui).request, cep |-> c,
                            form |-> ui.form, hand |-> ui.hand]}
  /\ UNCHANGED db

\* setField: so does what is typed in its place.
TypeAddress ==
  /\ Editable
  /\ ui' = [Bumped(ui) EXCEPT !.address = Typed, !.hand = @ + 1]
  /\ UNCHANGED <<db, net>>

Heard(m) == Numbered => m.request = ui.request

LookupArrives(m) ==
  /\ m.kind = "lookup" /\ net' = net \ {m}
  /\ ui' = IF Heard(m)
           THEN [ui EXCEPT !.address =
                  [by |-> "lookup", own |-> m.form = ui.form /\ m.hand = ui.hand /\ m.cep = ui.cep]]
           ELSE ui
  /\ UNCHANGED db

\* Not found, or the service does not answer.
LookupFails(m) == m.kind = "lookup" /\ net' = net \ {m} /\ UNCHANGED <<ui, db>>

\* closeForm
Closed(u) == [Bumped(u) EXCEPT !.open = FALSE, !.who = 0, !.cep = 0, !.address = Blank, !.hand = 0]

CloseForm ==
  /\ Screen = "team" /\ ui.open /\ ~ui.pending /\ Room
  /\ ui' = Closed(ui)
  /\ UNCHANGED <<db, net>>

\* handleSubmit: the lookup under way is not waited for.
Submit ==
  /\ ui.open /\ ~ui.pending /\ ui.cep # 0 /\ ui.address # Blank /\ Room
  /\ ui' = [Bumped(ui) EXCEPT !.pending = TRUE]
  /\ net' = net \cup {[kind |-> "save", who |-> ui.who, cep |-> ui.cep, address |-> ui.address]}
  /\ UNCHANGED db

\* A created row joins the list; an updated one replaces that of its person.
Taken(m) == IF m.created THEN ui.listed \cup {m.row}
            ELSE {IF o.who = m.row.who THEN m.row ELSE o : o \in ui.listed}

\* The team's form closes and the list takes the answer in.
SavedArrives(m) ==
  /\ m.kind = "saved" /\ net' = net \ {m}
  /\ ui' = IF Screen = "team"
           THEN [Closed(ui) EXCEPT !.pending = FALSE, !.listed = Taken(m)]
           ELSE [ui EXCEPT !.pending = FALSE, !.open = Numbered]
  /\ UNCHANGED db

\* Refused, or lost before or after it was served: the form keeps its fields.
RequestFails(m) ==
  /\ m.kind \in {"save", "saved", "unlink", "unlinked"} /\ net' = net \ {m}
  /\ ui' = [ui EXCEPT !.pending = FALSE]
  /\ UNCHANGED db

\* ---------------------------------------------------------------- the team
ListArrives(m) ==
  /\ m.kind = "listed" /\ net' = net \ {m}
  /\ ui' = [ui EXCEPT !.listed = m.people, !.loading = FALSE]
  /\ UNCHANGED db

\* "Tentar novamente" asks for the list again.
ListFails(m) ==
  /\ m.kind \in {"list", "listed"}
  /\ net' = (net \ {m}) \cup {[kind |-> "list", people |-> {}]}
  /\ UNCHANGED <<ui, db>>

Unlink(o) ==
  /\ Screen = "team" /\ ~ui.pending /\ ~ui.loading
  /\ ui' = [ui EXCEPT !.pending = TRUE]
  /\ net' = net \cup {[kind |-> "unlink", who |-> o.who]}
  /\ UNCHANGED db

UnlinkedArrives(m) ==
  /\ m.kind = "unlinked" /\ net' = net \ {m}
  /\ ui' = [(IF ui.who = m.who THEN Closed(ui) ELSE ui) EXCEPT !.pending = FALSE, !.listed = {o \in @ : o.who # m.who}]
  /\ ui.who = m.who => Room
  /\ UNCHANGED db

\* ---------------------------------------------------------------- the server
Row(p, cep, address) == [who |-> p, cep |-> cep, address |-> address]

Answered(m, answer) == net' = (net \ {m}) \cup {answer} /\ UNCHANGED ui

ServeList(m) ==
  /\ m.kind = "list"
  /\ Answered(m, [kind |-> "listed", people |-> {Row(p, db[p].cep, db[p].address) : p \in {q \in People : db[q].here}}])
  /\ UNCHANGED db

\* A new account, or the account of somebody still in the team.
ServeSave(m, p) ==
  /\ m.kind = "save"
  /\ IF m.who = 0 THEN ~db[p].here ELSE p = m.who /\ db[p].here
  /\ db' = [db EXCEPT ![p] = [here |-> TRUE, cep |-> m.cep, address |-> m.address]]
  /\ Answered(m, [kind |-> "saved", created |-> m.who = 0, row |-> Row(p, m.cep, m.address)])

ServeUnlink(m) ==
  /\ m.kind = "unlink" /\ db[m.who].here
  /\ db' = [db EXCEPT ![m.who].here = FALSE]
  /\ Answered(m, [kind |-> "unlinked", who |-> m.who])

Next ==
  \/ SyncUser \/ OpenCreate \/ TypeAddress \/ CloseForm \/ Submit
  \/ \E o \in ui.listed : OpenEdit(o) \/ Unlink(o)
  \/ \E c \in Ceps \cup {0} : TypeCep(c)
  \/ \E m \in net :
       \/ LookupArrives(m) \/ LookupFails(m) \/ SavedArrives(m) \/ RequestFails(m)
       \/ ListArrives(m) \/ ListFails(m) \/ UnlinkedArrives(m)
       \/ ServeList(m) \/ ServeUnlink(m)
       \/ \E p \in People : ServeSave(m, p)

Spec == Init /\ [][Next]_vars
-----------------------------------------------------------------------------
TypeOK ==
  /\ ui.form \in 0..MaxForms /\ ui.who \in People \cup {0} /\ ui.cep \in Ceps \cup {0}
  /\ ui.request \in 0..MaxRequests + 1
  /\ \A o \in ui.listed : o.who \in People /\ o.cep \in Ceps \cup {0}

\* A lookup answered late never fills in the form of somebody else, nor
\* replaces what was typed since it was asked, nor the address of a later code;
\* so nobody is saved with an address that came that way.
LookupFillsItsForm == Numbered => ui.address.own /\ \A p \in People : db[p].address.own
=============================================================================
