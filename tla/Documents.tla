----------------------------- MODULE Documents -----------------------------
(***************************************************************************)
(* The papers of an operator: the list on his dashboard, the pages where   *)
(* he sends a driving licence or a certificate, the reviewer's page, and   *)
(* the rows both work on.                                                  *)
(*                                                                         *)
(* Files are numbered in the order they are attached, 0 being none.  What  *)
(* a form or a row says is the file it was read from, 0 when it was typed. *)
(* The list of rows has the newest first, as the server sends it; a row's  *)
(* id is the order of its creation.                                        *)
(*                                                                         *)
(* ui is the two browsers, db the rows, net the requests in flight.        *)
(***************************************************************************)
EXTENDS Integers, Sequences, FiniteSets

CONSTANTS
  Kinds,         \* the pages an owner may work with
  MaxFiles,      \* bound: files attached
  MaxRows,       \* bound: documents created
  MaxSaves       \* bound: saves in flight

VARIABLES ui, db, net
vars == <<ui, db, net>>

Pages    == {"documents", "cnh", "certification"}
Statuses == {"pending", "approved", "rejected"}
Ids      == 1..MaxRows
NoRow    == [id |-> 0, says |-> 0, photo |-> 0, status |-> "pending", auto |-> FALSE,
             edited |-> FALSE]
Sections == {"person", "licence", "certificate"}
Blank    == [says |-> 0, filled |-> {}]

Init ==
  \E page \in Kinds :
    /\ ui = [page |-> "documents", kind |-> page, list |-> <<>>, fresh |-> FALSE,
             target |-> 0, file |-> 0, attached |-> 0, result |-> "none", replaced |-> FALSE,
             form |-> Blank, cleared |-> FALSE, saving |-> FALSE,
             open |-> 0, deciding |-> FALSE]
    /\ db = [rows |-> <<>>, created |-> 0]
    /\ net = {}

\* ---------------------------------------------------------------- helpers
Place(rows, id) == IF \E i \in DOMAIN rows : rows[i].id = id THEN CHOOSE i \in DOMAIN rows : rows[i].id = id ELSE 0

\* The row a page edits: the first licence of the list, the certificate of the address.
ExistingIn(page, list, target) ==
  CASE page = "cnh" /\ list # <<>> -> Head(list)
    [] page = "certification" /\ Place(list, target) # 0 -> list[Place(list, target)]
    [] OTHER -> NoRow
Existing == ExistingIn(ui.page, ui.list, ui.target)
Editing  == Existing.id # 0

\* What the effect of the page puts in the form when the list changes.
Refill(page, row, replaced, form) ==
  IF row = NoRow \/ replaced THEN form
  ELSE [says |-> row.says, filled |-> IF page = "cnh" THEN {"person", "licence"} ELSE {"certificate"}]

\* Nothing is sent before the schema of the form accepts it.
Complete == ui.form.filled = IF ui.page = "cnh" THEN {"person", "licence"} ELSE {"certificate"}

\* The licence form appears once a file is recognised, or over the saved data.
FormShown ==
  \/ ui.page = "certification"
  \/ ui.page = "cnh" /\ (ui.result = "valid" \/ (ui.result = "none" /\ Editing))

\* (mutant) any result is taken for that of the last file
AnyFile(n) == TRUE
Latest(n) == n = ui.attached

\* ---------------------------------------------------------------- the owner
\* The list is read on mounting and again whenever it was invalidated.
Lists ==
  /\ ~ui.fresh
  /\ ui' = [ui EXCEPT !.list = db.rows, !.fresh = TRUE,
                      !.form = IF ui.list = db.rows THEN @
                               ELSE Refill(ui.page, ExistingIn(ui.page, db.rows, ui.target), ui.replaced, @)]
  /\ UNCHANGED <<db, net>>

\* The list is read again once it is older than half a minute.
GrowsStale ==
  /\ ui.fresh /\ ui.list # db.rows
  /\ ui' = [ui EXCEPT !.fresh = FALSE]
  /\ UNCHANGED <<db, net>>

\* The link of the section names no row of a licence, and one or none of a certificate.
OpenPage(id) ==
  /\ ui.page = "documents" /\ ui.fresh
  /\ id = 0 \/ (ui.kind = "certification" /\ Place(ui.list, id) # 0)
  /\ ui' = [ui EXCEPT !.page = ui.kind, !.target = id, !.file = 0, !.result = "none",
                      !.replaced = FALSE, !.cleared = FALSE,
                      !.form = Refill(ui.kind, ExistingIn(ui.kind, ui.list, id), FALSE, Blank)]
  /\ UNCHANGED <<db, net>>

\* A page that was left takes no result of a check, but what it was saving goes on.
Left(ms) == {IF "left" \in DOMAIN m THEN [m EXCEPT !.left = TRUE] ELSE m : m \in {n \in ms : n.kind # "check"}}

ClosePage ==
  /\ ui.page # "documents"
  /\ ui' = [ui EXCEPT !.page = "documents", !.saving = FALSE]
  /\ net' = Left(net)
  /\ UNCHANGED db

\* The file dropped or chosen next.
Chosen == {n \in 1..MaxFiles : n = ui.attached + 1}

Attach ==
  \E n \in Chosen :
    /\ ui.page # "documents"
    /\ ui' = [ui EXCEPT !.file = n, !.attached = n, !.result = "none"]
    /\ net' = IF ui.page = "cnh" THEN net \cup {[kind |-> "check", file |-> n]} ELSE net
    /\ UNCHANGED db

\* What the form takes from a file: its data, and perhaps all of the holder's.
Extracted(file, filled) == [says |-> file, filled |-> filled]

\* Whatever the classifier thinks of it, the form is emptied and refilled.
Checked(m) ==
  /\ m.kind = "check" /\ net' = net \ {m}
  /\ IF Latest(m.file)
     THEN \E valid \in BOOLEAN, filled \in SUBSET {"person"} :
            ui' = [ui EXCEPT !.result = IF valid THEN "valid" ELSE "invalid", !.replaced = TRUE,
                             !.form = Extracted(m.file, filled)]
     ELSE ui' = ui
  /\ UNCHANGED db

CheckFails(m) ==
  /\ m.kind = "check" /\ net' = net \ {m}
  /\ ui' = IF Latest(m.file) THEN [ui EXCEPT !.result = "invalid"] ELSE ui
  /\ UNCHANGED db

FillIn(section) ==
  /\ section \notin ui.form.filled
  /\ ui' = [ui EXCEPT !.form.filled = @ \cup {section}]
  /\ UNCHANGED <<db, net>>

\* What the file did not say; the situation is never read from it.
FillPerson      == ui.page = "cnh" /\ FormShown /\ FillIn("person")
FillLicence     == ui.page = "cnh" /\ FormShown /\ FillIn("licence")
FillCertificate == ui.page = "certification" /\ FillIn("certificate")

RemoveMedia ==
  /\ ui.page = "certification" /\ Existing.photo # 0 /\ ui.file = 0 /\ ~ui.cleared
  /\ ui' = [ui EXCEPT !.cleared = TRUE]
  /\ UNCHANGED <<db, net>>

\* The photograph that goes with the form: the file, else the one already sent.
Photo == IF ui.file # 0 THEN ui.file ELSE IF ui.cleared THEN 0 ELSE Existing.photo

\* What is saved, after the upload when there is a file.
Payload == [kind |-> IF ui.file = 0 THEN "save" ELSE "upload", id |-> Existing.id,
            says |-> ui.form.says, photo |-> Photo, left |-> FALSE]

Saves == {m \in net : m.kind \in {"upload", "save", "saved"}}

\* The file is uploaded first, then the row is saved with the values taken now.
Submit ==
  /\ FormShown /\ Complete /\ ~ui.saving /\ Cardinality(Saves) < MaxSaves
  /\ ui' = [ui EXCEPT !.saving = TRUE]
  /\ net' = net \cup {Payload}
  /\ UNCHANGED db

Uploaded(m) ==
  /\ m.kind = "upload" /\ net' = (net \ {m}) \cup {[m EXCEPT !.kind = "save"]}
  /\ UNCHANGED <<ui, db>>

SaveFails(m) ==
  /\ m.kind \in {"upload", "save", "saved"} /\ net' = net \ {m}
  /\ ui' = [ui EXCEPT !.saving = @ /\ m.left]
  /\ UNCHANGED db

\* The answer of a save that was served sends the owner back to his list,
\* wherever he is by then.
Saved(m) ==
  /\ m.kind = "saved" /\ net' = Left(net \ {m})
  /\ ui' = [ui EXCEPT !.fresh = FALSE, !.saving = FALSE, !.page = "documents"]
  /\ UNCHANGED db

\* The button of the list; the row may be gone already.
Without(rows, i) == IF i = 0 THEN rows ELSE SubSeq(rows, 1, i - 1) \o SubSeq(rows, i + 1, Len(rows))

RemoveDocument(i) ==
  /\ ui.page = "documents" /\ i \in DOMAIN ui.list
  /\ db' = [db EXCEPT !.rows = Without(@, Place(@, ui.list[i].id))]
  /\ ui' = [ui EXCEPT !.fresh = FALSE]
  /\ UNCHANGED net

\* ---------------------------------------------------------------- the reviewer
\* The dialog of a row of the reviewer's list, which may be gone by now.
OpenDetail(id) ==
  /\ ui.open = 0 /\ id <= db.created
  /\ ui' = [ui EXCEPT !.open = id]
  /\ UNCHANGED <<db, net>>

\* Its button waits for the verdict under way, the escape key does not.
CloseDetail ==
  /\ ui.open # 0
  /\ ui' = [ui EXCEPT !.open = 0]
  /\ UNCHANGED <<db, net>>

\* A refusal needs its reason.
RunReview(action, note) ==
  /\ ui.open # 0 /\ ~ui.deciding /\ (action = "rejected" => note)
  /\ ui' = [ui EXCEPT !.deciding = TRUE]
  /\ net' = net \cup {[kind |-> "verdict", id |-> ui.open, status |-> action]}
  /\ UNCHANGED db

\* ---------------------------------------------------------------- the server
RowOf(id) == Place(db.rows, id)

\* Plausible or not, the row is kept; a suspicious licence is refused by the model.
Screened(r, auto) ==
  [r EXCEPT !.status = IF auto THEN "rejected" ELSE "pending", !.auto = auto]

Creates(m, auto) ==
  /\ m.id = 0 /\ db.created < MaxRows
  /\ LET row == [NoRow EXCEPT !.id = db.created + 1, !.says = m.says, !.photo = m.photo]
     IN db' = [db EXCEPT !.rows = <<Screened(row, auto)>> \o @, !.created = @ + 1]

Updates(m, auto) ==
  LET i == RowOf(m.id)
  IN /\ m.id # 0 /\ i # 0
     /\ db' = [db EXCEPT !.rows[i] = Screened(
                 [@ EXCEPT !.says = m.says, !.photo = m.photo, !.edited = TRUE], auto)]

\* Served, and its answer may still be lost.
ServeSave(m) ==
  /\ m.kind = "save" /\ \E auto \in {FALSE, ui.kind = "cnh"} : Creates(m, auto) \/ Updates(m, auto)
  /\ net' = (net \ {m}) \cup {[kind |-> "saved", left |-> m.left]}
  /\ UNCHANGED ui

\* (mutant) the row stays marked as refused by the model
StillAutomatic(m) ==
  /\ m.kind = "verdict" /\ net' = (net \ {m}) \cup {[kind |-> "judged"]}
  /\ db' = IF RowOf(m.id) = 0 THEN db ELSE [db EXCEPT !.rows[RowOf(m.id)].status = m.status]
  /\ UNCHANGED ui

\* The decision of a person replaces the model's; nothing says which version he read.
ServeVerdict(m) ==
  /\ m.kind = "verdict" /\ net' = (net \ {m}) \cup {[kind |-> "judged"]}
  /\ LET i == RowOf(m.id)
     IN db' = IF i = 0 THEN db
              ELSE [db EXCEPT !.rows[i] = [@ EXCEPT !.status = m.status, !.auto = FALSE]]
  /\ UNCHANGED ui

\* Closes whatever document is open by then.
Judged(m) ==
  /\ m.kind = "judged" /\ net' = net \ {m}
  /\ ui' = [ui EXCEPT !.deciding = FALSE, !.open = 0]
  /\ UNCHANGED db

VerdictFails(m) ==
  /\ m.kind \in {"verdict", "judged"} /\ net' = net \ {m}
  /\ ui' = [ui EXCEPT !.deciding = FALSE]
  /\ UNCHANGED db

Next ==
  \/ \E m \in net :
       \/ Checked(m) \/ CheckFails(m) \/ Uploaded(m) \/ SaveFails(m) \/ Saved(m)
       \/ ServeSave(m) \/ ServeVerdict(m) \/ Judged(m) \/ VerdictFails(m)
  \/ Lists \/ GrowsStale \/ ClosePage \/ Attach \/ RemoveMedia \/ Submit
  \/ FillPerson \/ FillLicence \/ FillCertificate
  \/ \E id \in 0..MaxRows : OpenPage(id)
  \/ \E i \in Ids : RemoveDocument(i) \/ OpenDetail(i)
  \/ CloseDetail
  \/ \E action \in {"approved", "rejected"}, note \in BOOLEAN : RunReview(action, note)

Spec == Init /\ [][Next]_vars
-----------------------------------------------------------------------------
TypeOK ==
  /\ ui.page \in Pages /\ ui.file \in 0..MaxFiles /\ ui.attached \in ui.file..MaxFiles
  /\ ui.form.says \in 0..MaxFiles /\ ui.form.filled \subseteq Sections
  /\ \A i \in DOMAIN db.rows :
       /\ db.rows[i].status \in Statuses
       /\ db.rows[i].auto => db.rows[i].status = "rejected"

\* A licence that was created and not edited since carries the photograph its
\* data were read from: no result of an earlier file, no registration saved
\* before and no retry of a save can mix two documents in one.
PhotoBacksFields ==
  \A i \in DOMAIN db.rows :
    LET r == db.rows[i]
    IN ui.kind = "cnh" /\ ~r.edited /\ r.says # 0 => r.photo = r.says
=============================================================================
