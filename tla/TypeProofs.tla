----------------------------- MODULE TypeProofs -----------------------------
(***************************************************************************)
(* Type correctness of every screen, for any bounds.                       *)
(*                                                                         *)
(* A type is kept because what a request or an answer carries has it too,  *)
(* long after it was sent; and a counter stays under its bound because of  *)
(* who may still move it.  Both are stated beside the type of each screen. *)
(* What the other proofs found of the shape of the pages is used here.     *)
(***************************************************************************)
EXTENDS ChatProofs, DealProofs, DeskProofs

-----------------------------------------------------------------------------
(***************************************************************************)
(* The rentals of a dashboard.                                             *)
(***************************************************************************)
Reading(s) == Rents(s)!Hours \cup {-1}

CardsTyped(s) ==
  /\ ui.shown \subseteq Rentals[s] /\ ui.given \subseteq Rentals[s]
  /\ {ui.open, ui.text} \subseteq Rentals[s] \cup {0}

RowsTyped(s) ==
  \A r \in Rentals[s] :
    /\ {db[r].in, db[r].out} \subseteq Reading(s)
    /\ db[r].status \in {"signed", "completed", "cancelled"}

ReadingsTyped(s) == \A m \in net : m.kind \in RentalForms => m.value \in Reading(s)

RentalTypes(s) == CardsTyped(s) /\ RowsTyped(s) /\ ReadingsTyped(s)

\* They are the types of the module.
LEMMA RentalTyped ==
  ASSUME NEW s \in RentalScreens, RentalTypes(s)
  PROVE  Rents(s)!TypeOK
BY DEF RentalTypes, CardsTyped, RowsTyped, Reading, Rents!TypeOK, Rents!None

\* They hold at first.
LEMMA RentalTypesStart ==
  ASSUME NEW s \in RentalScreens, Rents(s)!Init
  PROVE  RentalTypes(s)
<1>1. CardsTyped(s)
  BY DEF Rents!Init, CardsTyped
<1>2. RowsTyped(s)
  BY DEF Rents!Init, RowsTyped, Reading, Rents!None
<1>3. ReadingsTyped(s)
  BY DEF Rents!Init, ReadingsTyped
<1> QED BY <1>1, <1>2, <1>3 DEF RentalTypes

\* The page keeps its types.
LEMMA CardsTypedStep ==
  ASSUME NEW s \in RentalScreens, RentalInv(s), CardsTyped(s), Rents(s)!Next
  PROVE  CardsTyped(s)'
<1> USE DEF RentalInv, RentalPage, CardsTyped
<1>1. ASSUME NEW cards \in SUBSET Rentals[s], Rents(s)!Show(cards)
      PROVE  CardsTyped(s)'
  BY <1>1 DEF Rents!Show
<1>2. ASSUME NEW r \in Rentals[s], Rents(s)!ToggleReview(r) \/ Rents(s)!Comment(r)
      PROVE  CardsTyped(s)'
  <2>1. /\ ui'.shown = ui.shown /\ ui'.given = ui.given
        /\ ui'.open \in {0, r, ui.open} /\ ui'.text \in {0, r}
    BY <1>2 DEF Rents!ToggleReview, Rents!Toggled, Rents!Comment
  <2> QED BY <2>1
<1>3. CASE Rents(s)!GivenArrives
  BY <1>3 DEF Rents!GivenArrives
<1>4. ASSUME NEW m \in net, Rents(s)!ReviewArrives(m)
      PROVE  CardsTyped(s)'
  BY <1>4 DEF Rents!ReviewArrives
<1>5. ASSUME NEW r \in Rentals[s],
             \/ Rents(s)!SubmitReview(r) \/ Rents(s)!CloseForm(r) \/ Rents(s)!AskCancel(r)
             \/ Rents(s)!KeepRental(r) \/ Rents(s)!Cancel(r) \/ Rents(s)!TimePasses(r) \/ Rents(s)!Elsewhere(r)
             \/ \E form : Rents(s)!OpenForm(r, form)
             \/ \E value : Rents(s)!SubmitForm(r, value)
      PROVE  CardsTyped(s)'
  BY <1>5, ZenonT(40) DEF Rents!SubmitReview, Rents!CloseForm, Rents!AskCancel, Rents!KeepRental, Rents!Cancel,
              Rents!TimePasses, Rents!Elsewhere, Rents!OpenForm, Rents!SubmitForm
<1>6. ASSUME NEW m \in net,
             \/ Rents(s)!FormArrives(m) \/ Rents(s)!QuoteArrives(m) \/ Rents(s)!CancelArrives(m)
             \/ Rents(s)!RequestFails(m)
      PROVE  CardsTyped(s)'
  BY <1>6, ZenonT(40) DEF Rents!FormArrives, Rents!QuoteArrives, Rents!CancelArrives, Rents!RequestFails
<1>7. ASSUME NEW m \in net,
             \/ Rents(s)!ServeReview(m) \/ Rents(s)!ServeReading(m) \/ Rents(s)!ServeComplete(m)
             \/ Rents(s)!ServeQuote(m) \/ Rents(s)!ServeCancel(m)
      PROVE  CardsTyped(s)'
  BY <1>7 DEF Rents!ServeReview, Rents!ServeReading, Rents!ServeComplete, Rents!ServeQuote, Rents!ServeCancel,
              Rents!Served
<1> QED BY <1>1, <1>2, <1>3, <1>4, <1>5, <1>6, <1>7 DEF Rents!Next

\* The rows take readings of their type.
LEMMA RowsTypedStep ==
  ASSUME NEW s \in RentalScreens, RentalInv(s), RowsTyped(s), ReadingsTyped(s), Rents(s)!Next
  PROVE  RowsTyped(s)'
<1> USE DEF RentalInv, RentalRows, RowsTyped
<1>1. ASSUME NEW r \in Rentals[s], NEW kind, NEW value \in Reading(s), Rents(s)!Records(r, kind, value)
      PROVE  RowsTyped(s)'
  BY <1>1 DEF Rents!Records
<1>2. ASSUME NEW r \in Rentals[s], NEW value \in Reading(s), Rents(s)!Completes(r, value)
      PROVE  RowsTyped(s)'
  BY <1>2 DEF Rents!Completes
<1>3. ASSUME NEW r \in Rentals[s], Rents(s)!Cancels(r)
      PROVE  RowsTyped(s)'
  BY <1>3 DEF Rents!Cancels
<1>4. ASSUME NEW m \in net,
             \/ Rents(s)!ServeReading(m) \/ Rents(s)!ServeComplete(m) \/ Rents(s)!ServeCancel(m)
      PROVE  RowsTyped(s)'
  BY <1>1, <1>2, <1>3, <1>4
     DEF Rents!ServeReading, Rents!ServeComplete, Rents!ServeCancel, ReadingsTyped, RentalForms, RentalAsks
<1>5. ASSUME NEW m \in net, Rents(s)!ServeReview(m)
      PROVE  RowsTyped(s)'
  BY <1>5 DEF Rents!ServeReview
<1>6. ASSUME NEW r \in Rentals[s], Rents(s)!TimePasses(r) \/ Rents(s)!Elsewhere(r)
      PROVE  RowsTyped(s)'
  BY <1>1, <1>2, <1>3, <1>6 DEF Rents!TimePasses, Rents!Elsewhere, Reading, Rents!None
<1>7. ASSUME UNCHANGED db
      PROVE  RowsTyped(s)'
  BY <1>7 DEF Reading
<1>8. ASSUME NEW r \in Rentals[s],
             \/ Rents(s)!ToggleReview(r) \/ Rents(s)!Comment(r) \/ Rents(s)!SubmitReview(r)
             \/ Rents(s)!CloseForm(r) \/ Rents(s)!AskCancel(r) \/ Rents(s)!KeepRental(r) \/ Rents(s)!Cancel(r)
             \/ \E form : Rents(s)!OpenForm(r, form)
             \/ \E value : Rents(s)!SubmitForm(r, value)
      PROVE  UNCHANGED db
  BY <1>8 DEF Rents!ToggleReview, Rents!Comment, Rents!SubmitReview, Rents!CloseForm, Rents!AskCancel,
              Rents!KeepRental, Rents!Cancel, Rents!OpenForm, Rents!SubmitForm
<1>9. ASSUME NEW m \in net,
             \/ Rents(s)!ReviewArrives(m) \/ Rents(s)!FormArrives(m) \/ Rents(s)!QuoteArrives(m)
             \/ Rents(s)!CancelArrives(m) \/ Rents(s)!RequestFails(m) \/ Rents(s)!ServeQuote(m)
      PROVE  UNCHANGED db
  BY <1>9 DEF Rents!ReviewArrives, Rents!FormArrives, Rents!QuoteArrives, Rents!CancelArrives,
              Rents!RequestFails, Rents!ServeQuote
<1>10. ASSUME Rents(s)!GivenArrives \/ \E cards : Rents(s)!Show(cards)
       PROVE  UNCHANGED db
  BY <1>10 DEF Rents!GivenArrives, Rents!Show
<1> QED BY <1>4, <1>5, <1>6, <1>7, <1>8, <1>9, <1>10 DEF Rents!Next

\* A request carries a reading of its type.
LEMMA ReadingsTypedStep ==
  ASSUME NEW s \in RentalScreens, RentalInv(s), ReadingsTyped(s), Rents(s)!Next
  PROVE  ReadingsTyped(s)'
<1> USE DEF ReadingsTyped
<1>1. ASSUME NEW kind, NEW r, NEW value, kind \in RentalForms => value \in Reading(s),
             net' = net \cup {Rents(s)!Ask(kind, r, value)}
      PROVE  ReadingsTyped(s)'
  BY <1>1 DEF Rents!Ask, Reading
<1>2. ASSUME net' \subseteq net
      PROVE  ReadingsTyped(s)'
  BY <1>2 DEF Reading
<1>3. ASSUME NEW m \in net, NEW answer \in {"reviewed", "saved", "quoted", "cancelled"},
             NEW n, n.kind = answer, net' = (net \ {m}) \cup {n}
      PROVE  ReadingsTyped(s)'
  BY <1>3 DEF Reading, RentalForms
<1>4. ASSUME NEW cards, Rents(s)!Show(cards)
      PROVE  ReadingsTyped(s)'
  <2>1. ASSUME NEW n \in net'
        PROVE  \E m \in net : n.kind = m.kind /\ n.value = m.value
    BY <1>4, <2>1 DEF Rents!Show, RentalInv, RentalAsks
  <2> QED BY <2>1 DEF Reading
<1>5. ASSUME NEW r \in Rentals[s],
             \/ Rents(s)!ToggleReview(r) \/ Rents(s)!Comment(r) \/ Rents(s)!CloseForm(r)
             \/ Rents(s)!KeepRental(r) \/ Rents(s)!TimePasses(r) \/ Rents(s)!Elsewhere(r)
             \/ \E form : Rents(s)!OpenForm(r, form)
      PROVE  net' \subseteq net
  BY <1>5 DEF Rents!ToggleReview, Rents!Comment, Rents!CloseForm, Rents!KeepRental, Rents!TimePasses,
              Rents!Elsewhere, Rents!OpenForm
<1>6. ASSUME NEW r \in Rentals[s], Rents(s)!SubmitReview(r) \/ Rents(s)!AskCancel(r) \/ Rents(s)!Cancel(r)
      PROVE  ReadingsTyped(s)'
  BY <1>1, <1>6 DEF Rents!SubmitReview, Rents!AskCancel, Rents!Cancel, Rents!Send, RentalForms
<1>7. ASSUME NEW r \in Rentals[s], NEW value \in Reading(s), Rents(s)!SubmitForm(r, value)
      PROVE  ReadingsTyped(s)'
  BY <1>1, <1>7 DEF Rents!SubmitForm, Rents!Send
<1>8. ASSUME NEW m \in net,
             \/ Rents(s)!ReviewArrives(m) \/ Rents(s)!FormArrives(m) \/ Rents(s)!QuoteArrives(m)
             \/ Rents(s)!CancelArrives(m) \/ Rents(s)!RequestFails(m)
      PROVE  net' \subseteq net
  BY <1>8 DEF Rents!ReviewArrives, Rents!FormArrives, Rents!QuoteArrives, Rents!CancelArrives,
              Rents!RequestFails
<1>9. ASSUME NEW m \in net,
             \/ Rents(s)!ServeReview(m) \/ Rents(s)!ServeReading(m) \/ Rents(s)!ServeComplete(m)
             \/ Rents(s)!ServeQuote(m) \/ Rents(s)!ServeCancel(m)
      PROVE  ReadingsTyped(s)'
  <2>1. ASSUME NEW answer \in {"reviewed", "saved", "cancelled"}, Rents(s)!Served(m, answer)
        PROVE  ReadingsTyped(s)'
    BY <1>3, <2>1 DEF Rents!Served, RentalInv, RentalAsks
  <2>2. CASE Rents(s)!ServeQuote(m)
    BY <1>3, <2>2 DEF Rents!ServeQuote, RentalInv, RentalAsks
  <2> QED BY <1>9, <2>1, <2>2 DEF Rents!ServeReview, Rents!ServeReading, Rents!ServeComplete, Rents!ServeCancel
<1>10. CASE Rents(s)!GivenArrives
  BY <1>2, <1>10 DEF Rents!GivenArrives
<1> QED BY <1>2, <1>4, <1>5, <1>6, <1>7, <1>8, <1>9, <1>10 DEF Rents!Next, Reading, Rents!None

\* Every step keeps them.
LEMMA RentalTypesStep ==
  ASSUME NEW s \in RentalScreens, RentalInv(s), RentalTypes(s), Rents(s)!Next \/ UNCHANGED <<ui, db, net>>
  PROVE  RentalTypes(s)'
<1>1. CASE Rents(s)!Next
  BY <1>1, CardsTypedStep, RowsTypedStep, ReadingsTypedStep DEF RentalTypes
<1>2. CASE UNCHANGED <<ui, db, net>>
  BY <1>2 DEF RentalTypes, CardsTyped, RowsTyped, ReadingsTyped, Reading
<1> QED BY <1>1, <1>2

-----------------------------------------------------------------------------
(***************************************************************************)
(* The moderator's pages.                                                  *)
(***************************************************************************)
DeskPages == {"postings", "users"}

DialogTyped ==
  /\ ui.page \in DeskPages /\ ui.target \in Desk!Targets(ui.page) \cup {0}
  /\ ui.action \in Desk!Actions(ui.page) \cup {"none"}
  /\ ui.page = "users" => ui.reason = 0

ListsTyped(list) == DOMAIN list = DeskPages /\ \A p \in DeskPages : DOMAIN list[p] \in {{}, Desk!Targets(p)}

DeskMessage(m) ==
  /\ "page" \in DOMAIN m /\ m.page \in DeskPages
  /\ m.kind \in {"list", "listed", "moderate", "moderated"}
  /\ m.kind = "listed" => "rows" \in DOMAIN m /\ DOMAIN m.rows = Desk!Targets(m.page)

DeskTypes == DialogTyped /\ ListsTyped(ui.list) /\ \A m \in net : DeskMessage(m)

\* They are the types of the module.
LEMMA DeskTyped ==
  ASSUME ModerationInv, DeskTypes
  PROVE  Desk!TypeOK
<1>1. ui.reason \in Postings \cup {0}
  BY DEF ModerationInv, DialogShape, DeskTypes, DialogTyped, DeskPages, Desk!Targets
<1> QED BY <1>1 DEF DeskTypes, DialogTyped, ListsTyped, DeskMessage, Desk!TypeOK

\* They hold at first.
LEMMA DeskTypesStart ==
  ASSUME Desk!Init
  PROVE  DeskTypes
<1>1. DialogTyped
  BY DEF Desk!Init, DialogTyped, DeskPages
<1>2. ListsTyped(ui.list)
  BY DEF Desk!Init, ListsTyped, DeskPages
<1>3. \A m \in net : DeskMessage(m)
  BY DEF Desk!Init, DeskMessage, DeskPages
<1> QED BY <1>1, <1>2, <1>3 DEF DeskTypes

\* A message that is sent again keeps its type.
LEMMA DeskRereadStep ==
  ASSUME NEW ms, \A m \in ms : DeskMessage(m), NEW page \in DeskPages, NEW mine
  PROVE  \A m \in Desk!Reread(ms, page, mine) : DeskMessage(m)
BY DEF Desk!Reread, DeskMessage

\* Every message in flight keeps its type.
LEMMA DeskMessages ==
  ASSUME ModerationInv, DeskTypes, Desk!Next
  PROVE  \A m \in net' : DeskMessage(m)
<1> USE DEF DeskTypes
<1>1. CASE Desk!Refresh
  BY <1>1, DeskRereadStep DEF Desk!Refresh, DialogTyped
<1>2. ASSUME NEW page \in DeskPages, Desk!Visit(page)
      PROVE  \A m \in net' : DeskMessage(m)
  <2>1. ASSUME NEW m \in net
        PROVE  DeskMessage([m EXCEPT !.mine = FALSE])
    BY <2>1 DEF DeskMessage
  <2>2. \A m \in {[n EXCEPT !.mine = FALSE] : n \in net} : DeskMessage(m)
    BY <2>1
  <2>3. \A m \in Desk!Reread({[n EXCEPT !.mine = FALSE] : n \in net}, page, FALSE) : DeskMessage(m)
    BY <2>2, DeskRereadStep
  <2> QED BY <1>2, <2>2, <2>3 DEF Desk!Visit
<1>3. CASE Desk!RunAction
  BY <1>3 DEF Desk!RunAction, DeskMessage, DialogTyped
<1>4. ASSUME NEW m \in net, Desk!ModeratedArrives(m)
      PROVE  \A n \in net' : DeskMessage(n)
  BY <1>4, DeskRereadStep DEF Desk!ModeratedArrives, DeskMessage
<1>5. ASSUME NEW m \in net, Desk!ListArrives(m) \/ Desk!ListFails(m) \/ Desk!RequestFails(m)
      PROVE  \A n \in net' : DeskMessage(n)
  BY <1>5 DEF Desk!ListArrives, Desk!ListFails, Desk!RequestFails
<1>6. ASSUME NEW m \in net, Desk!ServeList(m)
      PROVE  \A n \in net' : DeskMessage(n)
  BY <1>6 DEF Desk!ServeList, DeskMessage
<1>7. ASSUME NEW m \in net, Desk!ServeAction(m)
      PROVE  \A n \in net' : DeskMessage(n)
  BY <1>7 DEF Desk!ServeAction, DeskMessage, ModerationInv, ReasonsSent
<1>8. CASE Desk!CloseConfirm \/ Desk!Write \/ \E t, a : Desk!OpenConfirm(t, a)
  BY <1>8 DEF Desk!CloseConfirm, Desk!Write, Desk!OpenConfirm
<1> QED BY <1>1, <1>2, <1>3, <1>4, <1>5, <1>6, <1>7, <1>8 DEF Desk!Next, DeskPages

\* The lists of the page keep their type.
LEMMA DeskLists ==
  ASSUME ModerationInv, DeskTypes, Desk!Next
  PROVE  ListsTyped(ui'.list)
<1> USE DEF DeskTypes, ModerationInv, DialogShape
<1>1. ASSUME NEW m \in net, Desk!ListArrives(m)
      PROVE  ListsTyped(ui'.list)
  <2>1. ui'.list = [ui.list EXCEPT ![m.page] = m.rows]
    BY <1>1 DEF Desk!ListArrives, Desk!Settled, Desk!Closed, Desk!Confirm
  <2> QED BY <1>1, <2>1 DEF ListsTyped, DeskMessage, Desk!ListArrives
<1>2. ASSUME NEW m \in net,
             \/ Desk!ListFails(m) \/ Desk!RequestFails(m) \/ Desk!ModeratedArrives(m)
             \/ Desk!ServeList(m) \/ Desk!ServeAction(m)
      PROVE  ui'.list = ui.list
  BY <1>2 DEF Desk!ListFails, Desk!RequestFails, Desk!ModeratedArrives, Desk!ServeList, Desk!ServeAction,
              Desk!Settled, Desk!Closed, Desk!Confirm
<1>3. CASE \/ Desk!Refresh \/ Desk!CloseConfirm \/ Desk!Write \/ Desk!RunAction
           \/ \E page : Desk!Visit(page)
           \/ \E t, a : Desk!OpenConfirm(t, a)
  <2>1. ui'.list = ui.list
    BY <1>3 DEF Desk!Refresh, Desk!CloseConfirm, Desk!Write, Desk!RunAction, Desk!Visit, Desk!OpenConfirm,
                Desk!Closed, Desk!Confirm
  <2> QED BY <2>1
<1> QED BY <1>1, <1>2, <1>3 DEF Desk!Next

\* The dialog keeps its types.
LEMMA DialogTypedStep ==
  ASSUME ModerationInv, DeskTypes, Desk!Next
  PROVE  DialogTyped'
<1> USE DEF DeskTypes, ModerationInv, DialogShape, DialogTyped
<1>1. ASSUME ui'.page \in DeskPages, ui'.target = 0, ui'.action = "none", ui'.reason = 0
      PROVE  DialogTyped'
  BY <1>1
<1>2. CASE \E page \in DeskPages : Desk!Visit(page)
  BY <1>1, <1>2 DEF Desk!Visit, Desk!Closed, Desk!Confirm
<1>3. CASE Desk!CloseConfirm
  BY <1>1, <1>3 DEF Desk!CloseConfirm, Desk!Closed, Desk!Confirm
<1>4. ASSUME NEW t \in Desk!Targets(ui.page), NEW a \in Desk!Actions(ui.page), Desk!OpenConfirm(t, a)
      PROVE  DialogTyped'
  BY <1>4 DEF Desk!OpenConfirm, Desk!Confirm
<1>5. CASE Desk!Write
  BY <1>5 DEF Desk!Write, DeskPages, Desk!Actions
<1>6. ASSUME ui'.page = ui.page, ui'.target = ui.target, ui'.action = ui.action, ui'.reason = ui.reason
      PROVE  DialogTyped'
  BY <1>6
<1>7. CASE Desk!Refresh \/ Desk!RunAction
  BY <1>6, <1>7 DEF Desk!Refresh, Desk!RunAction
<1>8. ASSUME NEW m \in net, Desk!ListArrives(m) \/ Desk!ListFails(m)
      PROVE  DialogTyped'
  BY <1>1, <1>6, <1>8 DEF Desk!ListArrives, Desk!ListFails, Desk!Settled, Desk!Closed, Desk!Confirm
<1>9. ASSUME NEW m \in net,
             \/ Desk!RequestFails(m) \/ Desk!ModeratedArrives(m) \/ Desk!ServeList(m) \/ Desk!ServeAction(m)
      PROVE  DialogTyped'
  BY <1>6, <1>9 DEF Desk!RequestFails, Desk!ModeratedArrives, Desk!ServeList, Desk!ServeAction
<1> QED BY <1>2, <1>3, <1>4, <1>5, <1>7, <1>8, <1>9 DEF Desk!Next, DeskPages

\* Every step keeps them.
LEMMA DeskTypesStep ==
  ASSUME ModerationInv, DeskTypes, Desk!Next \/ UNCHANGED <<ui, db, net>>
  PROVE  DeskTypes'
<1>1. CASE Desk!Next
  BY <1>1, DeskMessages, DeskLists, DialogTypedStep DEF DeskTypes
<1>2. CASE UNCHANGED <<ui, db, net>>
  BY <1>2 DEF DeskTypes, DialogTyped
<1> QED BY <1>1, <1>2

-----------------------------------------------------------------------------
(***************************************************************************)
(* The fleet.  The window and the rows are those of its invariant.         *)
(***************************************************************************)
FleetPage ==
  /\ ui.view \in {"fleet", "new"} /\ ui.opens \in 0..MaxOpens["fleet"] /\ ui.selected \in 0..MaxMachines

FleetTypes == FleetPage /\ Len(db.rows) <= MaxMachines

\* They are the types of the module.
LEMMA FleetTyped ==
  ASSUME FleetInv, FleetTypes
  PROVE  Fleet!TypeOK
<1>1. ui.form.registry \in Registries \cup {0}
  BY FleetBounds DEF FleetInv, FleetShape, MachineRow
<1>2. ui.loadedFor \in {0, ui.selected}
  BY DEF FleetInv, FleetWindow
<1> QED BY <1>1, <1>2 DEF FleetTypes, FleetPage, Fleet!TypeOK

\* They hold at first.
LEMMA FleetTypesStart ==
  ASSUME Fleet!Init
  PROVE  FleetTypes
<1>1. FleetPage
  BY FleetBounds DEF Fleet!Init, FleetPage
<1>2. Len(db.rows) = 2
  BY DEF Fleet!Init
<1> QED BY <1>1, <1>2, FleetBounds DEF FleetTypes

\* The page keeps its types.
LEMMA FleetPageTyped ==
  ASSUME FleetInv, FleetPage, Fleet!Next
  PROVE  FleetPage'
<1> USE DEF FleetInv, FleetShape, FleetPage
<1>1. ASSUME ui'.view = ui.view, ui'.opens = ui.opens, ui'.selected = ui.selected
      PROVE  FleetPage'
  BY <1>1
<1>2. ASSUME NEW view \in {"fleet", "new"}, Fleet!Visit(view)
      PROVE  FleetPage'
  <2>1. ui'.view = view /\ ui'.opens = ui.opens + 1 /\ ui'.selected = 0
    BY <1>2 DEF Fleet!Visit, Fleet!Mounted
  <2> QED BY <1>2, <2>1, FleetBounds DEF Fleet!Visit
<1>3. ASSUME NEW m \in 1..MaxMachines, Fleet!OpenModal(m)
      PROVE  FleetPage'
  <2>1. ui'.view = ui.view /\ ui'.opens = ui.opens + 1 /\ ui'.selected = m
    BY <1>3 DEF Fleet!OpenModal, Fleet!Synced
  <2> QED BY <1>3, <2>1, FleetBounds DEF Fleet!OpenModal
<1>4. ASSUME \/ Fleet!CloseModal \/ Fleet!Type \/ \E r \in Registries : Fleet!TypeRegistry(r)
             \/ \E kind \in {"save", "create"} : Fleet!Submit(kind)
      PROVE  FleetPage'
  BY <1>1, <1>4 DEF Fleet!CloseModal, Fleet!Synced, Fleet!Type, Fleet!TypeRegistry, Fleet!Submit
<1>5. ASSUME NEW m \in net, Fleet!ListArrives(m) \/ Fleet!ListFails(m)
      PROVE  FleetPage'
  BY <1>1, <1>5 DEF Fleet!ListArrives, Fleet!ListFails, Fleet!Settled, Fleet!Synced
<1>6. ASSUME NEW m \in net, Fleet!SavedArrives(m) \/ Fleet!CreatedArrives(m) \/ Fleet!RequestFails(m)
      PROVE  FleetPage'
  BY <1>1, <1>6 DEF Fleet!SavedArrives, Fleet!CreatedArrives, Fleet!RequestFails
<1>7. ASSUME NEW m \in net, Fleet!ServeList(m) \/ Fleet!ServeSave(m) \/ Fleet!ServeCreate(m)
      PROVE  FleetPage'
  BY <1>1, <1>7 DEF Fleet!ServeList, Fleet!ServeSave, Fleet!ServeCreate, Fleet!Answered
<1> QED BY <1>2, <1>3, <1>4, <1>5, <1>6, <1>7 DEF Fleet!Next

\* The machines stay as many as there is room for.
LEMMA FleetRowsTyped ==
  ASSUME FleetInv, Len(db.rows) <= MaxMachines, Fleet!Next
  PROVE  Len(db'.rows) <= MaxMachines
<1>1. ASSUME NEW m \in net, Fleet!ServeSave(m)
      PROVE  Len(db'.rows) = Len(db.rows)
  BY <1>1 DEF Fleet!ServeSave, Fleet!Holding, FleetInv, OwnRows
<1>2. ASSUME NEW m \in net, Fleet!ServeCreate(m)
      PROVE  Len(db'.rows) <= MaxMachines
  <2>1. Len(db'.rows) = Len(db.rows) + 1
    BY <1>2 DEF Fleet!ServeCreate, Fleet!Holding, FleetInv, OwnRows
  <2> QED BY <1>2, <2>1, FleetBounds DEF Fleet!ServeCreate, FleetInv, OwnRows
<1>3. ASSUME \/ Fleet!CloseModal \/ Fleet!Type \/ \E r \in Registries : Fleet!TypeRegistry(r)
             \/ \E kind \in {"save", "create"} : Fleet!Submit(kind)
             \/ \E view \in {"fleet", "new"} : Fleet!Visit(view)
             \/ \E m \in 1..MaxMachines : Fleet!OpenModal(m)
      PROVE  UNCHANGED db
  BY <1>3 DEF Fleet!CloseModal, Fleet!Type, Fleet!TypeRegistry, Fleet!Submit, Fleet!Visit, Fleet!OpenModal
<1>4. ASSUME NEW m \in net,
             \/ Fleet!SavedArrives(m) \/ Fleet!CreatedArrives(m) \/ Fleet!ListArrives(m) \/ Fleet!ListFails(m)
             \/ Fleet!RequestFails(m) \/ Fleet!ServeList(m)
      PROVE  UNCHANGED db
  BY <1>4 DEF Fleet!SavedArrives, Fleet!CreatedArrives, Fleet!ListArrives, Fleet!ListFails, Fleet!RequestFails,
              Fleet!ServeList
<1> QED BY <1>1, <1>2, <1>3, <1>4 DEF Fleet!Next

\* Every step keeps them.
LEMMA FleetTypesStep ==
  ASSUME FleetInv, FleetTypes, Fleet!Next \/ UNCHANGED <<ui, db, net>>
  PROVE  FleetTypes'
<1>1. CASE Fleet!Next
  BY <1>1, FleetPageTyped, FleetRowsTyped DEF FleetTypes
<1>2. CASE UNCHANGED <<ui, db, net>>
  BY <1>2 DEF FleetTypes, FleetPage
<1> QED BY <1>1, <1>2

-----------------------------------------------------------------------------
(***************************************************************************)
(* The forms with an address.  One change of a person is under way at a    *)
(* time, and it left room for the number its answer takes.                 *)
(***************************************************************************)
Change(m) == m.kind \in {"save", "saved", "unlink", "unlinked"}
Saving(m) == m.kind \in {"save", "saved"}

PersonRow(s, o) == o.who \in People[s] /\ o.cep \in Ceps[s] \cup {0}

AccountPage(s) ==
  /\ DOMAIN ui = {"open", "form", "who", "cep", "address", "request", "hand", "pending", "loading", "listed"}
  /\ ui.form \in 0..MaxForms[s] /\ ui.who \in People[s] \cup {0} /\ ui.cep \in Ceps[s] \cup {0}
  /\ ui.request \in 0..MaxRequests[s] + 1 /\ \A o \in ui.listed : PersonRow(s, o)

AccountRows(s) ==
  /\ DOMAIN db = People[s]
  /\ \A p \in People[s] : DOMAIN db[p] = {"here", "cep", "address"} /\ db[p].cep \in Ceps[s] \cup {0}

AccountMessage(s, m) ==
  /\ "kind" \in DOMAIN m
  /\ m.kind = "listed" => \A o \in m.people : PersonRow(s, o)
  /\ m.kind = "save" => m.who \in People[s] \cup {0} /\ m.cep \in Ceps[s] \cup {0}
  /\ m.kind = "saved" => PersonRow(s, m.row)
  /\ m.kind \in {"unlink", "unlinked"} => m.who \in People[s]

OneChange ==
  \A m \in net : Change(m) => ui.pending /\ \A n \in net : Change(n) => n = m

RoomForAnswer(s) == (\E m \in net : Saving(m)) => ui.request <= MaxRequests[s]

AccountTypes(s) ==
  /\ AccountPage(s) /\ AccountRows(s) /\ \A m \in net : AccountMessage(s, m)
  /\ OneChange /\ RoomForAnswer(s)

\* They are the types of the module.
LEMMA AccountTyped ==
  ASSUME NEW s \in FormScreens, AccountTypes(s)
  PROVE  Forms(s)!TypeOK
BY DEF AccountTypes, AccountPage, PersonRow, Forms!TypeOK

\* They hold at first.
LEMMA AccountTypesStart ==
  ASSUME NEW s \in FormScreens, Forms(s)!Init
  PROVE  AccountTypes(s)
<1> USE DEF Forms!Init, Change, Saving
<1>1. AccountPage(s)
  BY FormBounds DEF AccountPage, FormScreens
<1>2. AccountRows(s)
  BY DEF AccountRows
<1>3. \A m \in net : AccountMessage(s, m)
  BY DEF AccountMessage
<1>4. OneChange /\ RoomForAnswer(s)
  BY DEF OneChange, RoomForAnswer
<1> QED BY <1>1, <1>2, <1>3, <1>4 DEF AccountTypes

\* A number taken where there is room is one of the numbers there are.
LEMMA NumberInRoom ==
  ASSUME NEW s \in FormScreens, AccountPage(s), Forms(s)!Room
  PROVE  \E n \in 0..MaxRequests[s] : Forms(s)!Bumped(ui) = [ui EXCEPT !.request = n]
<1>1. MaxRequests[s] \in Nat
  BY FormBounds DEF FormScreens
<1>2. ui.request \in 0..MaxRequests[s] /\ ui.request + 1 \in 0..MaxRequests[s]
  BY <1>1 DEF AccountPage, Forms!Room
<1>3. \/ Forms(s)!Bumped(ui) = [ui EXCEPT !.request = ui.request]
      \/ Forms(s)!Bumped(ui) = [ui EXCEPT !.request = ui.request + 1]
  BY DEF Forms!Bumped, AccountPage
<1> QED BY <1>2, <1>3

\* The number a save's answer takes is one more.
LEMMA NumberOfAnswer ==
  ASSUME NEW s \in FormScreens, AccountTypes(s), NEW m \in net, Saving(m)
  PROVE  \E n \in 0..MaxRequests[s] + 1 : Forms(s)!Bumped(ui) = [ui EXCEPT !.request = n]
<1>1. MaxRequests[s] \in Nat
  BY FormBounds DEF FormScreens
<1>2. ui.request \in 0..MaxRequests[s] + 1 /\ ui.request + 1 \in 0..MaxRequests[s] + 1
  BY <1>1 DEF AccountTypes, AccountPage, RoomForAnswer
<1>3. \/ Forms(s)!Bumped(ui) = [ui EXCEPT !.request = ui.request]
      \/ Forms(s)!Bumped(ui) = [ui EXCEPT !.request = ui.request + 1]
  BY DEF Forms!Bumped, AccountTypes, AccountPage
<1> QED BY <1>2, <1>3

\* Whoever types, opens or closes keeps the types of the page, and takes a
\* number there is room for.
LEMMA AccountTyping ==
  ASSUME NEW s \in FormScreens, AccountTypes(s),
         \/ Forms(s)!SyncUser \/ Forms(s)!OpenCreate \/ Forms(s)!TypeAddress \/ Forms(s)!CloseForm
         \/ Forms(s)!Submit
         \/ \E o \in ui.listed : Forms(s)!OpenEdit(o)
         \/ \E c \in Ceps[s] \cup {0} : Forms(s)!TypeCep(c)
  PROVE  AccountPage(s)' /\ (ui'.request <= MaxRequests[s] \/ ui'.request = ui.request)
<1> USE DEF AccountTypes, AccountPage
<1>1. MaxRequests[s] \in Nat /\ MaxForms[s] \in Nat
  BY FormBounds DEF FormScreens
<1>3. CASE Forms(s)!SyncUser
  <2>1. s = "account" /\ ui' = [ui EXCEPT !.open = TRUE, !.who = 1, !.cep = db[1].cep, !.address = db[1].address]
    BY <1>3 DEF Forms!SyncUser
  <2>2. 1 \in People[s] /\ db[1].cep \in Ceps[s] \cup {0}
    BY <2>1, UserAssumption DEF AccountRows
  <2> QED BY <2>1, <2>2
<1>4. ASSUME NEW who \in People[s] \cup {0}, NEW cep \in Ceps[s] \cup {0}, NEW address,
             Forms(s)!Free, ui' = Forms(s)!Opened(who, cep, address)
      PROVE  AccountPage(s)' /\ ui'.request <= MaxRequests[s]
  <2>1. PICK n \in 0..MaxRequests[s] : Forms(s)!Bumped(ui) = [ui EXCEPT !.request = n]
    BY <1>4, NumberInRoom DEF Forms!Free
  <2>2. ui' = [ui EXCEPT !.request = n, !.open = TRUE, !.form = ui.form + 1, !.who = who, !.cep = cep,
                         !.address = address, !.hand = 0]
    BY <1>4, <2>1 DEF Forms!Opened
  <2>3. ui.form + 1 \in 0..MaxForms[s]
    BY <1>1, <1>4 DEF Forms!Free
  <2> QED BY <1>1, <2>2, <2>3
<1>5. CASE Forms(s)!OpenCreate \/ \E o \in ui.listed : Forms(s)!OpenEdit(o)
  BY <1>4, <1>5 DEF Forms!OpenCreate, Forms!OpenEdit, PersonRow
<1>6. ASSUME NEW n \in 0..MaxRequests[s], ui'.request = n, DOMAIN ui' = DOMAIN ui, ui'.form = ui.form,
             ui'.listed = ui.listed, ui'.who \in People[s] \cup {0}, ui'.cep \in Ceps[s] \cup {0}
      PROVE  AccountPage(s)' /\ ui'.request <= MaxRequests[s]
  <2>1. n \in 0..MaxRequests[s] + 1 /\ n <= MaxRequests[s]
    BY <1>1
  <2> QED BY <1>1, <1>6, <2>1
<1>7. ASSUME Forms(s)!Room
      PROVE  \E n \in 0..MaxRequests[s] : Forms(s)!Bumped(ui) = [ui EXCEPT !.request = n]
  BY <1>7, NumberInRoom
<1>8. CASE Forms(s)!TypeAddress
  <2>1. PICK n \in 0..MaxRequests[s] : Forms(s)!Bumped(ui) = [ui EXCEPT !.request = n]
    BY <1>7, <1>8 DEF Forms!TypeAddress, Forms!Editable
  <2>2. ui' = [ui EXCEPT !.request = n, !.address = Forms(s)!Typed, !.hand = ui.hand + 1]
    BY <1>8, <2>1 DEF Forms!TypeAddress
  <2>3. /\ ui'.request = n /\ DOMAIN ui' = DOMAIN ui /\ ui'.form = ui.form /\ ui'.listed = ui.listed
        /\ ui'.who \in People[s] \cup {0} /\ ui'.cep \in Ceps[s] \cup {0}
    BY <1>1, <2>2
  <2> QED BY <1>6, <2>3
<1>9. CASE Forms(s)!CloseForm
  <2>1. PICK n \in 0..MaxRequests[s] : Forms(s)!Bumped(ui) = [ui EXCEPT !.request = n]
    BY <1>7, <1>9 DEF Forms!CloseForm
  <2>2. ui' = [ui EXCEPT !.request = n, !.open = FALSE, !.who = 0, !.cep = 0, !.address = Forms(s)!Blank,
                         !.hand = 0]
    BY <1>9, <2>1 DEF Forms!CloseForm, Forms!Closed
  <2>3. /\ ui'.request = n /\ DOMAIN ui' = DOMAIN ui /\ ui'.form = ui.form /\ ui'.listed = ui.listed
        /\ ui'.who \in People[s] \cup {0} /\ ui'.cep \in Ceps[s] \cup {0}
    BY <1>1, <2>2
  <2> QED BY <1>6, <2>3
<1>10. CASE Forms(s)!Submit
  <2>1. PICK n \in 0..MaxRequests[s] : Forms(s)!Bumped(ui) = [ui EXCEPT !.request = n]
    BY <1>7, <1>10 DEF Forms!Submit
  <2>2. ui' = [ui EXCEPT !.request = n, !.pending = TRUE]
    BY <1>10, <2>1 DEF Forms!Submit
  <2>3. /\ ui'.request = n /\ DOMAIN ui' = DOMAIN ui /\ ui'.form = ui.form /\ ui'.listed = ui.listed
        /\ ui'.who \in People[s] \cup {0} /\ ui'.cep \in Ceps[s] \cup {0}
    BY <1>1, <2>2
  <2> QED BY <1>6, <2>3
<1>11. ASSUME NEW c \in Ceps[s] \cup {0}, Forms(s)!TypeCep(c)
       PROVE  AccountPage(s)' /\ ui'.request <= MaxRequests[s]
  <2>1. PICK n \in 0..MaxRequests[s] : Forms(s)!Bumped(ui) = [ui EXCEPT !.request = n]
    BY <1>7, <1>11 DEF Forms!TypeCep, Forms!Editable
  <2>2. ui' = [ui EXCEPT !.request = n, !.cep = c]
    <3>1. ui' = [Forms(s)!Bumped(ui) EXCEPT !.cep = c]
      BY <1>11 DEF Forms!TypeCep
    <3> QED BY <2>1, <3>1, Zenon
  <2>3. /\ ui'.request = n /\ DOMAIN ui' = DOMAIN ui /\ ui'.form = ui.form /\ ui'.listed = ui.listed
        /\ ui'.who \in People[s] \cup {0} /\ ui'.cep \in Ceps[s] \cup {0}
    <3>1. c \in Ceps[s] \cup {0} /\ ui.who \in People[s] \cup {0}
      BY <1>11
    <3> QED BY <2>2, <3>1
  <2> QED BY <1>6, <2>3
<1> QED BY <1>3, <1>5, <1>8, <1>9, <1>10, <1>11

\* So do the answers; that of a save takes the number left for it.
LEMMA AccountHearing ==
  ASSUME NEW s \in FormScreens, AccountTypes(s),
         \/ \E o \in ui.listed : Forms(s)!Unlink(o)
         \/ \E m \in net : \/ Forms(s)!LookupArrives(m) \/ Forms(s)!LookupFails(m) \/ Forms(s)!RequestFails(m)
                           \/ Forms(s)!ListArrives(m) \/ Forms(s)!ListFails(m) \/ Forms(s)!UnlinkedArrives(m)
                           \/ Forms(s)!ServeList(m) \/ Forms(s)!ServeUnlink(m)
                           \/ \E p \in People[s] : Forms(s)!ServeSave(m, p)
  PROVE  AccountPage(s)' /\ (ui'.request <= MaxRequests[s] \/ ui'.request = ui.request)
<1> USE DEF AccountTypes, AccountPage
<1>1. ASSUME NEW m \in net, Forms(s)!UnlinkedArrives(m)
      PROVE  AccountPage(s)' /\ (ui'.request <= MaxRequests[s] \/ ui'.request = ui.request)
  <2>1. CASE ui.who = m.who
    <3>1. PICK n \in 0..MaxRequests[s] : Forms(s)!Bumped(ui) = [ui EXCEPT !.request = n]
      BY <1>1, <2>1, NumberInRoom DEF Forms!UnlinkedArrives
    <3>2. ui' = [ui EXCEPT !.request = n, !.open = FALSE, !.who = 0, !.cep = 0, !.address = Forms(s)!Blank,
                           !.hand = 0, !.pending = FALSE, !.listed = {o \in ui.listed : o.who # m.who}]
      BY <1>1, <2>1, <3>1 DEF Forms!UnlinkedArrives, Forms!Closed
    <3> QED BY <3>2, FormBounds DEF FormScreens
  <2>2. CASE ui.who # m.who
    BY <1>1, <2>2 DEF Forms!UnlinkedArrives
  <2> QED BY <2>1, <2>2
<1>2. ASSUME NEW m \in net,
             \/ Forms(s)!LookupArrives(m) \/ Forms(s)!LookupFails(m) \/ Forms(s)!RequestFails(m)
             \/ Forms(s)!ListFails(m)
      PROVE  AccountPage(s)' /\ ui'.request = ui.request
  BY <1>2 DEF Forms!LookupArrives, Forms!LookupFails, Forms!RequestFails, Forms!ListFails
<1>3. ASSUME NEW m \in net,
             \/ Forms(s)!ServeList(m) \/ Forms(s)!ServeUnlink(m)
             \/ \E p \in People[s] : Forms(s)!ServeSave(m, p)
      PROVE  AccountPage(s)' /\ ui'.request = ui.request
  BY <1>3 DEF Forms!ServeList, Forms!ServeUnlink, Forms!ServeSave, Forms!Answered
<1>4. ASSUME NEW m \in net, Forms(s)!ListArrives(m)
      PROVE  AccountPage(s)' /\ ui'.request = ui.request
  BY <1>4 DEF Forms!ListArrives, AccountMessage
<1>5. ASSUME NEW o \in ui.listed, Forms(s)!Unlink(o)
      PROVE  AccountPage(s)' /\ ui'.request = ui.request
  BY <1>5 DEF Forms!Unlink
<1> QED BY <1>1, <1>2, <1>3, <1>4, <1>5

\* The answer of a save.
LEMMA AccountSaved ==
  ASSUME NEW s \in FormScreens, AccountTypes(s), NEW m \in net, Forms(s)!SavedArrives(m)
  PROVE  AccountPage(s)'
<1> USE DEF AccountTypes, AccountPage
<1>1. PICK n \in 0..MaxRequests[s] + 1 : Forms(s)!Bumped(ui) = [ui EXCEPT !.request = n]
  BY NumberOfAnswer DEF Forms!SavedArrives, Saving
<1>2. \A o \in Forms(s)!Taken(m) : PersonRow(s, o)
  BY DEF Forms!SavedArrives, Forms!Taken, AccountMessage
<1>3. \/ ui' = [ui EXCEPT !.request = n, !.open = FALSE, !.who = 0, !.cep = 0, !.address = Forms(s)!Blank, !.hand = 0,
                          !.pending = FALSE, !.listed = Forms(s)!Taken(m)]
      \/ ui' = [ui EXCEPT !.pending = FALSE, !.open = Forms(s)!Numbered]
  BY <1>1 DEF Forms!SavedArrives, Forms!Closed
<1>4. DOMAIN ui' = DOMAIN ui /\ ui'.form = ui.form /\ ui'.request \in {ui.request, n}
  BY <1>3
<1>5. ui'.who \in {ui.who, 0} /\ ui'.cep \in {ui.cep, 0} /\ ui'.listed \in {ui.listed, Forms(s)!Taken(m)}
  BY <1>3
<1> QED BY <1>2, <1>4, <1>5

\* The people keep their types.
LEMMA AccountRowsStep ==
  ASSUME NEW s \in FormScreens, AccountTypes(s), Forms(s)!Next
  PROVE  AccountRows(s)'
<1> USE DEF AccountTypes, AccountRows
<1>1. ASSUME NEW m \in net, NEW p \in People[s], Forms(s)!ServeSave(m, p)
      PROVE  AccountRows(s)'
  <2>1. PICK row : row = [here |-> TRUE, cep |-> m.cep, address |-> m.address]
    OBVIOUS
  <2>2. DOMAIN row = {"here", "cep", "address"} /\ row.cep \in Ceps[s] \cup {0}
    BY <1>1, <2>1 DEF Forms!ServeSave, AccountMessage
  <2>3. db' = [db EXCEPT ![p] = row]
    BY <1>1, <2>1 DEF Forms!ServeSave
  <2> QED BY <2>2, <2>3
<1>2. ASSUME NEW m \in net, Forms(s)!ServeUnlink(m)
      PROVE  AccountRows(s)'
  BY <1>2 DEF Forms!ServeUnlink
<1>3. ASSUME \/ Forms(s)!SyncUser \/ Forms(s)!OpenCreate \/ Forms(s)!TypeAddress \/ Forms(s)!CloseForm
             \/ Forms(s)!Submit
             \/ \E o \in ui.listed : Forms(s)!OpenEdit(o) \/ Forms(s)!Unlink(o)
             \/ \E c \in Ceps[s] \cup {0} : Forms(s)!TypeCep(c)
      PROVE  UNCHANGED db
  BY <1>3 DEF Forms!SyncUser, Forms!OpenCreate, Forms!TypeAddress, Forms!CloseForm, Forms!Submit,
              Forms!OpenEdit, Forms!Unlink, Forms!TypeCep
<1>4. ASSUME NEW m \in net,
             \/ Forms(s)!LookupArrives(m) \/ Forms(s)!LookupFails(m) \/ Forms(s)!SavedArrives(m)
             \/ Forms(s)!RequestFails(m) \/ Forms(s)!ListArrives(m) \/ Forms(s)!ListFails(m)
             \/ Forms(s)!UnlinkedArrives(m) \/ Forms(s)!ServeList(m)
      PROVE  UNCHANGED db
  BY <1>4 DEF Forms!LookupArrives, Forms!LookupFails, Forms!SavedArrives, Forms!RequestFails,
              Forms!ListArrives, Forms!ListFails, Forms!UnlinkedArrives, Forms!ServeList
<1> QED BY <1>1, <1>2, <1>3, <1>4 DEF Forms!Next

\* Messages that come and go beside a change.
LEMMA BesideChange ==
  ASSUME NEW s \in FormScreens, AccountTypes(s), ui'.pending = ui.pending,
         ui'.request <= MaxRequests[s] \/ ui'.request = ui.request,
         \A n \in net' : n \in net \/ (AccountMessage(s, n) /\ ~Change(n))
  PROVE  (\A m \in net' : AccountMessage(s, m)) /\ OneChange' /\ RoomForAnswer(s)'
<1>1. \A n \in net' : Change(n) => n \in net
  OBVIOUS
<1>2. OneChange'
  BY <1>1 DEF AccountTypes, OneChange, Change
<1>3. RoomForAnswer(s)'
  BY <1>1 DEF AccountTypes, RoomForAnswer, Change, Saving
<1> QED BY <1>2, <1>3 DEF AccountTypes

\* The messages of a step of the form.
LEMMA AccountAsks ==
  ASSUME NEW s \in FormScreens, AccountTypes(s),
         \/ Forms(s)!SyncUser \/ Forms(s)!OpenCreate \/ Forms(s)!TypeAddress \/ Forms(s)!CloseForm
         \/ Forms(s)!Submit
         \/ \E o \in ui.listed : Forms(s)!OpenEdit(o)
         \/ \E c \in Ceps[s] \cup {0} : Forms(s)!TypeCep(c)
  PROVE  (\A m \in net' : AccountMessage(s, m)) /\ OneChange' /\ RoomForAnswer(s)'
<1>1. ui'.request <= MaxRequests[s] \/ ui'.request = ui.request
  BY AccountTyping
<1>2. CASE Forms(s)!Submit
  <2>1. PICK save : save = [kind |-> "save", who |-> ui.who, cep |-> ui.cep, address |-> ui.address]
    OBVIOUS
  <2>2. AccountMessage(s, save) /\ save.kind = "save"
    BY <2>1 DEF AccountMessage, AccountTypes, AccountPage
  <2>3. \A m \in net : ~Change(m)
    BY <1>2 DEF Forms!Submit, AccountTypes, OneChange
  <2>4. PICK n \in 0..MaxRequests[s] : Forms(s)!Bumped(ui) = [ui EXCEPT !.request = n]
    BY <1>2, NumberInRoom DEF Forms!Submit, AccountTypes
  <2>5. ui'.pending /\ ui'.request <= MaxRequests[s] /\ net' = net \cup {save}
    BY <1>2, <2>1, <2>4, FormBounds DEF Forms!Submit, AccountTypes, AccountPage, FormScreens
  <2> QED BY <2>2, <2>3, <2>5 DEF AccountTypes, OneChange, RoomForAnswer
<1>3. ASSUME NEW c \in Ceps[s] \cup {0}, Forms(s)!TypeCep(c)
      PROVE  (\A m \in net' : AccountMessage(s, m)) /\ OneChange' /\ RoomForAnswer(s)'
  <2>1. ui'.pending = ui.pending
    BY <1>3 DEF Forms!TypeCep, Forms!Bumped, AccountTypes, AccountPage
  <2>2. PICK l : l = [kind |-> "lookup", request |-> Forms(s)!Bumped(ui).request, cep |-> c, form |-> ui.form,
                      hand |-> ui.hand]
    OBVIOUS
  <2>3. AccountMessage(s, l) /\ ~Change(l)
    BY <2>2 DEF AccountMessage, Change
  <2>4. \A n \in net' : n \in net \/ n = l
    BY <1>3, <2>2 DEF Forms!TypeCep
  <2> QED BY <1>1, <2>1, <2>3, <2>4, BesideChange
<1>4. CASE \/ Forms(s)!SyncUser \/ Forms(s)!OpenCreate \/ Forms(s)!TypeAddress \/ Forms(s)!CloseForm
           \/ \E o \in ui.listed : Forms(s)!OpenEdit(o)
  <2>1. ui'.pending = ui.pending /\ net' = net
    BY <1>4 DEF Forms!SyncUser, Forms!OpenCreate, Forms!TypeAddress, Forms!CloseForm, Forms!Closed, Forms!OpenEdit,
                Forms!Opened, Forms!Bumped, AccountTypes, AccountPage
  <2> QED BY <1>1, <2>1, BesideChange
<1> QED BY <1>2, <1>3, <1>4

\* The messages of an answer that arrives, or fails.
LEMMA AccountAnswers ==
  ASSUME NEW s \in FormScreens, AccountTypes(s), AccountPage(s)', NEW m \in net,
         \/ Forms(s)!LookupArrives(m) \/ Forms(s)!LookupFails(m) \/ Forms(s)!SavedArrives(m)
         \/ Forms(s)!RequestFails(m) \/ Forms(s)!ListArrives(m) \/ Forms(s)!ListFails(m)
         \/ Forms(s)!UnlinkedArrives(m)
  PROVE  (\A n \in net' : AccountMessage(s, n)) /\ OneChange' /\ RoomForAnswer(s)'
<1>1. CASE Forms(s)!SavedArrives(m) \/ Forms(s)!RequestFails(m) \/ Forms(s)!UnlinkedArrives(m)
  <2>1. Change(m) /\ net' = net \ {m}
    BY <1>1 DEF Forms!SavedArrives, Forms!RequestFails, Forms!UnlinkedArrives, Change
  <2>2. \A n \in net' : ~Change(n)
    BY <2>1 DEF AccountTypes, OneChange
  <2> QED BY <2>1, <2>2 DEF AccountTypes, OneChange, RoomForAnswer, Change, Saving
<1>2. CASE Forms(s)!LookupArrives(m) \/ Forms(s)!LookupFails(m) \/ Forms(s)!ListArrives(m)
  <2>1. ui'.pending = ui.pending /\ ui'.request = ui.request /\ net' = net \ {m}
    BY <1>2 DEF Forms!LookupArrives, Forms!LookupFails, Forms!ListArrives, AccountTypes, AccountPage
  <2> QED BY <2>1, BesideChange
<1>3. CASE Forms(s)!ListFails(m)
  <2>1. PICK l : l = [kind |-> "list", people |-> {}]
    OBVIOUS
  <2>2. AccountMessage(s, l) /\ ~Change(l)
    BY <2>1 DEF AccountMessage, Change
  <2>3. ui' = ui /\ net' = (net \ {m}) \cup {l}
    BY <1>3, <2>1 DEF Forms!ListFails
  <2> QED BY <2>2, <2>3, BesideChange
<1> QED BY <1>1, <1>2, <1>3

\* The messages of the server.
LEMMA AccountServed ==
  ASSUME NEW s \in FormScreens, AccountTypes(s), NEW m \in net,
         Forms(s)!ServeList(m) \/ Forms(s)!ServeUnlink(m) \/ \E p \in People[s] : Forms(s)!ServeSave(m, p)
  PROVE  (\A n \in net' : AccountMessage(s, n)) /\ OneChange' /\ RoomForAnswer(s)'
<1>1. CASE Forms(s)!ServeList(m)
  <2>1. PICK l : l = [kind |-> "listed",
                      people |-> {Forms(s)!Row(p, db[p].cep, db[p].address) : p \in {q \in People[s] : db[q].here}}]
    OBVIOUS
  <2>2. AccountMessage(s, l) /\ ~Change(l)
    <3>1. \A p \in People[s] : PersonRow(s, Forms(s)!Row(p, db[p].cep, db[p].address))
      BY DEF AccountTypes, AccountRows, PersonRow, Forms!Row
    <3> QED BY <2>1, <3>1 DEF AccountMessage, Change
  <2>3. ui' = ui /\ net' = (net \ {m}) \cup {l}
    BY <1>1, <2>1 DEF Forms!ServeList, Forms!Answered
  <2> QED BY <2>2, <2>3, BesideChange
<1>2. ASSUME NEW answer, AccountMessage(s, answer), Change(m), Change(answer), Saving(answer) => Saving(m),
             ui' = ui, net' = (net \ {m}) \cup {answer}
      PROVE  (\A n \in net' : AccountMessage(s, n)) /\ OneChange' /\ RoomForAnswer(s)'
  <2>1. \A n \in net' : Change(n) => n = answer
    BY <1>2 DEF AccountTypes, OneChange
  <2>2. OneChange'
    BY <1>2, <2>1 DEF AccountTypes, OneChange, Change
  <2>3. RoomForAnswer(s)'
    BY <1>2, <2>1 DEF AccountTypes, RoomForAnswer, Change, Saving
  <2> QED BY <1>2, <2>2, <2>3 DEF AccountTypes
<1>3. CASE Forms(s)!ServeUnlink(m)
  <2>1. PICK a : a = [kind |-> "unlinked", who |-> m.who]
    OBVIOUS
  <2>2. AccountMessage(s, a) /\ Change(m) /\ Change(a) /\ ~Saving(a)
    BY <1>3, <2>1 DEF AccountTypes, AccountMessage, Change, Saving, Forms!ServeUnlink
  <2> QED BY <1>2, <1>3, <2>1, <2>2 DEF Forms!ServeUnlink, Forms!Answered
<1>4. ASSUME NEW p \in People[s], Forms(s)!ServeSave(m, p)
      PROVE  (\A n \in net' : AccountMessage(s, n)) /\ OneChange' /\ RoomForAnswer(s)'
  <2>0. PICK created, row : created = (m.who = 0) /\ row = Forms(s)!Row(p, m.cep, m.address)
    OBVIOUS
  <2>1. PICK a : a = [kind |-> "saved", created |-> created, row |-> row]
    OBVIOUS
  <2>3. PersonRow(s, row)
    BY <1>4, <2>0 DEF Forms!ServeSave, Forms!Row, PersonRow, AccountTypes, AccountMessage
  <2>2. AccountMessage(s, a) /\ Change(m) /\ Change(a) /\ Saving(m)
    BY <1>4, <2>1, <2>3 DEF AccountMessage, Change, Saving, Forms!ServeSave
  <2> QED BY <1>2, <1>4, <2>0, <2>1, <2>2 DEF Forms!ServeSave, Forms!Answered
<1> QED BY <1>1, <1>3, <1>4

\* Unlinking somebody is the one change under way.
LEMMA AccountUnlink ==
  ASSUME NEW s \in FormScreens, AccountTypes(s), NEW o \in ui.listed, Forms(s)!Unlink(o)
  PROVE  (\A n \in net' : AccountMessage(s, n)) /\ OneChange' /\ RoomForAnswer(s)'
<1>1. PICK a : a = [kind |-> "unlink", who |-> o.who]
  OBVIOUS
<1>2. AccountMessage(s, a) /\ Change(a) /\ ~Saving(a)
  BY <1>1 DEF AccountMessage, Change, Saving, AccountTypes, AccountPage, PersonRow
<1>3. ui'.pending /\ ui'.request = ui.request /\ net' = net \cup {a} /\ \A m \in net : ~Change(m)
  BY <1>1 DEF Forms!Unlink, AccountTypes, AccountPage, OneChange
<1> QED BY <1>2, <1>3 DEF AccountTypes, OneChange, RoomForAnswer, Change, Saving

\* Every step keeps them.
LEMMA AccountTypesStep ==
  ASSUME NEW s \in FormScreens, AccountTypes(s), Forms(s)!Next \/ UNCHANGED <<ui, db, net>>
  PROVE  AccountTypes(s)'
<1>1. CASE Forms(s)!Next
  <2>1. AccountPage(s)'
    BY <1>1, AccountTyping, AccountHearing, AccountSaved DEF Forms!Next
  <2>2. AccountRows(s)'
    BY <1>1, AccountRowsStep
  <2>3. (\A n \in net' : AccountMessage(s, n)) /\ OneChange' /\ RoomForAnswer(s)'
    BY <1>1, <2>1, AccountAsks, AccountAnswers, AccountServed, AccountUnlink DEF Forms!Next
  <2> QED BY <2>1, <2>2, <2>3 DEF AccountTypes, AccountMessage
<1>2. CASE UNCHANGED <<ui, db, net>>
  BY <1>2 DEF AccountTypes, AccountPage, AccountRows, AccountMessage, OneChange, RoomForAnswer, Change, Saving, PersonRow
<1> QED BY <1>1, <1>2

-----------------------------------------------------------------------------
(***************************************************************************)
(* The papers.  What a form, a row or a request says was read from a file  *)
(* that was attached, or from none.                                        *)
(***************************************************************************)
Attachable(s) == 0..MaxFiles[s]
Filling(s) == [says : Attachable(s), filled : SUBSET {"person", "licence", "certificate"}]

FiledRow(s) ==
  {r \in [id : Int, says : Attachable(s), photo : Int, status : {"pending", "approved", "rejected"},
          auto : YesNo, edited : YesNo] :
     r.auto => r.status = "rejected"}

PapersOnScreen(s) ==
  /\ DOMAIN ui = {"page", "kind", "list", "fresh", "target", "file", "attached", "result", "replaced", "form",
                  "cleared", "saving", "open", "deciding"}
  /\ ui.kind \in {"cnh", "certification"} /\ ui.page \in {"documents", "cnh", "certification"}
  /\ ui.file \in Attachable(s) /\ ui.attached \in ui.file..MaxFiles[s]
  /\ ui.form \in Filling(s) /\ ui.list \in Seq(FiledRow(s))

PapersFiled(s) == DOMAIN db = {"rows", "created"} /\ db.rows \in Seq(FiledRow(s)) /\ db.created \in Int

PaperMessage(s, m) ==
  /\ "kind" \in DOMAIN m
  /\ m.kind = "check" => m.file \in Attachable(s)
  /\ m.kind \in {"upload", "save"} =>
       DOMAIN m = {"kind", "id", "says", "photo", "left"} /\ m.says \in Attachable(s) /\ m.photo \in Int
  /\ m.kind = "verdict" => "status" \in DOMAIN m /\ m.status \in {"approved", "rejected"}

PaperTypes(s) == PapersOnScreen(s) /\ PapersFiled(s) /\ \A m \in net : PaperMessage(s, m)

\* They are the types of the module.
LEMMA PaperTyped ==
  ASSUME NEW s \in PaperScreens, PaperTypes(s)
  PROVE  Papers(s)!TypeOK
<1>1. \A i \in DOMAIN db.rows : db.rows[i] \in FiledRow(s)
  BY DEF PaperTypes, PapersFiled
<1>2. \A i \in DOMAIN db.rows : /\ db.rows[i].status \in {"pending", "approved", "rejected"}
                                /\ db.rows[i].auto => db.rows[i].status = "rejected"
  BY <1>1 DEF FiledRow
<1>3. ui.form.says \in Attachable(s) /\ ui.form.filled \subseteq {"person", "licence", "certificate"}
  BY DEF PaperTypes, PapersOnScreen, Filling
<1> QED BY <1>2, <1>3
        DEF PaperTypes, PapersOnScreen, Attachable, Papers!TypeOK, Papers!Pages, Papers!Statuses, Papers!Sections

\* A blank row, and a blank form.
LEMMA BlankPaper ==
  ASSUME NEW s \in PaperScreens
  PROVE  Papers(s)!NoRow \in FiledRow(s) /\ Papers(s)!Blank \in Filling(s) /\ 0 \in Attachable(s)
<1>1. 0 \in Attachable(s)
  BY PaperBounds DEF PaperScreens, Attachable
<1>2. PICK no \in YesNo : no = FALSE
  BY DEF YesNo
<1>3. Papers(s)!NoRow = [id |-> 0, says |-> 0, photo |-> 0, status |-> "pending", auto |-> no, edited |-> no]
  BY <1>2 DEF Papers!NoRow
<1>4. Papers(s)!NoRow \in FiledRow(s)
  BY <1>1, <1>2, <1>3 DEF FiledRow
<1>5. Papers(s)!Blank \in Filling(s)
  BY <1>1 DEF Papers!Blank, Filling
<1> QED BY <1>1, <1>4, <1>5

\* They hold at first.
LEMMA PaperTypesStart ==
  ASSUME NEW s \in PaperScreens, Papers(s)!Init
  PROVE  PaperTypes(s)
<1>1. PICK b \in Filling(s) : b = Papers(s)!Blank
  BY BlankPaper
<1>2. PICK kind \in {"cnh", "certification"} :
        /\ ui = [page |-> "documents", kind |-> kind, list |-> <<>>, fresh |-> FALSE,
                 target |-> 0, file |-> 0, attached |-> 0, result |-> "none", replaced |-> FALSE,
                 form |-> b, cleared |-> FALSE, saving |-> FALSE, open |-> 0, deciding |-> FALSE]
        /\ db = [rows |-> <<>>, created |-> 0] /\ net = {}
  BY <1>1 DEF Papers!Init
<1>3. MaxFiles[s] \in Nat
  BY PaperBounds DEF PaperScreens
<1>4. PapersOnScreen(s)
  BY <1>2, <1>3 DEF PapersOnScreen, Attachable
<1>5. PapersFiled(s)
  BY <1>2 DEF PapersFiled
<1> QED BY <1>2, <1>4, <1>5 DEF PaperTypes

\* The place of a row is in the list, or nowhere.
LEMMA FiledPlace ==
  ASSUME NEW s \in PaperScreens, NEW rows, NEW id
  PROVE  LET i == Papers(s)!Place(rows, id) IN i = 0 \/ i \in DOMAIN rows
BY DEF Papers!Place

\* The row a page edits is a row of its list, or a blank one.
LEMMA ExistingFiled ==
  ASSUME NEW s \in PaperScreens, NEW page, NEW list \in Seq(FiledRow(s)), NEW target
  PROVE  Papers(s)!ExistingIn(page, list, target) \in FiledRow(s)
<1> DEFINE e == Papers(s)!ExistingIn(page, list, target)
<1>1. CASE page = "cnh" /\ list # <<>>
  <2>1. Head(list) \in FiledRow(s)
    BY <1>1
  <2> QED BY <1>1, <2>1 DEF Papers!ExistingIn
<1>2. CASE page = "certification" /\ Papers(s)!Place(list, target) # 0
  <2>1. list[Papers(s)!Place(list, target)] \in FiledRow(s)
    BY <1>2, FiledPlace
  <2> QED BY <1>2, <2>1 DEF Papers!ExistingIn
<1>3. CASE ~(page = "cnh" /\ list # <<>>) /\ ~(page = "certification" /\ Papers(s)!Place(list, target) # 0)
  <2>1. e = Papers(s)!NoRow
    BY <1>3 DEF Papers!ExistingIn
  <2> QED BY <2>1, BlankPaper
<1> QED BY <1>1, <1>2, <1>3

\* The form after its page read the list.
LEMMA RefilledFiled ==
  ASSUME NEW s \in PaperScreens, NEW page, NEW row \in FiledRow(s), NEW replaced, NEW form \in Filling(s)
  PROVE  Papers(s)!Refill(page, row, replaced, form) \in Filling(s)
<1>1. PICK filled \in SUBSET {"person", "licence", "certificate"} :
        filled = IF page = "cnh" THEN {"person", "licence"} ELSE {"certificate"}
  OBVIOUS
<1>2. [says |-> row.says, filled |-> filled] \in Filling(s)
  BY DEF FiledRow, Filling
<1> QED BY <1>1, <1>2 DEF Papers!Refill

\* The page keeps its types as the list is read and a page is entered.
LEMMA ReadingPapers ==
  ASSUME NEW s \in PaperScreens, PaperTypes(s),
         Papers(s)!Lists \/ Papers(s)!GrowsStale \/ \E id : Papers(s)!OpenPage(id)
  PROVE  PapersOnScreen(s)'
<1>1. CASE Papers(s)!GrowsStale
  BY <1>1 DEF Papers!GrowsStale, PaperTypes, PapersOnScreen
<1>2. CASE Papers(s)!Lists
  <2>1. PICK e \in FiledRow(s) : e = Papers(s)!ExistingIn(ui.page, db.rows, ui.target)
    BY ExistingFiled DEF PaperTypes, PapersFiled
  <2>2. PICK f \in Filling(s) : f = Papers(s)!Refill(ui.page, e, ui.replaced, ui.form)
    BY RefilledFiled DEF PaperTypes, PapersOnScreen
  <2>3. PICK form \in Filling(s) : form = IF ui.list = db.rows THEN ui.form ELSE f
    BY DEF PaperTypes, PapersOnScreen
  <2>4. ui' = [ui EXCEPT !.list = db.rows, !.fresh = TRUE, !.form = form]
    BY <1>2, <2>1, <2>2, <2>3 DEF Papers!Lists, PaperTypes, PapersOnScreen
  <2> QED BY <2>4 DEF PaperTypes, PapersOnScreen, PapersFiled
<1>3. ASSUME NEW id, Papers(s)!OpenPage(id)
      PROVE  PapersOnScreen(s)'
  <2>1. PICK e \in FiledRow(s) : e = Papers(s)!ExistingIn(ui.kind, ui.list, id)
    BY ExistingFiled DEF PaperTypes, PapersOnScreen
  <2>2. PICK b \in Filling(s) : b = Papers(s)!Blank
    BY BlankPaper
  <2>3. PICK no \in YesNo : no = FALSE
    BY DEF YesNo
  <2>4. PICK form \in Filling(s) : form = Papers(s)!Refill(ui.kind, e, no, b)
    BY RefilledFiled
  <2>5. ui' = [ui EXCEPT !.page = ui.kind, !.target = id, !.file = 0, !.result = "none",
                         !.replaced = FALSE, !.cleared = FALSE, !.form = form]
    BY <1>3, <2>1, <2>2, <2>3, <2>4 DEF Papers!OpenPage
  <2>6. MaxFiles[s] \in Nat
    BY PaperBounds DEF PaperScreens
  <2> QED BY <2>5, <2>6 DEF PaperTypes, PapersOnScreen, Attachable
<1> QED BY <1>1, <1>2, <1>3

\* So does it as a file is attached and read.
LEMMA AttachingPapers ==
  ASSUME NEW s \in PaperScreens, PaperTypes(s),
         Papers(s)!Attach \/ \E m \in net : Papers(s)!Checked(m) \/ Papers(s)!CheckFails(m)
  PROVE  PapersOnScreen(s)'
<1>1. CASE Papers(s)!Attach
  <2>1. PICK n \in 1..MaxFiles[s] : ui' = [ui EXCEPT !.file = n, !.attached = n, !.result = "none"]
    BY <1>1 DEF Papers!Attach, Papers!Chosen
  <2>2. n \in 0..MaxFiles[s] /\ n \in n..MaxFiles[s]
    BY <2>1, PaperBounds DEF PaperScreens
  <2> QED BY <2>1, <2>2 DEF PaperTypes, PapersOnScreen, Attachable
<1>2. ASSUME NEW m \in net, Papers(s)!Checked(m)
      PROVE  PapersOnScreen(s)'
  <2>1. CASE ui' = ui
    BY <2>1 DEF PaperTypes, PapersOnScreen
  <2>2. CASE ui' # ui
    <3>1. PICK valid \in BOOLEAN, filled \in SUBSET {"person"} :
            ui' = [ui EXCEPT !.result = IF valid THEN "valid" ELSE "invalid", !.replaced = TRUE,
                             !.form = Papers(s)!Extracted(m.file, filled)]
      BY <1>2, <2>2 DEF Papers!Checked
    <3>2. PICK form \in Filling(s) : form = Papers(s)!Extracted(m.file, filled)
      BY <1>2 DEF Papers!Checked, Papers!Extracted, PaperTypes, PaperMessage, Filling
    <3>3. PICK result : result = IF valid THEN "valid" ELSE "invalid"
      OBVIOUS
    <3>4. ui' = [ui EXCEPT !.result = result, !.replaced = TRUE, !.form = form]
      BY <3>1, <3>2, <3>3
    <3> QED BY <3>4 DEF PaperTypes, PapersOnScreen
  <2> QED BY <2>1, <2>2
<1>3. ASSUME NEW m \in net, Papers(s)!CheckFails(m)
      PROVE  PapersOnScreen(s)'
  BY <1>3 DEF Papers!CheckFails, PaperTypes, PapersOnScreen
<1> QED BY <1>1, <1>2, <1>3

\* And in every other step of the two browsers.
LEMMA OtherPapers ==
  ASSUME NEW s \in PaperScreens, PaperTypes(s),
         \/ Papers(s)!ClosePage \/ Papers(s)!RemoveMedia \/ Papers(s)!Submit \/ Papers(s)!CloseDetail
         \/ Papers(s)!FillPerson \/ Papers(s)!FillLicence \/ Papers(s)!FillCertificate
         \/ \E i : Papers(s)!RemoveDocument(i) \/ Papers(s)!OpenDetail(i)
         \/ \E action, note : Papers(s)!RunReview(action, note)
         \/ \E m \in net : \/ Papers(s)!Uploaded(m) \/ Papers(s)!SaveFails(m) \/ Papers(s)!Saved(m)
                           \/ Papers(s)!ServeSave(m) \/ Papers(s)!ServeVerdict(m) \/ Papers(s)!Judged(m)
                           \/ Papers(s)!VerdictFails(m)
  PROVE  PapersOnScreen(s)'
<1> DEFINE Quiet == /\ DOMAIN ui' = DOMAIN ui /\ ui'.page \in {"documents", ui.page} /\ ui'.form \in Filling(s)
                    /\ \A x \in {"kind", "file", "attached", "list"} : ui'[x] = ui[x]
<1>1. ASSUME NEW section \in {"person", "licence", "certificate"}, Papers(s)!FillIn(section)
      PROVE  Quiet
  <2>1. PICK filled \in SUBSET {"person", "licence", "certificate"} : filled = ui.form.filled \cup {section}
    BY DEF PaperTypes, PapersOnScreen, Filling
  <2>2. PICK form \in Filling(s) : form = [ui.form EXCEPT !.filled = filled]
    BY DEF PaperTypes, PapersOnScreen, Filling
  <2>3. ui' = [ui EXCEPT !.form = form]
    BY <1>1, <2>1, <2>2 DEF Papers!FillIn, PaperTypes, PapersOnScreen, Filling
  <2> QED BY <2>3 DEF PaperTypes, PapersOnScreen
<1>2. ASSUME \/ Papers(s)!ClosePage \/ Papers(s)!RemoveMedia \/ Papers(s)!Submit \/ Papers(s)!CloseDetail
             \/ \E i : Papers(s)!RemoveDocument(i) \/ Papers(s)!OpenDetail(i)
             \/ \E action, note : Papers(s)!RunReview(action, note)
      PROVE  Quiet
  BY <1>2 DEF Papers!ClosePage, Papers!RemoveMedia, Papers!Submit, Papers!CloseDetail, Papers!RemoveDocument,
              Papers!OpenDetail, Papers!RunReview, PaperTypes, PapersOnScreen
<1>3. ASSUME NEW m \in net,
             \/ Papers(s)!Uploaded(m) \/ Papers(s)!SaveFails(m) \/ Papers(s)!Saved(m) \/ Papers(s)!ServeSave(m)
             \/ Papers(s)!ServeVerdict(m) \/ Papers(s)!Judged(m) \/ Papers(s)!VerdictFails(m)
      PROVE  Quiet
  BY <1>3 DEF Papers!Uploaded, Papers!SaveFails, Papers!Saved, Papers!ServeSave, Papers!ServeVerdict,
              Papers!Judged, Papers!VerdictFails, PaperTypes, PapersOnScreen
<1> HIDE DEF Quiet
<1>4. Quiet
  BY <1>1, <1>2, <1>3 DEF Papers!FillPerson, Papers!FillLicence, Papers!FillCertificate
<1> QED BY <1>4 DEF Quiet, PaperTypes, PapersOnScreen

\* A row that is screened, or judged, is filed.
LEMMA JudgedRow ==
  ASSUME NEW s \in PaperScreens, NEW r \in FiledRow(s), NEW status \in {"pending", "approved", "rejected"},
         NEW auto \in YesNo, auto => status = "rejected"
  PROVE  [r EXCEPT !.status = status, !.auto = auto] \in FiledRow(s)
BY DEF FiledRow

\* What a save carries is put in a row.
LEMMA SavedRow ==
  ASSUME NEW s \in PaperScreens, NEW r \in FiledRow(s), NEW id \in Int, NEW says \in Attachable(s), NEW photo \in Int,
         NEW edited \in YesNo
  PROVE  [r EXCEPT !.id = id, !.says = says, !.photo = photo, !.edited = edited] \in FiledRow(s)
BY DEF FiledRow

\* The rows keep their types as the server takes in what was sent.
LEMMA ServingPapers ==
  ASSUME NEW s \in PaperScreens, PaperTypes(s), NEW m \in net, Papers(s)!ServeSave(m)
  PROVE  PapersFiled(s)'
<1>1. m.says \in Attachable(s) /\ m.photo \in Int
  BY DEF Papers!ServeSave, PaperTypes, PaperMessage
<1>2. PICK auto \in YesNo : Papers(s)!Creates(m, auto) \/ Papers(s)!Updates(m, auto)
  BY DEF Papers!ServeSave, YesNo
<1>3. PICK status \in {"pending", "approved", "rejected"} : status = IF auto THEN "rejected" ELSE "pending"
  OBVIOUS
<1>4. DOMAIN db = {"rows", "created"} /\ db.rows \in Seq(FiledRow(s)) /\ db.created \in Int
  BY DEF PaperTypes, PapersFiled
<1>5. CASE Papers(s)!Creates(m, auto)
  <2>1. PICK n \in Int : n = db.created + 1
    BY <1>4
  <2>2. PICK no \in FiledRow(s) : no = Papers(s)!NoRow
    BY BlankPaper
  <2>3. PICK row \in FiledRow(s) : row = [no EXCEPT !.id = n, !.says = m.says, !.photo = m.photo]
    <3>1. no.edited \in YesNo
      BY DEF FiledRow
    <3>2. [no EXCEPT !.id = n, !.says = m.says, !.photo = m.photo, !.edited = no.edited] \in FiledRow(s)
      BY <1>1, <3>1, SavedRow
    <3>3. [no EXCEPT !.id = n, !.says = m.says, !.photo = m.photo, !.edited = no.edited]
            = [no EXCEPT !.id = n, !.says = m.says, !.photo = m.photo]
      BY DEF FiledRow
    <3> QED BY <3>2, <3>3
  <2>4. PICK r \in FiledRow(s) : r = [row EXCEPT !.status = status, !.auto = auto]
    BY <1>3, JudgedRow
  <2>5. db' = [db EXCEPT !.rows = <<r>> \o @, !.created = n]
    BY <1>3, <1>5, <2>1, <2>2, <2>3, <2>4 DEF Papers!Creates, Papers!Screened
  <2>6. <<r>> \o db.rows \in Seq(FiledRow(s))
    BY <1>4, <2>4
  <2> QED BY <1>4, <2>1, <2>5, <2>6 DEF PapersFiled
<1>6. CASE Papers(s)!Updates(m, auto)
  <2>1. PICK i \in DOMAIN db.rows : i = Papers(s)!RowOf(m.id)
    BY <1>6, FiledPlace DEF Papers!Updates, Papers!RowOf
  <2>2. PICK yes \in YesNo : yes = TRUE
    BY DEF YesNo
  <2>3. PICK old \in FiledRow(s) : old = db.rows[i]
    BY <1>4, <2>1
  <2>4. PICK row \in FiledRow(s) : row = [old EXCEPT !.says = m.says, !.photo = m.photo, !.edited = yes]
    <3>1. old.id \in Int
      BY DEF FiledRow
    <3>2. [old EXCEPT !.id = old.id, !.says = m.says, !.photo = m.photo, !.edited = yes] \in FiledRow(s)
      BY <1>1, <3>1, SavedRow
    <3>3. [old EXCEPT !.id = old.id, !.says = m.says, !.photo = m.photo, !.edited = yes]
            = [old EXCEPT !.says = m.says, !.photo = m.photo, !.edited = yes]
      BY DEF FiledRow
    <3> QED BY <3>2, <3>3
  <2>5. PICK r \in FiledRow(s) : r = [row EXCEPT !.status = status, !.auto = auto]
    BY <1>3, JudgedRow
  <2>6. db' = [db EXCEPT !.rows[i] = r]
    BY <1>3, <1>4, <1>6, <2>1, <2>2, <2>3, <2>4, <2>5 DEF Papers!Updates, Papers!Screened
  <2>7. [db.rows EXCEPT ![i] = r] \in Seq(FiledRow(s))
    BY <1>4, <2>1, <2>5
  <2> QED BY <1>4, <2>6, <2>7 DEF PapersFiled
<1> QED BY <1>2, <1>5, <1>6

\* And as a row is judged or removed, the only other ways they change.
LEMMA FilingPapers ==
  ASSUME NEW s \in PaperScreens, PaperTypes(s), Papers(s)!Next
  PROVE  PapersFiled(s)'
<1>1. DOMAIN db = {"rows", "created"} /\ db.rows \in Seq(FiledRow(s)) /\ db.created \in Int
  BY DEF PaperTypes, PapersFiled
<1>2. ASSUME NEW m \in net, Papers(s)!ServeVerdict(m)
      PROVE  PapersFiled(s)'
  <2>1. CASE Papers(s)!RowOf(m.id) = 0
    BY <1>1, <1>2, <2>1 DEF Papers!ServeVerdict, PapersFiled
  <2>2. CASE Papers(s)!RowOf(m.id) # 0
    <3>1. PICK i \in DOMAIN db.rows : i = Papers(s)!RowOf(m.id)
      BY <2>2, FiledPlace DEF Papers!RowOf
    <3>2. db.rows[i] \in FiledRow(s)
      BY <1>1, <3>1
    <3>3. PICK no \in YesNo : no = FALSE
      BY DEF YesNo
    <3>4. m.status \in {"pending", "approved", "rejected"}
      BY <1>2 DEF Papers!ServeVerdict, PaperTypes, PaperMessage
    <3>5. PICK r \in FiledRow(s) : r = [db.rows[i] EXCEPT !.status = m.status, !.auto = no]
      BY <3>2, <3>3, <3>4, JudgedRow
    <3>6. db' = [db EXCEPT !.rows[i] = r]
      BY <1>1, <1>2, <2>2, <3>1, <3>3, <3>5 DEF Papers!ServeVerdict
    <3>7. [db.rows EXCEPT ![i] = r] \in Seq(FiledRow(s))
      BY <1>1, <3>1, <3>5
    <3> QED BY <1>1, <3>6, <3>7 DEF PapersFiled
  <2> QED BY <2>1, <2>2
<1>3. ASSUME NEW i, Papers(s)!RemoveDocument(i)
      PROVE  PapersFiled(s)'
  <2>1. PICK k : k = Papers(s)!Place(db.rows, ui.list[i].id)
    OBVIOUS
  <2>2. k = 0 \/ k \in 1..Len(db.rows)
    BY <1>1, <2>1, FiledPlace
  <2>3. PICK rows : rows = Papers(s)!Without(db.rows, k)
    OBVIOUS
  <2>4. rows \in Seq(FiledRow(s))
    <3>1. CASE k = 0
      BY <1>1, <2>3, <3>1 DEF Papers!Without
    <3>2. CASE k # 0
      <4>1. /\ SubSeq(db.rows, 1, k - 1) \in Seq(FiledRow(s))
            /\ SubSeq(db.rows, k + 1, Len(db.rows)) \in Seq(FiledRow(s))
        BY <1>1, <2>2, <3>2
      <4> QED BY <2>3, <3>2, <4>1 DEF Papers!Without
    <3> QED BY <3>1, <3>2
  <2>5. db' = [db EXCEPT !.rows = rows]
    BY <1>1, <1>3, <2>1, <2>3 DEF Papers!RemoveDocument
  <2> QED BY <1>1, <2>4, <2>5 DEF PapersFiled
<1>4. ASSUME \/ Papers(s)!Lists \/ Papers(s)!GrowsStale \/ Papers(s)!ClosePage \/ Papers(s)!Attach
             \/ Papers(s)!RemoveMedia \/ Papers(s)!Submit \/ Papers(s)!FillPerson \/ Papers(s)!FillLicence
             \/ Papers(s)!FillCertificate \/ Papers(s)!CloseDetail
             \/ \E id : Papers(s)!OpenPage(id) \/ Papers(s)!OpenDetail(id)
             \/ \E action, note : Papers(s)!RunReview(action, note)
      PROVE  UNCHANGED db
  BY <1>4 DEF Papers!Lists, Papers!GrowsStale, Papers!ClosePage, Papers!Attach, Papers!RemoveMedia, Papers!Submit,
              Papers!FillPerson, Papers!FillLicence, Papers!FillCertificate, Papers!FillIn, Papers!CloseDetail,
              Papers!OpenPage, Papers!OpenDetail, Papers!RunReview
<1>5. ASSUME NEW m \in net,
             \/ Papers(s)!Checked(m) \/ Papers(s)!CheckFails(m) \/ Papers(s)!Uploaded(m) \/ Papers(s)!SaveFails(m)
             \/ Papers(s)!Saved(m) \/ Papers(s)!Judged(m) \/ Papers(s)!VerdictFails(m)
      PROVE  UNCHANGED db
  BY <1>5 DEF Papers!Checked, Papers!CheckFails, Papers!Uploaded, Papers!SaveFails, Papers!Saved, Papers!Judged,
              Papers!VerdictFails
<1>6. ASSUME UNCHANGED db PROVE PapersFiled(s)'
  BY <1>1, <1>6 DEF PapersFiled
<1>7. ASSUME NEW m \in net, Papers(s)!ServeSave(m) PROVE PapersFiled(s)'
  BY <1>7, ServingPapers
<1> QED BY <1>2, <1>3, <1>4, <1>5, <1>6, <1>7 DEF Papers!Next

\* Every message in flight keeps its type.
LEMMA SendingPapers ==
  ASSUME NEW s \in PaperScreens, PaperTypes(s), Papers(s)!Next
  PROVE  \A m \in net' : PaperMessage(s, m)
<1>1. ASSUME NEW a, PaperMessage(s, a), net' \subseteq net \cup {a}
      PROVE  \A m \in net' : PaperMessage(s, m)
  BY <1>1 DEF PaperTypes
<1>2. ASSUME net' \subseteq net
      PROVE  \A m \in net' : PaperMessage(s, m)
  BY <1>2 DEF PaperTypes
<1>3. ASSUME NEW S \in SUBSET net, net' = Papers(s)!Left(S)
      PROVE  \A m \in net' : PaperMessage(s, m)
  <2>1. ASSUME NEW m \in net'
        PROVE  PaperMessage(s, m)
    <3>1. PICK n \in net : n.kind # "check" /\ (m = n \/ m = [n EXCEPT !.left = TRUE])
      BY <1>3, <2>1 DEF Papers!Left
    <3>2. PaperMessage(s, n)
      BY DEF PaperTypes
    <3>3. DOMAIN m = DOMAIN n /\ \A x \in DOMAIN n : x # "left" => m[x] = n[x]
      BY <3>1
    <3>4. "kind" \in DOMAIN m /\ m.kind = n.kind
      BY <3>2, <3>3 DEF PaperMessage
    <3>5. CASE m = n
      BY <3>2, <3>5
    <3>6. CASE m # n
      BY <3>1, <3>2, <3>4, <3>6 DEF PaperMessage
    <3> QED BY <3>5, <3>6
  <2> QED BY <2>1
<1>4. CASE Papers(s)!ClosePage \/ \E m \in net : Papers(s)!Saved(m)
  <2>1. \E S \in SUBSET net : net' = Papers(s)!Left(S)
    BY <1>4 DEF Papers!ClosePage, Papers!Saved
  <2> QED BY <1>3, <2>1
<1>5. CASE Papers(s)!Attach
  <2>1. PICK n \in 1..MaxFiles[s] : net' \subseteq net \cup {[kind |-> "check", file |-> n]}
    BY <1>5 DEF Papers!Attach, Papers!Chosen
  <2>2. PICK a : a = [kind |-> "check", file |-> n]
    OBVIOUS
  <2>3. PaperMessage(s, a)
    BY <2>2, PaperBounds DEF PaperMessage, Attachable, PaperScreens
  <2> QED BY <1>1, <2>1, <2>2, <2>3
<1>6. CASE Papers(s)!Submit
  <2>1. PICK e \in FiledRow(s) : e = Papers(s)!Existing
    BY ExistingFiled DEF PaperTypes, PapersOnScreen, Papers!Existing
  <2>2. PICK a : a = Papers(s)!Payload
    OBVIOUS
  <2>3. ui.file \in Int /\ ui.form.says \in Attachable(s) /\ e.photo \in Int
    BY DEF PaperTypes, PapersOnScreen, Attachable, Filling, FiledRow
  <2>4. /\ DOMAIN a = {"kind", "id", "says", "photo", "left"} /\ a.kind \in {"save", "upload"}
        /\ a.says = ui.form.says /\ a.photo = Papers(s)!Photo
    BY <2>2 DEF Papers!Payload
  <2>5. a.photo \in Int
    BY <2>1, <2>3, <2>4 DEF Papers!Photo
  <2>6. PaperMessage(s, a)
    BY <2>3, <2>4, <2>5 DEF PaperMessage
  <2> QED BY <1>1, <1>6, <2>2, <2>6 DEF Papers!Submit
<1>7. ASSUME NEW action \in {"approved", "rejected"}, NEW note, Papers(s)!RunReview(action, note)
      PROVE  \A m \in net' : PaperMessage(s, m)
  <2>1. PICK a : a = [kind |-> "verdict", id |-> ui.open, status |-> action]
    OBVIOUS
  <2>2. PaperMessage(s, a)
    BY <2>1 DEF PaperMessage
  <2> QED BY <1>1, <1>7, <2>1, <2>2 DEF Papers!RunReview
<1>8. ASSUME NEW m \in net, Papers(s)!Uploaded(m)
      PROVE  \A n \in net' : PaperMessage(s, n)
  <2>1. PICK a : a = [m EXCEPT !.kind = "save"]
    OBVIOUS
  <2>2. m.kind = "upload" /\ net' = (net \ {m}) \cup {a}
    BY <1>8, <2>1 DEF Papers!Uploaded
  <2>3. PaperMessage(s, a)
    BY <2>1, <2>2 DEF PaperTypes, PaperMessage
  <2> QED BY <1>1, <2>2, <2>3
<1>9. ASSUME NEW m \in net, Papers(s)!ServeSave(m) \/ Papers(s)!ServeVerdict(m)
      PROVE  \A n \in net' : PaperMessage(s, n)
  <2>1. PICK a \in {[kind |-> "saved", left |-> m.left], [kind |-> "judged"]} : net' = (net \ {m}) \cup {a}
    BY <1>9 DEF Papers!ServeSave, Papers!ServeVerdict
  <2>2. PaperMessage(s, a)
    BY DEF PaperMessage
  <2> QED BY <1>1, <2>1, <2>2
<1>10. ASSUME \/ Papers(s)!Lists \/ Papers(s)!GrowsStale \/ Papers(s)!RemoveMedia \/ Papers(s)!FillPerson
              \/ Papers(s)!FillLicence \/ Papers(s)!FillCertificate \/ Papers(s)!CloseDetail
              \/ \E id : Papers(s)!OpenPage(id) \/ Papers(s)!OpenDetail(id) \/ Papers(s)!RemoveDocument(id)
       PROVE  net' \subseteq net
  BY <1>10 DEF Papers!Lists, Papers!GrowsStale, Papers!RemoveMedia, Papers!FillPerson, Papers!FillLicence,
               Papers!FillCertificate, Papers!FillIn, Papers!CloseDetail, Papers!OpenPage, Papers!OpenDetail,
               Papers!RemoveDocument
<1>11. ASSUME NEW m \in net,
              \/ Papers(s)!Checked(m) \/ Papers(s)!CheckFails(m) \/ Papers(s)!SaveFails(m) \/ Papers(s)!Judged(m)
              \/ Papers(s)!VerdictFails(m)
       PROVE  net' \subseteq net
  BY <1>11 DEF Papers!Checked, Papers!CheckFails, Papers!SaveFails, Papers!Judged, Papers!VerdictFails
<1> QED BY <1>2, <1>4, <1>5, <1>6, <1>7, <1>8, <1>9, <1>10, <1>11 DEF Papers!Next

\* Every step keeps them.
LEMMA PaperTypesStep ==
  ASSUME NEW s \in PaperScreens, PaperTypes(s), Papers(s)!Next \/ UNCHANGED <<ui, db, net>>
  PROVE  PaperTypes(s)'
<1>1. CASE Papers(s)!Next
  <2>1. PapersOnScreen(s)'
    BY <1>1, ReadingPapers, AttachingPapers, OtherPapers DEF Papers!Next
  <2> QED BY <1>1, <2>1, FilingPapers, SendingPapers DEF PaperTypes, PaperMessage, Attachable
<1>2. CASE UNCHANGED <<ui, db, net>>
  BY <1>2 DEF PaperTypes, PapersOnScreen, PapersFiled, PaperMessage, Attachable, FiledRow, Filling
<1> QED BY <1>1, <1>2

-----------------------------------------------------------------------------
(***************************************************************************)
(* The pages of a listing.  A code and an address are typed, looked up, or *)
(* those of a listing that was read, and what is read was sent.            *)
(***************************************************************************)
Located(s, r) == r.cep \in Ceps[s] \cup {0, 1} /\ r.address \in Addresses[s] \cup Ceps[s] \cup {0, 1}

PageLocated(s, u) ==
  /\ u.opens \in 0..MaxOpens[s] /\ u.machine \in Machines[s] \cup {0}
  /\ Located(s, u) /\ Located(s, u.read)
  /\ u.answer \in {"none", "waiting", "shown", "dismissed"}

RowsLocated(s) == (\A i \in DOMAIN db : Located(s, db[i])) /\ (s = "listing" => Len(db) = 1)

MessageLocated(s, m) ==
  /\ m.kind \in {"detailed", "save", "checked", "create"} => Located(s, m.row)
  /\ m.kind = "lookup" => m.cep \in Ceps[s]
  /\ m.kind = "create" => s # "listing"

ListingTypes(s) == PageLocated(s, ui) /\ RowsLocated(s) /\ \A m \in net : MessageLocated(s, m)

\* They are the types of the module.
LEMMA ListingTyped ==
  ASSUME NEW s \in ListingScreens, ListingTypes(s)
  PROVE  Lists(s)!TypeOK
BY DEF ListingTypes, PageLocated, RowsLocated, Located, Lists!TypeOK

\* They hold at first.
LEMMA ListingTypesStart ==
  ASSUME NEW s \in ListingScreens, Lists(s)!Init
  PROVE  ListingTypes(s)
<1>1. PICK unread : unread = Lists(s)!Unread
  OBVIOUS
<1>2. unread.cep = 0 /\ unread.address = 0
  BY <1>1 DEF Lists!Unread, Lists!Row
<1>3. /\ ui.opens = 0 /\ ui.machine = 0 /\ ui.cep = 0 /\ ui.address = 0 /\ ui.read = unread /\ ui.answer = "none"
  BY <1>1 DEF Lists!Init, Lists!Closed
<1>4. PageLocated(s, ui)
  BY <1>2, <1>3, ListingBounds DEF PageLocated, Located
<1>5. PICK row : row = Lists(s)!Row(1, 1, Lists(s)!Point(1, 1), FALSE, "active", 0)
  OBVIOUS
<1>6. row.cep = 1 /\ row.address = 1
  BY <1>5 DEF Lists!Row
<1>7. db = (IF s = "listing" THEN <<row>> ELSE <<>>) /\ net = {}
  BY <1>5 DEF Lists!Init
<1>8. RowsLocated(s)
  <2>1. CASE s = "listing"
    <3>1. db = <<row>>
      BY <1>7, <2>1
    <3>2. Len(db) = 1 /\ \A i \in DOMAIN db : db[i] = row
      BY <3>1
    <3> QED BY <1>6, <3>2 DEF RowsLocated, Located
  <2>2. CASE s # "listing"
    BY <1>7, <2>2 DEF RowsLocated
  <2> QED BY <2>1, <2>2
<1> QED BY <1>4, <1>7, <1>8 DEF ListingTypes

\* What a page that changes sends is what it was given to send.
LEMMA BecomesLocated ==
  ASSUME NEW s \in ListingScreens, NEW v, NEW ms, Lists(s)!Becomes(v, ms), \A m \in ms : MessageLocated(s, m)
  PROVE  ui' = v /\ \A m \in net' : MessageLocated(s, m)
<1>1. ui' = v /\ net' = Lists(s)!Mapped(ui, v, ms)
  BY DEF Lists!Becomes
<1>2. ASSUME NEW m \in net'
      PROVE  m \in ms \/ m = [kind |-> "locate"]
  BY <1>1, <1>2 DEF Lists!Mapped
<1>3. ASSUME NEW m, m = [kind |-> "locate"]
      PROVE  MessageLocated(s, m)
  BY <1>3 DEF MessageLocated
<1> QED BY <1>1, <1>2, <1>3

\* Readings asked for beside what is under way.
LEMMA AskedLocated ==
  ASSUME NEW s \in ListingScreens, \A m \in net : MessageLocated(s, m), NEW ms,
         \A m \in ms : m \in net \/ m = [kind |-> "detail"]
  PROVE  \A m \in ms : MessageLocated(s, m)
<1>1. ASSUME NEW m, m = [kind |-> "detail"]
      PROVE  MessageLocated(s, m)
  BY <1>1 DEF MessageLocated
<1> QED BY <1>1

\* The page is mounted, and its address typed or looked up.
LEMMA AddressLocated ==
  ASSUME NEW s \in ListingScreens, ListingInv(s), ListingTypes(s),
         \/ Lists(s)!Open
         \/ \E c \in Ceps[s] \cup {0} : Lists(s)!TypeCep(c)
         \/ \E a \in Addresses[s] \cup {0} : Lists(s)!TypeAddress(a)
         \/ \E m \in net : Lists(s)!LookupArrives(m) \/ Lists(s)!LocateArrives(m)
  PROVE  ListingTypes(s)'
<1>1. ASSUME NEW v, NEW ms, Lists(s)!Becomes(v, ms), \A m \in ms : MessageLocated(s, m), PageLocated(s, v), db' = db
      PROVE  ListingTypes(s)'
  BY <1>1, BecomesLocated DEF ListingTypes, PageLocated, RowsLocated, MessageLocated, Located
<1> USE DEF ListingInv, ListingPage, ListingTypes
<1>2. CASE Lists(s)!Open
  <2>1. PICK v : v = Lists(s)!Fresh(ui)
    OBVIOUS
  <2>2. PICK ms : ms = Lists(s)!Joined(net)
    OBVIOUS
  <2>3. Lists(s)!Becomes(v, ms) /\ db' = db /\ ui.opens < MaxOpens[s]
    BY <1>2, <2>1, <2>2 DEF Lists!Open
  <2>4. /\ v.opens = ui.opens + 1 /\ v.machine = 0 /\ v.cep = ui.read.cep /\ v.address = ui.read.address
        /\ v.read = ui.read /\ v.answer = "none"
    BY <2>1 DEF Lists!Fresh
  <2>5. PageLocated(s, v)
    BY <2>3, <2>4, ListingBounds DEF PageLocated, Located
  <2>6. \A m \in ms : m \in net \/ m = [kind |-> "detail"]
    BY <2>2 DEF Lists!Joined
  <2> QED BY <1>1, <2>3, <2>5, <2>6, AskedLocated
<1>3. ASSUME NEW c \in Ceps[s] \cup {0}, Lists(s)!TypeCep(c)
      PROVE  ListingTypes(s)'
  <2>1. PICK v : v = [ui EXCEPT !.cep = c, !.located = Lists(s)!Nowhere, !.drift = FALSE]
    OBVIOUS
  <2>2. PICK ms : ms = net \cup (IF c = 0 THEN {} ELSE {[kind |-> "lookup", cep |-> c]})
    OBVIOUS
  <2>3. Lists(s)!Becomes(v, ms) /\ db' = db
    BY <1>3, <2>1, <2>2 DEF Lists!TypeCep
  <2>4. /\ v.opens = ui.opens /\ v.machine = ui.machine /\ v.cep = c /\ v.address = ui.address
        /\ v.read = ui.read /\ v.answer = ui.answer
    BY <2>1
  <2>5. PageLocated(s, v)
    BY <1>3, <2>4 DEF PageLocated, Located
  <2>6. ASSUME c # 0, NEW m, m = [kind |-> "lookup", cep |-> c]
        PROVE  MessageLocated(s, m)
    BY <1>3, <2>6 DEF MessageLocated
  <2>7. \A m \in ms : MessageLocated(s, m)
    BY <2>2, <2>6
  <2> QED BY <1>1, <2>3, <2>5, <2>7
<1>4. ASSUME NEW a \in Addresses[s] \cup {0}, Lists(s)!TypeAddress(a)
      PROVE  ListingTypes(s)'
  <2>1. PICK v : v = [ui EXCEPT !.cep = 0, !.address = a, !.located = Lists(s)!Nowhere, !.drift = FALSE]
    OBVIOUS
  <2>2. Lists(s)!Becomes(v, net) /\ db' = db
    BY <1>4, <2>1 DEF Lists!TypeAddress
  <2>3. PageLocated(s, v)
    BY <1>4, <2>1 DEF PageLocated, Located
  <2> QED BY <1>1, <2>2, <2>3
<1>5. ASSUME NEW m \in net, Lists(s)!LookupArrives(m)
      PROVE  ListingTypes(s)'
  <2>1. PICK drift : drift = (ui.drift \/ (ui.located # Lists(s)!Nowhere /\ m.cep # ui.address))
    OBVIOUS
  <2>2. PICK v : v = [ui EXCEPT !.address = m.cep, !.drift = drift]
    OBVIOUS
  <2>3. v = [ui EXCEPT !.address = m.cep,
                       !.drift = ui.drift \/ (ui.located # Lists(s)!Nowhere /\ m.cep # ui.address)]
    BY <2>1, <2>2
  <2>4. Lists(s)!Becomes(v, net \ {m}) /\ db' = db /\ m.cep \in Ceps[s]
    BY <1>5, <2>3 DEF Lists!LookupArrives, MessageLocated
  <2>5. PageLocated(s, v)
    BY <2>2, <2>4 DEF PageLocated, Located
  <2> QED BY <1>1, <2>4, <2>5
<1>6. ASSUME NEW m \in net, Lists(s)!LocateArrives(m)
      PROVE  ListingTypes(s)'
  <2>1. PICK v : v = [ui EXCEPT !.located = Lists(s)!Query(ui), !.drift = FALSE]
    OBVIOUS
  <2>2. Lists(s)!Becomes(v, net \ {m}) /\ db' = db
    BY <1>6, <2>1 DEF Lists!LocateArrives
  <2>3. PageLocated(s, v)
    BY <2>1 DEF PageLocated, Located
  <2> QED BY <1>1, <2>2, <2>3
<1> QED BY <1>2, <1>3, <1>4, <1>5, <1>6

\* The listing is read: its form takes the address of a row.
LEMMA DetailLocated ==
  ASSUME NEW s \in ListingScreens, ListingInv(s), ListingTypes(s), NEW m \in net,
         Lists(s)!DetailArrives(m) \/ Lists(s)!DetailFails(m)
  PROVE  ListingTypes(s)'
<1> USE DEF ListingInv, ListingPage, ListingTypes
<1>1. CASE Lists(s)!DetailFails(m)
  <2>1. PICK v : v = [ui EXCEPT !.error = ui.open]
    OBVIOUS
  <2>2. Lists(s)!Becomes(v, net \ {m}) /\ db' = db
    BY <1>1, <2>1 DEF Lists!DetailFails
  <2>3. PageLocated(s, v)
    BY <2>1 DEF PageLocated, Located
  <2> QED BY <2>2, <2>3, BecomesLocated DEF PageLocated, RowsLocated, MessageLocated, Located
<1>2. CASE Lists(s)!DetailArrives(m) /\ ~ui.open
  <2>1. ui' = [ui EXCEPT !.read = m.row] /\ db' = db /\ net' \subseteq net /\ Located(s, m.row)
    BY <1>2 DEF Lists!DetailArrives, MessageLocated
  <2>2. PageLocated(s, ui')
    BY <2>1 DEF PageLocated, Located
  <2> QED BY <2>1, <2>2 DEF PageLocated, RowsLocated, MessageLocated, Located
<1>3. CASE Lists(s)!DetailArrives(m) /\ ui.open
  <2>1. PICK v : v = Lists(s)!Reset(ui, m.row)
    OBVIOUS
  <2>2. Lists(s)!Becomes(v, net \ {m}) /\ db' = db /\ Located(s, m.row)
    BY <1>3, <2>1 DEF Lists!DetailArrives, MessageLocated
  <2>3. PageLocated(s, v)
    <3>1. CASE m.row = ui.read
      BY <2>1, <3>1 DEF Lists!Reset, PageLocated, Located
    <3>2. CASE m.row # ui.read
      <4>1. PICK drift : drift = (ui.drift \/ (ui.located # Lists(s)!Nowhere
                                               /\ Lists(s)!Query(ui) # Lists(s)!Point(m.row.cep, m.row.address)))
        OBVIOUS
      <4>2. v = [ui EXCEPT !.read = m.row, !.error = FALSE, !.cep = m.row.cep, !.address = m.row.address,
                           !.status = m.row.status, !.drift = drift]
        BY <2>1, <3>2, <4>1 DEF Lists!Reset
      <4> QED BY <2>2, <4>2 DEF PageLocated, Located
    <3> QED BY <3>1, <3>2
  <2> QED BY <2>2, <2>3, BecomesLocated DEF PageLocated, RowsLocated, MessageLocated, Located
<1> QED BY <1>1, <1>2, <1>3 DEF Lists!DetailArrives

\* What is sent is of the address on screen.
LEMMA SendingLocated ==
  ASSUME NEW s \in ListingScreens, ListingInv(s), ListingTypes(s), Lists(s)!Submit \/ Lists(s)!Remove
  PROVE  ListingTypes(s)'
<1> USE DEF ListingInv, ListingPage, ListingTypes
<1>1. PageLocated(s, ui') /\ db' = db
  BY DEF Lists!Submit, Lists!Remove, PageLocated, Located
<1>2. CASE Lists(s)!Submit
  <2>1. PICK row : row = Lists(s)!Content(ui)
    OBVIOUS
  <2>2. row.cep = ui.cep /\ row.address = ui.address
    BY <2>1 DEF Lists!Content, Lists!Row
  <2>3. PICK kind : kind = IF s = "listing" THEN "save" ELSE "create"
    OBVIOUS
  <2>4. PICK n : n = [kind |-> kind, page |-> ui.opens, row |-> row]
    OBVIOUS
  <2>5. net' = net \cup {n}
    BY <1>2, <2>1, <2>3, <2>4 DEF Lists!Submit
  <2>6. MessageLocated(s, n)
    BY <2>2, <2>3, <2>4 DEF MessageLocated, PageLocated, Located
  <2> QED BY <1>1, <2>5, <2>6 DEF PageLocated, RowsLocated, MessageLocated, Located
<1>3. CASE Lists(s)!Remove
  <2>1. PICK n : n = [kind |-> "remove", page |-> ui.opens]
    OBVIOUS
  <2>2. net' = net \cup {n} /\ MessageLocated(s, n)
    BY <1>3, <2>1 DEF Lists!Remove, MessageLocated
  <2> QED BY <1>1, <2>2 DEF PageLocated, RowsLocated, MessageLocated, Located
<1> QED BY <1>2, <1>3

\* The rest of the page leaves the address as it is.
LEMMA OtherLocated ==
  ASSUME NEW s \in ListingScreens, ListingInv(s), ListingTypes(s),
         \/ Lists(s)!Leave \/ Lists(s)!Reconnect \/ Lists(s)!ReadAgain \/ Lists(s)!RequestPrice
         \/ Lists(s)!SetPrice \/ Lists(s)!Dismiss
         \/ \E k \in Machines[s] \cup {0} : Lists(s)!SelectMachine(k)
         \/ \E st : Lists(s)!SelectStatus(st)
         \/ \E m \in net :
              \/ Lists(s)!LookupFails(m) \/ Lists(s)!LocateFails(m) \/ Lists(s)!CreatedArrives(m)
              \/ Lists(s)!Done(m) \/ Lists(s)!RequestFails(m)
              \/ \E found \in BOOLEAN : Lists(s)!PriceArrives(m, found)
  PROVE  ListingTypes(s)'
<1> USE DEF ListingInv, ListingPage, ListingTypes
<1> DEFINE Spoken(n) == "kind" \in DOMAIN n /\ n.kind \in {"detail", "suggest", "photos"}
<1>1. ASSUME db' = db, PageLocated(s, ui'), \A n \in net' : n \in net \/ Spoken(n)
      PROVE  ListingTypes(s)'
  BY <1>1 DEF PageLocated, RowsLocated, MessageLocated, Located
<1>2. ASSUME Lists(s)!Leave \/ Lists(s)!Reconnect \/ Lists(s)!ReadAgain
      PROVE  db' = db /\ PageLocated(s, ui') /\ \A n \in net' : n \in net \/ Spoken(n)
  <2>1. db' = db /\ \A n \in net' : n \in net \/ n = [kind |-> "detail"]
    BY <1>2 DEF Lists!Leave, Lists!Left, Lists!Reconnect, Lists!ReadAgain, Lists!Joined, Lists!Restarted
  <2>2. ASSUME NEW n, n = [kind |-> "detail"]
        PROVE  Spoken(n)
    BY <2>2
  <2>3. PageLocated(s, ui')
    BY <1>2 DEF Lists!Leave, Lists!Reconnect, Lists!ReadAgain, PageLocated, Located
  <2> QED BY <2>1, <2>2, <2>3
<1>3. ASSUME Lists(s)!RequestPrice
      PROVE  db' = db /\ PageLocated(s, ui') /\ \A n \in net' : n \in net \/ Spoken(n)
  <2>1. PICK n : n = [kind |-> "suggest", asked |-> ui'.asked]
    OBVIOUS
  <2>2. db' = db /\ net' = net \cup {n} /\ Spoken(n)
    BY <1>3, <2>1 DEF Lists!RequestPrice
  <2>3. PageLocated(s, ui')
    BY <1>3 DEF Lists!RequestPrice, PageLocated, Located
  <2> QED BY <2>2, <2>3
<1>4. ASSUME Lists(s)!SetPrice \/ Lists(s)!Dismiss \/ \E st : Lists(s)!SelectStatus(st)
      PROVE  db' = db /\ PageLocated(s, ui') /\ net' = net
  BY <1>4 DEF Lists!SetPrice, Lists!Dismiss, Lists!SelectStatus, PageLocated, Located
<1>5. ASSUME NEW k \in Machines[s] \cup {0}, Lists(s)!SelectMachine(k)
      PROVE  db' = db /\ PageLocated(s, ui') /\ net' = net
  BY <1>5 DEF Lists!SelectMachine, Lists!Detached, PageLocated, Located
<1>6. ASSUME NEW m \in net, Lists(s)!LookupFails(m) \/ Lists(s)!LocateFails(m)
      PROVE  db' = db /\ PageLocated(s, ui') /\ net' \subseteq net
  BY <1>6 DEF Lists!LookupFails, Lists!LocateFails
<1>7. ASSUME NEW m \in net, Lists(s)!CreatedArrives(m)
      PROVE  db' = db /\ PageLocated(s, ui') /\ \A n \in net' : n \in net \/ Spoken(n)
  <2>1. PICK n : n = [kind |-> "photos", page |-> m.page]
    OBVIOUS
  <2> QED BY <1>7, <2>1 DEF Lists!CreatedArrives
<1>8. ASSUME NEW m \in net, Lists(s)!Done(m)
      PROVE  db' = db /\ PageLocated(s, ui') /\ \A n \in net' : n \in net \/ Spoken(n)
  <2>1. db' = db /\ \A n \in net' : n \in net \/ n = [kind |-> "detail"]
    BY <1>8 DEF Lists!Done, Lists!Left, Lists!Restarted
  <2>2. ASSUME NEW n, n = [kind |-> "detail"]
        PROVE  Spoken(n)
    BY <2>2
  <2>3. PageLocated(s, ui')
    BY <1>8 DEF Lists!Done, PageLocated, Located
  <2> QED BY <2>1, <2>2, <2>3
<1>9. ASSUME NEW m \in net, Lists(s)!RequestFails(m)
      PROVE  db' = db /\ PageLocated(s, ui') /\ net' \subseteq net
  BY <1>9 DEF Lists!RequestFails, PageLocated, Located
<1>10. ASSUME NEW m \in net, NEW found \in BOOLEAN, Lists(s)!PriceArrives(m, found)
       PROVE  db' = db /\ PageLocated(s, ui') /\ net' \subseteq net
  BY <1>10 DEF Lists!PriceArrives, PageLocated, Located
<1> HIDE DEF Spoken
<1> QED BY <1>1, <1>2, <1>3, <1>4, <1>5, <1>6, <1>7, <1>8, <1>9, <1>10

\* The server keeps rows that were sent, and answers with those it keeps.
LEMMA ServedLocated ==
  ASSUME NEW s \in ListingScreens, ListingInv(s), ListingTypes(s),
         \/ \E status : Lists(s)!Moderate(status)
         \/ \E m \in net : \/ Lists(s)!ServeDetail(m) \/ Lists(s)!ServeCreate(m) \/ Lists(s)!ServeCheck(m)
                           \/ Lists(s)!ServeSave(m) \/ Lists(s)!ServeRemove(m)
  PROVE  ListingTypes(s)'
<1> USE DEF ListingInv, ListingTypes
<1>1. PICK rows : db \in Seq(rows)
  BY DEF ListingRows
<1>2. ASSUME ui' = ui, RowsLocated(s)', \A n \in net' : n \in net \/ MessageLocated(s, n)
      PROVE  ListingTypes(s)'
  BY <1>2 DEF PageLocated, MessageLocated, Located
<1>3. ASSUME NEW status, Present, db' = [db EXCEPT ![1].status = status]
      PROVE  RowsLocated(s)'
  <2>1. PICK row : row = [db[1] EXCEPT !.status = status]
    OBVIOUS
  <2>2. PointKept(s, db[1])
    BY <1>3 DEF ListingRows, Present
  <2>3. Located(s, db[1])
    BY <1>3 DEF RowsLocated, Present
  <2>4. Located(s, row)
    BY <2>1, <2>2, <2>3 DEF Located, PointKept
  <2>5. db' = [db EXCEPT ![1] = row]
    BY <1>3, <2>1
  <2> QED BY <1>1, <2>4, <2>5 DEF RowsLocated, Located
<1>4. ASSUME NEW status, Lists(s)!Moderate(status)
      PROVE  ListingTypes(s)'
  BY <1>2, <1>3, <1>4 DEF Lists!Moderate, ListingRows
<1>5. ASSUME NEW m \in net, Lists(s)!ServeDetail(m)
      PROVE  ListingTypes(s)'
  <2>1. PICK n : n = [kind |-> "detailed", row |-> db[1]]
    OBVIOUS
  <2>2. m.kind = "detail" /\ net' = (net \ {m}) \cup {n} /\ ui' = ui /\ db' = db
    BY <1>5, <2>1 DEF Lists!ServeDetail, Lists!Answered
  <2>3. Located(s, db[1])
    BY <2>2 DEF ListingMessage, Present, RowsLocated
  <2>4. MessageLocated(s, n)
    BY <2>1, <2>3 DEF MessageLocated
  <2> QED BY <1>2, <2>2, <2>4 DEF RowsLocated, Located
<1>6. ASSUME NEW m \in net, Lists(s)!ServeCreate(m)
      PROVE  ListingTypes(s)'
  <2>1. PICK n : n = [kind |-> "created", page |-> m.page]
    OBVIOUS
  <2>2. MessageLocated(s, n)
    BY <2>1 DEF MessageLocated
  <2>3. s # "listing" /\ Located(s, m.row) /\ db' = Append(db, m.row) /\ net' = (net \ {m}) \cup {n} /\ ui' = ui
    BY <1>6, <2>1 DEF Lists!ServeCreate, Lists!Answered, MessageLocated
  <2>4. \A i \in DOMAIN db' : db'[i] = m.row \/ (i \in DOMAIN db /\ db'[i] = db[i])
    BY <1>1, <2>3
  <2>5. RowsLocated(s)'
    BY <2>3, <2>4 DEF RowsLocated, Located
  <2> QED BY <1>2, <2>2, <2>3, <2>5
<1>7. ASSUME NEW m \in net, Lists(s)!ServeCheck(m)
      PROVE  ListingTypes(s)'
  <2>1. PICK n : n = [m EXCEPT !.kind = "checked"]
    OBVIOUS
  <2>2. m.kind = "save" /\ net' = (net \ {m}) \cup {n} /\ ui' = ui /\ db' = db
    BY <1>7, <2>1 DEF Lists!ServeCheck, Lists!Answered
  <2>3. n.kind = "checked" /\ n.row = m.row /\ Located(s, m.row)
    BY <2>1, <2>2 DEF ListingMessage, MessageLocated
  <2>4. MessageLocated(s, n)
    BY <2>3 DEF MessageLocated
  <2> QED BY <1>2, <2>2, <2>4 DEF RowsLocated, Located
<1>8. ASSUME NEW m \in net, Lists(s)!ServeSave(m)
      PROVE  ListingTypes(s)'
  <2>1. PICK n : n = [kind |-> "saved", page |-> m.page]
    OBVIOUS
  <2>2. MessageLocated(s, n)
    BY <2>1 DEF MessageLocated
  <2>3. Located(s, m.row) /\ db' = [db EXCEPT ![1] = m.row] /\ net' = (net \ {m}) \cup {n} /\ ui' = ui
    BY <1>8, <2>1 DEF Lists!ServeSave, Lists!Answered, MessageLocated
  <2>4. RowsLocated(s)'
    BY <1>1, <2>3 DEF RowsLocated, Located
  <2> QED BY <1>2, <2>2, <2>3, <2>4
<1>9. ASSUME NEW m \in net, Lists(s)!ServeRemove(m)
      PROVE  ListingTypes(s)'
  <2>1. PICK n : n = [kind |-> "removed", page |-> m.page]
    OBVIOUS
  <2>2. MessageLocated(s, n)
    BY <2>1 DEF MessageLocated
  <2>3. m.kind = "remove" /\ db' = [db EXCEPT ![1].status = "removed"] /\ net' = (net \ {m}) \cup {n} /\ ui' = ui
    BY <1>9, <2>1 DEF Lists!ServeRemove, Lists!Answered
  <2>4. RowsLocated(s)'
    BY <1>3, <2>3 DEF ListingMessage
  <2> QED BY <1>2, <2>2, <2>3, <2>4
<1> QED BY <1>4, <1>5, <1>6, <1>7, <1>8, <1>9

\* Every step keeps them.
LEMMA ListingTypesStep ==
  ASSUME NEW s \in ListingScreens, ListingInv(s), ListingTypes(s), Lists(s)!Next \/ UNCHANGED <<ui, db, net>>
  PROVE  ListingTypes(s)'
<1>1. CASE Lists(s)!Next
  BY <1>1, AddressLocated, DetailLocated, SendingLocated, OtherLocated, ServedLocated DEF Lists!Next
<1>2. CASE UNCHANGED <<ui, db, net>>
  BY <1>2 DEF ListingTypes, PageLocated, RowsLocated, MessageLocated, Located
<1> QED BY <1>1, <1>2


-----------------------------------------------------------------------------
(***************************************************************************)
(* The signature dialogs.  What is sent is about a contract of the user,   *)
(* and a revision loaded is one that a contract has or had.                *)
(***************************************************************************)
SignerTyped(s, u) ==
  /\ u.open \in Contracts[s] \cup {0} /\ u.panel \in Contracts[s] \cup {0} /\ u.receipt \in Contracts[s] \cup {0}
  /\ u.doc \in 0..MaxRevision[s] /\ u.base \in 0..MaxRevision[s] /\ u.loads \in 0..MaxOpens[s]

\* A code is sent for a revision the contract has or had.
ContractTyped(s, row) == row.revision \in 1..MaxRevision[s] /\ row.code \in 0..row.revision

AboutContract(s, m) ==
  /\ m.kind \in {"load", "otp", "sign", "signed", "propose", "decide"} => m.contract \in Contracts[s]
  /\ m.kind = "loaded" => m.revision \in 1..MaxRevision[s]

SigningTypes(s) ==
  /\ SignerTyped(s, ui)
  /\ \A c \in Contracts[s] : ContractTyped(s, db[c])
  /\ \A m \in net : AboutContract(s, m)

\* The bounds of one dialog.
LEMMA SigningBound ==
  ASSUME NEW s \in SigningScreens
  PROVE  MaxRevision[s] \in Nat \ {0} /\ MaxOpens[s] \in Nat
BY SigningBounds

\* They are the types of the module.
LEMMA SigningTyped ==
  ASSUME NEW s \in SigningScreens, SigningTypes(s)
  PROVE  Signs(s)!TypeOK
BY DEF SigningTypes, SignerTyped, ContractTyped, Signs!TypeOK

\* They hold at first.
LEMMA SigningTypesStart ==
  ASSUME NEW s \in SigningScreens, Signs(s)!Init
  PROVE  SigningTypes(s)
<1>1. SignerTyped(s, ui)
  BY SigningBound DEF Signs!Init, SignerTyped
<1>2. ASSUME NEW c \in Contracts[s]
      PROVE  ContractTyped(s, db[c])
  <2>1. db[c].revision = 1 /\ db[c].code = 0
    BY <1>2 DEF Signs!Init
  <2> QED BY <2>1, SigningBound DEF ContractTyped
<1>3. net = {}
  BY DEF Signs!Init
<1> QED BY <1>1, <1>2, <1>3 DEF SigningTypes

\* A document starts to load, of a contract of the user.
LEMMA LoadTyped ==
  ASSUME NEW s \in SigningScreens, SigningTypes(s), NEW u, SignerTyped(s, u), DOMAIN u = DOMAIN ui, SigningShape(s),
         NEW c \in Contracts[s], NEW S \in SUBSET net, Signs(s)!Load(u, c, S)
  PROVE  SignerTyped(s, ui') /\ \A m \in net' : AboutContract(s, m)
<1>1. /\ u.loads < MaxOpens[s]
      /\ ui'.open = c /\ ui'.loads = u.loads + 1 /\ ui'.doc = 0 /\ ui'.receipt = 0
      /\ ui'.panel = u.panel /\ ui'.base = u.base
  BY DEF Signs!Load, Signs!FromNothing, SigningShape
<1>2. SignerTyped(s, ui')
  BY <1>1, SigningBound DEF SignerTyped
<1>3. PICK l : l = [kind |-> "load", contract |-> c]
  OBVIOUS
<1>4. \A m \in net' : m \in net \/ m = l
  BY <1>3 DEF Signs!Load
<1>5. AboutContract(s, l)
  BY <1>3 DEF AboutContract
<1> QED BY <1>2, <1>4, <1>5 DEF SigningTypes

\* The dialog and the panel keep their types.
LEMMA SignerTypedStep ==
  ASSUME NEW s \in SigningScreens, SigningInv(s), SigningTypes(s), Signs(s)!Next
  PROVE  SignerTyped(s, ui')
<1> USE DEF SigningInv, SigningShape, SigningTypes
<1>1. ASSUME NEW c \in Contracts[s], Signs(s)!Open(c)
      PROVE  SignerTyped(s, ui')
  BY <1>1, LoadTyped DEF Signs!Open
<1>2. ASSUME NEW m \in net, Signs(s)!StaleArrives(m)
      PROVE  SignerTyped(s, ui')
  <2>1. PICK u : u = Signs(s)!Idle(ui, m.of)
    OBVIOUS
  <2>2. DOMAIN u = DOMAIN ui /\ SignerTyped(s, u)
    BY <2>1 DEF Signs!Idle, SignerTyped
  <2>3. CASE ui.open = 0
    BY <1>2, <2>1, <2>2, <2>3 DEF Signs!StaleArrives
  <2>4. CASE ui.open # 0
    <3>1. ui.open \in Contracts[s] /\ Signs(s)!Load(u, ui.open, net \ {m})
      BY <1>2, <2>1, <2>4 DEF Signs!StaleArrives, SignerTyped
    <3> QED BY <2>2, <3>1, LoadTyped
  <2> QED BY <2>3, <2>4
<1>3. ASSUME NEW m \in net, Signs(s)!LoadedArrives(m)
      PROVE  SignerTyped(s, ui')
  <2>1. ui' = [ui EXCEPT !.doc = m.revision, !.mine = m.mine, !.loading = FALSE] /\ m.kind = "loaded"
    BY <1>3 DEF Signs!LoadedArrives
  <2>2. m.revision \in 0..MaxRevision[s]
    BY <2>1, SigningBound DEF AboutContract
  <2> QED BY <2>1, <2>2 DEF SignerTyped
<1>4. ASSUME NEW m \in net, Signs(s)!SignedArrives(m)
      PROVE  SignerTyped(s, ui')
  <2>1. m.contract \in Contracts[s]
    BY <1>4 DEF Signs!SignedArrives, AboutContract
  <2> QED BY <1>4, <2>1 DEF Signs!SignedArrives, SignerTyped
<1>5. ASSUME NEW m \in net, \/ Signs(s)!LoadFails(m) \/ Signs(s)!CodeSent(m) \/ Signs(s)!RequestFails(m)
      PROVE  SignerTyped(s, ui')
  BY <1>5 DEF Signs!LoadFails, Signs!CodeSent, Signs!RequestFails, Signs!Idle, SignerTyped
<1>6. ASSUME NEW m \in net, Signs(s)!PanelAnswered(m)
      PROVE  SignerTyped(s, ui')
  <2>1. /\ ui'.base = IF m.kind = "settled" /\ ui.panel # 0 THEN db[ui.panel].revision ELSE ui.base
        /\ ui'.open = ui.open /\ ui'.panel = ui.panel /\ ui'.receipt = ui.receipt /\ ui'.doc = ui.doc
        /\ ui'.loads = ui.loads
    BY <1>6 DEF Signs!PanelAnswered
  <2>2. ui.panel # 0 => db[ui.panel].revision \in 0..MaxRevision[s]
    BY SigningBound DEF SignerTyped, ContractTyped
  <2> QED BY <2>1, <2>2 DEF SignerTyped
<1>7. ASSUME NEW c \in Contracts[s], Signs(s)!OpenPanel(c)
      PROVE  SignerTyped(s, ui')
  <2>1. ui' = [ui EXCEPT !.panel = c, !.base = db[c].revision]
    BY <1>7 DEF Signs!OpenPanel
  <2>2. db[c].revision \in 0..MaxRevision[s]
    BY <1>7, SigningBound DEF ContractTyped
  <2> QED BY <1>7, <2>1, <2>2 DEF SignerTyped
<1>8. CASE Signs(s)!Close \/ Signs(s)!ClosePanel
  <2>1. /\ ui'.open \in {ui.open, 0} /\ ui'.panel \in {ui.panel, 0} /\ ui'.base \in {ui.base, 0}
        /\ ui'.receipt = ui.receipt /\ ui'.doc = ui.doc /\ ui'.loads = ui.loads
    BY <1>8 DEF Signs!Close, Signs!ClosePanel
  <2> QED BY <2>1, SigningBound DEF SignerTyped
<1>9. ASSUME \/ Signs(s)!Tick \/ Signs(s)!AskCode \/ Signs(s)!Sign \/ Signs(s)!Propose
             \/ \E answer : Signs(s)!Decide(answer)
             \/ \E c, r : Signs(s)!TypeCode(c, r)
      PROVE  SignerTyped(s, ui')
  BY <1>9 DEF Signs!Tick, Signs!AskCode, Signs!Sign, Signs!Propose, Signs!Decide, Signs!TypeCode, SignerTyped
<1>10. ASSUME \/ \E c : Signs(s)!OtherProposes(c) \/ Signs(s)!OtherAccepts(c) \/ Signs(s)!OtherDrops(c)
                        \/ Signs(s)!RentalEnds(c)
              \/ \E m \in net : \/ Signs(s)!ServeLoad(m) \/ Signs(s)!ServeOtp(m) \/ Signs(s)!ServeSign(m)
                                \/ Signs(s)!ServePropose(m) \/ Signs(s)!ServeDecide(m)
       PROVE  ui' = ui
  BY <1>10 DEF Signs!OtherProposes, Signs!OtherAccepts, Signs!OtherDrops, Signs!RentalEnds, Signs!ServeLoad,
               Signs!ServeOtp, Signs!ServeSign, Signs!ServePropose, Signs!ServeDecide
<1>11. ui' = ui => SignerTyped(s, ui')
  OBVIOUS
<1> HIDE DEF SigningInv, SigningShape, SigningTypes
<1> QED BY <1>1, <1>2, <1>3, <1>4, <1>5, <1>6, <1>7, <1>8, <1>9, <1>10, <1>11 DEF Signs!Next

\* So do the contracts: a revision is frozen only while there is room for it,
\* and a code is of the revision it is asked for.
LEMMA ContractTypedStep ==
  ASSUME NEW s \in SigningScreens, SigningInv(s), SigningTypes(s), Signs(s)!Next
  PROVE  \A c \in Contracts[s] : ContractTyped(s, db'[c])
<1> USE DEF SigningInv, SigningShape, SigningTypes
<1>1. ASSUME NEW c, NEW row, ContractTyped(s, row), db' = [db EXCEPT ![c] = row]
      PROVE  \A d \in Contracts[s] : ContractTyped(s, db'[d])
  BY <1>1
<1>2. ASSUME NEW c \in Contracts[s], Signs(s)!Refrozen(db[c]).revision \in 1..MaxRevision[s]
      PROVE  ContractTyped(s, Signs(s)!Refrozen(db[c]))
  BY <1>2, SigningBound DEF Signs!Refrozen, ContractTyped
<1>3. ASSUME NEW c \in Contracts[s], db[c].revision < MaxRevision[s]
      PROVE  ContractTyped(s, Signs(s)!Refrozen(db[c]))
  BY <1>2, <1>3, SigningBound DEF Signs!Refrozen, ContractTyped
<1>4. ASSUME NEW m \in net, Signs(s)!ServeOtp(m)
      PROVE  \A c \in Contracts[s] : ContractTyped(s, db'[c])
  <2>1. CASE db' = db
    BY <2>1
  <2>2. CASE db' # db
    <3>1. /\ m.revision = db[m.contract].revision /\ m.contract \in Contracts[s]
          /\ db' = [db EXCEPT ![m.contract].code = m.revision, ![m.contract].used = FALSE]
      BY <1>4, <2>2 DEF Signs!ServeOtp, AboutContract
    <3>2. \A c \in Contracts[s] :
            db'[c].revision = db[c].revision /\ db'[c].code = IF c = m.contract THEN m.revision ELSE db[c].code
      BY <3>1
    <3> QED BY <3>1, <3>2, SigningBound DEF ContractTyped
  <2> QED BY <2>1, <2>2
<1>5. ASSUME NEW m \in net, Signs(s)!ServeSign(m) \/ Signs(s)!ServePropose(m)
      PROVE  \A c \in Contracts[s] : ContractTyped(s, db'[c])
  <2>1. \A c \in Contracts[s] : db'[c].revision = db[c].revision /\ db'[c].code = db[c].code
    BY <1>5 DEF Signs!ServeSign, Signs!ServePropose
  <2> QED BY <2>1 DEF ContractTyped
<1>6. ASSUME NEW m \in net, Signs(s)!ServeDecide(m)
      PROVE  \A c \in Contracts[s] : ContractTyped(s, db'[c])
  <2>1. m.contract \in Contracts[s] /\ (m.answer = "accept" => db[m.contract].revision < MaxRevision[s])
    BY <1>6 DEF Signs!ServeDecide, AboutContract
  <2>2. PICK row : row = IF m.answer = "accept" THEN Signs(s)!Refrozen(db[m.contract])
                         ELSE [db[m.contract] EXCEPT !.proposal = "none"]
    OBVIOUS
  <2>3. db' = [db EXCEPT ![m.contract] = row]
    BY <1>6, <2>2 DEF Signs!ServeDecide
  <2>4. ContractTyped(s, row)
    <3>1. CASE m.answer = "accept"
      BY <1>3, <2>1, <2>2, <3>1
    <3>2. CASE m.answer # "accept"
      BY <2>1, <2>2, <3>2 DEF ContractTyped
    <3> QED BY <3>1, <3>2
  <2> QED BY <1>1, <2>3, <2>4
<1>7. ASSUME NEW c \in Contracts[s], Signs(s)!OtherAccepts(c)
      PROVE  \A d \in Contracts[s] : ContractTyped(s, db'[d])
  <2>1. PICK row : row = Signs(s)!Refrozen(db[c])
    OBVIOUS
  <2>2. db' = [db EXCEPT ![c] = row] /\ db[c].revision < MaxRevision[s]
    BY <1>7, <2>1 DEF Signs!OtherAccepts
  <2>3. ContractTyped(s, row)
    BY <1>3, <1>7, <2>1, <2>2
  <2> QED BY <1>1, <2>2, <2>3
<1>8. ASSUME NEW c \in Contracts[s], Signs(s)!OtherProposes(c) \/ Signs(s)!OtherDrops(c) \/ Signs(s)!RentalEnds(c)
      PROVE  \A d \in Contracts[s] : ContractTyped(s, db'[d])
  <2>1. \A d \in Contracts[s] : db'[d].revision = db[d].revision /\ db'[d].code = db[d].code
    BY <1>8, SMTT(30) DEF Signs!OtherProposes, Signs!OtherDrops, Signs!RentalEnds
  <2> QED BY <2>1 DEF ContractTyped
<1>9. ASSUME \/ \E c \in Contracts[s] : Signs(s)!Open(c) \/ Signs(s)!OpenPanel(c) \/ \E r : Signs(s)!TypeCode(c, r)
             \/ Signs(s)!Close \/ Signs(s)!Tick \/ Signs(s)!AskCode \/ Signs(s)!Sign \/ Signs(s)!ClosePanel
             \/ Signs(s)!Propose \/ \E answer : Signs(s)!Decide(answer)
             \/ \E m \in net :
                  \/ Signs(s)!LoadedArrives(m) \/ Signs(s)!LoadFails(m) \/ Signs(s)!CodeSent(m)
                  \/ Signs(s)!SignedArrives(m) \/ Signs(s)!StaleArrives(m) \/ Signs(s)!RequestFails(m)
                  \/ Signs(s)!PanelAnswered(m) \/ Signs(s)!ServeLoad(m)
      PROVE  db' = db
  BY <1>9 DEF Signs!Open, Signs!OpenPanel, Signs!TypeCode, Signs!Close, Signs!Tick, Signs!AskCode, Signs!Sign,
              Signs!ClosePanel, Signs!Propose, Signs!Decide, Signs!LoadedArrives, Signs!LoadFails, Signs!CodeSent,
              Signs!SignedArrives, Signs!StaleArrives, Signs!RequestFails, Signs!PanelAnswered, Signs!ServeLoad
<1> QED BY <1>4, <1>5, <1>6, <1>7, <1>8, <1>9 DEF Signs!Next

\* And so does what is sent.
LEMMA AboutContractStep ==
  ASSUME NEW s \in SigningScreens, SigningInv(s), SigningTypes(s), Signs(s)!Next
  PROVE  \A m \in net' : AboutContract(s, m)
<1> USE DEF SigningInv, SigningShape, SigningTypes
<1>1. ASSUME NEW S, S \subseteq net, NEW a, AboutContract(s, a), net' = S \cup {a}
      PROVE  \A m \in net' : AboutContract(s, m)
  BY <1>1
<1>2. ASSUME NEW c \in Contracts[s], Signs(s)!Open(c)
      PROVE  \A m \in net' : AboutContract(s, m)
  BY <1>2, LoadTyped DEF Signs!Open
<1>3. ASSUME NEW m \in net, Signs(s)!StaleArrives(m)
      PROVE  \A n \in net' : AboutContract(s, n)
  <2>1. PICK u : u = Signs(s)!Idle(ui, m.of)
    OBVIOUS
  <2>2. DOMAIN u = DOMAIN ui /\ SignerTyped(s, u)
    BY <2>1 DEF Signs!Idle, SignerTyped
  <2>3. CASE ui.open = 0
    BY <1>3, <2>3 DEF Signs!StaleArrives
  <2>4. CASE ui.open # 0
    <3>1. ui.open \in Contracts[s] /\ Signs(s)!Load(u, ui.open, net \ {m})
      BY <1>3, <2>1, <2>4 DEF Signs!StaleArrives, SignerTyped
    <3> QED BY <2>2, <3>1, LoadTyped
  <2> QED BY <2>3, <2>4
<1>4. ASSUME NEW m \in net, Signs(s)!ServeLoad(m)
      PROVE  \A n \in net' : AboutContract(s, n)
  <2>1. PICK a : a = [kind |-> "loaded", revision |-> db[m.contract].revision, mine |-> db[m.contract].signed]
    OBVIOUS
  <2>2. net' = (net \ {m}) \cup {a} /\ m.contract \in Contracts[s]
    BY <1>4, <2>1 DEF Signs!ServeLoad, AboutContract
  <2>3. AboutContract(s, a)
    BY <2>1, <2>2 DEF ContractTyped, AboutContract
  <2> QED BY <1>1, <2>2, <2>3
<1>5. ASSUME NEW m \in net, Signs(s)!ServeSign(m) \/ Signs(s)!ServeOtp(m)
      PROVE  \A n \in net' : AboutContract(s, n)
  <2>1. m.contract \in Contracts[s]
    BY <1>5 DEF Signs!ServeSign, Signs!ServeOtp, AboutContract
  <2>2. PICK a \in {[kind |-> "stale", of |-> m.kind], [kind |-> "sent"],
                    [kind |-> "signed", contract |-> m.contract]} :
          net' = (net \ {m}) \cup {a}
    BY <1>5 DEF Signs!ServeSign, Signs!ServeOtp, Signs!Answered, Signs!Stale
  <2>3. AboutContract(s, a)
    BY <2>1, <2>2 DEF AboutContract
  <2> QED BY <1>1, <2>2, <2>3
<1>6. ASSUME NEW m \in net, Signs(s)!ServePropose(m) \/ Signs(s)!ServeDecide(m)
      PROVE  \A n \in net' : AboutContract(s, n)
  <2>1. PICK a : a = [kind |-> "settled"]
    OBVIOUS
  <2>2. net' = (net \ {m}) \cup {a}
    BY <1>6, <2>1 DEF Signs!ServePropose, Signs!ServeDecide, Signs!Settled, Signs!Answered
  <2>3. AboutContract(s, a)
    BY <2>1 DEF AboutContract
  <2> QED BY <1>1, <2>2, <2>3
<1>7. CASE Signs(s)!AskCode \/ Signs(s)!Sign
  <2>1. ui.open \in Contracts[s]
    BY <1>7 DEF Signs!AskCode, Signs!Sign, Signs!FormShown, SignerTyped
  <2>2. PICK a \in {[kind |-> "otp", contract |-> ui.open, revision |-> ui.doc],
                    [kind |-> "sign", contract |-> ui.open, revision |-> ui.doc, code |-> ui.code,
                     read |-> ui.ticked]} : net' = net \cup {a}
    BY <1>7 DEF Signs!AskCode, Signs!Sign
  <2>3. AboutContract(s, a)
    BY <2>1, <2>2 DEF AboutContract
  <2> QED BY <1>1, <2>2, <2>3
<1>8. ASSUME NEW answer, Signs(s)!Propose \/ Signs(s)!Decide(answer)
      PROVE  \A m \in net' : AboutContract(s, m)
  <2>1. ui.panel \in Contracts[s]
    BY <1>8 DEF Signs!Propose, Signs!Decide, Signs!PanelIdle, SignerTyped
  <2>2. PICK a \in {[kind |-> "propose", contract |-> ui.panel, revision |-> ui.base],
                    [kind |-> "decide", contract |-> ui.panel, answer |-> answer]} : net' = net \cup {a}
    BY <1>8 DEF Signs!Propose, Signs!Decide
  <2>3. AboutContract(s, a)
    BY <2>1, <2>2, SMTT(30) DEF AboutContract
  <2> QED BY <1>1, <2>2, <2>3
<1>9. ASSUME \/ \E c \in Contracts[s] : \/ Signs(s)!OpenPanel(c) \/ \E r : Signs(s)!TypeCode(c, r)
                                        \/ Signs(s)!OtherProposes(c) \/ Signs(s)!OtherAccepts(c)
                                        \/ Signs(s)!OtherDrops(c) \/ Signs(s)!RentalEnds(c)
             \/ Signs(s)!Close \/ Signs(s)!Tick \/ Signs(s)!ClosePanel
             \/ \E m \in net :
                  \/ Signs(s)!LoadedArrives(m) \/ Signs(s)!LoadFails(m) \/ Signs(s)!CodeSent(m)
                  \/ Signs(s)!SignedArrives(m) \/ Signs(s)!RequestFails(m) \/ Signs(s)!PanelAnswered(m)
      PROVE  net' \subseteq net
  BY <1>9 DEF Signs!OpenPanel, Signs!TypeCode, Signs!OtherProposes, Signs!OtherAccepts, Signs!OtherDrops,
              Signs!RentalEnds, Signs!Close, Signs!Tick, Signs!ClosePanel, Signs!LoadedArrives, Signs!LoadFails,
              Signs!CodeSent, Signs!SignedArrives, Signs!RequestFails, Signs!PanelAnswered
<1> QED BY <1>2, <1>3, <1>4, <1>5, <1>6, <1>7, <1>8, <1>9 DEF Signs!Next

\* Every step keeps them.
LEMMA SigningTypesStep ==
  ASSUME NEW s \in SigningScreens, SigningInv(s), SigningTypes(s), Signs(s)!Next \/ UNCHANGED <<ui, db, net>>
  PROVE  SigningTypes(s)'
<1>1. CASE Signs(s)!Next
  <2>1. SignerTyped(s, ui')
    BY <1>1, SignerTypedStep
  <2>2. \A c \in Contracts[s] : ContractTyped(s, db'[c])
    BY <1>1, ContractTypedStep
  <2>3. \A m \in net' : AboutContract(s, m)
    BY <1>1, AboutContractStep
  <2> QED BY <2>1, <2>2, <2>3 DEF SigningTypes, SignerTyped, AboutContract, ContractTyped
<1>2. CASE UNCHANGED <<ui, db, net>>
  BY <1>2 DEF SigningTypes, SignerTyped, ContractTyped, AboutContract
<1> QED BY <1>1, <1>2

-----------------------------------------------------------------------------
(***************************************************************************)
(* The dialog of the weekly series.                                        *)
(***************************************************************************)
Revisions == 0..MaxRevision["series"]

SeriesTypes ==
  /\ ui.input \in Series!Inputs
  /\ ui.revision \in Revisions /\ ui.attempt \in Revisions /\ ui.preview \in Revisions
  /\ ui.key \in 0..MaxKeys /\ ui.created \in 0..MaxKeys /\ db.keys \in 0..MaxKeys
  /\ db.taken \subseteq 1..MaxWeek

\* They are, with the invariant, the types of the module.
LEMMA SeriesTyped ==
  ASSUME SeriesInv, SeriesTypes
  PROVE  Series!TypeOK
<1>1. ui.source \in Sources
  BY DEF SeriesInv, Dialog
<1> QED BY <1>1 DEF SeriesTypes, Revisions, Series!TypeOK

\* A dialog starts with no date, no preview and no key.
LEMMA FreshTyped ==
  ASSUME NEW source, NEW revision \in Revisions, ui' = Series!Fresh(source, revision)
  PROVE  /\ ui'.input \in Series!Inputs
         /\ ui'.revision \in Revisions /\ ui'.attempt \in Revisions /\ ui'.preview \in Revisions
         /\ ui'.key \in 0..MaxKeys /\ ui'.created \in 0..MaxKeys
<1>1. /\ ui'.input = [first |-> 0, step |-> 1, occurrences |-> 2]
      /\ ui'.revision = revision /\ ui'.attempt = revision /\ ui'.preview = 0 /\ ui'.key = 0 /\ ui'.created = 0
  BY DEF Series!Fresh
<1>2. [first |-> 0, step |-> 1, occurrences |-> 2] \in Series!Inputs
  BY SeriesBounds DEF Series!Inputs
<1> QED BY <1>1, <1>2, SeriesBounds DEF Revisions

\* They hold at first.
LEMMA SeriesTypesStart ==
  ASSUME Series!Init
  PROVE  SeriesTypes
<1>1. PICK s \in Sources : ui = Series!Fresh(s, 0)
  BY DEF Series!Init
<1>2. /\ ui.input = [first |-> 0, step |-> 1, occurrences |-> 2]
      /\ ui.revision = 0 /\ ui.attempt = 0 /\ ui.preview = 0 /\ ui.key = 0 /\ ui.created = 0
  BY <1>1 DEF Series!Fresh
<1>3. [first |-> 0, step |-> 1, occurrences |-> 2] \in Series!Inputs
  BY SeriesBounds DEF Series!Inputs
<1>4. db.keys = 0 /\ db.taken = {}
  BY DEF Series!Init
<1> QED BY <1>2, <1>3, <1>4, SeriesBounds DEF SeriesTypes, Revisions

\* The tenant edits the fields, asks for a preview and opens the dialog of
\* another rental: each is one revision more.
LEMMA EditingTyped ==
  ASSUME SeriesInv, SeriesTypes,
         \/ \E s \in Sources : Series!Open(s)
         \/ \E input \in Series!Inputs : Series!UpdateInput(input)
         \/ Series!Close \/ Series!RequestPreview \/ Series!StartAnother
  PROVE  SeriesTypes'
<1>1. ui.revision < MaxRevision["series"] => ui.revision + 1 \in Revisions
  BY SeriesBounds DEF SeriesTypes, Revisions
<1>2. 0 \in Revisions /\ 0 \in 0..MaxKeys
  BY SeriesBounds DEF Revisions
<1>3. DOMAIN ui = {"source", "open", "input", "preview", "created", "revision", "attempt", "key", "previewing",
                   "creating"}
  BY DEF SeriesInv, Dialog
<1>4. db' = db
  BY DEF Series!Open, Series!UpdateInput, Series!Close, Series!RequestPreview, Series!StartAnother
<1>5. ASSUME NEW s \in Sources, Series!Open(s)
      PROVE  SeriesTypes'
  <2>1. CASE s = ui.source
    BY <1>3, <1>4, <1>5, <2>1 DEF Series!Open, SeriesTypes
  <2>2. CASE s # ui.source
    <3>1. ui' = Series!Fresh(s, ui.revision + 1) /\ ui.revision + 1 \in Revisions
      BY <1>1, <1>5, <2>2 DEF Series!Open
    <3> QED BY <1>4, <3>1, FreshTyped DEF SeriesTypes
  <2> QED BY <2>1, <2>2
<1>6. ASSUME NEW input \in Series!Inputs, Series!UpdateInput(input)
      PROVE  SeriesTypes'
  <2>1. /\ ui'.input = input /\ ui'.revision = ui.revision + 1 /\ ui'.attempt = ui.revision + 1
        /\ ui'.key = 0 /\ ui'.preview = 0 /\ ui'.created = ui.created /\ ui.revision < MaxRevision["series"]
    BY <1>3, <1>6 DEF Series!UpdateInput
  <2> QED BY <1>1, <1>2, <1>4, <1>6, <2>1 DEF SeriesTypes
<1>7. CASE Series!Close
  BY <1>3, <1>4, <1>7 DEF Series!Close, SeriesTypes
<1>8. CASE Series!RequestPreview
  <2>1. /\ ui'.input = ui.input /\ ui'.revision = ui.revision + 1 /\ ui'.attempt = ui.attempt
        /\ ui'.key = ui.key /\ ui'.preview = 0 /\ ui'.created = ui.created /\ ui.revision < MaxRevision["series"]
    BY <1>3, <1>8 DEF Series!RequestPreview
  <2> QED BY <1>1, <1>2, <1>4, <2>1 DEF SeriesTypes
<1>9. CASE Series!StartAnother
  <2>1. /\ ui'.input = [ui.input EXCEPT !.first = 0]
        /\ ui'.revision = ui.revision + 1 /\ ui'.attempt = ui.revision + 1
        /\ ui'.key = 0 /\ ui'.preview = 0 /\ ui'.created = 0 /\ ui.revision < MaxRevision["series"]
    BY <1>3, <1>9 DEF Series!StartAnother
  <2>2. ui'.input \in Series!Inputs
    BY <2>1, SeriesBounds DEF SeriesTypes, Series!Inputs
  <2> QED BY <1>1, <1>2, <1>4, <2>1, <2>2 DEF SeriesTypes
<1> QED BY <1>5, <1>6, <1>7, <1>8, <1>9

\* The button is pressed, and answers arrive or are lost: what was created is
\* of the key of the attempt.
LEMMA CreatingTyped ==
  ASSUME SeriesInv, SeriesTypes,
         \/ Series!Create
         \/ \E m \in net : \/ Series!PreviewArrives(m) \/ Series!PreviewFails(m) \/ Series!CreatedArrives(m)
                           \/ Series!CreateFails(m)
  PROVE  SeriesTypes'
<1>1. DOMAIN ui = {"source", "open", "input", "preview", "created", "revision", "attempt", "key", "previewing",
                   "creating"}
  BY DEF SeriesInv, Dialog
<1>2. CASE Series!Create
  <2>1. PICK k : k = Series!AttemptKey /\ k <= MaxKeys
    BY <1>2 DEF Series!Create
  <2>2. k \in 0..MaxKeys
    BY <2>1, SeriesBounds DEF Series!AttemptKey, SeriesTypes
  <2>3. ui' = [ui EXCEPT !.creating = TRUE, !.key = k] /\ db' = [db EXCEPT !.keys = IF k > @ THEN k ELSE @]
    BY <1>2, <2>1 DEF Series!Create
  <2>4. db'.keys \in {k, db.keys} /\ db'.taken = db.taken
    BY <2>3 DEF SeriesInv, Tables
  <2> QED BY <1>1, <2>2, <2>3, <2>4 DEF SeriesTypes
<1>3. ASSUME NEW m \in net, Series!PreviewArrives(m) \/ Series!PreviewFails(m)
      PROVE  SeriesTypes'
  <2>1. /\ ui'.input = ui.input /\ ui'.revision = ui.revision /\ ui'.attempt = ui.attempt /\ ui'.key = ui.key
        /\ ui'.preview \in {ui.preview, ui.revision} /\ ui'.created = ui.created /\ db' = db
    BY <1>1, <1>3 DEF Series!PreviewArrives, Series!PreviewFails
  <2> QED BY <2>1 DEF SeriesTypes
<1>4. ASSUME NEW m \in net, Series!CreatedArrives(m) \/ Series!CreateFails(m)
      PROVE  SeriesTypes'
  <2>1. m.key = ui.key
    BY <1>4 DEF Series!CreatedArrives, Series!CreateFails, SeriesInv, OneCreation, Creation
  <2>2. /\ ui'.input = ui.input /\ ui'.revision = ui.revision /\ ui'.attempt = ui.attempt /\ ui'.key = ui.key
        /\ ui'.preview = ui.preview /\ ui'.created \in {ui.created, ui.key} /\ db' = db
    BY <1>1, <1>4, <2>1 DEF Series!CreatedArrives, Series!CreateFails
  <2> QED BY <2>2 DEF SeriesTypes
<1> QED BY <1>2, <1>3, <1>4

\* Weeks are booked and freed, by this tenant and by others.
LEMMA WeeksTyped ==
  ASSUME SeriesInv, SeriesTypes,
         \/ \E m \in net : Series!ServePreview(m) \/ Series!ServeCreate(m)
         \/ \E w \in 1..MaxWeek : Series!OthersBook(w) \/ Series!Frees(w)
  PROVE  SeriesTypes'
<1>1. ui' = ui
  BY DEF Series!ServePreview, Series!ServeCreate, Series!OthersBook, Series!Frees
<1>2. db'.keys = db.keys /\ db'.taken \subseteq 1..MaxWeek
  <2>1. DOMAIN db = {"series", "taken", "keys"} /\ db.taken \subseteq 1..MaxWeek
    BY DEF SeriesInv, Tables, SeriesTypes
  <2>2. ASSUME NEW m \in net, Series!ServePreview(m)
        PROVE  db' = db
    BY <2>2 DEF Series!ServePreview
  <2>3. ASSUME NEW m \in net, Series!ServeCreate(m)
        PROVE  db'.keys = db.keys /\ db'.taken \subseteq 1..MaxWeek
    <3>1. CASE Series!SeriesOf(m) # {}
      BY <2>1, <2>3, <3>1 DEF Series!ServeCreate
    <3>2. CASE Series!SeriesOf(m) = {}
      <4>1. Series!Dates(m.input) \subseteq 1..MaxWeek
        BY <2>3, <3>2 DEF Series!ServeCreate, Series!Bookable
      <4>2. PICK dates, made : /\ dates = Series!Dates(m.input)
                               /\ db' = [db EXCEPT !.taken = @ \cup dates, !.series = @ \cup {made}]
        BY <2>3, <3>2 DEF Series!ServeCreate
      <4> QED BY <2>1, <4>1, <4>2
    <3> QED BY <3>1, <3>2
  <2>4. ASSUME NEW w \in 1..MaxWeek, Series!OthersBook(w) \/ Series!Frees(w)
        PROVE  db'.keys = db.keys /\ db'.taken \subseteq 1..MaxWeek
    BY <2>1, <2>4 DEF Series!OthersBook, Series!Frees
  <2> QED BY <2>1, <2>2, <2>3, <2>4
<1>3. db'.keys \in 0..MaxKeys
  BY <1>2 DEF SeriesTypes
<1> QED BY <1>1, <1>2, <1>3 DEF SeriesTypes

\* Every step keeps them.
LEMMA SeriesTypesStep ==
  ASSUME SeriesInv, SeriesTypes, Series!Next \/ UNCHANGED <<ui, db, net>>
  PROVE  SeriesTypes'
<1>1. CASE UNCHANGED <<ui, db, net>>
  BY <1>1 DEF SeriesTypes
<1>2. CASE Series!Next
  BY <1>2, EditingTyped, CreatingTyped, WeeksTyped DEF Series!Next
<1> QED BY <1>1, <1>2

-----------------------------------------------------------------------------
(***************************************************************************)
(* The booking page.  The days it shows, asks for and books are those of   *)
(* the calendar, and it asks again about a payment while it may.           *)
(***************************************************************************)
OnCalendar(p) == p.start \in 0..MaxDay /\ p.end \in 0..MaxDay

BookingPage == ui.at \in {"page", "stripe"} /\ ui.step \in 1..3 /\ OnCalendar(Booking!Dates)

\* Who is asked about a payment may be asked once more.
PollsLeft == ui.polls \in 0..MaxPolls /\ \A m \in net : m.kind = "poll" => ui.polls < MaxPolls

RentalsOnCalendar ==
  /\ \A i \in DOMAIN db.rentals : OnCalendar(db.rentals[i].dates)
  /\ \A m \in net : m.kind = "create" => OnCalendar(m.dates)

BookingTypes == BookingPage /\ PollsLeft /\ RentalsOnCalendar

\* They are, with the invariant, the types of the module.
LEMMA BookingTyped ==
  ASSUME BookingInv, BookingTypes
  PROVE  Booking!TypeOK
<1>1. db.rentals \in Seq(Rental)
  BY DEF BookingInv, BookingShape
<1>2. ui.rental \in 0..Len(db.rentals) /\ ui.address.rental \in 0..Len(db.rentals)
  <2>1. /\ ui.rental \in Nat /\ (ui.rental # 0 => ui.rental \in DOMAIN db.rentals)
        /\ ui.address.rental \in Nat /\ (ui.address.rental # 0 => ui.address.rental \in DOMAIN db.rentals)
    BY DEF BookingInv, BookingShape, DatesKept
  <2> QED BY <1>1, <2>1
<1>3. ui.address.result \in Booking!Results
  BY DEF BookingInv, BookingShape, Booking!Results
<1>4. ASSUME NEW i \in DOMAIN db.rentals
      PROVE  db.rentals[i].status \in Booking!Pending \cup {"paid", "cancelled"}
  <2>1. db.rentals[i] \in Rental
    BY <1>1
  <2> QED BY <2>1 DEF Rental, Booking!Pending
<1>5. ui.start \in 0..MaxDay /\ ui.end \in 0..MaxDay
  BY DEF BookingTypes, BookingPage, OnCalendar, Booking!Dates
<1> QED BY <1>2, <1>3, <1>4, <1>5 DEF BookingTypes, BookingPage, PollsLeft, Booking!TypeOK

\* They hold at first.
LEMMA BookingTypesStart ==
  ASSUME Booking!Init
  PROVE  BookingTypes
<1>1. ui.at = "page" /\ ui.step = 1 /\ ui.start = 0 /\ ui.end = 0 /\ ui.polls = 0
  BY DEF Booking!Init, Booking!Page
<1>2. BookingPage
  BY <1>1, BookingBounds DEF BookingPage, OnCalendar, Booking!Dates
<1>3. net = {[kind |-> "occupancy"]}
  BY DEF Booking!Init, Booking!First, Booking!NoAddress
<1>4. db.rentals = <<>>
  BY DEF Booking!Init
<1> QED BY <1>1, <1>2, <1>3, <1>4, BookingBounds DEF BookingTypes, PollsLeft, RentalsOnCalendar

(***************************************************************************)
(* The page.                                                               *)
(***************************************************************************)
\* The days a click selects, and those of a rental, are of the calendar.
LEMMA DaysOnCalendar ==
  ASSUME BookingInv, BookingTypes
  PROVE  /\ \A d \in Booking!Days : OnCalendar(Booking!Selected(d))
         /\ OnCalendar(Booking!None) /\ OnCalendar([start |-> ui.start, end |-> 0])
         /\ \A m \in net : Returning(m) => OnCalendar(db.rentals[m.rental].dates)
<1>1. ui.start \in 0..MaxDay /\ ui.end \in 0..MaxDay
  BY DEF BookingTypes, BookingPage, OnCalendar, Booking!Dates
<1>2. ASSUME NEW d \in Booking!Days
      PROVE  OnCalendar(Booking!Selected(d))
  <2>1. d \in 0..MaxDay /\ 0 \in 0..MaxDay
    BY BookingBounds DEF Booking!Days
  <2>2. \/ Booking!Selected(d) = [start |-> d, end |-> 0] \/ Booking!Selected(d) = Booking!Dates
        \/ Booking!Selected(d) = [start |-> ui.start, end |-> d]
    BY DEF Booking!Selected
  <2> QED BY <1>1, <2>1, <2>2 DEF OnCalendar, Booking!Dates
<1>3. OnCalendar(Booking!None) /\ OnCalendar([start |-> ui.start, end |-> 0])
  BY <1>1, BookingBounds DEF OnCalendar, Booking!None
<1>4. ASSUME NEW m \in net, Returning(m)
      PROVE  OnCalendar(db.rentals[m.rental].dates)
  BY <1>4, ReturnFacts DEF BookingTypes, RentalsOnCalendar
<1> QED BY <1>2, <1>3, <1>4

\* A page that shows other dates shows days of the calendar.
LEMMA QuotedPage ==
  ASSUME BookingInv, NEW p, OnCalendar(p), ui'.at \in {"page", "stripe"}, ui'.step \in 1..3, ui'.start = p.start,
         ui'.end = p.end
  PROVE  BookingPage'
BY DEF BookingPage, OnCalendar, Booking!Dates

\* The page keeps its types.
LEMMA BookingPageStep ==
  ASSUME BookingInv, BookingTypes, Booking!Next
  PROVE  BookingPage'
<1>1. /\ DOMAIN ui = {"at", "mounts", "step", "start", "end", "quote", "blocked", "rental", "paying", "polls",
                      "error", "review", "restoring", "confirming", "address"}
      /\ ui.at \in {"page", "stripe"} /\ ui.step \in 1..3 /\ OnCalendar(Booking!Dates)
  BY DEF BookingInv, BookingShape, BookingTypes, BookingPage
<1>2. ASSUME ui'.start = ui.start, ui'.end = ui.end, ui'.at \in {"page", "stripe"}, ui'.step \in 1..3
      PROVE  BookingPage'
  BY <1>1, <1>2, QuotedPage DEF Booking!Dates
<1>3. ASSUME NEW p, OnCalendar(p), ui' = Booking!Quoted(ui, p)
      PROVE  BookingPage'
  BY <1>1, <1>3, QuotedPage DEF Booking!Quoted
<1>4. ASSUME NEW d \in Booking!Days, Booking!SelectDay(d)
      PROVE  BookingPage'
  BY <1>3, <1>4, DaysOnCalendar DEF Booking!SelectDay
<1>5. ASSUME NEW p \in {Booking!None, [start |-> ui.start, end |-> 0]}, Booking!Clear(p)
      PROVE  BookingPage'
  BY <1>3, <1>5, DaysOnCalendar DEF Booking!Clear
<1>6. ASSUME NEW address, NEW n, ui' = Booking!Page(address, n)
      PROVE  BookingPage'
  <2>1. ui'.at = "page" /\ ui'.step = 1 /\ ui'.start = 0 /\ ui'.end = 0
    BY <1>6 DEF Booking!Page
  <2> QED BY <2>1, BookingBounds DEF BookingPage, OnCalendar, Booking!Dates
<1>7. ASSUME NEW result, Booking!Reload \/ Booking!StripeReturns(result)
      PROVE  BookingPage'
  BY <1>6, <1>7 DEF Booking!Reload, Booking!Mount, Booking!StripeReturns
<1>8. ASSUME NEW m \in net, Booking!RestoreArrives(m)
      PROVE  BookingPage'
  <2>1. PICK p : p = db.rentals[m.rental].dates
    OBVIOUS
  <2>2. OnCalendar(p)
    BY <1>8, <2>1, DaysOnCalendar DEF Booking!RestoreArrives, Returning
  <2>3. \/ ui' = [ui EXCEPT !.error = TRUE, !.restoring = FALSE]
        \/ ui' = [Booking!Quoted(ui, p) EXCEPT !.rental = m.rental, !.step = 2, !.restoring = FALSE]
    BY <1>8, <2>1 DEF Booking!RestoreArrives
  <2>4. CASE ui' = [Booking!Quoted(ui, p) EXCEPT !.rental = m.rental, !.step = 2, !.restoring = FALSE]
    <3>1. ui'.at = ui.at /\ ui'.step = 2 /\ ui'.start = p.start /\ ui'.end = p.end
      BY <1>1, <2>4 DEF Booking!Quoted
    <3> QED BY <1>1, <2>2, <3>1, QuotedPage
  <2> QED BY <1>1, <1>2, <2>3, <2>4
<1>9. ASSUME NEW m \in net, Booking!ConcludeArrives(m)
      PROVE  BookingPage'
  <2>1. PICK p : p = db.rentals[m.rental].dates
    OBVIOUS
  <2>2. OnCalendar(p)
    BY <1>9, <2>1, DaysOnCalendar DEF Booking!ConcludeArrives, Returning
  <2>3. ui'.at = ui.at /\ ui'.step = 3 /\ ui'.start = p.start /\ ui'.end = p.end
    BY <1>1, <1>9, <2>1 DEF Booking!ConcludeArrives, Booking!Quoted
  <2> QED BY <1>1, <2>2, <2>3, QuotedPage
<1>10. ASSUME NEW m \in net, \/ Booking!OccupancyArrives(m) \/ Booking!QuoteArrives(m) \/ Booking!CreatedArrives(m)
                             \/ Booking!PayFails(m) \/ Booking!OpenedArrives(m) \/ Booking!RestoreFails(m)
                             \/ Booking!ConcludeFails(m) \/ Booking!ServeCreate(m) \/ Booking!ServeCheckout(m)
       PROVE  BookingPage'
  <2>1. ui'.start = ui.start /\ ui'.end = ui.end /\ ui'.at \in {ui.at, "stripe"} /\ ui'.step = ui.step
    BY <1>1, <1>10 DEF Booking!OccupancyArrives, Booking!QuoteArrives, Booking!CreatedArrives, Booking!PayFails,
       Booking!OpenedArrives, Booking!RestoreFails, Booking!ConcludeFails, Booking!ServeCreate, Booking!ServeCheckout
  <2> QED BY <1>1, <1>2, <2>1
<1>11. ASSUME NEW m \in net, Booking!PollArrives(m) \/ Booking!PollFails(m)
       PROVE  BookingPage'
  <2>1. ui'.start = ui.start /\ ui'.end = ui.end /\ ui'.at = ui.at /\ ui'.step = ui.step
    BY <1>1, <1>11 DEF Booking!PollArrives, Booking!PollFails, Booking!Again
  <2> QED BY <1>1, <1>2, <2>1
<1>12. CASE Booking!Advance \/ Booking!BackToDates \/ Booking!BackToPayment \/ Booking!Pay
  <2>1. ui'.start = ui.start /\ ui'.end = ui.end /\ ui'.at = ui.at /\ ui'.step \in {ui.step, 1, 2}
    BY <1>1, <1>12 DEF Booking!Advance, Booking!BackToDates, Booking!BackToPayment, Booking!Pay
  <2> QED BY <1>1, <1>2, <2>1
<1>13. ASSUME NEW i, \/ Booking!WebhookPaid(i) \/ Booking!SessionExpires(i) \/ Booking!HoldLapses(i)
                     \/ Booking!Cancelled(i)
       PROVE  BookingPage'
  <2>1. ui' = ui
    BY <1>13 DEF Booking!WebhookPaid, Booking!SessionExpires, Booking!HoldLapses, Booking!Cancelled
  <2> QED BY <1>1, <1>2, <2>1
<1> QED BY <1>4, <1>5, <1>7, <1>8, <1>9, <1>10, <1>11, <1>12, <1>13 DEF Booking!Next

\* Another question about a payment is asked only while one may be.
LEMMA PollsLeftStep ==
  ASSUME BookingInv, BookingTypes, Booking!Next
  PROVE  PollsLeft'
<1>1. /\ DOMAIN ui = {"at", "mounts", "step", "start", "end", "quote", "blocked", "rental", "paying", "polls",
                      "error", "review", "restoring", "confirming", "address"}
      /\ ui.polls \in 0..MaxPolls /\ \A m \in net : m.kind = "poll" => ui.polls < MaxPolls
  BY DEF BookingInv, BookingShape, BookingTypes, PollsLeft
<1>2. ASSUME ui'.polls = ui.polls, \A m \in net' : m.kind = "poll" => m \in net
      PROVE  PollsLeft'
  BY <1>1, <1>2 DEF PollsLeft
<1>3. ASSUME NEW address, NEW n, ui' = Booking!Page(address, n)
      PROVE  PollsLeft'
  <2>1. ui'.polls = 0
    BY <1>3 DEF Booking!Page
  <2> QED BY <2>1, BookingBounds DEF PollsLeft
<1>4. ASSUME NEW result, Booking!Reload \/ Booking!StripeReturns(result)
      PROVE  PollsLeft'
  BY <1>3, <1>4 DEF Booking!Reload, Booking!Mount, Booking!StripeReturns
<1>5. ASSUME NEW m \in net, m.kind = "poll", Booking!Again(m)
      PROVE  PollsLeft'
  <2>1. ui.polls < MaxPolls /\ ui'.polls = ui.polls + 1
    BY <1>1, <1>5 DEF Booking!Again
  <2>2. ui.polls + 1 < MaxPolls \/ net' = net \ {m}
    BY <1>5 DEF Booking!Again
  <2>3. \A n \in net : n.kind = "poll" => n = m
    BY <1>5, ReturnFacts DEF Returning
  <2> QED BY <1>1, <2>1, <2>2, <2>3, BookingBounds DEF PollsLeft
<1>6. ASSUME NEW m \in net, Booking!PollArrives(m)
      PROVE  PollsLeft'
  <2>1. CASE Booking!Again(m)
    BY <1>5, <1>6, <2>1 DEF Booking!PollArrives
  <2>2. CASE ~Booking!Again(m)
    <3>1. \/ ui' = ui
          \/ ui' = [ui EXCEPT !.address = Booking!NoAddress, !.confirming = FALSE, !.review = TRUE]
          \/ ui' = [ui EXCEPT !.address = Booking!NoAddress, !.confirming = FALSE]
      BY <1>6, <2>2 DEF Booking!PollArrives
    <3>2. net' = net \ {m} \/ net' = (net \ {m}) \cup {[kind |-> "conclude", rental |-> m.rental]}
      BY <1>6, <2>2 DEF Booking!PollArrives
    <3>3. ui'.polls = ui.polls
      BY <1>1, <3>1
    <3>4. \A n \in net' : n.kind = "poll" => n \in net
      BY <3>2
    <3> QED BY <1>2, <3>3, <3>4
  <2> QED BY <2>1, <2>2
<1>7. ASSUME NEW m \in net, Booking!PollFails(m)
      PROVE  PollsLeft'
  BY <1>5, <1>7 DEF Booking!PollFails
<1>8. ASSUME NEW m \in net, \/ Booking!OccupancyArrives(m) \/ Booking!QuoteArrives(m) \/ Booking!CreatedArrives(m)
                            \/ Booking!PayFails(m) \/ Booking!RestoreFails(m) \/ Booking!ConcludeFails(m)
                            \/ Booking!ServeCreate(m) \/ Booking!ServeCheckout(m)
      PROVE  PollsLeft'
  <2>1. ui'.polls = ui.polls
    BY <1>1, <1>8 DEF Booking!OccupancyArrives, Booking!QuoteArrives, Booking!CreatedArrives, Booking!PayFails,
       Booking!RestoreFails, Booking!ConcludeFails, Booking!ServeCreate, Booking!ServeCheckout
  <2>2. CASE Booking!OccupancyArrives(m) \/ Booking!QuoteArrives(m) \/ Booking!PayFails(m) \/ Booking!RestoreFails(m)
             \/ Booking!ConcludeFails(m)
    <3>1. net' = net \ {m}
      BY <2>2 DEF Booking!OccupancyArrives, Booking!QuoteArrives, Booking!PayFails, Booking!RestoreFails,
         Booking!ConcludeFails
    <3> QED BY <1>2, <2>1, <3>1
  <2>3. CASE Booking!CreatedArrives(m) \/ Booking!ServeCreate(m) \/ Booking!ServeCheckout(m)
    <3>1. \A n \in net' : n.kind = "poll" => n \in net
      BY <2>3 DEF Booking!CreatedArrives, Booking!ServeCreate, Booking!ServeCheckout
    <3> QED BY <1>2, <2>1, <3>1
  <2> QED BY <1>8, <2>2, <2>3
<1>9. ASSUME NEW m \in net, Booking!OpenedArrives(m)
      PROVE  PollsLeft'
  <2>1. ui'.polls = ui.polls /\ net' = Booking!Orphans(net \ {m})
    BY <1>1, <1>9 DEF Booking!OpenedArrives
  <2>2. \A n \in net' : n.kind # "poll"
    BY <2>1, OrphansAreNotHere DEF BookingInv, BookingShape, Returning
  <2> QED BY <1>2, <2>1, <2>2
<1>10. \A ms, p : \A n \in Booking!Asking(ms, p) : n.kind = "poll" => n \in ms
  BY DEF Booking!Asking
<1>11. ASSUME NEW m \in net, Booking!RestoreArrives(m) \/ Booking!ConcludeArrives(m)
       PROVE  PollsLeft'
  <2>1. ui'.polls = ui.polls
    BY <1>1, <1>11 DEF Booking!RestoreArrives, Booking!ConcludeArrives, Booking!Quoted
  <2>2. PICK p : net' = Booking!Asking(net \ {m}, p) \/ net' = net \ {m}
    BY <1>11 DEF Booking!RestoreArrives, Booking!ConcludeArrives
  <2> QED BY <1>2, <1>10, <2>1, <2>2
<1>12. ASSUME NEW d, NEW p, Booking!SelectDay(d) \/ Booking!Clear(p)
       PROVE  PollsLeft'
  <2>1. PICK q : ui' = Booking!Quoted(ui, q) /\ net' = Booking!Asking(net, q)
    BY <1>12 DEF Booking!SelectDay, Booking!Clear
  <2>2. ui'.polls = ui.polls
    BY <1>1, <2>1 DEF Booking!Quoted
  <2> QED BY <1>2, <1>10, <2>1, <2>2
<1>13. CASE Booking!Advance \/ Booking!BackToDates \/ Booking!BackToPayment \/ Booking!Pay
  <2>1. ui'.polls = ui.polls /\ \A n \in net' : n.kind = "poll" => n \in net
    BY <1>1, <1>13 DEF Booking!Advance, Booking!BackToDates, Booking!BackToPayment, Booking!Pay
  <2> QED BY <1>2, <2>1
<1>14. ASSUME NEW i, \/ Booking!WebhookPaid(i) \/ Booking!SessionExpires(i) \/ Booking!HoldLapses(i)
                     \/ Booking!Cancelled(i)
       PROVE  PollsLeft'
  BY <1>2, <1>14 DEF Booking!WebhookPaid, Booking!SessionExpires, Booking!HoldLapses, Booking!Cancelled
<1> QED BY <1>4, <1>6, <1>7, <1>8, <1>9, <1>11, <1>12, <1>13, <1>14 DEF Booking!Next

(***************************************************************************)
(* The rentals.                                                            *)
(***************************************************************************)
\* No rental is made, and none changes its dates.
DatesStay ==
  DOMAIN db'.rentals = DOMAIN db.rentals /\ \A i \in DOMAIN db.rentals : db'.rentals[i].dates = db.rentals[i].dates

\* Then only what is sent to be booked may be off the calendar.
LEMMA StayOnCalendar ==
  ASSUME RentalsOnCalendar, DatesStay, \A m \in net' : m.kind = "create" => m \in net
  PROVE  RentalsOnCalendar'
BY DEF RentalsOnCalendar, DatesStay, OnCalendar

\* One rental changes, but for its dates.
LEMMA OneRentalStays ==
  ASSUME BookingShape, NEW i, NEW r, i \in DOMAIN db.rentals => r.dates = db.rentals[i].dates,
         db' = [db EXCEPT !.rentals = [@ EXCEPT ![i] = r]]
  PROVE  DatesStay
<1>1. db'.rentals = [db.rentals EXCEPT ![i] = r]
  BY DEF BookingShape
<1>2. db.rentals \in Seq(Rental)
  BY DEF BookingShape
<1> QED BY <1>1, <1>2 DEF DatesStay

\* The page gives rentals up.
LEMMA LostRentalsStay ==
  ASSUME BookingShape, NEW S, db' = [db EXCEPT !.rentals = Booking!Lose(@, S)]
  PROVE  DatesStay
BY LoseEvolves DEF Evolves, NoneCreated, Ages, DatesStay

\* The server settles, lets lapse, cancels or opens a payment.
LEMMA ServedRentalStays ==
  ASSUME BookingInv,
         \/ \E i \in DOMAIN db.rentals : \/ Booking!WebhookPaid(i) \/ Booking!SessionExpires(i)
                                         \/ Booking!HoldLapses(i) \/ Booking!Cancelled(i)
         \/ \E m \in net : Booking!ServeCheckout(m)
         \/ \E result \in {"sucesso", "cancelado"} : Booking!StripeReturns(result)
  PROVE  DatesStay
<1>1. BookingShape /\ \A i \in DOMAIN db.rentals : "dates" \in DOMAIN db.rentals[i]
  <2>1. \A i \in DOMAIN db.rentals : db.rentals[i] \in Rental
    BY DEF BookingInv, BookingShape
  <2> QED BY <2>1 DEF BookingInv, Rental
<1>2. db' = db => DatesStay
  BY DEF DatesStay
<1>3. ASSUME NEW i \in DOMAIN db.rentals, Booking!WebhookPaid(i)
      PROVE  DatesStay
  <2>1. PICK r \in {[db.rentals[i] EXCEPT !.status = "paid", !.pay = "approved"],
                    [db.rentals[i] EXCEPT !.pay = "review"]} :
          db' = [db EXCEPT !.rentals = [@ EXCEPT ![i] = r]]
    BY <1>3 DEF Booking!WebhookPaid
  <2>2. r.dates = db.rentals[i].dates
    BY <1>1, <1>3, <2>1
  <2> QED BY <1>1, <2>1, <2>2, OneRentalStays
<1>4. ASSUME NEW i \in DOMAIN db.rentals, Booking!SessionExpires(i)
      PROVE  DatesStay
  <2>1. PICK r : r = [db.rentals[i] EXCEPT !.pay = "expired",
                                           !.status = IF @ = "awaiting_payment" THEN "cancelled" ELSE @]
    OBVIOUS
  <2>2. db' = [db EXCEPT !.rentals = [@ EXCEPT ![i] = r]]
    BY <1>4, <2>1 DEF Booking!SessionExpires
  <2>3. r.dates = db.rentals[i].dates
    BY <1>1, <1>4, <2>1
  <2> QED BY <1>1, <2>2, <2>3, OneRentalStays
<1>5. ASSUME NEW i \in DOMAIN db.rentals, Booking!HoldLapses(i)
      PROVE  DatesStay
  <2>1. PICK r : r = [db.rentals[i] EXCEPT !.held = FALSE]
    OBVIOUS
  <2>2. db' = [db EXCEPT !.rentals = [@ EXCEPT ![i] = r]]
    BY <1>5, <2>1 DEF Booking!HoldLapses
  <2>3. r.dates = db.rentals[i].dates
    BY <1>1, <1>5, <2>1
  <2> QED BY <1>1, <2>2, <2>3, OneRentalStays
<1>6. ASSUME NEW i \in DOMAIN db.rentals, Booking!Cancelled(i)
      PROVE  DatesStay
  <2>1. PICK r : r = [db.rentals[i] EXCEPT !.status = "cancelled", !.pay = IF @ = "approved" THEN "refunded" ELSE @]
    OBVIOUS
  <2>2. db' = [db EXCEPT !.rentals = [@ EXCEPT ![i] = r]]
    BY <1>6, <2>1 DEF Booking!Cancelled
  <2>3. r.dates = db.rentals[i].dates
    BY <1>1, <1>6, <2>1
  <2> QED BY <1>1, <2>2, <2>3, OneRentalStays
<1>7. ASSUME NEW m \in net, Booking!ServeCheckout(m)
      PROVE  DatesStay
  <2>1. PICK i, r : /\ i = m.rental
                    /\ r = [db.rentals[m.rental] EXCEPT !.status = "awaiting_payment", !.held = TRUE,
                                                        !.pay = "pending", !.charged = FALSE]
    OBVIOUS
  <2>2. db' = [db EXCEPT !.rentals = [@ EXCEPT ![i] = r]]
    BY <1>7, <2>1 DEF Booking!ServeCheckout
  <2>3. i \in DOMAIN db.rentals => r.dates = db.rentals[i].dates
    BY <1>1, <2>1
  <2> QED BY <1>1, <2>2, <2>3, OneRentalStays
<1>8. ASSUME NEW result, Booking!StripeReturns(result)
      PROVE  DatesStay
  <2>1. PICK i, r : i = ui.rental /\ r = [db.rentals[ui.rental] EXCEPT !.charged = TRUE]
    OBVIOUS
  <2>2. db' = db \/ db' = [db EXCEPT !.rentals = [@ EXCEPT ![i] = r]]
    BY <1>8, <2>1 DEF Booking!StripeReturns
  <2>3. i \in DOMAIN db.rentals => r.dates = db.rentals[i].dates
    BY <1>1, <2>1
  <2> QED BY <1>1, <1>2, <2>2, <2>3, OneRentalStays
<1> QED BY <1>3, <1>4, <1>5, <1>6, <1>7, <1>8

\* What is left behind by a page was sent by it.
LEMMA OrphansOnCalendar ==
  ASSUME NEW S \in SUBSET Request, \A m \in S : m.kind = "create" => OnCalendar(m.dates)
  PROVE  \A m \in Booking!Orphans(S) : m.kind = "create" => OnCalendar(m.dates)
<1> SUFFICES ASSUME NEW n \in S, n.kind \in {"create", "created", "checkout"}, NEW m, m = [n EXCEPT !.here = FALSE],
                    m.kind = "create"
             PROVE  OnCalendar(m.dates)
  BY DEF Booking!Orphans
<1>1. n.kind = "create"
  <2>1. CASE n.kind = "create"
    BY <2>1
  <2>2. CASE n.kind \in {"created", "checkout"}
    <3>1. n \in [kind : {"created", "checkout"}, rental : DOMAIN db.rentals, here : YesNo]
      BY <2>2 DEF Request
    <3>2. m.kind = n.kind
      BY <3>1
    <3> QED BY <2>2, <3>2
  <2> QED BY <2>1, <2>2
<1>2. n \in [kind : {"create"}, dates : Span, here : YesNo]
  BY <1>1 DEF Request
<1>3. m.dates = n.dates
  BY <1>2
<1> QED BY <1>1, <1>3

\* The rentals keep theirs.
LEMMA RentalsOnCalendarStep ==
  ASSUME BookingInv, BookingTypes, Booking!Next
  PROVE  RentalsOnCalendar'
<1>1. BookingShape /\ RentalsOnCalendar /\ BookingPage
  BY DEF BookingInv, BookingTypes
<1>2. db' = db => DatesStay
  BY DEF DatesStay
<1>3. ASSUME \/ \E i \in DOMAIN db.rentals : \/ Booking!WebhookPaid(i) \/ Booking!SessionExpires(i)
                                             \/ Booking!HoldLapses(i) \/ Booking!Cancelled(i)
             \/ \E m \in net : Booking!ServeCheckout(m)
             \/ \E result \in {"sucesso", "cancelado"} : Booking!StripeReturns(result)
      PROVE  RentalsOnCalendar'
  <2>1. \A address : \A m \in Booking!First(address) : m.kind # "create"
    BY DEF Booking!First
  <2>2. CASE \E i \in DOMAIN db.rentals : \/ Booking!WebhookPaid(i) \/ Booking!SessionExpires(i)
                                          \/ Booking!HoldLapses(i) \/ Booking!Cancelled(i)
    <3>1. net' = net
      BY <2>2 DEF Booking!WebhookPaid, Booking!SessionExpires, Booking!HoldLapses, Booking!Cancelled
    <3> QED BY <1>1, <1>3, <3>1, ServedRentalStays, StayOnCalendar
  <2>3. ASSUME NEW m \in net, Booking!ServeCheckout(m)
        PROVE  RentalsOnCalendar'
    <3>1. \A n \in net' : n.kind = "create" => n \in net
      BY <2>3 DEF Booking!ServeCheckout
    <3> QED BY <1>1, <1>3, <3>1, ServedRentalStays, StayOnCalendar
  <2>4. ASSUME NEW result, Booking!StripeReturns(result)
        PROVE  RentalsOnCalendar'
    <3>1. \A n \in net' : n.kind = "create" => n \in net
      BY <2>1, <2>4 DEF Booking!StripeReturns
    <3> QED BY <1>1, <1>3, <3>1, ServedRentalStays, StayOnCalendar
  <2> QED BY <1>3, <2>2, <2>3, <2>4
<1>4. CASE Booking!Reload
  <2>1. DatesStay
    BY <1>1, <1>4, LostRentalsStay DEF Booking!Reload, Booking!Mount
  <2>2. net' = Booking!First(ui.address) \cup Booking!Orphans(net)
    BY <1>4 DEF Booking!Reload, Booking!Mount
  <2>3. \A m \in Booking!First(ui.address) : m.kind # "create"
    BY DEF Booking!First
  <2>4. \A m \in Booking!Orphans(net) : m.kind = "create" => OnCalendar(m.dates)
    BY <1>1, OrphansOnCalendar DEF BookingShape, RentalsOnCalendar
  <2> QED BY <1>1, <2>1, <2>2, <2>3, <2>4 DEF RentalsOnCalendar, DatesStay, OnCalendar
<1>5. ASSUME NEW m \in net, Booking!OpenedArrives(m)
      PROVE  RentalsOnCalendar'
  <2>1. db' = db /\ net' = Booking!Orphans(net \ {m})
    BY <1>5 DEF Booking!OpenedArrives
  <2>2. \A n \in net' : n.kind = "create" => OnCalendar(n.dates)
    BY <1>1, <2>1, OrphansOnCalendar DEF BookingShape, RentalsOnCalendar
  <2> QED BY <1>1, <2>1, <2>2 DEF RentalsOnCalendar, OnCalendar
<1>6. CASE Booking!Pay
  <2>1. PICK a \in {[kind |-> "create", dates |-> Booking!Dates, here |-> TRUE],
                    [kind |-> "checkout", rental |-> ui.rental, here |-> TRUE]} : net' = net \cup {a} /\ db' = db
    BY <1>6 DEF Booking!Pay
  <2>2. a.kind = "create" => OnCalendar(a.dates)
    BY <1>1, <2>1 DEF BookingPage
  <2> QED BY <1>1, <2>1, <2>2 DEF RentalsOnCalendar, OnCalendar
<1>7. ASSUME NEW m \in net, Booking!ServeCreate(m)
      PROVE  RentalsOnCalendar'
  <2>1. PICK r : /\ r = [dates |-> m.dates, status |-> "pending", held |-> TRUE, pay |-> "none", charged |-> FALSE,
                         lost |-> ~m.here]
                 /\ db' = [db EXCEPT !.rentals = Append(@, r)]
    BY <1>7 DEF Booking!ServeCreate
  <2>2. OnCalendar(r.dates)
    BY <1>1, <1>7, <2>1 DEF Booking!ServeCreate, RentalsOnCalendar
  <2>3. \A i \in DOMAIN db'.rentals :
            db'.rentals[i] = r \/ (i \in DOMAIN db.rentals /\ db'.rentals[i] = db.rentals[i])
    <3>1. db.rentals \in Seq(Rental) /\ db'.rentals = Append(db.rentals, r)
      BY <1>1, <2>1 DEF BookingShape
    <3>2. DOMAIN db'.rentals = DOMAIN db.rentals \cup {Len(db.rentals) + 1} /\ db'.rentals[Len(db.rentals) + 1] = r
          /\ \A i \in DOMAIN db.rentals : db'.rentals[i] = db.rentals[i]
      <4>1. Len(db.rentals) \in Nat /\ DOMAIN db.rentals = 1..Len(db.rentals)
        BY <3>1
      <4>2. db'.rentals = [i \in 1..Len(db.rentals) + 1 |-> IF i = Len(db.rentals) + 1 THEN r ELSE db.rentals[i]]
        BY <3>1, <4>1
      <4> QED BY <4>1, <4>2
    <3> QED BY <3>2
  <2>4. \A n \in net' : n.kind = "create" => n \in net
    BY <1>7 DEF Booking!ServeCreate
  <2> QED BY <1>1, <2>2, <2>3, <2>4 DEF RentalsOnCalendar, OnCalendar
<1>8. ASSUME NEW m \in net, Booking!PayFails(m) \/ Booking!PollArrives(m) \/ Booking!PollFails(m)
      PROVE  RentalsOnCalendar'
  <2>1. db' = db \/ \E S : db' = [db EXCEPT !.rentals = Booking!Lose(@, S)]
    BY <1>8 DEF Booking!PayFails, Booking!PollArrives, Booking!PollFails, Booking!Again
  <2>2. \A n \in net' : n.kind = "create" => n \in net
    BY <1>8 DEF Booking!PayFails, Booking!PollArrives, Booking!PollFails, Booking!Again
  <2> QED BY <1>1, <1>2, <2>1, <2>2, LostRentalsStay, StayOnCalendar
<1>9. \A ms, p : \A n \in Booking!Asking(ms, p) : n.kind = "create" => n \in ms
  BY DEF Booking!Asking
<1>10. ASSUME NEW m \in net, Booking!RestoreArrives(m) \/ Booking!ConcludeArrives(m)
       PROVE  RentalsOnCalendar'
  <2>1. PICK p : (net' = Booking!Asking(net \ {m}, p) \/ net' = net \ {m}) /\ db' = db
    BY <1>10 DEF Booking!RestoreArrives, Booking!ConcludeArrives
  <2> QED BY <1>1, <1>2, <1>9, <2>1, StayOnCalendar
<1>11. ASSUME NEW d, NEW p, Booking!SelectDay(d) \/ Booking!Clear(p)
       PROVE  RentalsOnCalendar'
  <2>1. PICK q : net' = Booking!Asking(net, q) /\ db' = db
    BY <1>11 DEF Booking!SelectDay, Booking!Clear
  <2> QED BY <1>1, <1>2, <1>9, <2>1, StayOnCalendar
<1>12. ASSUME NEW m \in net, \/ Booking!OccupancyArrives(m) \/ Booking!QuoteArrives(m) \/ Booking!CreatedArrives(m)
                             \/ Booking!RestoreFails(m) \/ Booking!ConcludeFails(m)
       PROVE  RentalsOnCalendar'
  <2>1. db' = db /\ \A n \in net' : n.kind = "create" => n \in net
    BY <1>12 DEF Booking!OccupancyArrives, Booking!QuoteArrives, Booking!CreatedArrives, Booking!RestoreFails,
       Booking!ConcludeFails
  <2> QED BY <1>1, <1>2, <2>1, StayOnCalendar
<1>13. CASE Booking!Advance \/ Booking!BackToDates \/ Booking!BackToPayment
  BY <1>1, <1>2, <1>13, StayOnCalendar DEF Booking!Advance, Booking!BackToDates, Booking!BackToPayment
<1> QED BY <1>3, <1>4, <1>5, <1>6, <1>7, <1>8, <1>10, <1>11, <1>12, <1>13 DEF Booking!Next

\* Every step keeps them.
LEMMA BookingTypesStep ==
  ASSUME BookingInv, BookingTypes, Booking!Next \/ UNCHANGED <<ui, db, net>>
  PROVE  BookingTypes'
<1>1. CASE UNCHANGED <<ui, db, net>>
  BY <1>1 DEF BookingTypes, BookingPage, PollsLeft, RentalsOnCalendar, OnCalendar, Booking!Dates
<1>2. CASE Booking!Next
  BY <1>2, BookingPageStep, PollsLeftStep, RentalsOnCalendarStep DEF BookingTypes
<1> QED BY <1>1, <1>2

-----------------------------------------------------------------------------
(***************************************************************************)
(* The search of a machine.  A question gets the next number while there   *)
(* is one, and a page is left for the login without being counted again.   *)
(***************************************************************************)
SearchPageTyped(s, u) ==
  /\ u.view \in {"home", "list", "dashboard", "ad", "away"}
  /\ u.chat.search.status \in {"idle", "pending", "done", "failed"}
  /\ u.asked \in 0..MaxAsks[s] /\ u.reads \in 0..MaxReads[s] /\ u.visits \in 0..MaxVisits[s]

SearchTypes(s) == SearchPageTyped(s, ui) /\ db.changes \in 0..MaxChanges

\* They are the types of the module, with what the chat keeps of its answers.
LEMMA SearchTyped ==
  ASSUME NEW s \in SearchScreens, SearchInv(s), SearchTypes(s)
  PROVE  Finds(s)!TypeOK
<1>1. ui.chat.step \in 0..5 /\ Len(ui.chat.responses) = ui.chat.step
  BY DEF SearchInv, SearchPage, ChatKept
<1> QED BY <1>1, SearchBounds DEF SearchTypes, SearchPageTyped, Finds!TypeOK, Finds!Questions

\* They hold at first.
LEMMA SearchTypesStart ==
  ASSUME NEW s \in SearchScreens, Finds(s)!Init
  PROVE  SearchTypes(s)
<1>1. PICK chat : chat = Finds(s)!Chat
  OBVIOUS
<1>2. chat.search.status = "idle"
  BY <1>1, FreshChatKept, IdleKept, IdleAnywhere
<1>3. PICK browser, page : browser = Finds(s)!Browser /\ page = Finds(s)!Page
  OBVIOUS
<1>4. PICK in : ui = [view |-> "home", visits |-> 0, asked |-> 0, reads |-> 0, chat |-> chat, browse |-> browser,
                      ad |-> page, cached |-> <<>>, signedIn |-> in]
  BY <1>1, <1>3 DEF Finds!Init
<1>5. ui.view = "home" /\ ui.visits = 0 /\ ui.asked = 0 /\ ui.reads = 0 /\ ui.chat = chat
  BY <1>4
<1>6. db.changes = 0
  BY DEF Finds!Init
<1> QED BY <1>2, <1>5, <1>6, SearchBounds DEF SearchTypes, SearchPageTyped

\* The chat becomes c: what it asks has the next number.
LEMMA ChattingTyped ==
  ASSUME NEW s \in SearchScreens, SearchInv(s), SearchPageTyped(s, ui), NEW c, Finds(s)!Chatting(c),
         \/ c.search.status = "idle"
         \/ c.search = ui.chat.search
         \/ c.search.id = ui.asked + 1 /\ c.search.status = "pending"
  PROVE  SearchPageTyped(s, ui')
<1>1. CASE c.search.status # "pending" \/ c.search.id = ui.chat.search.id
  <2>1. ui' = [ui EXCEPT !.chat = c]
    BY <1>1 DEF Finds!Chatting, SearchInv, SearchPage
  <2>2. ui'.view = ui.view /\ ui'.visits = ui.visits /\ ui'.asked = ui.asked /\ ui'.reads = ui.reads /\ ui'.chat = c
    BY <2>1 DEF SearchInv, SearchPage
  <2> QED BY <2>2 DEF SearchPageTyped
<1>2. CASE c.search.status = "pending" /\ c.search.id # ui.chat.search.id
  <2>1. c.search.id = ui.asked + 1 /\ ui.asked < MaxAsks[s]
    BY <1>2 DEF Finds!Chatting
  <2>2. ui' = [ui EXCEPT !.chat = c, !.asked = c.search.id]
    BY <1>2 DEF Finds!Chatting
  <2>3. /\ ui'.view = ui.view /\ ui'.visits = ui.visits /\ ui'.asked = c.search.id /\ ui'.reads = ui.reads
        /\ ui'.chat = c
    BY <2>2 DEF SearchInv, SearchPage
  <2> QED BY <1>2, <2>1, <2>3, SearchBounds DEF SearchPageTyped
<1> QED BY <1>1, <1>2

\* The chat is answered, taken back, restarted, or asks again.
LEMMA ChatTyped ==
  ASSUME NEW s \in SearchScreens, SearchInv(s), SearchPageTyped(s, ui),
         Finds(s)!Reply \/ Finds(s)!StepBack \/ Finds(s)!Restart \/ Finds(s)!Retry
  PROVE  SearchPageTyped(s, ui')
<1>1. ChatKept(s, ui.chat)
  BY DEF SearchInv, SearchPage
<1>2. CASE Finds(s)!Reply
  <2>1. PICK r \in Finds(s)!Replies(ui.chat) :
           Finds(s)!Chatting(Finds(s)!Answered(ui.chat, r.answers, r.said, ui.asked + 1))
    BY <1>2 DEF Finds!Reply
  <2>2. PICK c : c = Finds(s)!Answered(ui.chat, r.answers, r.said, ui.asked + 1)
    OBVIOUS
  <2>3. c.search = ui.chat.search \/ (c.search.id = ui.asked + 1 /\ c.search.status = "pending")
    BY <1>1, <2>2, AnsweredKept
  <2> QED BY <2>1, <2>2, <2>3, ChattingTyped
<1>3. CASE Finds(s)!StepBack
  <2>1. PICK idle : idle = Finds(s)!Idle
    OBVIOUS
  <2>2. PICK c : c = [ui.chat EXCEPT !.search = idle, !.step = @ - 1, !.responses = SubSeq(@, 1, ui.chat.step - 1)]
    OBVIOUS
  <2>3. Finds(s)!Chatting(c)
    BY <1>3, <2>1, <2>2 DEF Finds!StepBack, Finds!Back
  <2>4. c.search.status = "idle"
    BY <1>1, <2>1, <2>2, IdleKept, IdleAnywhere DEF ChatKept
  <2> QED BY <2>3, <2>4, ChattingTyped
<1>4. CASE Finds(s)!Restart
  <2>1. PICK yes \in Flag : yes = TRUE
    BY DEF Flag
  <2>2. PICK c : c = [Finds(s)!Chat EXCEPT !.open = yes]
    OBVIOUS
  <2>3. Finds(s)!Chatting(c)
    BY <1>4, <2>1, <2>2 DEF Finds!Restart
  <2>4. c.search.status = "idle"
    BY <2>2, FreshChatKept, IdleKept, IdleAnywhere
  <2> QED BY <2>3, <2>4, ChattingTyped
<1>5. CASE Finds(s)!Retry
  <2>1. PICK c : c = Finds(s)!Request(ui.chat, ui.asked + 1)
    OBVIOUS
  <2>2. Finds(s)!Chatting(c) /\ ui.chat.search.status \in {"failed", "done"}
    BY <1>5, <2>1 DEF Finds!Retry
  <2>3. ui.chat.step = 5
    BY <1>1, <2>2 DEF ChatKept
  <2>4. c = ui.chat \/ (c.search.id = ui.asked + 1 /\ c.search.status = "pending")
    BY <1>1, <2>1, <2>3, RequestKept
  <2> QED BY <2>2, <2>4, ChattingTyped
<1> QED BY <1>2, <1>3, <1>4, <1>5

\* A page mounted is counted, and reads nothing yet.
LEMMA MountedTyped ==
  ASSUME NEW s \in SearchScreens, SearchInv(s), SearchPageTyped(s, ui), NEW view, NEW posting, NEW cached,
         view \in {"home", "list", "dashboard", "ad", "away"}
  PROVE  LET u == Finds(s)!Mounted(view, posting, cached)
         IN  /\ DOMAIN u = DOMAIN ui
             /\ u.visits = ui.visits + 1 /\ u.asked = ui.asked /\ u.reads = ui.reads
             /\ u.view = view /\ u.chat.search.status = "idle"
<1>1. PICK chat : chat = Finds(s)!Chat
  OBVIOUS
<1>2. chat.search.status = "idle"
  BY <1>1, FreshChatKept, IdleKept, IdleAnywhere
<1>3. PICK ad, browse :
        Finds(s)!Mounted(view, posting, cached)
          = [ui EXCEPT !.view = view, !.visits = ui.visits + 1, !.chat = chat, !.ad = ad, !.browse = browse,
                       !.cached = cached]
  BY <1>1 DEF Finds!Mounted, SearchInv, SearchPage
<1> QED BY <1>2, <1>3 DEF SearchInv, SearchPage

\* A page is visited, or left for another.
LEMMA VisitTyped ==
  ASSUME NEW s \in SearchScreens, SearchInv(s), SearchPageTyped(s, ui),
         \/ Finds(s)!VisitHome
         \/ \E view \in {"list", "dashboard"} : Finds(s)!VisitList(view)
         \/ \E p : Finds(s)!OpenAd(p)
  PROVE  SearchPageTyped(s, ui')
<1>1. CASE \E view \in {"list", "dashboard"} : Finds(s)!VisitList(view)
  <2>1. PICK view \in {"list", "dashboard"} : Finds(s)!VisitList(view)
    BY <1>1
  <2>2. PICK cached \in {ui.cached, <<>>}, fresh \in BOOLEAN :
           LET u == Finds(s)!Mounted(view, 0, cached)
               read == ~(fresh /\ view = "list" /\ cached # <<>>)
           IN  /\ read => ui.reads < MaxReads[s]
               /\ ui' = [u EXCEPT !.reads = IF read THEN @ + 1 ELSE @]
               /\ net' = IF read THEN Finds(s)!Reading(view, u.visits) ELSE net
    BY <2>1 DEF Finds!VisitList
  <2>3. PICK u : u = Finds(s)!Mounted(view, 0, cached)
    OBVIOUS
  <2>4. /\ DOMAIN u = DOMAIN ui /\ u.visits = ui.visits + 1 /\ u.asked = ui.asked /\ u.reads = ui.reads
        /\ u.view = view /\ u.chat.search.status = "idle"
    BY <2>3, MountedTyped
  <2>5. PICK reads : /\ reads = u.reads \/ (reads = u.reads + 1 /\ ui.reads < MaxReads[s])
                     /\ ui' = [u EXCEPT !.reads = reads]
    BY <2>2, <2>3
  <2>6. /\ ui'.visits = u.visits /\ ui'.asked = u.asked /\ ui'.reads = reads /\ ui'.view = u.view
        /\ ui'.chat = u.chat
    BY <2>4, <2>5 DEF SearchInv, SearchPage
  <2>7. ui.visits < MaxVisits[s]
    BY <2>1 DEF Finds!VisitList
  <2> QED BY <2>4, <2>5, <2>6, <2>7, SearchBounds DEF SearchPageTyped
<1>2. CASE Finds(s)!VisitHome \/ (\E p : Finds(s)!OpenAd(p))
  <2>1. PICK view, posting : view \in {"home", "ad"} /\ ui' = Finds(s)!Mounted(view, posting, ui.cached)
    BY <1>2 DEF Finds!VisitHome, Finds!OpenAd
  <2>2. ui.visits < MaxVisits[s]
    BY <1>2 DEF Finds!VisitHome, Finds!OpenAd
  <2>3. /\ ui'.visits = ui.visits + 1 /\ ui'.asked = ui.asked /\ ui'.reads = ui.reads
        /\ ui'.view = view /\ ui'.chat.search.status = "idle"
    <3>1. view \in {"home", "list", "dashboard", "ad", "away"}
      BY <2>1
    <3>2. PICK u : u = Finds(s)!Mounted(view, posting, ui.cached)
      OBVIOUS
    <3>3. /\ u.visits = ui.visits + 1 /\ u.asked = ui.asked /\ u.reads = ui.reads
          /\ u.view = view /\ u.chat.search.status = "idle"
      BY <3>1, <3>2, MountedTyped
    <3> QED BY <2>1, <3>2, <3>3
  <2> QED BY <2>1, <2>2, <2>3, SearchBounds DEF SearchPageTyped
<1> QED BY <1>1, <1>2

\* The visitor is sent away, to the login or to a conversation.
LEMMA AwayTyped ==
  ASSUME NEW s \in SearchScreens, SearchInv(s), SearchPageTyped(s, ui),
         \/ Finds(s)!Talk
         \/ \E m \in net : Finds(s)!ThreadArrives(m)
  PROVE  SearchPageTyped(s, ui')
<1>1. CASE Finds(s)!Talk /\ ui.signedIn
  <2>1. ui' = [ui EXCEPT !.ad.talking = TRUE]
    BY <1>1 DEF Finds!Talk
  <2>2. /\ ui'.view = ui.view /\ ui'.visits = ui.visits /\ ui'.asked = ui.asked /\ ui'.reads = ui.reads
        /\ ui'.chat = ui.chat
    BY <2>1 DEF SearchInv, SearchPage
  <2> QED BY <2>2 DEF SearchPageTyped
<1>2. CASE (Finds(s)!Talk /\ ~ui.signedIn) \/ (\E m \in net : Finds(s)!ThreadArrives(m))
  <2>1. PICK u : u = Finds(s)!Mounted("away", 0, ui.cached)
    OBVIOUS
  <2>2. ui' = [u EXCEPT !.visits = ui.visits]
    BY <1>2, <2>1 DEF Finds!Talk, Finds!ThreadArrives
  <2>3. /\ DOMAIN u = DOMAIN ui /\ u.asked = ui.asked /\ u.reads = ui.reads
        /\ u.view = "away" /\ u.chat.search.status = "idle"
    BY <2>1, MountedTyped
  <2>4. ui'.visits = ui.visits /\ ui'.asked = u.asked /\ ui'.reads = u.reads /\ ui'.view = u.view /\ ui'.chat = u.chat
    BY <2>2, <2>3 DEF SearchInv, SearchPage
  <2> QED BY <2>3, <2>4 DEF SearchPageTyped
<1> QED BY <1>1, <1>2

\* The chat is opened, and hears what it asked.
LEMMA HeardTyped ==
  ASSUME NEW s \in SearchScreens, SearchInv(s), SearchPageTyped(s, ui),
         \/ Finds(s)!Toggle
         \/ \E m \in net : Finds(s)!RecommendedArrives(m) \/ Finds(s)!RecommendFails(m)
  PROVE  SearchPageTyped(s, ui')
<1> USE DEF SearchInv, SearchPage, ChatKept
<1>1. ASSUME NEW c, ui' = [ui EXCEPT !.chat = c], c.search.status \in {"idle", "pending", "done", "failed"}
      PROVE  SearchPageTyped(s, ui')
  <2>1. ui'.view = ui.view /\ ui'.visits = ui.visits /\ ui'.asked = ui.asked /\ ui'.reads = ui.reads /\ ui'.chat = c
    BY <1>1
  <2> QED BY <1>1, <2>1 DEF SearchPageTyped
<1>2. CASE Finds(s)!Toggle
  <2>1. PICK c : c = [ui.chat EXCEPT !.open = ~ui.chat.open]
    OBVIOUS
  <2>2. ui' = [ui EXCEPT !.chat = c]
    BY <1>2, <2>1 DEF Finds!Toggle
  <2>3. c.search = ui.chat.search
    BY <2>1
  <2> QED BY <1>1, <2>2, <2>3 DEF SearchPageTyped
<1>3. ASSUME NEW search, ui' = [ui EXCEPT !.chat.search = search], search.status \in {"done", "failed"}
      PROVE  SearchPageTyped(s, ui')
  <2>1. PICK c : c = [ui.chat EXCEPT !.search = search]
    OBVIOUS
  <2>2. ui' = [ui EXCEPT !.chat = c]
    BY <1>3, <2>1
  <2>3. c.search = search
    BY <2>1
  <2> QED BY <1>1, <1>3, <2>2, <2>3
<1>4. ASSUME NEW m \in net, Finds(s)!RecommendedArrives(m)
      PROVE  SearchPageTyped(s, ui')
  <2>1. PICK search : search = [ui.chat.search EXCEPT !.status = "done", !.about = m.about, !.result = m.result]
    OBVIOUS
  <2>2. search.status = "done"
    BY <2>1
  <2>3. CASE Finds(s)!Heard(m)
    <3>1. ui' = [ui EXCEPT !.chat.search = search]
      BY <1>4, <2>1, <2>3, ZenonT(40) DEF Finds!RecommendedArrives
    <3> QED BY <1>3, <2>2, <3>1
  <2>4. CASE ~Finds(s)!Heard(m)
    BY <1>4, <2>4 DEF Finds!RecommendedArrives
  <2> QED BY <2>3, <2>4
<1>5. ASSUME NEW m \in net, Finds(s)!RecommendFails(m)
      PROVE  SearchPageTyped(s, ui')
  <2>1. PICK search : search = [ui.chat.search EXCEPT !.status = "failed"]
    OBVIOUS
  <2>2. ui' = ui \/ ui' = [ui EXCEPT !.chat.search = search]
    BY <1>5, <2>1 DEF Finds!RecommendFails
  <2>3. search.status = "failed"
    BY <2>1
  <2> QED BY <1>3, <2>2, <2>3
<1> QED BY <1>2, <1>4, <1>5

\* Everything else keeps the page, the search and what is counted of them,
\* but for a list read again.
LEMMA PagesTyped ==
  ASSUME NEW s \in SearchScreens, SearchInv(s), SearchPageTyped(s, ui),
         \/ Finds(s)!Reconnect \/ Finds(s)!PriceSettles \/ Finds(s)!Clear \/ Finds(s)!Sort
         \/ \E w : Finds(s)!TypeWork(w)
         \/ \E v : Finds(s)!TypePrice(v)
         \/ \E page : Finds(s)!Turn(page)
         \/ \E p : Finds(s)!Change(p)
         \/ \E m \in net :
              \/ Finds(s)!ListArrives(m) \/ Finds(s)!ListFails(m) \/ Finds(s)!DetailArrives(m)
              \/ Finds(s)!BookingsArrive(m) \/ Finds(s)!ThreadFails(m)
              \/ Finds(s)!ServeList(m) \/ Finds(s)!ServeRecommend(m) \/ Finds(s)!ServeSimilar(m)
  PROVE  SearchPageTyped(s, ui')
<1> DEFINE Same == /\ ui'.view = ui.view /\ ui'.visits = ui.visits /\ ui'.asked = ui.asked /\ ui'.chat = ui.chat
                   /\ ui'.reads = ui.reads
<1>1. ASSUME Same
      PROVE  SearchPageTyped(s, ui')
  BY <1>1 DEF SearchPageTyped
<1>2. CASE Finds(s)!Reconnect
  <2>1. ui.reads < MaxReads[s] /\ ui' = [ui EXCEPT !.reads = ui.reads + 1]
    BY <1>2 DEF Finds!Reconnect
  <2>2. /\ ui'.view = ui.view /\ ui'.visits = ui.visits /\ ui'.asked = ui.asked /\ ui'.chat = ui.chat
        /\ ui'.reads = ui.reads + 1
    BY <2>1 DEF SearchInv, SearchPage
  <2> QED BY <2>1, <2>2, SearchBounds DEF SearchPageTyped
<1>3. ASSUME NEW b, ui' = [ui EXCEPT !.browse = b]
      PROVE  Same
  BY <1>3 DEF SearchInv, SearchPage
<1>4. CASE \/ Finds(s)!PriceSettles \/ Finds(s)!Clear \/ Finds(s)!Sort
           \/ \E w : Finds(s)!TypeWork(w)
           \/ \E v : Finds(s)!TypePrice(v)
           \/ \E page : Finds(s)!Turn(page)
  <2>1. PICK b : ui' = [ui EXCEPT !.browse = b]
    BY <1>4 DEF Finds!PriceSettles, Finds!Clear, Finds!Sort, Finds!TypeWork, Finds!TypePrice, Finds!Turn, Finds!Shows
  <2> QED BY <1>1, <1>3, <2>1, SMTT(30)
<1>5. ASSUME NEW m \in net, Finds(s)!ListArrives(m)
      PROVE  SearchPageTyped(s, ui')
  <2>1. PICK u : u = IF m.view = "list" THEN [ui EXCEPT !.cached = <<m.rows>>] ELSE ui
    OBVIOUS
  <2>2. /\ u.view = ui.view /\ u.visits = ui.visits /\ u.asked = ui.asked /\ u.chat = ui.chat /\ u.reads = ui.reads
        /\ DOMAIN u = DOMAIN ui
    BY <2>1 DEF SearchInv, SearchPage
  <2>3. ui' = u \/ \E b : ui' = [u EXCEPT !.browse = b]
    BY <1>5, <2>1 DEF Finds!ListArrives
  <2>4. Same
    BY <2>2, <2>3 DEF SearchInv, SearchPage
  <2> QED BY <1>1, <2>4
<1>6. ASSUME NEW m \in net, Finds(s)!ListFails(m)
      PROVE  SearchPageTyped(s, ui')
  <2>1. ui' = ui \/ ui' = [ui EXCEPT !.browse.list = "failed"]
    BY <1>6 DEF Finds!ListFails
  <2>2. Same
    BY <2>1 DEF SearchInv, SearchPage
  <2> QED BY <1>1, <2>2
<1>7. ASSUME NEW m \in net, Finds(s)!DetailArrives(m) \/ Finds(s)!BookingsArrive(m) \/ Finds(s)!ThreadFails(m)
      PROVE  SearchPageTyped(s, ui')
  <2>1. CASE Finds(s)!DetailArrives(m)
    <3>1. ui' = ui \/ \E shown : ui' = [ui EXCEPT !.ad.shown = shown]
      BY <2>1 DEF Finds!DetailArrives
    <3> QED BY <1>1, <3>1 DEF SearchInv, SearchPage
  <2>2. CASE Finds(s)!BookingsArrive(m)
    <3>1. ui' = ui \/ \E booked : ui' = [ui EXCEPT !.ad.booked = booked]
      BY <2>2 DEF Finds!BookingsArrive
    <3> QED BY <1>1, <3>1 DEF SearchInv, SearchPage
  <2>3. CASE Finds(s)!ThreadFails(m)
    <3>1. ui' = ui \/ ui' = [ui EXCEPT !.ad.talking = FALSE]
      BY <2>3 DEF Finds!ThreadFails
    <3> QED BY <1>1, <3>1 DEF SearchInv, SearchPage
  <2> QED BY <1>7, <2>1, <2>2, <2>3
<1>8. CASE \/ \E p : Finds(s)!Change(p)
           \/ \E m \in net : Finds(s)!ServeList(m) \/ Finds(s)!ServeRecommend(m) \/ Finds(s)!ServeSimilar(m)
  BY <1>1, <1>8 DEF Finds!Change, Finds!ServeList, Finds!ServeRecommend, Finds!ServeSimilar
<1> HIDE DEF Same
<1> QED BY <1>2, <1>4, <1>5, <1>6, <1>7, <1>8

\* The rows change as often as they may.
LEMMA ChangesCounted ==
  ASSUME NEW s \in SearchScreens, db.changes \in 0..MaxChanges, Finds(s)!Next
  PROVE  db'.changes \in 0..MaxChanges
<1>1. ASSUME NEW p, Finds(s)!Change(p)
      PROVE  db'.changes \in 0..MaxChanges
  <2>1. db.changes < MaxChanges /\ \E rows : db' = [rows |-> rows, changes |-> db.changes + 1]
    BY <1>1, SMTT(30) DEF Finds!Change
  <2> QED BY <2>1, SearchBounds
<1>2. CASE \/ Finds(s)!Toggle \/ Finds(s)!Reply \/ Finds(s)!StepBack \/ Finds(s)!Restart \/ Finds(s)!Retry
  BY <1>2 DEF Finds!Toggle, Finds!Reply, Finds!StepBack, Finds!Restart, Finds!Retry, Finds!Chatting
<1>3. CASE \/ Finds(s)!VisitHome \/ Finds(s)!Reconnect \/ Finds(s)!PriceSettles \/ Finds(s)!Clear
           \/ Finds(s)!Sort \/ Finds(s)!Talk
           \/ \E view : Finds(s)!VisitList(view)
           \/ \E w : Finds(s)!TypeWork(w)
           \/ \E v : Finds(s)!TypePrice(v)
           \/ \E page : Finds(s)!Turn(page)
           \/ \E p : Finds(s)!OpenAd(p)
  BY <1>3 DEF Finds!VisitHome, Finds!Reconnect, Finds!PriceSettles, Finds!Clear, Finds!Sort, Finds!Talk,
              Finds!VisitList, Finds!TypeWork, Finds!TypePrice, Finds!Turn, Finds!OpenAd
<1>4. ASSUME NEW m \in net,
             \/ Finds(s)!RecommendedArrives(m) \/ Finds(s)!RecommendFails(m) \/ Finds(s)!ListArrives(m)
             \/ Finds(s)!ListFails(m) \/ Finds(s)!DetailArrives(m) \/ Finds(s)!BookingsArrive(m)
             \/ Finds(s)!ThreadArrives(m) \/ Finds(s)!ThreadFails(m)
             \/ Finds(s)!ServeList(m) \/ Finds(s)!ServeRecommend(m) \/ Finds(s)!ServeSimilar(m)
      PROVE  db'.changes \in 0..MaxChanges
  BY <1>4 DEF Finds!RecommendedArrives, Finds!RecommendFails, Finds!ListArrives, Finds!ListFails,
              Finds!DetailArrives, Finds!BookingsArrive, Finds!ThreadArrives, Finds!ThreadFails,
              Finds!ServeList, Finds!ServeRecommend, Finds!ServeSimilar
<1> QED BY <1>1, <1>2, <1>3, <1>4 DEF Finds!Next

\* Every step keeps them.
LEMMA SearchTypesStep ==
  ASSUME NEW s \in SearchScreens, SearchInv(s), SearchTypes(s), Finds(s)!Next \/ UNCHANGED <<ui, db, net>>
  PROVE  SearchTypes(s)'
<1>1. SearchPageTyped(s, ui)
  BY DEF SearchTypes
<1>2. CASE Finds(s)!Next
  <2>1. SearchPageTyped(s, ui')
    <3> HIDE DEF SearchTypes, SearchInv, SearchPageTyped
    <3> QED BY <1>1, <1>2, ChatTyped, VisitTyped, AwayTyped, HeardTyped, PagesTyped DEF Finds!Next
  <2>2. db'.changes \in 0..MaxChanges
    BY <1>2, ChangesCounted DEF SearchTypes
  <2> QED BY <2>1, <2>2 DEF SearchTypes, SearchPageTyped
<1>3. CASE UNCHANGED <<ui, db, net>>
  BY <1>3 DEF SearchTypes, SearchPageTyped
<1> QED BY <1>2, <1>3

-----------------------------------------------------------------------------
(***************************************************************************)
(* The messages.  What is under way names a conversation that was opened,  *)
(* so nothing is stored in, or listened to, where there is none; and a     *)
(* bubble is written in one.                                               *)
(***************************************************************************)
ChatPage(u) ==
  /\ u.gen \in 0..MaxGen /\ u.bubbles \subseteq Sends /\ u.state \in [Sends -> {"none", "pending", "failed"}]
  /\ u.socket \in {"closed", "connecting", "open", "out"} /\ u.desired \subseteq Threads
  /\ u.thread \in Threads \/ u.bubbles = {}

ChatRows == db.members \subseteq Threads /\ db.log \in Seq(Chat!Message) /\ Len(db.log) <= MaxLog

OpenFrame == {f \in UpFrame : f.thread \in Threads}

AboutThreads == net.up \in Seq(OpenFrame) /\ \A r \in net.rest : r.thread \in Threads

ChatTypes == ChatPage(ui) /\ ChatRows /\ AboutThreads

\* They are the types of the module, with what the screen shows of the log.
LEMMA MessagesTyped ==
  ASSUME IInv, ChatTypes
  PROVE  Chat!TypeOK
<1>1. ui.thread \in Threads \cup {NoThread} /\ ui.shown \subseteq DOMAIN db.log
  BY DEF IInv, Shape, OnView, Conversation
<1> QED BY <1>1 DEF ChatTypes, ChatPage, ChatRows, Chat!TypeOK, Chat!Bubble

\* They hold at first.
LEMMA ChatTypesStart ==
  ASSUME Chat!Init
  PROVE  ChatTypes
<1>1. ui.state = [c \in Sends |-> "none"]
  BY DEF Chat!Init
<1>2. ui.gen = 0 /\ ui.bubbles = {} /\ ui.socket = "closed" /\ ui.desired = {}
  BY DEF Chat!Init
<1>3. ChatPage(ui)
  BY <1>1, <1>2, ChatBounds DEF ChatPage
<1>4. db.log = <<>> /\ db.members = {} /\ net.up = <<>> /\ net.rest = {}
  BY DEF Chat!Init
<1>5. ChatRows /\ AboutThreads
  BY <1>4, ChatBounds DEF ChatRows, AboutThreads
<1> QED BY <1>3, <1>5 DEF ChatTypes

\* Messages put on screen take bubbles away, and leave their states.
LEMMA UpsertTyped ==
  ASSUME Shape, ChatPage(ui), NEW u, DOMAIN u = DOMAIN ui, u.gen = ui.gen, u.bubbles = ui.bubbles,
         u.state = ui.state, u.socket = ui.socket, u.desired = ui.desired, u.thread = ui.thread, NEW is
  PROVE  ChatPage(Chat!Upsert(u, is))
<1>1. PICK mine : mine = Chat!Own(is)
  OBVIOUS
<1>7. PICK echoed : echoed = Chat!Own(is \ u.shown)
  OBVIOUS
<1>2. PICK state : state = [c \in Sends |-> IF c \in mine THEN "none" ELSE u.state[c]]
  OBVIOUS
<1>3. PICK v : v = [u EXCEPT !.shown = u.shown \cup is, !.bubbles = u.bubbles \ echoed, !.state = state]
  OBVIOUS
<1>4. Chat!Upsert(u, is) = v
  BY <1>1, <1>2, <1>3, <1>7 DEF Chat!Upsert, Shape
<1>5. state \in [Sends -> {"none", "pending", "failed"}]
  BY <1>2 DEF ChatPage
<1>6. /\ v.gen = ui.gen /\ v.bubbles \subseteq ui.bubbles /\ v.state = state /\ v.socket = ui.socket
      /\ v.desired = ui.desired /\ v.thread = ui.thread
  BY <1>3 DEF Shape
<1> QED BY <1>4, <1>5, <1>6 DEF ChatPage

\* The user walks, writes, tries again, and gives up.
LEMMA UserTyped ==
  ASSUME IInv, ChatTypes,
         \/ \E t \in Threads : Chat!OpenThread(t)
         \/ \E c \in Sends : Chat!Write(c) \/ Chat!Retry(c) \/ Chat!SendTimesOut(c)
  PROVE  ChatPage(ui')
<1>1. Shape /\ ChatPage(ui)
  BY DEF IInv, ChatTypes
<1>2. ASSUME NEW t \in Threads, Chat!OpenThread(t)
      PROVE  ChatPage(ui')
  <2>1. ui.gen < MaxGen
    BY <1>2 DEF Chat!OpenThread
  <2>2. /\ ui'.thread = t /\ ui'.gen = ui.gen + 1 /\ ui'.bubbles = {} /\ ui'.desired = ui.desired \ {ui.thread}
        /\ ui'.state = ui.state /\ ui'.socket = ui.socket
    BY <1>1, <1>2 DEF Chat!OpenThread, Shape
  <2> QED BY <1>1, <2>1, <2>2, ChatBounds DEF ChatPage
<1>3. ASSUME NEW c \in Sends, NEW state \in {"pending", "failed"}, NEW bubbles \in SUBSET Sends, NEW tries,
             ui' = [ui EXCEPT !.bubbles = bubbles, !.state[c] = state, !.tries = tries],
             ui.thread \in Threads \/ bubbles = {}
      PROVE  ChatPage(ui')
  <2>1. PICK states : states = [ui.state EXCEPT ![c] = state]
    OBVIOUS
  <2>2. states \in [Sends -> {"none", "pending", "failed"}]
    BY <1>1, <2>1 DEF ChatPage
  <2>3. ui' = [ui EXCEPT !.bubbles = bubbles, !.state = states, !.tries = tries]
    BY <1>1, <1>3, <2>1 DEF Shape
  <2>4. /\ ui'.thread = ui.thread /\ ui'.gen = ui.gen /\ ui'.bubbles = bubbles /\ ui'.desired = ui.desired
        /\ ui'.state = states /\ ui'.socket = ui.socket
    BY <1>1, <2>3 DEF Shape
  <2> QED BY <1>1, <1>3, <2>2, <2>4 DEF ChatPage
<1>4. /\ ui.bubbles \in SUBSET Sends /\ (ui.thread \in Threads \/ ui.bubbles = {})
      /\ ui.thread \in Threads \cup {NoThread}
  BY <1>1 DEF ChatPage, Shape, Conversation
<1>5. ASSUME NEW c \in Sends, Chat!Write(c)
      PROVE  ChatPage(ui')
  <2>1. ui' = [ui EXCEPT !.bubbles = ui.bubbles \cup {c}, !.state[c] = "pending"] /\ ui.thread # NoThread
    BY <1>1, <1>5 DEF Chat!Write, Shape
  <2>2. PICK bubbles, state, tries :
          bubbles = ui.bubbles \cup {c} /\ state = "pending" /\ tries = ui.tries
    OBVIOUS
  <2>3. ui' = [ui EXCEPT !.bubbles = bubbles, !.state[c] = state, !.tries = tries]
    BY <1>1, <2>1, <2>2 DEF Shape
  <2>4. bubbles \in SUBSET Sends /\ state \in {"pending", "failed"} /\ (ui.thread \in Threads \/ bubbles = {})
    BY <1>4, <1>5, <2>1, <2>2
  <2> QED BY <1>3, <1>5, <2>3, <2>4
<1>6. ASSUME NEW c \in Sends, Chat!Retry(c)
      PROVE  ChatPage(ui')
  <2>1. ui' = [ui EXCEPT !.state[c] = "pending", !.tries = ui.tries + 1]
    BY <1>1, <1>6 DEF Chat!Retry, Shape
  <2>2. PICK bubbles, state, tries :
          bubbles = ui.bubbles /\ state = "pending" /\ tries = ui.tries + 1
    OBVIOUS
  <2>3. ui' = [ui EXCEPT !.bubbles = bubbles, !.state[c] = state, !.tries = tries]
    BY <1>1, <2>1, <2>2 DEF Shape
  <2>4. bubbles \in SUBSET Sends /\ state \in {"pending", "failed"} /\ (ui.thread \in Threads \/ bubbles = {})
    BY <1>4, <2>2
  <2> QED BY <1>3, <1>6, <2>3, <2>4
<1>7. ASSUME NEW c \in Sends, Chat!SendTimesOut(c)
      PROVE  ChatPage(ui')
  <2>1. ui' = [ui EXCEPT !.state[c] = "failed"]
    BY <1>7 DEF Chat!SendTimesOut
  <2>2. PICK bubbles, state, tries :
          bubbles = ui.bubbles /\ state = "failed" /\ tries = ui.tries
    OBVIOUS
  <2>3. ui' = [ui EXCEPT !.bubbles = bubbles, !.state[c] = state, !.tries = tries]
    BY <1>1, <2>1, <2>2 DEF Shape
  <2>4. bubbles \in SUBSET Sends /\ state \in {"pending", "failed"} /\ (ui.thread \in Threads \/ bubbles = {})
    BY <1>4, <2>2
  <2> QED BY <1>3, <1>7, <2>3, <2>4
<1> QED BY <1>2, <1>5, <1>6, <1>7

\* What comes back, over the socket or in an answer.
LEMMA AnswersOnPage ==
  ASSUME IInv, ChatTypes,
         \/ Chat!Receive
         \/ \E r \in net.rest : \/ Chat!PageArrives(r) \/ Chat!CatchUpArrives(r) \/ Chat!ListFails(r)
                                \/ Chat!PostArrives(r) \/ Chat!PostFails(r)
  PROVE  ChatPage(ui')
<1>1. Shape /\ ChatPage(ui)
  BY DEF IInv, ChatTypes
<1>2. ASSUME NEW u, NEW c, DOMAIN u = DOMAIN ui, u.gen = ui.gen, u.bubbles = ui.bubbles, u.state = ui.state,
             u.socket = ui.socket, u.desired = ui.desired, u.thread = ui.thread,
             ui' = [u EXCEPT !.state[c] = "failed"]
      PROVE  ChatPage(ui')
  <2>1. PICK states : states = [ui.state EXCEPT ![c] = "failed"]
    OBVIOUS
  <2>2. states \in [Sends -> {"none", "pending", "failed"}]
    BY <1>1, <2>1 DEF ChatPage
  <2>3. ui' = [u EXCEPT !.state = states]
    BY <1>1, <1>2, <2>1 DEF Shape
  <2>4. /\ ui'.thread = ui.thread /\ ui'.gen = ui.gen /\ ui'.bubbles = ui.bubbles /\ ui'.desired = ui.desired
        /\ ui'.state = states /\ ui'.socket = ui.socket
    BY <1>1, <1>2, <2>3 DEF Shape
  <2> QED BY <1>1, <2>2, <2>4 DEF ChatPage
<1>3. ASSUME NEW r \in net.rest, Chat!PageArrives(r)
      PROVE  ChatPage(ui')
  <2>1. CASE Chat!Current(r)
    <3>1. /\ ui'.thread = ui.thread /\ ui'.gen = ui.gen /\ ui'.bubbles = {}
          /\ ui'.desired = ui.desired \cup {r.thread} /\ ui'.state = ui.state /\ ui'.socket = ui.socket
      BY <1>1, <1>3, <2>1, ZenonT(40) DEF Chat!PageArrives, Shape
    <3>2. r.thread \in Threads
      BY <1>3 DEF ChatTypes, AboutThreads
    <3> QED BY <1>1, <3>1, <3>2 DEF ChatPage
  <2>2. CASE ~Chat!Current(r)
    BY <1>1, <1>3, <2>2 DEF Chat!PageArrives
  <2> QED BY <2>1, <2>2
<1>4. ASSUME NEW r \in net.rest, Chat!CatchUpArrives(r) \/ Chat!PostArrives(r)
      PROVE  ChatPage(ui')
  <2>1. PICK is : ui' = ui \/ ui' = Chat!Upsert(ui, is)
    BY <1>4 DEF Chat!CatchUpArrives, Chat!PostArrives
  <2> QED BY <1>1, <2>1, UpsertTyped
<1>5. ASSUME NEW r \in net.rest, Chat!ListFails(r) \/ Chat!PostFails(r)
      PROVE  ChatPage(ui')
  BY <1>1, <1>2, <1>5 DEF Chat!ListFails, Chat!PostFails
<1>6. CASE Chat!Receive
  <2>1. PICK u, f : /\ u = [ui EXCEPT !.refreshed = FALSE] /\ f = Head(net.down)
                    /\ ui' = CASE f.thread # ui.thread -> u
                               [] f.thread = ui.thread /\ f.type = "error" /\ u.state[f.cid] # "none" ->
                                    [u EXCEPT !.state[f.cid] = "failed"]
                               [] f.thread = ui.thread /\ f.type # "error" -> Chat!Upsert(u, {f.place})
                               [] OTHER -> u
    BY <1>6 DEF Chat!Receive
  <2>2. ui' = u \/ ui' = [u EXCEPT !.state[f.cid] = "failed"] \/ ui' = Chat!Upsert(u, {f.place})
    BY <2>1
  <2>3. /\ DOMAIN u = DOMAIN ui /\ u.gen = ui.gen /\ u.bubbles = ui.bubbles /\ u.state = ui.state
        /\ u.socket = ui.socket /\ u.desired = ui.desired /\ u.thread = ui.thread
    BY <1>1, <2>1 DEF Shape
  <2>4. CASE ui' = u
    BY <1>1, <2>3, <2>4 DEF ChatPage
  <2>5. CASE ui' = [u EXCEPT !.state[f.cid] = "failed"]
    BY <1>2, <2>3, <2>5
  <2>6. CASE ui' = Chat!Upsert(u, {f.place})
    BY <1>1, <2>3, <2>6, UpsertTyped
  <2> QED BY <2>2, <2>4, <2>5, <2>6
<1> QED BY <1>3, <1>4, <1>5, <1>6

\* The socket, the server and the peer leave what the page types.
LEMMA SocketTyped ==
  ASSUME IInv, ChatTypes,
         \/ Chat!Connect \/ Chat!BecomesVisible \/ Chat!Opens \/ Chat!ServeSubscription \/ Chat!ServeSend
         \/ \E code \in {"lost", "expired", "final"} : Chat!Drops(code)
         \/ \E r \in net.rest : Chat!ServeList(r) \/ Chat!ServePost(r)
         \/ \E t \in Threads, p \in Arrivals : Chat!PeerWrites(p, t)
  PROVE  ChatPage(ui')
<1>1. Shape /\ ChatPage(ui)
  BY DEF IInv, ChatTypes
<1>2. ASSUME NEW socket \in {"closed", "connecting", "open", "out"}, NEW drops, NEW refreshed, NEW retry,
             ui' = [ui EXCEPT !.socket = socket, !.drops = drops, !.refreshed = refreshed, !.retry = retry]
      PROVE  ChatPage(ui')
  <2>1. /\ ui'.thread = ui.thread /\ ui'.gen = ui.gen /\ ui'.bubbles = ui.bubbles /\ ui'.desired = ui.desired
        /\ ui'.state = ui.state /\ ui'.socket = socket
    BY <1>1, <1>2 DEF Shape
  <2> QED BY <1>1, <2>1 DEF ChatPage
<1>3. ASSUME ui'.thread = ui.thread, ui'.gen = ui.gen, ui'.bubbles = ui.bubbles, ui'.desired = ui.desired,
             ui'.state = ui.state, ui'.socket \in {"closed", "connecting", "open", "out"}
      PROVE  ChatPage(ui')
  BY <1>1, <1>3 DEF ChatPage
<1>4. CASE Chat!Connect
  <2>1. /\ ui'.thread = ui.thread /\ ui'.gen = ui.gen /\ ui'.bubbles = ui.bubbles /\ ui'.desired = ui.desired
        /\ ui'.state = ui.state /\ ui'.socket = "connecting"
    BY <1>1, <1>4 DEF Chat!Connect, Shape
  <2> QED BY <1>3, <2>1
<1>5. CASE Chat!BecomesVisible
  <2>1. /\ ui'.thread = ui.thread /\ ui'.gen = ui.gen /\ ui'.bubbles = ui.bubbles /\ ui'.desired = ui.desired
        /\ ui'.state = ui.state /\ ui'.socket = ui.socket
    BY <1>1, <1>5 DEF Chat!BecomesVisible, Shape
  <2> QED BY <1>1, <1>3, <2>1 DEF ChatPage
<1>6. CASE Chat!Opens
  <2>1. /\ ui'.thread = ui.thread /\ ui'.gen = ui.gen /\ ui'.bubbles = ui.bubbles /\ ui'.desired = ui.desired
        /\ ui'.state = ui.state /\ ui'.socket = "open"
    BY <1>1, <1>6 DEF Chat!Opens, Shape
  <2> QED BY <1>3, <2>1
<1>7. ASSUME NEW code, Chat!Drops(code)
      PROVE  ChatPage(ui')
  <2>1. PICK socket : socket = IF code = "expired" /\ ui.refreshed THEN "out" ELSE "closed"
    OBVIOUS
  <2>2. PICK refreshed, retry : refreshed = (ui.refreshed \/ code = "expired") /\ retry = (code # "final")
    OBVIOUS
  <2>3. ui' = [ui EXCEPT !.socket = socket, !.drops = ui.drops + 1, !.refreshed = refreshed, !.retry = retry]
    BY <1>1, <1>7, <2>1, <2>2, SMTT(30) DEF Chat!Drops, Shape
  <2> QED BY <1>2, <2>1, <2>3
<1>8. CASE \/ Chat!ServeSubscription \/ Chat!ServeSend
           \/ \E r \in net.rest : Chat!ServeList(r) \/ Chat!ServePost(r)
           \/ \E t \in Threads, p \in Arrivals : Chat!PeerWrites(p, t)
  BY <1>1, <1>8 DEF Chat!ServeSubscription, Chat!ServeSend, Chat!ServeList, Chat!ServePost, Chat!PeerWrites
<1> QED BY <1>4, <1>5, <1>6, <1>7, <1>8

\* What the database does with a message of a conversation keeps the log typed.
LEMMA StoreTyped ==
  ASSUME IInv, ChatRows, NEW c \in Sends \cup Arrivals, NEW t \in Threads, Chat!Store(c, t, Chat!Place(c))
  PROVE  ChatRows'
<1>1. CASE Chat!Place(c) > Len(db.log)
  <2>1. Chat!Place(c) = Len(db.log) + 1 /\ Chat!Place(c) <= MaxLog
    BY <1>1, PlaceOfMessage DEF IInv, Stored, Chat!Store
  <2>2. PICK m \in Chat!Message : m = [thread |-> t, cid |-> c]
    BY DEF Chat!Message
  <2>3. db'.log = Append(db.log, m) /\ db'.members = db.members
    BY <1>1, <2>2 DEF Chat!Store, IInv, Shape
  <2>4. db'.log \in Seq(Chat!Message) /\ Len(db'.log) = Len(db.log) + 1
    BY <2>3 DEF ChatRows
  <2> QED BY <2>1, <2>3, <2>4 DEF ChatRows, Chat!Message
<1>2. CASE ~(Chat!Place(c) > Len(db.log))
  BY <1>2 DEF Chat!Store, ChatRows, Chat!Message
<1> QED BY <1>1, <1>2

\* The server stores, and listens, where a conversation is.
LEMMA ChatRowsStep ==
  ASSUME IInv, ChatTypes, Chat!Next
  PROVE  ChatRows'
<1>1. ChatRows /\ AboutThreads
  BY DEF ChatTypes
<1>2. ASSUME NEW p \in Arrivals, NEW t \in Threads, Chat!PeerWrites(p, t)
      PROVE  ChatRows'
  BY <1>1, <1>2, StoreTyped DEF Chat!PeerWrites
<1>3. ASSUME NEW r \in net.rest, Chat!ServePost(r)
      PROVE  ChatRows'
  <2>1. r.cid \in Sends /\ r.thread \in Threads
    BY <1>1, <1>3 DEF Chat!ServePost, IInv, Asked, PostRequests, ListRequests, AboutThreads
  <2> QED BY <1>1, <1>3, <2>1, StoreTyped DEF Chat!ServePost
<1>4. CASE Chat!ServeSend
  <2>1. PICK f : f = Head(net.up)
    OBVIOUS
  <2>2. f \in OpenFrame /\ f.type = "send"
    BY <1>1, <1>4, <2>1 DEF Chat!ServeSend, AboutThreads
  <2>3. f.cid \in Sends /\ f.thread \in Threads
    BY <2>2 DEF OpenFrame, UpFrame
  <2>4. db' = db \/ Chat!Store(f.cid, f.thread, Chat!Place(f.cid))
    BY <1>4, <2>1 DEF Chat!ServeSend
  <2>5. CASE db' = db
    BY <1>1, <2>5 DEF ChatRows, Chat!Message
  <2> QED BY <1>1, <2>3, <2>4, <2>5, StoreTyped
<1>5. CASE Chat!ServeSubscription
  <2>1. PICK f : f = Head(net.up)
    OBVIOUS
  <2>2. f \in OpenFrame
    BY <1>1, <1>5, <2>1 DEF Chat!ServeSubscription, AboutThreads
  <2>3. db'.log = db.log /\ (db'.members = db.members \cup {f.thread} \/ db'.members = db.members \ {f.thread})
    BY <1>5, <2>1 DEF Chat!ServeSubscription, IInv, Shape
  <2> QED BY <1>1, <2>2, <2>3 DEF ChatRows, OpenFrame, Chat!Message
<1>6. ASSUME NEW code, Chat!Drops(code)
      PROVE  ChatRows'
  <2>1. db'.log = db.log /\ db'.members = {}
    BY <1>6 DEF Chat!Drops, IInv, Shape
  <2> QED BY <1>1, <2>1 DEF ChatRows, Chat!Message
<1>7. CASE \/ \E t \in Threads : Chat!OpenThread(t)
           \/ \E c \in Sends : Chat!Write(c) \/ Chat!Retry(c) \/ Chat!SendTimesOut(c)
           \/ \E r \in net.rest : \/ Chat!PageArrives(r) \/ Chat!CatchUpArrives(r) \/ Chat!ListFails(r)
                                  \/ Chat!PostArrives(r) \/ Chat!PostFails(r) \/ Chat!ServeList(r)
           \/ Chat!Connect \/ Chat!BecomesVisible \/ Chat!Opens \/ Chat!Receive
  <2>1. db' = db
    BY <1>7 DEF Chat!OpenThread, Chat!Write, Chat!Retry, Chat!SendTimesOut, Chat!PageArrives, Chat!CatchUpArrives,
                Chat!ListFails, Chat!PostArrives, Chat!PostFails, Chat!ServeList, Chat!Connect,
                Chat!BecomesVisible, Chat!Opens, Chat!Receive
  <2> QED BY <1>1, <2>1, SMTT(30) DEF ChatRows, Chat!Message
<1> HIDE DEF ChatRows, ChatTypes, IInv
<1> QED BY <1>2, <1>3, <1>4, <1>5, <1>6, <1>7 DEF Chat!Next

\* What leaves names the conversation on screen, or the one just left.
LEMMA AboutThreadsStep ==
  ASSUME IInv, ChatTypes, Chat!Next
  PROVE  AboutThreads'
<1>1. AboutThreads /\ ChatPage(ui) /\ Shape
  BY DEF ChatTypes, IInv
<1>2. ui.thread \in Threads \cup {NoThread} /\ ui.thread \in Conversation
  BY <1>1 DEF Shape, Conversation
<1>3. ASSUME NEW f \in OpenFrame, net'.up \in {net.up, net.up \o <<f>>, Append(net.up, f), <<f>>, <<>>},
             \A r \in net'.rest : r.thread \in Threads
      PROVE  AboutThreads'
  <2>1. net.up \o <<f>> \in Seq(OpenFrame) /\ Append(net.up, f) \in Seq(OpenFrame)
    BY <1>1, <1>3 DEF AboutThreads
  <2>2. <<f>> \in Seq(OpenFrame) /\ <<>> \in Seq(OpenFrame)
    BY <1>3
  <2>3. net'.up \in Seq(OpenFrame)
    BY <1>1, <1>3, <2>1, <2>2 DEF AboutThreads
  <2> QED BY <1>3, <2>3 DEF AboutThreads, OpenFrame, UpFrame
<1>4. ASSUME net'.up \in {net.up, Tail(net.up)}, net.up # <<>> \/ net'.up = net.up,
             \A r \in net'.rest : r.thread \in Threads
      PROVE  AboutThreads'
  <2>1. net'.up \in Seq(OpenFrame)
    BY <1>1, <1>4 DEF AboutThreads
  <2> QED BY <1>4, <2>1 DEF AboutThreads, OpenFrame, UpFrame
<1>5. ASSUME net'.up \in {net.up, <<>>}, \A r \in net'.rest : r \in net.rest
      PROVE  AboutThreads'
  <2>1. CASE net'.up = net.up
    BY <1>1, <1>5, <2>1 DEF AboutThreads, OpenFrame, UpFrame
  <2>2. CASE net'.up = <<>>
    <3>1. net'.up \in Seq(OpenFrame)
      BY <2>2
    <3> QED BY <1>1, <1>5, <3>1 DEF AboutThreads, OpenFrame, UpFrame
  <2> QED BY <1>5, <2>1, <2>2
<1>6. ASSUME NEW t \in Threads, Chat!OpenThread(t)
      PROVE  AboutThreads'
  <2>1. PICK r : r = Chat!List("page", t, 0, ui.gen + 1)
    OBVIOUS
  <2>2. r.thread = t
    BY <2>1 DEF Chat!List
  <2>3. net'.rest = net.rest \cup {r}
    BY <1>1, <1>6, <2>1 DEF Chat!OpenThread, Shape
  <2>4. \A q \in net'.rest : q.thread \in Threads
    BY <1>1, <1>6, <2>2, <2>3 DEF AboutThreads
  <2>5. CASE ui.thread = NoThread
    <3>1. net'.up = net.up
      BY <1>1, <1>6, <2>5 DEF Chat!OpenThread, Shape
    <3> QED BY <1>4, <2>4, <3>1
  <2>6. CASE ui.thread # NoThread
    <3>1. PICK f \in OpenFrame : f = Chat!Unsubscribe(ui.thread)
      BY <1>2, <2>6 DEF OpenFrame, UpFrame, Chat!Unsubscribe
    <3>2. net'.up \in {net.up, net.up \o <<f>>}
      BY <1>1, <1>6, <2>6, <3>1 DEF Chat!OpenThread, Chat!Frames, Shape
    <3> QED BY <1>3, <2>4, <3>2
  <2> QED BY <2>5, <2>6
<1>7. ASSUME NEW c \in Sends, Chat!Write(c) \/ Chat!Retry(c)
      PROVE  AboutThreads'
  <2>1. ui.thread \in Threads /\ Chat!Deliver(c)
    BY <1>1, <1>2, <1>7 DEF Chat!Write, Chat!Retry, ChatPage
  <2>2. PICK f \in OpenFrame : f = [type |-> "send", thread |-> ui.thread, cid |-> c]
    BY <1>2, <1>7, <2>1 DEF OpenFrame, UpFrame
  <2>3. PICK r : r = [kind |-> "post", thread |-> ui.thread, cid |-> c, place |-> 0, step |-> "sent"]
    OBVIOUS
  <2>4. \/ net' = [net EXCEPT !.up = Append(net.up, f)]
        \/ net' = [net EXCEPT !.rest = net.rest \cup {r}]
    BY <1>1, <2>1, <2>2, <2>3 DEF Chat!Deliver, Shape
  <2>5. net'.up \in {net.up, Append(net.up, f)} /\ net'.rest \subseteq net.rest \cup {r}
    BY <1>1, <2>4 DEF Shape
  <2>6. \A q \in net'.rest : q.thread \in Threads
    BY <1>1, <2>1, <2>3, <2>5 DEF AboutThreads
  <2> QED BY <1>3, <2>5, <2>6
<1>8. ASSUME NEW r \in net.rest, Chat!PageArrives(r)
      PROVE  AboutThreads'
  <2>1. PICK f \in OpenFrame : f = Chat!Subscribe(r.thread)
    BY <1>1, <1>8 DEF OpenFrame, UpFrame, Chat!Subscribe, AboutThreads, Conversation
  <2>2. net'.up \in {net.up, net.up \o <<f>>} /\ net'.rest \subseteq net.rest
    <3>1. CASE Chat!Current(r)
      <4>1. PICK up : up = Chat!Frames(<<f>>)
        OBVIOUS
      <4>2. net' = [net EXCEPT !.rest = net.rest \ {r}, !.up = up]
        BY <1>1, <1>8, <2>1, <3>1, <4>1 DEF Chat!PageArrives, Shape
      <4> QED BY <1>1, <4>1, <4>2 DEF Chat!Frames, Shape
    <3>2. CASE ~Chat!Current(r)
      BY <1>1, <1>8, <3>2 DEF Chat!PageArrives, Shape
    <3> QED BY <3>1, <3>2
  <2> QED BY <1>1, <1>3, <2>2 DEF AboutThreads
<1>9. ASSUME NEW r \in net.rest,
             Chat!CatchUpArrives(r) \/ Chat!ListFails(r) \/ Chat!PostArrives(r) \/ Chat!PostFails(r)
      PROVE  AboutThreads'
  <2>1. net'.up = net.up /\ net'.rest = net.rest \ {r}
    BY <1>1, <1>9 DEF Chat!CatchUpArrives, Chat!ListFails, Chat!PostArrives, Chat!PostFails, Shape
  <2> QED BY <1>5, <2>1
<1>10. ASSUME NEW r \in net.rest, Chat!ServeList(r) \/ Chat!ServePost(r)
       PROVE  AboutThreads'
  <2>1. r.thread \in Threads
    BY <1>1, <1>10 DEF AboutThreads
  <2>2. (r \in ListRequests /\ "upto" \in DOMAIN r) \/ (r \in PostRequests /\ "place" \in DOMAIN r)
    BY <1>10 DEF IInv, Asked, ListRequests, PostRequests
  <2>3. PICK q : q.thread = r.thread /\ net'.up = net.up /\ net'.rest = (net.rest \ {r}) \cup {q}
    <3>1. CASE Chat!ServeList(r)
      <4>1. PICK q : q = [r EXCEPT !.step = "answered", !.upto = Len(db.log)]
        OBVIOUS
      <4>2. q.thread = r.thread
        BY <2>2, <4>1 DEF ListRequests, PostRequests
      <4>3. net'.up = net.up /\ net'.rest = (net.rest \ {r}) \cup {q}
        BY <1>1, <3>1, <4>1 DEF Chat!ServeList, Shape
      <4> QED BY <4>2, <4>3
    <3>2. CASE Chat!ServePost(r)
      <4>1. PICK q : q = [r EXCEPT !.step = "answered", !.place = Chat!Place(r.cid)]
        OBVIOUS
      <4>2. q.thread = r.thread
        BY <2>2, <4>1 DEF ListRequests, PostRequests
      <4>3. net'.up = net.up /\ net'.rest = (net.rest \ {r}) \cup {q}
        BY <1>1, <3>2, <4>1 DEF Chat!ServePost, Shape
      <4> QED BY <4>2, <4>3
    <3> QED BY <1>10, <3>1, <3>2
  <2>4. \A p \in net'.rest : p.thread \in Threads
    BY <1>1, <2>1, <2>3 DEF AboutThreads
  <2> QED BY <1>4, <2>3, <2>4
<1>11. CASE Chat!Opens
  <2>1. CASE ui.thread \in ui.desired
    <3>1. PICK f \in OpenFrame : f = Chat!Subscribe(ui.thread)
      BY <1>1, <1>2, <2>1 DEF OpenFrame, UpFrame, Chat!Subscribe, ChatPage
    <3>2. PICK r : r = Chat!List("after", ui.thread, Chat!LastShown, ui.gen)
      OBVIOUS
    <3>3. r.thread \in Threads
      BY <1>1, <2>1, <3>2 DEF Chat!List, ChatPage
    <3>4. net'.up = <<f>> /\ net'.rest = net.rest \cup {r}
      BY <1>1, <1>11, <2>1, <3>1, <3>2 DEF Chat!Opens, Shape
    <3>5. \A q \in net'.rest : q.thread \in Threads
      BY <1>1, <3>3, <3>4 DEF AboutThreads
    <3> QED BY <1>3, <3>4, <3>5
  <2>2. CASE ui.thread \notin ui.desired
    <3>1. net'.up = <<>> /\ net'.rest = net.rest
      BY <1>1, <1>11, <2>2 DEF Chat!Opens, Shape
    <3> QED BY <1>5, <3>1
  <2> QED BY <2>1, <2>2
<1>12. CASE Chat!Receive \/ Chat!Connect \/ Chat!BecomesVisible
  <2>1. net'.up = net.up /\ net'.rest = net.rest
    BY <1>1, <1>12 DEF Chat!Receive, Chat!Connect, Chat!BecomesVisible, Shape
  <2> QED BY <1>5, <2>1
<1>13. ASSUME NEW c, Chat!SendTimesOut(c)
       PROVE  AboutThreads'
  <2>1. net' = net
    BY <1>13 DEF Chat!SendTimesOut
  <2> QED BY <1>5, <2>1
<1>14. ASSUME NEW p, NEW t, Chat!PeerWrites(p, t)
       PROVE  AboutThreads'
  <2>1. net'.up = net.up /\ net'.rest = net.rest
    BY <1>1, <1>14 DEF Chat!PeerWrites, Shape
  <2> QED BY <1>5, <2>1
<1>15. ASSUME NEW code, Chat!Drops(code)
       PROVE  AboutThreads'
  <2>1. net'.up = <<>> /\ net'.rest = net.rest
    BY <1>1, <1>15 DEF Chat!Drops, Shape
  <2> QED BY <1>5, <2>1
<1>16. CASE Chat!ServeSubscription \/ Chat!ServeSend
  <2>1. net.up # <<>> /\ net'.up = Tail(net.up) /\ net'.rest = net.rest
    BY <1>1, <1>16 DEF Chat!ServeSubscription, Chat!ServeSend, Shape
  <2> QED BY <1>1, <1>4, <2>1 DEF AboutThreads
<1> HIDE DEF AboutThreads, ChatTypes, IInv
<1> QED BY <1>6, <1>7, <1>8, <1>9, <1>10, <1>11, <1>12, <1>13, <1>14, <1>15, <1>16 DEF Chat!Next

\* Every step keeps them.
LEMMA ChatTypesStep ==
  ASSUME IInv, ChatTypes, Chat!Next \/ UNCHANGED <<ui, db, net>>
  PROVE  ChatTypes'
<1>1. CASE Chat!Next
  <2>1. ChatPage(ui')
    <3> HIDE DEF ChatPage, ChatTypes, IInv
    <3> QED BY <1>1, UserTyped, AnswersOnPage, SocketTyped DEF Chat!Next
  <2> QED BY <1>1, <2>1, ChatRowsStep, AboutThreadsStep DEF ChatTypes, ChatPage
<1>2. CASE UNCHANGED <<ui, db, net>>
  BY <1>2 DEF ChatTypes, ChatPage, ChatRows, Chat!Message, AboutThreads, OpenFrame, UpFrame
<1> QED BY <1>1, <1>2

-----------------------------------------------------------------------------
(***************************************************************************)
(* The theorem.                                                            *)
(***************************************************************************)
ScreenTypes ==
  /\ screen = "messages" => ChatTypes
  /\ screen = "booking"  => BookingTypes
  /\ screen = "series"   => SeriesTypes
  /\ screen = "desk"     => DeskTypes
  /\ screen = "fleet"    => FleetTypes
  /\ \A s \in PaperScreens   : screen = s => PaperTypes(s)
  /\ \A s \in SigningScreens : screen = s => SigningTypes(s)
  /\ \A s \in RentalScreens  : screen = s => RentalTypes(s)
  /\ \A s \in FormScreens    : screen = s => AccountTypes(s)
  /\ \A s \in ListingScreens : screen = s => ListingTypes(s)
  /\ \A s \in SearchScreens  : screen = s => SearchTypes(s)

\* A behaviour stays on its screen, the accounts' form among them.
LEMMA FormsStay ==
  ASSUME [Next]_vars, NEW s \in FormScreens, screen = s
  PROVE  Forms(s)!Next \/ UNCHANGED <<ui, db, net>>
BY DEF Next, vars, PaperScreens, SigningScreens, RentalScreens, FormScreens, ListingScreens, SearchScreens

\* Each screen starts with its types.
LEMMA ScreenTypesStart ==
  ASSUME Init
  PROVE  ScreenTypes
<1>1. /\ screen = "messages" => Chat!Init
      /\ screen = "booking"  => Booking!Init
      /\ screen = "series"   => Series!Init
      /\ screen = "desk"     => Desk!Init
      /\ screen = "fleet"    => Fleet!Init
      /\ \A s \in PaperScreens   : screen = s => Papers(s)!Init
      /\ \A s \in SigningScreens : screen = s => Signs(s)!Init
      /\ \A s \in RentalScreens  : screen = s => Rents(s)!Init
      /\ \A s \in FormScreens    : screen = s => Forms(s)!Init
      /\ \A s \in ListingScreens : screen = s => Lists(s)!Init
      /\ \A s \in SearchScreens  : screen = s => Finds(s)!Init
  BY DEF Init, PaperScreens, SigningScreens, RentalScreens, FormScreens, ListingScreens, SearchScreens
<1> QED BY <1>1, ChatTypesStart, BookingTypesStart, SeriesTypesStart, DeskTypesStart, FleetTypesStart,
           PaperTypesStart, SigningTypesStart, RentalTypesStart, AccountTypesStart, ListingTypesStart,
           SearchTypesStart DEF ScreenTypes

\* Each screen keeps its types, by what the other proofs found of it.
LEMMA ScreenTypesStep ==
  ASSUME MessagesInv, DealInv, DeskInv, ScreenTypes, [Next]_vars
  PROVE  ScreenTypes'
<1>1. screen = "messages" => ChatTypes'
  BY MessagesStay, ChatTypesStep DEF MessagesInv, ScreenTypes
<1>2. screen = "booking" => BookingTypes'
  BY DealStays, BookingTypesStep DEF DealInv, ScreenTypes
<1>3. screen = "series" => SeriesTypes'
  BY DealStays, SeriesTypesStep DEF DealInv, ScreenTypes
<1>4. screen = "desk" => DeskTypes'
  BY DeskStays, DeskTypesStep DEF DeskInv, ScreenTypes
<1>5. screen = "fleet" => FleetTypes'
  BY DeskStays, FleetTypesStep DEF DeskInv, ScreenTypes
<1>6. ASSUME NEW s \in PaperScreens, screen = s
      PROVE  PaperTypes(s)'
  BY <1>6, DeskStays, PaperTypesStep DEF ScreenTypes
<1>7. ASSUME NEW s \in SigningScreens, screen = s
      PROVE  SigningTypes(s)'
  BY <1>7, DealStays, SigningTypesStep DEF DealInv, ScreenTypes
<1>8. ASSUME NEW s \in RentalScreens, screen = s
      PROVE  RentalTypes(s)'
  BY <1>8, DeskStays, RentalTypesStep DEF DeskInv, ScreenTypes
<1>9. ASSUME NEW s \in FormScreens, screen = s
      PROVE  AccountTypes(s)'
  BY <1>9, FormsStay, AccountTypesStep DEF ScreenTypes
<1>10. ASSUME NEW s \in ListingScreens, screen = s
       PROVE  ListingTypes(s)'
  BY <1>10, DeskStays, ListingTypesStep DEF DeskInv, ScreenTypes
<1>11. ASSUME NEW s \in SearchScreens, screen = s
       PROVE  SearchTypes(s)'
  BY <1>11, DeskStays, SearchTypesStep DEF DeskInv, ScreenTypes
<1>12. screen' = screen
  BY DeskStays
<1> QED BY <1>1, <1>2, <1>3, <1>4, <1>5, <1>6, <1>7, <1>8, <1>9, <1>10, <1>11, <1>12
        DEF ScreenTypes, PaperScreens, SigningScreens, RentalScreens, FormScreens, ListingScreens, SearchScreens

\* Whatever arrives late, fails or is sent again, every screen keeps to its
\* types: the fields of a form hold what it offers or what an answer of its
\* own brought, and nothing is counted past the bounds.
THEOREM TypeCorrect == Spec => []TypeOK
<1>1. MessagesInv /\ DealInv /\ DeskInv /\ ScreenTypes /\ [Next]_vars => ScreenTypes'
  BY ScreenTypesStep
<1>2. Spec => []ScreenTypes
  BY <1>1, ScreenTypesStart, ChatInvariance, DealInvariance, DeskInvariance, PTL DEF Spec
<1>3. MessagesInv /\ DealInv /\ DeskInv /\ ScreenTypes => TypeOK
  <2> SUFFICES ASSUME MessagesInv, DealInv, DeskInv, ScreenTypes
               PROVE  TypeOK
    OBVIOUS
  <2>1. /\ screen = "messages" => Chat!TypeOK
        /\ screen = "booking"  => Booking!TypeOK
        /\ screen = "series"   => Series!TypeOK
    BY MessagesTyped, BookingTyped, SeriesTyped DEF MessagesInv, DealInv, ScreenTypes
  <2>2. /\ screen = "desk"  => Desk!TypeOK
        /\ screen = "fleet" => Fleet!TypeOK
    BY DeskTyped, FleetTyped DEF DeskInv, ScreenTypes
  <2>3. /\ \A s \in PaperScreens   : screen = s => Papers(s)!TypeOK
        /\ \A s \in SigningScreens : screen = s => Signs(s)!TypeOK
        /\ \A s \in RentalScreens  : screen = s => Rents(s)!TypeOK
        /\ \A s \in FormScreens    : screen = s => Forms(s)!TypeOK
        /\ \A s \in ListingScreens : screen = s => Lists(s)!TypeOK
    BY PaperTyped, SigningTyped, RentalTyped, AccountTyped, ListingTyped DEF ScreenTypes
  <2>4. \A s \in SearchScreens : screen = s => Finds(s)!TypeOK
    BY SearchTyped DEF DeskInv, ScreenTypes
  <2> QED BY <2>1, <2>2, <2>3, <2>4 DEF TypeOK
<1> QED BY <1>2, <1>3, ChatInvariance, DealInvariance, DeskInvariance, PTL
=============================================================================
