----------------------------- MODULE DeskProofs -----------------------------
(***************************************************************************)
(* What was typed, asked or answered on a dashboard is of the subject it   *)
(* is shown or filed under, proved of each of its screens for any people,  *)
(* rentals, listings and machines.                                         *)
(***************************************************************************)
EXTENDS Screens, Sequences, FiniteSetTheorems, TLAPS

RentalForms == {"check_in", "check_out", "complete"}

RentalPage(s) ==
  /\ DOMAIN ui = {"shown", "open", "text", "sending", "given", "card", "busy", "cancelling"}
  /\ DOMAIN ui.card = Rentals[s]
  /\ \A r \in Rentals[s] : /\ DOMAIN ui.card[r] = {"form", "confirm", "quote", "loading"}
                           /\ ui.card[r].form \in RentalForms \cup {"none"}

RentalRows(s) ==
  /\ DOMAIN db = Rentals[s]
  /\ \A r \in Rentals[s] :
       /\ DOMAIN db[r] = {"status", "stage", "in", "out", "review"}
       /\ {db[r].in, db[r].out} \subseteq Int

\* What is written is of the panel that is open, and a request carries a reading
\* where one is required.
TextOfPanel == ui.text \in {0, ui.open}

RentalAsks(s) ==
  \A m \in net :
    /\ DOMAIN m = {"kind", "rental", "value", "alive"} /\ m.rental \in Rentals[s]
    /\ m.kind = "review" => m.value = m.rental
    /\ m.kind \in RentalForms => m.value \in Int
    /\ m.kind \in {"check_in", "check_out"} => m.value # -1

RentalInv(s) ==
  /\ RentalPage(s) /\ RentalRows(s) /\ TextOfPanel /\ RentalAsks(s)
  /\ Rents(s)!ReadingsInOrder /\ Rents(s)!ReviewIsOfItsRental

-----------------------------------------------------------------------------
\* A step of the page alone, that asks for nothing new of these kinds.
LEMMA RentalPageStep ==
  ASSUME NEW s \in RentalScreens, RentalInv(s), RentalPage(s)', TextOfPanel', RentalAsks(s)', db' = db
  PROVE  RentalInv(s)'
BY DEF RentalInv, RentalRows, Rents!ReadingsInOrder, Rents!ReviewIsOfItsRental, Rents!None

\* One request more.
LEMMA RentalAsksMore ==
  ASSUME NEW s \in RentalScreens, RentalAsks(s), NEW kind, NEW r \in Rentals[s], NEW v,
         net' = net \cup {Rents(s)!Ask(kind, r, v)},
         kind = "review" => v = r,
         kind \in RentalForms => v \in Int /\ (kind # "complete" => v # -1)
  PROVE  RentalAsks(s)'
<1>1. PICK m : m = Rents(s)!Ask(kind, r, v)
  OBVIOUS
<1>2. DOMAIN m = {"kind", "rental", "value", "alive"} /\ m.kind = kind /\ m.rental = r /\ m.value = v
  BY <1>1 DEF Rents!Ask
<1> QED BY <1>1, <1>2 DEF RentalAsks, RentalForms

\* The cards on screen change, and those that leave it hear no answer.
LEMMA ShowStep ==
  ASSUME NEW s \in RentalScreens, RentalInv(s), NEW cards, Rents(s)!Show(cards)
  PROVE  RentalInv(s)'
<1>1. PICK card : card = [r \in Rentals[s] |-> IF r \in cards THEN ui.card[r] ELSE Rents(s)!Card]
  OBVIOUS
<1>2. ui' = [ui EXCEPT !.shown = cards, !.card = card] /\ db' = db
  BY <1>1 DEF Rents!Show, RentalInv, RentalPage
<1>3. RentalPage(s)' /\ TextOfPanel'
  BY <1>1, <1>2 DEF RentalInv, RentalPage, TextOfPanel, Rents!Card, RentalForms
<1>4. RentalAsks(s)'
  <2> SUFFICES ASSUME NEW m \in net'
               PROVE  /\ DOMAIN m = {"kind", "rental", "value", "alive"} /\ m.rental \in Rentals[s]
                      /\ m.kind = "review" => m.value = m.rental
                      /\ m.kind \in RentalForms => m.value \in Int
                      /\ m.kind \in {"check_in", "check_out"} => m.value # -1
    BY DEF RentalAsks
  <2>1. PICK n \in net : m = [n EXCEPT !.alive = @ /\ n.rental \in cards]
    BY DEF Rents!Show
  <2>2. DOMAIN m = DOMAIN n /\ m.kind = n.kind /\ m.rental = n.rental /\ m.value = n.value
    BY <2>1 DEF RentalInv, RentalAsks
  <2> QED BY <2>2 DEF RentalInv, RentalAsks
<1> QED BY <1>2, <1>3, <1>4, RentalPageStep

\* One panel serves every card: toggling empties it, and an answer closes it.
LEMMA ReviewSteps ==
  ASSUME NEW s \in RentalScreens, RentalInv(s),
         \/ \E r \in Rentals[s] : Rents(s)!ToggleReview(r) \/ Rents(s)!Comment(r) \/ Rents(s)!SubmitReview(r)
         \/ Rents(s)!GivenArrives
         \/ \E m \in net : Rents(s)!ReviewArrives(m)
  PROVE  RentalInv(s)'
<1> DEFINE Quiet == RentalPage(s)' /\ TextOfPanel' /\ RentalAsks(s)' /\ db' = db
<1>1. ASSUME NEW r \in Rentals[s], Rents(s)!ToggleReview(r)
      PROVE  Quiet
  <2>1. PICK open : open = IF ui.open = r THEN 0 ELSE r
    OBVIOUS
  <2>2. ui' = [ui EXCEPT !.open = open, !.text = 0] /\ db' = db /\ net' = net
    BY <1>1, <2>1 DEF Rents!ToggleReview, Rents!Toggled, RentalInv, RentalPage
  <2> QED BY <2>2 DEF RentalInv, RentalPage, TextOfPanel, RentalAsks
<1>2. ASSUME NEW r \in Rentals[s], Rents(s)!Comment(r)
      PROVE  Quiet
  BY <1>2 DEF Rents!Comment, RentalInv, RentalPage, TextOfPanel, RentalAsks
<1>3. ASSUME NEW r \in Rentals[s], Rents(s)!SubmitReview(r)
      PROVE  Quiet
  <2>1. ui.text = r /\ net' = net \cup {Rents(s)!Ask("review", r, ui.text)} /\ db' = db
    BY <1>3 DEF Rents!SubmitReview, Rents!Send, RentalInv, TextOfPanel
  <2>2. RentalAsks(s)'
    BY <2>1, RentalAsksMore DEF RentalInv, RentalForms
  <2> QED BY <1>3, <2>1, <2>2 DEF Rents!SubmitReview, RentalInv, RentalPage, TextOfPanel
<1>4. ASSUME Rents(s)!GivenArrives
      PROVE  Quiet
  BY <1>4 DEF Rents!GivenArrives, RentalInv, RentalPage, TextOfPanel, RentalAsks
<1>5. ASSUME NEW m \in net, Rents(s)!ReviewArrives(m)
      PROVE  Quiet
  BY <1>5 DEF Rents!ReviewArrives, RentalInv, RentalPage, TextOfPanel, RentalAsks
<1> HIDE DEF Quiet
<1>6. Quiet
  BY <1>1, <1>2, <1>3, <1>4, <1>5
<1> QED BY <1>6, RentalPageStep DEF Quiet

\* The form of a card asks for the reading its kind requires.
LEMMA MeterSteps ==
  ASSUME NEW s \in RentalScreens, RentalInv(s),
         \/ \E r \in Rentals[s] :
              \/ Rents(s)!CloseForm(r)
              \/ \E form \in RentalForms : Rents(s)!OpenForm(r, form)
              \/ \E value \in Rents(s)!Hours \cup {Rents(s)!None} : Rents(s)!SubmitForm(r, value)
         \/ \E m \in net : Rents(s)!FormArrives(m)
  PROVE  RentalInv(s)'
<1> DEFINE Quiet == RentalPage(s)' /\ TextOfPanel' /\ RentalAsks(s)' /\ db' = db
<1>1. ASSUME NEW r \in Rentals[s], Rents(s)!CloseForm(r)
      PROVE  Quiet
  BY <1>1 DEF Rents!CloseForm, RentalInv, RentalPage, TextOfPanel, RentalAsks
<1>2. ASSUME NEW r \in Rentals[s], NEW form \in RentalForms, Rents(s)!OpenForm(r, form)
      PROVE  Quiet
  BY <1>2 DEF Rents!OpenForm, RentalInv, RentalPage, TextOfPanel, RentalAsks
<1>3. ASSUME NEW r \in Rentals[s], NEW value \in Rents(s)!Hours \cup {Rents(s)!None}, Rents(s)!SubmitForm(r, value)
      PROVE  Quiet
  <2>1. net' = net \cup {Rents(s)!Ask(ui.card[r].form, r, value)} /\ db' = db /\ ui' = [ui EXCEPT !.busy = TRUE]
    BY <1>3 DEF Rents!SubmitForm, Rents!Send
  <2>2. ui.card[r].form \in RentalForms
    BY <1>3 DEF Rents!SubmitForm, RentalInv, RentalPage
  <2>3. value \in Int
    BY DEF Rents!Hours, Rents!None
  <2>4. ui.card[r].form # "complete" => value # -1
    BY <1>3 DEF Rents!SubmitForm, Rents!None
  <2>5. RentalAsks(s)'
    BY <2>1, <2>2, <2>3, <2>4, RentalAsksMore DEF RentalInv, RentalForms
  <2> QED BY <2>1, <2>5 DEF RentalInv, RentalPage, TextOfPanel
<1>4. ASSUME NEW m \in net, Rents(s)!FormArrives(m)
      PROVE  Quiet
  <2>1. PICK form : form = IF m.alive THEN "none" ELSE ui.card[m.rental].form
    OBVIOUS
  <2>2. m.rental \in Rentals[s]
    BY DEF RentalInv, RentalAsks
  <2>3. form \in RentalForms \cup {"none"}
    BY <2>1, <2>2 DEF RentalInv, RentalPage
  <2>4. ui' = [ui EXCEPT !.busy = FALSE, !.card[m.rental].form = form]
    BY <1>4, <2>1, <2>2 DEF Rents!FormArrives, RentalInv, RentalPage
  <2>5. RentalPage(s)' /\ TextOfPanel'
    BY <2>3, <2>4 DEF RentalInv, RentalPage, TextOfPanel
  <2> QED BY <1>4, <2>5 DEF Rents!FormArrives, RentalInv, RentalAsks
<1> HIDE DEF Quiet
<1>5. Quiet
  BY <1>1, <1>2, <1>3, <1>4
<1> QED BY <1>5, RentalPageStep DEF Quiet

\* The cancellation and the failures leave the readings and the reviews alone.
LEMMA CancelSteps ==
  ASSUME NEW s \in RentalScreens, RentalInv(s),
         \/ \E r \in Rentals[s] : Rents(s)!AskCancel(r) \/ Rents(s)!KeepRental(r) \/ Rents(s)!Cancel(r)
         \/ \E m \in net : Rents(s)!QuoteArrives(m) \/ Rents(s)!CancelArrives(m) \/ Rents(s)!RequestFails(m)
  PROVE  RentalInv(s)'
<1> DEFINE Quiet == RentalPage(s)' /\ TextOfPanel' /\ RentalAsks(s)' /\ db' = db
<1>1. ASSUME NEW r \in Rentals[s], Rents(s)!AskCancel(r)
      PROVE  Quiet
  <2>1. /\ ui' = [ui EXCEPT !.card[r].confirm = TRUE, !.card[r].quote = FALSE, !.card[r].loading = TRUE]
        /\ net' = net \cup {Rents(s)!Ask("quote", r, Rents(s)!None)} /\ db' = db
    BY <1>1 DEF Rents!AskCancel, Rents!Send
  <2>2. RentalAsks(s)'
    BY <2>1, RentalAsksMore DEF RentalInv, RentalForms
  <2>3. RentalPage(s)' /\ TextOfPanel'
    BY <2>1 DEF RentalInv, RentalPage, TextOfPanel
  <2> QED BY <2>1, <2>2, <2>3
<1>2. ASSUME NEW r \in Rentals[s], Rents(s)!KeepRental(r)
      PROVE  Quiet
  BY <1>2 DEF Rents!KeepRental, RentalInv, RentalPage, TextOfPanel, RentalAsks
<1>3. ASSUME NEW r \in Rentals[s], Rents(s)!Cancel(r)
      PROVE  Quiet
  <2>1. RentalAsks(s)'
    BY <1>3, RentalAsksMore DEF Rents!Cancel, Rents!Send, RentalInv, RentalForms
  <2> QED BY <1>3, <2>1 DEF Rents!Cancel, RentalInv, RentalPage, TextOfPanel
<1>4. ASSUME NEW m \in net, Rents(s)!QuoteArrives(m)
      PROVE  Quiet
  <2>1. PICK q : q = (m.value = 1)
    OBVIOUS
  <2>2. ui' = [ui EXCEPT !.card[m.rental].quote = q, !.card[m.rental].loading = FALSE]
    BY <1>4, <2>1 DEF Rents!QuoteArrives
  <2>3. RentalPage(s)' /\ TextOfPanel'
    BY <2>2 DEF RentalInv, RentalPage, TextOfPanel
  <2>4. RentalAsks(s)' /\ db' = db
    BY <1>4 DEF Rents!QuoteArrives, RentalInv, RentalAsks
  <2> QED BY <2>3, <2>4
<1>5. ASSUME NEW m \in net, Rents(s)!CancelArrives(m)
      PROVE  Quiet
  BY <1>5 DEF Rents!CancelArrives, RentalInv, RentalPage, TextOfPanel, RentalAsks
<1>6. ASSUME NEW m \in net, Rents(s)!RequestFails(m)
      PROVE  Quiet
  <2>1. \/ ui' = [ui EXCEPT !.sending = FALSE]
        \/ ui' = [ui EXCEPT !.cancelling = FALSE]
        \/ ui' = [ui EXCEPT !.card[m.rental].loading = FALSE]
        \/ ui' = [ui EXCEPT !.busy = FALSE]
    BY <1>6 DEF Rents!RequestFails
  <2>2. RentalPage(s)' /\ TextOfPanel'
    BY <2>1 DEF RentalInv, RentalPage, TextOfPanel
  <2> QED BY <1>6, <2>2 DEF Rents!RequestFails, RentalInv, RentalAsks
<1> HIDE DEF Quiet
<1>7. Quiet
  BY <1>1, <1>2, <1>3, <1>4, <1>5, <1>6
<1> QED BY <1>7, RentalPageStep DEF Quiet

\* A request that is served is answered by one of another kind.
LEMMA RentalServed ==
  ASSUME NEW s \in RentalScreens, RentalInv(s), NEW m \in net, NEW answer \in {"reviewed", "saved", "cancelled"},
         Rents(s)!Served(m, answer)
  PROVE  RentalPage(s)' /\ TextOfPanel' /\ RentalAsks(s)'
<1>1. PICK a : a = [m EXCEPT !.kind = answer]
  OBVIOUS
<1>2. DOMAIN a = {"kind", "rental", "value", "alive"} /\ a.kind = answer
  BY <1>1 DEF RentalInv, RentalAsks
<1>3. net' = (net \ {m}) \cup {a} /\ ui' = ui
  BY <1>1 DEF Rents!Served
<1>4. a.rental = m.rental /\ a.kind \notin RentalForms \cup {"review"}
  BY <1>1, <1>2 DEF RentalInv, RentalAsks, RentalForms
<1>5. RentalAsks(s)'
  BY <1>2, <1>3, <1>4 DEF RentalInv, RentalAsks, RentalForms
<1> QED BY <1>3, <1>5 DEF RentalInv, RentalPage, TextOfPanel

\* A reading keeps the order, whichever kind it corrects.
LEMMA RecordsInOrder ==
  ASSUME NEW s \in RentalScreens, RentalRows(s), Rents(s)!ReadingsInOrder, NEW r \in Rentals[s],
         NEW kind \in {"check_in", "check_out"}, NEW v \in Int, v # -1, Rents(s)!Records(r, kind, v)
  PROVE  RentalRows(s)' /\ Rents(s)!ReadingsInOrder' /\ \A q \in Rentals[s] : db'[q].review = db[q].review
<1>1. CASE kind = "check_in"
  BY <1>1 DEF Rents!Records, Rents!Readable, RentalRows, Rents!ReadingsInOrder, Rents!None
<1>2. CASE kind = "check_out"
  BY <1>2 DEF Rents!Records, Rents!Readable, RentalRows, Rents!ReadingsInOrder, Rents!None
<1> QED BY <1>1, <1>2

\* So does the reading made as the rental is closed.
LEMMA CompletesInOrder ==
  ASSUME NEW s \in RentalScreens, RentalRows(s), Rents(s)!ReadingsInOrder, NEW r \in Rentals[s],
         NEW v \in Int, Rents(s)!Completes(r, v)
  PROVE  RentalRows(s)' /\ Rents(s)!ReadingsInOrder' /\ \A q \in Rentals[s] : db'[q].review = db[q].review
<1>1. CASE db' = db
  BY <1>1 DEF RentalRows, Rents!ReadingsInOrder, Rents!None
<1>2. CASE /\ v # -1 => Rents(s)!Readable(db[r], "check_out", v)
           /\ db' = [db EXCEPT ![r].status = "completed", ![r].out = IF v = -1 THEN @ ELSE v]
  <2>1. PICK out : out = IF v = -1 THEN db[r].out ELSE v
    OBVIOUS
  <2>2. db' = [db EXCEPT ![r].status = "completed", ![r].out = out]
    BY <1>2, <2>1 DEF RentalRows
  <2>3. out \in Int /\ (v # -1 => db[r].in # -1 /\ out >= db[r].in)
    BY <1>2, <2>1 DEF RentalRows, Rents!Readable, Rents!None
  <2> QED BY <2>1, <2>2, <2>3 DEF RentalRows, Rents!ReadingsInOrder, Rents!None
<1> QED BY <1>1, <1>2 DEF Rents!Completes, Rents!None

\* A cancellation and the passing of time leave readings and reviews alone.
LEMMA OtherRows ==
  ASSUME NEW s \in RentalScreens, RentalRows(s), Rents(s)!ReadingsInOrder, NEW r,
         \/ db' = [db EXCEPT ![r].status = "cancelled"]
         \/ \E stage : db' = [db EXCEPT ![r].stage = stage]
  PROVE  RentalRows(s)' /\ Rents(s)!ReadingsInOrder' /\ \A q \in Rentals[s] : db'[q].review = db[q].review
BY DEF RentalRows, Rents!ReadingsInOrder, Rents!None

\* The server.
LEMMA RentalServes ==
  ASSUME NEW s \in RentalScreens, RentalInv(s), NEW m \in net,
         Rents(s)!ServeReview(m) \/ Rents(s)!ServeReading(m) \/ Rents(s)!ServeComplete(m) \/ Rents(s)!ServeCancel(m)
  PROVE  RentalInv(s)'
<1>1. m.rental \in Rentals[s]
  BY DEF RentalInv, RentalAsks
<1>2. CASE Rents(s)!ServeReview(m)
  <2>1. db' = [db EXCEPT ![m.rental].review = m.value] /\ m.value = m.rental /\ Rents(s)!Served(m, "reviewed")
    BY <1>2 DEF Rents!ServeReview, RentalInv, RentalAsks
  <2>2. RentalRows(s)' /\ Rents(s)!ReadingsInOrder' /\ Rents(s)!ReviewIsOfItsRental'
    BY <2>1 DEF RentalInv, RentalRows, Rents!ReadingsInOrder, Rents!ReviewIsOfItsRental, Rents!None
  <2> QED BY <2>1, <2>2, RentalServed DEF RentalInv
<1> DEFINE Kept == RentalRows(s)' /\ Rents(s)!ReadingsInOrder' /\ \A q \in Rentals[s] : db'[q].review = db[q].review
<1>3. ASSUME Rents(s)!ServeReading(m) PROVE Kept /\ Rents(s)!Served(m, "saved")
  <2>1. Rents(s)!Records(m.rental, m.kind, m.value) /\ m.kind \in {"check_in", "check_out"}
    BY <1>3 DEF Rents!ServeReading
  <2>2. m.value \in Int /\ m.value # -1
    BY <2>1 DEF RentalInv, RentalAsks, RentalForms
  <2> QED BY <1>1, <1>3, <2>1, <2>2, RecordsInOrder DEF RentalInv, Rents!ServeReading
<1>4. ASSUME Rents(s)!ServeComplete(m) PROVE Kept /\ Rents(s)!Served(m, "saved")
  <2>1. Rents(s)!Completes(m.rental, m.value) /\ m.value \in Int
    BY <1>4 DEF Rents!ServeComplete, RentalInv, RentalAsks, RentalForms
  <2> QED BY <1>1, <1>4, <2>1, CompletesInOrder DEF RentalInv, Rents!ServeComplete
<1>5. ASSUME Rents(s)!ServeCancel(m) PROVE Kept /\ Rents(s)!Served(m, "cancelled")
  BY <1>5, OtherRows DEF RentalInv, Rents!ServeCancel, Rents!Cancels
<1> HIDE DEF Kept
<1>6. CASE Kept /\ \E answer \in {"reviewed", "saved", "cancelled"} : Rents(s)!Served(m, answer)
  BY <1>6, RentalServed DEF Kept, RentalInv, Rents!ReviewIsOfItsRental
<1> QED BY <1>2, <1>3, <1>4, <1>5, <1>6

\* A quote is read.
LEMMA ServeQuoteStep ==
  ASSUME NEW s \in RentalScreens, RentalInv(s), NEW m \in net, Rents(s)!ServeQuote(m)
  PROVE  RentalInv(s)'
<1>1. PICK v : v = IF Rents(s)!Allowed(db[m.rental]) THEN 1 ELSE 0
  OBVIOUS
<1>2. PICK a : a = [m EXCEPT !.kind = "quoted", !.value = v]
  OBVIOUS
<1>3. DOMAIN a = DOMAIN m /\ a.kind = "quoted" /\ a.rental = m.rental
  BY <1>2 DEF RentalInv, RentalAsks
<1>4. net' = (net \ {m}) \cup {a} /\ ui' = ui /\ db' = db
  BY <1>1, <1>2 DEF Rents!ServeQuote
<1>5. RentalPage(s)' /\ TextOfPanel' /\ RentalAsks(s)'
  BY <1>3, <1>4 DEF RentalInv, RentalPage, TextOfPanel, RentalAsks, RentalForms
<1> QED BY <1>4, <1>5, RentalPageStep

\* Time passes, the owner works in another window, the other party cancels.
LEMMA RowSteps ==
  ASSUME NEW s \in RentalScreens, RentalInv(s), NEW r \in Rentals[s], Rents(s)!TimePasses(r) \/ Rents(s)!Elsewhere(r)
  PROVE  RentalInv(s)'
<1>1. UNCHANGED <<ui, net>>
  BY DEF Rents!TimePasses, Rents!Elsewhere
<1> DEFINE Kept == RentalRows(s)' /\ Rents(s)!ReadingsInOrder' /\ \A q \in Rentals[s] : db'[q].review = db[q].review
<1>2. ASSUME Rents(s)!TimePasses(r) PROVE Kept
  BY <1>2, OtherRows DEF Rents!TimePasses, RentalInv
<1>3. ASSUME NEW kind \in {"check_in", "check_out"}, NEW v \in Rents(s)!Hours, Rents(s)!Records(r, kind, v) PROVE Kept
  <2>1. v \in Int /\ v # -1
    BY DEF Rents!Hours
  <2> QED BY <1>3, <2>1, RecordsInOrder DEF RentalInv
<1>4. ASSUME NEW v \in Rents(s)!Hours \cup {Rents(s)!None}, Rents(s)!Completes(r, v) PROVE Kept
  <2>1. v \in Int
    BY DEF Rents!Hours, Rents!None
  <2> QED BY <1>4, <2>1, CompletesInOrder DEF RentalInv
<1>5. ASSUME Rents(s)!Cancels(r) PROVE Kept
  BY <1>5, OtherRows DEF Rents!Cancels, RentalInv
<1> HIDE DEF Kept
<1>6. Kept
  BY <1>2, <1>3, <1>4, <1>5 DEF Rents!Elsewhere
<1> QED BY <1>1, <1>6 DEF Kept, RentalInv, RentalPage, TextOfPanel, RentalAsks, Rents!ReviewIsOfItsRental

\* The page opens on the rentals as they are.
LEMMA RentalStart ==
  ASSUME NEW s \in RentalScreens, Rents(s)!Init
  PROVE  RentalInv(s)
<1>1. RentalPage(s) /\ TextOfPanel /\ RentalAsks(s)
  BY DEF Rents!Init, Rents!Card, RentalPage, TextOfPanel, RentalAsks, RentalForms
<1>2. RentalRows(s) /\ Rents(s)!ReadingsInOrder /\ Rents(s)!ReviewIsOfItsRental
  BY DEF Rents!Init, RentalRows, Rents!ReadingsInOrder, Rents!ReviewIsOfItsRental, Rents!None
<1> QED BY <1>1, <1>2 DEF RentalInv

\* Every step keeps the invariant.
LEMMA RentalNext ==
  ASSUME NEW s \in RentalScreens, RentalInv(s), Rents(s)!Next \/ UNCHANGED <<ui, db, net>>
  PROVE  RentalInv(s)'
<1>1. CASE UNCHANGED <<ui, db, net>>
  <2>1. RentalPage(s)' /\ TextOfPanel' /\ RentalAsks(s)'
    BY <1>1 DEF RentalInv, RentalPage, TextOfPanel, RentalAsks
  <2> QED BY <1>1, <2>1, RentalPageStep
<1>2. CASE Rents(s)!Next
  BY <1>2, ShowStep, ReviewSteps, MeterSteps, CancelSteps, RentalServes, ServeQuoteStep, RowSteps
     DEF Rents!Next, RentalForms
<1> QED BY <1>1, <1>2

-----------------------------------------------------------------------------
(***************************************************************************)
(* The moderator's pages.  The reason is forgotten whenever the dialog     *)
(* changes its target, so a request carries none but its target's own.     *)
(***************************************************************************)
DialogShape ==
  /\ DOMAIN ui = {"page", "list", "target", "action", "reason", "submitting", "sent"}
  /\ ui.reason \in {0, ui.target}

ReasonsSent ==
  \A m \in net :
    /\ {"kind", "mine"} \subseteq DOMAIN m
    /\ m.kind = "moderate" => {"target", "reason"} \subseteq DOMAIN m /\ m.reason \in {0, m.target}

ModerationInv == DialogShape /\ ReasonsSent /\ Desk!ReasonIsOfItsPosting

\* A step that rejects nothing.
LEMMA DialogStep ==
  ASSUME ModerationInv, DialogShape', ReasonsSent', db' = db
  PROVE  ModerationInv'
BY DEF ModerationInv, Desk!ReasonIsOfItsPosting

\* A list read again leaves the actions under way alone.
LEMMA RereadReasons ==
  ASSUME ReasonsSent, NEW S, S \subseteq net, NEW page, NEW mine, net' = Desk!Reread(S, page, mine)
  PROVE  ReasonsSent'
<1>1. PICK duty : duty = (mine \/ \E m \in {n \in S : Desk!IsList(n, page)} : m.mine)
  OBVIOUS
<1>2. PICK l : l = [kind |-> "list", page |-> page, mine |-> duty]
  OBVIOUS
<1>3. {"kind", "mine"} \subseteq DOMAIN l /\ l.kind = "list"
  BY <1>2
<1>4. net' \subseteq S \cup {l}
  BY <1>1, <1>2 DEF Desk!Reread
<1> QED BY <1>3, <1>4 DEF ReasonsSent

\* The dialog opens, closes and is written in; the page is left.
LEMMA ModeratorSteps ==
  ASSUME ModerationInv,
         \/ Desk!Refresh \/ Desk!CloseConfirm \/ Desk!Write \/ Desk!RunAction
         \/ \E page \in {"postings", "users"} : Desk!Visit(page)
         \/ \E t \in Desk!Targets(ui.page), a \in Desk!Actions(ui.page) : Desk!OpenConfirm(t, a)
  PROVE  ModerationInv'
<1> DEFINE Quiet == DialogShape' /\ ReasonsSent' /\ db' = db
<1>1. ASSUME Desk!Refresh PROVE Quiet
  BY <1>1, RereadReasons DEF Desk!Refresh, ModerationInv, DialogShape
<1>2. ASSUME Desk!CloseConfirm PROVE Quiet
  BY <1>2 DEF Desk!CloseConfirm, Desk!Closed, Desk!Confirm, ModerationInv, DialogShape, ReasonsSent
<1>3. ASSUME Desk!Write PROVE Quiet
  BY <1>3 DEF Desk!Write, ModerationInv, DialogShape, ReasonsSent
<1>4. ASSUME Desk!RunAction PROVE Quiet
  <2>1. PICK m : m = [kind |-> "moderate", page |-> ui.page, mine |-> TRUE,
                      target |-> ui.target, action |-> ui.action, reason |-> ui.reason]
    OBVIOUS
  <2>2. /\ {"kind", "mine", "target", "reason"} \subseteq DOMAIN m
        /\ m.kind = "moderate" /\ m.target = ui.target /\ m.reason = ui.reason
    BY <2>1
  <2>3. net' = net \cup {m} /\ db' = db
    BY <1>4, <2>1 DEF Desk!RunAction
  <2>4. ReasonsSent'
    BY <2>2, <2>3 DEF ModerationInv, DialogShape, ReasonsSent
  <2> QED BY <1>4, <2>3, <2>4 DEF Desk!RunAction, ModerationInv, DialogShape
<1>5. ASSUME NEW page, Desk!Visit(page) PROVE Quiet
  <2> DEFINE left == {[m EXCEPT !.mine = FALSE] : m \in net}
  <2>1. \A m \in left : /\ {"kind", "mine"} \subseteq DOMAIN m
                        /\ m.kind = "moderate" =>
                             {"target", "reason"} \subseteq DOMAIN m /\ m.reason \in {0, m.target}
    BY DEF ModerationInv, ReasonsSent
  <2>2. net' = left \/ net' = Desk!Reread(left, page, FALSE)
    BY <1>5 DEF Desk!Visit
  <2>3. net' \subseteq left \cup {m \in net' : m = [kind |-> "list", page |-> page, mine |-> m.mine]}
    <3> HIDE DEF left
    <3> QED BY <2>2 DEF Desk!Reread
  <2>4. ReasonsSent'
    <3> HIDE DEF left
    <3>1. \A m \in net' : m \in left \/ ({"kind", "mine"} \subseteq DOMAIN m /\ m.kind = "list")
      BY <2>3
    <3> QED BY <2>1, <3>1 DEF ReasonsSent
  <2> QED BY <1>5, <2>4 DEF Desk!Visit, Desk!Closed, Desk!Confirm, ModerationInv, DialogShape
<1>6. ASSUME NEW t, NEW a, Desk!OpenConfirm(t, a) PROVE Quiet
  BY <1>6 DEF Desk!OpenConfirm, Desk!Confirm, ModerationInv, DialogShape, ReasonsSent
<1> HIDE DEF Quiet
<1>7. Quiet
  BY <1>1, <1>2, <1>3, <1>4, <1>5, <1>6
<1> QED BY <1>7, DialogStep DEF Quiet

\* Answers: the dialog open by then is closed and forgets its reason.
LEMMA DialogAnswers ==
  ASSUME ModerationInv, NEW m \in net,
         \/ Desk!ModeratedArrives(m) \/ Desk!ListArrives(m) \/ Desk!ListFails(m) \/ Desk!RequestFails(m)
         \/ Desk!ServeList(m)
  PROVE  ModerationInv'
<1> DEFINE Quiet == DialogShape' /\ ReasonsSent' /\ db' = db
<1>1. ASSUME Desk!ModeratedArrives(m) PROVE Quiet
  <2>1. CASE m.page = ui.page
    BY <1>1, <2>1, RereadReasons DEF Desk!ModeratedArrives, ModerationInv, DialogShape
  <2>2. CASE m.page # ui.page
    BY <1>1, <2>2 DEF Desk!ModeratedArrives, ModerationInv, DialogShape, ReasonsSent
  <2> QED BY <2>1, <2>2
<1>2. ASSUME NEW u, DOMAIN u = DOMAIN ui, u.reason = ui.reason, u.target = ui.target, ui' = Desk!Settled(u, m)
      PROVE  DialogShape'
  BY <1>2 DEF Desk!Settled, Desk!Closed, Desk!Confirm, ModerationInv, DialogShape
<1>3. ASSUME Desk!ListArrives(m) PROVE Quiet
  <2>1. PICK u : u = [ui EXCEPT !.list[m.page] = m.rows]
    OBVIOUS
  <2>2. DOMAIN u = DOMAIN ui /\ u.reason = ui.reason /\ u.target = ui.target
    BY <2>1 DEF ModerationInv, DialogShape
  <2>3. ui' = Desk!Settled(u, m)
    BY <1>3, <2>1 DEF Desk!ListArrives
  <2> QED BY <1>2, <1>3, <2>2, <2>3 DEF Desk!ListArrives, ModerationInv, ReasonsSent
<1>4. ASSUME Desk!ListFails(m) PROVE Quiet
  BY <1>2, <1>4 DEF Desk!ListFails, ModerationInv, ReasonsSent
<1>5. ASSUME Desk!RequestFails(m) PROVE Quiet
  <2>1. PICK b : ui' = [ui EXCEPT !.submitting = b]
    BY <1>5 DEF Desk!RequestFails, ModerationInv, DialogShape
  <2> QED BY <1>5, <2>1 DEF Desk!RequestFails, ModerationInv, DialogShape, ReasonsSent
<1>6. ASSUME Desk!ServeList(m) PROVE Quiet
  <2>1. PICK rows : rows = [t \in Desk!Targets(m.page) |-> db.status[t]]
    OBVIOUS
  <2>2. PICK l : l = [kind |-> "listed", page |-> m.page, mine |-> m.mine, rows |-> rows]
    OBVIOUS
  <2>3. {"kind", "mine"} \subseteq DOMAIN l /\ l.kind = "listed"
    BY <2>2
  <2>4. net' = (net \ {m}) \cup {l}
    BY <1>6, <2>1, <2>2 DEF Desk!ServeList
  <2> QED BY <1>6, <2>3, <2>4 DEF Desk!ServeList, ModerationInv, DialogShape, ReasonsSent
<1> HIDE DEF Quiet
<1>7. Quiet
  BY <1>1, <1>3, <1>4, <1>5, <1>6
<1> QED BY <1>7, DialogStep DEF Quiet

\* A rejection records the reason it carries.
LEMMA ServeActionStep ==
  ASSUME ModerationInv, NEW m \in net, Desk!ServeAction(m)
  PROVE  ModerationInv'
<1>1. m.kind = "moderate" /\ m.reason \in {0, m.target} /\ ui' = ui
  BY DEF Desk!ServeAction, ModerationInv, ReasonsSent
<1>2. db'.reason = IF m.action = "reject" THEN [db.reason EXCEPT ![m.target] = m.reason] ELSE db.reason
  BY DEF Desk!ServeAction
<1>3. Desk!ReasonIsOfItsPosting'
  BY <1>1, <1>2 DEF ModerationInv, Desk!ReasonIsOfItsPosting
<1>4. PICK a : a = [m EXCEPT !.kind = "moderated"]
  OBVIOUS
<1>5. DOMAIN a = DOMAIN m /\ "kind" \in DOMAIN m /\ a.kind = "moderated"
  BY <1>4 DEF ModerationInv, ReasonsSent
<1>6. net' = (net \ {m}) \cup {a}
  BY <1>4 DEF Desk!ServeAction
<1> QED BY <1>1, <1>3, <1>5, <1>6 DEF ModerationInv, DialogShape, ReasonsSent

\* No dialog is open at first.
LEMMA ModerationStart ==
  ASSUME Desk!Init
  PROVE  ModerationInv
BY DEF Desk!Init, ModerationInv, DialogShape, ReasonsSent, Desk!ReasonIsOfItsPosting

\* Every step keeps the invariant.
LEMMA ModerationNext ==
  ASSUME ModerationInv, Desk!Next \/ UNCHANGED <<ui, db, net>>
  PROVE  ModerationInv'
<1>1. CASE UNCHANGED <<ui, db, net>>
  BY <1>1 DEF ModerationInv, DialogShape, ReasonsSent, Desk!ReasonIsOfItsPosting
<1>2. CASE Desk!Next
  BY <1>2, ModeratorSteps, DialogAnswers, ServeActionStep DEF Desk!Next
<1> QED BY <1>1, <1>2

-----------------------------------------------------------------------------
(***************************************************************************)
(* The fleet.  A machine's text is its own wherever it is read from: the   *)
(* server's rows, a list under way, the list on screen.  The window takes  *)
(* it as it opens and loses it as it closes.                               *)
(***************************************************************************)
MachineText == [machine : Int, opening : Int]
MachineRow  == [registry : Registries \cup {0, 1, 2}, text : MachineText]

FleetShape ==
  /\ DOMAIN ui = {"view", "list", "open", "selected", "machine", "loadedFor", "form", "sending", "opens"}
  /\ ui.selected \in Int /\ ui.opens \in Int /\ {ui.form, ui.machine} \subseteq MachineRow

OwnRows(rows, held) ==
  rows \in Seq(MachineRow) /\ \A i \in DOMAIN rows : rows[i].text.machine = i /\ rows[i].text \in held

FleetWindow ==
  IF ui.open
  THEN /\ ui.view = "fleet" /\ ui.loadedFor = ui.selected /\ ui.form.text.machine = ui.selected
       /\ ui.form.text.opening = ui.opens \/ ui.form.text \in db.held
  ELSE ui.loadedFor = 0

FleetAsks ==
  \A m \in net :
    /\ "kind" \in DOMAIN m
    /\ m.kind = "listed" => OwnRows(m.rows, db.held)
    /\ m.kind \in {"save", "create"} => m.row \in MachineRow

FleetInv ==
  /\ FleetShape /\ FleetWindow /\ FleetAsks
  /\ OwnRows(ui.list, db.held) /\ OwnRows(db.rows, db.held) /\ Fleet!EditIsOfItsMachine

\* A text is of its machine and its opening.
LEMMA TextOfMachine ==
  ASSUME NEW m \in Int, NEW o \in Int
  PROVE  Fleet!Text(m, o) \in MachineText /\ Fleet!Text(m, o).machine = m /\ Fleet!Text(m, o).opening = o
BY DEF Fleet!Text, MachineText

\* A row is made of a registry and a text.
LEMMA RowOfMachine ==
  ASSUME NEW r \in Registries \cup {0, 1, 2}, NEW t \in MachineText
  PROVE  Fleet!Row(r, t) \in MachineRow /\ Fleet!Row(r, t).text = t
BY DEF Fleet!Row, MachineRow

\* Its text is replaced.
LEMMA RowText ==
  ASSUME NEW row \in MachineRow, NEW t \in MachineText
  PROVE  [row EXCEPT !.text = t] \in MachineRow /\ [row EXCEPT !.text = t].text = t
BY DEF MachineRow

\* Its registry is replaced.
LEMMA RowRegistry ==
  ASSUME NEW row \in MachineRow, NEW r \in Registries
  PROVE  [row EXCEPT !.registry = r] \in MachineRow /\ [row EXCEPT !.registry = r].text = row.text
BY DEF MachineRow

\* A blank form is a row.
LEMMA BlankMachine == Fleet!Blank \in MachineRow
<1>1. Fleet!Text(0, 0) \in MachineText
  BY TextOfMachine
<1> QED BY <1>1, RowOfMachine DEF Fleet!Blank

\* A step of the page: nothing is saved, and what is asked for is read or sent
\* as the form has it.
LEMMA FleetPageStep ==
  ASSUME FleetInv, FleetShape', FleetWindow', OwnRows(ui'.list, db.held), db' = db,
         \A m \in net' : m \in net \/ ("kind" \in DOMAIN m /\ m.kind \notin {"listed", "save", "create"})
  PROVE  FleetInv'
<1>1. FleetAsks'
  BY DEF FleetInv, FleetAsks, OwnRows
<1>2. Fleet!EditIsOfItsMachine'
  BY DEF FleetInv, Fleet!EditIsOfItsMachine
<1> QED BY <1>1, <1>2 DEF FleetInv

\* A reading takes the place of the one under way.
LEMMA RereadFleet ==
  ASSUME NEW S, NEW opening, NEW m \in Fleet!Reread(S, opening)
  PROVE  m \in S \/ ("kind" \in DOMAIN m /\ m.kind = "list")
<1>1. PICK o : o = CHOOSE x \in {opening} \cup {n.opening : n \in {n \in S : n.kind \in {"list", "listed"}}} :
                     \A p \in {opening} \cup {n.opening : n \in {n \in S : n.kind \in {"list", "listed"}}} : p <= x
  OBVIOUS
<1>2. PICK l : l = [kind |-> "list", opening |-> o]
  OBVIOUS
<1>3. "kind" \in DOMAIN l /\ l.kind = "list"
  BY <1>2
<1>4. m \in S \/ m = l
  BY <1>1, <1>2 DEF Fleet!Reread
<1> QED BY <1>3, <1>4

\* The window opens on the fields of its machine, and closes without them.
LEMMA WindowSteps ==
  ASSUME FleetInv,
         \/ Fleet!CloseModal
         \/ \E view \in {"fleet", "new"} : Fleet!Visit(view)
         \/ \E m \in 1..MaxMachines : Fleet!OpenModal(m)
  PROVE  FleetInv'
<1>1. CASE Fleet!CloseModal
  <2>1. ui' = [ui EXCEPT !.open = FALSE, !.loadedFor = 0]
    BY <1>1 DEF Fleet!CloseModal, Fleet!Synced, FleetInv, FleetShape
  <2>2. FleetShape' /\ FleetWindow' /\ ui'.list = ui.list
    BY <2>1 DEF FleetInv, FleetShape, FleetWindow
  <2> QED BY <1>1, <2>2, FleetPageStep DEF Fleet!CloseModal, FleetInv
<1>2. ASSUME NEW view, Fleet!Visit(view)
      PROVE  FleetInv'
  <2>1. PICK n \in Int : n = ui.opens + 1
    BY DEF FleetInv, FleetShape
  <2>2. PICK b \in MachineRow : b = Fleet!Blank
    BY BlankMachine
  <2>3. ui' = [ui EXCEPT !.view = view, !.open = FALSE, !.selected = 0, !.machine = b, !.loadedFor = 0,
                         !.form = b, !.sending = FALSE, !.opens = n]
    BY <1>2, <2>1, <2>2 DEF Fleet!Visit, Fleet!Mounted
  <2>4. FleetShape' /\ FleetWindow' /\ ui'.list = ui.list
    BY <2>3 DEF FleetInv, FleetShape, FleetWindow
  <2>5. \A m \in net' : m \in net \/ ("kind" \in DOMAIN m /\ m.kind = "list")
    BY <1>2, RereadFleet DEF Fleet!Visit
  <2> QED BY <1>2, <2>4, <2>5, FleetPageStep DEF Fleet!Visit, FleetInv
<1>3. ASSUME NEW m \in 1..MaxMachines, Fleet!OpenModal(m)
      PROVE  FleetInv'
  <2>1. m \in Int /\ m # 0 /\ ui.loadedFor = 0 /\ m \in DOMAIN ui.list /\ ui.view = "fleet"
    <3>1. ~ui.open /\ m \in DOMAIN ui.list /\ ui.view = "fleet"
      BY <1>3 DEF Fleet!OpenModal
    <3>2. m \in Int /\ m # 0
      OBVIOUS
    <3> QED BY <3>1, <3>2 DEF FleetInv, FleetWindow
  <2>2. PICK row \in MachineRow : row = ui.list[m] /\ row.text.machine = m /\ row.text \in db.held
    BY <2>1 DEF FleetInv, OwnRows
  <2>3. PICK n \in Int : n = ui.opens + 1
    BY DEF FleetInv, FleetShape
  <2>4. ui' = [ui EXCEPT !.open = TRUE, !.opens = n, !.selected = m, !.machine = row, !.loadedFor = m, !.form = row]
    BY <1>3, <2>1, <2>2, <2>3 DEF Fleet!OpenModal, Fleet!Synced, FleetInv, FleetShape
  <2>5. /\ FleetShape' /\ ui'.list = ui.list /\ ui'.view = ui.view /\ ui'.open
        /\ ui'.loadedFor = m /\ ui'.selected = m /\ ui'.form = row
    BY <2>1, <2>4 DEF FleetInv, FleetShape
  <2>6. FleetWindow'
    BY <1>3, <2>1, <2>2, <2>5 DEF FleetWindow, Fleet!OpenModal
  <2> QED BY <1>3, <2>5, <2>6, FleetPageStep DEF Fleet!OpenModal, FleetInv
<1> QED BY <1>1, <1>2, <1>3

\* What is typed in the window is of its machine and its opening.
LEMMA TypingSteps ==
  ASSUME FleetInv, Fleet!Type \/ \E r \in Registries : Fleet!TypeRegistry(r)
  PROVE  FleetInv'
<1>1. CASE Fleet!Type
  <2> DEFINE k == IF ui.open THEN ui.selected ELSE 0
  <2>1. PICK t \in MachineText : t = Fleet!Text(k, ui.opens) /\ t.machine = k /\ t.opening = ui.opens
    <3>1. k \in Int /\ ui.opens \in Int
      BY DEF FleetInv, FleetShape
    <3> HIDE DEF k
    <3> QED BY <3>1, TextOfMachine
  <2>2. PICK f \in MachineRow : f = [ui.form EXCEPT !.text = t] /\ f.text = t
    BY <2>1, RowText DEF FleetInv, FleetShape
  <2>3. ui' = [ui EXCEPT !.form = f]
    BY <1>1, <2>1, <2>2 DEF Fleet!Type, FleetInv, FleetShape
  <2>4. t.opening = ui.opens /\ (ui.open => t.machine = ui.selected)
    BY <2>1
  <2>5. FleetShape' /\ FleetWindow' /\ ui'.list = ui.list
    BY <2>2, <2>3, <2>4 DEF FleetInv, FleetShape, FleetWindow
  <2> QED BY <1>1, <2>5, FleetPageStep DEF Fleet!Type, FleetInv
<1>2. ASSUME NEW r \in Registries, Fleet!TypeRegistry(r)
      PROVE  FleetInv'
  <2>1. PICK f \in MachineRow : f = [ui.form EXCEPT !.registry = r] /\ f.text = ui.form.text
    BY RowRegistry DEF FleetInv, FleetShape
  <2>2. ui' = [ui EXCEPT !.form = f]
    BY <1>2, <2>1 DEF Fleet!TypeRegistry, FleetInv, FleetShape
  <2>3. FleetShape' /\ FleetWindow' /\ ui'.list = ui.list
    <3>1. /\ DOMAIN ui' = DOMAIN ui /\ ui'.form = f /\ ui'.form.text = ui.form.text
          /\ \A x \in DOMAIN ui \ {"form"} : ui'[x] = ui[x]
      BY <2>1, <2>2 DEF FleetInv, FleetShape
    <3> QED BY <1>2, <3>1 DEF FleetInv, FleetShape, FleetWindow, Fleet!TypeRegistry
  <2> QED BY <1>2, <2>3, FleetPageStep DEF Fleet!TypeRegistry, FleetInv
<1> QED BY <1>1, <1>2

\* The form is sent, of the machine the window is open on.
LEMMA SubmitStep ==
  ASSUME FleetInv, NEW kind \in {"save", "create"}, Fleet!Submit(kind)
  PROVE  FleetInv'
<1>1. PICK m : m = [kind |-> kind, machine |-> ui.selected, opening |-> ui.opens, row |-> ui.form]
  OBVIOUS
<1>2. "kind" \in DOMAIN m /\ m.kind = kind /\ m.machine = ui.selected /\ m.opening = ui.opens /\ m.row = ui.form
  BY <1>1
<1>3. net' = net \cup {m} /\ ui' = [ui EXCEPT !.sending = TRUE] /\ db' = db /\ (kind = "save" => ui.open)
  BY <1>1 DEF Fleet!Submit
<1>4. FleetShape' /\ FleetWindow' /\ ui'.list = ui.list
  BY <1>3 DEF FleetInv, FleetShape, FleetWindow
<1>5. FleetAsks'
  BY <1>2, <1>3 DEF FleetInv, FleetShape, FleetAsks, OwnRows
<1>6. Fleet!EditIsOfItsMachine'
  BY <1>2, <1>3 DEF FleetInv, FleetWindow, Fleet!EditIsOfItsMachine
<1> QED BY <1>3, <1>4, <1>5, <1>6 DEF FleetInv

\* An answer closes the window that waits for it, or leaves it as it is.
LEMMA SettledShape ==
  ASSUME FleetInv, NEW u, DOMAIN u = DOMAIN ui, NEW opening, ui' = Fleet!Settled(u, opening), db' = db,
         \A f \in DOMAIN ui \ {"list"} : u[f] = ui[f]
  PROVE  FleetShape' /\ FleetWindow' /\ ui'.list = u.list
<1>1. CASE ui' = u
  BY <1>1 DEF FleetInv, FleetShape, FleetWindow
<1>2. CASE ui' = Fleet!Synced([u EXCEPT !.machine = u.form, !.open = FALSE, !.sending = FALSE])
  <2>1. ui' = [u EXCEPT !.machine = u.form, !.open = FALSE, !.sending = FALSE, !.loadedFor = 0]
    BY <1>2 DEF Fleet!Synced, FleetInv, FleetShape
  <2> QED BY <2>1 DEF FleetInv, FleetShape, FleetWindow
<1> QED BY <1>1, <1>2 DEF Fleet!Settled

\* Answers and failures.
LEMMA FleetAnswers ==
  ASSUME FleetInv, NEW m \in net,
         \/ Fleet!SavedArrives(m) \/ Fleet!CreatedArrives(m) \/ Fleet!ListArrives(m) \/ Fleet!ListFails(m)
         \/ Fleet!RequestFails(m)
  PROVE  FleetInv'
<1>1. CASE Fleet!SavedArrives(m)
  <2>1. \A n \in net' : n \in net \/ ("kind" \in DOMAIN n /\ n.kind = "list")
    BY <1>1, RereadFleet DEF Fleet!SavedArrives
  <2>2. FleetShape' /\ FleetWindow'
    BY <1>1 DEF Fleet!SavedArrives, FleetInv, FleetShape, FleetWindow
  <2> QED BY <1>1, <2>1, <2>2, FleetPageStep DEF Fleet!SavedArrives, FleetInv
<1>2. CASE Fleet!CreatedArrives(m)
  <2>1. PICK b \in MachineRow : b = Fleet!Blank
    BY BlankMachine
  <2>2. ui' = ui \/ (ui' = [ui EXCEPT !.form = b, !.sending = FALSE] /\ ui.view = "new")
    BY <1>2, <2>1 DEF Fleet!CreatedArrives
  <2>3. FleetShape' /\ FleetWindow' /\ ui'.list = ui.list
    <3>1. CASE ui' = ui
      BY <1>2, <3>1 DEF FleetInv, FleetShape, FleetWindow, Fleet!CreatedArrives
    <3>2. CASE ui' = [ui EXCEPT !.form = b, !.sending = FALSE] /\ ui.view = "new"
      <4>1. ~ui.open /\ ui.loadedFor = 0
        BY <3>2 DEF FleetInv, FleetWindow
      <4> QED BY <3>2, <4>1 DEF FleetInv, FleetShape, FleetWindow
    <3> QED BY <2>2, <3>1, <3>2
  <2> QED BY <1>2, <2>3, FleetPageStep DEF Fleet!CreatedArrives, FleetInv
<1>3. CASE Fleet!ListArrives(m)
  <2>1. PICK u : u = [ui EXCEPT !.list = m.rows]
    OBVIOUS
  <2>2. DOMAIN u = DOMAIN ui /\ u.list = m.rows /\ \A f \in DOMAIN ui \ {"list"} : u[f] = ui[f]
    BY <2>1 DEF FleetInv, FleetShape
  <2>3. OwnRows(m.rows, db.held)
    BY <1>3 DEF Fleet!ListArrives, FleetInv, FleetAsks
  <2> QED BY <1>3, <2>1, <2>2, <2>3, SettledShape, FleetPageStep DEF Fleet!ListArrives
<1>4. CASE Fleet!ListFails(m)
  BY <1>4, SettledShape, FleetPageStep DEF Fleet!ListFails, FleetInv
<1>5. CASE Fleet!RequestFails(m)
  <2>1. PICK b : ui' = [ui EXCEPT !.sending = b]
    BY <1>5 DEF Fleet!RequestFails, FleetInv, FleetShape
  <2>2. FleetShape' /\ FleetWindow' /\ ui'.list = ui.list
    BY <1>5, <2>1 DEF FleetInv, FleetShape, FleetWindow, Fleet!RequestFails
  <2> QED BY <1>5, <2>2, FleetPageStep DEF Fleet!RequestFails, FleetInv
<1> QED BY <1>1, <1>2, <1>3, <1>4, <1>5

\* The server answers with the rows it keeps.
LEMMA ServeFleetStep ==
  ASSUME FleetInv, NEW m \in net, Fleet!ServeList(m)
  PROVE  FleetInv'
<1>1. PICK a : a = [kind |-> "listed", opening |-> m.opening, rows |-> db.rows]
  OBVIOUS
<1>2. "kind" \in DOMAIN a /\ a.kind = "listed" /\ a.rows = db.rows
  BY <1>1
<1>3. net' = (net \ {m}) \cup {a} /\ ui' = ui /\ db' = db
  BY <1>1 DEF Fleet!ServeList, Fleet!Answered
<1>4. FleetShape' /\ FleetWindow'
  BY <1>3 DEF FleetInv, FleetShape, FleetWindow
<1>5. FleetAsks' /\ Fleet!EditIsOfItsMachine'
  BY <1>2, <1>3 DEF FleetInv, FleetAsks, Fleet!EditIsOfItsMachine, OwnRows
<1> QED BY <1>3, <1>4, <1>5 DEF FleetInv

\* What a machine held it goes on holding, for whoever read it.
LEMMA HeldGrows ==
  ASSUME FleetInv, NEW m \in net, m.kind \in {"save", "create"}, NEW rows, NEW text, NEW answer,
         Fleet!Holding(rows, text), OwnRows(rows, db.held \cup {text}),
         Fleet!Answered(m, [m EXCEPT !.kind = answer]), answer \in {"saved", "created"}
  PROVE  FleetInv'
<1>1. PICK a : a = [m EXCEPT !.kind = answer]
  OBVIOUS
<1>2. "kind" \in DOMAIN a /\ a.kind = answer
  BY <1>1 DEF FleetInv, FleetAsks
<1>3. net' = (net \ {m}) \cup {a} /\ ui' = ui /\ db'.rows = rows /\ db'.held = db.held \cup {text}
  BY <1>1 DEF Fleet!Answered, Fleet!Holding
<1>4. FleetShape' /\ FleetWindow'
  BY <1>3 DEF FleetInv, FleetShape, FleetWindow
<1>5. \A r : OwnRows(r, db.held) => OwnRows(r, db'.held)
  BY <1>3 DEF OwnRows
<1>6. FleetAsks'
  BY <1>2, <1>3, <1>5 DEF FleetInv, FleetAsks
<1>7. Fleet!EditIsOfItsMachine'
  BY <1>2, <1>3 DEF FleetInv, Fleet!EditIsOfItsMachine
<1> QED BY <1>3, <1>4, <1>5, <1>6, <1>7 DEF FleetInv

\* A machine is saved, or another registered.
LEMMA ServeMachineSteps ==
  ASSUME FleetInv, NEW m \in net, Fleet!ServeSave(m) \/ Fleet!ServeCreate(m)
  PROVE  FleetInv'
<1>1. m.row \in MachineRow /\ db.rows \in Seq(MachineRow)
  BY DEF Fleet!ServeSave, Fleet!ServeCreate, FleetInv, FleetAsks, OwnRows
<1>2. CASE Fleet!ServeSave(m)
  <2>1. PICK rows : rows = [db.rows EXCEPT ![m.machine] = m.row]
    OBVIOUS
  <2>2. rows \in Seq(MachineRow) /\ DOMAIN rows = DOMAIN db.rows
    <3>1. \A i \in 1..Len(db.rows) : rows[i] \in MachineRow
      BY <1>1, <2>1
    <3>2. rows = [i \in 1..Len(db.rows) |-> rows[i]] /\ Len(db.rows) \in Nat
      BY <1>1, <2>1
    <3>3. [i \in 1..Len(db.rows) |-> rows[i]] \in Seq(MachineRow)
      BY <3>1, <3>2
    <3> QED BY <2>1, <3>2, <3>3
  <2>3. m.row.text.machine = m.machine
    BY <1>2 DEF Fleet!ServeSave, FleetInv, Fleet!EditIsOfItsMachine
  <2>4. OwnRows(rows, db.held \cup {m.row.text})
    BY <2>1, <2>2, <2>3 DEF FleetInv, OwnRows
  <2> QED BY <1>2, <2>1, <2>4, HeldGrows DEF Fleet!ServeSave
<1>3. CASE Fleet!ServeCreate(m)
  <2>1. PICK text \in MachineText : text = [m.row.text EXCEPT !.machine = Len(db.rows) + 1]
                                    /\ text.machine = Len(db.rows) + 1
    <3>1. m.row.text \in MachineText /\ Len(db.rows) + 1 \in Int
      BY <1>1 DEF MachineRow
    <3>2. \A k \in Int : /\ [m.row.text EXCEPT !.machine = k] \in MachineText
                          /\ [m.row.text EXCEPT !.machine = k].machine = k
      BY <3>1 DEF MachineText
    <3> QED BY <3>1, <3>2
  <2>2. PICK row \in MachineRow : row = [m.row EXCEPT !.text = text] /\ row.text = text
    BY <1>1, <2>1, RowText, ZenonT(60)
  <2>3. PICK rows \in Seq(MachineRow) : rows = Append(db.rows, row)
    <3>1. Append(db.rows, row) \in Seq(MachineRow)
      BY <1>1
    <3> QED BY <3>1
  <2>4. DOMAIN rows = 1..Len(db.rows) + 1 /\ rows[Len(db.rows) + 1] = row /\ Len(db.rows) \in Nat
        /\ \A i \in 1..Len(db.rows) : rows[i] = db.rows[i] /\ i \in DOMAIN db.rows
    BY <1>1, <2>2, <2>3
  <2>5. OwnRows(rows, db.held \cup {text})
    BY <2>1, <2>2, <2>3, <2>4 DEF FleetInv, OwnRows
  <2> QED BY <1>3, <2>1, <2>2, <2>3, <2>5, HeldGrows DEF Fleet!ServeCreate
<1> QED BY <1>2, <1>3

\* Two machines at first, and no window.
LEMMA FleetStart ==
  ASSUME Fleet!Init
  PROVE  FleetInv
<1>1. PICK b \in MachineRow : b = Fleet!Blank
  BY BlankMachine
<1>2. PICK r \in MachineRow : r = Fleet!Row(1, Fleet!Text(1, 0)) /\ r.text = Fleet!Text(1, 0) /\ r.text.machine = 1
  BY RowOfMachine, TextOfMachine
<1>3. PICK q \in MachineRow : q = Fleet!Row(2, Fleet!Text(2, 0)) /\ q.text = Fleet!Text(2, 0) /\ q.text.machine = 2
  <2>1. Fleet!Text(2, 0) \in MachineText /\ Fleet!Text(2, 0).machine = 2
    BY TextOfMachine
  <2> QED BY <2>1, RowOfMachine
<1>4. db.rows = <<r, q>> /\ db.held = {r.text, q.text}
  BY <1>2, <1>3 DEF Fleet!Init
<1>5. OwnRows(db.rows, db.held)
  BY <1>2, <1>3, <1>4 DEF OwnRows
<1>6. /\ ui = [view |-> "fleet", list |-> <<>>, open |-> FALSE, selected |-> 0, machine |-> b, loadedFor |-> 0,
               form |-> b, sending |-> FALSE, opens |-> 0]
      /\ net = {[kind |-> "list", opening |-> 0]}
  BY <1>1 DEF Fleet!Init
<1>7. FleetShape /\ FleetWindow /\ OwnRows(ui.list, db.held)
  BY <1>6 DEF FleetShape, FleetWindow, OwnRows
<1>8. FleetAsks /\ Fleet!EditIsOfItsMachine
  BY <1>6 DEF FleetAsks, Fleet!EditIsOfItsMachine
<1> QED BY <1>5, <1>7, <1>8 DEF FleetInv

\* Every step keeps the invariant.
LEMMA FleetNext ==
  ASSUME FleetInv, Fleet!Next \/ UNCHANGED <<ui, db, net>>
  PROVE  FleetInv'
<1>1. CASE UNCHANGED <<ui, db, net>>
  <2>1. FleetShape' /\ FleetWindow' /\ OwnRows(ui'.list, db.held)
    BY <1>1 DEF FleetInv, FleetShape, FleetWindow
  <2> QED BY <1>1, <2>1, FleetPageStep
<1>2. CASE Fleet!Next
  BY <1>2, WindowSteps, TypingSteps, SubmitStep, FleetAnswers, ServeFleetStep, ServeMachineSteps DEF Fleet!Next
<1> QED BY <1>1, <1>2

-----------------------------------------------------------------------------
(***************************************************************************)
(* The forms with an address.  A lookup that bears the last number was     *)
(* asked of the form as it is: what changes the form takes another number. *)
(***************************************************************************)
NumberedScreens == FormScreens \ {"signup"}

FormShape(s) ==
  /\ DOMAIN ui = {"open", "form", "who", "cep", "address", "request", "hand", "pending", "loading", "listed"}
  /\ ui.request \in Int
  /\ DOMAIN db = People[s] /\ \A p \in People[s] : DOMAIN db[p] = {"here", "cep", "address"}

LookupsAsked ==
  \A m \in net : m.kind = "lookup" =>
    /\ m.request \in Int /\ m.request <= ui.request
    /\ m.request = ui.request => ui.open /\ m.form = ui.form /\ m.hand = ui.hand /\ m.cep = ui.cep

OwnSaved == \A m \in net : m.kind = "save" => m.address.own

OwnAddresses(s) == ui.address.own /\ \A p \in People[s] : db[p].address.own

\* So are the rows the list shows, and those on their way to it.
OwnRow(m) == /\ m.kind = "listed" => \A o \in m.people : o.address.own
             /\ m.kind = "saved" => m.row.address.own

OwnListed == (\A o \in ui.listed : o.address.own) /\ \A m \in net : OwnRow(m)

FormInv(s) == FormShape(s) /\ LookupsAsked /\ OwnSaved /\ OwnAddresses(s) /\ OwnListed

\* The form takes another number: every lookup under way is of an earlier one.
LEMMA NumberTaken ==
  ASSUME NEW s \in NumberedScreens, FormShape(s), LookupsAsked, ui'.request = ui.request + 1,
         \A m \in net' : m.kind = "lookup" => m \in net
  PROVE  LookupsAsked'
BY DEF FormShape, LookupsAsked

\* The form keeps its number, and its fields with it.
LEMMA NumberKept ==
  ASSUME LookupsAsked, ui'.request = ui.request, ui.open => ui'.open, \A m \in net' : m.kind = "lookup" => m \in net,
         ~ui.open \/ (ui'.form = ui.form /\ ui'.hand = ui.hand /\ ui'.cep = ui.cep)
  PROVE  LookupsAsked'
BY DEF LookupsAsked

\* Both as one record: the fields of a form that takes another number.
LEMMA BumpedForm ==
  ASSUME NEW s \in NumberedScreens, FormShape(s)
  PROVE  \E n \in Int : n = ui.request + 1 /\ Forms(s)!Bumped(ui) = [ui EXCEPT !.request = n]
BY DEF FormShape, NumberedScreens, Forms!Bumped, Forms!Numbered

\* A step of the page that asks for no lookup.
LEMMA FormPageStep ==
  ASSUME NEW s \in NumberedScreens, FormInv(s), db' = db, FormShape(s)', LookupsAsked', ui'.address.own,
         \A m \in net' : m.kind = "save" => m \in net \/ m.address.own,
         \A m \in net' : m.kind \in {"listed", "saved"} => m \in net,
         \A o \in ui'.listed : o.address.own
  PROVE  FormInv(s)'
BY DEF FormInv, OwnSaved, OwnAddresses, OwnListed, OwnRow

\* Forms are opened and filled in.
LEMMA OpeningSteps ==
  ASSUME NEW s \in NumberedScreens, FormInv(s),
         \/ Forms(s)!SyncUser \/ Forms(s)!OpenCreate \/ Forms(s)!CloseForm
         \/ \E o \in ui.listed : Forms(s)!OpenEdit(o)
  PROVE  FormInv(s)'
<1> DEFINE Kept == db' = db /\ net' = net /\ FormShape(s)' /\ LookupsAsked' /\ ui'.address.own /\ ui'.listed = ui.listed
<1>1. PICK n \in Int : n = ui.request + 1 /\ Forms(s)!Bumped(ui) = [ui EXCEPT !.request = n]
  BY BumpedForm DEF FormInv
<1>2. ASSUME NEW who, NEW cep, NEW address, address.own, ui' = Forms(s)!Opened(who, cep, address),
             db' = db, net' = net
      PROVE  Kept
  <2>1. PICK form : form = ui.form + 1
    OBVIOUS
  <2>2. ui' = [ui EXCEPT !.request = n, !.open = TRUE, !.form = form, !.who = who, !.cep = cep,
                         !.address = address, !.hand = 0]
    BY <1>1, <1>2, <2>1 DEF Forms!Opened, FormInv, FormShape
  <2>3. FormShape(s)' /\ ui'.request = ui.request + 1 /\ ui'.address = address /\ ui'.listed = ui.listed
    BY <1>1, <1>2, <2>2 DEF FormInv, FormShape
  <2> QED BY <1>2, <2>3, NumberTaken DEF FormInv
<1>3. ASSUME Forms(s)!SyncUser PROVE Kept
  <2>1. s = "account" /\ 1 \in People[s] /\ ~ui.open
    BY <1>3, UserAssumption DEF Forms!SyncUser
  <2>2. ui' = [ui EXCEPT !.open = TRUE, !.who = 1, !.cep = db[1].cep, !.address = db[1].address]
    BY <1>3 DEF Forms!SyncUser
  <2>3. FormShape(s)' /\ ui'.request = ui.request /\ ui'.open /\ ui'.address.own /\ ui'.listed = ui.listed
    BY <1>3, <2>1, <2>2 DEF FormInv, FormShape, OwnAddresses, Forms!SyncUser
  <2> QED BY <1>3, <2>1, <2>3, NumberKept DEF FormInv, Forms!SyncUser
<1>4. ASSUME Forms(s)!OpenCreate PROVE Kept
  BY <1>2, <1>4 DEF Forms!OpenCreate, Forms!Blank
<1>5. ASSUME Forms(s)!CloseForm PROVE Kept
  <2>0. PICK a : a = Forms(s)!Blank /\ a.own
    <3>1. Forms(s)!Blank.own
      BY DEF Forms!Blank
    <3> QED BY <3>1
  <2>1. /\ ui' = [ui EXCEPT !.request = n, !.open = FALSE, !.who = 0, !.cep = 0, !.address = a, !.hand = 0]
        /\ db' = db
    BY <1>1, <1>5, <2>0 DEF Forms!CloseForm, Forms!Closed, FormInv, FormShape
  <2>2. FormShape(s)' /\ ui'.request = ui.request + 1 /\ ui'.address.own /\ ui'.listed = ui.listed
    BY <1>1, <2>0, <2>1 DEF FormInv, FormShape
  <2> QED BY <1>5, <2>2, NumberTaken DEF FormInv, Forms!CloseForm
<1>6. ASSUME NEW o \in ui.listed, Forms(s)!OpenEdit(o) PROVE Kept
  <2>1. o.address.own /\ ui' = Forms(s)!Opened(o.who, o.cep, o.address) /\ db' = db /\ net' = net
    BY <1>6 DEF Forms!OpenEdit, FormInv, OwnListed
  <2> QED BY <1>2, <2>1
<1> HIDE DEF Kept
<1>7. Kept
  BY <1>3, <1>4, <1>5, <1>6
<1> QED BY <1>7, FormPageStep DEF Kept, FormInv, OwnListed

\* What is typed silences the lookups before it; what is saved is on screen.
LEMMA FillingSteps ==
  ASSUME NEW s \in NumberedScreens, FormInv(s),
         Forms(s)!TypeAddress \/ Forms(s)!Submit \/ \E c \in Ceps[s] \cup {0} : Forms(s)!TypeCep(c)
  PROVE  FormInv(s)'
<1>1. PICK n \in Int : n = ui.request + 1 /\ Forms(s)!Bumped(ui) = [ui EXCEPT !.request = n]
  BY BumpedForm DEF FormInv
<1>2. CASE Forms(s)!TypeAddress
  <2>1. PICK hand : hand = ui.hand + 1
    OBVIOUS
  <2>2. ui' = [ui EXCEPT !.request = n, !.address = Forms(s)!Typed, !.hand = hand]
    BY <1>1, <1>2, <2>1 DEF Forms!TypeAddress, FormInv, FormShape
  <2>3. FormShape(s)' /\ ui'.request = ui.request + 1 /\ ui'.address.own /\ ui'.listed = ui.listed
    BY <1>1, <1>2, <2>2 DEF FormInv, FormShape, Forms!Typed, Forms!TypeAddress
  <2> QED BY <1>2, <2>3, NumberTaken, FormPageStep DEF FormInv, OwnListed, Forms!TypeAddress
<1>3. CASE Forms(s)!Submit
  <2>1. PICK m : m = [kind |-> "save", who |-> ui.who, cep |-> ui.cep, address |-> ui.address]
    OBVIOUS
  <2>2. m.kind = "save" /\ m.address = ui.address
    BY <2>1
  <2>3. ui' = [ui EXCEPT !.request = n, !.pending = TRUE] /\ net' = net \cup {m} /\ db' = db
    BY <1>1, <1>3, <2>1 DEF Forms!Submit
  <2>4. FormShape(s)' /\ ui'.request = ui.request + 1 /\ ui'.address = ui.address /\ ui'.listed = ui.listed
    BY <1>1, <2>3 DEF FormInv, FormShape
  <2>5. LookupsAsked'
    BY <2>2, <2>3, <2>4, NumberTaken DEF FormInv
  <2> QED BY <2>2, <2>3, <2>4, <2>5, FormPageStep DEF FormInv, OwnAddresses, OwnListed
<1>4. ASSUME NEW c \in Ceps[s] \cup {0}, Forms(s)!TypeCep(c)
      PROVE  FormInv(s)'
  <2>1. PICK m : m = [kind |-> "lookup", request |-> n, cep |-> c, form |-> ui.form, hand |-> ui.hand]
    OBVIOUS
  <2>2. m.kind = "lookup" /\ m.request = n /\ m.cep = c /\ m.form = ui.form /\ m.hand = ui.hand
    BY <2>1
  <2>3. ui' = [ui EXCEPT !.request = n, !.cep = c] /\ db' = db /\ ui.open
    BY <1>1, <1>4 DEF Forms!TypeCep, Forms!Editable, FormInv, FormShape
  <2>4. net' \subseteq net \cup {m}
    <3>1. Forms(s)!Bumped(ui).request = n
      BY <1>1 DEF FormInv, FormShape
    <3> QED BY <1>4, <2>1, <3>1 DEF Forms!TypeCep
  <2>5. /\ FormShape(s)' /\ ui'.request = n /\ ui'.cep = c /\ ui'.address = ui.address
        /\ ui'.form = ui.form /\ ui'.hand = ui.hand /\ ui'.open /\ ui'.listed = ui.listed
    BY <1>1, <2>3 DEF FormInv, FormShape
  <2>6. LookupsAsked'
    BY <1>1, <2>2, <2>4, <2>5 DEF FormInv, FormShape, LookupsAsked
  <2> QED BY <2>2, <2>3, <2>4, <2>5, <2>6, FormPageStep DEF FormInv, OwnAddresses, OwnListed
<1> QED BY <1>2, <1>3, <1>4

\* A lookup that is heard was asked of the form as it is.
LEMMA LookupSteps ==
  ASSUME NEW s \in NumberedScreens, FormInv(s), NEW m \in net, Forms(s)!LookupArrives(m) \/ Forms(s)!LookupFails(m)
  PROVE  FormInv(s)'
<1>1. net' = net \ {m} /\ db' = db
  BY DEF Forms!LookupArrives, Forms!LookupFails
<1>2. CASE ui' = ui
  <2>1. FormShape(s)' /\ LookupsAsked' /\ ui'.address.own
    BY <1>1, <1>2 DEF FormInv, FormShape, LookupsAsked, OwnAddresses
  <2> QED BY <1>1, <1>2, <2>1, FormPageStep DEF FormInv, OwnListed
<1>3. CASE ui' # ui
  <2>1. PICK own : own = (m.form = ui.form /\ m.hand = ui.hand /\ m.cep = ui.cep)
    OBVIOUS
  <2>2. PICK a : a = [by |-> "lookup", own |-> own]
    OBVIOUS
  <2>3. m.kind = "lookup" /\ m.request = ui.request /\ ui' = [ui EXCEPT !.address = a]
    BY <1>3, <2>1, <2>2
       DEF Forms!LookupArrives, Forms!LookupFails, Forms!Heard, Forms!Numbered, NumberedScreens
  <2>4. a.own
    <3>1. m.form = ui.form /\ m.hand = ui.hand /\ m.cep = ui.cep
      BY <2>3 DEF FormInv, LookupsAsked
    <3>2. own
      BY <2>1, <3>1
    <3> QED BY <2>2, <3>2
  <2>5. FormShape(s)' /\ ui'.address = a /\ ui'.request = ui.request /\ ui'.open = ui.open /\ ui'.form = ui.form
        /\ ui'.hand = ui.hand /\ ui'.cep = ui.cep /\ ui'.listed = ui.listed
    BY <1>1, <2>3 DEF FormInv, FormShape
  <2>6. LookupsAsked'
    BY <1>1, <2>5, NumberKept DEF FormInv
  <2> QED BY <1>1, <2>4, <2>5, <2>6, FormPageStep DEF FormInv, OwnListed
<1> QED BY <1>2, <1>3

\* Answers and failures of the other requests: the form stays, or closes.
LEMMA FormAnswers ==
  ASSUME NEW s \in NumberedScreens, FormInv(s),
         \/ \E o \in ui.listed : Forms(s)!Unlink(o)
         \/ \E m \in net : \/ Forms(s)!SavedArrives(m) \/ Forms(s)!RequestFails(m) \/ Forms(s)!ListArrives(m)
                           \/ Forms(s)!ListFails(m) \/ Forms(s)!UnlinkedArrives(m)
  PROVE  FormInv(s)'
<1> DEFINE Quiet == db' = db /\ \A m \in net' : m \in net \/ m.kind \in {"list", "unlink"}
<1>1. PICK n \in Int : n = ui.request + 1 /\ Forms(s)!Bumped(ui) = [ui EXCEPT !.request = n]
  BY BumpedForm DEF FormInv
<1>2. ASSUME Quiet, NEW pending, NEW loading, NEW listed, \A o \in listed : o.address.own,
             \/ ui' = [ui EXCEPT !.pending = pending, !.loading = loading, !.listed = listed]
             \/ ui' = [ui EXCEPT !.pending = pending, !.open = TRUE]
             \/ ui' = ui
      PROVE  FormInv(s)'
  <2>1. /\ FormShape(s)' /\ ui'.address = ui.address /\ ui'.request = ui.request /\ (ui.open => ui'.open)
        /\ ui'.form = ui.form /\ ui'.hand = ui.hand /\ ui'.cep = ui.cep
        /\ ui'.listed \in {listed, ui.listed}
    BY <1>2 DEF FormInv, FormShape
  <2>2. LookupsAsked'
    BY <1>2, <2>1, NumberKept DEF FormInv
  <2> QED BY <1>2, <2>1, <2>2, FormPageStep DEF FormInv, OwnAddresses, OwnListed
<1>3. ASSUME Quiet, NEW pending, NEW listed, \A o \in listed : o.address.own,
             ui' = [ui EXCEPT !.request = n, !.open = FALSE, !.who = 0, !.cep = 0, !.address = Forms(s)!Blank,
                              !.hand = 0, !.pending = pending, !.listed = listed]
      PROVE  FormInv(s)'
  <2>1. FormShape(s)' /\ ui'.request = ui.request + 1 /\ ui'.address.own /\ ui'.listed = listed
    BY <1>1, <1>3 DEF FormInv, FormShape, Forms!Blank
  <2>2. LookupsAsked'
    BY <1>3, <2>1, NumberTaken DEF FormInv
  <2> QED BY <1>3, <2>1, <2>2, FormPageStep
<1>4. ASSUME NEW m \in net, Forms(s)!SavedArrives(m)
      PROVE  FormInv(s)'
  <2>1. Quiet
    BY <1>4 DEF Forms!SavedArrives
  <2>2. CASE s = "team"
    <3>1. PICK listed : listed = Forms(s)!Taken(m)
      OBVIOUS
    <3>3. \A o \in listed : o.address.own
      BY <1>4, <3>1 DEF Forms!Taken, Forms!SavedArrives, FormInv, OwnListed, OwnRow
    <3>2. ui' = [ui EXCEPT !.request = n, !.open = FALSE, !.who = 0, !.cep = 0, !.address = Forms(s)!Blank,
                           !.hand = 0, !.pending = FALSE, !.listed = listed]
      BY <1>1, <1>4, <2>2, <3>1 DEF Forms!SavedArrives, Forms!Closed, FormInv, FormShape
    <3> HIDE DEF Quiet
    <3> QED BY <1>3, <2>1, <3>2, <3>3
  <2>3. CASE s # "team"
    <3>1. ui' = [ui EXCEPT !.pending = FALSE, !.open = TRUE]
      BY <1>4, <2>3 DEF Forms!SavedArrives, Forms!Numbered, NumberedScreens
    <3> HIDE DEF Quiet
    <3> QED BY <1>2, <2>1, <3>1 DEF FormInv, OwnListed
  <2> QED BY <2>2, <2>3
<1>5. ASSUME NEW m \in net, Forms(s)!RequestFails(m)
      PROVE  FormInv(s)'
  <2>1. Quiet /\ ui' = [ui EXCEPT !.pending = FALSE, !.loading = ui.loading, !.listed = ui.listed]
    BY <1>5 DEF Forms!RequestFails, FormInv, FormShape
  <2> HIDE DEF Quiet
  <2> QED BY <1>2, <2>1 DEF FormInv, OwnListed
<1>6. ASSUME NEW m \in net, Forms(s)!ListArrives(m)
      PROVE  FormInv(s)'
  <2>1. Quiet /\ ui' = [ui EXCEPT !.pending = ui.pending, !.loading = FALSE, !.listed = m.people]
    BY <1>6 DEF Forms!ListArrives, FormInv, FormShape
  <2>2. \A o \in m.people : o.address.own
    BY <1>6 DEF Forms!ListArrives, FormInv, OwnListed, OwnRow
  <2> HIDE DEF Quiet
  <2> QED BY <1>2, <2>1, <2>2
<1>7. ASSUME NEW m \in net, Forms(s)!ListFails(m)
      PROVE  FormInv(s)'
  <2>0. PICK l : l = [kind |-> "list", people |-> {}]
    OBVIOUS
  <2>1. Quiet /\ ui' = ui
    <3>1. l.kind = "list"
      BY <2>0
    <3>2. Quiet /\ ui' = ui
      BY <1>7, <2>0, <3>1 DEF Forms!ListFails
    <3> QED BY <3>2
  <2> HIDE DEF Quiet
  <2> QED BY <1>2, <2>1 DEF FormInv, OwnListed
<1>8. ASSUME NEW o \in ui.listed, Forms(s)!Unlink(o)
      PROVE  FormInv(s)'
  <2>0. PICK u : u = [kind |-> "unlink", who |-> o.who]
    OBVIOUS
  <2>1. Quiet /\ ui' = [ui EXCEPT !.pending = TRUE, !.loading = ui.loading, !.listed = ui.listed]
    <3>1. u.kind = "unlink"
      BY <2>0
    <3>2. Quiet /\ ui' = [ui EXCEPT !.pending = TRUE]
      BY <1>8, <2>0, <3>1 DEF Forms!Unlink
    <3>3. ui' = [ui EXCEPT !.pending = TRUE, !.loading = ui.loading, !.listed = ui.listed]
      BY <3>2 DEF FormInv, FormShape
    <3> HIDE DEF Quiet
    <3> QED BY <3>2, <3>3
  <2> HIDE DEF Quiet
  <2> QED BY <1>2, <2>1 DEF FormInv, OwnListed
<1>9. ASSUME NEW m \in net, Forms(s)!UnlinkedArrives(m)
      PROVE  FormInv(s)'
  <2>1. Quiet
    BY <1>9 DEF Forms!UnlinkedArrives
  <2>2. PICK listed : listed = {o \in ui.listed : o.who # m.who}
    OBVIOUS
  <2>0. \A o \in listed : o.address.own
    BY <2>2 DEF FormInv, OwnListed
  <2>3. CASE ui.who = m.who
    <3>1. ui' = [ui EXCEPT !.request = n, !.open = FALSE, !.who = 0, !.cep = 0, !.address = Forms(s)!Blank,
                           !.hand = 0, !.pending = FALSE, !.listed = listed]
      BY <1>1, <1>9, <2>2, <2>3 DEF Forms!UnlinkedArrives, Forms!Closed, FormInv, FormShape
    <3> HIDE DEF Quiet
    <3> QED BY <1>3, <2>0, <2>1, <3>1
  <2>4. CASE ui.who # m.who
    <3>1. ui' = [ui EXCEPT !.pending = FALSE, !.loading = ui.loading, !.listed = listed]
      BY <1>9, <2>2, <2>4 DEF Forms!UnlinkedArrives, FormInv, FormShape
    <3> HIDE DEF Quiet
    <3> QED BY <1>2, <2>0, <2>1, <3>1
  <2> QED BY <2>3, <2>4
<1> QED BY <1>4, <1>5, <1>6, <1>7, <1>8, <1>9

\* The server keeps what was sent.
LEMMA ServeFormSteps ==
  ASSUME NEW s \in NumberedScreens, FormInv(s), NEW m \in net,
         Forms(s)!ServeList(m) \/ Forms(s)!ServeUnlink(m) \/ \E p \in People[s] : Forms(s)!ServeSave(m, p)
  PROVE  FormInv(s)'
<1>1. ui' = ui /\ \A k \in net' : k \in net \/ k.kind \in {"listed", "saved", "unlinked"}
  BY DEF Forms!ServeList, Forms!ServeUnlink, Forms!ServeSave, Forms!Answered
<1>2. LookupsAsked' /\ OwnSaved'
  BY <1>1 DEF FormInv, LookupsAsked, OwnSaved
<1>4. OwnListed'
  <2>1. CASE Forms(s)!ServeList(m)
    <3>1. PICK l : l = [kind |-> "listed",
                        people |-> {Forms(s)!Row(p, db[p].cep, db[p].address) : p \in {q \in People[s] : db[q].here}}]
      OBVIOUS
    <3>2. OwnRow(l)
      <4>1. \A p \in People[s] : Forms(s)!Row(p, db[p].cep, db[p].address).address.own
        BY DEF FormInv, OwnAddresses, Forms!Row
      <4> QED BY <3>1, <4>1 DEF OwnRow
    <3>3. net' = (net \ {m}) \cup {l}
      BY <2>1, <3>1 DEF Forms!ServeList, Forms!Answered
    <3> QED BY <1>1, <3>2, <3>3 DEF FormInv, OwnListed
  <2>2. CASE Forms(s)!ServeUnlink(m)
    <3>1. PICK a : a = [kind |-> "unlinked", who |-> m.who]
      OBVIOUS
    <3>2. OwnRow(a) /\ net' = (net \ {m}) \cup {a}
      BY <2>2, <3>1 DEF OwnRow, Forms!ServeUnlink, Forms!Answered
    <3> QED BY <1>1, <3>2 DEF FormInv, OwnListed
  <2>3. ASSUME NEW p \in People[s], Forms(s)!ServeSave(m, p)
        PROVE  OwnListed'
    <3>1. PICK created, row : created = (m.who = 0) /\ row = Forms(s)!Row(p, m.cep, m.address)
      OBVIOUS
    <3>2. row.address.own
      BY <2>3, <3>1 DEF Forms!Row, Forms!ServeSave, FormInv, OwnSaved
    <3>3. PICK a : a = [kind |-> "saved", created |-> created, row |-> row]
      OBVIOUS
    <3>4. OwnRow(a)
      BY <3>2, <3>3 DEF OwnRow
    <3>5. net' = (net \ {m}) \cup {a}
      BY <2>3, <3>1, <3>3 DEF Forms!ServeSave, Forms!Answered
    <3> QED BY <1>1, <3>4, <3>5 DEF FormInv, OwnListed
  <2> QED BY <2>1, <2>2, <2>3
<1>3. FormShape(s)' /\ OwnAddresses(s)'
  <2>1. CASE Forms(s)!ServeList(m)
    BY <1>1, <2>1 DEF Forms!ServeList, FormInv, FormShape, OwnAddresses
  <2>2. CASE Forms(s)!ServeUnlink(m)
    BY <1>1, <2>2 DEF Forms!ServeUnlink, FormInv, FormShape, OwnAddresses
  <2>3. ASSUME NEW p \in People[s], Forms(s)!ServeSave(m, p)
        PROVE  FormShape(s)' /\ OwnAddresses(s)'
    <3>1. PICK row : row = [here |-> TRUE, cep |-> m.cep, address |-> m.address]
      OBVIOUS
    <3>2. DOMAIN row = {"here", "cep", "address"} /\ row.address.own
      BY <2>3, <3>1 DEF Forms!ServeSave, FormInv, OwnSaved
    <3>3. db' = [db EXCEPT ![p] = row]
      BY <2>3, <3>1 DEF Forms!ServeSave
    <3> QED BY <1>1, <3>2, <3>3 DEF FormInv, FormShape, OwnAddresses
  <2> QED BY <2>1, <2>2, <2>3
<1> QED BY <1>2, <1>3, <1>4 DEF FormInv

\* Nothing is looked up at first.
LEMMA FormStart ==
  ASSUME NEW s \in NumberedScreens, Forms(s)!Init
  PROVE  FormInv(s)
<1>1. FormShape(s) /\ OwnAddresses(s)
  BY DEF Forms!Init, Forms!Typed, Forms!Blank, FormShape, OwnAddresses
<1>2. LookupsAsked /\ OwnSaved /\ OwnListed
  BY DEF Forms!Init, LookupsAsked, OwnSaved, OwnListed, OwnRow
<1> QED BY <1>1, <1>2 DEF FormInv

\* Every step keeps the invariant.
LEMMA FormNext ==
  ASSUME NEW s \in NumberedScreens, FormInv(s), Forms(s)!Next \/ UNCHANGED <<ui, db, net>>
  PROVE  FormInv(s)'
<1>1. CASE UNCHANGED <<ui, db, net>>
  BY <1>1 DEF FormInv, FormShape, LookupsAsked, OwnSaved, OwnAddresses, OwnListed, OwnRow
<1>2. CASE Forms(s)!Next
  BY <1>2, OpeningSteps, FillingSteps, LookupSteps, FormAnswers, ServeFormSteps DEF Forms!Next
<1> QED BY <1>1, <1>2

-----------------------------------------------------------------------------
(***************************************************************************)
(* The licence.  A form is only shown without a row to edit once its file  *)
(* was recognised, and then it says what that file says.                   *)
(***************************************************************************)
Flag == {TRUE, FALSE}

PaperRow ==
  {r \in [id : Int, says : Int, photo : Int, status : {"pending", "approved", "rejected"},
          auto : Flag, edited : Flag] :
     ~r.edited /\ r.says # 0 => r.photo = r.says}

PaperPage ==
  /\ DOMAIN ui = {"page", "kind", "list", "fresh", "target", "file", "attached", "result", "replaced", "form",
                  "cleared", "saving", "open", "deciding"}
  /\ DOMAIN ui.form = {"says", "filled"}
  /\ ui.kind = "cnh" /\ ui.page \in {"documents", "cnh"}
  /\ ui.file \in Int /\ ui.form.says \in Int /\ ui.list \in Seq(PaperRow)

PaperTable == DOMAIN db = {"rows", "created"} /\ db.rows \in Seq(PaperRow) /\ db.created \in Int

Recognised == ui.result = "valid" => ui.replaced /\ ui.form.says = ui.file

ChecksOfPage ==
  \A m \in net : m.kind = "check" => ui.page = "cnh" /\ m.file \in Int /\ (m.file = ui.attached => m.file = ui.file)

PapersSent ==
  \A m \in net :
    /\ "kind" \in DOMAIN m
    /\ m.kind \in {"upload", "save"} =>
         /\ DOMAIN m = {"kind", "id", "says", "photo", "left"} /\ m.says \in Int /\ m.photo \in Int
         /\ m.id = 0 /\ m.says # 0 => m.photo = m.says
    /\ m.kind = "verdict" => "status" \in DOMAIN m /\ m.status \in {"approved", "rejected"}

PaperInv == PaperPage /\ PaperTable /\ Recognised /\ ChecksOfPage /\ PapersSent

\* A blank row is one.
LEMMA BlankRow == Papers("licences")!NoRow \in PaperRow
<1>1. PICK no \in Flag : no = FALSE
  BY DEF Flag
<1>2. Papers("licences")!NoRow =
        [id |-> 0, says |-> 0, photo |-> 0, status |-> "pending", auto |-> no, edited |-> no]
  BY <1>1 DEF Papers!NoRow
<1> QED BY <1>2 DEF PaperRow

\* A row is found where it is.
LEMMA PlaceOfRow ==
  ASSUME NEW rows, NEW id
  PROVE  LET i == Papers("licences")!Place(rows, id) IN i = 0 \/ (i \in DOMAIN rows /\ rows[i].id = id)
BY DEF Papers!Place

\* The row a page edits is a row of its list, or a blank one.
LEMMA ExistingRow ==
  ASSUME NEW page, NEW list \in Seq(PaperRow), NEW target
  PROVE  Papers("licences")!ExistingIn(page, list, target) \in PaperRow
<1> DEFINE e == Papers("licences")!ExistingIn(page, list, target)
<1>1. CASE page = "cnh" /\ list # <<>>
  <2>1. Head(list) \in PaperRow
    BY <1>1
  <2> QED BY <1>1, <2>1 DEF Papers!ExistingIn
<1>2. CASE page = "certification" /\ Papers("licences")!Place(list, target) # 0
  <2>1. list[Papers("licences")!Place(list, target)] \in PaperRow
    BY <1>2, PlaceOfRow
  <2> QED BY <1>2, <2>1 DEF Papers!ExistingIn
<1>3. CASE ~(page = "cnh" /\ list # <<>>) /\ ~(page = "certification" /\ Papers("licences")!Place(list, target) # 0)
  <2>1. e = Papers("licences")!NoRow
    BY <1>3 DEF Papers!ExistingIn
  <2> QED BY <2>1, BlankRow
<1> QED BY <1>1, <1>2, <1>3

\* The form after its page read the list.
LEMMA RefilledForm ==
  ASSUME NEW page, NEW row \in PaperRow, NEW replaced, NEW form, DOMAIN form = {"says", "filled"}, form.says \in Int
  PROVE  LET f == Papers("licences")!Refill(page, row, replaced, form)
         IN  DOMAIN f = {"says", "filled"} /\ f.says \in Int /\ (replaced => f = form)
<1>1. PICK filled : filled = IF page = "cnh" THEN {"person", "licence"} ELSE {"certificate"}
  OBVIOUS
<1>2. PICK g : g = [says |-> row.says, filled |-> filled]
  OBVIOUS
<1>3. DOMAIN g = {"says", "filled"} /\ g.says \in Int
  BY <1>2 DEF PaperRow
<1> QED BY <1>1, <1>2, <1>3 DEF Papers!Refill

\* A step of the page that sends nothing to be saved.
LEMMA PaperPageStep ==
  ASSUME PaperInv, PaperPage', Recognised', ChecksOfPage', db' = db,
         \A m \in net' : m \in net \/ ("kind" \in DOMAIN m /\ m.kind \notin {"upload", "save", "verdict"})
  PROVE  PaperInv'
BY DEF PaperInv, PaperTable, PapersSent

\* The list is read, or grows old.
LEMMA ListSteps ==
  ASSUME PaperInv, Papers("licences")!Lists \/ Papers("licences")!GrowsStale
  PROVE  PaperInv'
<1>1. PICK form, list, fresh :
         /\ ui' = [ui EXCEPT !.list = list, !.fresh = fresh, !.form = form]
         /\ list \in Seq(PaperRow) /\ DOMAIN form = {"says", "filled"} /\ form.says \in Int
         /\ ui.replaced => form = ui.form
  <2>1. CASE Papers("licences")!GrowsStale
    <3>1. ui' = [ui EXCEPT !.list = ui.list, !.fresh = FALSE, !.form = ui.form]
      BY <2>1 DEF Papers!GrowsStale, PaperInv, PaperPage
    <3> QED BY <3>1 DEF PaperInv, PaperPage
  <2>2. CASE Papers("licences")!Lists
    <3> DEFINE f == Papers("licences")!Refill(ui.page, Papers("licences")!ExistingIn(ui.page, db.rows, ui.target),
                                              ui.replaced, ui.form)
    <3>1. DOMAIN f = {"says", "filled"} /\ f.says \in Int /\ (ui.replaced => f = ui.form)
      <4>1. Papers("licences")!ExistingIn(ui.page, db.rows, ui.target) \in PaperRow
        BY ExistingRow DEF PaperInv, PaperTable
      <4>2. DOMAIN ui.form = {"says", "filled"} /\ ui.form.says \in Int
        BY DEF PaperInv, PaperPage
      <4> QED BY <4>1, <4>2, RefilledForm
    <3>2. PICK form : form = IF ui.list = db.rows THEN ui.form ELSE f
      OBVIOUS
    <3>3. ui' = [ui EXCEPT !.list = db.rows, !.fresh = TRUE, !.form = form]
      BY <2>2, <3>2 DEF Papers!Lists, PaperInv, PaperPage
    <3> HIDE DEF f
    <3> QED BY <3>1, <3>2, <3>3 DEF PaperInv, PaperPage, PaperTable
  <2> QED BY <2>1, <2>2
<1>2. net' = net /\ db' = db
  BY DEF Papers!Lists, Papers!GrowsStale
<1>3. PaperPage' /\ Recognised' /\ ChecksOfPage'
  BY <1>1, <1>2 DEF PaperInv, PaperPage, Recognised, ChecksOfPage
<1> QED BY <1>2, <1>3, PaperPageStep

\* A page is entered with no file and no result.
LEMMA OpenPageStep ==
  ASSUME PaperInv, NEW id, Papers("licences")!OpenPage(id)
  PROVE  PaperInv'
<1> DEFINE f == Papers("licences")!Refill(ui.kind, Papers("licences")!ExistingIn(ui.kind, ui.list, id), FALSE,
                                          Papers("licences")!Blank)
<1>1. DOMAIN f = {"says", "filled"} /\ f.says \in Int
  <2>1. DOMAIN Papers("licences")!Blank = {"says", "filled"} /\ Papers("licences")!Blank.says \in Int
    BY DEF Papers!Blank
  <2>2. PICK e \in PaperRow : e = Papers("licences")!ExistingIn(ui.kind, ui.list, id)
    BY ExistingRow DEF PaperInv, PaperPage
  <2>3. PICK b : b = Papers("licences")!Blank
    OBVIOUS
  <2>4. PICK no \in Flag : no = FALSE
    BY DEF Flag
  <2>5. DOMAIN b = {"says", "filled"} /\ b.says \in Int
    BY <2>1, <2>3
  <2>6. f = Papers("licences")!Refill(ui.kind, e, no, b)
    BY <2>2, <2>3, <2>4
  <2> HIDE DEF f
  <2> QED BY <2>2, <2>5, <2>6, RefilledForm
<1>2. PICK form : form = f
  OBVIOUS
<1>3. ui' = [ui EXCEPT !.page = ui.kind, !.target = id, !.file = 0, !.result = "none",
                       !.replaced = FALSE, !.cleared = FALSE, !.form = form]
  BY <1>2 DEF Papers!OpenPage
<1>4. net' = net /\ db' = db /\ ui.page = "documents"
  BY DEF Papers!OpenPage
<1> HIDE DEF f
<1>5. \A m \in net : m.kind # "check"
  BY <1>4 DEF PaperInv, ChecksOfPage
<1>6. PaperPage' /\ Recognised' /\ ChecksOfPage'
  BY <1>1, <1>2, <1>3, <1>4, <1>5 DEF PaperInv, PaperPage, Recognised, ChecksOfPage
<1> QED BY <1>4, <1>6, PaperPageStep

\* A page that is left hears of no check.
LEMMA LeftPage ==
  ASSUME PaperInv, NEW S, S \subseteq net, net' = Papers("licences")!Left(S), db' = db, PaperPage', Recognised'
  PROVE  PaperInv'
<1>1. ASSUME NEW m \in net'
      PROVE  /\ "kind" \in DOMAIN m /\ m.kind # "check"
             /\ m.kind \in {"upload", "save"} =>
                  /\ DOMAIN m = {"kind", "id", "says", "photo", "left"} /\ m.says \in Int /\ m.photo \in Int
                  /\ m.id = 0 /\ m.says # 0 => m.photo = m.says
             /\ m.kind = "verdict" => "status" \in DOMAIN m /\ m.status \in {"approved", "rejected"}
  <2>1. PICK n \in net : n.kind # "check" /\ (m = n \/ m = [n EXCEPT !.left = TRUE])
    BY <1>1 DEF Papers!Left
  <2>2. "kind" \in DOMAIN n
    BY DEF PaperInv, PapersSent
  <2>3. DOMAIN m = DOMAIN n /\ \A x \in DOMAIN n : x # "left" => m[x] = n[x]
    BY <2>1
  <2>4. m.kind = n.kind
    BY <2>2, <2>3
  <2> QED BY <2>1, <2>2, <2>3, <2>4 DEF PaperInv, PapersSent
<1> QED BY <1>1 DEF PaperInv, PaperTable, PapersSent, ChecksOfPage

\* The page is left, by its owner or by the answer of a save.
LEMMA LeavingSteps ==
  ASSUME PaperInv, Papers("licences")!ClosePage \/ \E m \in net : Papers("licences")!Saved(m)
  PROVE  PaperInv'
<1>1. PICK fresh, saving : ui' = [ui EXCEPT !.fresh = fresh, !.saving = saving, !.page = "documents"]
  <2>1. CASE Papers("licences")!ClosePage
    <3>1. ui' = [ui EXCEPT !.fresh = ui.fresh, !.saving = FALSE, !.page = "documents"]
      BY <2>1 DEF Papers!ClosePage, PaperInv, PaperPage
    <3> QED BY <3>1
  <2>2. ASSUME NEW m \in net, Papers("licences")!Saved(m)
        PROVE  ui' = [ui EXCEPT !.fresh = FALSE, !.saving = FALSE, !.page = "documents"]
    BY <2>2 DEF Papers!Saved
  <2> QED BY <2>1, <2>2
<1>2. PaperPage' /\ Recognised'
  BY <1>1 DEF PaperInv, PaperPage, Recognised
<1>3. db' = db /\ \E S \in SUBSET net : net' = Papers("licences")!Left(S)
  BY DEF Papers!ClosePage, Papers!Saved
<1> QED BY <1>2, <1>3, LeftPage

\* A file is attached, and what is in it read: only the last one counts.
LEMMA FileSteps ==
  ASSUME PaperInv,
         Papers("licences")!Attach \/ \E m \in net : Papers("licences")!Checked(m) \/ Papers("licences")!CheckFails(m)
  PROVE  PaperInv'
<1>1. CASE Papers("licences")!Attach
  <2>1. PICK n \in Int : /\ ui' = [ui EXCEPT !.file = n, !.attached = n, !.result = "none"] /\ db' = db
                         /\ ui.page = "cnh" /\ net' \subseteq net \cup {[kind |-> "check", file |-> n]}
    <3>1. PICK n \in Papers("licences")!Chosen :
            /\ ui.page # "documents" /\ ui' = [ui EXCEPT !.file = n, !.attached = n, !.result = "none"] /\ db' = db
            /\ net' = IF ui.page = "cnh" THEN net \cup {[kind |-> "check", file |-> n]} ELSE net
      BY <1>1 DEF Papers!Attach
    <3>2. n \in Int
      BY <3>1 DEF Papers!Chosen
    <3>3. ui.page = "cnh"
      BY <3>1 DEF PaperInv, PaperPage
    <3> QED BY <3>1, <3>2, <3>3
  <2>2. PICK c : c = [kind |-> "check", file |-> n]
    OBVIOUS
  <2>3. "kind" \in DOMAIN c /\ c.kind = "check" /\ c.file = n
    BY <2>2
  <2>4. PaperPage' /\ Recognised'
    BY <2>1 DEF PaperInv, PaperPage, Recognised
  <2>5. ui'.page = "cnh" /\ ui'.file = n /\ ui'.attached = n
    BY <2>1 DEF PaperInv, PaperPage
  <2>6. ChecksOfPage'
    BY <2>1, <2>2, <2>3, <2>5 DEF PaperInv, ChecksOfPage
  <2> QED BY <2>1, <2>2, <2>3, <2>4, <2>6, PaperPageStep
<1>2. ASSUME NEW m \in net, Papers("licences")!Checked(m)
      PROVE  PaperInv'
  <2>1. net' = net \ {m} /\ db' = db /\ m.kind = "check"
    BY <1>2 DEF Papers!Checked
  <2>2. CASE ui' = ui
    BY <2>1, <2>2, PaperPageStep DEF PaperInv, PaperPage, Recognised, ChecksOfPage
  <2>3. CASE ui' # ui
    <3>1. PICK result, filled : /\ m.file = ui.attached
                                /\ ui' = [ui EXCEPT !.result = result, !.replaced = TRUE,
                                                    !.form = [says |-> m.file, filled |-> filled]]
      <4>1. Papers("licences")!Latest(m.file)
        BY <1>2, <2>3 DEF Papers!Checked
      <4>2. PICK valid \in BOOLEAN, filled \in SUBSET {"person"} :
              ui' = [ui EXCEPT !.result = IF valid THEN "valid" ELSE "invalid", !.replaced = TRUE,
                               !.form = Papers("licences")!Extracted(m.file, filled)]
        BY <1>2, <4>1 DEF Papers!Checked
      <4>3. PICK result : result = IF valid THEN "valid" ELSE "invalid"
        OBVIOUS
      <4> QED BY <4>1, <4>2, <4>3 DEF Papers!Latest, Papers!Extracted
    <3>2. m.file \in Int /\ m.file = ui.file
      BY <2>1, <3>1 DEF PaperInv, ChecksOfPage
    <3>3. PICK form : form = [says |-> m.file, filled |-> filled]
      OBVIOUS
    <3>4. DOMAIN form = {"says", "filled"} /\ form.says = m.file
      BY <3>3
    <3>5. /\ DOMAIN ui' = DOMAIN ui /\ ui'.form = form /\ ui'.replaced
          /\ \A x \in DOMAIN ui : x \notin {"result", "replaced", "form"} => ui'[x] = ui[x]
      BY <3>1, <3>3 DEF PaperInv, PaperPage
    <3>6. PaperPage' /\ Recognised'
      BY <3>2, <3>4, <3>5 DEF PaperInv, PaperPage, Recognised
    <3>7. ChecksOfPage'
      BY <2>1, <3>5 DEF PaperInv, PaperPage, ChecksOfPage
    <3> QED BY <2>1, <3>6, <3>7, PaperPageStep
  <2> QED BY <2>2, <2>3
<1>3. ASSUME NEW m \in net, Papers("licences")!CheckFails(m)
      PROVE  PaperInv'
  <2>1. net' = net \ {m} /\ db' = db /\ (ui' = ui \/ ui' = [ui EXCEPT !.result = "invalid"])
    BY <1>3 DEF Papers!CheckFails
  <2>2. PaperPage' /\ Recognised' /\ ChecksOfPage'
    BY <2>1 DEF PaperInv, PaperPage, Recognised, ChecksOfPage
  <2> QED BY <2>1, <2>2, PaperPageStep
<1> QED BY <1>1, <1>2, <1>3

\* The rest of the owner's page and the reviewer's dialog leave file, form and
\* result alone.
LEMMA OtherPaperSteps ==
  ASSUME PaperInv,
         \/ Papers("licences")!FillPerson \/ Papers("licences")!FillLicence \/ Papers("licences")!FillCertificate
         \/ Papers("licences")!RemoveMedia \/ Papers("licences")!CloseDetail
         \/ \E i : Papers("licences")!OpenDetail(i)
         \/ \E m \in net : \/ Papers("licences")!SaveFails(m) \/ Papers("licences")!Judged(m)
                           \/ Papers("licences")!VerdictFails(m)
  PROVE  PaperInv'
<1> DEFINE Same(fs) == DOMAIN ui' = DOMAIN ui /\ \A x \in DOMAIN ui : x \notin fs => ui'[x] = ui[x]
<1> DEFINE Quiet == /\ Same({"form", "cleared", "open", "deciding", "saving"}) /\ net' \subseteq net /\ db' = db
                    /\ DOMAIN ui'.form = DOMAIN ui.form /\ ui'.form.says = ui.form.says
<1>1. ASSUME NEW section, Papers("licences")!FillIn(section) PROVE Quiet
  <2>1. PICK filled : filled = ui.form.filled \cup {section}
    OBVIOUS
  <2>2. ui' = [ui EXCEPT !.form.filled = filled]
    BY <1>1, <2>1 DEF Papers!FillIn, PaperInv, PaperPage
  <2> QED BY <1>1, <2>2 DEF Papers!FillIn, PaperInv, PaperPage
<1>2. ASSUME Papers("licences")!RemoveMedia PROVE Quiet
  BY <1>2 DEF Papers!RemoveMedia, PaperInv, PaperPage
<1>3. ASSUME Papers("licences")!CloseDetail \/ \E i : Papers("licences")!OpenDetail(i) PROVE Quiet
  BY <1>3 DEF Papers!CloseDetail, Papers!OpenDetail, PaperInv, PaperPage
<1>4. ASSUME NEW m \in net, Papers("licences")!SaveFails(m) PROVE Quiet
  <2>1. PICK b : b = (ui.saving /\ m.left)
    OBVIOUS
  <2>2. ui' = [ui EXCEPT !.saving = b]
    BY <1>4, <2>1 DEF Papers!SaveFails, PaperInv, PaperPage
  <2> QED BY <1>4, <2>2 DEF Papers!SaveFails, PaperInv, PaperPage
<1>5. ASSUME NEW m \in net, Papers("licences")!Judged(m) \/ Papers("licences")!VerdictFails(m) PROVE Quiet
  BY <1>5 DEF Papers!Judged, Papers!VerdictFails, PaperInv, PaperPage
<1> HIDE DEF Quiet
<1>6. Quiet
  BY <1>1, <1>2, <1>3, <1>4, <1>5 DEF Papers!FillPerson, Papers!FillLicence, Papers!FillCertificate
<1>7. PaperPage' /\ Recognised' /\ ChecksOfPage'
  BY <1>6 DEF Quiet, PaperInv, PaperPage, Recognised, ChecksOfPage
<1> QED BY <1>6, <1>7, PaperPageStep DEF Quiet

\* What is sent without a row to replace was recognised.
LEMMA SendingSteps ==
  ASSUME PaperInv,
         \/ Papers("licences")!Submit
         \/ \E action \in {"approved", "rejected"}, note \in BOOLEAN : Papers("licences")!RunReview(action, note)
         \/ \E m \in net : Papers("licences")!Uploaded(m)
  PROVE  PaperInv'
<1> DEFINE Fits(m) == /\ "kind" \in DOMAIN m /\ m.kind # "check"
                      /\ m.kind \in {"upload", "save"} =>
                           /\ DOMAIN m = {"kind", "id", "says", "photo", "left"} /\ m.says \in Int /\ m.photo \in Int
                           /\ m.id = 0 /\ m.says # 0 => m.photo = m.says
                      /\ m.kind = "verdict" => "status" \in DOMAIN m /\ m.status \in {"approved", "rejected"}
<1>1. ASSUME NEW m, Fits(m), net' \subseteq net \cup {m}, db' = db, NEW saving, NEW deciding,
             ui' = [ui EXCEPT !.saving = saving, !.deciding = deciding] \/ ui' = ui
      PROVE  PaperInv'
  <2>1. PaperPage' /\ Recognised' /\ ChecksOfPage'
    BY <1>1, ZenonT(60) DEF PaperInv, PaperPage, Recognised, ChecksOfPage
  <2> QED BY <1>1, <2>1 DEF PaperInv, PaperTable, PapersSent
<1>2. CASE Papers("licences")!Submit
  <2> DEFINE e == Papers("licences")!Existing
  <2>1. e \in PaperRow
    BY ExistingRow DEF PaperInv, PaperPage, Papers!Existing
  <2>2. PICK m : m = Papers("licences")!Payload
    OBVIOUS
  <2>3. /\ DOMAIN m = {"kind", "id", "says", "photo", "left"} /\ m.kind \in {"upload", "save"}
        /\ m.id = e.id /\ m.says = ui.form.says /\ m.photo = Papers("licences")!Photo
    BY <2>2 DEF Papers!Payload
  <2>4. m.photo \in Int /\ (ui.file # 0 => m.photo = ui.file)
    BY <2>1, <2>3 DEF Papers!Photo, PaperInv, PaperPage, PaperRow
  <2>5. e.id = 0 => ui.form.says = ui.file
    <3>1. ui.page = "cnh" /\ (ui.result = "valid" \/ e.id # 0)
      BY <1>2 DEF Papers!Submit, Papers!FormShown, Papers!Editing, PaperInv, PaperPage
    <3> QED BY <3>1 DEF PaperInv, Recognised
  <2>6. Fits(m)
    <3> HIDE DEF e
    <3> QED BY <2>3, <2>4, <2>5 DEF PaperInv, PaperPage
  <2>7. ui' = [ui EXCEPT !.saving = TRUE, !.deciding = ui.deciding] /\ net' = net \cup {m} /\ db' = db
    BY <1>2, <2>2 DEF Papers!Submit, PaperInv, PaperPage
  <2> HIDE DEF Fits
  <2> QED BY <1>1, <2>6, <2>7
<1>3. ASSUME NEW action \in {"approved", "rejected"}, NEW note \in BOOLEAN, Papers("licences")!RunReview(action, note)
      PROVE  PaperInv'
  <2>1. PICK m : m = [kind |-> "verdict", id |-> ui.open, status |-> action]
    OBVIOUS
  <2>2. Fits(m)
    BY <2>1
  <2>3. ui' = [ui EXCEPT !.saving = ui.saving, !.deciding = TRUE] /\ net' = net \cup {m} /\ db' = db
    BY <1>3, <2>1 DEF Papers!RunReview, PaperInv, PaperPage
  <2> HIDE DEF Fits
  <2> QED BY <1>1, <2>2, <2>3
<1>4. ASSUME NEW m \in net, Papers("licences")!Uploaded(m)
      PROVE  PaperInv'
  <2>1. PICK a : a = [m EXCEPT !.kind = "save"]
    OBVIOUS
  <2>2. m.kind = "upload" /\ net' = (net \ {m}) \cup {a} /\ ui' = ui /\ db' = db
    BY <1>4, <2>1 DEF Papers!Uploaded
  <2>3. Fits(a)
    BY <2>1, <2>2 DEF PaperInv, PapersSent
  <2> HIDE DEF Fits
  <2> QED BY <1>1, <2>2, <2>3
<1> QED BY <1>2, <1>3, <1>4

\* A row that keeps its promise stays so, whatever its status.
LEMMA ScreenedRow ==
  ASSUME NEW r \in PaperRow, NEW status \in {"pending", "approved", "rejected"}, NEW auto \in Flag
  PROVE  [r EXCEPT !.status = status, !.auto = auto] \in PaperRow
BY DEF PaperRow

\* The rows change one by one.
LEMMA RowReplaced ==
  ASSUME NEW rows \in Seq(PaperRow), NEW i \in DOMAIN rows, NEW r \in PaperRow
  PROVE  [rows EXCEPT ![i] = r] \in Seq(PaperRow)
OBVIOUS

\* One is taken out.
LEMMA RowRemoved ==
  ASSUME NEW rows \in Seq(PaperRow), NEW i, i = 0 \/ i \in DOMAIN rows
  PROVE  Papers("licences")!Without(rows, i) \in Seq(PaperRow)
<1>1. CASE i = 0
  BY <1>1 DEF Papers!Without
<1>2. CASE i # 0
  <2>1. i \in 1..Len(rows) /\ Len(rows) \in Nat
    BY <1>2
  <2>2. SubSeq(rows, 1, i - 1) \in Seq(PaperRow) /\ SubSeq(rows, i + 1, Len(rows)) \in Seq(PaperRow)
    BY <2>1
  <2> QED BY <1>2, <2>2 DEF Papers!Without
<1> QED BY <1>1, <1>2

\* A step of the server.
LEMMA PaperServerStep ==
  ASSUME PaperInv, DOMAIN db' = DOMAIN db, db'.rows \in Seq(PaperRow), db'.created \in Int,
         NEW fresh, ui' = ui \/ ui' = [ui EXCEPT !.fresh = fresh],
         \A m \in net' : m \in net \/ ("kind" \in DOMAIN m /\ m.kind \in {"saved", "judged"})
  PROVE  PaperInv'
<1>1. PaperPage' /\ Recognised' /\ ChecksOfPage'
  BY DEF PaperInv, PaperPage, Recognised, ChecksOfPage
<1>2. PaperTable'
  BY DEF PaperInv, PaperTable
<1>3. PapersSent'
  BY DEF PaperInv, PapersSent
<1> QED BY <1>1, <1>2, <1>3 DEF PaperInv

\* The server keeps what was sent, marked when it replaced something.
LEMMA ServeSaveStep ==
  ASSUME PaperInv, NEW m \in net, Papers("licences")!ServeSave(m)
  PROVE  PaperInv'
<1>1. m.kind = "save" /\ ui' = ui
  BY DEF Papers!ServeSave
<1>2. PICK a : a = [kind |-> "saved", left |-> m.left]
  OBVIOUS
<1>3. "kind" \in DOMAIN a /\ a.kind = "saved" /\ net' = (net \ {m}) \cup {a}
  BY <1>2 DEF Papers!ServeSave
<1>4. PICK auto \in Flag : Papers("licences")!Creates(m, auto) \/ Papers("licences")!Updates(m, auto)
  BY DEF Papers!ServeSave, Flag, PaperInv, PaperPage
<1>5. PICK status \in {"pending", "approved", "rejected"} : status = IF auto THEN "rejected" ELSE "pending"
  OBVIOUS
<1>6. m.says \in Int /\ m.photo \in Int /\ (m.id = 0 /\ m.says # 0 => m.photo = m.says)
  BY <1>1 DEF PaperInv, PapersSent
<1>7. db.rows \in Seq(PaperRow) /\ db.created \in Int
  BY DEF PaperInv, PaperTable
<1>8. CASE Papers("licences")!Creates(m, auto)
  <2>1. PICK row \in PaperRow : /\ row = [Papers("licences")!NoRow EXCEPT !.id = db.created + 1, !.says = m.says,
                                                                          !.photo = m.photo]
    <3>1. PICK n \in Int : n = db.created + 1
      BY <1>7
    <3>2. m.says # 0 => m.photo = m.says
      BY <1>6, <1>8 DEF Papers!Creates
    <3>3. [Papers("licences")!NoRow EXCEPT !.id = n, !.says = m.says, !.photo = m.photo] \in PaperRow
      BY <1>6, <3>1, <3>2, BlankRow DEF PaperRow
    <3> QED BY <3>1, <3>3
  <2>2. PICK r \in PaperRow : r = [row EXCEPT !.status = status, !.auto = auto]
    BY <2>1, <1>5, ScreenedRow
  <2>3. PICK n \in Int : n = db.created + 1
    BY <1>7
  <2>4. db' = [db EXCEPT !.rows = <<r>> \o @, !.created = n]
    BY <1>5, <1>8, <2>1, <2>2, <2>3 DEF Papers!Creates, Papers!Screened
  <2>5. <<r>> \o db.rows \in Seq(PaperRow)
    BY <1>7, <2>2
  <2>6. DOMAIN db' = DOMAIN db /\ db'.rows \in Seq(PaperRow) /\ db'.created \in Int
    BY <2>3, <2>4, <2>5 DEF PaperInv, PaperTable
  <2> QED BY <1>1, <1>3, <2>6, PaperServerStep
<1>9. CASE Papers("licences")!Updates(m, auto)
  <2>1. PICK i \in DOMAIN db.rows : i = Papers("licences")!RowOf(m.id)
    BY <1>9, PlaceOfRow DEF Papers!Updates, Papers!RowOf
  <2>2. PICK yes \in Flag : yes = TRUE
    BY DEF Flag
  <2>3. db.rows[i] \in PaperRow
    BY <1>7, <2>1
  <2>4. PICK row \in PaperRow : row = [db.rows[i] EXCEPT !.says = m.says, !.photo = m.photo, !.edited = yes]
    <3>1. [db.rows[i] EXCEPT !.says = m.says, !.photo = m.photo, !.edited = yes] \in PaperRow
      BY <1>6, <2>2, <2>3 DEF PaperRow
    <3> QED BY <3>1
  <2>5. PICK r \in PaperRow : r = [row EXCEPT !.status = status, !.auto = auto]
    BY <2>4, <1>5, ScreenedRow
  <2>6. db' = [db EXCEPT !.rows[i] = r]
    BY <1>5, <1>9, <2>1, <2>2, <2>4, <2>5 DEF Papers!Updates, Papers!Screened, PaperInv, PaperTable
  <2>7. [db.rows EXCEPT ![i] = r] \in Seq(PaperRow)
    BY <1>7, <2>1, <2>5, RowReplaced
  <2>8. DOMAIN db' = DOMAIN db /\ db'.rows = [db.rows EXCEPT ![i] = r] /\ db'.created = db.created
    BY <2>6 DEF PaperInv, PaperTable
  <2> QED BY <1>1, <1>3, <1>7, <2>7, <2>8, PaperServerStep
<1> QED BY <1>4, <1>8, <1>9

\* A verdict changes the status of its row, and an owner takes a row out.
LEMMA OtherRowSteps ==
  ASSUME PaperInv,
         \/ \E m \in net : Papers("licences")!ServeVerdict(m)
         \/ \E i \in Papers("licences")!Ids : Papers("licences")!RemoveDocument(i)
  PROVE  PaperInv'
<1>1. db.rows \in Seq(PaperRow) /\ db.created \in Int
  BY DEF PaperInv, PaperTable
<1>2. ASSUME NEW m \in net, Papers("licences")!ServeVerdict(m)
      PROVE  PaperInv'
  <2>1. PICK a : a = [kind |-> "judged"]
    OBVIOUS
  <2>2. "kind" \in DOMAIN a /\ a.kind = "judged" /\ net' = (net \ {m}) \cup {a} /\ ui' = ui
    BY <1>2, <2>1 DEF Papers!ServeVerdict
  <2>3. PICK no \in Flag : no = FALSE
    BY DEF Flag
  <2>4. CASE Papers("licences")!RowOf(m.id) = 0
    BY <1>1, <1>2, <2>2, <2>4, PaperServerStep DEF Papers!ServeVerdict
  <2>5. CASE Papers("licences")!RowOf(m.id) # 0
    <3>1. PICK i \in DOMAIN db.rows : i = Papers("licences")!RowOf(m.id)
      BY <2>5, PlaceOfRow DEF Papers!RowOf
    <3>2. db.rows[i] \in PaperRow /\ m.status \in {"pending", "approved", "rejected"}
      <4>1. m.kind = "verdict"
        BY <1>2 DEF Papers!ServeVerdict
      <4>2. m.status \in {"approved", "rejected"}
        BY <4>1 DEF PaperInv, PapersSent
      <4> QED BY <1>1, <3>1, <4>2
    <3>3. PICK r \in PaperRow : r = [db.rows[i] EXCEPT !.status = m.status, !.auto = no]
      BY <2>3, <3>2, ScreenedRow
    <3>4. db' = [db EXCEPT !.rows[i] = r]
      BY <1>2, <2>3, <2>5, <3>1, <3>3 DEF Papers!ServeVerdict, PaperInv, PaperTable
    <3>5. [db.rows EXCEPT ![i] = r] \in Seq(PaperRow)
      BY <1>1, <3>1, <3>3, RowReplaced
    <3>6. DOMAIN db' = DOMAIN db /\ db'.rows = [db.rows EXCEPT ![i] = r] /\ db'.created = db.created
      BY <3>4 DEF PaperInv, PaperTable
    <3> QED BY <1>1, <2>2, <3>5, <3>6, PaperServerStep
  <2> QED BY <2>4, <2>5
<1>3. ASSUME NEW i, Papers("licences")!RemoveDocument(i)
      PROVE  PaperInv'
  <2>1. PICK k : k = Papers("licences")!Place(db.rows, ui.list[i].id)
    OBVIOUS
  <2>2. PICK rows : rows = Papers("licences")!Without(db.rows, k)
    OBVIOUS
  <2>3. rows \in Seq(PaperRow)
    BY <1>1, <2>1, <2>2, RowRemoved, PlaceOfRow
  <2>4. db' = [db EXCEPT !.rows = rows]
    BY <1>3, <2>1, <2>2 DEF Papers!RemoveDocument, PaperInv, PaperTable
  <2>5. DOMAIN db' = DOMAIN db /\ db'.rows = rows /\ db'.created = db.created
    BY <2>4 DEF PaperInv, PaperTable
  <2> QED BY <1>1, <1>3, <2>3, <2>5, PaperServerStep DEF Papers!RemoveDocument
<1> QED BY <1>2, <1>3

\* Nothing was sent at first.
LEMMA PaperStart ==
  ASSUME Papers("licences")!Init
  PROVE  PaperInv
<1>1. PICK b : b = Papers("licences")!Blank
  OBVIOUS
<1>2. DOMAIN b = {"says", "filled"} /\ b.says = 0
  BY <1>1 DEF Papers!Blank
<1>3. /\ ui = [page |-> "documents", kind |-> "cnh", list |-> <<>>, fresh |-> FALSE,
               target |-> 0, file |-> 0, attached |-> 0, result |-> "none", replaced |-> FALSE,
               form |-> b, cleared |-> FALSE, saving |-> FALSE, open |-> 0, deciding |-> FALSE]
      /\ db = [rows |-> <<>>, created |-> 0] /\ net = {}
  BY <1>1 DEF Papers!Init
<1>4. PaperPage /\ Recognised
  BY <1>2, <1>3 DEF PaperPage, Recognised
<1>5. PaperTable /\ ChecksOfPage /\ PapersSent
  BY <1>3 DEF PaperTable, ChecksOfPage, PapersSent
<1> QED BY <1>4, <1>5 DEF PaperInv

\* Every step keeps the invariant.
LEMMA PaperNext ==
  ASSUME PaperInv, Papers("licences")!Next \/ UNCHANGED <<ui, db, net>>
  PROVE  PaperInv'
<1>1. CASE UNCHANGED <<ui, db, net>>
  BY <1>1, PaperPageStep DEF PaperInv, PaperPage, Recognised, ChecksOfPage
<1>2. CASE Papers("licences")!Next
  BY <1>2, ListSteps, OpenPageStep, LeavingSteps, FileSteps, OtherPaperSteps, SendingSteps, ServeSaveStep,
     OtherRowSteps DEF Papers!Next
<1> QED BY <1>1, <1>2

\* The other page sends certificates, whatever happens.
CertificateInv == "kind" \in DOMAIN ui /\ ui.kind = "certification"

\* It holds at first.
LEMMA CertificateStart ==
  ASSUME Papers("certificates")!Init
  PROVE  CertificateInv
<1>1. PICK b : b = Papers("certificates")!Blank
  OBVIOUS
<1>2. ui = [page |-> "documents", kind |-> "certification", list |-> <<>>, fresh |-> FALSE,
            target |-> 0, file |-> 0, attached |-> 0, result |-> "none", replaced |-> FALSE,
            form |-> b, cleared |-> FALSE, saving |-> FALSE, open |-> 0, deciding |-> FALSE]
  BY <1>1 DEF Papers!Init
<1> QED BY <1>2 DEF CertificateInv

\* Every step keeps it.
LEMMA CertificateNext ==
  ASSUME CertificateInv, Papers("certificates")!Next \/ UNCHANGED <<ui, db, net>>
  PROVE  CertificateInv'
<1>1. ui' = ui \/ (DOMAIN ui' = DOMAIN ui /\ ui'.kind = ui.kind)
  <2>1. ASSUME NEW m \in net, Papers("certificates")!Checked(m) \/ Papers("certificates")!CheckFails(m)
        PROVE  ui' = ui \/ (DOMAIN ui' = DOMAIN ui /\ ui'.kind = ui.kind)
    BY <2>1 DEF CertificateInv, Papers!Checked, Papers!CheckFails
  <2>2. ASSUME NEW m \in net, \/ Papers("certificates")!Uploaded(m) \/ Papers("certificates")!SaveFails(m)
                              \/ Papers("certificates")!Saved(m) \/ Papers("certificates")!ServeSave(m)
                              \/ Papers("certificates")!ServeVerdict(m) \/ Papers("certificates")!Judged(m)
                              \/ Papers("certificates")!VerdictFails(m)
        PROVE  ui' = ui \/ (DOMAIN ui' = DOMAIN ui /\ ui'.kind = ui.kind)
    BY <2>2 DEF CertificateInv, Papers!Uploaded, Papers!SaveFails, Papers!Saved, Papers!ServeSave,
                Papers!ServeVerdict, Papers!Judged, Papers!VerdictFails
  <2>3. ASSUME \/ Papers("certificates")!Lists \/ Papers("certificates")!GrowsStale
               \/ Papers("certificates")!ClosePage \/ Papers("certificates")!Attach
               \/ \E id : Papers("certificates")!OpenPage(id)
        PROVE  DOMAIN ui' = DOMAIN ui /\ ui'.kind = ui.kind
    BY <2>3 DEF CertificateInv, Papers!Lists, Papers!GrowsStale, Papers!ClosePage, Papers!Attach, Papers!OpenPage
  <2>4. ASSUME \/ Papers("certificates")!RemoveMedia \/ Papers("certificates")!Submit
               \/ Papers("certificates")!CloseDetail
               \/ \E i : Papers("certificates")!RemoveDocument(i) \/ Papers("certificates")!OpenDetail(i)
               \/ \E action, note : Papers("certificates")!RunReview(action, note)
               \/ \E section : Papers("certificates")!FillIn(section)
        PROVE  DOMAIN ui' = DOMAIN ui /\ ui'.kind = ui.kind
    BY <2>4 DEF CertificateInv, Papers!RemoveMedia, Papers!Submit, Papers!CloseDetail, Papers!RemoveDocument,
                Papers!OpenDetail, Papers!RunReview, Papers!FillIn
  <2> QED BY <2>1, <2>2, <2>3, <2>4
          DEF Papers!Next, Papers!FillPerson, Papers!FillLicence, Papers!FillCertificate
<1> QED BY <1>1 DEF CertificateInv

-----------------------------------------------------------------------------
\* The pages of a listing: a point is of the address beside it unless its
\* history says that the address has changed since it was found.
PointKept(s, row) ==
  /\ DOMAIN row = {"cep", "address", "point", "drift", "status", "price"}
  /\ ~row.drift => row.point \in {Lists(s)!Nowhere, Lists(s)!Point(row.cep, row.address)}

\* There is a listing to read: there always is where one is edited.
Present == 1 \in DOMAIN db

ListingPage(s, u) ==
  /\ DOMAIN u = {"open", "opens", "sends", "error", "read", "cep", "address", "status", "located", "drift",
                 "pending", "machine", "selection", "asked", "answer", "price"}
  /\ PointKept(s, u.read)
  /\ u.located # Lists(s)!Nowhere /\ ~u.drift => u.located = Lists(s)!Query(u)
  /\ u.error => Present

\* The question listened to, if there is one, is of the selection on screen.
QuestionOfSelection(s, u) ==
  \/ u.asked = Lists(s)!NoQuestion /\ u.answer = "none"
  \/ u.asked = [machine |-> u.machine, selection |-> u.selection]

ListingRows(s) ==
  /\ s = "listing" => Present
  /\ \E rows : db \in Seq(rows) /\ \A row \in rows : PointKept(s, row)

ListingMessage(s, m) ==
  /\ "kind" \in DOMAIN m
  /\ m.kind \in {"detail", "detailed", "save", "checked", "saved", "remove", "removed"} => Present
  /\ m.kind \in {"create", "save", "checked"} => DOMAIN m = {"kind", "page", "row"}
  /\ m.kind \in {"create", "save", "checked", "detailed"} => PointKept(s, m.row)
  /\ m.kind = "suggest" => m.asked.machine # 0

ListingInv(s) ==
  /\ ListingPage(s, ui) /\ QuestionOfSelection(s, ui) /\ ListingRows(s)
  /\ \A m \in net : ListingMessage(s, m)

\* The map adds one question, and drops others.
LEMMA MappedKeeps ==
  ASSUME NEW s \in ListingScreens, NEW u, NEW v, NEW ms, NEW m \in Lists(s)!Mapped(u, v, ms)
  PROVE  m \in ms \/ ListingMessage(s, m)
<1>1. m \in ms \/ m = [kind |-> "locate"]
  BY DEF Lists!Mapped
<1>2. ASSUME m = [kind |-> "locate"]
      PROVE  ListingMessage(s, m)
  BY <1>2 DEF ListingMessage
<1> QED BY <1>1, <1>2

\* A step of the page, with what it sends.
LEMMA ListingStep ==
  ASSUME NEW s \in ListingScreens, ListingInv(s), db' = db,
         ListingPage(s, ui'), QuestionOfSelection(s, ui'),
         \A m \in net' : m \in net \/ ListingMessage(s, m)
  PROVE  ListingInv(s)'
<1>1. \A m \in net' : ListingMessage(s, m)
  BY DEF ListingInv
<1>2. \A m : ListingMessage(s, m) => ListingMessage(s, m)'
  BY DEF ListingMessage, Present, PointKept
<1>3. ListingPage(s, ui)' /\ QuestionOfSelection(s, ui)' /\ ListingRows(s)'
  BY DEF ListingInv, ListingPage, QuestionOfSelection, ListingRows, Present, PointKept, Lists!Query, Lists!Point,
         Lists!Nowhere, Lists!NoQuestion
<1> QED BY <1>1, <1>2, <1>3 DEF ListingInv

\* A step of the page that concerns the map.
LEMMA BecomesStep ==
  ASSUME NEW s \in ListingScreens, ListingInv(s), db' = db, NEW v, NEW ms, Lists(s)!Becomes(v, ms),
         ListingPage(s, v), QuestionOfSelection(s, v),
         \A m \in ms : m \in net \/ ListingMessage(s, m)
  PROVE  ListingInv(s)'
<1>1. ui' = v /\ net' = Lists(s)!Mapped(ui, v, ms)
  BY DEF Lists!Becomes
<1>2. \A m \in net' : m \in net \/ ListingMessage(s, m)
  BY <1>1, MappedKeeps
<1> QED BY <1>1, <1>2, ListingStep

\* What is sent, or stored, of the page.
LEMMA ContentIsKept ==
  ASSUME NEW s \in ListingScreens, NEW u, ListingPage(s, u)
  PROVE  PointKept(s, Lists(s)!Content(u))
<1>1. PICK point : point = Lists(s)!Coordinates(u)
  OBVIOUS
<1>2. PICK drift : drift = IF u.located # Lists(s)!Nowhere THEN u.drift ELSE u.read.drift
  OBVIOUS
<1>3. PICK status : status = IF s = "listing" THEN u.status ELSE "active"
  OBVIOUS
<1>4. PICK c : c = [cep |-> u.cep, address |-> u.address, point |-> point, drift |-> drift, status |-> status,
                    price |-> u.price]
  OBVIOUS
<1>5. Lists(s)!Content(u) = c
  BY <1>1, <1>2, <1>3, <1>4 DEF Lists!Content, Lists!Row
<1>6. /\ DOMAIN c = {"cep", "address", "point", "drift", "status", "price"}
      /\ c.cep = u.cep /\ c.address = u.address /\ c.point = point /\ c.drift = drift
  BY <1>4
<1>7. CASE u.located # Lists(s)!Nowhere
  BY <1>1, <1>2, <1>6, <1>7, <1>5 DEF PointKept, ListingPage, Lists!Coordinates, Lists!Query
<1>8. CASE u.located = Lists(s)!Nowhere
  <2>1. point = Lists(s)!Stored(u) /\ drift = u.read.drift
    BY <1>1, <1>2, <1>8 DEF Lists!Coordinates
  <2> QED BY <2>1, <1>5, <1>6 DEF PointKept, ListingPage, Lists!Stored
<1> QED BY <1>7, <1>8

\* The page is mounted, or left.
LEMMA MountingSteps ==
  ASSUME NEW s \in ListingScreens, ListingInv(s), Lists(s)!Open \/ Lists(s)!Leave
  PROVE  ListingInv(s)'
<1>1. CASE Lists(s)!Leave
  <2>1. ui' = [ui EXCEPT !.open = FALSE] /\ db' = db /\ net' \subseteq net
    BY <1>1 DEF Lists!Leave, Lists!Left
  <2>2. ListingPage(s, ui') /\ QuestionOfSelection(s, ui')
    BY <2>1 DEF ListingInv, ListingPage, QuestionOfSelection, Lists!Query
  <2> QED BY <2>1, <2>2, ListingStep
<1>2. CASE Lists(s)!Open
  <2>1. PICK v : v = Lists(s)!Fresh(ui)
    OBVIOUS
  <2>2. PICK ms : ms = Lists(s)!Joined(net)
    OBVIOUS
  <2>3. PICK no \in Flag : no = FALSE
    BY DEF Flag
  <2>4. DOMAIN v = DOMAIN ui
    BY <2>1 DEF Lists!Fresh
  <2>5. /\ v.read = ui.read /\ v.located = Lists(s)!Nowhere /\ v.error = no
        /\ v.asked = Lists(s)!NoQuestion /\ v.answer = "none"
    BY <2>1, <2>3 DEF Lists!Fresh, ListingInv, ListingPage
  <2>6. ListingPage(s, v) /\ QuestionOfSelection(s, v)
    BY <2>3, <2>4, <2>5 DEF ListingInv, ListingPage, QuestionOfSelection
  <2>7. \A m \in ms : m \in net \/ ListingMessage(s, m)
    <3>1. ASSUME NEW m \in ms, m \notin net
          PROVE  m = [kind |-> "detail"] /\ s = "listing"
      BY <2>2, <3>1 DEF Lists!Joined
    <3>2. ASSUME NEW m, m = [kind |-> "detail"], s = "listing"
          PROVE  ListingMessage(s, m)
      BY <3>2 DEF ListingMessage, ListingInv, ListingRows
    <3> QED BY <3>1, <3>2
  <2>8. Lists(s)!Becomes(v, ms) /\ db' = db
    BY <1>2, <2>1, <2>2 DEF Lists!Open
  <2> QED BY <2>6, <2>7, <2>8, BecomesStep
<1> QED BY <1>1, <1>2

\* What is typed leaves no point located.
LEMMA ListingTyping ==
  ASSUME NEW s \in ListingScreens, ListingInv(s), NEW x, Lists(s)!TypeCep(x) \/ Lists(s)!TypeAddress(x)
  PROVE  ListingInv(s)'
<1>1. PICK v, ms :
        /\ Lists(s)!Becomes(v, ms) /\ db' = db
        /\ DOMAIN v = DOMAIN ui /\ v.located = Lists(s)!Nowhere
        /\ v.read = ui.read /\ v.error = ui.error /\ v.asked = ui.asked /\ v.answer = ui.answer
        /\ v.machine = ui.machine /\ v.selection = ui.selection
        /\ \A m \in ms : m \in net \/ (m = [kind |-> "lookup", cep |-> x])
  <2>1. CASE Lists(s)!TypeCep(x)
    <3>1. PICK v : v = [ui EXCEPT !.cep = x, !.located = Lists(s)!Nowhere, !.drift = FALSE]
      OBVIOUS
    <3>2. PICK ms : ms = net \cup (IF x = 0 THEN {} ELSE {[kind |-> "lookup", cep |-> x]})
      OBVIOUS
    <3>3. Lists(s)!Becomes(v, ms) /\ db' = db
      BY <2>1, <3>1, <3>2 DEF Lists!TypeCep
    <3>4. /\ DOMAIN v = DOMAIN ui /\ v.located = Lists(s)!Nowhere
          /\ v.read = ui.read /\ v.error = ui.error /\ v.asked = ui.asked /\ v.answer = ui.answer
          /\ v.machine = ui.machine /\ v.selection = ui.selection
      BY <3>1 DEF ListingInv, ListingPage
    <3> QED BY <3>2, <3>3, <3>4
  <2>2. CASE Lists(s)!TypeAddress(x)
    <3>1. PICK v : v = [ui EXCEPT !.cep = 0, !.address = x, !.located = Lists(s)!Nowhere, !.drift = FALSE]
      OBVIOUS
    <3>2. Lists(s)!Becomes(v, net) /\ db' = db
      BY <2>2, <3>1 DEF Lists!TypeAddress
    <3>3. /\ DOMAIN v = DOMAIN ui /\ v.located = Lists(s)!Nowhere
          /\ v.read = ui.read /\ v.error = ui.error /\ v.asked = ui.asked /\ v.answer = ui.answer
          /\ v.machine = ui.machine /\ v.selection = ui.selection
      BY <3>1 DEF ListingInv, ListingPage
    <3> QED BY <3>2, <3>3
  <2> QED BY <2>1, <2>2
<1>2. ListingPage(s, v) /\ QuestionOfSelection(s, v)
  BY <1>1 DEF ListingInv, ListingPage, QuestionOfSelection
<1>3. ASSUME NEW m, m = [kind |-> "lookup", cep |-> x]
      PROVE  ListingMessage(s, m)
  BY <1>3 DEF ListingMessage
<1> QED BY <1>1, <1>2, <1>3, BecomesStep

\* The answers about the address: the point located is told from the address.
LEMMA AddressAnswers ==
  ASSUME NEW s \in ListingScreens, ListingInv(s), NEW m \in net,
         Lists(s)!LookupArrives(m) \/ Lists(s)!LocateArrives(m)
  PROVE  ListingInv(s)'
<1>1. CASE Lists(s)!LookupArrives(m)
  <2>1. PICK drift \in Flag : drift = (ui.drift \/ (ui.located # Lists(s)!Nowhere /\ m.cep # ui.address))
    BY DEF Flag
  <2>2. PICK v : v = [ui EXCEPT !.address = m.cep, !.drift = drift]
    OBVIOUS
  <2>3. Lists(s)!Becomes(v, net \ {m}) /\ db' = db
    <3>1. v = [ui EXCEPT !.address = m.cep,
                         !.drift = ui.drift \/ (ui.located # Lists(s)!Nowhere /\ m.cep # ui.address)]
      BY <2>1, <2>2
    <3> QED BY <1>1, <3>1 DEF Lists!LookupArrives
  <2>4. /\ DOMAIN v = DOMAIN ui /\ v.read = ui.read /\ v.error = ui.error /\ v.asked = ui.asked
        /\ v.answer = ui.answer /\ v.machine = ui.machine /\ v.selection = ui.selection
        /\ v.located = ui.located /\ v.cep = ui.cep /\ v.address = m.cep /\ v.drift = drift
    BY <2>2 DEF ListingInv, ListingPage
  <2>5. v.located # Lists(s)!Nowhere /\ ~v.drift => v.located = Lists(s)!Query(v)
    <3>1. ASSUME v.located # Lists(s)!Nowhere, ~v.drift
          PROVE  ~ui.drift /\ m.cep = ui.address /\ ui.located # Lists(s)!Nowhere
      BY <2>1, <2>4, <3>1
    <3> QED BY <2>4, <3>1 DEF ListingInv, ListingPage, Lists!Query
  <2>6. ListingPage(s, v) /\ QuestionOfSelection(s, v)
    BY <2>4, <2>5 DEF ListingInv, ListingPage, QuestionOfSelection
  <2> QED BY <2>3, <2>6, BecomesStep
<1>2. CASE Lists(s)!LocateArrives(m)
  <2>1. PICK v : v = [ui EXCEPT !.located = Lists(s)!Query(ui), !.drift = FALSE]
    OBVIOUS
  <2>2. Lists(s)!Becomes(v, net \ {m}) /\ db' = db
    BY <1>2, <2>1 DEF Lists!LocateArrives
  <2>3. /\ DOMAIN v = DOMAIN ui /\ v.read = ui.read /\ v.error = ui.error /\ v.asked = ui.asked
        /\ v.answer = ui.answer /\ v.machine = ui.machine /\ v.selection = ui.selection
        /\ v.located = Lists(s)!Query(ui) /\ v.cep = ui.cep /\ v.address = ui.address
    BY <2>1 DEF ListingInv, ListingPage
  <2>4. ListingPage(s, v) /\ QuestionOfSelection(s, v)
    BY <2>3 DEF ListingInv, ListingPage, QuestionOfSelection, Lists!Query
  <2> QED BY <2>2, <2>4, BecomesStep
<1> QED BY <1>1, <1>2

\* The listing is read: a form filled in again keeps the point found, and its
\* history tells whether the address under it has changed.
LEMMA DetailSteps ==
  ASSUME NEW s \in ListingScreens, ListingInv(s), NEW m \in net, Lists(s)!DetailArrives(m) \/ Lists(s)!DetailFails(m)
  PROVE  ListingInv(s)'
<1>1. CASE Lists(s)!DetailFails(m)
  <2>1. PICK v : v = [ui EXCEPT !.error = ui.open]
    OBVIOUS
  <2>2. Lists(s)!Becomes(v, net \ {m}) /\ db' = db /\ Present
    BY <1>1, <2>1 DEF Lists!DetailFails, ListingInv, ListingMessage
  <2>3. ListingPage(s, v) /\ QuestionOfSelection(s, v)
    BY <2>1, <2>2 DEF ListingInv, ListingPage, QuestionOfSelection, Lists!Query
  <2> QED BY <2>2, <2>3, BecomesStep
<1>2. CASE Lists(s)!DetailArrives(m) /\ ~ui.open
  <2>1. ui' = [ui EXCEPT !.read = m.row] /\ db' = db /\ net' \subseteq net /\ PointKept(s, m.row)
    BY <1>2 DEF Lists!DetailArrives, ListingInv, ListingMessage
  <2>2. ListingPage(s, ui') /\ QuestionOfSelection(s, ui')
    BY <2>1 DEF ListingInv, ListingPage, QuestionOfSelection, Lists!Query
  <2> QED BY <2>1, <2>2, ListingStep
<1>3. CASE Lists(s)!DetailArrives(m) /\ ui.open
  <2>1. PICK v : v = Lists(s)!Reset(ui, m.row)
    OBVIOUS
  <2>2. Lists(s)!Becomes(v, net \ {m}) /\ db' = db /\ PointKept(s, m.row)
    BY <1>3, <2>1 DEF Lists!DetailArrives, ListingInv, ListingMessage
  <2>3. CASE m.row = ui.read
    <3>1. v = [ui EXCEPT !.error = FALSE]
      BY <2>1, <2>3 DEF Lists!Reset
    <3>2. ListingPage(s, v) /\ QuestionOfSelection(s, v)
      BY <3>1 DEF ListingInv, ListingPage, QuestionOfSelection, Lists!Query
    <3> QED BY <2>2, <3>2, BecomesStep
  <2>4. CASE m.row # ui.read
    <3>1. PICK drift \in Flag :
             drift = (ui.drift \/ (ui.located # Lists(s)!Nowhere
                                   /\ Lists(s)!Query(ui) # Lists(s)!Point(m.row.cep, m.row.address)))
      BY DEF Flag
    <3>2. v = [ui EXCEPT !.read = m.row, !.error = FALSE, !.cep = m.row.cep, !.address = m.row.address,
                         !.status = m.row.status, !.drift = drift]
      BY <2>1, <2>4, <3>1 DEF Lists!Reset
    <3>3. /\ DOMAIN v = DOMAIN ui /\ v.read = m.row /\ v.error = FALSE /\ v.asked = ui.asked
          /\ v.answer = ui.answer /\ v.machine = ui.machine /\ v.selection = ui.selection
          /\ v.located = ui.located /\ v.cep = m.row.cep /\ v.address = m.row.address /\ v.drift = drift
      BY <3>2 DEF ListingInv, ListingPage
    <3>4. v.located # Lists(s)!Nowhere /\ ~v.drift => v.located = Lists(s)!Query(v)
      <4>1. ASSUME v.located # Lists(s)!Nowhere, ~v.drift
            PROVE  /\ ~ui.drift /\ ui.located # Lists(s)!Nowhere
                   /\ Lists(s)!Query(ui) = Lists(s)!Point(m.row.cep, m.row.address)
        BY <3>1, <3>3, <4>1
      <4> QED BY <3>3, <4>1 DEF ListingInv, ListingPage, Lists!Query
    <3>5. ListingPage(s, v) /\ QuestionOfSelection(s, v)
      BY <2>2, <3>3, <3>4 DEF ListingInv, ListingPage, QuestionOfSelection
    <3> QED BY <2>2, <3>5, BecomesStep
  <2> QED BY <2>3, <2>4
<1> QED BY <1>1, <1>2, <1>3 DEF Lists!DetailArrives

\* The readings asked for again, and the answers that never came.
LEMMA ReadingSteps ==
  ASSUME NEW s \in ListingScreens, ListingInv(s),
         \/ Lists(s)!Reconnect \/ Lists(s)!ReadAgain
         \/ \E m \in net : Lists(s)!LookupFails(m) \/ Lists(s)!LocateFails(m)
  PROVE  ListingInv(s)'
<1>1. ui' = ui /\ db' = db /\ \A n \in net' : n \in net \/ (n = [kind |-> "detail"] /\ Present)
  BY DEF Lists!Reconnect, Lists!ReadAgain, Lists!LookupFails, Lists!LocateFails, Lists!Joined, Lists!Restarted,
         ListingInv, ListingPage, ListingRows
<1>2. ASSUME NEW n, n = [kind |-> "detail"], Present
      PROVE  ListingMessage(s, n)
  BY <1>2 DEF ListingMessage
<1> QED BY <1>1, <1>2, ListingStep DEF ListingInv

\* The price: the question listened to is of the selection, whatever answers come.
LEMMA PriceSteps ==
  ASSUME NEW s \in ListingScreens, ListingInv(s),
         \/ Lists(s)!RequestPrice \/ Lists(s)!SetPrice \/ Lists(s)!Dismiss
         \/ \E k : Lists(s)!SelectMachine(k)
         \/ \E m \in net, found \in BOOLEAN : Lists(s)!PriceArrives(m, found)
  PROVE  ListingInv(s)'
<1>1. CASE \E k : Lists(s)!SelectMachine(k)
  <2>1. PICK k : ui' = Lists(s)!Detached(ui, k) /\ db' = db /\ net' = net
    BY <1>1 DEF Lists!SelectMachine
  <2>2. ListingPage(s, ui') /\ QuestionOfSelection(s, ui')
    BY <2>1 DEF ListingInv, ListingPage, QuestionOfSelection, Lists!Query, Lists!Detached
  <2> QED BY <2>1, <2>2, ListingStep
<1>2. CASE Lists(s)!RequestPrice
  <2>1. PICK asked : asked = [machine |-> ui.machine, selection |-> ui.selection]
    OBVIOUS
  <2>2. ui' = [ui EXCEPT !.asked = asked, !.answer = "waiting"] /\ db' = db /\ ui.machine # 0
    BY <1>2, <2>1 DEF Lists!RequestPrice
  <2>3. ui'.asked = asked /\ ui'.machine = ui.machine /\ ui'.selection = ui.selection
    BY <2>2 DEF ListingInv, ListingPage
  <2>4. PICK n : n = [kind |-> "suggest", asked |-> asked]
    OBVIOUS
  <2>5. net' = net \cup {n}
    BY <1>2, <2>3, <2>4 DEF Lists!RequestPrice
  <2>6. ListingMessage(s, n)
    BY <2>1, <2>2, <2>4 DEF ListingMessage
  <2>7. ListingPage(s, ui') /\ QuestionOfSelection(s, ui')
    BY <2>1, <2>2, <2>3 DEF ListingInv, ListingPage, QuestionOfSelection, Lists!Query
  <2> QED BY <2>2, <2>5, <2>6, <2>7, ListingStep
<1>3. CASE \E m \in net, found \in BOOLEAN : Lists(s)!PriceArrives(m, found)
  <2>1. PICK m \in net, found \in BOOLEAN : Lists(s)!PriceArrives(m, found)
    BY <1>3
  <2>2. db' = db /\ net' \subseteq net /\ m.asked.machine # 0
    BY <2>1 DEF Lists!PriceArrives, ListingInv, ListingMessage
  <2>3. CASE ui' = ui
    BY <2>2, <2>3, ListingStep DEF ListingInv
  <2>4. CASE m.asked = ui.asked
    <3>1. PICK answer : answer = IF found THEN "shown" ELSE "none"
      OBVIOUS
    <3>2. ui' = [ui EXCEPT !.answer = answer]
      BY <2>1, <2>4, <3>1 DEF Lists!PriceArrives
    <3>3. ui.asked # Lists(s)!NoQuestion
      BY <2>2, <2>4 DEF Lists!NoQuestion
    <3>4. ListingPage(s, ui') /\ QuestionOfSelection(s, ui')
      BY <3>2, <3>3 DEF ListingInv, ListingPage, QuestionOfSelection, Lists!Query
    <3> QED BY <2>2, <3>4, ListingStep
  <2> QED BY <2>1, <2>3, <2>4 DEF Lists!PriceArrives
<1>4. CASE Lists(s)!Dismiss
  <2>1. ui' = [ui EXCEPT !.answer = "dismissed"] /\ db' = db /\ net' = net /\ ui.answer = "shown"
    BY <1>4 DEF Lists!Dismiss, Lists!PanelShown
  <2>2. ListingPage(s, ui') /\ QuestionOfSelection(s, ui')
    BY <2>1 DEF ListingInv, ListingPage, QuestionOfSelection, Lists!Query
  <2> QED BY <2>1, <2>2, ListingStep
<1>5. CASE Lists(s)!SetPrice
  <2>1. PICK price : ui' = [ui EXCEPT !.price = price] /\ db' = db /\ net' = net
    BY <1>5 DEF Lists!SetPrice
  <2>2. ListingPage(s, ui') /\ QuestionOfSelection(s, ui')
    BY <2>1 DEF ListingInv, ListingPage, QuestionOfSelection, Lists!Query
  <2> QED BY <2>1, <2>2, ListingStep
<1> QED BY <1>1, <1>2, <1>3, <1>4, <1>5

\* What is sent to be done, and what the page hears of it.
LEMMA SavingSteps ==
  ASSUME NEW s \in ListingScreens, ListingInv(s),
         \/ Lists(s)!Submit \/ Lists(s)!Remove
         \/ \E st : Lists(s)!SelectStatus(st)
         \/ \E m \in net : Lists(s)!CreatedArrives(m) \/ Lists(s)!Done(m) \/ Lists(s)!RequestFails(m)
  PROVE  ListingInv(s)'
<1> DEFINE Steady == /\ DOMAIN ui' = DOMAIN ui /\ ui'.read = ui.read /\ ui'.error = ui.error /\ ui'.asked = ui.asked
                     /\ ui'.answer = ui.answer /\ ui'.machine = ui.machine /\ ui'.selection = ui.selection
                     /\ ui'.located = ui.located /\ ui'.cep = ui.cep /\ ui'.address = ui.address
                     /\ ui'.drift = ui.drift
<1>1. ASSUME Steady
      PROVE  ListingPage(s, ui') /\ QuestionOfSelection(s, ui')
  BY <1>1 DEF ListingInv, ListingPage, QuestionOfSelection, Lists!Query
<1>2. CASE Lists(s)!Submit
  <2>1. PICK row : row = Lists(s)!Content(ui)
    OBVIOUS
  <2>2. PICK kind : kind = IF s = "listing" THEN "save" ELSE "create"
    OBVIOUS
  <2>3. PICK n : n = [kind |-> kind, page |-> ui.opens, row |-> row]
    OBVIOUS
  <2>4. net' = net \cup {n} /\ db' = db
    BY <1>2, <2>1, <2>2, <2>3 DEF Lists!Submit
  <2>5. DOMAIN n = {"kind", "page", "row"} /\ n.kind = kind /\ n.row = row
    BY <2>3
  <2>6. PointKept(s, row)
    BY <2>1, ContentIsKept DEF ListingInv
  <2>7. ListingMessage(s, n)
    BY <2>2, <2>5, <2>6 DEF ListingMessage, ListingInv, ListingRows
  <2>8. Steady
    BY <1>2 DEF Lists!Submit, ListingInv, ListingPage
  <2> HIDE DEF Steady
  <2> QED BY <1>1, <2>4, <2>7, <2>8, ListingStep
<1>3. CASE Lists(s)!Remove
  <2>1. PICK n : n = [kind |-> "remove", page |-> ui.opens]
    OBVIOUS
  <2>2. net' = net \cup {n} /\ db' = db /\ s = "listing"
    BY <1>3, <2>1 DEF Lists!Remove
  <2>3. ListingMessage(s, n)
    BY <2>1, <2>2 DEF ListingMessage, ListingInv, ListingRows
  <2>4. Steady
    BY <1>3 DEF Lists!Remove, ListingInv, ListingPage
  <2> HIDE DEF Steady
  <2> QED BY <1>1, <2>2, <2>3, <2>4, ListingStep
<1>4. CASE \E st : Lists(s)!SelectStatus(st)
  <2>1. Steady /\ net' = net /\ db' = db
    BY <1>4 DEF Lists!SelectStatus, ListingInv, ListingPage
  <2> HIDE DEF Steady
  <2> QED BY <1>1, <2>1, ListingStep
<1>5. CASE \E m \in net : Lists(s)!CreatedArrives(m) \/ Lists(s)!Done(m) \/ Lists(s)!RequestFails(m)
  <2>1. PICK m \in net : Lists(s)!CreatedArrives(m) \/ Lists(s)!Done(m) \/ Lists(s)!RequestFails(m)
    BY <1>5
  <2>2. CASE Lists(s)!CreatedArrives(m)
    <3>1. PICK n : n = [kind |-> "photos", page |-> m.page]
      OBVIOUS
    <3>2. ui' = ui /\ db' = db /\ net' = (net \ {m}) \cup {n}
      BY <2>2, <3>1 DEF Lists!CreatedArrives
    <3>3. ListingMessage(s, n)
      BY <3>1 DEF ListingMessage
    <3> QED BY <3>2, <3>3, ListingStep DEF ListingInv
  <2>3. CASE Lists(s)!Done(m)
    <3>1. db' = db /\ \A n \in net' : n \in net \/ (n = [kind |-> "detail"] /\ m.kind = "saved")
      BY <2>3 DEF Lists!Done, Lists!Left, Lists!Restarted
    <3>2. ASSUME NEW n, n = [kind |-> "detail"], m.kind = "saved"
          PROVE  ListingMessage(s, n)
      BY <3>2 DEF ListingMessage, ListingInv
    <3>3. Steady
      BY <2>3 DEF Lists!Done, ListingInv, ListingPage
    <3> HIDE DEF Steady
    <3> QED BY <1>1, <3>1, <3>2, <3>3, ListingStep
  <2>4. CASE Lists(s)!RequestFails(m)
    <3>1. Steady /\ net' \subseteq net /\ db' = db
      BY <2>4 DEF Lists!RequestFails, ListingInv, ListingPage
    <3> HIDE DEF Steady
    <3> QED BY <1>1, <3>1, ListingStep
  <2> QED BY <2>1, <2>2, <2>3, <2>4
<1> QED BY <1>2, <1>3, <1>4, <1>5

\* The server answers with what it keeps.
LEMMA ServedSteps ==
  ASSUME NEW s \in ListingScreens, ListingInv(s), NEW m \in net, Lists(s)!ServeDetail(m) \/ Lists(s)!ServeCheck(m)
  PROVE  ListingInv(s)'
<1>1. PICK n : net' = (net \ {m}) \cup {n} /\ ListingMessage(s, n)
  <2>1. CASE Lists(s)!ServeDetail(m)
    <3>1. PICK n : n = [kind |-> "detailed", row |-> db[1]]
      OBVIOUS
    <3>2. net' = (net \ {m}) \cup {n} /\ m.kind = "detail"
      BY <2>1, <3>1 DEF Lists!ServeDetail, Lists!Answered
    <3>3. Present
      BY <3>2 DEF ListingInv, ListingMessage
    <3>4. PointKept(s, db[1])
      BY <3>3 DEF Present, ListingInv, ListingRows
    <3>5. n.kind = "detailed" /\ "kind" \in DOMAIN n /\ n.row = db[1]
      BY <3>1
    <3> QED BY <3>2, <3>3, <3>4, <3>5 DEF ListingMessage
  <2>2. CASE Lists(s)!ServeCheck(m)
    <3>1. PICK n : n = [m EXCEPT !.kind = "checked"]
      OBVIOUS
    <3>2. net' = (net \ {m}) \cup {n} /\ m.kind = "save"
      BY <2>2, <3>1 DEF Lists!ServeCheck, Lists!Answered
    <3>3. DOMAIN n = {"kind", "page", "row"} /\ n.kind = "checked" /\ n.row = m.row /\ Present /\ PointKept(s, m.row)
      BY <3>1, <3>2 DEF ListingInv, ListingMessage
    <3> QED BY <3>2, <3>3 DEF ListingMessage
  <2> QED BY <2>1, <2>2
<1>2. ui' = ui /\ db' = db
  BY DEF Lists!ServeDetail, Lists!ServeCheck, Lists!Answered
<1> QED BY <1>1, <1>2, ListingStep DEF ListingInv

\* A step of the server that writes a listing.
LEMMA WritingStep ==
  ASSUME NEW s \in ListingScreens, ListingInv(s), ui' = ui, NEW row, PointKept(s, row),
         DOMAIN db \subseteq DOMAIN db',
         NEW rows, db \in Seq(rows), \A r \in rows : PointKept(s, r), db' \in Seq(rows \cup {row}),
         \A m \in net' : m \in net \/ ListingMessage(s, m)
  PROVE  ListingInv(s)'
<1>1. Present => Present'
  BY DEF Present
<1>2. \A m : ListingMessage(s, m) => ListingMessage(s, m)'
  BY <1>1 DEF ListingMessage, PointKept
<1>3. \A m \in net' : ListingMessage(s, m)'
  BY <1>2 DEF ListingInv
<1>4. ListingPage(s, ui)' /\ QuestionOfSelection(s, ui)'
  BY <1>1 DEF ListingInv, ListingPage, QuestionOfSelection, PointKept, Lists!Query, Lists!Point, Lists!Nowhere,
              Lists!NoQuestion
<1>5. PICK kept : kept = rows \cup {row}
  OBVIOUS
<1>6. db' \in Seq(kept) /\ \A r \in kept : PointKept(s, r)
  BY <1>5
<1>7. ListingRows(s)'
  BY <1>1, <1>6 DEF ListingInv, ListingRows, PointKept, Lists!Nowhere, Lists!Point
<1> QED BY <1>3, <1>4, <1>7 DEF ListingInv

\* A listing is made, saved or removed, or judged.
LEMMA ListingWritten ==
  ASSUME NEW s \in ListingScreens, ListingInv(s),
         \/ \E status : Lists(s)!Moderate(status)
         \/ \E m \in net : Lists(s)!ServeCreate(m) \/ Lists(s)!ServeSave(m) \/ Lists(s)!ServeRemove(m)
  PROVE  ListingInv(s)'
<1>1. PICK rows : db \in Seq(rows) /\ \A r \in rows : PointKept(s, r)
  BY DEF ListingInv, ListingRows
<1>2. ASSUME NEW status, Present, db' = [db EXCEPT ![1].status = status], ui' = ui,
             \A n \in net' : n \in net \/ ListingMessage(s, n)
      PROVE  ListingInv(s)'
  <2>1. PICK row : row = [db[1] EXCEPT !.status = status]
    OBVIOUS
  <2>2. PointKept(s, db[1])
    BY <1>1, <1>2 DEF Present
  <2>3. PointKept(s, row)
    BY <2>1, <2>2 DEF PointKept
  <2>4. db' = [db EXCEPT ![1] = row]
    BY <1>2, <2>1
  <2>5. db' \in Seq(rows \cup {row}) /\ DOMAIN db' = DOMAIN db
    BY <1>1, <1>2, <2>4 DEF Present
  <2> QED BY <1>1, <1>2, <2>3, <2>5, WritingStep
<1>3. CASE \E status : Lists(s)!Moderate(status)
  BY <1>2, <1>3 DEF Lists!Moderate, ListingInv, ListingRows
<1>4. CASE \E m \in net : Lists(s)!ServeRemove(m)
  <2>1. PICK m \in net : Lists(s)!ServeRemove(m)
    BY <1>4
  <2>2. PICK n : n = [kind |-> "removed", page |-> m.page]
    OBVIOUS
  <2>3. /\ Present /\ db' = [db EXCEPT ![1].status = "removed"] /\ ui' = ui /\ net' = (net \ {m}) \cup {n}
    BY <2>1, <2>2 DEF Lists!ServeRemove, Lists!Answered, ListingInv, ListingMessage
  <2>4. ListingMessage(s, n)
    BY <2>2, <2>3 DEF ListingMessage
  <2> QED BY <1>2, <2>3, <2>4
<1>5. CASE \E m \in net : Lists(s)!ServeCreate(m)
  <2>1. PICK m \in net : Lists(s)!ServeCreate(m)
    BY <1>5
  <2>2. PICK n : n = [kind |-> "created", page |-> m.page]
    OBVIOUS
  <2>3. /\ db' = Append(db, m.row) /\ ui' = ui /\ net' = (net \ {m}) \cup {n} /\ PointKept(s, m.row)
    BY <2>1, <2>2 DEF Lists!ServeCreate, Lists!Answered, ListingInv, ListingMessage
  <2>4. ListingMessage(s, n)
    BY <2>2 DEF ListingMessage
  <2>5. PICK kept : kept = rows \cup {m.row}
    OBVIOUS
  <2>6. db \in Seq(kept) /\ m.row \in kept
    BY <1>1, <2>5
  <2>7. db' \in Seq(kept) /\ DOMAIN db \subseteq DOMAIN db'
    BY <2>3, <2>6
  <2> QED BY <1>1, <2>3, <2>4, <2>5, <2>7, WritingStep
<1>6. CASE \E m \in net : Lists(s)!ServeSave(m)
  <2>1. PICK m \in net : Lists(s)!ServeSave(m)
    BY <1>6
  <2>2. PICK n : n = [kind |-> "saved", page |-> m.page]
    OBVIOUS
  <2>3. /\ db' = [db EXCEPT ![1] = m.row] /\ ui' = ui /\ net' = (net \ {m}) \cup {n} /\ Present /\ PointKept(s, m.row)
    BY <2>1, <2>2 DEF Lists!ServeSave, Lists!Answered, ListingInv, ListingMessage
  <2>4. ListingMessage(s, n)
    BY <2>2, <2>3 DEF ListingMessage
  <2>5. db' \in Seq(rows \cup {m.row}) /\ DOMAIN db' = DOMAIN db
    BY <1>1, <2>3 DEF Present
  <2> QED BY <1>1, <2>3, <2>4, <2>5, WritingStep
<1> QED BY <1>3, <1>4, <1>5, <1>6

\* It holds at first.
LEMMA ListingStart ==
  ASSUME NEW s \in ListingScreens, Lists(s)!Init
  PROVE  ListingInv(s)
<1>1. PICK none : none = [cep |-> 0, address |-> 0]
  OBVIOUS
<1>2. PICK no \in Flag : no = FALSE
  BY DEF Flag
<1>3. PICK unread : unread = [cep |-> 0, address |-> 0, point |-> none, drift |-> no, status |-> "none", price |-> 0]
  OBVIOUS
<1>4. none = Lists(s)!Nowhere /\ unread = Lists(s)!Unread
  BY <1>1, <1>2, <1>3 DEF Lists!Nowhere, Lists!Point, Lists!Unread, Lists!Row
<1>5. PointKept(s, unread)
  BY <1>3, <1>4 DEF PointKept
<1>6. PICK asked : asked = Lists(s)!NoQuestion
  OBVIOUS
<1>7. ui = [open |-> no, opens |-> 0, sends |-> 0, error |-> no, read |-> unread, cep |-> 0, address |-> 0,
            status |-> "none", located |-> none, drift |-> no, pending |-> no,
            machine |-> 0, selection |-> 0, asked |-> asked, answer |-> "none", price |-> 0]
  BY <1>2, <1>4, <1>6 DEF Lists!Init, Lists!Closed
<1>8. ListingPage(s, ui)
  BY <1>2, <1>4, <1>5, <1>7 DEF ListingPage
<1>9. QuestionOfSelection(s, ui)
  BY <1>6, <1>7 DEF QuestionOfSelection
<1>10. ListingRows(s)
  <2>1. PICK point : point = Lists(s)!Point(1, 1)
    OBVIOUS
  <2>2. PICK row : row = [cep |-> 1, address |-> 1, point |-> point, drift |-> no, status |-> "active", price |-> 0]
    OBVIOUS
  <2>3. PointKept(s, row)
    BY <2>1, <2>2 DEF PointKept
  <2>4. Lists(s)!Row(1, 1, Lists(s)!Point(1, 1), FALSE, "active", 0) = row
    BY <1>2, <2>1, <2>2 DEF Lists!Row
  <2>5. db = IF s = "listing" THEN <<row>> ELSE <<>>
    BY <2>4 DEF Lists!Init
  <2>6. db \in Seq({row}) /\ (s = "listing" => 1 \in DOMAIN db)
    <3>1. CASE s = "listing"
      <4>1. db = <<row>>
        BY <2>5, <3>1
      <4> QED BY <4>1
    <3>2. CASE s # "listing"
      <4>1. db = <<>>
        BY <2>5, <3>2
      <4> QED BY <3>2, <4>1
    <3> QED BY <3>1, <3>2
  <2> QED BY <2>3, <2>6 DEF ListingRows, Present
<1>11. net = {}
  BY DEF Lists!Init
<1> QED BY <1>8, <1>9, <1>10, <1>11 DEF ListingInv

\* Every step keeps the invariant.
LEMMA ListingNext ==
  ASSUME NEW s \in ListingScreens, ListingInv(s), Lists(s)!Next \/ UNCHANGED <<ui, db, net>>
  PROVE  ListingInv(s)'
<1>1. CASE UNCHANGED <<ui, db, net>>
  BY <1>1, ListingStep DEF ListingInv
<1>2. CASE Lists(s)!Next
  BY <1>2, MountingSteps, ListingTyping, AddressAnswers, DetailSteps, ReadingSteps, PriceSteps, SavingSteps,
     ServedSteps, ListingWritten DEF Lists!Next
<1> QED BY <1>1, <1>2

\* What the invariant says of the pages of a listing.
LEMMA ListingIsOfItsAddress ==
  ASSUME NEW s \in ListingScreens, ListingInv(s)
  PROVE  Lists(s)!PointIsOfAddress /\ Lists(s)!SuggestionIsOfItsMachine
<1>1. Lists(s)!PointIsOfAddress
  <2>1. PointKept(s, Lists(s)!Content(ui))
    BY ContentIsKept DEF ListingInv
  <2>2. ASSUME NEW i \in DOMAIN db
        PROVE  PointKept(s, db[i])
    BY <2>2 DEF ListingInv, ListingRows
  <2> QED BY <2>1, <2>2 DEF PointKept, Lists!PointIsOfAddress
<1>2. Lists(s)!SuggestionIsOfItsMachine
  BY DEF ListingInv, QuestionOfSelection, Lists!SuggestionIsOfItsMachine, Lists!Suggested
<1> QED BY <1>1, <1>2

-----------------------------------------------------------------------------
\* How a machine is found: what a page of listings keeps of its filters, and
\* what the chat keeps of its answers.
BrowserKept(s, b) ==
  /\ DOMAIN b = {"list", "rows", "work", "input", "price", "timer", "seen", "page", "pagedFor"}
  /\ IsFiniteSet(b.rows)
  /\ b.seen = Finds(s)!Signature(b)
  /\ b.page # 1 => b.pagedFor = Finds(s)!Signature(b)
  /\ ~b.timer => b.price = b.input

AnswersTyped(a) == DOMAIN a = {"application", "soil", "region", "state", "dates"}

Said(a, i) ==
  CASE i = 1 -> a.application [] i = 2 -> a.soil [] i = 3 -> a.region [] i = 4 -> a.state [] OTHER -> a.dates

\* The answers said are those kept, and a search is about all of them.
ChatKept(s, c) ==
  /\ DOMAIN c = {"open", "step", "answers", "responses", "search"} /\ AnswersTyped(c.answers)
  /\ DOMAIN c.search = {"status", "id", "about", "result"}
  /\ c.step \in 0..5 /\ \E said : c.responses \in Seq(said) /\ Len(c.responses) = c.step
  /\ \A i \in 1..c.step : c.responses[i] = Said(c.answers, i)
  /\ c.search.status # "idle" => c.step = 5 /\ c.search.about = c.answers
  /\ c.answers.state # 0 => c.answers.state \in StatesOf[s][c.answers.region]

SearchPage(s, u) ==
  /\ DOMAIN u = {"view", "visits", "asked", "reads", "chat", "browse", "ad", "cached", "signedIn"}
  /\ u.cached # <<>> => IsFiniteSet(u.cached[1])
  /\ BrowserKept(s, u.browse) /\ ChatKept(s, u.chat)
  /\ u.asked \in Nat /\ u.chat.search.id \in 0..u.asked

\* One search has one number, and the number one question.
SearchMessage(s, u, m) ==
  /\ "kind" \in DOMAIN m
  /\ m.kind \in {"recommend", "similar", "recommended"} =>
       m.id \in 1..u.asked /\ (m.id = u.chat.search.id => m.about = u.chat.search.about)
  /\ m.kind = "listed" => IsFiniteSet(m.rows)

SearchInv(s) == SearchPage(s, ui) /\ \A m \in net : SearchMessage(s, ui, m)

\* A step that asks no question of the assistant.
LEMMA SearchStep ==
  ASSUME NEW s \in SearchScreens, SearchInv(s), SearchPage(s, ui'), ui'.asked = ui.asked,
         \/ ui'.chat.search.id = 0
         \/ ui'.chat.search.id = ui.chat.search.id /\ ui'.chat.search.about = ui.chat.search.about,
         \A m \in net' : m \in net \/ SearchMessage(s, ui', m)
  PROVE  SearchInv(s)'
<1>1. \A m \in net' : SearchMessage(s, ui', m)
  <2>1. ASSUME NEW m \in net
        PROVE  SearchMessage(s, ui', m)
    BY DEF SearchInv, SearchMessage, SearchPage
  <2> QED BY <2>1
<1>2. SearchPage(s, ui)'
  BY DEF SearchPage, BrowserKept, ChatKept, Finds!Signature
<1>3. \A m \in net' : SearchMessage(s, ui, m)'
  BY <1>1 DEF SearchMessage
<1> QED BY <1>2, <1>3 DEF SearchInv

\* The quotient of two numbers is one.
LEMMA Quotient ==
  ASSUME NEW n \in Nat, NEW d \in Nat \ {0}
  PROVE  n \div d \in Nat
OBVIOUS

\* The pages count as everybody does.
LEMMA CountedAlike ==
  ASSUME NEW s \in SearchScreens, NEW S
  PROVE  Finds(s)!Cardinality(S) = Cardinality(S)
BY DEF Finds!Cardinality, Cardinality

\* There are pages, or there is none.
LEMMA PagesCounted ==
  ASSUME NEW s \in SearchScreens, NEW b, IsFiniteSet(b.rows)
  PROVE  Finds(s)!Pages(b) \in Nat
<1>1. Finds(s)!Results(b) \in SUBSET b.rows
  BY DEF Finds!Results
<1>2. Cardinality(Finds(s)!Results(b)) \in Nat
  BY <1>1, FS_Subset, FS_CardinalityType
<1>3. PICK n : n = Cardinality(Finds(s)!Results(b)) + PageSize - 1
  OBVIOUS
<1>4. n \in Nat /\ PageSize \in Nat \ {0}
  BY <1>2, <1>3, SearchAssumption
<1>5. n \div PageSize \in Nat
  BY <1>4, Quotient
<1>6. Finds(s)!Pages(b) = n \div PageSize
  BY <1>3, CountedAlike DEF Finds!Pages
<1> QED BY <1>5, <1>6

\* The listings read are as many as there are, at most.
LEMMA EntriesFinite ==
  ASSUME NEW s \in SearchScreens, NEW L \in SUBSET DOMAIN PlaceOf[s]
  PROVE  IsFiniteSet({Finds(s)!Entry(p) : p \in L})
<1> DEFINE T == {Finds(s)!Entry(p) : p \in L}
           f == [p \in L |-> Finds(s)!Entry(p)]
<1>1. IsFiniteSet(L)
  BY SearchAssumption, FS_Subset
<1>2. f \in Surjection(L, T)
  BY DEF Surjection
<1> HIDE DEF f, T
<1>3. IsFiniteSet(T)
  BY <1>1, <1>2, FS_Surjection
<1> QED BY <1>3 DEF T

\* Rendering keeps a page of the filters it was chosen under, and no other.
LEMMA RenderedKept ==
  ASSUME NEW s \in SearchScreens, NEW b, NEW view,
         DOMAIN b = {"list", "rows", "work", "input", "price", "timer", "seen", "page", "pagedFor"},
         IsFiniteSet(b.rows), b.page = 1 \/ b.pagedFor = b.seen, ~b.timer => b.price = b.input
  PROVE  BrowserKept(s, Finds(s)!Rendered(b, view))
<1>1. PICK sig : sig = Finds(s)!Signature(b)
  OBVIOUS
<1>2. PICK first : first = IF sig = b.seen THEN b ELSE [b EXCEPT !.seen = sig, !.page = 1]
  OBVIOUS
<1>3. /\ DOMAIN first = DOMAIN b /\ first.rows = b.rows /\ first.work = b.work /\ first.price = b.price
      /\ first.input = b.input /\ first.timer = b.timer /\ first.seen = sig
      /\ first.page = 1 \/ first.pagedFor = sig
  BY <1>2
<1>4. Finds(s)!Signature(first) = sig
  BY <1>1, <1>3 DEF Finds!Signature
<1>5. PICK pages : pages = IF Finds(s)!Pages(first) = 0 THEN 1 ELSE Finds(s)!Pages(first)
  OBVIOUS
<1>6. pages \in Nat \ {0}
  BY <1>3, <1>5, PagesCounted
<1>7. PICK page : page = IF first.page < pages THEN first.page ELSE pages
  OBVIOUS
<1>8. first.page = 1 => page = 1
  BY <1>6, <1>7
<1>9. PICK last : last = [first EXCEPT !.page = page]
  OBVIOUS
<1>10. /\ DOMAIN last = DOMAIN b /\ last.rows = b.rows /\ last.work = b.work /\ last.price = b.price
       /\ last.input = b.input /\ last.timer = b.timer /\ last.seen = sig /\ last.page = page
       /\ last.pagedFor = first.pagedFor
  BY <1>3, <1>9
<1>11. Finds(s)!Signature(last) = sig
  BY <1>1, <1>10 DEF Finds!Signature
<1>12. BrowserKept(s, first)
  BY <1>3, <1>4 DEF BrowserKept
<1>13. BrowserKept(s, last)
  BY <1>3, <1>8, <1>10, <1>11 DEF BrowserKept
<1>14. Finds(s)!Rendered(b, view) = IF view = "dashboard" THEN last ELSE first
  BY <1>1, <1>2, <1>5, <1>7, <1>9 DEF Finds!Rendered, Finds!Least
<1> QED BY <1>12, <1>13, <1>14

\* A search let go, and a chat started.
LEMMA IdleKept ==
  /\ DOMAIN Finds("finder")!Idle = {"status", "id", "about", "result"}
  /\ Finds("finder")!Idle.status = "idle" /\ Finds("finder")!Idle.id = 0
<1>1. PICK result : result = Finds("finder")!Unanswered
  OBVIOUS
<1>2. PICK about : about = Finds("finder")!Nothing
  OBVIOUS
<1>3. Finds("finder")!Idle = [status |-> "idle", id |-> 0, about |-> about, result |-> result]
  BY <1>1, <1>2 DEF Finds!Idle
<1> QED BY <1>3

\* A search let go is the same on every screen.
LEMMA IdleAnywhere ==
  ASSUME NEW s \in SearchScreens
  PROVE  Finds(s)!Idle = Finds("finder")!Idle
BY DEF Finds!Idle, Finds!Nothing, Finds!Unanswered

\* A chat started says nothing and asks nothing.
LEMMA FreshChatKept ==
  ASSUME NEW s \in SearchScreens, NEW c, NEW open, c = [Finds(s)!Chat EXCEPT !.open = open] \/ c = Finds(s)!Chat
  PROVE  ChatKept(s, c) /\ c.search = Finds(s)!Idle
<1>1. PICK idle : idle = Finds("finder")!Idle
  OBVIOUS
<1>2. DOMAIN idle = {"status", "id", "about", "result"} /\ idle.status = "idle" /\ idle = Finds(s)!Idle
  BY <1>1, IdleKept, IdleAnywhere
<1>3. PICK answers : answers = [application |-> 0, soil |-> 0, region |-> 0, state |-> 0, dates |-> 0]
  OBVIOUS
<1>4. PICK no : no = FALSE
  OBVIOUS
<1>5. Finds(s)!Chat = [open |-> no, step |-> 0, answers |-> answers, responses |-> <<>>, search |-> idle]
  BY <1>2, <1>3, <1>4 DEF Finds!Chat, Finds!Nothing
<1>6. /\ DOMAIN c = {"open", "step", "answers", "responses", "search"} /\ c.step = 0 /\ c.answers = answers
      /\ c.responses = <<>> /\ c.search = idle
  BY <1>5
<1>7. c.responses \in Seq({}) /\ Len(c.responses) = 0
  BY <1>6
<1> QED BY <1>2, <1>3, <1>6, <1>7 DEF ChatKept, AnswersTyped

\* A question asked is about the answers of the chat that asks it.
LEMMA RequestKept ==
  ASSUME NEW s \in SearchScreens, NEW c, ChatKept(s, c), c.step = 5, NEW id
  PROVE  LET d == Finds(s)!Request(c, id)
         IN  ChatKept(s, d) /\ (d = c \/ (d.search.id = id /\ d.search.status = "pending"))
<1>1. PICK result : result = Finds(s)!Unanswered
  OBVIOUS
<1>2. PICK search : search = [status |-> "pending", id |-> id, about |-> c.answers, result |-> result]
  OBVIOUS
<1>3. PICK d : d = [c EXCEPT !.search = search]
  OBVIOUS
<1>4. /\ DOMAIN search = {"status", "id", "about", "result"} /\ search.status = "pending" /\ search.id = id
      /\ search.about = c.answers
  BY <1>2
<1>5. /\ DOMAIN d = DOMAIN c /\ d.step = c.step /\ d.answers = c.answers /\ d.responses = c.responses
      /\ d.search = search
  BY <1>3 DEF ChatKept
<1>6. ChatKept(s, d)
  BY <1>4, <1>5 DEF ChatKept
<1>7. Finds(s)!Request(c, id) \in {c, d}
  BY <1>1, <1>2, <1>3 DEF Finds!Request
<1> QED BY <1>4, <1>5, <1>6, <1>7

\* What is said of a question is the answer to it, and to no other.
LEMMA ReplyKept ==
  ASSUME NEW s \in SearchScreens, NEW c, ChatKept(s, c), NEW r \in Finds(s)!Replies(c)
  PROVE  /\ AnswersTyped(r.answers) /\ c.step \in 0..4
         /\ Said(r.answers, c.step + 1) = r.said
         /\ \A i \in 1..c.step : Said(r.answers, i) = Said(c.answers, i)
         /\ r.answers.region # c.answers.region => c.step = 2
         /\ r.answers.region = c.answers.region /\ r.answers.state # 0 =>
              r.answers.state \in StatesOf[s][r.answers.region]
<1>1. PICK a : a = c.answers
  OBVIOUS
<1>2. AnswersTyped(a) /\ (a.state # 0 => a.state \in StatesOf[s][a.region]) /\ c.step \in 0..5
  BY <1>1 DEF ChatKept
<1>3. CASE c.step = 0
  <2>1. PICK v : r = [answers |-> [a EXCEPT !.application = v], said |-> v]
    BY <1>1, <1>3 DEF Finds!Replies
  <2>2. PICK b : b = [a EXCEPT !.application = v]
    OBVIOUS
  <2>3. r.answers = b /\ r.said = v
    BY <2>1, <2>2
  <2>4. DOMAIN b = DOMAIN a /\ b.application = v /\ b.region = a.region /\ b.state = a.state
    BY <1>2, <2>2 DEF AnswersTyped
  <2> QED BY <1>1, <1>2, <1>3, <2>3, <2>4 DEF AnswersTyped, Said
<1>4. CASE c.step = 1
  <2>1. PICK v : r = [answers |-> [a EXCEPT !.soil = v], said |-> v]
    BY <1>1, <1>4 DEF Finds!Replies
  <2>2. PICK b : b = [a EXCEPT !.soil = v]
    OBVIOUS
  <2>3. r.answers = b /\ r.said = v
    BY <2>1, <2>2
  <2>4. DOMAIN b = DOMAIN a /\ b.application = a.application /\ b.soil = v /\ b.region = a.region /\ b.state = a.state
    BY <1>2, <2>2 DEF AnswersTyped
  <2> QED BY <1>1, <1>2, <1>4, <2>3, <2>4 DEF AnswersTyped, Said
<1>5. CASE c.step = 2
  <2>1. PICK v : r = [answers |-> [a EXCEPT !.region = v], said |-> v]
    BY <1>1, <1>5 DEF Finds!Replies
  <2>2. PICK b : b = [a EXCEPT !.region = v]
    OBVIOUS
  <2>3. r.answers = b /\ r.said = v
    BY <2>1, <2>2
  <2>4. DOMAIN b = DOMAIN a /\ b.application = a.application /\ b.soil = a.soil /\ b.region = v /\ b.state = a.state
    BY <1>2, <2>2 DEF AnswersTyped
  <2> QED BY <1>1, <1>2, <1>5, <2>3, <2>4 DEF AnswersTyped, Said
<1>6. CASE c.step = 3
  <2>1. PICK v \in StatesOf[s][a.region] : r = [answers |-> [a EXCEPT !.state = v], said |-> v]
    BY <1>1, <1>6 DEF Finds!Replies
  <2>2. PICK b : b = [a EXCEPT !.state = v]
    OBVIOUS
  <2>3. r.answers = b /\ r.said = v
    BY <2>1, <2>2
  <2>4. DOMAIN b = DOMAIN a /\ b.application = a.application /\ b.soil = a.soil /\ b.region = a.region /\ b.state = v
    BY <1>2, <2>2 DEF AnswersTyped
  <2> QED BY <1>1, <1>2, <1>6, <2>1, <2>3, <2>4 DEF AnswersTyped, Said
<1>7. CASE c.step = 4
  <2>1. PICK v : r = [answers |-> [a EXCEPT !.dates = v], said |-> v]
    BY <1>1, <1>7 DEF Finds!Replies
  <2>2. PICK b : b = [a EXCEPT !.dates = v]
    OBVIOUS
  <2>3. r.answers = b /\ r.said = v
    BY <2>1, <2>2
  <2>4. /\ DOMAIN b = DOMAIN a /\ b.application = a.application /\ b.soil = a.soil /\ b.region = a.region
        /\ b.state = a.state /\ b.dates = v
    BY <1>2, <2>2 DEF AnswersTyped
  <2> QED BY <1>1, <1>2, <1>7, <2>3, <2>4 DEF AnswersTyped, Said
<1>8. c.step # 5
  BY DEF Finds!Replies
<1> QED BY <1>2, <1>3, <1>4, <1>5, <1>6, <1>7, <1>8

\* A question answered: the region that changes takes the state away with it.
LEMMA AnsweredKept ==
  ASSUME NEW s \in SearchScreens, NEW c, ChatKept(s, c), NEW r \in Finds(s)!Replies(c), NEW id
  PROVE  LET d == Finds(s)!Answered(c, r.answers, r.said, id)
         IN  ChatKept(s, d) /\ (d.search = c.search \/ (d.search.id = id /\ d.search.status = "pending"))
<1>1. /\ AnswersTyped(r.answers) /\ c.step \in 0..4
      /\ Said(r.answers, c.step + 1) = r.said
      /\ \A i \in 1..c.step : Said(r.answers, i) = Said(c.answers, i)
      /\ r.answers.region # c.answers.region => c.step = 2
      /\ r.answers.region = c.answers.region /\ r.answers.state # 0 =>
           r.answers.state \in StatesOf[s][r.answers.region]
  BY ReplyKept
<1>2. PICK a : a = IF r.answers.region = c.answers.region THEN r.answers ELSE [r.answers EXCEPT !.state = 0]
  OBVIOUS
<1>3. /\ AnswersTyped(a) /\ (a.state # 0 => a.state \in StatesOf[s][a.region])
      /\ \A i \in 1..(c.step + 1) : Said(a, i) = Said(r.answers, i)
  <2>1. CASE r.answers.region = c.answers.region
    BY <1>1, <1>2, <2>1
  <2>2. CASE r.answers.region # c.answers.region
    <3>1. DOMAIN a = DOMAIN r.answers /\ a.state = 0
      BY <1>1, <1>2, <2>2 DEF AnswersTyped
    <3>2. a.application = r.answers.application /\ a.soil = r.answers.soil /\ a.region = r.answers.region
      BY <1>1, <1>2, <2>2 DEF AnswersTyped
    <3>3. c.step + 1 = 3
      BY <1>1, <2>2
    <3>4. \A i \in 1..3 : Said(a, i) = Said(r.answers, i)
      BY <3>2 DEF Said
    <3> QED BY <1>1, <3>1, <3>3, <3>4 DEF AnswersTyped
  <2> QED BY <2>1, <2>2
<1>4. PICK old : c.responses \in Seq(old) /\ Len(c.responses) = c.step
  BY DEF ChatKept
<1>5. PICK said : said = old \cup {r.said}
  OBVIOUS
<1>6. PICK responses : responses = Append(SubSeq(c.responses, 1, c.step), r.said)
  OBVIOUS
<1>7. /\ responses \in Seq(said) /\ Len(responses) = c.step + 1 /\ responses[c.step + 1] = r.said
      /\ \A i \in 1..c.step : responses[i] = c.responses[i]
  <2>1. c.responses \in Seq(said) /\ r.said \in said /\ c.step \in Nat
    BY <1>1, <1>4, <1>5
  <2>2. PICK q : q = SubSeq(c.responses, 1, c.step)
    OBVIOUS
  <2>3. q \in Seq(said) /\ Len(q) = c.step /\ \A i \in 1..c.step : q[i] = c.responses[i]
    BY <1>4, <2>1, <2>2
  <2> QED BY <1>6, <2>1, <2>2, <2>3
<1>8. PICK next : next = [c EXCEPT !.answers = a, !.responses = responses, !.step = c.step + 1]
  OBVIOUS
<1>9. /\ DOMAIN next = DOMAIN c /\ next.answers = a /\ next.responses = responses /\ next.step = c.step + 1
      /\ next.search = c.search
  BY <1>8 DEF ChatKept
<1>10. \A i \in 1..next.step : next.responses[i] = Said(next.answers, i)
  <2>1. ASSUME NEW i \in 1..(c.step + 1)
        PROVE  responses[i] = Said(a, i)
    <3>1. CASE i = c.step + 1
      BY <1>1, <1>3, <1>7, <3>1
    <3>2. CASE i # c.step + 1
      <4>1. i \in 1..c.step
        BY <1>1, <3>2
      <4> QED BY <1>1, <1>3, <1>7, <4>1 DEF ChatKept
    <3> QED BY <3>1, <3>2
  <2> QED BY <1>9, <2>1
<1>11. c.search.status = "idle" /\ next.step \in 1..5
  BY <1>1, <1>9 DEF ChatKept
<1>12. ChatKept(s, next)
  <2>1. next.responses \in Seq(said) /\ Len(next.responses) = next.step
    BY <1>7, <1>9
  <2>2. /\ DOMAIN next = {"open", "step", "answers", "responses", "search"}
        /\ DOMAIN next.search = {"status", "id", "about", "result"}
    BY <1>9 DEF ChatKept
  <2>3. next.search.status = "idle" /\ next.step \in 0..5
    BY <1>9, <1>11
  <2>4. /\ AnswersTyped(next.answers)
        /\ next.answers.state # 0 => next.answers.state \in StatesOf[s][next.answers.region]
    BY <1>3, <1>9
  <2> QED BY <1>10, <2>1, <2>2, <2>3, <2>4 DEF ChatKept
<1>13. Finds(s)!Answered(c, r.answers, r.said, id) = IF c.step = 4 THEN Finds(s)!Request(next, id) ELSE next
  BY <1>2, <1>6, <1>8 DEF Finds!Answered, Finds!Questions, ChatKept
<1>14. CASE c.step = 4
  BY <1>9, <1>12, <1>13, <1>14, RequestKept
<1>15. CASE c.step # 4
  BY <1>9, <1>12, <1>13, <1>15
<1> QED BY <1>14, <1>15

\* The chat becomes c: it asks, or it does not.
LEMMA ChattingStep ==
  ASSUME NEW s \in SearchScreens, SearchInv(s), NEW c, Finds(s)!Chatting(c), ChatKept(s, c),
         \/ c.search.id = 0 /\ c.search.status = "idle"
         \/ c.search = ui.chat.search
         \/ c.search.id = ui.asked + 1 /\ c.search.status = "pending"
  PROVE  SearchInv(s)'
<1>1. ui.asked \in Nat /\ ui.chat.search.id \in 0..ui.asked
  BY DEF SearchInv, SearchPage
<1>2. CASE c.search.status # "pending" \/ c.search.id = ui.chat.search.id
  <2>1. ui' = [ui EXCEPT !.chat = c] /\ net' = net
    BY <1>2 DEF Finds!Chatting, SearchInv, SearchPage
  <2>2. /\ ui'.chat = c /\ ui'.asked = ui.asked /\ ui'.browse = ui.browse /\ ui'.cached = ui.cached
        /\ DOMAIN ui' = DOMAIN ui
    BY <2>1 DEF SearchInv, SearchPage
  <2>3. c.search.id = 0 \/ c.search = ui.chat.search
    BY <1>1, <1>2
  <2>4. SearchPage(s, ui')
    BY <1>1, <2>2, <2>3 DEF SearchInv, SearchPage
  <2> QED BY <2>1, <2>2, <2>3, <2>4, SearchStep
<1>3. CASE c.search.status = "pending" /\ c.search.id # ui.chat.search.id
  <2>1. c.search.id = ui.asked + 1
    BY <1>3
  <2>2. PICK n : n = [kind |-> "recommend", id |-> c.search.id, about |-> c.search.about]
    OBVIOUS
  <2>3. ui' = [ui EXCEPT !.chat = c, !.asked = c.search.id] /\ net' = net \cup {n}
    BY <1>3, <2>2 DEF Finds!Chatting
  <2>4. /\ ui'.chat = c /\ ui'.asked = c.search.id /\ ui'.browse = ui.browse /\ ui'.cached = ui.cached
        /\ DOMAIN ui' = DOMAIN ui
    BY <2>3 DEF SearchInv, SearchPage
  <2>5. SearchPage(s, ui')
    BY <1>1, <2>1, <2>4 DEF SearchInv, SearchPage
  <2>6. SearchMessage(s, ui', n)
    BY <1>1, <2>1, <2>2, <2>4 DEF SearchMessage
  <2>7. ASSUME NEW m \in net
        PROVE  SearchMessage(s, ui', m)
    BY <1>1, <2>1, <2>4 DEF SearchInv, SearchMessage
  <2>8. \A m \in net' : SearchMessage(s, ui', m)
    BY <2>3, <2>6, <2>7
  <2>9. SearchPage(s, ui)' /\ \A m \in net' : SearchMessage(s, ui, m)'
    BY <2>5, <2>8 DEF SearchPage, BrowserKept, ChatKept, Finds!Signature, SearchMessage
  <2> QED BY <2>9 DEF SearchInv
<1> QED BY <1>2, <1>3

\* The chat is answered, taken back, restarted, or asks again.
LEMMA ChatSteps ==
  ASSUME NEW s \in SearchScreens, SearchInv(s),
         Finds(s)!Reply \/ Finds(s)!StepBack \/ Finds(s)!Restart \/ Finds(s)!Retry
  PROVE  SearchInv(s)'
<1>1. ChatKept(s, ui.chat)
  BY DEF SearchInv, SearchPage
<1>2. CASE Finds(s)!Reply
  <2>1. PICK r \in Finds(s)!Replies(ui.chat) :
           Finds(s)!Chatting(Finds(s)!Answered(ui.chat, r.answers, r.said, ui.asked + 1))
    BY <1>2 DEF Finds!Reply
  <2>2. PICK c : c = Finds(s)!Answered(ui.chat, r.answers, r.said, ui.asked + 1)
    OBVIOUS
  <2>3. ChatKept(s, c) /\ (c.search = ui.chat.search \/ (c.search.id = ui.asked + 1 /\ c.search.status = "pending"))
    BY <1>1, <2>2, AnsweredKept
  <2> QED BY <2>1, <2>2, <2>3, ChattingStep
<1>3. CASE Finds(s)!StepBack
  <2>1. PICK idle : idle = Finds("finder")!Idle
    OBVIOUS
  <2>2. /\ DOMAIN idle = {"status", "id", "about", "result"}
        /\ idle.status = "idle" /\ idle.id = 0 /\ idle = Finds(s)!Idle
    BY <2>1, IdleKept, IdleAnywhere
  <2>3. PICK responses : responses = SubSeq(ui.chat.responses, 1, ui.chat.step - 1)
    OBVIOUS
  <2>4. PICK c : c = [ui.chat EXCEPT !.search = idle, !.step = ui.chat.step - 1, !.responses = responses]
    OBVIOUS
  <2>5. Finds(s)!Back(ui.chat) = c
    BY <1>1, <2>2, <2>3, <2>4 DEF Finds!Back, ChatKept
  <2>6. PICK said : ui.chat.responses \in Seq(said) /\ Len(ui.chat.responses) = ui.chat.step
    BY <1>1 DEF ChatKept
  <2>7. ui.chat.step \in 1..5 /\ Finds(s)!Chatting(c)
    BY <1>1, <1>3, <2>5 DEF Finds!StepBack, ChatKept
  <2>8. /\ responses \in Seq(said) /\ Len(responses) = ui.chat.step - 1
        /\ \A i \in 1..(ui.chat.step - 1) : responses[i] = ui.chat.responses[i]
    BY <2>3, <2>6, <2>7, SMTT(30)
  <2>9. /\ DOMAIN c = DOMAIN ui.chat /\ c.answers = ui.chat.answers /\ c.search = idle
        /\ c.step = ui.chat.step - 1 /\ c.responses = responses
    BY <1>1, <2>4 DEF ChatKept
  <2>10. \A i \in 1..c.step : c.responses[i] = Said(c.answers, i)
    BY <1>1, <2>7, <2>8, <2>9 DEF ChatKept
  <2>11. c.responses \in Seq(said) /\ Len(c.responses) = c.step /\ c.step \in 0..5
    BY <2>7, <2>8, <2>9
  <2>12. ChatKept(s, c)
    BY <1>1, <2>2, <2>9, <2>10, <2>11 DEF ChatKept
  <2> QED BY <2>2, <2>7, <2>9, <2>12, ChattingStep
<1>4. CASE Finds(s)!Restart
  <2>1. PICK yes \in Flag : yes = TRUE
    BY DEF Flag
  <2>2. PICK c : c = [Finds(s)!Chat EXCEPT !.open = yes]
    OBVIOUS
  <2>3. Finds(s)!Chatting(c)
    BY <1>4, <2>1, <2>2 DEF Finds!Restart
  <2>4. ChatKept(s, c) /\ c.search = Finds(s)!Idle
    BY <2>2, FreshChatKept
  <2>5. c.search.id = 0 /\ c.search.status = "idle"
    BY <2>4, IdleKept, IdleAnywhere
  <2> QED BY <2>3, <2>4, <2>5, ChattingStep
<1>5. CASE Finds(s)!Retry
  <2>1. PICK c : c = Finds(s)!Request(ui.chat, ui.asked + 1)
    OBVIOUS
  <2>2. Finds(s)!Chatting(c) /\ ui.chat.search.status \in {"failed", "done"}
    BY <1>5, <2>1 DEF Finds!Retry
  <2>3. ui.chat.step = 5
    BY <1>1, <2>2 DEF ChatKept
  <2>4. ChatKept(s, c) /\ (c = ui.chat \/ (c.search.id = ui.asked + 1 /\ c.search.status = "pending"))
    BY <1>1, <2>1, <2>3, RequestKept
  <2> QED BY <2>2, <2>4, ChattingStep
<1> QED BY <1>2, <1>3, <1>4, <1>5

\* Only the chat's own answer is heard.
LEMMA AssistantSteps ==
  ASSUME NEW s \in SearchScreens, SearchInv(s),
         \/ Finds(s)!Toggle
         \/ \E m \in net : Finds(s)!RecommendedArrives(m) \/ Finds(s)!RecommendFails(m)
  PROVE  SearchInv(s)'
<1> DEFINE Becomes(c) == /\ DOMAIN ui' = DOMAIN ui /\ ui'.chat = c /\ ui'.asked = ui.asked
                         /\ ui'.browse = ui.browse /\ ui'.cached = ui.cached
<1>1. PICK c :
        /\ Becomes(c) /\ net' \subseteq net
        /\ ChatKept(s, c) /\ c.search.id = ui.chat.search.id /\ c.search.about = ui.chat.search.about
  <2>1. CASE Finds(s)!Toggle
    <3>1. PICK open : open = ~ui.chat.open
      OBVIOUS
    <3>2. PICK c : c = [ui.chat EXCEPT !.open = open]
      OBVIOUS
    <3>3. ui' = [ui EXCEPT !.chat = c] /\ net' = net
      BY <2>1, <3>1, <3>2 DEF Finds!Toggle, SearchInv, SearchPage, ChatKept
    <3>4. /\ DOMAIN c = DOMAIN ui.chat /\ c.answers = ui.chat.answers /\ c.search = ui.chat.search
          /\ c.step = ui.chat.step /\ c.responses = ui.chat.responses
      BY <3>2 DEF SearchInv, SearchPage, ChatKept
    <3>5. ChatKept(s, c)
      BY <3>4 DEF SearchInv, SearchPage, ChatKept
    <3>6. Becomes(c)
      BY <3>3 DEF SearchInv, SearchPage
    <3> QED BY <3>3, <3>4, <3>5, <3>6
  <2>2. ASSUME NEW m \in net, Finds(s)!RecommendedArrives(m) \/ Finds(s)!RecommendFails(m), Finds(s)!Heard(m)
        PROVE  \E c : /\ Becomes(c) /\ net' \subseteq net
                      /\ ChatKept(s, c) /\ c.search.id = ui.chat.search.id /\ c.search.about = ui.chat.search.about
    <3>1. m.id = ui.chat.search.id /\ ui.chat.search.status = "pending"
      BY <2>2, SMTT(30) DEF Finds!Heard
    <3>2. m.about = ui.chat.search.about
      BY <2>2, <3>1 DEF Finds!RecommendedArrives, Finds!RecommendFails, SearchInv, SearchMessage
    <3>3. PICK search :
            /\ ui' = [ui EXCEPT !.chat.search = search]
            /\ DOMAIN search = DOMAIN ui.chat.search /\ search.id = ui.chat.search.id
            /\ search.about = ui.chat.search.about
      <4>1. CASE Finds(s)!RecommendedArrives(m)
        <5>1. PICK search : search = [ui.chat.search EXCEPT !.status = "done", !.about = m.about, !.result = m.result]
          OBVIOUS
        <5>2. ui' = [ui EXCEPT !.chat.search = search]
          BY <2>2, <4>1, <5>1 DEF Finds!RecommendedArrives, SearchInv, SearchPage, ChatKept
        <5>3. /\ DOMAIN search = DOMAIN ui.chat.search /\ search.id = ui.chat.search.id
              /\ search.about = ui.chat.search.about
          BY <3>2, <5>1 DEF SearchInv, SearchPage, ChatKept
        <5> QED BY <5>2, <5>3
      <4>2. CASE Finds(s)!RecommendFails(m)
        <5>1. PICK search : search = [ui.chat.search EXCEPT !.status = "failed"]
          OBVIOUS
        <5>2. ui' = [ui EXCEPT !.chat.search = search]
          BY <2>2, <4>2, <5>1 DEF Finds!RecommendFails, SearchInv, SearchPage, ChatKept
        <5>3. /\ DOMAIN search = DOMAIN ui.chat.search /\ search.id = ui.chat.search.id
              /\ search.about = ui.chat.search.about
          BY <5>1 DEF SearchInv, SearchPage, ChatKept
        <5> QED BY <5>2, <5>3
      <4> QED BY <2>2, <4>1, <4>2
    <3>4. PICK c : c = [ui.chat EXCEPT !.search = search]
      OBVIOUS
    <3>5. ui' = [ui EXCEPT !.chat = c]
      BY <3>3, <3>4 DEF SearchInv, SearchPage, ChatKept
    <3>6. Becomes(c)
      BY <3>5 DEF SearchInv, SearchPage
    <3>7. /\ DOMAIN c = DOMAIN ui.chat /\ c.answers = ui.chat.answers /\ c.search = search
          /\ c.step = ui.chat.step /\ c.responses = ui.chat.responses
      BY <3>4 DEF SearchInv, SearchPage, ChatKept
    <3>9. ChatKept(s, c)
      BY <3>1, <3>3, <3>7, SMTT(30) DEF SearchInv, SearchPage, ChatKept
    <3>10. net' \subseteq net
      BY <2>2 DEF Finds!RecommendedArrives, Finds!RecommendFails
    <3> QED BY <3>3, <3>6, <3>7, <3>9, <3>10
  <2>3. ASSUME NEW m \in net, Finds(s)!RecommendedArrives(m) \/ Finds(s)!RecommendFails(m), ~Finds(s)!Heard(m)
        PROVE  \E c : /\ Becomes(c) /\ net' \subseteq net
                      /\ ChatKept(s, c) /\ c.search.id = ui.chat.search.id /\ c.search.about = ui.chat.search.about
    <3>1. ui' = ui /\ net' \subseteq net
      BY <2>3 DEF Finds!RecommendedArrives, Finds!RecommendFails
    <3> QED BY <3>1, SMTT(30) DEF SearchInv, SearchPage
  <2> QED BY <2>1, <2>2, <2>3
<1>2. SearchPage(s, ui')
  BY <1>1 DEF SearchInv, SearchPage
<1> QED BY <1>1, <1>2, SearchStep

\* A step of a page of listings.
LEMMA BrowseStep ==
  ASSUME NEW s \in SearchScreens, SearchInv(s), NEW b, BrowserKept(s, b), ui' = [ui EXCEPT !.browse = b],
         net' \subseteq net
  PROVE  SearchInv(s)'
<1>1. ui'.browse = b /\ ui'.asked = ui.asked /\ ui'.chat = ui.chat /\ ui'.cached = ui.cached /\ DOMAIN ui' = DOMAIN ui
  BY DEF SearchInv, SearchPage
<1>2. SearchPage(s, ui')
  BY <1>1 DEF SearchInv, SearchPage
<1> QED BY <1>1, <1>2, SearchStep

\* The filters, the order and the page are chosen.
LEMMA FilterSteps ==
  ASSUME NEW s \in SearchScreens, SearchInv(s),
         \/ Finds(s)!PriceSettles \/ Finds(s)!Clear \/ Finds(s)!Sort
         \/ \E w : Finds(s)!TypeWork(w)
         \/ \E v : Finds(s)!TypePrice(v)
         \/ \E page : Finds(s)!Turn(page)
  PROVE  SearchInv(s)'
<1> DEFINE Fields == {"list", "rows", "work", "input", "price", "timer", "seen", "page", "pagedFor"}
           Chosen(b) == /\ DOMAIN b = Fields /\ b.rows = ui.browse.rows
                        /\ b.page = 1 \/ b.pagedFor = b.seen
                        /\ ~b.timer => b.price = b.input
<1>1. /\ DOMAIN ui.browse = Fields /\ IsFiniteSet(ui.browse.rows) /\ ui.browse.seen = Finds(s)!Signature(ui.browse)
      /\ ui.browse.page = 1 \/ ui.browse.pagedFor = ui.browse.seen
      /\ ~ui.browse.timer => ui.browse.price = ui.browse.input
  BY DEF SearchInv, SearchPage, BrowserKept
<1>2. ASSUME NEW b, Chosen(b), Finds(s)!Shows(b), net' = net
      PROVE  SearchInv(s)'
  <2>1. BrowserKept(s, Finds(s)!Rendered(b, ui.view))
    BY <1>1, <1>2, RenderedKept
  <2> QED BY <1>2, <2>1, BrowseStep DEF Finds!Shows
<1>3. CASE Finds(s)!PriceSettles
  <2>1. PICK no \in Flag : no = FALSE
    BY DEF Flag
  <2>2. PICK b : b = [ui.browse EXCEPT !.price = ui.browse.input, !.timer = no]
    OBVIOUS
  <2>3. Finds(s)!Shows(b) /\ net' = net
    BY <1>3, <2>1, <2>2 DEF Finds!PriceSettles
  <2>4. Chosen(b)
    BY <1>1, <2>2
  <2> HIDE DEF Chosen
  <2> QED BY <1>2, <2>3, <2>4
<1>4. CASE Finds(s)!Clear
  <2>1. PICK timer : timer = (ui.browse.timer \/ (ui.view = "list" /\ ui.browse.input # 0))
    OBVIOUS
  <2>2. PICK b : b = [ui.browse EXCEPT !.work = 0, !.input = 0, !.price = 0, !.timer = timer]
    OBVIOUS
  <2>3. Finds(s)!Shows(b) /\ net' = net
    BY <1>1, <1>4, <2>1, <2>2 DEF Finds!Clear
  <2>4. Chosen(b)
    BY <1>1, <2>2
  <2> HIDE DEF Chosen
  <2> QED BY <1>2, <2>3, <2>4
<1>5. CASE Finds(s)!Sort
  <2>1. PICK b : b = [ui.browse EXCEPT !.page = 1]
    OBVIOUS
  <2>2. Finds(s)!Shows(b) /\ net' = net
    BY <1>5, <2>1 DEF Finds!Sort
  <2>3. Chosen(b)
    BY <1>1, <2>1
  <2> HIDE DEF Chosen
  <2> QED BY <1>2, <2>2, <2>3
<1>6. CASE \E w : Finds(s)!TypeWork(w)
  <2>1. PICK w : Finds(s)!TypeWork(w)
    BY <1>6
  <2>2. PICK b : b = [ui.browse EXCEPT !.work = w]
    OBVIOUS
  <2>3. Finds(s)!Shows(b) /\ net' = net
    BY <2>1, <2>2 DEF Finds!TypeWork
  <2>4. Chosen(b)
    BY <1>1, <2>2
  <2> HIDE DEF Chosen
  <2> QED BY <1>2, <2>3, <2>4
<1>7. CASE \E v : Finds(s)!TypePrice(v)
  <2>1. PICK v : Finds(s)!TypePrice(v)
    BY <1>7
  <2>2. PICK yes \in Flag : yes = TRUE
    BY DEF Flag
  <2>3. PICK later : later = [ui.browse EXCEPT !.input = v, !.timer = yes]
    OBVIOUS
  <2>4. PICK now : now = [ui.browse EXCEPT !.input = v, !.price = v]
    BY SMTT(30)
  <2>5. (Finds(s)!Shows(later) \/ Finds(s)!Shows(now)) /\ net' = net
    BY <2>1, <2>2, <2>3, <2>4 DEF Finds!TypePrice
  <2>6. Chosen(later)
    BY <1>1, <2>2, <2>3
  <2>7. Chosen(now)
    BY <1>1, <2>4
  <2> HIDE DEF Chosen
  <2> QED BY <1>2, <2>5, <2>6, <2>7
<1>8. CASE \E page : Finds(s)!Turn(page)
  <2>1. PICK page : Finds(s)!Turn(page)
    BY <1>8
  <2>2. PICK b : b = [ui.browse EXCEPT !.page = page, !.pagedFor = Finds(s)!Signature(ui.browse)]
    OBVIOUS
  <2>3. Finds(s)!Shows(b) /\ net' = net
    BY <2>1, <2>2 DEF Finds!Turn
  <2>4. Chosen(b)
    BY <1>1, <2>2
  <2> HIDE DEF Chosen
  <2> QED BY <1>2, <2>3, <2>4
<1> QED BY <1>3, <1>4, <1>5, <1>6, <1>7, <1>8

\* A page is mounted afresh, over what the browser keeps of the public list.
LEMMA MountedKept ==
  ASSUME NEW s \in SearchScreens, SearchInv(s), NEW view, NEW posting, NEW cached,
         cached # <<>> => IsFiniteSet(cached[1])
  PROVE  LET u == Finds(s)!Mounted(view, posting, cached)
         IN  SearchPage(s, u) /\ u.asked = ui.asked /\ u.chat.search.id = 0
<1>1. PICK chat : chat = Finds(s)!Chat
  OBVIOUS
<1>2. ChatKept(s, chat) /\ chat.search.id = 0
  BY <1>1, FreshChatKept, IdleKept, IdleAnywhere
<1>3. PICK none : none = <<0, 0>>
  OBVIOUS
<1>4. PICK no \in Flag : no = FALSE
  BY DEF Flag
<1>5. PICK b : b = [list |-> "loading", rows |-> {}, work |-> 0, input |-> 0, price |-> 0, timer |-> no,
                    seen |-> none, page |-> 1, pagedFor |-> none]
  OBVIOUS
<1>6. b = Finds(s)!Browser
  BY <1>3, <1>4, <1>5 DEF Finds!Browser
<1>7. PICK read : read = [b EXCEPT !.list = "shown", !.rows = cached[1], !.timer = TRUE]
  OBVIOUS
<1>8. PICK timer : timer = (view = "list")
  OBVIOUS
<1>9. PICK unread : unread = [b EXCEPT !.timer = timer]
  OBVIOUS
<1>10. PICK browse : browse = IF view = "list" /\ cached # <<>> THEN read ELSE unread
  OBVIOUS
<1>11. BrowserKept(s, browse)
  <2>1. /\ DOMAIN b = {"list", "rows", "work", "input", "price", "timer", "seen", "page", "pagedFor"}
        /\ b.rows = {} /\ b.work = 0 /\ b.price = 0 /\ b.input = 0 /\ b.seen = none /\ b.page = 1
    BY <1>5
  <2>2. ASSUME cached # <<>>
        PROVE  BrowserKept(s, read)
    <3>1. /\ DOMAIN read = DOMAIN b /\ read.rows = cached[1] /\ read.work = 0 /\ read.price = 0
          /\ read.input = 0 /\ read.seen = none /\ read.page = 1
      BY <1>7, <2>1
    <3> QED BY <1>3, <2>1, <2>2, <3>1 DEF BrowserKept, Finds!Signature
  <2>3. BrowserKept(s, unread)
    <3>1. /\ DOMAIN unread = DOMAIN b /\ unread.rows = {} /\ unread.work = 0 /\ unread.price = 0
          /\ unread.input = 0 /\ unread.seen = none /\ unread.page = 1
      BY <1>9, <2>1
    <3> QED BY <1>3, <2>1, <3>1, FS_EmptySet DEF BrowserKept, Finds!Signature
  <2> QED BY <1>10, <2>2, <2>3
<1>12. PICK ad : ad = [Finds(s)!Page EXCEPT !.posting = posting]
  OBVIOUS
<1>13. PICK u : u = [ui EXCEPT !.view = view, !.visits = ui.visits + 1, !.chat = chat, !.ad = ad,
                               !.browse = browse, !.cached = cached]
  OBVIOUS
<1>14. Finds(s)!Mounted(view, posting, cached) = u
  BY <1>1, <1>6, <1>7, <1>8, <1>9, <1>10, <1>12, <1>13 DEF Finds!Mounted, SearchInv, SearchPage
<1>15. DOMAIN u = DOMAIN ui /\ u.chat = chat /\ u.browse = browse /\ u.cached = cached /\ u.asked = ui.asked
  BY <1>13 DEF SearchInv, SearchPage
<1>16. SearchPage(s, u)
  BY <1>2, <1>11, <1>15 DEF SearchInv, SearchPage
<1> QED BY <1>2, <1>14, <1>15, <1>16

\* A message that no invariant is about.
Plain(m) == "kind" \in DOMAIN m /\ m.kind \in {"list", "detail", "bookings", "thread"}

\* A page is visited, or left for another.
LEMMA VisitSteps ==
  ASSUME NEW s \in SearchScreens, SearchInv(s),
         \/ Finds(s)!VisitHome \/ Finds(s)!Talk
         \/ \E view : Finds(s)!VisitList(view)
         \/ \E p : Finds(s)!OpenAd(p)
         \/ \E m \in net : Finds(s)!ThreadArrives(m)
  PROVE  SearchInv(s)'
<1>1. ui.cached # <<>> => IsFiniteSet(ui.cached[1])
  BY DEF SearchInv, SearchPage
<1>2. ASSUME NEW u, SearchPage(s, u), u.asked = ui.asked, u.chat.search.id = 0,
             NEW visits, NEW reads, ui' = [u EXCEPT !.visits = visits, !.reads = reads],
             \A m \in net' : m \in net \/ Plain(m)
      PROVE  SearchInv(s)'
  <2>1. /\ ui'.browse = u.browse /\ ui'.asked = u.asked /\ ui'.chat = u.chat /\ ui'.cached = u.cached
        /\ DOMAIN ui' = DOMAIN u
    BY <1>2 DEF SearchPage
  <2>2. SearchPage(s, ui')
    BY <1>2, <2>1 DEF SearchPage
  <2>3. \A m \in net' : m \in net \/ SearchMessage(s, ui', m)
    BY <1>2 DEF Plain, SearchMessage
  <2> QED BY <1>2, <2>1, <2>2, <2>3, SearchStep
<1>3. CASE \E view : Finds(s)!VisitList(view)
  <2>1. PICK view : Finds(s)!VisitList(view)
    BY <1>3
  <2>2. PICK cached \in {ui.cached, <<>>}, fresh \in BOOLEAN :
           LET u == Finds(s)!Mounted(view, 0, cached)
               read == ~(fresh /\ view = "list" /\ cached # <<>>)
           IN  /\ read => ui.reads < MaxReads[s]
               /\ ui' = [u EXCEPT !.reads = IF read THEN @ + 1 ELSE @]
               /\ net' = IF read THEN Finds(s)!Reading(view, u.visits) ELSE net
    BY <2>1 DEF Finds!VisitList
  <2>3. PICK u : u = Finds(s)!Mounted(view, 0, cached)
    OBVIOUS
  <2>4. PICK reads : reads = IF ~(fresh /\ view = "list" /\ cached # <<>>) THEN u.reads + 1 ELSE u.reads
    OBVIOUS
  <2>5. ui' = [u EXCEPT !.reads = reads] /\ net' \in {net, Finds(s)!Reading(view, u.visits)}
    BY <2>2, <2>3, <2>4
  <2>6. cached # <<>> => IsFiniteSet(cached[1])
    BY <1>1, <2>2
  <2>7. SearchPage(s, u) /\ u.asked = ui.asked /\ u.chat.search.id = 0
    BY <2>3, <2>6, MountedKept
  <2>8. ui' = [u EXCEPT !.visits = u.visits, !.reads = reads]
    BY <2>5, <2>7 DEF SearchPage
  <2>9. \A m \in net' : m \in net \/ Plain(m)
    BY <2>5 DEF Plain, Finds!Reading
  <2> QED BY <1>2, <2>7, <2>8, <2>9
<1>4. CASE Finds(s)!VisitHome \/ (\E p : Finds(s)!OpenAd(p))
  <2>1. PICK view, posting, u :
           /\ u = Finds(s)!Mounted(view, posting, ui.cached) /\ ui' = u
           /\ \A m \in net' : m \in net \/ Plain(m)
    <3>1. CASE Finds(s)!VisitHome
      BY <3>1 DEF Finds!VisitHome
    <3>2. CASE \E p : Finds(s)!OpenAd(p)
      <4>1. PICK p : Finds(s)!OpenAd(p)
        BY <3>2
      <4>2. PICK m1 : m1 = [kind |-> "detail", posting |-> p, visit |-> ui.visits + 1]
        OBVIOUS
      <4>3. PICK m2 : m2 = [kind |-> "bookings", posting |-> p, visit |-> ui.visits + 1]
        OBVIOUS
      <4>4. ui' = Finds(s)!Mounted("ad", p, ui.cached) /\ net' = net \cup {m1, m2}
        BY <4>1, <4>2, <4>3 DEF Finds!OpenAd
      <4>5. Plain(m1) /\ Plain(m2)
        BY <4>2, <4>3 DEF Plain
      <4> QED BY <4>4, <4>5
    <3> QED BY <1>4, <3>1, <3>2
  <2>2. SearchPage(s, u) /\ u.asked = ui.asked /\ u.chat.search.id = 0
    BY <1>1, <2>1, MountedKept
  <2>3. \A m \in net' : m \in net \/ SearchMessage(s, ui', m)
    BY <2>1 DEF Plain, SearchMessage
  <2> QED BY <2>1, <2>2, <2>3, SearchStep
<1>5. CASE (Finds(s)!Talk /\ ~ui.signedIn) \/ (\E m \in net : Finds(s)!ThreadArrives(m))
  <2>1. PICK u : u = Finds(s)!Mounted("away", 0, ui.cached)
    OBVIOUS
  <2>2. SearchPage(s, u) /\ u.asked = ui.asked /\ u.chat.search.id = 0
    BY <1>1, <2>1, MountedKept
  <2>3. ui' = [u EXCEPT !.visits = ui.visits] /\ net' \subseteq net
    BY <1>5, <2>1 DEF Finds!Talk, Finds!ThreadArrives
  <2>4. ui' = [u EXCEPT !.visits = ui.visits, !.reads = u.reads]
    BY <2>2, <2>3 DEF SearchPage
  <2>5. \A m \in net' : m \in net \/ Plain(m)
    BY <2>3
  <2>6. PICK visits, reads : visits = ui.visits /\ reads = u.reads
    OBVIOUS
  <2>7. ui' = [u EXCEPT !.visits = visits, !.reads = reads]
    BY <2>4, <2>6
  <2> QED BY <1>2, <2>2, <2>5, <2>7
<1>6. CASE Finds(s)!Talk /\ ui.signedIn
  <2>1. PICK n : n = [kind |-> "thread", visit |-> ui.visits]
    OBVIOUS
  <2>2. ui' = [ui EXCEPT !.ad.talking = TRUE] /\ net' = net \cup {n}
    BY <1>6, <2>1 DEF Finds!Talk
  <2>3. /\ ui'.browse = ui.browse /\ ui'.asked = ui.asked /\ ui'.chat = ui.chat /\ ui'.cached = ui.cached
        /\ DOMAIN ui' = DOMAIN ui
    BY <2>2 DEF SearchInv, SearchPage
  <2>4. SearchPage(s, ui')
    BY <2>3 DEF SearchInv, SearchPage
  <2>5. SearchMessage(s, ui', n)
    BY <2>1 DEF SearchMessage
  <2> QED BY <2>2, <2>3, <2>4, <2>5, SearchStep
<1> QED BY <1>3, <1>4, <1>5, <1>6

\* What the pages hear.
LEMMA HeardSteps ==
  ASSUME NEW s \in SearchScreens, SearchInv(s),
         \/ Finds(s)!Reconnect
         \/ \E m \in net : \/ Finds(s)!ListArrives(m) \/ Finds(s)!ListFails(m) \/ Finds(s)!DetailArrives(m)
                           \/ Finds(s)!BookingsArrive(m) \/ Finds(s)!ThreadFails(m)
  PROVE  SearchInv(s)'
<1>1. CASE \E m \in net : Finds(s)!ListArrives(m)
  <2>1. PICK m \in net : Finds(s)!ListArrives(m)
    BY <1>1
  <2>2. IsFiniteSet(m.rows) /\ net' \subseteq net
    BY <2>1 DEF Finds!ListArrives, SearchInv, SearchMessage
  <2>3. PICK cached : cached = IF m.view = "list" THEN <<m.rows>> ELSE ui.cached
    OBVIOUS
  <2>4. cached # <<>> => IsFiniteSet(cached[1])
    BY <2>2, <2>3 DEF SearchInv, SearchPage
  <2>5. PICK read : read = [ui.browse EXCEPT !.list = "shown", !.rows = m.rows]
    OBVIOUS
  <2>6. BrowserKept(s, Finds(s)!Rendered(read, ui.view))
    <3>1. /\ DOMAIN read = DOMAIN ui.browse /\ read.rows = m.rows /\ read.page = ui.browse.page
          /\ read.pagedFor = ui.browse.pagedFor /\ read.seen = ui.browse.seen /\ read.timer = ui.browse.timer
          /\ read.price = ui.browse.price /\ read.input = ui.browse.input
      BY <2>5 DEF SearchInv, SearchPage, BrowserKept
    <3>2. BrowserKept(s, ui.browse)
      BY DEF SearchInv, SearchPage
    <3>3. /\ DOMAIN read = {"list", "rows", "work", "input", "price", "timer", "seen", "page", "pagedFor"}
          /\ read.page = 1 \/ read.pagedFor = read.seen
          /\ ~read.timer => read.price = read.input
      BY <3>1, <3>2 DEF BrowserKept
    <3> QED BY <2>2, <3>1, <3>3, RenderedKept
  <2>7. PICK browse : browse = IF Finds(s)!Awaited(m) THEN Finds(s)!Rendered(read, ui.view) ELSE ui.browse
    OBVIOUS
  <2>8. /\ ui'.browse = browse /\ ui'.asked = ui.asked /\ ui'.chat = ui.chat /\ ui'.cached = cached
        /\ DOMAIN ui' = DOMAIN ui
    <3>1. PICK u : u = IF m.view = "list" THEN [ui EXCEPT !.cached = <<m.rows>>] ELSE ui
      OBVIOUS
    <3>2. /\ u.browse = ui.browse /\ u.asked = ui.asked /\ u.chat = ui.chat /\ u.cached = cached
          /\ DOMAIN u = DOMAIN ui
      BY <2>3, <3>1 DEF SearchInv, SearchPage
    <3>3. CASE Finds(s)!Awaited(m)
      <4>1. ui' = [u EXCEPT !.browse = browse]
        BY <2>1, <2>5, <2>7, <3>1, <3>2, <3>3 DEF Finds!ListArrives
      <4> QED BY <3>2, <4>1 DEF SearchInv, SearchPage
    <3>4. CASE ~Finds(s)!Awaited(m)
      <4>1. ui' = u
        BY <2>1, <3>1, <3>4 DEF Finds!ListArrives
      <4> QED BY <2>7, <3>2, <3>4, <4>1
    <3> QED BY <3>3, <3>4
  <2>9. SearchPage(s, ui')
    BY <2>4, <2>6, <2>7, <2>8 DEF SearchInv, SearchPage
  <2> QED BY <2>2, <2>8, <2>9, SearchStep
<1>2. CASE \E m \in net : Finds(s)!ListFails(m)
  <2>1. PICK m \in net : Finds(s)!ListFails(m)
    BY <1>2
  <2>2. PICK b : b = [ui.browse EXCEPT !.list = "failed"]
    OBVIOUS
  <2>3. BrowserKept(s, b)
    BY <2>2 DEF SearchInv, SearchPage, BrowserKept, Finds!Signature
  <2>4. (ui' = ui \/ ui' = [ui EXCEPT !.browse = b]) /\ net' \subseteq net
    BY <2>1, <2>2 DEF Finds!ListFails, SearchInv, SearchPage
  <2> QED BY <2>3, <2>4, BrowseStep, SearchStep DEF SearchInv
<1>3. CASE \/ Finds(s)!Reconnect
           \/ \E m \in net : Finds(s)!DetailArrives(m) \/ Finds(s)!BookingsArrive(m) \/ Finds(s)!ThreadFails(m)
  <2>1. /\ ui'.browse = ui.browse /\ ui'.asked = ui.asked /\ ui'.chat = ui.chat /\ ui'.cached = ui.cached
        /\ DOMAIN ui' = DOMAIN ui
    <3>1. CASE Finds(s)!Reconnect
      BY <3>1 DEF Finds!Reconnect, SearchInv, SearchPage
    <3>2. ASSUME NEW m \in net, Finds(s)!DetailArrives(m) \/ Finds(s)!BookingsArrive(m) \/ Finds(s)!ThreadFails(m)
          PROVE  \E ad : ui' \in {ui, [ui EXCEPT !.ad = ad]}
      <4>1. CASE Finds(s)!DetailArrives(m)
        <5>1. PICK shown : ui' = IF Finds(s)!OnAd(m) THEN [ui EXCEPT !.ad.shown = shown] ELSE ui
          BY <4>1 DEF Finds!DetailArrives
        <5>2. PICK ad : ad = [ui.ad EXCEPT !.shown = shown]
          OBVIOUS
        <5>3. ui' \in {ui, [ui EXCEPT !.ad = ad]}
          BY <5>1, <5>2
        <5> QED BY <5>3
      <4>2. CASE Finds(s)!BookingsArrive(m)
        <5>1. PICK booked : ui' = IF Finds(s)!OnAd(m) THEN [ui EXCEPT !.ad.booked = booked] ELSE ui
          BY <4>2 DEF Finds!BookingsArrive
        <5>2. PICK ad : ad = [ui.ad EXCEPT !.booked = booked]
          OBVIOUS
        <5>3. ui' \in {ui, [ui EXCEPT !.ad = ad]}
          BY <5>1, <5>2
        <5> QED BY <5>3
      <4>3. CASE Finds(s)!ThreadFails(m)
        <5>1. PICK ad : ad = [ui.ad EXCEPT !.talking = FALSE]
          OBVIOUS
        <5>2. ui' \in {ui, [ui EXCEPT !.ad = ad]}
          BY <4>3, <5>1 DEF Finds!ThreadFails
        <5> QED BY <5>2
      <4> QED BY <3>2, <4>1, <4>2, <4>3
    <3>3. ASSUME NEW ad, ui' \in {ui, [ui EXCEPT !.ad = ad]}
          PROVE  /\ ui'.browse = ui.browse /\ ui'.asked = ui.asked /\ ui'.chat = ui.chat /\ ui'.cached = ui.cached
                 /\ DOMAIN ui' = DOMAIN ui
      BY <3>3 DEF SearchInv, SearchPage
    <3> QED BY <1>3, <3>1, <3>2, <3>3
  <2>2. \A m \in net' : m \in net \/ Plain(m)
    BY <1>3 DEF Plain, Finds!Reconnect, Finds!Reading, Finds!DetailArrives, Finds!BookingsArrive, Finds!ThreadFails
  <2>3. SearchPage(s, ui')
    BY <2>1 DEF SearchInv, SearchPage
  <2>4. \A m \in net' : m \in net \/ SearchMessage(s, ui', m)
    BY <2>2 DEF Plain, SearchMessage
  <2> QED BY <2>1, <2>3, <2>4, SearchStep
<1> QED BY <1>1, <1>2, <1>3

\* The listings are read, and the assistant answers the search it was asked by.
LEMMA OfferedSteps ==
  ASSUME NEW s \in SearchScreens, SearchInv(s), NEW m \in net,
         Finds(s)!ServeList(m) \/ Finds(s)!ServeRecommend(m) \/ Finds(s)!ServeSimilar(m)
  PROVE  SearchInv(s)'
<1>1. ui' = ui
  BY DEF Finds!ServeList, Finds!ServeRecommend, Finds!ServeSimilar
<1>2. ASSUME NEW n, net' = (net \ {m}) \cup {n}, SearchMessage(s, ui, n)
      PROVE  SearchInv(s)'
  BY <1>1, <1>2, SearchStep DEF SearchInv
<1>3. ASSUME NEW rows, NEW unavailable, Finds(s)!Recommended(m, rows, unavailable),
             m.kind \in {"recommend", "similar"}
      PROVE  SearchInv(s)'
  <2>1. PICK result : result = [rows |-> rows, unavailable |-> unavailable]
    OBVIOUS
  <2>2. PICK n : n = [kind |-> "recommended", id |-> m.id, about |-> m.about, result |-> result]
    OBVIOUS
  <2>3. net' = (net \ {m}) \cup {n}
    BY <1>3, <2>1, <2>2 DEF Finds!Recommended
  <2>4. "kind" \in DOMAIN n /\ n.kind = "recommended" /\ n.id = m.id /\ n.about = m.about
    BY <2>2
  <2>5. SearchMessage(s, ui, m)
    BY DEF SearchInv
  <2>6. SearchMessage(s, ui, n)
    BY <1>3, <2>4, <2>5 DEF SearchMessage
  <2> QED BY <1>2, <2>3, <2>6
<1>4. CASE Finds(s)!ServeList(m)
  <2>1. PICK L : L = {q \in DOMAIN PlaceOf[s] : db.rows[q].active}
    OBVIOUS
  <2>2. PICK rows : rows = {Finds(s)!Entry(p) : p \in L}
    OBVIOUS
  <2>3. IsFiniteSet(rows)
    BY <2>1, <2>2, EntriesFinite
  <2>4. PICK n : n = [kind |-> "listed", view |-> m.view, visit |-> m.visit, rows |-> rows]
    OBVIOUS
  <2>5. net' = (net \ {m}) \cup {n}
    BY <1>4, <2>1, <2>2, <2>4 DEF Finds!ServeList, Finds!Listings
  <2>6. "kind" \in DOMAIN n /\ n.kind = "listed" /\ n.rows = rows
    BY <2>4
  <2>7. SearchMessage(s, ui, n)
    BY <2>3, <2>6 DEF SearchMessage
  <2> QED BY <1>2, <2>5, <2>7
<1>5. CASE Finds(s)!ServeRecommend(m)
  <2>1. PICK no \in Flag : no = FALSE
    BY DEF Flag
  <2>2. CASE Finds(s)!Exact(m.about) # {} \/ Finds(s)!Candidates(m.about) = {}
    <3>1. Finds(s)!Recommended(m, Finds(s)!Exact(m.about), no) /\ m.kind = "recommend"
      BY <1>5, <2>1, <2>2 DEF Finds!ServeRecommend
    <3> QED BY <1>3, <3>1
  <2>3. CASE ~(Finds(s)!Exact(m.about) # {} \/ Finds(s)!Candidates(m.about) = {})
    <3>1. PICK catalog : catalog = Finds(s)!Candidates(m.about)
      OBVIOUS
    <3>2. PICK n : n = [kind |-> "similar", id |-> m.id, about |-> m.about, catalog |-> catalog]
      OBVIOUS
    <3>3. net' = (net \ {m}) \cup {n} /\ m.kind = "recommend"
      BY <1>5, <2>3, <3>1, <3>2 DEF Finds!ServeRecommend
    <3>4. "kind" \in DOMAIN n /\ n.kind = "similar" /\ n.id = m.id /\ n.about = m.about
      BY <3>2
    <3>5. SearchMessage(s, ui, n)
      BY <3>3, <3>4 DEF SearchInv, SearchMessage
    <3> QED BY <1>2, <3>3, <3>5
  <2> QED BY <2>2, <2>3
<1>6. CASE Finds(s)!ServeSimilar(m)
  <2>1. PICK rows, unavailable : Finds(s)!Recommended(m, rows, unavailable)
    BY <1>6 DEF Finds!ServeSimilar
  <2>2. m.kind = "similar"
    BY <1>6 DEF Finds!ServeSimilar
  <2> QED BY <1>3, <2>1, <2>2
<1> QED BY <1>4, <1>5, <1>6

\* It holds at first.
LEMMA SearchStart ==
  ASSUME NEW s \in SearchScreens, Finds(s)!Init
  PROVE  SearchInv(s)
<1>1. PICK chat : chat = Finds(s)!Chat
  OBVIOUS
<1>2. ChatKept(s, chat) /\ chat.search.id = 0
  BY <1>1, FreshChatKept, IdleKept, IdleAnywhere
<1>3. PICK none : none = <<0, 0>>
  OBVIOUS
<1>4. PICK no \in Flag : no = FALSE
  BY DEF Flag
<1>5. PICK b : b = [list |-> "loading", rows |-> {}, work |-> 0, input |-> 0, price |-> 0, timer |-> no,
                    seen |-> none, page |-> 1, pagedFor |-> none]
  OBVIOUS
<1>6. b = Finds(s)!Browser
  BY <1>3, <1>4, <1>5 DEF Finds!Browser
<1>7. BrowserKept(s, b)
  BY <1>3, <1>5, FS_EmptySet DEF BrowserKept, Finds!Signature
<1>8. PICK ad : ad = Finds(s)!Page
  OBVIOUS
<1>9. PICK signedIn :
         ui = [view |-> "home", visits |-> 0, asked |-> 0, reads |-> 0, chat |-> chat, browse |-> b,
               ad |-> ad, cached |-> <<>>, signedIn |-> signedIn]
  BY <1>1, <1>6, <1>8 DEF Finds!Init
<1>10. net = {}
  BY DEF Finds!Init
<1>11. /\ DOMAIN ui = {"view", "visits", "asked", "reads", "chat", "browse", "ad", "cached", "signedIn"}
       /\ ui.cached = <<>> /\ ui.browse = b /\ ui.chat = chat /\ ui.asked = 0
  BY <1>9
<1>12. SearchPage(s, ui)
  BY <1>2, <1>7, <1>11 DEF SearchPage
<1> QED BY <1>10, <1>12 DEF SearchInv

\* Every step keeps the invariant.
LEMMA SearchNext ==
  ASSUME NEW s \in SearchScreens, SearchInv(s), Finds(s)!Next \/ UNCHANGED <<ui, db, net>>
  PROVE  SearchInv(s)'
<1>1. CASE UNCHANGED <<ui, db, net>>
  BY <1>1, SearchStep DEF SearchInv
<1>2. CASE \E p : Finds(s)!Change(p)
  <2>1. UNCHANGED <<ui, net>>
    BY <1>2 DEF Finds!Change
  <2> QED BY <2>1, SearchStep DEF SearchInv
<1>3. CASE Finds(s)!Next /\ ~\E p : Finds(s)!Change(p)
  BY <1>3, ChatSteps, AssistantSteps, FilterSteps, VisitSteps, HeardSteps, OfferedSteps DEF Finds!Next
<1> QED BY <1>1, <1>2, <1>3

\* The answers said, and the page shown, are those of the answers and filters.
LEMMA SearchIsOfItsAnswers ==
  ASSUME NEW s \in SearchScreens, SearchInv(s)
  PROVE  Finds(s)!ResultIsOfTheAnswers /\ Finds(s)!PageIsOfTheFilters
<1>1. ChatKept(s, ui.chat) /\ BrowserKept(s, ui.browse)
  BY DEF SearchInv, SearchPage
<1>2. Finds(s)!PageIsOfTheFilters
  BY <1>1 DEF BrowserKept, Finds!PageIsOfTheFilters
<1>3. ASSUME ui.chat.search.status # "idle"
      PROVE  ui.chat.responses = <<ui.chat.search.about.application, ui.chat.search.about.soil,
                                   ui.chat.search.about.region, ui.chat.search.about.state,
                                   ui.chat.search.about.dates>>
  <2>1. PICK a : a = ui.chat.search.about
    OBVIOUS
  <2>2. PICK said : ui.chat.responses \in Seq(said) /\ Len(ui.chat.responses) = ui.chat.step
    BY <1>1 DEF ChatKept
  <2>3. ui.chat.step = 5 /\ \A i \in 1..5 : ui.chat.responses[i] = Said(a, i)
    BY <1>1, <1>3, <2>1 DEF ChatKept
  <2>4. PICK q : q = ui.chat.responses
    OBVIOUS
  <2>5. /\ q[1] = a.application /\ q[2] = a.soil /\ q[3] = a.region /\ q[4] = a.state /\ q[5] = a.dates
        /\ q \in Seq(said) /\ Len(q) = 5
    BY <2>2, <2>3, <2>4 DEF Said
  <2>6. q = <<a.application, a.soil, a.region, a.state, a.dates>>
    BY <2>5
  <2> QED BY <2>1, <2>4, <2>6
<1>4. Finds(s)!ResultIsOfTheAnswers
  BY <1>1, <1>3 DEF ChatKept, Finds!ResultIsOfTheAnswers, Finds!Questions
<1> QED BY <1>2, <1>4

-----------------------------------------------------------------------------
DeskInv ==
  /\ screen = "desk"  => ModerationInv
  /\ screen = "fleet" => FleetInv
  /\ screen = "licences" => PaperInv
  /\ screen = "certificates" => CertificateInv
  /\ \A s \in RentalScreens   : screen = s => RentalInv(s)
  /\ \A s \in NumberedScreens : screen = s => FormInv(s)
  /\ \A s \in ListingScreens  : screen = s => ListingInv(s)
  /\ \A s \in SearchScreens   : screen = s => SearchInv(s)

\* A behaviour stays on its screen.
LEMMA DeskStays ==
  ASSUME [Next]_vars
  PROVE  /\ screen' = screen
         /\ screen = "desk"  => Desk!Next \/ UNCHANGED <<ui, db, net>>
         /\ screen = "fleet" => Fleet!Next \/ UNCHANGED <<ui, db, net>>
         /\ \A s \in PaperScreens    : screen = s => Papers(s)!Next \/ UNCHANGED <<ui, db, net>>
         /\ \A s \in RentalScreens   : screen = s => Rents(s)!Next \/ UNCHANGED <<ui, db, net>>
         /\ \A s \in NumberedScreens : screen = s => Forms(s)!Next \/ UNCHANGED <<ui, db, net>>
         /\ \A s \in ListingScreens  : screen = s => Lists(s)!Next \/ UNCHANGED <<ui, db, net>>
         /\ \A s \in SearchScreens   : screen = s => Finds(s)!Next \/ UNCHANGED <<ui, db, net>>
BY DEF Next, vars, PaperScreens, SigningScreens, RentalScreens, FormScreens, ListingScreens, SearchScreens,
       NumberedScreens

\* Each screen starts with its invariant.
LEMMA DeskStart ==
  ASSUME Init
  PROVE  DeskInv
<1>1. /\ screen = "desk"  => Desk!Init
      /\ screen = "fleet" => Fleet!Init
      /\ \A s \in PaperScreens    : screen = s => Papers(s)!Init
      /\ \A s \in RentalScreens   : screen = s => Rents(s)!Init
      /\ \A s \in NumberedScreens : screen = s => Forms(s)!Init
      /\ \A s \in ListingScreens  : screen = s => Lists(s)!Init
      /\ \A s \in SearchScreens   : screen = s => Finds(s)!Init
  BY DEF Init, PaperScreens, SigningScreens, RentalScreens, FormScreens, ListingScreens, SearchScreens,
         NumberedScreens
<1>2. screen = "licences" => PaperInv
  BY <1>1, PaperStart DEF PaperScreens
<1>3. screen = "certificates" => CertificateInv
  BY <1>1, CertificateStart DEF PaperScreens
<1> QED BY <1>1, <1>2, <1>3, ModerationStart, FleetStart, RentalStart, FormStart, ListingStart, SearchStart
        DEF DeskInv

\* The invariant holds of every reachable state of these screens.
THEOREM DeskInvariance == Spec => []DeskInv
<1>1. DeskInv /\ [Next]_vars => DeskInv'
  <2> SUFFICES ASSUME DeskInv, [Next]_vars PROVE DeskInv'
    OBVIOUS
  <2>1. screen = "desk" => ModerationInv'
    BY DeskStays, ModerationNext DEF DeskInv
  <2>2. screen = "fleet" => FleetInv'
    BY DeskStays, FleetNext DEF DeskInv
  <2>3. screen = "licences" => PaperInv'
    BY DeskStays, PaperNext DEF DeskInv, PaperScreens
  <2>4. screen = "certificates" => CertificateInv'
    BY DeskStays, CertificateNext DEF DeskInv, PaperScreens
  <2>5. ASSUME NEW s \in RentalScreens, screen = s
        PROVE  RentalInv(s)'
    BY <2>5, DeskStays, RentalNext DEF DeskInv
  <2>6. ASSUME NEW s \in NumberedScreens, screen = s
        PROVE  FormInv(s)'
    BY <2>6, DeskStays, FormNext DEF DeskInv
  <2>7. ASSUME NEW s \in ListingScreens, screen = s
        PROVE  ListingInv(s)'
    BY <2>7, DeskStays, ListingNext DEF DeskInv
  <2>8. ASSUME NEW s \in SearchScreens, screen = s
        PROVE  SearchInv(s)'
    BY <2>8, DeskStays, SearchNext DEF DeskInv
  <2>9. screen' = screen
    BY DeskStays
  <2> QED BY <2>1, <2>2, <2>3, <2>4, <2>5, <2>6, <2>7, <2>8, <2>9
          DEF DeskInv, RentalScreens, NumberedScreens, FormScreens, ListingScreens, SearchScreens
<1> QED BY <1>1, DeskStart, PTL DEF Spec

\* Whatever readings are sent, lost and sent again, an hour meter never goes
\* back: neither within a rental nor from one that is over to the next one
\* (operations/services.py checks each reading against those before it).
THEOREM ReadingsStayInOrder == Spec => []ReadingsInOrder
<1>1. DeskInv => ReadingsInOrder
  BY DEF DeskInv, RentalInv, ReadingsInOrder
<1> QED BY <1>1, DeskInvariance, PTL

\* A review is sent about the rental it was written under, a reason about the
\* listing it was written for, and an edit changes the machine it was opened on,
\* whichever card, row or answer came meanwhile.
THEOREM TextsAreOfTheirSubjects == Spec => []TextIsOfItsSubject
<1>1. DeskInv => TextIsOfItsSubject
  BY DEF DeskInv, RentalInv, ModerationInv, FleetInv, TextIsOfItsSubject
<1> QED BY <1>1, DeskInvariance, PTL

\* Where the lookups of a form are numbered, a late answer fills no other form,
\* and what is saved is the address of the person it is saved for.
THEOREM LookupsFillTheirForm == Spec => []LookupFillsItsForm
<1>1. DeskInv => LookupFillsItsForm
  BY DEF DeskInv, FormInv, OwnAddresses, NumberedScreens, LookupFillsItsForm, Forms!LookupFillsItsForm, Forms!Numbered
<1> QED BY <1>1, DeskInvariance, PTL

\* A licence whose fields nobody typed is stored with the photograph they were
\* read from, after any files, checks and retries (Documentos.tsx).
THEOREM PhotosBackFields == Spec => []PhotoBacksFields
<1>1. DeskInv => PhotoBacksFields
  <2> SUFFICES ASSUME DeskInv PROVE PhotoBacksFields
    OBVIOUS
  <2>1. screen = "licences" => Papers("licences")!PhotoBacksFields
    BY DEF DeskInv, PaperInv, PaperTable, PaperRow, Papers!PhotoBacksFields
  <2>2. screen = "certificates" => Papers("certificates")!PhotoBacksFields
    BY DEF DeskInv, CertificateInv, Papers!PhotoBacksFields
  <2> QED BY <2>1, <2>2 DEF PhotoBacksFields, PaperScreens
<1> QED BY <1>1, DeskInvariance, PTL

\* The point sent and stored with a listing is the one located for the code and
\* the address beside it, unless an answer has changed the address since.
THEOREM PointsAreOfTheirAddress == Spec => []PointIsOfAddress
<1>1. DeskInv => PointIsOfAddress
  BY ListingIsOfItsAddress DEF DeskInv, PointIsOfAddress
<1> QED BY <1>1, DeskInvariance, PTL

\* What is shown answers the question on screen, however late it comes: a price
\* the machine and its selection, the chat the answers given, a page of listings
\* the filters applied.
THEOREM AnswersAreOfTheirQuestions == Spec => []AnswerIsOfItsQuestion
<1>1. DeskInv => AnswerIsOfItsQuestion
  BY ListingIsOfItsAddress, SearchIsOfItsAnswers DEF DeskInv, AnswerIsOfItsQuestion
<1> QED BY <1>1, DeskInvariance, PTL
=============================================================================
