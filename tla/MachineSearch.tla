---------------------------- MODULE MachineSearch ----------------------------
(***************************************************************************)
(* How a tenant finds a machine: the guided chat of the home page, whose   *)
(* answers become one search that may go on to an assistant; the two pages *)
(* that filter the listings read; and the page of one listing.             *)
(*                                                                         *)
(* A listing is its number, which is also its price.  Its row says whether *)
(* it is on offer, who has booked the one period there is (nobody, the     *)
(* visitor or another), and the work its texts speak of.                   *)
(*                                                                         *)
(* ui is the browser, db the rows, net the requests in flight.  In a       *)
(* filter or an answer, 0 is "any" or "not given".                         *)
(***************************************************************************)
EXTENDS Integers, Sequences, FiniteSets

CONSTANTS
  Place,       \* the state each listing is in
  StatesOf,    \* the states of each region
  Works,       \* the kinds of work
  Soils,       \* the kinds of soil, 0 ("não sei informar") among them
  SignedIn,    \* whether the visitor is signed in: one of these
  PageSize,    \* listings on a page
  MaxAsks,     \* bound: searches of the chat
  MaxVisits,   \* bound: pages visited
  MaxReads,    \* bound: readings of the listings
  MaxChanges   \* bound: times a row changes

VARIABLES ui, db, net
vars == <<ui, db, net>>

Listings == DOMAIN Place
Regions == DOMAIN StatesOf
Questions == 5
Least(a, b) == IF a < b THEN a ELSE b

\* ------------------------------------------------------------------ the chat
Nothing == [application |-> 0, soil |-> 0, region |-> 0, state |-> 0, dates |-> 0]
Unanswered == [rows |-> {}, unavailable |-> FALSE]
Idle == [status |-> "idle", id |-> 0, about |-> Nothing, result |-> Unanswered]
Chat == [open |-> FALSE, step |-> 0, answers |-> Nothing, responses |-> <<>>, search |-> Idle]

\* What the pages of listings show: the rows read, the filters, the page.
\* pagedFor is the history of which filters the page was chosen under.
Browser == [list |-> "loading", rows |-> {}, work |-> 0, input |-> 0, price |-> 0, timer |-> FALSE,
            seen |-> <<0, 0>>, page |-> 1, pagedFor |-> <<0, 0>>]

\* One listing: its row, the bookings read, and whether a thread is asked for.
Page == [posting |-> 0, shown |-> "loading", booked |-> FALSE, talking |-> FALSE]

Init ==
  /\ ui \in {[view |-> "home", visits |-> 0, asked |-> 0, reads |-> 0, chat |-> Chat, browse |-> Browser,
              ad |-> Page, cached |-> <<>>, signedIn |-> s] : s \in SignedIn}
  /\ db = [rows |-> [p \in Listings |-> [active |-> TRUE, booked |-> "nobody", work |-> 1]], changes |-> 0]
  /\ net = {}

Toggle ==
  /\ ui.view = "home"
  /\ ui' = [ui EXCEPT !.chat.open = ~@]
  /\ UNCHANGED <<db, net>>

\* request: a new question, and the only one listened to from here on.
Request(c, id) ==
  IF c.answers.application # 0 /\ c.answers.state # 0
  THEN [c EXCEPT !.search = [status |-> "pending", id |-> id, about |-> c.answers, result |-> Unanswered]]
  ELSE c

\* answer: another region takes the state away; the last answer asks.
Answered(c, answers, said, id) ==
  LET next == [c EXCEPT !.answers = IF answers.region = c.answers.region THEN answers ELSE [answers EXCEPT !.state = 0],
                        !.responses = Append(SubSeq(@, 1, c.step), said), !.step = @ + 1]
  IN  IF c.step = Questions - 1 THEN Request(next, id) ELSE next

\* What the form of each question hands over.
Replies(c) ==
  LET a == c.answers
  IN  CASE c.step = 0 -> {[answers |-> [a EXCEPT !.application = v], said |-> v] : v \in Works}
        [] c.step = 1 -> {[answers |-> [a EXCEPT !.soil = v], said |-> v] : v \in Soils}
        [] c.step = 2 -> {[answers |-> [a EXCEPT !.region = v], said |-> v] : v \in Regions}
        [] c.step = 3 -> {[answers |-> [a EXCEPT !.state = v], said |-> v] : v \in StatesOf[a.region]}
        [] c.step = 4 -> {[answers |-> [a EXCEPT !.dates = v], said |-> v] : v \in {0, 1}}
        [] OTHER -> {}

\* The browser after the chat became c, and the request it may have made.
Chatting(c) ==
  LET asks == c.search.status = "pending" /\ c.search.id # ui.chat.search.id
  IN  /\ ui.view = "home" /\ ui.chat.open
      /\ asks => ui.asked < MaxAsks
      /\ ui' = [ui EXCEPT !.chat = c, !.asked = IF asks THEN c.search.id ELSE @]
      /\ net' = IF asks THEN net \cup {[kind |-> "recommend", id |-> c.search.id, about |-> c.search.about]} ELSE net
      /\ UNCHANGED db

Reply == \E r \in Replies(ui.chat) : Chatting(Answered(ui.chat, r.answers, r.said, ui.asked + 1))

\* (mutant) the search is left as it is
BackOnly(c) == [c EXCEPT !.step = @ - 1, !.responses = SubSeq(@, 1, c.step - 1)]

\* back: the answers stay, the last one said goes, the search is let go.
Back(c) == [c EXCEPT !.search = Idle, !.step = @ - 1, !.responses = SubSeq(@, 1, c.step - 1)]

StepBack == ui.chat.step > 0 /\ Chatting(Back(ui.chat))

\* "Detach any in-flight result so it cannot replace the restarted chat."
Restart == ui.view = "home" /\ Chatting([Chat EXCEPT !.open = TRUE])

Retry ==
  /\ \/ ui.chat.search.status = "failed"
     \/ ui.chat.search.status = "done" /\ ui.chat.search.result.unavailable
  /\ Chatting(Request(ui.chat, ui.asked + 1))

\* Only the latest question of a chat still there is listened to.
Heard(m) == ui.view = "home" /\ m.id = ui.chat.search.id /\ ui.chat.search.status = "pending"

RecommendedArrives(m) ==
  /\ m.kind = "recommended" /\ net' = net \ {m}
  /\ ui' = IF Heard(m)
           THEN [ui EXCEPT !.chat.search.status = "done", !.chat.search.about = m.about, !.chat.search.result = m.result]
           ELSE ui
  /\ UNCHANGED db

RecommendFails(m) ==
  /\ m.kind \in {"recommend", "similar", "recommended"} /\ net' = net \ {m}
  /\ ui' = IF Heard(m) THEN [ui EXCEPT !.chat.search.status = "failed"] ELSE ui
  /\ UNCHANGED db

\* --------------------------------------------------------- the pages of listings
Signature(b) == <<b.work, b.price>>

Fits(b, r) == (b.work = 0 \/ r.work = b.work) /\ (b.price = 0 \/ r.posting <= b.price)
Results(b) == {r \in b.rows : Fits(b, r)}
Pages(b) == (Cardinality(Results(b)) + PageSize - 1) \div PageSize
Visible(b) ==
  {r \in Results(b) : (b.page - 1) * PageSize <= Cardinality({s \in Results(b) : s.posting < r.posting})
                      /\ Cardinality({s \in Results(b) : s.posting < r.posting}) < b.page * PageSize}

\* While rendering: other filters bring the first page back.  The dashboard's
\* list never stays past its last page; the public one may.
Rendered(b, view) ==
  LET first == IF Signature(b) = b.seen THEN b ELSE [b EXCEPT !.seen = Signature(b), !.page = 1]
      pages == IF Pages(first) = 0 THEN 1 ELSE Pages(first)
  IN  IF view = "dashboard" THEN [first EXCEPT !.page = Least(@, pages)] ELSE first

Shows(b) == ui' = [ui EXCEPT !.browse = Rendered(b, ui.view)]

\* Every page is mounted afresh.  The public list is kept by the query client
\* between visits (cached) and may be read again; the dashboard's is not.
Mounted(view, posting, cached) ==
  [ui EXCEPT !.view = view, !.visits = @ + 1, !.chat = Chat, !.ad = [Page EXCEPT !.posting = posting],
             !.browse = IF view = "list" /\ cached # <<>>
                        THEN [Browser EXCEPT !.list = "shown", !.rows = cached[1], !.timer = TRUE]
                        ELSE [Browser EXCEPT !.timer = view = "list"],
             !.cached = cached]

\* A reading of the public list that finds another in flight joins it.
Reading(view, asked) ==
  IF view = "list" /\ \E m \in net : m.kind \in {"list", "listed"} /\ m.view = "list" THEN net
  ELSE net \cup {[kind |-> "list", view |-> view, visit |-> asked]}

VisitList(view) ==
  /\ ui.view # view /\ ui.visits < MaxVisits
  /\ view = "dashboard" => ui.signedIn
  /\ \E cached \in {ui.cached, <<>>}, fresh \in BOOLEAN :
       LET u == Mounted(view, 0, cached)
           read == ~(fresh /\ view = "list" /\ cached # <<>>)
       IN  /\ read => ui.reads < MaxReads
           /\ ui' = [u EXCEPT !.reads = IF read THEN @ + 1 ELSE @]
           /\ net' = IF read THEN Reading(view, u.visits) ELSE net
  /\ UNCHANGED db

VisitHome ==
  /\ ui.view # "home" /\ ui.visits < MaxVisits
  /\ ui' = Mounted("home", 0, ui.cached)
  /\ UNCHANGED <<db, net>>

\* The network comes back: a list shown is read again.
Reconnect ==
  /\ ui.view = "list" /\ ui.reads < MaxReads
  /\ ui' = [ui EXCEPT !.reads = @ + 1]
  /\ net' = Reading("list", ui.visits)
  /\ UNCHANGED db

Browsing == ui.view \in {"list", "dashboard"}

TypeWork(w) ==
  /\ Browsing
  /\ Shows([ui.browse EXCEPT !.work = w])
  /\ UNCHANGED <<db, net>>

\* The public page waits 400 ms for the price typed last; the dashboard does not.
TypePrice(v) ==
  /\ Browsing /\ v # ui.browse.input
  /\ Shows(IF ui.view = "list" THEN [ui.browse EXCEPT !.input = v, !.timer = TRUE]
           ELSE [ui.browse EXCEPT !.input = v, !.price = v])
  /\ UNCHANGED <<db, net>>

PriceSettles ==
  /\ ui.browse.timer
  /\ Shows([ui.browse EXCEPT !.price = ui.browse.input, !.timer = FALSE])
  /\ UNCHANGED <<db, net>>

\* handleLimpar
Clear ==
  /\ Browsing
  /\ Shows([ui.browse EXCEPT !.work = 0, !.input = 0, !.price = 0, !.timer = @ \/ (ui.view = "list" /\ ui.browse.input # 0)])
  /\ UNCHANGED <<db, net>>

\* irParaPagina and onPageChange: a number, the page before or the page after.
Turn(page) ==
  /\ Browsing /\ ui.browse.list = "shown" /\ Results(ui.browse) # {}
  /\ page # ui.browse.page /\ page \in 1..Pages(ui.browse) \cup {ui.browse.page - 1} /\ page >= 1
  /\ Shows([ui.browse EXCEPT !.page = page, !.pagedFor = Signature(ui.browse)])
  /\ UNCHANGED <<db, net>>

\* Another order, or page size, brings the first page back.
Sort ==
  /\ Browsing /\ ui.browse.page # 1
  /\ Shows([ui.browse EXCEPT !.page = 1])
  /\ UNCHANGED <<db, net>>

\* Who still waits for this reading: the visit that made it, or any to the list.
Awaited(m) == ui.view = m.view /\ (m.view = "list" \/ m.visit = ui.visits)

ListArrives(m) ==
  /\ m.kind = "listed" /\ net' = net \ {m}
  /\ LET u == IF m.view = "list" THEN [ui EXCEPT !.cached = <<m.rows>>] ELSE ui
     IN  ui' = IF Awaited(m)
               THEN [u EXCEPT !.browse = Rendered([@ EXCEPT !.list = "shown", !.rows = m.rows], ui.view)]
               ELSE u
  /\ UNCHANGED db

\* An error takes the place of the list, of one already read too.
ListFails(m) ==
  /\ m.kind \in {"list", "listed"} /\ net' = net \ {m}
  /\ ui' = IF Awaited(m) THEN [ui EXCEPT !.browse.list = "failed"] ELSE ui
  /\ UNCHANGED db

\* ------------------------------------------------------ the page of one listing
Linked ==
  CASE ui.view = "home" -> IF ui.chat.open /\ ui.chat.search.status = "done"
                           THEN {r.posting : r \in ui.chat.search.result.rows} ELSE {}
    [] Browsing -> IF ui.browse.list = "shown" THEN {r.posting : r \in Visible(ui.browse)} ELSE {}
    [] OTHER -> {}

OpenAd(p) ==
  /\ p \in Linked /\ ui.visits < MaxVisits
  /\ ui' = Mounted("ad", p, ui.cached)
  /\ net' = net \cup {[kind |-> "detail", posting |-> p, visit |-> ui.visits + 1],
                      [kind |-> "bookings", posting |-> p, visit |-> ui.visits + 1]}
  /\ UNCHANGED db

OnAd(m) == ui.view = "ad" /\ m.visit = ui.visits

\* Read and answered at once: neither changes anything.
DetailArrives(m) ==
  /\ m.kind = "detail" /\ net' = net \ {m}
  /\ \E shown \in {"failed"} \cup {s \in {"shown"} : db.rows[m.posting].active} :
       ui' = IF OnAd(m) THEN [ui EXCEPT !.ad.shown = shown] ELSE ui
  /\ UNCHANGED db

\* The calendar is drawn from the visitor's own bookings: those of others,
\* and all of them when the reading fails, are days it shows as free.
BookingsArrive(m) ==
  /\ m.kind = "bookings" /\ net' = net \ {m}
  /\ \E booked \in {FALSE, ui.signedIn /\ db.rows[m.posting].booked = "visitor"} :
       ui' = IF OnAd(m) THEN [ui EXCEPT !.ad.booked = booked] ELSE ui
  /\ UNCHANGED db

\* abrirConversa: a visitor who is not signed in goes to the login page.
Talk ==
  /\ ui.view = "ad" /\ ui.ad.shown = "shown" /\ ~ui.ad.talking
  /\ ui' = IF ui.signedIn THEN [ui EXCEPT !.ad.talking = TRUE]
           ELSE [Mounted("away", 0, ui.cached) EXCEPT !.visits = ui.visits]
  /\ net' = IF ui.signedIn THEN net \cup {[kind |-> "thread", visit |-> ui.visits]} ELSE net
  /\ UNCHANGED db

\* The thread opens wherever the visitor is by then.
ThreadArrives(m) ==
  /\ m.kind = "thread" /\ net' = net \ {m}
  /\ ui' = [Mounted("away", 0, ui.cached) EXCEPT !.visits = ui.visits]
  /\ UNCHANGED db

ThreadFails(m) ==
  /\ m.kind = "thread" /\ net' = net \ {m}
  /\ ui' = IF OnAd(m) THEN [ui EXCEPT !.ad.talking = FALSE] ELSE ui
  /\ UNCHANGED db

\* ------------------------------------------------------------------ the server
Entry(p) == [posting |-> p, work |-> db.rows[p].work]

ServeList(m) ==
  /\ m.kind = "list"
  /\ net' = (net \ {m}) \cup {[kind |-> "listed", view |-> m.view, visit |-> m.visit,
                               rows |-> {Entry(p) : p \in {q \in Listings : db.rows[q].active}}]}
  /\ UNCHANGED <<ui, db>>

\* _available_postings, _matches_location
Candidates(needs) ==
  {Entry(p) : p \in {q \in Listings : db.rows[q].active /\ Place[q] = needs.state
                                      /\ (needs.dates # 0 => db.rows[q].booked = "nobody")}}

Exact(needs) == {r \in Candidates(needs) : r.work = needs.application}

Recommended(m, rows, unavailable) ==
  net' = (net \ {m}) \cup {[kind |-> "recommended", id |-> m.id, about |-> m.about,
                            result |-> [rows |-> rows, unavailable |-> unavailable]]}

\* Literal matches first; the assistant is asked only when there are none.
ServeRecommend(m) ==
  /\ m.kind = "recommend"
  /\ IF Exact(m.about) # {} \/ Candidates(m.about) = {} THEN Recommended(m, Exact(m.about), FALSE)
     ELSE net' = (net \ {m}) \cup {[kind |-> "similar", id |-> m.id, about |-> m.about, catalog |-> Candidates(m.about)]}
  /\ UNCHANGED <<ui, db>>

\* "Reused after AI returns: availability and public visibility stay
\* authoritative": and the texts must be those the assistant was given.
StillOffered(found, needs) == found \cap Candidates(needs)

\* The assistant picks among the catalogue, or is unavailable.
ServeSimilar(m) ==
  /\ m.kind = "similar"
  /\ \/ \E found \in SUBSET m.catalog : Recommended(m, StillOffered(found, m.about), FALSE)
     \/ Recommended(m, {}, TRUE)
  /\ UNCHANGED <<ui, db>>

\* A listing is taken off or put back, booked or freed, or its texts change.
Change(p) ==
  /\ db.changes < MaxChanges
  /\ \/ db' = [rows |-> [db.rows EXCEPT ![p].active = ~@], changes |-> db.changes + 1]
     \/ \E who \in {"nobody", "visitor", "other"} \ {db.rows[p].booked} :
          db' = [rows |-> [db.rows EXCEPT ![p].booked = who], changes |-> db.changes + 1]
     \/ \E w \in Works \ {db.rows[p].work} :
          db' = [rows |-> [db.rows EXCEPT ![p].work = w], changes |-> db.changes + 1]
  /\ UNCHANGED <<ui, net>>

Next ==
  \/ Toggle \/ Reply \/ StepBack \/ Restart \/ Retry
  \/ VisitHome \/ Reconnect \/ PriceSettles \/ Clear \/ Sort \/ Talk
  \/ \E view \in {"list", "dashboard"} : VisitList(view)
  \/ \E w \in Works \cup {0} : TypeWork(w)
  \/ \E v \in Listings \cup {0} : TypePrice(v)
  \/ \E page \in 1..Cardinality(Listings) : Turn(page)
  \/ \E p \in Listings : OpenAd(p) \/ Change(p)
  \/ \E m \in net :
       \/ RecommendedArrives(m) \/ RecommendFails(m) \/ ListArrives(m) \/ ListFails(m)
       \/ DetailArrives(m) \/ BookingsArrive(m) \/ ThreadArrives(m) \/ ThreadFails(m)
       \/ ServeList(m) \/ ServeRecommend(m) \/ ServeSimilar(m)

Spec == Init /\ [][Next]_vars
-----------------------------------------------------------------------------
TypeOK ==
  /\ ui.view \in {"home", "list", "dashboard", "ad", "away"}
  /\ ui.chat.step \in 0..Questions /\ Len(ui.chat.responses) = ui.chat.step
  /\ ui.chat.search.status \in {"idle", "pending", "done", "failed"}
  /\ ui.asked <= MaxAsks /\ ui.reads <= MaxReads /\ ui.visits <= MaxVisits /\ db.changes <= MaxChanges

\* The chat tells the results of the answers it shows, and of no other: none
\* while a question is open, however late an answer comes; and the state it
\* keeps is one of the region it keeps.
ResultIsOfTheAnswers ==
  LET c == ui.chat
      a == c.search.about
  IN  /\ c.step < Questions => c.search.status = "idle"
      /\ c.search.status # "idle" => c.responses = <<a.application, a.soil, a.region, a.state, a.dates>>
      /\ c.answers.state # 0 => c.answers.state \in StatesOf[c.answers.region]

\* The page shown was chosen under the filters applied, and the price applied
\* is the one typed, once its delay is over.
PageIsOfTheFilters ==
  LET b == ui.browse
  IN  /\ b.page # 1 => b.pagedFor = Signature(b)
      /\ ~b.timer => b.price = b.input
=============================================================================
