-------------------------------- MODULE Chat --------------------------------
(***************************************************************************)
(* The messages screen, the one WebSocket of the tab and the chat service. *)
(*                                                                         *)
(* A message reaches the screen over the socket, which keeps no history,   *)
(* in the page read when a conversation opens, in the catch-up read when   *)
(* the socket comes back, or in the answer to a POST, the way a message is *)
(* sent while the socket is down.  All four overlap with the user walking  *)
(* from one conversation to another.                                       *)
(*                                                                         *)
(* ui is the state of the screen and of the socket hook, db the messages   *)
(* stored and the groups the socket joined, net the frames and requests in *)
(* flight.  A message is its place in db.log.                              *)
(***************************************************************************)
EXTENDS Integers, Sequences, FiniteSets

CONSTANTS
  Threads, NoThread,
  Sends,          \* the client_id of each message the user writes
  Arrivals,       \* the client_id of each message the peer writes
  MaxLog,         \* bound: messages stored
  MaxGen,         \* bound: conversations opened
  MaxDrops,       \* bound: times the socket is lost
  MaxRequests,    \* bound: REST requests in flight when another one starts
  MaxTries        \* bound: times the user sends a message again

VARIABLES ui, db, net
vars == <<ui, db, net>>

Message == [thread: Threads, cid: Sends \cup Arrivals]
Bubble  == {"none", "pending", "failed"}

Init ==
  /\ ui = [thread |-> NoThread, gen |-> 0, shown |-> {},
           bubbles |-> {}, state |-> [c \in Sends |-> "none"],
           socket |-> "closed", retry |-> TRUE, refreshed |-> FALSE,
           desired |-> {}, drops |-> 0, tries |-> 0]
  /\ db = [log |-> <<>>, members |-> {}]
  /\ net = [up |-> <<>>, down |-> <<>>, rest |-> {}]

\* ---------------------------------------------------------------- helpers
\* send(): frames leave only while the socket is open.
Frames(fs) == IF ui.socket = "open" THEN net.up \o fs ELSE net.up

Subscribe(t)   == [type |-> "subscribe", thread |-> t]
Unsubscribe(t) == [type |-> "unsubscribe", thread |-> t]

\* (mutant) every answer is put on screen
AnyGeneration(r) == TRUE

\* A conversation opened since makes the answer to r stale.
Current(r) == r.gen = ui.gen

\* Those of the messages of is that the user wrote.
Own(is) == {db.log[i].cid : i \in is} \cap Sends

\* (mutant) the echo is put beside its bubble
UpsertBeside(u, is) ==
  [u EXCEPT !.shown = @ \cup is, !.state = [c \in Sends |-> IF c \in Own(is) THEN "none" ELSE @[c]]]

\* Puts the messages of is on screen: one that is there already stays in its
\* place, and the bubble of another gives way to its echo.
Upsert(u, is) ==
  [u EXCEPT !.shown = @ \cup is, !.bubbles = @ \ Own(is \ u.shown),
            !.state = [c \in Sends |-> IF c \in Own(is) THEN "none" ELSE @[c]]]

\* The messages of r's conversation after its cursor, as the server read them.
Listed(r) == {i \in r.after + 1..r.upto : db.log[i].thread = r.thread}

LastShown == IF ui.shown = {} THEN 0 ELSE CHOOSE i \in ui.shown : \A j \in ui.shown : j <= i

\* The bound on the requests in flight.
Room == Cardinality(net.rest) < MaxRequests

\* GET .../messages of a conversation opened at generation g.
List(kind, t, after, g) ==
  [kind |-> kind, thread |-> t, gen |-> g, after |-> after, upto |-> 0, step |-> "sent"]

\* (mutant) a repeated client_id is stored like a new one
StoreAgain(c) == Len(db.log) + 1

\* create_message: the place of the message of c, an old one if it was stored.
Place(c) ==
  IF \E i \in DOMAIN db.log : db.log[i].cid = c
  THEN CHOOSE i \in DOMAIN db.log : db.log[i].cid = c
  ELSE Len(db.log) + 1

\* ---------------------------------------------------------------- the screen
OpenThread(t) ==
  /\ t # ui.thread /\ ui.gen < MaxGen /\ Room
  /\ ui' = [ui EXCEPT !.thread = t, !.gen = @ + 1, !.shown = {}, !.bubbles = {},
                      !.desired = @ \ {ui.thread}]
  /\ net' = [net EXCEPT
       !.up = IF ui.thread = NoThread THEN @ ELSE Frames(<<Unsubscribe(ui.thread)>>),
       !.rest = @ \cup {List("page", t, 0, ui.gen + 1)}]
  /\ UNCHANGED db

\* The first page replaces what the screen shows, then the socket subscribes.
PageArrives(r) ==
  /\ r.kind = "page" /\ r.step = "answered"
  /\ IF Current(r)
     THEN /\ ui' = [ui EXCEPT !.shown = Listed(r), !.bubbles = {}, !.desired = @ \cup {r.thread}]
          /\ net' = [net EXCEPT !.rest = @ \ {r}, !.up = Frames(<<Subscribe(r.thread)>>)]
     ELSE ui' = ui /\ net' = [net EXCEPT !.rest = @ \ {r}]
  /\ UNCHANGED db

CatchUpArrives(r) ==
  /\ r.kind = "after" /\ r.step = "answered"
  /\ ui' = IF Current(r) THEN Upsert(ui, Listed(r)) ELSE ui
  /\ net' = [net EXCEPT !.rest = @ \ {r}]
  /\ UNCHANGED db

ListFails(r) ==
  /\ r.kind \in {"page", "after"} /\ r.step = "sent"
  /\ net' = [net EXCEPT !.rest = @ \ {r}]
  /\ UNCHANGED <<ui, db>>

\* deliver(): the socket if it is open, else a POST with the same client_id.
Deliver(c) ==
  /\ ui.socket = "open" \/ Room
  /\ net' = IF ui.socket = "open"
            THEN [net EXCEPT !.up = Append(@, [type |-> "send", thread |-> ui.thread, cid |-> c])]
            ELSE [net EXCEPT !.rest = @ \cup {[kind |-> "post", thread |-> ui.thread, cid |-> c, place |-> 0, step |-> "sent"]}]

Write(c) ==
  /\ ui.thread # NoThread /\ ui.state[c] = "none"
  /\ \A i \in DOMAIN db.log : db.log[i].cid # c
  /\ ui' = [ui EXCEPT !.bubbles = @ \cup {c}, !.state[c] = "pending"]
  /\ Deliver(c)
  /\ UNCHANGED db

Retry(c) ==
  /\ c \in ui.bubbles /\ ui.state[c] = "failed" /\ ui.tries < MaxTries
  /\ ui' = [ui EXCEPT !.state[c] = "pending", !.tries = @ + 1]
  /\ Deliver(c)
  /\ UNCHANGED db

SendTimesOut(c) ==
  /\ ui.state[c] = "pending"
  /\ ui' = [ui EXCEPT !.state[c] = "failed"]
  /\ UNCHANGED <<db, net>>

\* The answer is put on screen whatever conversation is open by then.
PostArrives(r) ==
  /\ r.kind = "post" /\ r.step = "answered"
  /\ ui' = Upsert(ui, {r.place})
  /\ net' = [net EXCEPT !.rest = @ \ {r}]
  /\ UNCHANGED db

\* Refused, or the request or its answer is lost.
PostFails(r) ==
  /\ r.kind = "post"
  /\ ui' = [ui EXCEPT !.state[r.cid] = "failed"]
  /\ net' = [net EXCEPT !.rest = @ \ {r}]
  /\ UNCHANGED db

\* ---------------------------------------------------------------- the socket
Connect ==
  /\ ui.socket = "closed" /\ ui.retry
  /\ ui' = [ui EXCEPT !.socket = "connecting", !.retry = FALSE]
  /\ UNCHANGED <<db, net>>

BecomesVisible ==
  /\ ui.socket = "closed" /\ ~ui.retry
  /\ ui' = [ui EXCEPT !.retry = TRUE]
  /\ UNCHANGED <<db, net>>

\* onopen: subscribe again and read what was missed.
Opens ==
  /\ ui.socket = "connecting" /\ Room
  /\ ui' = [ui EXCEPT !.socket = "open"]
  /\ net' = [net EXCEPT
       !.up = IF ui.thread \in ui.desired THEN <<Subscribe(ui.thread)>> ELSE <<>>,
       !.rest = IF ui.thread \in ui.desired
                THEN @ \cup {List("after", ui.thread, LastShown, ui.gen)} ELSE @]
  /\ UNCHANGED db

\* onclose: after a code of 1000 or 4403 only a look at the tab connects again;
\* 4401 is worth one refresh, and the second one in a row signs the user out.
Drops(code) ==
  /\ ui.socket \in {"connecting", "open"} /\ ui.drops < MaxDrops
  /\ ui' = [ui EXCEPT !.socket = IF code = "expired" /\ ui.refreshed THEN "out" ELSE "closed",
                      !.drops = @ + 1, !.refreshed = @ \/ code = "expired",
                      !.retry = code # "final"]
  /\ db' = [db EXCEPT !.members = {}]
  /\ net' = [net EXCEPT !.up = <<>>, !.down = <<>>]

Receive ==
  /\ net.down # <<>>
  /\ net' = [net EXCEPT !.down = Tail(@)]
  /\ LET f == Head(net.down)
         u == [ui EXCEPT !.refreshed = FALSE]
     IN ui' = CASE f.thread # ui.thread -> u
                [] f.thread = ui.thread /\ f.type = "error" /\ u.state[f.cid] # "none" ->
                     [u EXCEPT !.state[f.cid] = "failed"]
                [] f.thread = ui.thread /\ f.type # "error" -> Upsert(u, {f.place})
                [] OTHER -> u
  /\ UNCHANGED db

\* ---------------------------------------------------------------- the server
News(t, i) == [type |-> "new", thread |-> t, place |-> i]

\* The message of c in t, stored once, and what its group is told of it.
Store(c, t, i) ==
  /\ i <= MaxLog
  /\ db' = IF i > Len(db.log) THEN [db EXCEPT !.log = Append(@, [thread |-> t, cid |-> c])] ELSE db
Echo(t, i) == IF i > Len(db.log) /\ t \in db.members THEN <<News(t, i)>> ELSE <<>>

ServeSubscription ==
  /\ net.up # <<>> /\ Head(net.up).type \in {"subscribe", "unsubscribe"}
  /\ LET f == Head(net.up)
     IN db' = [db EXCEPT !.members = IF f.type = "subscribe" THEN @ \cup {f.thread} ELSE @ \ {f.thread}]
  /\ net' = [net EXCEPT !.up = Tail(@)]
  /\ UNCHANGED ui

\* A replay under another conversation is refused, as is a send that is not allowed.
Replayable(c, t) == Place(c) \in DOMAIN db.log => db.log[Place(c)].thread = t

ServeSend ==
  /\ net.up # <<>> /\ Head(net.up).type = "send"
  /\ LET f == Head(net.up)
         i == Place(f.cid)
         refused == [type |-> "error", thread |-> f.thread, cid |-> f.cid]
         ack == [type |-> "ack", thread |-> f.thread, place |-> i]
     IN \/ /\ net' = [net EXCEPT !.up = Tail(@), !.down = Append(@, refused)]
           /\ UNCHANGED db
        \/ /\ f.thread \in db.members /\ Replayable(f.cid, f.thread)
           /\ Store(f.cid, f.thread, i)
           /\ net' = [net EXCEPT !.up = Tail(@), !.down = @ \o <<ack>> \o Echo(f.thread, i)]
  /\ UNCHANGED ui

ServeList(r) ==
  /\ r.kind \in {"page", "after"} /\ r.step = "sent"
  /\ net' = [net EXCEPT !.rest = (@ \ {r}) \cup {[r EXCEPT !.step = "answered", !.upto = Len(db.log)]}]
  /\ UNCHANGED <<ui, db>>

ServePost(r) ==
  /\ r.kind = "post" /\ r.step = "sent" /\ Replayable(r.cid, r.thread)
  /\ LET i == Place(r.cid)
     IN /\ Store(r.cid, r.thread, i)
        /\ net' = [net EXCEPT !.down = @ \o Echo(r.thread, i),
                              !.rest = (@ \ {r}) \cup {[r EXCEPT !.step = "answered", !.place = i]}]
  /\ UNCHANGED ui

PeerWrites(p, t) ==
  /\ Place(p) = Len(db.log) + 1
  /\ Store(p, t, Len(db.log) + 1)
  /\ net' = [net EXCEPT !.down = @ \o Echo(t, Len(db.log) + 1)]
  /\ UNCHANGED ui

Next ==
  \/ \E t \in Threads : OpenThread(t) \/ \E p \in Arrivals : PeerWrites(p, t)
  \/ \E c \in Sends : Write(c) \/ Retry(c) \/ SendTimesOut(c)
  \/ \E r \in net.rest :
       \/ PageArrives(r) \/ CatchUpArrives(r) \/ ListFails(r) \/ PostArrives(r) \/ PostFails(r)
       \/ ServeList(r) \/ ServePost(r)
  \/ Connect \/ BecomesVisible \/ Opens \/ Receive \/ ServeSubscription \/ ServeSend
  \/ \E code \in {"lost", "expired", "final"} : Drops(code)

Spec == Init /\ [][Next]_vars
-----------------------------------------------------------------------------
TypeOK ==
  /\ ui.thread \in Threads \cup {NoThread} /\ ui.gen \in 0..MaxGen
  /\ ui.shown \subseteq DOMAIN db.log /\ ui.bubbles \subseteq Sends
  /\ ui.state \in [Sends -> Bubble] /\ ui.socket \in {"closed", "connecting", "open", "out"}
  /\ ui.desired \subseteq Threads /\ db.members \subseteq Threads
  /\ db.log \in Seq(Message) /\ Len(db.log) <= MaxLog

\* What the user writes is stored once, however often its delivery times out,
\* fails over to REST, or is tried again by hand.
MessageOnce ==
  \A i, j \in DOMAIN db.log : db.log[i].cid = db.log[j].cid /\ db.log[i].cid \in Sends => i = j

\* Nor is it shown twice: the bubble it was written in is gone when the stored
\* message is on screen, whether the socket's echo, its acknowledgement, the
\* answer to a POST or a list brought it first.
ShownOnce == \A i \in ui.shown : db.log[i].cid \notin ui.bubbles

\* A list read for a conversation the user has left never reaches the screen
\* of another: of the messages that do not belong there, only the user's own,
\* sent by POST, can be found on it.
StrayIsOwn ==
  \A i \in ui.shown : db.log[i].thread = ui.thread \/ db.log[i].cid \in Sends
=============================================================================
