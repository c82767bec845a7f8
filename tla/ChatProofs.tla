----------------------------- MODULE ChatProofs -----------------------------
(***************************************************************************)
(* What is sent is stored once and shown once, and no conversation shows   *)
(* another's messages, proved of the messages screen for any               *)
(* conversations, messages and losses.                                     *)
(*                                                                         *)
(* A message is put on screen long after it was stored, by a frame or an   *)
(* answer that was under way while the user walked on.  The invariant says *)
(* what each of them carries: a place in the log that holds a message of   *)
(* its conversation, or, for a list, the generation it was asked in.       *)
(***************************************************************************)
EXTENDS Screens, Sequences, TLAPS, WellFoundedInduction

Conversation == Threads \cup {NoThread}
Logged       == [thread : Conversation, cid : Sends \cup Arrivals]

UpFrame == [type : {"subscribe", "unsubscribe"}, thread : Conversation]
             \cup [type : {"send"}, thread : Conversation, cid : Sends]

\* A frame about a message says where it is stored.
DownFrame == [type : {"error"}, thread : Conversation, cid : Sends]
               \cup {f \in [type : {"new", "ack"}, thread : Conversation, place : Nat] :
                       f.place \in DOMAIN db.log /\ db.log[f.place].thread = f.thread}

Steps == {"sent", "answered"}
ListRequests ==
  [kind : {"page", "after"}, thread : Conversation, gen : Int, after : Nat, upto : Nat, step : Steps]
PostRequests == [kind : {"post"}, thread : Conversation, cid : Sends, place : Nat, step : Steps]

\* A list of the present generation is of the conversation on screen, and
\* reads what was stored.
ListIsCurrent(r) ==
  /\ r.gen <= ui.gen /\ r.upto <= Len(db.log)
  /\ r.gen = ui.gen => r.thread = ui.thread

\* An answered POST says where the user's own message is stored.
PostIsStored(r) == r.step = "answered" => r.place \in DOMAIN db.log /\ db.log[r.place].cid = r.cid

Shape ==
  /\ DOMAIN ui = {"thread", "gen", "shown", "bubbles", "state", "socket", "retry", "refreshed", "desired",
                  "drops", "tries"}
  /\ DOMAIN db = {"log", "members"} /\ DOMAIN net = {"up", "down", "rest"}
  /\ ui.thread \in Conversation /\ ui.gen \in Int

Stored == db.log \in Seq(Logged) /\ Chat!MessageOnce
OnWire == net.up \in Seq(UpFrame) /\ net.down \in Seq(DownFrame)
Asked  ==
  \A r \in net.rest : (r \in ListRequests /\ ListIsCurrent(r)) \/ (r \in PostRequests /\ PostIsStored(r))
OnView == ui.shown \subseteq DOMAIN db.log /\ Chat!StrayIsOwn

IInv == Shape /\ Stored /\ OnWire /\ Asked /\ OnView

-----------------------------------------------------------------------------
\* A bounded set of naturals has a greatest element.
LEMMA BoundedHasMaximum ==
  ASSUME NEW S \in SUBSET Nat, NEW n \in Nat, S # {}, \A j \in S : j <= n
  PROVE  \E i \in S : \A j \in S : j <= i
<1> DEFINE T == {m \in Nat : \A j \in S : j <= m}
<1>1. T \subseteq Nat /\ T # {}
  OBVIOUS
<1>2. PICK m \in T : \A k \in T : ~(<<k, m>> \in OpToRel(<, Nat))
  BY <1>1, WFMin, NatLessThanWellFounded
<1>3. \A k \in T : ~(k < m)
  BY <1>2 DEF OpToRel
<1>4. m \in S
  <2> SUFFICES ASSUME m \notin S PROVE FALSE
    OBVIOUS
  <2>1. \A j \in S : j \in Nat /\ m \in Nat /\ j < m
    OBVIOUS
  <2>2. \A j \in S : j <= m - 1 /\ m - 1 \in Nat
    BY <2>1
  <2>3. PICK i \in S : TRUE
    OBVIOUS
  <2>4. m - 1 \in Nat /\ m - 1 < m
    BY <2>1, <2>2, <2>3
  <2>5. m - 1 \in T
    BY <2>2, <2>4
  <2> QED BY <1>3, <2>4, <2>5
<1> QED BY <1>4

\* The cursor of a catch-up read is a place in the log.
LEMMA CursorIsPlace ==
  ASSUME Stored, OnView
  PROVE  Chat!LastShown \in Nat
<1>1. CASE ui.shown = {}
  BY <1>1 DEF Chat!LastShown
<1>2. CASE ui.shown # {}
  <2>1. ui.shown \in SUBSET Nat /\ Len(db.log) \in Nat /\ \A j \in ui.shown : j <= Len(db.log)
    BY DEF Stored, OnView
  <2>2. \E i \in ui.shown : \A j \in ui.shown : j <= i
    BY <1>2, <2>1, BoundedHasMaximum
  <2> QED BY <1>2, <2>1, <2>2 DEF Chat!LastShown
<1> QED BY <1>1, <1>2

\* The message of c is stored at Place(c), or c was never stored.
LEMMA PlaceOfMessage ==
  ASSUME Stored, NEW c
  PROVE  \/ Chat!Place(c) \in DOMAIN db.log /\ db.log[Chat!Place(c)].cid = c /\ Chat!Place(c) <= Len(db.log)
         \/ Chat!Place(c) = Len(db.log) + 1 /\ \A i \in DOMAIN db.log : db.log[i].cid # c
<1>1. CASE \E i \in DOMAIN db.log : db.log[i].cid = c
  BY <1>1 DEF Chat!Place, Stored
<1>2. CASE ~\E i \in DOMAIN db.log : db.log[i].cid = c
  BY <1>2 DEF Chat!Place
<1> QED BY <1>1, <1>2

(***************************************************************************)
(* The log only grows, and what refers to it goes on referring to it.      *)
(***************************************************************************)
Grows == /\ DOMAIN db.log \subseteq DOMAIN db'.log /\ Len(db.log) <= Len(db'.log)
         /\ \A i \in DOMAIN db.log : db'.log[i] = db.log[i]

\* What the database does with a message keeps the log, or adds one to it.
LEMMA StoreGrows ==
  ASSUME Shape, Stored, NEW c \in Sends \cup Arrivals, NEW t \in Conversation, Chat!Store(c, t, Chat!Place(c))
  PROVE  /\ Stored' /\ Grows /\ DOMAIN db' = DOMAIN db
         /\ Chat!Place(c) \in DOMAIN db'.log /\ db'.log[Chat!Place(c)].cid = c
         /\ Chat!Replayable(c, t) => db'.log[Chat!Place(c)].thread = t
<1>1. CASE Chat!Place(c) > Len(db.log)
  <2>1. Chat!Place(c) = Len(db.log) + 1 /\ \A i \in DOMAIN db.log : db.log[i].cid # c
    BY <1>1, PlaceOfMessage DEF Stored
  <2>2. PICK m \in Logged : m = [thread |-> t, cid |-> c]
    BY DEF Logged
  <2>3. db'.log = Append(db.log, m) /\ DOMAIN db' = DOMAIN db
    BY <1>1, <2>2 DEF Chat!Store, Shape
  <2>4. db'.log \in Seq(Logged) /\ Len(db'.log) = Len(db.log) + 1 /\ db'.log[Len(db.log) + 1] = m
        /\ \A i \in 1..Len(db.log) : db'.log[i] = db.log[i]
    BY <2>3 DEF Stored
  <2>5. DOMAIN db.log = 1..Len(db.log) /\ DOMAIN db'.log = 1..Len(db.log) + 1 /\ Len(db.log) \in Nat
    BY <2>4 DEF Stored
  <2>6. Grows
    BY <2>4, <2>5 DEF Grows
  <2>7. Chat!MessageOnce'
    <3> SUFFICES ASSUME NEW i \in DOMAIN db'.log, NEW j \in DOMAIN db'.log,
                        db'.log[i].cid = db'.log[j].cid, db'.log[i].cid \in Sends
                 PROVE  i = j
      BY DEF Chat!MessageOnce
    <3>1. m.cid = c
      BY <2>2
    <3>2. \A k \in DOMAIN db'.log : k \in DOMAIN db.log \/ k = Len(db.log) + 1
      BY <2>5
    <3>3. \A k \in DOMAIN db.log : db'.log[k] = db.log[k] /\ db'.log[k].cid # c
      BY <2>1, <2>4, <2>5
    <3>4. CASE i \in DOMAIN db.log /\ j \in DOMAIN db.log
      BY <3>3, <3>4 DEF Stored, Chat!MessageOnce
    <3>5. CASE i = Len(db.log) + 1 \/ j = Len(db.log) + 1
      BY <2>4, <3>1, <3>2, <3>3, <3>5
    <3> QED BY <3>2, <3>4, <3>5
  <2> QED BY <2>1, <2>2, <2>3, <2>4, <2>5, <2>6, <2>7 DEF Stored
<1>2. CASE ~(Chat!Place(c) > Len(db.log))
  <2>1. db' = db
    BY <1>2 DEF Chat!Store
  <2>2. Chat!Place(c) \in DOMAIN db.log /\ db.log[Chat!Place(c)].cid = c
    BY <1>2, PlaceOfMessage DEF Stored
  <2> QED BY <2>1, <2>2 DEF Stored, Chat!MessageOnce, Grows, Chat!Replayable
<1> QED BY <1>1, <1>2

\* A step that leaves the screen's conversation alone keeps what is asked and
\* shown; frames on the wire stay true.
LEMMA GrownKeeps ==
  ASSUME IInv, Grows
  PROVE  /\ Seq(DownFrame) \subseteq Seq(DownFrame')
         /\ \A r \in PostRequests : PostIsStored(r) => PostIsStored(r)'
         /\ (ui'.thread = ui.thread /\ ui'.gen = ui.gen) =>
               \A r \in ListRequests : ListIsCurrent(r) => ListIsCurrent(r)'
         /\ (ui'.thread = ui.thread /\ ui'.shown = ui.shown) => OnView'
<1>1. DownFrame \subseteq DownFrame'
  BY DEF Grows, DownFrame
<1>2. \A r \in PostRequests : PostIsStored(r) => PostIsStored(r)'
  BY DEF Grows, PostIsStored
<1>3. ASSUME ui'.thread = ui.thread, ui'.gen = ui.gen, NEW r \in ListRequests, ListIsCurrent(r)
      PROVE  ListIsCurrent(r)'
  <2>1. Len(db.log) \in Nat /\ r.upto \in Nat /\ Len(db.log) <= Len(db'.log) /\ Len(db'.log) \in Int
    BY DEF IInv, Stored, Grows, ListRequests
  <2> QED BY <1>3, <2>1 DEF ListIsCurrent
<1>4. (ui'.thread = ui.thread /\ ui'.shown = ui.shown) => OnView'
  BY DEF IInv, Grows, OnView, Chat!StrayIsOwn
<1>5. Seq(DownFrame) \subseteq Seq(DownFrame')
  BY <1>1
<1> QED BY <1>2, <1>3, <1>4, <1>5

-----------------------------------------------------------------------------
(***************************************************************************)
(* The screen and the socket.                                              *)
(***************************************************************************)
SameView == ui'.thread = ui.thread /\ ui'.gen = ui.gen /\ ui'.shown = ui.shown /\ DOMAIN ui' = DOMAIN ui

\* Steps that show nothing and store nothing keep what they do not touch.
LEMMA ViewKept ==
  ASSUME IInv, db'.log = db.log, SameView
  PROVE  /\ Stored' /\ OnView'
         /\ \A r \in net.rest :
              (r \in ListRequests /\ ListIsCurrent(r)') \/ (r \in PostRequests /\ PostIsStored(r)')
         /\ DownFrame' = DownFrame
  BY DEF IInv, SameView, Stored, Chat!MessageOnce, OnView, Chat!StrayIsOwn, Asked, ListIsCurrent, PostIsStored,
         DownFrame

\* What the user writes, or writes again, leaves with the conversation open.
LEMMA DeliverKeeps ==
  ASSUME IInv, NEW c \in Sends, Chat!Deliver(c), SameView, db' = db
  PROVE  IInv'
<1>1. ui.thread \in Conversation /\ net.up \in Seq(UpFrame)
  BY DEF IInv, Shape, OnWire
<1>2. PICK f \in UpFrame : f = [type |-> "send", thread |-> ui.thread, cid |-> c]
  BY <1>1 DEF UpFrame
<1>3. PICK r \in PostRequests : r = [kind |-> "post", thread |-> ui.thread, cid |-> c, place |-> 0, step |-> "sent"]
  <2>1. 0 \in Nat /\ "sent" \in Steps
    BY DEF Steps
  <2> QED BY <1>1, <2>1 DEF PostRequests
<1>4. \/ net' = [net EXCEPT !.up = Append(@, f)]
      \/ net' = [net EXCEPT !.rest = @ \cup {r}]
  BY <1>2, <1>3 DEF Chat!Deliver
<1>5. Append(net.up, f) \in Seq(UpFrame)
  BY <1>1
<1>6. OnWire' /\ Shape'
  BY <1>4, <1>5, ViewKept DEF IInv, OnWire, Shape, SameView
<1>7. PostIsStored(r)'
  BY <1>3 DEF PostIsStored
<1>8. Asked'
  BY <1>4, <1>7, ViewKept DEF IInv, Shape, Asked
<1> QED BY <1>6, <1>8, ViewKept DEF IInv

\* The user writes, waits, gives up and tries again.
LEMMA SendSteps ==
  ASSUME IInv, NEW c \in Sends, Chat!Write(c) \/ Chat!Retry(c) \/ Chat!SendTimesOut(c)
  PROVE  IInv'
<1>1. SameView
  BY DEF IInv, Shape, SameView, Chat!Write, Chat!Retry, Chat!SendTimesOut
<1>2. CASE Chat!Write(c) \/ Chat!Retry(c)
  BY <1>1, <1>2, DeliverKeeps DEF Chat!Write, Chat!Retry
<1>3. CASE Chat!SendTimesOut(c)
  BY <1>1, <1>3, ViewKept DEF Chat!SendTimesOut, IInv, Shape, SameView, OnWire, Asked
<1> QED BY <1>2, <1>3

\* The socket is lost, found, and tells the server what to listen to.
LEMMA SocketSteps ==
  ASSUME IInv,
         \/ Chat!Connect \/ Chat!BecomesVisible \/ Chat!Opens \/ Chat!ServeSubscription
         \/ \E code \in {"lost", "expired", "final"} : Chat!Drops(code)
  PROVE  IInv'
<1>1. SameView
  BY DEF IInv, Shape, SameView, Chat!Connect, Chat!BecomesVisible, Chat!Opens, Chat!ServeSubscription, Chat!Drops
<1>2. db'.log = db.log /\ DOMAIN db' = DOMAIN db
  BY DEF IInv, Shape, Chat!Connect, Chat!BecomesVisible, Chat!Opens, Chat!ServeSubscription, Chat!Drops
<1>3. DOMAIN net' = DOMAIN net
  BY DEF IInv, Shape, Chat!Connect, Chat!BecomesVisible, Chat!Opens, Chat!ServeSubscription, Chat!Drops
<1>4. Shape'
  BY <1>1, <1>2, <1>3 DEF IInv, Shape, SameView
<1>5. OnWire' /\ Asked'
  <2>1. CASE Chat!Connect \/ Chat!BecomesVisible
    BY <1>1, <1>2, <2>1, ViewKept DEF IInv, OnWire, Asked, Chat!Connect, Chat!BecomesVisible
  <2>2. CASE Chat!Opens
    <3>1. ui.thread \in Conversation /\ ui.gen \in Int /\ Chat!LastShown \in Nat
      BY CursorIsPlace DEF IInv, Shape
    <3>2. PICK f \in UpFrame : f = Chat!Subscribe(ui.thread)
      BY <3>1 DEF UpFrame, Chat!Subscribe
    <3>3. PICK r \in ListRequests : r = Chat!List("after", ui.thread, Chat!LastShown, ui.gen)
      <4>1. PICK z \in Nat : z = 0
        OBVIOUS
      <4>2. "sent" \in Steps
        BY DEF Steps
      <4>3. Chat!List("after", ui.thread, Chat!LastShown, ui.gen)
              = [kind |-> "after", thread |-> ui.thread, gen |-> ui.gen, after |-> Chat!LastShown, upto |-> z,
                 step |-> "sent"]
        BY <4>1 DEF Chat!List
      <4> QED BY <3>1, <4>1, <4>2, <4>3 DEF ListRequests
    <3>4. ListIsCurrent(r)'
      <4>1. r.gen = ui.gen /\ r.upto = 0 /\ r.thread = ui.thread
        BY <3>3 DEF Chat!List
      <4>2. Len(db.log) \in Nat
        BY DEF IInv, Stored
      <4> QED BY <1>1, <1>2, <3>1, <4>1, <4>2 DEF ListIsCurrent, SameView
    <3>5. net'.up \in {<<f>>, <<>>} /\ net'.rest \in {net.rest \cup {r}, net.rest} /\ net'.down = net.down
      BY <2>2, <3>2, <3>3 DEF Chat!Opens, IInv, Shape
    <3>6. <<f>> \in Seq(UpFrame) /\ <<>> \in Seq(UpFrame)
      OBVIOUS
    <3>7. OnWire'
      BY <1>1, <1>2, <3>5, <3>6, ViewKept DEF IInv, OnWire
    <3> QED BY <1>1, <1>2, <3>4, <3>5, <3>7, ViewKept DEF Asked
  <2>3. CASE Chat!ServeSubscription
    <3>1. net.up \in Seq(UpFrame) /\ net.up # <<>>
      BY <2>3 DEF Chat!ServeSubscription, IInv, OnWire
    <3>2. net'.up = Tail(net.up) /\ net'.down = net.down /\ net'.rest = net.rest
      BY <2>3 DEF Chat!ServeSubscription, IInv, Shape
    <3>3. Tail(net.up) \in Seq(UpFrame)
      BY <3>1
    <3> QED BY <1>1, <1>2, <3>2, <3>3, ViewKept DEF IInv, OnWire, Asked
  <2>4. ASSUME NEW code, Chat!Drops(code)
        PROVE  OnWire' /\ Asked'
    <3>1. net'.up = <<>> /\ net'.down = <<>> /\ net'.rest = net.rest
      BY <2>4 DEF Chat!Drops, IInv, Shape
    <3> QED BY <1>1, <1>2, <3>1, ViewKept DEF IInv, OnWire, Asked
  <2> QED BY <2>1, <2>2, <2>3, <2>4
<1> QED BY <1>1, <1>2, <1>4, <1>5, ViewKept DEF IInv

\* Another conversation opens empty, and answers to the last are too late.
LEMMA OpenThreadStep ==
  ASSUME IInv, NEW t \in Threads, Chat!OpenThread(t)
  PROVE  IInv'
<1>1. ui.gen \in Int /\ ui.thread \in Conversation /\ t \in Conversation
  BY DEF IInv, Shape, Conversation
<1>2. /\ ui'.thread = t /\ ui'.gen = ui.gen + 1 /\ ui'.shown = {} /\ DOMAIN ui' = DOMAIN ui /\ db' = db
  BY DEF Chat!OpenThread, IInv, Shape
<1>3. PICK f \in UpFrame : f = Chat!Unsubscribe(ui.thread)
  BY <1>1 DEF UpFrame, Chat!Unsubscribe
<1>4. PICK n \in Int : n = ui.gen + 1
  BY <1>1
<1>5. PICK r \in ListRequests : r = Chat!List("page", t, 0, n)
  <2>1. PICK z \in Nat : z = 0
    OBVIOUS
  <2>2. "sent" \in Steps
    BY DEF Steps
  <2>3. Chat!List("page", t, 0, n)
          = [kind |-> "page", thread |-> t, gen |-> n, after |-> z, upto |-> z, step |-> "sent"]
    BY <2>1 DEF Chat!List
  <2> QED BY <1>1, <2>1, <2>2, <2>3 DEF ListRequests
<1>6. /\ net'.up \in {net.up, net.up \o <<f>>} /\ net'.down = net.down
      /\ net'.rest = net.rest \cup {r} /\ DOMAIN net' = DOMAIN net
  BY <1>3, <1>4, <1>5 DEF Chat!OpenThread, Chat!Frames, IInv, Shape
<1>7. Shape'
  BY <1>1, <1>2, <1>6 DEF IInv, Shape
<1>8. net.up \o <<f>> \in Seq(UpFrame)
  BY DEF IInv, OnWire
<1>9. OnWire'
  <2>1. DownFrame' = DownFrame
    BY <1>2 DEF DownFrame
  <2> QED BY <1>6, <1>8, <2>1 DEF IInv, OnWire
<1>10. Asked'
  <2>1. r.gen = ui'.gen /\ r.upto = 0 /\ r.thread = ui'.thread /\ Len(db.log) \in Nat
    BY <1>2, <1>4, <1>5 DEF Chat!List, IInv, Stored
  <2>2. ListIsCurrent(r)'
    BY <1>1, <1>2, <2>1 DEF ListIsCurrent
  <2>3. ASSUME NEW q \in ListRequests, ListIsCurrent(q)
        PROVE  ListIsCurrent(q)'
    <3>1. q.gen \in Int
      BY DEF ListRequests
    <3> QED BY <1>1, <1>2, <2>3, <3>1 DEF ListIsCurrent
  <2>4. \A q \in PostRequests : PostIsStored(q) => PostIsStored(q)'
    BY <1>2 DEF PostIsStored
  <2> QED BY <1>6, <2>2, <2>3, <2>4 DEF IInv, Asked
<1>11. Stored' /\ OnView'
  BY <1>2 DEF IInv, Stored, Chat!MessageOnce, OnView, Chat!StrayIsOwn
<1> QED BY <1>7, <1>9, <1>10, <1>11 DEF IInv

-----------------------------------------------------------------------------
(***************************************************************************)
(* What comes back.                                                        *)
(***************************************************************************)
\* Messages put on screen leave the rest of it where it was.
LEMMA UpsertKeeps ==
  ASSUME NEW u, DOMAIN u = DOMAIN ui, Shape, NEW is
  PROVE  LET v == Chat!Upsert(u, is)
         IN /\ DOMAIN v = DOMAIN u /\ v.thread = u.thread /\ v.gen = u.gen
            /\ v.shown = u.shown \cup is
  BY DEF Shape, Chat!Upsert

\* What a list brings is stored, and of the conversation it was asked for.
LEMMA ListedIsStored ==
  ASSUME IInv, NEW r \in ListRequests, ListIsCurrent(r)
  PROVE  Chat!Listed(r) \subseteq DOMAIN db.log /\ \A i \in Chat!Listed(r) : db.log[i].thread = r.thread
<1>1. r.after \in Nat /\ r.upto \in Nat /\ r.upto <= Len(db.log)
  BY DEF ListRequests, ListIsCurrent
<1>2. DOMAIN db.log = 1..Len(db.log) /\ Len(db.log) \in Nat
  BY DEF IInv, Stored
<1>3. r.after + 1..r.upto \subseteq 1..Len(db.log)
  BY <1>1, <1>2
<1> QED BY <1>2, <1>3 DEF Chat!Listed

\* Message i may be put on the screen as it stands.
Showable(i) == i \in DOMAIN db.log /\ (db.log[i].thread = ui.thread \/ db.log[i].cid \in Sends)

\* An answer leaves the wire, and its messages may be shown.
LEMMA AnswerKeeps ==
  ASSUME IInv, db' = db, DOMAIN ui' = DOMAIN ui, ui'.thread = ui.thread, ui'.gen = ui.gen,
         \A i \in ui'.shown : i \in ui.shown \/ Showable(i),
         DOMAIN net' = DOMAIN net, net'.rest \subseteq net.rest,
         net'.up \in Seq(UpFrame), net'.down \in Seq(DownFrame)
  PROVE  IInv'
<1>1. Shape' /\ Stored'
  BY DEF IInv, Shape, Stored, Chat!MessageOnce
<1>2. OnWire'
  BY DEF OnWire, DownFrame
<1>3. Asked'
  BY DEF IInv, Asked, ListIsCurrent, PostIsStored
<1>4. OnView'
  BY DEF IInv, OnView, Chat!StrayIsOwn, Showable
<1> QED BY <1>1, <1>2, <1>3, <1>4 DEF IInv

\* Pages, catch-up reads and POSTs, answered or lost.
LEMMA AnswerSteps ==
  ASSUME IInv, NEW r \in net.rest,
         Chat!PageArrives(r) \/ Chat!CatchUpArrives(r) \/ Chat!ListFails(r) \/ Chat!PostArrives(r)
         \/ Chat!PostFails(r)
  PROVE  IInv'
<1>1. (r \in ListRequests /\ ListIsCurrent(r)) \/ (r \in PostRequests /\ PostIsStored(r))
  BY DEF IInv, Asked
<1>2. db' = db /\ net.up \in Seq(UpFrame) /\ net.down \in Seq(DownFrame)
  BY DEF IInv, OnWire, Chat!PageArrives, Chat!CatchUpArrives, Chat!ListFails, Chat!PostArrives, Chat!PostFails
<1>3. ASSUME net' = [net EXCEPT !.rest = @ \ {r}]
      PROVE  net'.up = net.up /\ net'.down = net.down /\ net'.rest \subseteq net.rest /\ DOMAIN net' = DOMAIN net
  BY <1>3 DEF IInv, Shape
<1>4. ASSUME SameView, net' = [net EXCEPT !.rest = @ \ {r}]
      PROVE  IInv'
  <2> QED BY <1>2, <1>3, <1>4, AnswerKeeps DEF SameView
<1>5. CASE Chat!PageArrives(r) \/ Chat!CatchUpArrives(r)
  <2>1. r \in ListRequests /\ ListIsCurrent(r)
    BY <1>1, <1>5 DEF Chat!PageArrives, Chat!CatchUpArrives, PostRequests
  <2>2. Chat!Listed(r) \subseteq DOMAIN db.log /\ \A i \in Chat!Listed(r) : db.log[i].thread = r.thread
    BY <2>1, ListedIsStored
  <2>3. CASE ~Chat!Current(r)
    BY <1>4, <1>5, <2>3 DEF Chat!PageArrives, Chat!CatchUpArrives, SameView
  <2>4. CASE Chat!Current(r) /\ Chat!PageArrives(r)
    <3>1. r.thread = ui.thread /\ r.thread \in Conversation
      BY <2>1, <2>4 DEF Chat!Current, ListIsCurrent, ListRequests
    <3>2. /\ ui'.shown = Chat!Listed(r) /\ ui'.thread = ui.thread /\ ui'.gen = ui.gen /\ DOMAIN ui' = DOMAIN ui
      BY <2>4 DEF Chat!PageArrives, IInv, Shape
    <3>3. PICK f \in UpFrame : f = Chat!Subscribe(r.thread)
      BY <3>1 DEF UpFrame, Chat!Subscribe
    <3>4. /\ net'.up \in {net.up, net.up \o <<f>>} /\ net'.down = net.down /\ net'.rest \subseteq net.rest
          /\ DOMAIN net' = DOMAIN net
      <4>1. net' = [net EXCEPT !.rest = @ \ {r}, !.up = Chat!Frames(<<f>>)]
        BY <2>4, <3>3 DEF Chat!PageArrives
      <4>2. DOMAIN net = {"up", "down", "rest"} /\ Chat!Frames(<<f>>) \in {net.up, net.up \o <<f>>}
        BY DEF Chat!Frames, IInv, Shape
      <4> QED BY <4>1, <4>2
    <3>5. net.up \o <<f>> \in Seq(UpFrame)
      BY <1>2
    <3>6. \A i \in ui'.shown : Showable(i)
      BY <2>2, <3>1, <3>2 DEF Showable
    <3> QED BY <1>2, <3>2, <3>4, <3>5, <3>6, AnswerKeeps
  <2>5. CASE Chat!Current(r) /\ Chat!CatchUpArrives(r)
    <3>1. r.thread = ui.thread
      BY <2>1, <2>5 DEF Chat!Current, ListIsCurrent
    <3>2. ui' = Chat!Upsert(ui, Chat!Listed(r)) /\ net' = [net EXCEPT !.rest = @ \ {r}]
      BY <2>5 DEF Chat!CatchUpArrives
    <3>3. /\ ui'.shown = ui.shown \cup Chat!Listed(r) /\ ui'.thread = ui.thread /\ ui'.gen = ui.gen
          /\ DOMAIN ui' = DOMAIN ui
      BY <3>2, UpsertKeeps DEF IInv
    <3>4. \A i \in Chat!Listed(r) : Showable(i)
      BY <2>2, <3>1 DEF Showable
    <3> QED BY <1>2, <1>3, <3>2, <3>3, <3>4, AnswerKeeps
  <2> QED BY <1>5, <2>3, <2>4, <2>5
<1>6. CASE Chat!ListFails(r) \/ Chat!PostFails(r)
  BY <1>4, <1>6 DEF Chat!ListFails, Chat!PostFails, SameView, IInv, Shape
<1>7. CASE Chat!PostArrives(r)
  <2>1. r \in PostRequests /\ PostIsStored(r) /\ r.step = "answered"
    BY <1>1, <1>7 DEF Chat!PostArrives, ListRequests
  <2>2. r.place \in DOMAIN db.log /\ db.log[r.place].cid \in Sends
    BY <2>1 DEF PostIsStored, PostRequests
  <2>3. ui' = Chat!Upsert(ui, {r.place}) /\ net' = [net EXCEPT !.rest = @ \ {r}]
    BY <1>7 DEF Chat!PostArrives
  <2>4. /\ ui'.shown = ui.shown \cup {r.place} /\ ui'.thread = ui.thread /\ ui'.gen = ui.gen
        /\ DOMAIN ui' = DOMAIN ui
    BY <2>3, UpsertKeeps DEF IInv
  <2>5. \A i \in {r.place} : Showable(i)
    BY <2>2 DEF Showable
  <2> QED BY <1>2, <1>3, <2>3, <2>4, <2>5, AnswerKeeps
<1> QED BY <1>5, <1>6, <1>7

\* A frame about a message of the conversation on screen shows it.
LEMMA ReceiveStep ==
  ASSUME IInv, Chat!Receive
  PROVE  IInv'
<1> DEFINE f == Head(net.down)
           u == [ui EXCEPT !.refreshed = FALSE]
<1>1. net.down \in Seq(DownFrame) /\ net.up \in Seq(UpFrame) /\ net.down # <<>>
  BY DEF IInv, OnWire, Chat!Receive
<1>2. f \in DownFrame /\ Tail(net.down) \in Seq(DownFrame)
  BY <1>1
<1>3. /\ net'.down = Tail(net.down) /\ net'.up = net.up /\ net'.rest = net.rest /\ DOMAIN net' = DOMAIN net
      /\ db' = db
  BY DEF Chat!Receive, IInv, Shape
<1>4. DOMAIN u = DOMAIN ui /\ u.thread = ui.thread /\ u.gen = ui.gen /\ u.shown = ui.shown
  BY DEF IInv, Shape
<1>5. \/ ui' = u \/ ui' = [u EXCEPT !.state[f.cid] = "failed"]
      \/ f.thread = ui.thread /\ f.type # "error" /\ ui' = Chat!Upsert(u, {f.place})
  BY DEF Chat!Receive
<1>6. CASE ui' = u \/ ui' = [u EXCEPT !.state[f.cid] = "failed"]
  <2>1. DOMAIN ui' = DOMAIN ui /\ ui'.thread = ui.thread /\ ui'.gen = ui.gen /\ ui'.shown = ui.shown
    <3> HIDE DEF u
    <3> QED BY <1>4, <1>6 DEF IInv, Shape
  <2> HIDE DEF f, u
  <2> QED BY <1>1, <1>2, <1>3, <2>1, AnswerKeeps
<1>7. CASE f.thread = ui.thread /\ f.type # "error" /\ ui' = Chat!Upsert(u, {f.place})
  <2>1. f.place \in DOMAIN db.log /\ db.log[f.place].thread = ui.thread
    BY <1>2, <1>7 DEF DownFrame
  <2>2. /\ ui'.shown = ui.shown \cup {f.place} /\ ui'.thread = ui.thread /\ ui'.gen = ui.gen
        /\ DOMAIN ui' = DOMAIN ui
    <3> HIDE DEF u
    <3> QED BY <1>4, <1>7, UpsertKeeps DEF IInv
  <2>3. \A i \in {f.place} : Showable(i)
    BY <2>1 DEF Showable
  <2> HIDE DEF f, u
  <2> QED BY <1>1, <1>2, <1>3, <2>2, <2>3, AnswerKeeps
<1> QED BY <1>5, <1>6, <1>7

-----------------------------------------------------------------------------
(***************************************************************************)
(* The server.                                                             *)
(***************************************************************************)
\* The group is told where the message is.
LEMMA EchoIsTrue ==
  ASSUME Shape, Stored, NEW c \in Sends \cup Arrivals, NEW t \in Conversation, Chat!Store(c, t, Chat!Place(c)),
         Chat!Replayable(c, t)
  PROVE  Chat!Echo(t, Chat!Place(c)) \in Seq(DownFrame')
<1>1. /\ Chat!Place(c) \in DOMAIN db'.log /\ db'.log[Chat!Place(c)].thread = t /\ db'.log \in Seq(Logged)
  BY StoreGrows DEF Stored
<1>2. Chat!Place(c) \in Nat
  BY <1>1
<1>3. [type |-> "new", thread |-> t, place |-> Chat!Place(c)] \in DownFrame'
  BY <1>1, <1>2 DEF DownFrame
<1>4. <<Chat!News(t, Chat!Place(c))>> \in Seq(DownFrame') /\ <<>> \in Seq(DownFrame')
  BY <1>3 DEF Chat!News
<1> QED BY <1>4 DEF Chat!Echo

\* A step that stores keeps what is shown and asked.
LEMMA StoringKeeps ==
  ASSUME IInv, ui' = ui, Stored', Grows, DOMAIN db' = DOMAIN db, DOMAIN net' = DOMAIN net,
         net'.up \in Seq(UpFrame), net'.down \in Seq(DownFrame'),
         \A r \in net'.rest : r \in net.rest \/ (r \in PostRequests /\ PostIsStored(r)')
  PROVE  IInv'
<1>1. Shape' /\ OnWire'
  BY DEF IInv, Shape, OnWire
<1>2. Asked'
  BY GrownKeeps DEF IInv, Asked
<1>3. OnView'
  BY GrownKeeps
<1> QED BY <1>1, <1>2, <1>3 DEF IInv

\* A frame that sends is refused, or stored and acknowledged.
LEMMA ServeSendStep ==
  ASSUME IInv, Chat!ServeSend
  PROVE  IInv'
<1> DEFINE f == Head(net.up)
<1>1. net.up \in Seq(UpFrame) /\ net.up # <<>> /\ f.type = "send" /\ net.down \in Seq(DownFrame)
  BY DEF Chat!ServeSend, IInv, OnWire
<1>2. f \in UpFrame /\ Tail(net.up) \in Seq(UpFrame)
  BY <1>1
<1>3. f.thread \in Conversation /\ f.cid \in Sends
  BY <1>1, <1>2 DEF UpFrame
<1> HIDE DEF f
<1> DEFINE refused == [type |-> "error", thread |-> f.thread, cid |-> f.cid]
           ack == [type |-> "ack", thread |-> f.thread, place |-> Chat!Place(f.cid)]
<1>4. CASE db' = db /\ net' = [net EXCEPT !.up = Tail(@), !.down = Append(@, refused)]
  <2>1. refused \in DownFrame
    BY <1>3 DEF DownFrame
  <2>2. Append(net.down, refused) \in Seq(DownFrame)
    <3> HIDE DEF refused
    <3> QED BY <1>1, <2>1
  <2>3. /\ net'.up = Tail(net.up) /\ net'.down = Append(net.down, refused) /\ net'.rest = net.rest
        /\ DOMAIN net' = DOMAIN net
    BY <1>4 DEF IInv, Shape
  <2>4. ui' = ui
    BY DEF Chat!ServeSend
  <2>5. net'.up \in Seq(UpFrame) /\ net'.down \in Seq(DownFrame) /\ net'.rest \subseteq net.rest
    BY <1>2, <2>2, <2>3
  <2> HIDE DEF refused
  <2> QED BY <1>4, <2>3, <2>4, <2>5, AnswerKeeps
<1>5. CASE /\ Chat!Replayable(f.cid, f.thread) /\ Chat!Store(f.cid, f.thread, Chat!Place(f.cid))
           /\ net' = [net EXCEPT !.up = Tail(@), !.down = @ \o <<ack>> \o Chat!Echo(f.thread, Chat!Place(f.cid))]
  <2>1. /\ Stored' /\ Grows /\ DOMAIN db' = DOMAIN db
        /\ Chat!Place(f.cid) \in DOMAIN db'.log /\ db'.log[Chat!Place(f.cid)].thread = f.thread
    BY <1>3, <1>5, StoreGrows DEF IInv
  <2>2. Chat!Place(f.cid) \in Nat
    BY <2>1 DEF Stored
  <2>3. ack \in DownFrame'
    BY <1>3, <2>1, <2>2 DEF DownFrame
  <2>4. Chat!Echo(f.thread, Chat!Place(f.cid)) \in Seq(DownFrame')
    BY <1>3, <1>5, EchoIsTrue DEF IInv
  <2>5. net.down \in Seq(DownFrame')
    BY <1>1, <2>1, GrownKeeps
  <2>6. net.down \o <<ack>> \o Chat!Echo(f.thread, Chat!Place(f.cid)) \in Seq(DownFrame')
    <3> HIDE DEF ack
    <3>1. net.down \o <<ack>> \in Seq(DownFrame')
      BY <2>3, <2>5
    <3> QED BY <2>4, <3>1
  <2>7. /\ net'.up = Tail(net.up) /\ net'.down = net.down \o <<ack>> \o Chat!Echo(f.thread, Chat!Place(f.cid))
        /\ net'.rest = net.rest /\ DOMAIN net' = DOMAIN net
    BY <1>5 DEF IInv, Shape
  <2>8. ui' = ui
    BY DEF Chat!ServeSend
  <2> QED BY <1>2, <2>1, <2>6, <2>7, <2>8, StoringKeeps
<1> QED BY <1>4, <1>5 DEF Chat!ServeSend, f

\* A list reads what is stored by then; a POST stores its message.
LEMMA ServeRequestSteps ==
  ASSUME IInv, NEW r \in net.rest, Chat!ServeList(r) \/ Chat!ServePost(r)
  PROVE  IInv'
<1>1. (r \in ListRequests /\ ListIsCurrent(r)) \/ (r \in PostRequests /\ PostIsStored(r))
  BY DEF IInv, Asked
<1>2. CASE Chat!ServeList(r)
  <2>1. r \in ListRequests /\ ListIsCurrent(r)
    BY <1>1, <1>2 DEF Chat!ServeList, PostRequests
  <2>2. PICK n \in Nat : n = Len(db.log)
    BY DEF IInv, Stored
  <2>3. PICK step \in Steps : step = "answered"
    BY DEF Steps
  <2> DEFINE q == [r EXCEPT !.step = step, !.upto = n]
  <2>4. q \in ListRequests /\ q.gen = r.gen /\ q.thread = r.thread /\ q.upto = n
    BY <2>1 DEF ListRequests
  <2>5. /\ net'.rest = (net.rest \ {r}) \cup {q} /\ net'.up = net.up /\ net'.down = net.down
        /\ DOMAIN net' = DOMAIN net
    BY <1>2, <2>2, <2>3 DEF Chat!ServeList, IInv, Shape
  <2>6. SameView /\ db' = db
    BY <1>2 DEF Chat!ServeList, SameView
  <2>7. ListIsCurrent(q)'
    BY <2>1, <2>2, <2>4, <2>6 DEF ListIsCurrent, SameView
  <2> HIDE DEF q
  <2>8. Asked'
    BY <2>4, <2>5, <2>6, <2>7, ViewKept DEF Asked
  <2> QED BY <2>5, <2>6, <2>8, ViewKept DEF IInv, Shape, OnWire, SameView
<1>3. CASE Chat!ServePost(r)
  <2>1. r \in PostRequests /\ r.cid \in Sends /\ r.thread \in Conversation /\ Chat!Replayable(r.cid, r.thread)
    BY <1>1, <1>3 DEF Chat!ServePost, PostRequests, ListRequests
  <2>2. Chat!Store(r.cid, r.thread, Chat!Place(r.cid))
    BY <1>3 DEF Chat!ServePost
  <2>3. /\ Stored' /\ Grows /\ DOMAIN db' = DOMAIN db
        /\ Chat!Place(r.cid) \in DOMAIN db'.log /\ db'.log[Chat!Place(r.cid)].cid = r.cid
    BY <2>1, <2>2, StoreGrows DEF IInv
  <2>4. PICK n \in Nat : n = Chat!Place(r.cid)
    BY <2>3 DEF Stored
  <2>5. PICK step \in Steps : step = "answered"
    BY DEF Steps
  <2> DEFINE q == [r EXCEPT !.step = step, !.place = n]
  <2>6. q \in PostRequests /\ q.cid = r.cid /\ q.place = n
    BY <2>1 DEF PostRequests
  <2>7. /\ net'.rest = (net.rest \ {r}) \cup {q} /\ net'.up = net.up
        /\ net'.down = net.down \o Chat!Echo(r.thread, Chat!Place(r.cid)) /\ DOMAIN net' = DOMAIN net /\ ui' = ui
    BY <1>3, <2>4, <2>5 DEF Chat!ServePost, IInv, Shape
  <2>8. net.down \in Seq(DownFrame') /\ Chat!Echo(r.thread, Chat!Place(r.cid)) \in Seq(DownFrame')
    BY <2>1, <2>2, <2>3, GrownKeeps, EchoIsTrue DEF IInv, OnWire
  <2>9. net.down \o Chat!Echo(r.thread, Chat!Place(r.cid)) \in Seq(DownFrame')
    BY <2>8
  <2>10. PostIsStored(q)'
    BY <2>3, <2>4, <2>6 DEF PostIsStored
  <2> HIDE DEF q
  <2> QED BY <2>3, <2>6, <2>7, <2>9, <2>10, StoringKeeps DEF IInv, OnWire
<1> QED BY <1>2, <1>3

\* A message of the peer is new.
LEMMA PeerWritesStep ==
  ASSUME IInv, NEW p \in Arrivals, NEW t \in Threads, Chat!PeerWrites(p, t)
  PROVE  IInv'
<1>1. t \in Conversation /\ p \in Sends \cup Arrivals /\ Chat!Place(p) = Len(db.log) + 1
  BY DEF Chat!PeerWrites, Conversation
<1>2. Chat!Store(p, t, Chat!Place(p))
  BY <1>1 DEF Chat!PeerWrites
<1>3. Chat!Replayable(p, t)
  BY <1>1 DEF Chat!Replayable, IInv, Stored
<1>4. Stored' /\ Grows /\ DOMAIN db' = DOMAIN db
  BY <1>1, <1>2, StoreGrows DEF IInv
<1>5. net.down \in Seq(DownFrame') /\ Chat!Echo(t, Chat!Place(p)) \in Seq(DownFrame')
  BY <1>1, <1>2, <1>3, <1>4, GrownKeeps, EchoIsTrue DEF IInv, OnWire
<1>6. net.down \o Chat!Echo(t, Chat!Place(p)) \in Seq(DownFrame')
  BY <1>5
<1>7. /\ net'.down = net.down \o Chat!Echo(t, Chat!Place(p)) /\ net'.up = net.up /\ net'.rest = net.rest
      /\ DOMAIN net' = DOMAIN net /\ ui' = ui
  BY <1>1 DEF Chat!PeerWrites, IInv, Shape
<1> QED BY <1>4, <1>6, <1>7, StoringKeeps DEF IInv, OnWire

-----------------------------------------------------------------------------
(***************************************************************************)
(* The theorems.                                                           *)
(***************************************************************************)
\* At first no conversation is open and nothing is stored.
LEMMA InitInv ==
  ASSUME Chat!Init
  PROVE  IInv
<1>1. Shape
  BY DEF Chat!Init, Shape, Conversation
<1>2. db.log = <<>> /\ net.up = <<>> /\ net.down = <<>> /\ net.rest = {} /\ ui.shown = {}
  BY DEF Chat!Init
<1>3. Stored
  BY <1>2 DEF Stored, Chat!MessageOnce
<1>4. OnWire /\ Asked /\ OnView
  BY <1>2 DEF OnWire, Asked, OnView, Chat!StrayIsOwn
<1> QED BY <1>1, <1>3, <1>4 DEF IInv

\* Every step keeps the invariant.
LEMMA NextInv ==
  ASSUME IInv, Chat!Next \/ UNCHANGED <<ui, db, net>>
  PROVE  IInv'
<1>1. CASE UNCHANGED <<ui, db, net>>
  BY <1>1, ViewKept DEF SameView, IInv, Shape, OnWire, Asked
<1> QED
  BY <1>1, OpenThreadStep, PeerWritesStep, SendSteps, AnswerSteps, ServeRequestSteps, SocketSteps, ReceiveStep,
     ServeSendStep DEF Chat!Next

\* A step of the messages screen is one of the chat, and stays on the screen.
LEMMA MessagesStay ==
  ASSUME screen = "messages", [Next]_vars
  PROVE  screen' = screen /\ (Chat!Next \/ UNCHANGED <<ui, db, net>>)
BY DEF Next, vars, PaperScreens, SigningScreens, RentalScreens, FormScreens, ListingScreens, SearchScreens

MessagesInv == screen = "messages" => IInv

\* The bubbles are of messages the user wrote, and beside no message stored.
Bubbles == ui.bubbles \subseteq Sends /\ Chat!ShownOnce

\* The bubbles that are left are beside nothing that is on screen now.
LEMMA UpsertTakesBubbles ==
  ASSUME IInv, Bubbles, NEW u, DOMAIN u = DOMAIN ui, u.shown = ui.shown, u.bubbles = ui.bubbles, NEW is,
         ui' = Chat!Upsert(u, is), db' = db
  PROVE  Bubbles'
<1>1. ui'.shown = ui.shown \cup is /\ ui'.bubbles = ui.bubbles \ Chat!Own(is \ ui.shown)
  BY DEF Chat!Upsert, IInv, Shape
<1>2. ASSUME NEW i \in ui'.shown, db.log[i].cid \in ui'.bubbles
      PROVE  FALSE
  <2>1. i \in is \ ui.shown /\ db.log[i].cid \in Sends
    BY <1>1, <1>2 DEF Bubbles, Chat!ShownOnce
  <2>2. db.log[i].cid \in Chat!Own(is \ ui.shown)
    BY <2>1 DEF Chat!Own
  <2> QED BY <1>1, <1>2, <2>2
<1> QED BY <1>1, <1>2 DEF Bubbles, Chat!ShownOnce

\* Nothing else puts a bubble beside a message: one is written before its
\* message is stored, and a page or another conversation sweeps them away.
LEMMA BubblesKept ==
  ASSUME IInv, Bubbles, Chat!Next \/ UNCHANGED <<ui, db, net>>
  PROVE  Bubbles'
<1>1. ASSUME ui'.shown = ui.shown, ui'.bubbles = ui.bubbles, Grows
      PROVE  Bubbles'
  BY <1>1 DEF Bubbles, Chat!ShownOnce, IInv, OnView, Grows
<1>2. db.log = db'.log => Grows
  BY DEF Grows, IInv, Stored
<1>3. CASE UNCHANGED <<ui, db, net>>
  BY <1>1, <1>2, <1>3
<1>4. ASSUME NEW t \in Threads, Chat!OpenThread(t)
      PROVE  Bubbles'
  BY <1>4 DEF Chat!OpenThread, Bubbles, Chat!ShownOnce, IInv, Shape
<1>5. ASSUME NEW c \in Sends, Chat!Write(c)
      PROVE  Bubbles'
  <2>1. ui'.shown = ui.shown /\ ui'.bubbles = ui.bubbles \cup {c} /\ db' = db
    BY <1>5 DEF Chat!Write, IInv, Shape
  <2>2. \A i \in ui.shown : db.log[i].cid # c
    BY <1>5 DEF Chat!Write, IInv, OnView
  <2> QED BY <2>1, <2>2 DEF Bubbles, Chat!ShownOnce
<1>6. ASSUME NEW r \in net.rest, Chat!PageArrives(r)
      PROVE  Bubbles'
  <2>1. CASE Chat!Current(r)
    BY <1>6, <2>1 DEF Chat!PageArrives, Bubbles, Chat!ShownOnce, IInv, Shape
  <2>2. CASE ~Chat!Current(r)
    BY <1>1, <1>2, <1>6, <2>2 DEF Chat!PageArrives
  <2> QED BY <2>1, <2>2
<1>7. ASSUME NEW r \in net.rest, Chat!CatchUpArrives(r) \/ Chat!PostArrives(r)
      PROVE  Bubbles'
  <2>1. PICK is : db' = db /\ (ui' = ui \/ ui' = Chat!Upsert(ui, is))
    BY <1>7 DEF Chat!CatchUpArrives, Chat!PostArrives
  <2> QED BY <1>1, <1>2, <2>1, UpsertTakesBubbles
<1>8. CASE Chat!Receive
  <2> DEFINE f == Head(net.down)
             u == [ui EXCEPT !.refreshed = FALSE]
  <2>1. DOMAIN u = DOMAIN ui /\ u.shown = ui.shown /\ u.bubbles = ui.bubbles /\ db' = db
    BY <1>8 DEF Chat!Receive, IInv, Shape
  <2>2. ui' = u \/ ui' = [u EXCEPT !.state[f.cid] = "failed"] \/ ui' = Chat!Upsert(u, {f.place})
    BY <1>8 DEF Chat!Receive
  <2> HIDE DEF f, u
  <2>3. CASE ui' = u \/ ui' = [u EXCEPT !.state[f.cid] = "failed"]
    <3>1. ui'.shown = ui.shown /\ ui'.bubbles = ui.bubbles
      BY <2>1, <2>3 DEF IInv, Shape
    <3> QED BY <1>1, <1>2, <2>1, <3>1
  <2>4. CASE ui' = Chat!Upsert(u, {f.place})
    BY <2>1, <2>4, UpsertTakesBubbles
  <2> QED BY <2>2, <2>3, <2>4
<1>9. ASSUME \/ \E c \in Sends : Chat!Retry(c) \/ Chat!SendTimesOut(c)
             \/ \E r \in net.rest : Chat!ListFails(r) \/ Chat!PostFails(r) \/ Chat!ServeList(r)
             \/ Chat!Connect \/ Chat!BecomesVisible \/ Chat!Opens \/ Chat!ServeSubscription
             \/ \E code \in {"lost", "expired", "final"} : Chat!Drops(code)
      PROVE  Bubbles'
  <2>1. ui'.shown = ui.shown /\ ui'.bubbles = ui.bubbles
    BY <1>9 DEF Chat!Retry, Chat!SendTimesOut, Chat!ListFails, Chat!PostFails, Chat!ServeList, Chat!Connect,
                Chat!BecomesVisible, Chat!Opens, Chat!ServeSubscription, Chat!Drops, IInv, Shape
  <2>2. db'.log = db.log
    BY <1>9 DEF Chat!Retry, Chat!SendTimesOut, Chat!ListFails, Chat!PostFails, Chat!ServeList, Chat!Connect,
                Chat!BecomesVisible, Chat!Opens, Chat!ServeSubscription, Chat!Drops, IInv, Shape
  <2> QED BY <1>1, <1>2, <2>1, <2>2
<1>10. CASE Chat!ServeSend
  <2> DEFINE f == Head(net.up)
  <2>1. net.up \in Seq(UpFrame) /\ net.up # <<>> /\ f.type = "send"
    BY <1>10 DEF Chat!ServeSend, IInv, OnWire
  <2>2. f \in UpFrame
    BY <2>1
  <2>3. f.thread \in Conversation /\ f.cid \in Sends
    BY <2>1, <2>2 DEF UpFrame
  <2>4. db' = db \/ Chat!Store(f.cid, f.thread, Chat!Place(f.cid))
    BY <1>10 DEF Chat!ServeSend
  <2>5. ui' = ui
    BY <1>10 DEF Chat!ServeSend
  <2> HIDE DEF f
  <2>6. Grows
    BY <1>2, <2>3, <2>4, StoreGrows DEF IInv
  <2> QED BY <1>1, <2>5, <2>6
<1>11. ASSUME NEW r \in net.rest, Chat!ServePost(r)
       PROVE  Bubbles'
  <2>1. r.cid \in Sends /\ r.thread \in Conversation
    BY <1>11 DEF Chat!ServePost, IInv, Asked, PostRequests, ListRequests
  <2>2. Chat!Store(r.cid, r.thread, Chat!Place(r.cid)) /\ ui' = ui
    BY <1>11 DEF Chat!ServePost
  <2> QED BY <1>1, <2>1, <2>2, StoreGrows DEF IInv
<1>12. ASSUME NEW p \in Arrivals, NEW t \in Threads, Chat!PeerWrites(p, t)
       PROVE  Bubbles'
  <2>1. Chat!Store(p, t, Chat!Place(p)) /\ ui' = ui /\ t \in Conversation /\ p \in Sends \cup Arrivals
    BY <1>12 DEF Chat!PeerWrites, Conversation
  <2> QED BY <1>1, <2>1, StoreGrows DEF IInv
<1> QED
  BY <1>3, <1>4, <1>5, <1>6, <1>7, <1>8, <1>9, <1>10, <1>11, <1>12 DEF Chat!Next

BubblesInv == screen = "messages" => Bubbles

\* The invariant holds of every reachable state of the messages screen.
THEOREM ChatInvariance == Spec => []MessagesInv
<1>1. Init => MessagesInv
  BY InitInv DEF MessagesInv, Init, PaperScreens, SigningScreens, RentalScreens, FormScreens, ListingScreens,
                 SearchScreens
<1>2. MessagesInv /\ [Next]_vars => MessagesInv'
  <2> SUFFICES ASSUME MessagesInv, [Next]_vars, screen' = "messages" PROVE IInv'
    BY DEF MessagesInv
  <2>1. screen = "messages"
    BY DEF Next, vars
  <2> QED BY <2>1, MessagesStay, NextInv DEF MessagesInv
<1> QED BY <1>1, <1>2, PTL DEF Spec

\* What the user writes is stored once, whatever is lost and sent again
\* (create_message looks the client_id up).
THEOREM MessagesAreStoredOnce == Spec => []MessageOnce
<1>1. MessagesInv => MessageOnce
  BY DEF MessagesInv, IInv, Stored, MessageOnce
<1> QED BY <1>1, ChatInvariance, PTL

\* What is stored is shown once: no bubble is left beside its message, however
\* the echo, the acknowledgement, the answer and the lists come (upsert).
THEOREM MessagesAreShownOnce == Spec => []ShownOnce
<1>1. Init => BubblesInv
  BY DEF BubblesInv, Bubbles, Chat!ShownOnce, Chat!Init, Init, PaperScreens, SigningScreens, RentalScreens,
         FormScreens, ListingScreens, SearchScreens
<1>2. MessagesInv /\ BubblesInv /\ [Next]_vars => BubblesInv'
  <2> SUFFICES ASSUME MessagesInv, BubblesInv, [Next]_vars, screen' = "messages" PROVE Bubbles'
    BY DEF BubblesInv
  <2>1. screen = "messages"
    BY DEF Next, vars
  <2> QED BY <2>1, MessagesStay, BubblesKept DEF MessagesInv, BubblesInv
<1>3. BubblesInv => ShownOnce
  BY DEF BubblesInv, Bubbles, ShownOnce
<1> QED BY <1>1, <1>2, <1>3, ChatInvariance, PTL DEF Spec

\* No list or frame puts a message of another conversation on screen; what is
\* there by mistake is the user's own, from a POST (threadGeneration, upsert).
THEOREM StraysAreOwn == Spec => []StrayIsOwn
<1>1. MessagesInv => StrayIsOwn
  BY DEF MessagesInv, IInv, OnView, StrayIsOwn
<1> QED BY <1>1, ChatInvariance, PTL
=============================================================================
