----------------------------- MODULE Recurrence -----------------------------
(***************************************************************************)
(* The dialog that books a machine again on a series of later dates, and   *)
(* the server that previews the series and creates it.                     *)
(*                                                                         *)
(* A date is the number of its week; the occurrences of a series are one   *)
(* or two weeks apart.  The preview holds for the exact fields it was      *)
(* asked for; the key under which a series is created belongs to one       *)
(* attempt of the tenant, and a repetition of it returns the same series.  *)
(*                                                                         *)
(* ui is the dialog, db the tenant's series and the weeks of the machine   *)
(* that are taken, net the requests in flight.                             *)
(***************************************************************************)
EXTENDS Integers, FiniteSets

CONSTANTS
  Sources,        \* past rentals of the same machine, numbers from 1
  MaxWeek,        \* bound: the last week
  MaxRevision,    \* bound: edits and previews
  MaxKeys         \* bound: keys made

VARIABLES ui, db, net
vars == <<ui, db, net>>

Inputs == [first : 0..MaxWeek, step : 1..2, occurrences : 2..2]

\* _start_date: every date is counted from the first.
Dates(input) == {input.first + k * input.step : k \in 0..input.occurrences - 1}

\* attempt is the history variable: the revision that began this attempt.
Fresh(source, revision) ==
  [source |-> source, open |-> TRUE, input |-> [first |-> 0, step |-> 1, occurrences |-> 2],
   preview |-> 0, created |-> 0, revision |-> revision, attempt |-> revision, key |-> 0,
   previewing |-> FALSE, creating |-> FALSE]

Init ==
  /\ \E s \in Sources : ui = Fresh(s, 0)
  /\ db = [series |-> {}, taken |-> {}, keys |-> 0]
  /\ net = {}

Shown == ui.open /\ ui.created = 0

\* The same dialog keeps its fields while it is closed; that of another rental
\* starts anew, deaf to what the first one asked.
Open(s) ==
  /\ ~ui.open /\ ui.revision < MaxRevision
  /\ IF s = ui.source
     THEN ui' = [ui EXCEPT !.open = TRUE] /\ net' = net
     ELSE ui' = Fresh(s, ui.revision + 1) /\ net' = {m \in net : m.kind = "create"}
  /\ UNCHANGED db

Close ==
  /\ ui.open /\ ~ui.creating
  /\ ui' = [ui EXCEPT !.open = FALSE]
  /\ UNCHANGED <<db, net>>

\* Another input is another attempt, and no preview covers it.
UpdateInput(input) ==
  /\ Shown /\ ~ui.creating /\ input # ui.input /\ ui.revision < MaxRevision
  /\ ui' = [ui EXCEPT !.input = input, !.revision = @ + 1, !.attempt = ui.revision + 1, !.key = 0,
                      !.preview = 0, !.previewing = FALSE]
  /\ UNCHANGED <<db, net>>

RequestPreview ==
  /\ Shown /\ ui.input.first # 0 /\ ~ui.previewing /\ ~ui.creating /\ ui.revision < MaxRevision
  /\ ui' = [ui EXCEPT !.revision = @ + 1, !.preview = 0, !.previewing = TRUE]
  /\ net' = net \cup {[kind |-> "preview", revision |-> ui.revision + 1, input |-> ui.input]}
  /\ UNCHANGED db

\* What was asked before the last edit is not shown.
PreviewArrives(m) ==
  /\ m.kind = "previewed" /\ net' = net \ {m}
  /\ ui' = IF m.revision = ui.revision THEN [ui EXCEPT !.preview = m.revision, !.previewing = FALSE] ELSE ui
  /\ UNCHANGED db

PreviewFails(m) ==
  /\ m.kind \in {"preview", "previewed"} /\ net' = net \ {m}
  /\ ui' = IF m.revision = ui.revision THEN [ui EXCEPT !.previewing = FALSE] ELSE ui
  /\ UNCHANGED db

\* (mutant) every repetition goes out under a key of its own
AlwaysNew == db.keys + 1

\* attemptKey.current ??= createIdempotencyKey()
AttemptKey == IF ui.key = 0 THEN db.keys + 1 ELSE ui.key

Create ==
  /\ Shown /\ ui.preview # 0 /\ ~ui.creating /\ AttemptKey <= MaxKeys
  /\ ui' = [ui EXCEPT !.creating = TRUE, !.key = AttemptKey]
  /\ db' = [db EXCEPT !.keys = IF AttemptKey > @ THEN AttemptKey ELSE @]
  /\ net' = net \cup {[kind |-> "create", key |-> AttemptKey, source |-> ui.source, input |-> ui.input,
                       attempt |-> ui.attempt]}

CreatedArrives(m) ==
  /\ m.kind = "created" /\ net' = net \ {m}
  /\ ui' = [ui EXCEPT !.created = m.key, !.creating = FALSE]
  /\ UNCHANGED db

\* Refused, lost on its way, or lost once the series was made.
CreateFails(m) ==
  /\ m.kind \in {"create", "created"} /\ net' = net \ {m}
  /\ ui' = [ui EXCEPT !.creating = FALSE]
  /\ UNCHANGED db

\* The created series stays on screen until other dates are asked for.
StartAnother ==
  /\ ui.open /\ ui.created # 0 /\ ui.revision < MaxRevision
  /\ ui' = [ui EXCEPT !.revision = @ + 1, !.attempt = ui.revision + 1, !.key = 0,
                      !.input.first = 0, !.preview = 0, !.created = 0]
  /\ UNCHANGED <<db, net>>

\* ---------------------------------------------------------------- the server
\* build_preview: the series keeps the day between two bookings, its own and
\* those of others.
Bookable(input) == Dates(input) \subseteq 1..MaxWeek /\ Dates(input) \cap db.taken = {}

ServePreview(m) ==
  /\ m.kind = "preview" /\ Bookable(m.input)
  /\ net' = (net \ {m}) \cup {[kind |-> "previewed", revision |-> m.revision]}
  /\ UNCHANGED <<ui, db>>

SeriesOf(m) == {s \in db.series : s.key = m.key}
Same(s, m) == s.source = m.source /\ s.input = m.input

\* create_recurrence: the key is looked up first, and the whole series is made
\* in one transaction, under the tenant's row and the posting's.
ServeCreate(m) ==
  /\ m.kind = "create"
  /\ \A s \in SeriesOf(m) : Same(s, m)
  /\ SeriesOf(m) = {} => Bookable(m.input)
  /\ net' = (net \ {m}) \cup {[kind |-> "created", key |-> m.key]}
  /\ db' = IF SeriesOf(m) # {} THEN db
           ELSE [db EXCEPT !.taken = @ \cup Dates(m.input),
                           !.series = @ \cup {[key |-> m.key, source |-> m.source, input |-> m.input,
                                               attempt |-> m.attempt]}]
  /\ UNCHANGED ui

\* Another tenant books a week; a hold lapses or a rental is cancelled.
OthersBook(w) ==
  /\ w \notin db.taken
  /\ db' = [db EXCEPT !.taken = @ \cup {w}]
  /\ UNCHANGED <<ui, net>>

Frees(w) ==
  /\ w \in db.taken
  /\ db' = [db EXCEPT !.taken = @ \ {w}]
  /\ UNCHANGED <<ui, net>>

Next ==
  \/ \E s \in Sources : Open(s)
  \/ \E input \in Inputs : UpdateInput(input)
  \/ Close \/ RequestPreview \/ Create \/ StartAnother
  \/ \E m \in net :
       \/ PreviewArrives(m) \/ PreviewFails(m) \/ CreatedArrives(m) \/ CreateFails(m)
       \/ ServePreview(m) \/ ServeCreate(m)
  \/ \E w \in 1..MaxWeek : OthersBook(w) \/ Frees(w)

Spec == Init /\ [][Next]_vars
-----------------------------------------------------------------------------
TypeOK ==
  /\ ui.source \in Sources /\ ui.input \in Inputs
  /\ {ui.revision, ui.attempt, ui.preview} \subseteq 0..MaxRevision
  /\ {ui.key, ui.created, db.keys} \subseteq 0..MaxKeys
  /\ db.taken \subseteq 1..MaxWeek

\* "O mesmo identificador numa repeticao: o servidor nao duplica reservas".  The
\* answer may be lost and the tenant may press the button again after the holds
\* of the first series lapsed and its weeks are free: still one series comes of
\* one attempt, and it is the one whose fields are on screen.
SeriesOnce ==
  /\ \A s, t \in db.series : s.attempt = t.attempt => s = t
  /\ ui.created # 0 => \E s \in db.series : s.key = ui.created /\ Same(s, ui)
=============================================================================
