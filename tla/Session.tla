------------------------------- MODULE Session -------------------------------
(***************************************************************************)
(* The session of the web application in one browser tab: what the React   *)
(* context believes (auth), the access token every request carries         *)
(* (token), the refresh cookie the server sets, the calls in flight, and   *)
(* the screen the router lands on.                                         *)
(*                                                                         *)
(* An answer is applied in the step in which it arrives: the continuation  *)
(* of a promise runs before any other event.  A call keeps the cookie or   *)
(* the token it left with, for that is what the server judges it by.       *)
(*                                                                         *)
(* Access tokens are numbered in the order the server issues them, 0 being *)
(* none; era counts the sign-ins and sign-outs the tab has seen.           *)
(***************************************************************************)
EXTENDS Integers, Sequences

CONSTANTS
  Users, Nobody,
  RoleOf,        \* the role claim of each user's tokens
  Calls,         \* requests the mounted screens can have in flight
  Places,        \* the routes a user of the model visits
  MaxTokens,     \* bound: access tokens issued
  MaxEra         \* bound: sign-ins and sign-outs of the tab

ASSUME UsersAssumption == Nobody \notin Users
ASSUME BoundsAssumption == MaxTokens \in Nat /\ MaxEra \in Nat

VARIABLES
  auth, loading, \* AuthContext: the user signed in, and whether bootstrap runs
  token,         \* InMemoryTokenStore
  cookie,        \* the owner of the refresh cookie
  owner,         \* the user of each token issued
  mail,          \* authentication calls in flight
  req,           \* the requests of the screens
  place, from,   \* the route shown, and where the login page returns to
  era,
  crossed        \* history: an answer has crossed a later sign-in or sign-out

tabVars    == <<auth, loading, era, crossed>>
tokenVars  == <<token, cookie, owner>>
routeVars  == <<place, from>>
vars == <<tabVars, tokenVars, routeVars, mail, req>>

Somebody == Users \cup {Nobody}
ByCookie == [kind: {"restore", "refresh"}, user: Somebody, era: 0..MaxEra]
ByUser   == [kind: {"login", "logout"}, user: Users, era: 0..MaxEra]
Mail     == ByCookie \cup ByUser
Steps    == {"idle", "sent", "waiting", "resent"}

\* ------------------------------------------------------------------ routes
\* (mutant) the two copies of this table that had diverged
HomeOfOwners(role) ==
  CASE role \in {"locador", "operador"} -> "/dashboard"
    [] role = "locatario" -> "/dashboard-locatario"
    [] role = "admin" -> "/admin"
    [] OTHER -> "/"

Home(role) ==
  CASE role = "locador" -> "/dashboard"
    [] role \in {"locatario", "operador"} -> "/dashboard-locatario"
    [] role = "admin" -> "/admin"
    [] OTHER -> "/"

Public == {"/", "/login", "/buscar-maquinario"}

Allowed(p) ==
  CASE p = "/reservar" -> {"locatario", "admin"}
    [] p = "/dashboard-locatario" -> {"locatario", "operador", "admin"}
    [] p = "/dashboard" -> {"locador", "admin"}
    [] p = "/admin" -> {"admin"}
    [] OTHER -> {"locatario", "locador", "operador", "admin"}

Admits(p, u) == p \in Public \/ (u # Nobody /\ RoleOf[u] \in Allowed(p))

\* Where the router leaves the user u who is at p, once nothing is loading.
Land(p, u) ==
  IF Admits(p, u) THEN p ELSE IF u = Nobody THEN "/login" ELSE Home(RoleOf[u])

\* ProtectedRoute renders again with what the step leaves in the context.
Render(p, u, busy) ==
  /\ place' = IF busy THEN p ELSE Land(p, u)
  /\ from' = IF ~busy /\ u = Nobody /\ ~Admits(p, u) THEN p
             ELSE IF p = place THEN from ELSE "/"

\* ------------------------------------------------------------------ helpers
Idle == [step |-> "idle", token |-> 0]

Call(k, u) == [kind |-> k, user |-> u, era |-> era]

\* The answer to m sets a token; it was asked for under an earlier session.
Late(m) == m.era < era

\* The server issues the next access token.
Issue(u) ==
  /\ Len(owner) < MaxTokens
  /\ owner' = Append(owner, u) /\ token' = Len(owner) + 1

Refreshing  == \E m \in mail : m.kind = "refresh"

Waiting == {c \in Calls : req[c].step = "waiting"}

\* Every caller that waited for the refresh sends its request again.
Resend(t)  == [c \in Calls |-> IF c \in Waiting THEN [step |-> "resent", token |-> t] ELSE req[c]]

\* (mutant) the error of the refresh is swallowed
GiveUpNone == req

GiveUp     == [c \in Calls |-> IF c \in Waiting THEN Idle ELSE req[c]]

\* ------------------------------------------------------------------ loading
Init ==
  \E u \in Somebody, p \in Places :
    /\ auth = Nobody /\ loading = TRUE
    /\ token = 0 /\ cookie = u
    /\ owner = <<>>
    /\ mail = {[kind |-> "restore", user |-> u, era |-> 0]}
    /\ req = [c \in Calls |-> Idle]
    /\ place = p /\ from = "/" /\ era = 0 /\ crossed = FALSE

\* The bootstrap found the cookie valid.
RestoreSucceeds(m) ==
  /\ m.kind = "restore" /\ m.user # Nobody
  /\ Issue(m.user)
  /\ auth' = m.user /\ loading' = FALSE /\ mail' = mail \ {m}
  /\ crossed' = (crossed \/ Late(m))
  /\ Render(place, m.user, FALSE)
  /\ UNCHANGED <<cookie, req, era>>

RestoreFails(m) ==
  /\ m.kind = "restore"
  /\ loading' = FALSE /\ mail' = mail \ {m}
  /\ Render(place, auth, FALSE)
  /\ UNCHANGED <<auth, era, crossed, tokenVars, req>>

\* The user loads the page again: the tab forgets all but the cookie.
Reload ==
  /\ ~loading /\ era < MaxEra
  /\ auth' = Nobody /\ loading' = TRUE /\ token' = 0
  /\ era' = era + 1 /\ crossed' = FALSE
  /\ mail' = {[kind |-> "restore", user |-> cookie, era |-> era + 1]}
  /\ req' = [c \in Calls |-> Idle] /\ from' = "/"
  /\ UNCHANGED <<cookie, owner, place>>

\* ------------------------------------------------------------------ sign in and out
SubmitLogin(u) ==
  /\ place = "/login" /\ ~\E m \in mail : m.kind = "login"
  /\ mail' = mail \cup {Call("login", u)}
  /\ UNCHANGED <<tabVars, tokenVars, routeVars, req>>

\* (mutant) the context learns of the sign-in, the token store does not
LoginKeepsToken(m) ==
  /\ m.kind = "login" /\ era < MaxEra
  /\ cookie' = m.user /\ auth' = m.user
  /\ era' = era + 1 /\ crossed' = FALSE
  /\ mail' = mail \ {m}
  /\ Render(IF from = "/" THEN Home(RoleOf[m.user]) ELSE from, m.user, loading)
  /\ UNCHANGED <<loading, token, owner, req>>

LoginSucceeds(m) ==
  /\ m.kind = "login" /\ era < MaxEra
  /\ Issue(m.user)
  /\ cookie' = m.user /\ auth' = m.user
  /\ era' = era + 1 /\ crossed' = FALSE
  /\ mail' = mail \ {m}
  /\ Render(IF from = "/" THEN Home(RoleOf[m.user]) ELSE from, m.user, loading)
  /\ UNCHANGED <<loading, req>>

LoginFails(m) ==
  /\ m.kind = "login"
  /\ mail' = mail \ {m}
  /\ UNCHANGED <<tabVars, tokenVars, routeVars, req>>

Logout ==
  /\ auth # Nobody /\ era < MaxEra
  /\ mail' = mail \cup {Call("logout", auth)}
  /\ auth' = Nobody /\ era' = era + 1
  /\ Render(place, Nobody, loading)
  /\ UNCHANGED <<loading, crossed, tokenVars, req>>

LogoutEnds(m, done) ==
  /\ m.kind = "logout"
  /\ token' = 0 /\ mail' = mail \ {m}
  /\ cookie' = IF done THEN Nobody ELSE cookie
  /\ UNCHANGED <<tabVars, owner, req, routeVars>>

\* ------------------------------------------------------------------ requests
Send(c) ==
  /\ req[c].step = "idle"
  /\ req' = [req EXCEPT ![c] = [step |-> "sent", token |-> token]]
  /\ UNCHANGED <<tabVars, tokenVars, routeVars, mail>>

\* Accepted, refused a second time, or failed for a reason that is not the session.
Ends(c) ==
  /\ req[c].step \in {"sent", "resent"}
  /\ req' = [req EXCEPT ![c] = Idle]
  /\ UNCHANGED <<tabVars, tokenVars, routeVars, mail>>

\* The server refuses no token or one whose quarter of an hour are over, which may
\* be so by the time any request reaches it.
Unauthorized(c) ==
  /\ req[c].step = "sent"
  /\ req' = [req EXCEPT ![c].step = "waiting"]
  /\ mail' = IF Refreshing THEN mail ELSE mail \cup {Call("refresh", cookie)}
  /\ UNCHANGED <<tabVars, tokenVars, routeVars>>

RefreshSucceeds(m) ==
  /\ m.kind = "refresh" /\ m.user # Nobody
  /\ Issue(m.user)
  /\ req' = Resend(token') /\ mail' = mail \ {m}
  /\ crossed' = (crossed \/ Late(m))
  /\ UNCHANGED <<auth, loading, era, cookie, routeVars>>

RefreshFails(m) ==
  /\ m.kind = "refresh"
  /\ token' = 0 /\ auth' = Nobody
  /\ req' = GiveUp /\ mail' = mail \ {m}
  /\ Render(place, Nobody, loading)
  /\ UNCHANGED <<loading, era, crossed, cookie, owner>>

\* ------------------------------------------------------------------ the world
Visit(p) ==
  /\ p \in Places \ {place}
  /\ Render(p, auth, loading)
  /\ UNCHANGED <<tabVars, tokenVars, mail, req>>

Answer(m) ==
  \/ RestoreSucceeds(m) \/ RestoreFails(m)
  \/ LoginSucceeds(m) \/ LoginFails(m)
  \/ \E done \in BOOLEAN : LogoutEnds(m, done)
  \/ RefreshSucceeds(m) \/ RefreshFails(m)

Next ==
  \/ \E m \in mail : Answer(m)
  \/ \E u \in Users : SubmitLogin(u)
  \/ \E c \in Calls : Send(c) \/ Ends(c) \/ Unauthorized(c)
  \/ \E p \in Places : Visit(p)
  \/ Logout \/ Reload

\* A call is answered or fails: the browser never keeps one for ever.
Fairness ==
  /\ WF_vars(\E m \in mail : RefreshSucceeds(m) \/ RefreshFails(m))
  /\ \A c \in Calls : WF_vars(Ends(c) \/ Unauthorized(c))

---------------------------------------------------------------------------
TypeOK ==
  /\ auth \in Somebody /\ cookie \in Somebody /\ loading \in BOOLEAN
  /\ owner \in Seq(Users) /\ Len(owner) <= MaxTokens /\ token \in 0..Len(owner)
  /\ mail \subseteq Mail /\ era \in 0..MaxEra /\ crossed \in BOOLEAN
  /\ req \in [Calls -> [step: Steps, token: 0..MaxTokens]]

\* The requests of the screens carry the token of the user the screens show,
\* unless the answer to a refresh or to the bootstrap has crossed a later
\* sign-in: no other order of answers, expiries, failures and clicks parts them.
TokenFollowsUser ==
  ~crossed /\ auth # Nobody /\ token # 0 => owner[token] = auth

\* However the role, the session and the route change, the screen left on
\* display once loading is over is one its user may open: redirects end.
ScreensAdmit == ~loading => Admits(place, auth)

\* A request that meets an expired token is never left waiting: it is sent
\* again after the shared refresh or it fails with it.
EveryRequestSettles == \A c \in Calls : req[c].step # "idle" ~> req[c].step = "idle"

Spec     == Init /\ [][Next]_vars
LiveSpec == Spec /\ Fairness
=============================================================================
