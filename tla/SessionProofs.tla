---------------------------- MODULE SessionProofs ----------------------------
(***************************************************************************)
(* Proofs about Session, for every value of its constants.                 *)
(*                                                                         *)
(* What the token belongs to depends on calls that left long ago.  Two     *)
(* facts carry it: no call in flight is from a session yet to come, and,   *)
(* while no late answer has crossed a sign-in, everyone the tab knows of   *)
(* (the user shown, the owner of the cookie, the users whose calls of this *)
(* session may still be answered with a token) is one person.              *)
(***************************************************************************)
EXTENDS Session, TLAPS

\* The calls of this session whose answers bring a token.
Asking == {m \in mail : m.kind \in {"restore", "refresh"} /\ m.era = era}

OnePerson ==
  ~crossed =>
    /\ auth # Nobody /\ cookie # Nobody => cookie = auth
    /\ \A m \in Asking : m.user # Nobody /\ auth # Nobody => m.user = auth
    /\ \A m \in Asking : m.user # Nobody /\ cookie # Nobody => m.user = cookie
    /\ \A m, n \in Asking : m.user # Nobody /\ n.user # Nobody => m.user = n.user

NoneAhead == \A m \in mail : m.era <= era

IInv == TypeOK /\ NoneAhead /\ OnePerson /\ TokenFollowsUser

-----------------------------------------------------------------------------
\* A call that leaves now is one the types admit.
LEMMA CallTypes ==
  ASSUME TypeOK
  PROVE  /\ \A u \in Somebody : Call("refresh", u) \in Mail
         /\ \A u \in Users : Call("login", u) \in Mail /\ Call("logout", u) \in Mail
  BY DEF TypeOK, Call, Mail, ByCookie, ByUser

\* A call in flight, by its fields.
LEMMA MailFields ==
  ASSUME TypeOK, NEW m \in mail
  PROVE  /\ m.user \in Somebody /\ m.era \in 0..MaxEra /\ m.era \in Int
         /\ m.kind = "login" => m.user \in Users
         /\ m.user # Nobody => m.user \in Users
  BY BoundsAssumption DEF TypeOK, Mail, ByCookie, ByUser, Somebody

\* Issuing a token adds one to the books and leaves the earlier ones alone.
LEMMA Issued ==
  ASSUME TypeOK, NEW u \in Users, Issue(u)
  PROVE  /\ owner' \in Seq(Users) /\ Len(owner') <= MaxTokens
         /\ token' \in 1..Len(owner') /\ token' \in 0..Len(owner') /\ token' \in 0..MaxTokens
         /\ owner'[token'] = u
<1>1. Len(owner) \in Nat /\ MaxTokens \in Nat /\ owner \in Seq(Users)
  BY BoundsAssumption DEF TypeOK
<1>2. /\ owner' \in Seq(Users) /\ Len(owner') = Len(owner) + 1
      /\ owner'[Len(owner) + 1] = u
  BY <1>1 DEF Issue
<1> QED BY <1>1, <1>2 DEF Issue

\* The requests stay requests when they are sent again or given up.
LEMMA RequestTypes ==
  ASSUME TypeOK
  PROVE  /\ \A t \in 0..MaxTokens : Resend(t) \in [Calls -> [step: Steps, token: 0..MaxTokens]]
         /\ GiveUp \in [Calls -> [step: Steps, token: 0..MaxTokens]]
         /\ [c \in Calls |-> Idle] \in [Calls -> [step: Steps, token: 0..MaxTokens]]
<1>1. MaxTokens \in Nat /\ 0 \in 0..MaxTokens
  BY BoundsAssumption
<1> QED BY <1>1 DEF TypeOK, Resend, GiveUp, Idle, Steps, Waiting

\* A tab that restores its session begins in the invariant.
LEMMA InitInv == Init => IInv
<1> SUFFICES ASSUME Init PROVE IInv
  OBVIOUS
<1>1. PICK u \in Somebody : cookie = u /\ mail = {[kind |-> "restore", user |-> u, era |-> 0]}
  BY DEF Init
<1>2. MaxTokens \in Nat /\ MaxEra \in Nat
  BY BoundsAssumption
<1>3. TypeOK
  <2>1. req \in [Calls -> [step: Steps, token: 0..MaxTokens]]
    BY <1>2 DEF Init, Idle, Steps
  <2>2. owner \in Seq(Users) /\ Len(owner) = 0
    BY DEF Init
  <2>3. mail \subseteq Mail
    BY <1>1, <1>2 DEF Mail, ByCookie
  <2>4. auth \in Somebody /\ cookie \in Somebody
    BY <1>1 DEF Init, Somebody
  <2>5. loading \in BOOLEAN /\ crossed \in BOOLEAN
    BY DEF Init
  <2>6. token \in 0..Len(owner) /\ Len(owner) <= MaxTokens /\ era \in 0..MaxEra
    BY <1>2, <2>2 DEF Init
  <2> QED BY <2>1, <2>2, <2>3, <2>4, <2>5, <2>6 DEF TypeOK
<1>4. NoneAhead
  BY <1>1 DEF Init, NoneAhead
<1>5. OnePerson /\ TokenFollowsUser
  BY <1>1 DEF Init, OnePerson, TokenFollowsUser, Asking
<1> QED BY <1>3, <1>4, <1>5 DEF IInv

-----------------------------------------------------------------------------
\* Every step keeps the types.
LEMMA TypeStep ==
  ASSUME TypeOK, [Next]_vars
  PROVE  TypeOK'
<1> USE DEF TypeOK
<1>0. MaxTokens \in Nat /\ MaxEra \in Nat /\ Nobody \in Somebody /\ Users \subseteq Somebody
  BY BoundsAssumption DEF Somebody
<1>1. ASSUME NEW m \in mail, RestoreSucceeds(m) PROVE TypeOK'
  <2>1. m.user \in Users
    BY <1>1, MailFields DEF RestoreSucceeds
  <2> QED BY <1>0, <1>1, <2>1, Issued DEF RestoreSucceeds
<1>2. ASSUME NEW m \in mail, RestoreFails(m) PROVE TypeOK'
  BY <1>2 DEF RestoreFails, tokenVars
<1>3. ASSUME NEW m \in mail, LoginSucceeds(m) PROVE TypeOK'
  <2>1. m.user \in Users
    BY <1>3, MailFields DEF LoginSucceeds
  <2>2. owner' \in Seq(Users) /\ Len(owner') <= MaxTokens /\ token' \in 0..Len(owner')
    BY <1>3, <2>1, Issued DEF LoginSucceeds
  <2>3. era' \in 0..MaxEra /\ auth' \in Somebody /\ cookie' \in Somebody
    BY <1>0, <1>3, <2>1 DEF LoginSucceeds
  <2>4. loading' \in BOOLEAN /\ crossed' \in BOOLEAN
    BY <1>3 DEF LoginSucceeds
  <2> QED BY <1>3, <2>2, <2>3, <2>4 DEF LoginSucceeds
<1>4. ASSUME NEW m \in mail, LoginFails(m) PROVE TypeOK'
  BY <1>4 DEF LoginFails, tabVars, tokenVars
<1>5. ASSUME NEW m \in mail, NEW done \in BOOLEAN, LogoutEnds(m, done) PROVE TypeOK'
  BY <1>0, <1>5 DEF LogoutEnds, tabVars
<1>6. ASSUME NEW m \in mail, RefreshSucceeds(m) PROVE TypeOK'
  <2>1. m.user \in Users
    BY <1>6, MailFields DEF RefreshSucceeds
  <2> QED BY <1>0, <1>6, <2>1, Issued, RequestTypes DEF RefreshSucceeds
<1>7. ASSUME NEW m \in mail, RefreshFails(m) PROVE TypeOK'
  BY <1>0, <1>7, RequestTypes DEF RefreshFails
<1>8. ASSUME NEW u \in Users, SubmitLogin(u) PROVE TypeOK'
  BY <1>0, <1>8, CallTypes DEF SubmitLogin, tabVars, tokenVars
<1>9. ASSUME NEW c \in Calls, Send(c) \/ Ends(c) \/ Unauthorized(c) PROVE TypeOK'
  <2>1. CASE Send(c)
    <3>1. token \in 0..MaxTokens
      BY <1>0
    <3> QED BY <2>1, <3>1 DEF Send, tabVars, tokenVars, Steps
  <2>2. CASE Ends(c)
    BY <1>0, <2>2 DEF Ends, tabVars, tokenVars, Idle, Steps
  <2>3. CASE Unauthorized(c)
    <3>1. req' \in [Calls -> [step: Steps, token: 0..MaxTokens]]
      BY <2>3 DEF Unauthorized, Steps
    <3>2. mail' \subseteq Mail
      BY <2>3, CallTypes DEF Unauthorized
    <3> QED BY <2>3, <3>1, <3>2 DEF Unauthorized, tabVars, tokenVars
  <2> QED BY <1>9, <2>1, <2>2, <2>3
<1>10. ASSUME NEW p \in Places, Visit(p) PROVE TypeOK'
  BY <1>10 DEF Visit, tabVars, tokenVars
<1>11. CASE Logout
  <2>1. auth \in Users /\ era' \in 0..MaxEra
    BY <1>0, <1>11 DEF Logout, Somebody
  <2>2. mail' \subseteq Mail
    BY <1>11, <2>1, CallTypes DEF Logout
  <2> QED BY <1>0, <1>11, <2>1, <2>2 DEF Logout, tokenVars
<1>12. CASE Reload
  <2>1. era + 1 \in 0..MaxEra /\ mail' \subseteq Mail
    BY <1>0, <1>12 DEF Reload, Mail, ByCookie
  <2>2. loading' \in BOOLEAN /\ crossed' \in BOOLEAN /\ auth' \in Somebody
    BY <1>0, <1>12 DEF Reload
  <2>3. token' \in 0..Len(owner') /\ era' \in 0..MaxEra
    BY <1>0, <1>12, <2>1 DEF Reload
  <2> QED BY <1>12, <2>1, <2>2, <2>3, RequestTypes DEF Reload
<1>13. CASE UNCHANGED vars
  BY <1>13 DEF vars, tabVars, tokenVars
<1> QED BY <1>1, <1>2, <1>3, <1>4, <1>5, <1>6, <1>7, <1>8, <1>9, <1>10, <1>11, <1>12, <1>13
        DEF Next, Answer

-----------------------------------------------------------------------------
\* No call comes from a session that has not begun.
LEMMA NoneAheadStep ==
  ASSUME TypeOK, NoneAhead, [Next]_vars
  PROVE  NoneAhead'
<1> USE DEF NoneAhead
<1>0. /\ era \in Int /\ \A m \in mail : m.era \in Int
      /\ \A k \in {"login", "logout", "refresh"}, u \in Somebody : Call(k, u).era = era
  BY MailFields, BoundsAssumption DEF TypeOK, Call
<1>1. \/ mail' \subseteq mail /\ (era' = era \/ era' = era + 1)
      \/ \E k \in {"login", "logout", "refresh"}, u \in Somebody :
           mail' = mail \cup {Call(k, u)} /\ (era' = era \/ era' = era + 1)
      \/ \A m \in mail' : m.era = era'
  <2>1. ASSUME NEW m \in mail, Answer(m) PROVE mail' \subseteq mail /\ (era' = era \/ era' = era + 1)
    BY <2>1 DEF Answer, RestoreSucceeds, RestoreFails, LoginSucceeds, LoginFails, LogoutEnds,
                RefreshSucceeds, RefreshFails, tabVars
  <2>2. ASSUME NEW u \in Users, SubmitLogin(u) PROVE mail' = mail \cup {Call("login", u)} /\ era' = era /\ u \in Somebody
    BY <2>2 DEF SubmitLogin, tabVars, Somebody
  <2>3. ASSUME NEW c \in Calls, Send(c) \/ Ends(c) \/ Unauthorized(c)
        PROVE  (mail' = mail \/ mail' = mail \cup {Call("refresh", cookie)}) /\ era' = era /\ cookie \in Somebody
    BY <2>3 DEF Send, Ends, Unauthorized, tabVars, TypeOK
  <2>4. ASSUME NEW p \in Places, Visit(p) PROVE mail' = mail /\ era' = era
    BY <2>4 DEF Visit, tabVars
  <2>5. CASE Logout
    BY <2>5 DEF Logout, TypeOK
  <2>6. CASE Reload
    BY <2>6 DEF Reload
  <2>7. CASE UNCHANGED vars
    BY <2>7 DEF vars, tabVars
  <2> QED BY <2>1, <2>2, <2>3, <2>4, <2>5, <2>6, <2>7 DEF Next
<1>2. era' \in {era, era + 1} => \A m \in mail : m.era <= era'
  BY <1>0
<1>3. \A m \in mail' : m.era = era' => m.era <= era'
  <2>1. TypeOK'
    BY TypeStep
  <2> QED BY <2>1, BoundsAssumption DEF TypeOK
<1>4. CASE mail' \subseteq mail /\ (era' = era \/ era' = era + 1)
  BY <1>2, <1>4
<1>5. ASSUME NEW k \in {"login", "logout", "refresh"}, NEW u \in Somebody,
             mail' = mail \cup {Call(k, u)} /\ (era' = era \/ era' = era + 1)
      PROVE  NoneAhead'
  <2>1. Call(k, u).era <= era'
    BY <1>0, <1>5
  <2> QED BY <1>2, <1>5, <2>1
<1>6. CASE \A m \in mail' : m.era = era'
  BY <1>3, <1>6
<1> QED BY <1>1, <1>4, <1>5, <1>6

\* A token issued for u, while everybody else the tab knows of is u.
LEMMA TokenOf ==
  ASSUME TypeOK, NEW u \in Users, Issue(u), auth' = u \/ auth' = Nobody
  PROVE  TokenFollowsUser'
  BY Issued DEF TokenFollowsUser

\* Every step leaves the tab with one person, and the token his.
LEMMA PersonStep ==
  ASSUME IInv, [Next]_vars
  PROVE  OnePerson' /\ TokenFollowsUser'
<1> USE DEF OnePerson, TokenFollowsUser, Asking, IInv
<1>0. /\ \A m \in mail : m.era \in Int /\ m.era <= era
      /\ era \in Int /\ era + 1 # era /\ \A m \in mail : m.era # era + 1
      /\ Nobody \notin Users
  BY MailFields, UsersAssumption, BoundsAssumption DEF NoneAhead, TypeOK
<1>1. ASSUME NEW m \in mail, RestoreSucceeds(m) PROVE OnePerson' /\ TokenFollowsUser'
  <2>1. m.user \in Users /\ Issue(m.user) /\ auth' = m.user
    BY <1>1, MailFields DEF RestoreSucceeds
  <2>2. OnePerson'
    <3>1. m.era = era \/ crossed'
      <4>1. m.era # era => Late(m)
        BY <1>0 DEF Late
      <4> QED BY <1>1, <4>1 DEF RestoreSucceeds
    <3> QED BY <1>1, <3>1 DEF RestoreSucceeds
  <2> QED BY <2>1, <2>2, TokenOf
<1>2. ASSUME NEW m \in mail, RestoreFails(m) PROVE OnePerson' /\ TokenFollowsUser'
  BY <1>2 DEF RestoreFails, tokenVars
<1>3. ASSUME NEW m \in mail, LoginSucceeds(m) PROVE OnePerson' /\ TokenFollowsUser'
  <2>1. m.user \in Users /\ Issue(m.user) /\ auth' = m.user
    BY <1>3, MailFields DEF LoginSucceeds
  <2>2. Asking' = {}
    BY <1>0, <1>3 DEF LoginSucceeds
  <2> QED BY <1>3, <2>1, <2>2, TokenOf DEF LoginSucceeds
<1>4. ASSUME NEW m \in mail, LoginFails(m) PROVE OnePerson' /\ TokenFollowsUser'
  BY <1>4 DEF LoginFails, tabVars, tokenVars
<1>5. ASSUME NEW m \in mail, NEW done \in BOOLEAN, LogoutEnds(m, done) PROVE OnePerson' /\ TokenFollowsUser'
  BY <1>5 DEF LogoutEnds, tabVars
<1>6. ASSUME NEW m \in mail, RefreshSucceeds(m) PROVE OnePerson' /\ TokenFollowsUser'
  <2>1. m.user \in Users /\ Issue(m.user) /\ m.kind = "refresh" /\ auth' = auth
    BY <1>6, MailFields DEF RefreshSucceeds
  <2>2. OnePerson'
    BY <1>6 DEF RefreshSucceeds
  <2>3. m.era = era \/ crossed'
    <3>1. m.era # era => Late(m)
      BY <1>0 DEF Late
    <3> QED BY <1>6, <3>1 DEF RefreshSucceeds
  <2>4. ~crossed' => auth' = m.user \/ auth' = Nobody
    BY <1>6, <2>1, <2>3 DEF RefreshSucceeds
  <2> QED BY <2>1, <2>2, <2>4, TokenOf
<1>7. ASSUME NEW m \in mail, RefreshFails(m) PROVE OnePerson' /\ TokenFollowsUser'
  BY <1>7 DEF RefreshFails
<1>8. ASSUME NEW u \in Users, SubmitLogin(u) PROVE OnePerson' /\ TokenFollowsUser'
  BY <1>8 DEF SubmitLogin, Call, tabVars, tokenVars
<1>9. ASSUME NEW c \in Calls, Send(c) \/ Ends(c) \/ Unauthorized(c) PROVE OnePerson' /\ TokenFollowsUser'
  <2>1. CASE Send(c) \/ Ends(c)
    BY <2>1 DEF Send, Ends, tabVars, tokenVars
  <2>2. CASE Unauthorized(c)
    BY <2>2 DEF Unauthorized, Call, tabVars, tokenVars
  <2> QED BY <1>9, <2>1, <2>2
<1>10. ASSUME NEW p \in Places, Visit(p) PROVE OnePerson' /\ TokenFollowsUser'
  BY <1>10 DEF Visit, tabVars, tokenVars
<1>11. CASE Logout
  <2>1. Asking' = {}
    BY <1>0, <1>11 DEF Logout, Call
  <2> QED BY <1>11, <2>1 DEF Logout, tokenVars
<1>12. CASE Reload
  BY <1>12 DEF Reload
<1>13. CASE UNCHANGED vars
  BY <1>13 DEF vars, tabVars, tokenVars
<1> QED BY <1>1, <1>2, <1>3, <1>4, <1>5, <1>6, <1>7, <1>8, <1>9, <1>10, <1>11, <1>12, <1>13
        DEF Next, Answer

-----------------------------------------------------------------------------
\* The route the guard leaves a user at is one that user may open.
LEMMA LandingIsAdmitted == ASSUME NEW p, NEW u PROVE Admits(Land(p, u), u)
<1>1. CASE Admits(p, u)
  BY <1>1 DEF Land
<1>2. CASE ~Admits(p, u) /\ u = Nobody
  BY <1>2 DEF Land, Admits, Public
<1>3. CASE ~Admits(p, u) /\ u # Nobody
  <2>1. Land(p, u) = Home(RoleOf[u])
    BY <1>3 DEF Land
  <2>2. Home(RoleOf[u]) \in Public \/ RoleOf[u] \in Allowed(Home(RoleOf[u]))
    BY DEF Home, Allowed, Public
  <2> QED BY <1>3, <2>1, <2>2 DEF Admits
<1> QED BY <1>1, <1>2, <1>3

\* A page that is rendered admits the user who sees it.
LEMMA Rendered ==
  ASSUME NEW p, NEW u, NEW busy, Render(p, u, busy)
  PROVE  ~busy => Admits(place', u)
  BY LandingIsAdmitted DEF Render

\* Every step leaves the user where the guard admits him.
LEMMA ScreenStep ==
  ASSUME ScreensAdmit, [Next]_vars
  PROVE  ScreensAdmit'
<1> USE DEF ScreensAdmit
<1>1. ASSUME NEW m \in mail, RestoreSucceeds(m) PROVE ScreensAdmit'
  BY <1>1, Rendered DEF RestoreSucceeds, Admits
<1>2. ASSUME NEW m \in mail, RestoreFails(m) PROVE ScreensAdmit'
  BY <1>2, Rendered DEF RestoreFails, Admits
<1>3. ASSUME NEW m \in mail, LoginSucceeds(m) PROVE ScreensAdmit'
  BY <1>3, Rendered DEF LoginSucceeds, Admits
<1>4. ASSUME NEW m \in mail, LoginFails(m) PROVE ScreensAdmit'
  BY <1>4 DEF LoginFails, tabVars, routeVars, Admits
<1>5. ASSUME NEW m \in mail, NEW done \in BOOLEAN, LogoutEnds(m, done) PROVE ScreensAdmit'
  BY <1>5 DEF LogoutEnds, tabVars, routeVars, Admits
<1>6. ASSUME NEW m \in mail, RefreshSucceeds(m) PROVE ScreensAdmit'
  BY <1>6 DEF RefreshSucceeds, routeVars, Admits
<1>7. ASSUME NEW m \in mail, RefreshFails(m) PROVE ScreensAdmit'
  BY <1>7, Rendered DEF RefreshFails, Admits
<1>8. ASSUME NEW u \in Users, SubmitLogin(u) PROVE ScreensAdmit'
  BY <1>8 DEF SubmitLogin, tabVars, routeVars, Admits
<1>9. ASSUME NEW c \in Calls, Send(c) \/ Ends(c) \/ Unauthorized(c) PROVE ScreensAdmit'
  BY <1>9 DEF Send, Ends, Unauthorized, tabVars, routeVars, Admits
<1>10. ASSUME NEW p \in Places, Visit(p) PROVE ScreensAdmit'
  BY <1>10, Rendered DEF Visit, tabVars, Admits
<1>11. CASE Logout
  BY <1>11, Rendered DEF Logout, Admits
<1>12. CASE Reload
  BY <1>12 DEF Reload
<1>13. CASE UNCHANGED vars
  BY <1>13 DEF vars, tabVars, routeVars, Admits
<1> QED BY <1>1, <1>2, <1>3, <1>4, <1>5, <1>6, <1>7, <1>8, <1>9, <1>10, <1>11, <1>12, <1>13
        DEF Next, Answer

-----------------------------------------------------------------------------
\* The inductive invariant holds throughout.
THEOREM Inductive == Spec => []IInv
<1>1. Init => IInv
  BY InitInv
<1>2. IInv /\ [Next]_vars => IInv'
  BY TypeStep, NoneAheadStep, PersonStep DEF IInv
<1> QED BY <1>1, <1>2, PTL DEF Spec

\* AuthContext, the token store, the cookie and the calls in flight keep their
\* types: in particular no answer makes the cookie or a token somebody unknown.
THEOREM TypeCorrect == Spec => []TypeOK
<1>1. IInv => TypeOK
  BY DEF IInv
<1> QED BY <1>1, Inductive, PTL

\* Requests carry the token of the user on screen, however many users sign in
\* and out of the tab and however many requests refresh, until the answer to a
\* refresh or to the bootstrap crosses a later sign-in.
THEOREM TokenOfTheUser == Spec => []TokenFollowsUser
<1>1. IInv => TokenFollowsUser
  BY DEF IInv
<1> QED BY <1>1, Inductive, PTL

\* The guard's redirects end on a screen the user may open, for every route and
\* every assignment of roles, those the tables do not name included.
THEOREM RedirectsEnd == Spec => []ScreensAdmit
<1>1. Init => ScreensAdmit
  BY DEF Init, ScreensAdmit
<1>2. ScreensAdmit /\ [Next]_vars => ScreensAdmit'
  BY ScreenStep
<1> QED BY <1>1, <1>2, PTL DEF Spec
=============================================================================
