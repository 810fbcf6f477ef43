----------------------------- MODULE Workspaces -----------------------------
(***************************************************************************)
(* Who a request of the dashboard acts for, and on which project: accounts *)
(* (lib/dashboard-auth), the signed session cookie that all tabs of a      *)
(* browser share (lib/session), and the projects an account owns           *)
(* (lib/projects, app/projects).                                           *)
(*                                                                         *)
(* A request carries the cookie as it was when it was sent, and its answer *)
(* may replace the cookie.  The signature makes a cookie what the server   *)
(* has set.  Passwords are right or wrong, which login decides freely.     *)
(***************************************************************************)
EXTENDS Naturals, FiniteSets

CONSTANTS
  WsUsers,     \* ids of accounts, and the e-mail address of each
  WsEmail,
  WsProjects,  \* ids of projects; an id stands for its database too
  WsTabs,      \* the tabs of the browser
  NoWs,        \* no session, no project, no request
  WsTtl,       \* how long a session lasts
  MaxWsTime    \* bounds the clock

ASSUME WsTimeAssumption == WsTtl \in Nat /\ MaxWsTime \in Nat

VARIABLES
  wsNow,      \* the clock
  wsAccounts, \* the accounts that exist
  wsOwner,    \* the owner of each project; NoWs: it was not created yet
  wsDeleted,  \* the projects whose record was deleted
  wsCookie,   \* the browser's session cookie
  wsShown,    \* the project of the page each tab shows
  wsRequest   \* the server action of each tab that is under way

wsVars == <<wsNow, wsAccounts, wsOwner, wsDeleted, wsCookie, wsShown, wsRequest>>
wsStoredVars == <<wsAccounts, wsOwner, wsDeleted>>

Session(user, project, expires, created) ==
  [user |-> user, project |-> project, expires |-> expires, created |-> created]
Projects == {p \in WsProjects : wsOwner[p] # NoWs /\ p \notin wsDeleted}

WorkspacesInit ==
  /\ wsNow = 0
  /\ wsAccounts = {}
  /\ wsOwner = [p \in WsProjects |-> NoWs] /\ wsDeleted = {}
  /\ wsCookie = NoWs
  /\ wsShown = [t \in WsTabs |-> NoWs]
  /\ wsRequest = [t \in WsTabs |-> NoWs]
-----------------------------------------------------------------------------
(* lib/session *)

\* Mutant: a session lasts longer than it should.
CreateLongSession(user) == Session(user, NoWs, wsNow + WsTtl + 1, wsNow)

CreateDashboardSession(user) == Session(user, NoWs, wsNow + WsTtl, wsNow)
IsExpired(session) == session.expires <= wsNow
GetDashboardSession(cookie) == IF cookie = NoWs \/ IsExpired(cookie) THEN NoWs ELSE cookie

\* Mutant: selecting a project renews the session.
RenewDashboardSession(session, project) ==
  Session(session.user, project, wsNow + WsTtl, session.created)

\* Everything but the selection is kept.
UpdateDashboardSession(session, project) ==
  Session(session.user, project, session.expires, session.created)

(* lib/projects: NoWs stands for "not found". *)

GetDashboardProjectForUser(p, user) == IF p \in Projects /\ wsOwner[p] = user THEN p ELSE NoWs
GetSelectedDashboardProject(session) ==
  IF session = NoWs THEN NoWs ELSE GetDashboardProjectForUser(session.project, session.user)
-----------------------------------------------------------------------------
(* Requests. *)

Send(t, kind, subject, session) ==
  wsRequest' = [wsRequest EXCEPT ![t] = [kind |-> kind, subject |-> subject, session |-> session,
                                         step |-> "sent", answer |-> NoWs]]

LoginForm(t) == \E u \in WsUsers : Send(t, "login", WsEmail[u], NoWs)
RegisterForm(t) == \E u \in WsUsers : Send(t, "register", WsEmail[u], NoWs)
ProfileMenu(t) == Send(t, "logout", NoWs, NoWs)

\* A list of projects may be as old as the tab, and another user's.
CreateForm(t) == Send(t, "create", NoWs, wsCookie)
SelectForm(t) == \E p \in WsProjects : wsOwner[p] # NoWs /\ Send(t, "select", p, wsCookie)
DeleteForm(t) == \E p \in WsProjects : wsOwner[p] # NoWs /\ Send(t, "delete", p, wsCookie)

\* The actions of the dashboard's pages: those of the search, the webhook and
\* the operation page name the project they are for.
DashboardAction(t) ==
  Send(t, "act", NoWs, wsCookie) \/ Send(t, "act for", wsShown[t], wsCookie)

SendRequest(t) ==
  /\ wsRequest[t] = NoWs
  /\ \/ /\ wsShown[t] = NoWs
        /\ LoginForm(t) \/ RegisterForm(t) \/ CreateForm(t) \/ SelectForm(t) \/ DeleteForm(t)
     \/ wsShown[t] # NoWs /\ DashboardAction(t)
     \/ ProfileMenu(t)
  /\ UNCHANGED <<wsNow, wsStoredVars, wsCookie, wsShown>>

Goes(t, step) == wsRequest' = [wsRequest EXCEPT ![t].step = step]
Sets(t, cookie) ==
  wsRequest' = [wsRequest EXCEPT ![t] = [kind |-> "over", subject |-> NoWs, session |-> NoWs,
                                         step |-> "done", answer |-> cookie]]

\* A refusal, an error, or the end of an action: the cookie is left alone.
Ends(t) == wsRequest' = [wsRequest EXCEPT ![t] = NoWs] /\ UNCHANGED wsStoredVars

\* The accounts an e-mail address finds: two of them let nobody in.
FindDashboardUserByEmail(email) == {u \in wsAccounts : WsEmail[u] = email}

Login(t) ==
  LET found == FindDashboardUserByEmail(wsRequest[t].subject) IN
  /\ wsRequest[t].kind = "login" /\ wsRequest[t].step = "sent"
  /\ Cardinality(found) = 1
  /\ \E u \in found : Sets(t, CreateDashboardSession(u))
  /\ UNCHANGED wsStoredVars

\* The password is hashed between the search and the creation.
RegisterFind(t) ==
  /\ wsRequest[t].kind = "register" /\ wsRequest[t].step = "sent"
  /\ FindDashboardUserByEmail(wsRequest[t].subject) = {}
  /\ Goes(t, "half")
  /\ UNCHANGED wsStoredVars
RegisterCreate(t) ==
  /\ wsRequest[t].kind = "register" /\ wsRequest[t].step = "half"
  /\ \E u \in WsUsers \ wsAccounts :
       /\ WsEmail[u] = wsRequest[t].subject
       /\ wsAccounts' = wsAccounts \cup {u}
       /\ Sets(t, CreateDashboardSession(u))
  /\ UNCHANGED <<wsOwner, wsDeleted>>

Logout(t) ==
  /\ wsRequest[t].kind = "logout" /\ wsRequest[t].step = "sent"
  /\ Sets(t, NoWs)
  /\ UNCHANGED wsStoredVars

\* The new project's record is written first, and the session, which may have
\* expired by then, is updated afterwards.
CreateProject(t, session) ==
  /\ wsRequest[t].kind = "create" /\ wsRequest[t].step = "sent"
  /\ \E p \in WsProjects :
       /\ wsOwner[p] = NoWs
       /\ wsOwner' = [wsOwner EXCEPT ![p] = session.user]
       /\ wsRequest' = [wsRequest EXCEPT ![t].step = "half", ![t].subject = p]
  /\ UNCHANGED <<wsAccounts, wsDeleted>>
SelectCreated(t, session) ==
  /\ wsRequest[t].kind = "create" /\ wsRequest[t].step = "half"
  /\ Sets(t, UpdateDashboardSession(session, wsRequest[t].subject))
  /\ UNCHANGED wsStoredVars

SelectProject(t, session) ==
  LET p == GetDashboardProjectForUser(wsRequest[t].subject, session.user) IN
  /\ wsRequest[t].kind = "select" /\ p # NoWs
  /\ Sets(t, UpdateDashboardSession(session, p))
  /\ UNCHANGED wsStoredVars

\* Only the record is deleted: the database and its keys stay.
DeleteProject(t, session) ==
  LET p == GetDashboardProjectForUser(wsRequest[t].subject, session.user) IN
  /\ wsRequest[t].kind = "delete" /\ p # NoWs
  /\ wsDeleted' = wsDeleted \cup {p}
  /\ IF session.project = p THEN Sets(t, UpdateDashboardSession(session, NoWs))
     ELSE wsRequest' = [wsRequest EXCEPT ![t] = NoWs]
  /\ UNCHANGED <<wsAccounts, wsOwner>>

\* From here on the request uses Core with a token of the project's database.
RequireSelectedProject(t, session) ==
  LET p == GetSelectedDashboardProject(session) IN
  /\ wsRequest[t].kind = "act" /\ wsRequest[t].step = "sent" /\ p # NoWs
  /\ wsRequest' = [wsRequest EXCEPT ![t].step = "acting", ![t].subject = p]
  /\ UNCHANGED wsStoredVars

\* The action is for the project the page names, or it is refused.
CheckProjectContext(t, session) ==
  LET p == GetSelectedDashboardProject(session) IN
  /\ wsRequest[t].kind = "act for" /\ wsRequest[t].step = "sent"
  /\ p # NoWs /\ p = wsRequest[t].subject
  /\ wsRequest' = [wsRequest EXCEPT ![t].step = "acting", ![t].subject = p]
  /\ UNCHANGED wsStoredVars

\* Without a session the request ends, most often at the login page.
ServeWithSession(t) ==
  LET session == GetDashboardSession(wsRequest[t].session) IN
  /\ session # NoWs
  /\ \/ CreateProject(t, session) \/ SelectCreated(t, session)
     \/ wsRequest[t].step = "sent" /\ (SelectProject(t, session) \/ DeleteProject(t, session))
     \/ RequireSelectedProject(t, session) \/ CheckProjectContext(t, session)

ServeRequest(t) ==
  /\ wsRequest[t] # NoWs /\ wsRequest[t].step # "done"
  /\ Login(t) \/ RegisterFind(t) \/ RegisterCreate(t) \/ Logout(t) \/ ServeWithSession(t) \/ Ends(t)
  /\ UNCHANGED <<wsNow, wsCookie, wsShown>>

\* What the answer sets is what all tabs send from now on.
AnswerRequest(t) ==
  /\ wsRequest[t] # NoWs /\ wsRequest[t].step = "done"
  /\ wsCookie' = wsRequest[t].answer
  /\ wsRequest' = [wsRequest EXCEPT ![t] = NoWs]
  /\ UNCHANGED <<wsNow, wsStoredVars, wsShown>>

\* A dashboard page is loaded, or redirects to the projects or to the login,
\* where a tab may go at any time.
LoadDashboard(t) ==
  /\ wsRequest[t] = NoWs
  /\ \E shown \in {NoWs, GetSelectedDashboardProject(GetDashboardSession(wsCookie))} :
       wsShown' = [wsShown EXCEPT ![t] = shown]
  /\ UNCHANGED <<wsNow, wsStoredVars, wsCookie, wsRequest>>

Tick ==
  /\ wsNow < MaxWsTime
  /\ wsNow' = wsNow + 1
  /\ UNCHANGED <<wsStoredVars, wsCookie, wsShown, wsRequest>>

WorkspacesNext ==
  \/ \E t \in WsTabs : SendRequest(t) \/ ServeRequest(t) \/ AnswerRequest(t) \/ LoadDashboard(t)
  \/ Tick

WorkspacesSpec == WorkspacesInit /\ [][WorkspacesNext]_wsVars
-----------------------------------------------------------------------------
\* The accounts, the projects, the cookie and the requests.
ProjectOrNone == WsProjects \cup {NoWs}
Sessions == [user : WsUsers, project : ProjectOrNone, expires : 0..(MaxWsTime + WsTtl),
             created : 0..MaxWsTime]
Requests ==
  [kind : {"login", "register", "logout", "create", "select", "delete", "act", "act for", "over"},
   subject : ProjectOrNone \cup {WsEmail[u] : u \in WsUsers}, session : Sessions \cup {NoWs},
   step : {"sent", "half", "acting", "done"}, answer : Sessions \cup {NoWs}]

WorkspacesTypeOK ==
  /\ wsNow \in 0..MaxWsTime
  /\ wsAccounts \in SUBSET WsUsers
  /\ wsOwner \in [WsProjects -> WsUsers \cup {NoWs}] /\ wsDeleted \in SUBSET WsProjects
  /\ wsCookie \in Sessions \cup {NoWs}
  /\ wsShown \in [WsTabs -> ProjectOrNone]
  /\ wsRequest \in [WsTabs -> Requests \cup {NoWs}]

Acting(t) == wsRequest[t] # NoWs /\ wsRequest[t].step = "acting"

\* Core is used only for a project that its user owned and that had not been
\* deleted when the request was let through, and never longer after the user
\* signed in than a session lasts, whatever the tabs have signed in, selected
\* and deleted in between.
RequestsAreEntitled ==
  [][\A t \in WsTabs : Acting(t)' /\ ~Acting(t) =>
       LET request == wsRequest'[t] IN
       /\ request.subject \in Projects /\ wsOwner[request.subject] = request.session.user
       /\ wsNow < request.session.created + WsTtl]_wsVars

\* What the user sees is what the action works on.
ActsOnTheShownProject ==
  \A t \in WsTabs : Acting(t) => wsRequest[t].subject = wsShown[t]
=============================================================================
