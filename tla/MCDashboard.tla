---------------------------- MODULE MCDashboard ----------------------------
(***************************************************************************)
(* The pages of the dashboard, which share no state in the browser: each   *)
(* reads Core, and keeps what it shows and what it has asked for.  A       *)
(* behaviour exercises one of them, chosen in the initial state; the       *)
(* others stay as one of their initial states.                             *)
(***************************************************************************)
EXTENDS DocumentsPage, LiveDocuments, DocumentEditor, SchemasPage, CollectionsPage, IndexesPage,
        OperationsPage, Workspaces, KeysPage, SearchPage, WebhooksPage, RealtimePage, TLC

\* The texts of the editor that parse as a number; the accounts' addresses.
Numbers == "0" :> "0" @@ "" :> "0"
Emails == [u \in WsUsers |-> u]

VARIABLE part

vars == <<part, docVars, liveVars, editVars, schVars, colVars, ixVars, oprVars, wsVars, keyVars,
          ftsVars, whVars, rtVars>>

OneOf(S) == CHOOSE x \in S : TRUE
\* The one initial state of a part that the behaviour does not exercise.
Rests(p, state) == part = p \/ state

Init ==
  /\ part \in {"documents", "live", "editor", "schemas", "collections", "indexes", "operations",
               "workspaces", "keys", "search", "webhooks", "realtime"}
  /\ DocumentsInit
  /\ Rests("documents", docRows = NoRows /\ docShown = OneOf(DocCollections)
                        /\ docCore = [c \in DocCollections |-> NoRows])
  /\ LiveInit /\ Rests("live", liveShown = OneOf(LiveCollections))
  /\ EditorInit /\ Rests("editor", editInitial = <<>>)
  /\ SchemasInit
  /\ Rests("schemas", schShown = OneOf(SchCollections)
                      /\ schCore = [c \in SchCollections |-> NoSchema])
  /\ CollectionsInit /\ Rests("collections", colCore = {})
  /\ IndexesInit
  /\ Rests("indexes", ixShown = OneOf(IxCollections) /\ ixCore = [k \in DOMAIN ixCore |-> NoIndex])
  /\ OperationsPageInit
  /\ WorkspacesInit
  /\ KeysInit /\ Rests("keys", keyStorage)
  /\ SearchPageInit
  /\ Rests("search", ftsShown = OneOf(FtsCollections) /\ ftsCore = [c \in FtsCollections |-> {}])
  /\ WebhooksInit
  /\ Rests("webhooks", whShown = OneOf(WhCollections) /\ whFailed = {}
                       /\ whCore = [c \in WhCollections |-> {}])
  /\ RealtimeInit /\ Rests("realtime", rtShown = OneOf(RtCollections))

Stays(p, v) == IF part = p THEN TRUE ELSE UNCHANGED v

Next ==
  /\ UNCHANGED part
  /\ \/ part = "documents" /\ DocumentsNext
     \/ part = "live" /\ LiveNext
     \/ part = "editor" /\ EditorNext
     \/ part = "schemas" /\ SchemasNext
     \/ part = "collections" /\ CollectionsNext
     \/ part = "indexes" /\ IndexesNext
     \/ part = "operations" /\ OperationsPageNext
     \/ part = "workspaces" /\ WorkspacesNext
     \/ part = "keys" /\ KeysNext
     \/ part = "search" /\ SearchPageNext
     \/ part = "webhooks" /\ WebhooksNext
     \/ part = "realtime" /\ RealtimeNext
  /\ Stays("documents", docVars) /\ Stays("live", liveVars) /\ Stays("editor", editVars)
  /\ Stays("schemas", schVars) /\ Stays("collections", colVars) /\ Stays("indexes", ixVars)
  /\ Stays("operations", oprVars) /\ Stays("workspaces", wsVars) /\ Stays("keys", keyVars)
  /\ Stays("search", ftsVars) /\ Stays("webhooks", whVars) /\ Stays("realtime", rtVars)

\* The server reads a page that is asked for and the browser draws it; a
\* stream opens and a timer fires.  Of streams that break again and again, one
\* lasts long enough for its message.  Nothing is assumed of users, of other
\* clients or of Core.
Fairness ==
  /\ WF_liveVars(part = "live" /\ ReadDocuments) /\ WF_liveVars(part = "live" /\ ArriveDocuments)
  /\ WF_liveVars(part = "live" /\ OpenStream) /\ SF_liveVars(part = "live" /\ ThrottledRefresh)
  /\ WF_liveVars(part = "live" /\ TimerFires)
  /\ WF_colVars(part = "collections" /\ RefreshCollections)
  /\ WF_ixVars(part = "indexes" /\ RefreshIndexes)
  /\ WF_oprVars(part = "operations" /\ RefreshOperations)
  /\ WF_whVars(part = "webhooks" /\ RefreshWebhooks)

Spec == Init /\ [][Next]_vars /\ Fairness
-----------------------------------------------------------------------------
\* What the variables of the pages range over.
TypeOK ==
  /\ DocumentsTypeOK /\ LiveTypeOK /\ EditorTypeOK /\ SchemasTypeOK /\ CollectionsTypeOK
  /\ IndexesTypeOK /\ OperationsPageTypeOK /\ WorkspacesTypeOK /\ KeysTypeOK
  /\ SearchPageTypeOK /\ WebhooksTypeOK /\ RealtimeTypeOK

\* A page that differs from Core after an own action, or after a write that
\* its stream reports, does not stay so: another page is loaded until it
\* agrees, whichever answers, pages and messages come late.
PagesCatchUp ==
  LET behind == DocumentsBehind \/ CollectionsBehind \/ IndexesBehind \/ OperationsBehind
                \/ WebhooksBehind
  IN  behind ~> ~behind
=============================================================================
