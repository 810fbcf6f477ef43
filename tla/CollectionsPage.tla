-------------------------- MODULE CollectionsPage --------------------------
(***************************************************************************)
(* The list of collections (CollectionsClient.tsx, collections/page.tsx,   *)
(* its server actions and lib/collections/service.ts).  Collections are    *)
(* created one at a time and deleted together, each by a call of its own,  *)
(* while other clients create and delete the same names.                   *)
(***************************************************************************)
EXTENDS Naturals

CONSTANTS
  ColNames,  \* the names collections may have
  NoCol      \* no call

VARIABLES
  colCore,     \* the collections in Core
  colRows,     \* collectionRows
  colError,    \* loadError is not empty
  colCreating, \* creating
  colTargets,  \* deleteTargets
  colCall,     \* the server action that has been sent, and its progress
  colWanted,   \* router.refresh() waits for its turn
  colOwed      \* the names an own action has touched since the page was loaded

colVars == <<colCore, colRows, colError, colCreating, colTargets, colCall, colWanted, colOwed>>
colListVars == <<colRows, colError, colWanted, colOwed>>
colWidgetVars == <<colCreating, colTargets>>

CollectionsInit ==
  /\ colCore \in SUBSET ColNames
  /\ colRows = colCore /\ colError = FALSE
  /\ colCreating = FALSE /\ colTargets = {}
  /\ colCall = NoCol
  /\ colWanted = FALSE /\ colOwed = {}
-----------------------------------------------------------------------------
\* The button of an empty list does not wait for a pending call.
OpenCreateCollection ==
  /\ colCall = NoCol \/ colRows = {}
  /\ colCreating' = TRUE
  /\ UNCHANGED colTargets
CloseCreateCollection == colCreating' = FALSE /\ UNCHANGED colTargets

\* What the rows' boxes may select: rows only, those that left are dropped.
Selections == SUBSET colRows \ {{}}

\* The button of a row, or of the selected rows.
AskToDeleteCollections(names) ==
  /\ names \in Selections /\ colCall = NoCol
  /\ colTargets' = names
  /\ UNCHANGED colCreating
CancelDeleteCollections == colTargets' = {} /\ UNCHANGED colCreating

UseCollectionWidgets ==
  /\ \/ OpenCreateCollection \/ CloseCreateCollection \/ CancelDeleteCollections
     \/ \E names \in SUBSET ColNames : AskToDeleteCollections(names)
  /\ UNCHANGED <<colCore, colListVars, colCall>>

HandleCreateCollection(name) ==
  /\ colCreating /\ colCall = NoCol
  /\ colCall' = [kind |-> "create", name |-> name, result |-> "sent"]

\* The modal's button needs the name, or "delete", to be typed.
HandleDeleteCollections ==
  /\ colTargets # {} /\ colCall = NoCol
  /\ colCall' = [kind |-> "delete", results |-> [n \in colTargets |-> "sent"]]

SendCollectionAction ==
  /\ HandleDeleteCollections \/ \E name \in ColNames : HandleCreateCollection(name)
  /\ UNCHANGED <<colCore, colListVars, colWidgetVars>>
-----------------------------------------------------------------------------
\* The server actions: the calls of one deletion run together.  A call that
\* fails may have reached Core all the same.
CreateProjectCollection ==
  /\ colCall.result = "sent"
  /\ \E result \in {"created", "exists", "failed"} :
       /\ colCall' = [colCall EXCEPT !.result = result]
       /\ CASE result = "created" -> colCall.name \notin colCore /\ colCore' = colCore \cup {colCall.name}
            [] result = "exists" -> colCall.name \in colCore /\ UNCHANGED colCore
            [] result = "failed" -> colCore' \in {colCore, colCore \cup {colCall.name}}

DeleteProjectCollection(n) ==
  /\ colCall.results[n] = "sent"
  /\ \E result \in {"deleted", "missing", "failed"} :
       /\ colCall' = [colCall EXCEPT !.results[n] = result]
       /\ CASE result = "deleted" -> n \in colCore /\ colCore' = colCore \ {n}
            [] result = "missing" -> n \notin colCore /\ UNCHANGED colCore
            [] result = "failed" -> colCore' \in {colCore, colCore \ {n}}

RunCollectionAction ==
  /\ colCall # NoCol
  /\ \/ colCall.kind = "create" /\ CreateProjectCollection
     \/ colCall.kind = "delete" /\ \E n \in DOMAIN colCall.results : DeleteProjectCollection(n)
  /\ UNCHANGED <<colListVars, colWidgetVars>>

\* A deletion is an error only when nothing was deleted and something failed.
CreateAnswered == colCall.kind = "create" /\ colCall.result # "sent"
DeleteAnswered ==
  colCall.kind = "delete" /\ \A n \in DOMAIN colCall.results : colCall.results[n] # "sent"
DeleteIsError ==
  LET outcomes == {colCall.results[n] : n \in DOMAIN colCall.results}
  IN  "failed" \in outcomes /\ "deleted" \notin outcomes

AnswerCreateCollection ==
  /\ CreateAnswered
  /\ IF colCall.result = "failed" THEN UNCHANGED <<colListVars, colWidgetVars>>
     ELSE /\ colCreating' = FALSE
          /\ colWanted' = TRUE /\ colOwed' = colOwed \cup {colCall.name}
          /\ UNCHANGED <<colRows, colError, colTargets>>

\* The targets leave the screen, those that could not be deleted too.
AnswerDeleteCollections ==
  /\ DeleteAnswered
  /\ IF DeleteIsError THEN UNCHANGED <<colListVars, colWidgetVars>>
     ELSE /\ colRows' = colRows \ DOMAIN colCall.results
          /\ colTargets' = {}
          /\ colWanted' = TRUE /\ colOwed' = colOwed \cup DOMAIN colCall.results
          /\ UNCHANGED <<colError, colCreating>>

AnswerCollectionAction ==
  /\ colCall # NoCol
  /\ AnswerCreateCollection \/ AnswerDeleteCollections
  /\ colCall' = NoCol
  /\ UNCHANGED colCore
-----------------------------------------------------------------------------
ListProjectCollections(failed) == IF failed THEN {} ELSE colCore

\* A page may be loaded at any time, and is when a refresh is wanted; a
\* failed load is an error with no rows.  To the browser it is the same
\* whether another client's write comes between the reading and the arrival
\* or just after it.
LoadCollections ==
  /\ \E failed \in BOOLEAN :
       colError' = failed /\ colRows' = ListProjectCollections(failed)
  /\ colWanted' = FALSE /\ colOwed' = {}
  /\ UNCHANGED <<colCore, colWidgetVars, colCall>>

RefreshCollections == colWanted /\ LoadCollections

OthersManageCollections ==
  /\ \E n \in ColNames : colCore' \in {colCore \cup {n}, colCore \ {n}}
  /\ UNCHANGED <<colListVars, colWidgetVars, colCall>>

CollectionsNext ==
  \/ UseCollectionWidgets \/ SendCollectionAction \/ RunCollectionAction
  \/ AnswerCollectionAction \/ LoadCollections \/ OthersManageCollections
-----------------------------------------------------------------------------
\* The collections, the list, and the call.
CollectionsTypeOK ==
  /\ {colCore, colRows, colTargets, colOwed} \subseteq SUBSET ColNames
  /\ {colError, colCreating, colWanted} \subseteq BOOLEAN
  /\ colCall \in {NoCol}
       \cup [kind : {"create"}, name : ColNames, result : {"sent", "created", "exists", "failed"}]
       \cup [kind : {"delete"}, results : UNION {[names -> {"sent", "deleted", "missing", "failed"}] :
                                                 names \in SUBSET ColNames}]

\* Whether the list is wrong about a name that an own action has touched.
CollectionsBehind ==
  ~colError /\ \E n \in colOwed : (n \in colRows) # (n \in colCore)
=============================================================================
