---------------------------- MODULE IndexesPage ----------------------------
(***************************************************************************)
(* The list of a collection's indexes (IndexesClient.tsx, indexes/page.tsx,*)
(* its server actions and lib/indexes/service.ts).  An index may be built  *)
(* by the call that creates it or in the background, and only a complete   *)
(* one is listed by Core.                                                  *)
(***************************************************************************)
EXTENDS Naturals

CONSTANTS
  IxCollections,  \* the collections of the project
  IxFields,       \* the fields that may have an index
  NoIndex         \* no index, no call

VARIABLES
  ixCore,     \* each index in Core: NoIndex, "building" or "ready"
  ixShown,    \* selectedCollection
  ixRows,     \* indexRows: the state each row was given
  ixError,    \* loadError is not empty
  ixCreating, \* creating
  ixTargets,  \* deleteTargets
  ixCall,     \* the server action that has been sent, and its progress
  ixWanted,   \* router.refresh() waits for its turn
  ixOwed      \* the fields an own action has touched since the page was loaded

ixVars == <<ixCore, ixShown, ixRows, ixError, ixCreating, ixTargets, ixCall, ixWanted, ixOwed>>
ixListVars == <<ixShown, ixRows, ixError, ixWanted, ixOwed>>
ixWidgetVars == <<ixCreating, ixTargets>>

\* What Core lists of a collection: only the indexes that are ready.
ListIndexes(c) == [f \in IxFields |-> IF ixCore[<<c, f>>] = "ready" THEN "ready" ELSE NoIndex]
RowFields == {f \in IxFields : ixRows[f] # NoIndex}

IndexesInit ==
  /\ ixCore \in [IxCollections \X IxFields -> {NoIndex, "building", "ready"}]
  /\ ixShown \in IxCollections
  /\ ixRows = ListIndexes(ixShown) /\ ixError = FALSE
  /\ ixCreating = FALSE /\ ixTargets = {}
  /\ ixCall = NoIndex
  /\ ixWanted = FALSE /\ ixOwed = {}
-----------------------------------------------------------------------------
CanEditIndexes == ixCall = NoIndex

OpenCreateIndex == CanEditIndexes /\ ixCreating' = TRUE /\ UNCHANGED ixTargets
CloseCreateIndex == ixCreating' = FALSE /\ UNCHANGED ixTargets
AskToDeleteIndexes(fields) ==
  /\ CanEditIndexes /\ fields # {} /\ fields \subseteq RowFields
  /\ ixTargets' = fields
  /\ UNCHANGED ixCreating
CancelDeleteIndexes == ixTargets' = {} /\ UNCHANGED ixCreating

UseIndexWidgets ==
  /\ \/ OpenCreateIndex \/ CloseCreateIndex \/ CancelDeleteIndexes
     \/ \E fields \in SUBSET IxFields : AskToDeleteIndexes(fields)
  /\ UNCHANGED <<ixCore, ixListVars, ixCall>>

\* Both calls go to the collection that is on the screen now.
HandleCreateIndex(field, async) ==
  /\ ixCreating /\ CanEditIndexes
  /\ ixCall' = [kind |-> "create", collection |-> ixShown, field |-> field, async |-> async,
                built |-> FALSE, result |-> "sent"]

\* The modal does not know of a call that is pending; a second click waits
\* for the first.
HandleDeleteIndexes ==
  /\ ixTargets # {} /\ ixCall = NoIndex
  /\ ixCall' = [kind |-> "delete", collection |-> ixShown,
                results |-> [f \in ixTargets |-> "sent"]]

SendIndexAction ==
  /\ \/ HandleDeleteIndexes
     \/ \E field \in IxFields, async \in BOOLEAN : HandleCreateIndex(field, async)
  /\ UNCHANGED <<ixCore, ixListVars, ixWidgetVars>>
-----------------------------------------------------------------------------
Build(c, f, state) == ixCore' = [ixCore EXCEPT ![<<c, f>>] = state]

\* Core answers a background build with the operation it queued, and one that
\* exists already with the index.
CreateProjectIndex ==
  LET c == ixCall.collection  f == ixCall.field
      Ends(state, result) ==
        /\ Build(c, f, state)
        /\ ixCall' = [ixCall EXCEPT !.result = result, !.built = (state = "ready")]
  IN  /\ ixCall.result = "sent"
      /\ \/ Ends(ixCore[<<c, f>>], "failed")
         \/ ixCore[<<c, f>>] = "ready" /\ Ends("ready", "ready")
         \/ ixCore[<<c, f>>] # "ready" /\ ixCall.async /\ Ends("building", "queued")
         \/ ixCore[<<c, f>>] = NoIndex /\ ~ixCall.async /\ Ends("ready", "ready")

DeleteProjectIndex(f) ==
  /\ ixCall.results[f] = "sent"
  /\ \/ /\ ixCore[<<ixCall.collection, f>>] # NoIndex
        /\ Build(ixCall.collection, f, NoIndex)
        /\ ixCall' = [ixCall EXCEPT !.results[f] = "deleted"]
     \/ /\ ixCall' = [ixCall EXCEPT !.results[f] = "failed"]
        /\ UNCHANGED ixCore

RunIndexAction ==
  /\ ixCall # NoIndex
  /\ \/ ixCall.kind = "create" /\ CreateProjectIndex
     \/ ixCall.kind = "delete" /\ \E f \in DOMAIN ixCall.results : DeleteProjectIndex(f)
  /\ UNCHANGED <<ixListVars, ixWidgetVars>>

UpsertIndex(f, state) == [ixRows EXCEPT ![f] = state]

\* The row is added to whatever collection is on the screen by now.
AnswerCreateIndex ==
  /\ ixCall.kind = "create" /\ ixCall.result # "sent"
  /\ IF ixCall.result = "failed" THEN UNCHANGED <<ixListVars, ixWidgetVars>>
     ELSE /\ ixRows' = UpsertIndex(ixCall.field, ixCall.result)
          /\ ixCreating' = FALSE
          /\ ixWanted' = TRUE /\ ixOwed' = ixOwed \cup {ixCall.field}
          /\ UNCHANGED <<ixShown, ixError, ixTargets>>

DeletedFields == {f \in DOMAIN ixCall.results : ixCall.results[f] = "deleted"}

AnswerDeleteIndexes ==
  /\ ixCall.kind = "delete" /\ \A f \in DOMAIN ixCall.results : ixCall.results[f] # "sent"
  /\ IF DeletedFields = {} THEN UNCHANGED <<ixListVars, ixWidgetVars>>
     ELSE /\ ixRows' = [f \in IxFields |-> IF f \in DeletedFields THEN NoIndex ELSE ixRows[f]]
          /\ ixTargets' = {}
          /\ ixWanted' = TRUE /\ ixOwed' = ixOwed \cup DeletedFields
          /\ UNCHANGED <<ixShown, ixError, ixCreating>>

AnswerIndexAction ==
  /\ ixCall # NoIndex
  /\ AnswerCreateIndex \/ AnswerDeleteIndexes
  /\ ixCall' = NoIndex
  /\ UNCHANGED ixCore
-----------------------------------------------------------------------------
\* A page for any collection may arrive at any time; see CollectionsPage.
LoadIndexes(c) ==
  /\ \E failed \in BOOLEAN :
       /\ ixError' = failed
       /\ ixRows' = IF failed THEN [f \in IxFields |-> NoIndex] ELSE ListIndexes(c)
  /\ ixShown' = c
  /\ ixWanted' = FALSE /\ ixOwed' = {}
  /\ UNCHANGED <<ixCore, ixWidgetVars, ixCall>>

RefreshIndexes == ixWanted /\ LoadIndexes(ixShown)

\* A background build ends: complete, failed or canceled.
BuildIndexEnds(c, f) ==
  /\ ixCore[<<c, f>>] = "building"
  /\ \E state \in {"ready", NoIndex} :
       /\ Build(c, f, state)
       /\ ixCall' = IF /\ ixCall # NoIndex /\ ixCall.kind = "create"
                       /\ ixCall.collection = c /\ ixCall.field = f
                    THEN [ixCall EXCEPT !.built = ixCall.built \/ state = "ready"] ELSE ixCall
  /\ UNCHANGED <<ixListVars, ixWidgetVars>>

OthersManageIndexes ==
  /\ \E c \in IxCollections, f \in IxFields :
       \/ ixCore[<<c, f>>] = NoIndex /\ Build(c, f, "building")
       \/ ixCore[<<c, f>>] # NoIndex /\ Build(c, f, NoIndex)
  /\ UNCHANGED <<ixListVars, ixWidgetVars, ixCall>>

IndexesNext ==
  \/ UseIndexWidgets \/ SendIndexAction \/ RunIndexAction \/ AnswerIndexAction
  \/ \E c \in IxCollections : LoadIndexes(c) \/ \E f \in IxFields : BuildIndexEnds(c, f)
  \/ OthersManageIndexes
-----------------------------------------------------------------------------
\* The indexes, the list, and the call.
IndexesTypeOK ==
  /\ ixCore \in [IxCollections \X IxFields -> {NoIndex, "building", "ready"}]
  /\ ixShown \in IxCollections
  /\ ixRows \in [IxFields -> {NoIndex, "queued", "ready"}]
  /\ {ixTargets, ixOwed} \subseteq SUBSET IxFields
  /\ {ixError, ixCreating, ixWanted} \subseteq BOOLEAN
  /\ ixCall \in {NoIndex}
       \cup [kind : {"create"}, collection : IxCollections, field : IxFields, async : BOOLEAN,
             built : BOOLEAN, result : {"sent", "failed", "queued", "ready"}]
       \cup [kind : {"delete"}, collection : IxCollections,
             results : UNION {[fields -> {"sent", "deleted", "failed"}] : fields \in SUBSET IxFields}]

\* Whether the list is wrong about an index that an own action has touched.
IndexesBehind ==
  ~ixError /\ \E f \in ixOwed : (ixRows[f] = NoIndex) # (ixCore[<<ixShown, f>>] # "ready")

\* A state that has no badge of its own is given that of an index that is ready.
Badge(state) == IF state = "building" THEN "Building" ELSE "Ready"

\* Indexes that are ready are kept separate from those being built: a row that
\* a creation adds is shown as ready only if the build had ended.
ReadyIsBuilt ==
  [][\A f \in IxFields :
       /\ ixCall # NoIndex /\ ixCall' = NoIndex /\ ixCall.kind = "create" /\ ixCall.field = f
       /\ ixRows'[f] # ixRows[f] /\ Badge(ixRows'[f]) = "Ready"
       => ixCall.built]_ixVars
=============================================================================
