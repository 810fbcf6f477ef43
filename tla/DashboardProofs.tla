-------------------------- MODULE DashboardProofs --------------------------
(***************************************************************************)
(* Proofs about pages of the dashboard, for any users, projects, tabs,     *)
(* collections, documents, fields and keys: what a page sends and shows,   *)
(* whatever other clients write and whatever arrives late.                 *)
(***************************************************************************)
EXTENDS MCDashboard, SequenceTheorems, OrderFacts

(***************************************************************************)
(* DocumentsPage: edits and deletions.                                     *)
(***************************************************************************)

\* An open editor, and an edit that was sent, hold the ETag of the content
\* they show: it was taken from the same row at the same moment.
EtagIsOfTheContent ==
  /\ docEditor # NoDoc => docEditor.etag = docEditor.json
  /\ docCall # NoDoc /\ docCall.kind = "edit" => docCall.etag = docCall.json

DocumentsInv == DocumentsTypeOK /\ EtagIsOfTheContent

USE DEF Row

LEMMA DocumentsInitInv == DocumentsInit => DocumentsInv
  BY DEF DocumentsInit, DocumentsInv, DocumentsTypeOK, EtagIsOfTheContent, NoRows

\* The widgets change the two panels; a row opens with its content and ETag.
LEMMA DocumentsWidgetsInv == DocumentsInv /\ UseWidgets => DocumentsInv'
<1> SUFFICES ASSUME DocumentsInv, UseWidgets PROVE DocumentsInv'
  OBVIOUS
<1> USE DEF DocumentsInv, DocumentsTypeOK, EtagIsOfTheContent, UseWidgets, docScreenVars
<1>1. ASSUME NEW i \in DocIds, OpenEdit(i) PROVE DocumentsInv'
  BY <1>1 DEF OpenEdit, PageIds
<1>2. ASSUME NEW ids \in SUBSET PageIds, AskToDelete(ids) PROVE DocumentsInv'
  BY <1>2 DEF AskToDelete
<1>3. CASE CancelDelete
  BY <1>3 DEF CancelDelete, NoRows
<1>4. CASE OpenCreate
  BY <1>4 DEF OpenCreate
<1>5. CASE CloseEditor
  BY <1>5 DEF CloseEditor
<1>6. QED
  BY <1>1, <1>2, <1>3, <1>4, <1>5

\* A call takes over what the panel holds.
LEMMA DocumentsSendInv == DocumentsInv /\ SendCall => DocumentsInv'
<1> SUFFICES ASSUME DocumentsInv, SendCall PROVE DocumentsInv'
  OBVIOUS
<1> USE DEF DocumentsInv, DocumentsTypeOK, EtagIsOfTheContent, SendCall, docScreenVars,
            docPanelVars
<1>1. CASE ConfirmDelete
  BY <1>1 DEF ConfirmDelete
<1>2. ASSUME NEW text \in DocContents, SaveEditor(text) PROVE DocumentsInv'
  BY <1>2 DEF SaveEditor, ExpectedEtag
<1>3. QED
  BY <1>1, <1>2

\* Core's documents stay documents, and the call stays what it was.
LEMMA DocumentsRunInv == DocumentsInv /\ RunCall => DocumentsInv'
<1> SUFFICES ASSUME DocumentsInv, RunCall PROVE DocumentsInv'
  OBVIOUS
<1> USE DEF DocumentsInv, DocumentsTypeOK, EtagIsOfTheContent, RunCall, docScreenVars,
            docPanelVars
<1>1. ASSUME docCall.kind # "delete", CreateDocument \/ UpdateDocument \/ SaveFails
      PROVE DocumentsInv'
  <2>1. docCall \in [kind : {"edit", "create"}, collection : DocCollections,
                     id : DocIds \cup {NoDoc}, etag : Row, json : Row,
                     origin : DocIds \cup {NoDoc}, text : DocContents,
                     result : {"sent", "saved", "failed"}]
    BY <1>1
  <2>2. docCore' \in [DocCollections -> [DocIds -> Row]]
    <3>1. CASE CreateDocument
      BY <2>1, <3>1 DEF CreateDocument, Write
    <3>2. CASE UpdateDocument /\ docCall.id \in DocIds
      BY <2>1, <3>2 DEF UpdateDocument, Write, NothingWritten
    <3>3. CASE UpdateDocument /\ docCall.id \notin DocIds
      BY <2>1, <3>3 DEF UpdateDocument, Write, NothingWritten
    <3>4. CASE SaveFails
      BY <3>4 DEF SaveFails, NothingWritten
    <3>5. QED
      BY <1>1, <3>1, <3>2, <3>3, <3>4
  <2>3. PICK result \in {"saved", "failed"} : docCall' = [docCall EXCEPT !.result = result]
    BY <1>1 DEF CreateDocument, UpdateDocument, SaveFails, Saved
  <2>4. QED
    BY <2>1, <2>2, <2>3
<1>2. ASSUME docCall.kind = "delete", NEW i \in Unanswered, DeleteDocument(i) \/ DeleteFails(i)
      PROVE DocumentsInv'
  <2>1. /\ docCall = [kind |-> "delete", collection |-> docCall.collection,
                      targets |-> docCall.targets, results |-> docCall.results]
        /\ docCall.collection \in DocCollections /\ docCall.targets \in [DocIds -> Row]
        /\ i \in DOMAIN docCall.results /\ i \in DocIds
    BY <1>2 DEF Unanswered
  <2>2. docCore' \in [DocCollections -> [DocIds -> Row]]
    BY <1>2, <2>1 DEF DeleteDocument, DeleteFails, Write, NothingWritten
  <2>3. PICK result \in {"deleted", "missing", "failed"} :
          docCall' = [docCall EXCEPT !.results[i] = result]
    BY <1>2 DEF DeleteDocument, DeleteFails, Deleted
  <2>4. docCall' = [kind |-> "delete", collection |-> docCall.collection,
                    targets |-> docCall.targets,
                    results |-> [docCall.results EXCEPT ![i] = result]]
    BY <2>1, <2>3
  <2>5. QED
    BY <1>2, <2>1, <2>2, <2>4
<1>3. QED
  BY <1>1, <1>2

LEMMA DocumentsAnswerInv == DocumentsInv /\ AnswerCall => DocumentsInv'
<1> SUFFICES ASSUME DocumentsInv, AnswerCall PROVE DocumentsInv'
  OBVIOUS
<1> USE DEF DocumentsInv, DocumentsTypeOK, EtagIsOfTheContent, AnswerCall
<1>1. CASE AnswerSave
  BY <1>1 DEF AnswerSave
<1>2. CASE AnswerDelete
  BY <1>2 DEF AnswerDelete, NoRows
<1>3. QED
  BY <1>1, <1>2

\* A page that arrives leaves the panels and the call alone.
LEMMA DocumentsLoadInv ==
  ASSUME DocumentsInv, NEW c \in DocCollections, NEW failed \in BOOLEAN, LoadPage(c, failed)
  PROVE  DocumentsInv'
  BY DEF DocumentsInv, DocumentsTypeOK, EtagIsOfTheContent, LoadPage, docPanelVars, NoRows

LEMMA DocumentsOthersInv == DocumentsInv /\ OtherWrites => DocumentsInv'
  BY DEF DocumentsInv, DocumentsTypeOK, EtagIsOfTheContent, OtherWrites, docScreenVars,
         docPanelVars

LEMMA DocumentsStepInv == DocumentsInv /\ [DocumentsNext]_docVars => DocumentsInv'
<1>1. CASE UNCHANGED docVars
  BY <1>1 DEF DocumentsInv, DocumentsTypeOK, EtagIsOfTheContent, docVars
<1>2. CASE DocumentsNext
  BY <1>2, DocumentsWidgetsInv, DocumentsSendInv, DocumentsRunInv, DocumentsAnswerInv, DocumentsLoadInv, DocumentsOthersInv DEF DocumentsNext
<1>3. QED
  BY <1>1, <1>2

\* The variables keep their types, and the ETag that guards an edit is that
\* of the content the editor was opened with.
THEOREM DocumentsInvariant == DocumentsSpec => []DocumentsInv
  BY DocumentsInitInv, DocumentsStepInv, PTL DEF DocumentsSpec

-----------------------------------------------------------------------------
\* One call of Core changes one document at most.
LEMMA WriteChangesOne ==
  ASSUME DocumentsInv, NEW content \in Row,
         NEW i, Write(i, content),
         NEW c \in DocCollections, NEW j \in DocIds, docCore'[c][j] # docCore[c][j]
  PROVE  c = docCall.collection /\ j = i
  BY DEF DocumentsInv, DocumentsTypeOK, Write

ReplacesWhatWasLoaded ==
  \A c \in DocCollections, i \in DocIds :
    docCall # NoDoc /\ docCall' # docCall /\ docCore'[c][i] # docCore[c][i] =>
      CASE docCall.kind = "create" -> docCore[c][i] = NoDoc
        [] docCall.kind = "edit" -> i = docCall.id /\ docCore[c][i] = docCall.json
        [] docCall.kind = "delete" -> docCore[c][i] = docCall.targets[i]

LEMMA DocumentsStepReplaces == DocumentsInv /\ [DocumentsNext]_docVars => ReplacesWhatWasLoaded
<1> SUFFICES ASSUME DocumentsInv, [DocumentsNext]_docVars,
                    NEW c \in DocCollections, NEW i \in DocIds,
                    docCall # NoDoc, docCall' # docCall, docCore'[c][i] # docCore[c][i]
             PROVE  CASE docCall.kind = "create" -> docCore[c][i] = NoDoc
                      [] docCall.kind = "edit" -> i = docCall.id /\ docCore[c][i] = docCall.json
                      [] docCall.kind = "delete" -> docCore[c][i] = docCall.targets[i]
  BY DEF ReplacesWhatWasLoaded
<1>1. RunCall
  BY DEF DocumentsNext, docVars, UseWidgets, SendCall, ConfirmDelete, SaveEditor, AnswerCall,
         LoadPage, OtherWrites
<1>2. docCall.kind \in {"create", "edit", "delete"}
  BY DEF DocumentsInv, DocumentsTypeOK
<1>3. CASE docCall.kind = "create"
  <2>1. CreateDocument
    BY <1>1, <1>3 DEF RunCall, UpdateDocument, SaveFails, NothingWritten
  <2>2. PICK j \in DocIds : Found(j) = NoDoc /\ Write(j, docCall.text)
    BY <2>1 DEF CreateDocument
  <2>3. docCall.text \in Row
    BY <1>3 DEF DocumentsInv, DocumentsTypeOK
  <2>4. c = docCall.collection /\ i = j
    BY <2>2, <2>3, WriteChangesOne
  <2>5. QED
    BY <1>3, <2>2, <2>4 DEF Found
<1>4. CASE docCall.kind = "edit"
  <2>1. Found(docCall.id) = docCall.etag /\ Write(docCall.id, docCall.text)
    BY <1>1, <1>4 DEF RunCall, UpdateDocument, CreateDocument, SaveFails, NothingWritten
  <2>2. docCall.text \in Row
    BY <1>4 DEF DocumentsInv, DocumentsTypeOK
  <2>3. c = docCall.collection /\ i = docCall.id
    BY <2>1, <2>2, WriteChangesOne
  <2>4. docCall.etag = docCall.json
    BY <1>4 DEF DocumentsInv, EtagIsOfTheContent
  <2>5. QED
    BY <1>4, <2>1, <2>3, <2>4 DEF Found
<1>5. CASE docCall.kind = "delete"
  <2>1. PICK j \in Unanswered : DeleteDocument(j) \/ DeleteFails(j)
    BY <1>1, <1>5 DEF RunCall
  <2>2. Found(j) = IfMatch(j) /\ Write(j, NoDoc)
    BY <2>1 DEF DeleteDocument, DeleteFails, NothingWritten
  <2>3. c = docCall.collection /\ i = j
    BY <2>2, WriteChangesOne
  <2>4. QED
    BY <1>5, <2>2, <2>3 DEF Found, IfMatch
<1>6. QED
  BY <1>2, <1>3, <1>4, <1>5

\* No content that the user was not shown is overwritten or deleted from the
\* data page, whatever other clients write and whatever pages arrive between
\* the row, the click, and Core.
THEOREM EditsAreGuarded == DocumentsSpec => EditsReplaceWhatWasLoaded
<1>1. DocumentsInv /\ [DocumentsNext]_docVars => [ReplacesWhatWasLoaded]_docVars
  BY DocumentsStepReplaces
<1>2. QED
  BY <1>1, DocumentsInvariant, PTL DEF DocumentsSpec, EditsReplaceWhatWasLoaded, ReplacesWhatWasLoaded

(***************************************************************************)
(* SearchPage: a list of fields and the collection it was loaded for.      *)
(***************************************************************************)
\* The list on the screen was loaded for the collection on the screen, and a
\* save that was sent goes to the collection its list was loaded for.
ListIsOfItsCollection ==
  /\ ftsOrigin = ftsShown
  /\ ftsCall # NoFts => ftsCall.origin = ftsCall.collection

SearchPageInv == SearchPageTypeOK /\ ListIsOfItsCollection

LEMMA SearchPageInitInv == SearchPageInit => SearchPageInv
  BY DEF SearchPageInit, SearchPageInv, SearchPageTypeOK, ListIsOfItsCollection

LEMMA SearchPageWidgetsInv == SearchPageInv /\ UseFtsWidgets => SearchPageInv'
<1> SUFFICES ASSUME SearchPageInv, UseFtsWidgets PROVE SearchPageInv'
  OBVIOUS
<1> USE DEF SearchPageInv, SearchPageTypeOK, ListIsOfItsCollection, UseFtsWidgets
<1>1. CASE OpenAddField
  BY <1>1 DEF OpenAddField
<1>2. CASE EditDraft
  BY <1>2 DEF EditDraft, UpdateDraftField, ValidateDraftJson
<1>3. CASE SaveNewFields
  BY <1>3 DEF SaveNewFields
<1>4. CASE DeleteSelectedFields
  BY <1>4 DEF DeleteSelectedFields
<1>5. CASE ConfirmDeleteFields
  BY <1>5 DEF ConfirmDeleteFields
<1>6. CASE CloseFtsPanel
  BY <1>6 DEF CloseFtsPanel
<1>7. QED
  BY <1>1, <1>2, <1>3, <1>4, <1>5, <1>6

LEMMA SearchPageStepInv == SearchPageInv /\ [SearchPageNext]_ftsVars => SearchPageInv'
<1> SUFFICES ASSUME SearchPageInv, [SearchPageNext]_ftsVars PROVE SearchPageInv'
  OBVIOUS
<1> USE DEF SearchPageInv, SearchPageTypeOK, ListIsOfItsCollection, ftsScreenVars
<1>1. CASE UseFtsWidgets
  BY <1>1, SearchPageWidgetsInv
<1>2. CASE SaveFields
  BY <1>2 DEF SaveFields
<1>3. CASE SaveFTSFieldsAction
  BY <1>3 DEF SaveFTSFieldsAction
<1>4. CASE AnswerSaveFields
  BY <1>4 DEF AnswerSaveFields
<1>5. ASSUME NEW c \in FtsCollections, LoadFtsPage(c) PROVE SearchPageInv'
  BY <1>5 DEF LoadFtsPage
<1>6. CASE OthersSetFts
  BY <1>6 DEF OthersSetFts
<1>7. CASE UNCHANGED ftsVars
  BY <1>7 DEF ftsVars
<1>8. QED
  BY <1>1, <1>2, <1>3, <1>4, <1>5, <1>6, <1>7 DEF SearchPageNext

FieldsGoWhereTheyBelong ==
  ftsCall # NoFts /\ ftsCall' # ftsCall
    => \A c \in FtsCollections : ftsCore'[c] # ftsCore[c] => ftsCall.origin = c

LEMMA SearchPageStepBelongs ==
  SearchPageInv /\ [SearchPageNext]_ftsVars => FieldsGoWhereTheyBelong
<1> SUFFICES ASSUME SearchPageInv, [SearchPageNext]_ftsVars, ftsCall # NoFts, ftsCall' # ftsCall,
                    NEW c \in FtsCollections, ftsCore'[c] # ftsCore[c]
             PROVE  ftsCall.origin = c
  BY DEF FieldsGoWhereTheyBelong
<1>1. SaveFTSFieldsAction
  BY DEF SearchPageNext, UseFtsWidgets, SaveFields, AnswerSaveFields, LoadFtsPage, OthersSetFts,
         ftsVars
<1>2. QED
  BY <1>1 DEF SaveFTSFieldsAction, SearchPageInv, SearchPageTypeOK, ListIsOfItsCollection

\* A list of fields is saved to the collection it was loaded for, whatever
\* pages arrive and whichever panels are open meanwhile (FTSClient.tsx).
THEOREM FieldsGoHome == SearchPageSpec => FieldsStayWithTheirCollection
<1>1. SearchPageSpec => []SearchPageInv
  BY SearchPageInitInv, SearchPageStepInv, PTL DEF SearchPageSpec
<1>2. SearchPageInv /\ [SearchPageNext]_ftsVars => [FieldsGoWhereTheyBelong]_ftsVars
  BY SearchPageStepBelongs
<1>3. QED
  BY <1>1, <1>2, PTL DEF SearchPageSpec, FieldsStayWithTheirCollection, FieldsGoWhereTheyBelong

(***************************************************************************)
(* RealtimePage: what the console shows is of the collection it names.     *)
(***************************************************************************)
\* A poll that may still change the screen is of the collection listened to.
PollsThatCount ==
  \A p \in rtPolls : p.mounted => rtConnected /\ p.collection = rtShown

RealtimeInv == RealtimeTypeOK /\ ConsoleShowsItsCollection /\ PollsThatCount

LEMMA UnmountedPolls ==
  ASSUME RealtimeTypeOK
  PROVE  /\ Unmounted(rtPolls) \in SUBSET Polls
         /\ \A p \in Unmounted(rtPolls) : p.mounted = FALSE
<1> SUFFICES ASSUME NEW p \in Unmounted(rtPolls)
             PROVE  /\ p \in Polls
                    /\ p.mounted = FALSE
  OBVIOUS
<1>1. PICK q \in rtPolls : p = [collection |-> q.collection, mounted |-> FALSE]
  BY DEF Unmounted, Poll
<1>2. q.collection \in RtCollections
  BY DEF RealtimeTypeOK, Polls
<1>3. QED
  BY <1>1, <1>2 DEF Polls

\* Asking for the collection listened to keeps the polls what they are.
LEMMA NewPoll ==
  ASSUME RealtimeTypeOK, NEW c \in RtCollections, NEW mounted \in BOOLEAN,
         NEW polls, polls \in SUBSET Polls
  PROVE  /\ polls \cup {Poll(c, mounted)} \in SUBSET Polls
         /\ Poll(c, mounted).mounted = mounted /\ Poll(c, mounted).collection = c
  BY DEF Poll, Polls

LEMMA RealtimeInitInv == RealtimeInit => RealtimeInv
  BY DEF RealtimeInit, RealtimeInv, RealtimeTypeOK, ConsoleShowsItsCollection, PollsThatCount

\* The stream is the console's own, so stopping it leaves nothing that counts.
LEMMA RealtimeWidgetsInv == RealtimeInv /\ UseRealtimeWidgets => RealtimeInv'
<1> SUFFICES ASSUME RealtimeInv, UseRealtimeWidgets PROVE RealtimeInv'
  OBVIOUS
<1> USE DEF RealtimeInv, RealtimeTypeOK, ConsoleShowsItsCollection, PollsThatCount, rtListenVars
<1>1. CASE StartListening
  <2>1. /\ rtPolls' \in SUBSET Polls
        /\ Poll(rtShown, TRUE).collection = rtShown
    BY <1>1, NewPoll DEF StartListening
  <2>2. rtStream' = [collection |-> rtShown, open |-> FALSE] /\ rtConnected' = TRUE
    BY <1>1 DEF StartListening
  <2>3. rtStream' \in Streams /\ rtStream'.collection = rtShown
    BY <2>2 DEF Streams, RealtimeTypeOK
  <2>4. RealtimeTypeOK'
    BY <1>1, <2>1, <2>2, <2>3 DEF StartListening
  <2>5. PollsThatCount'
    BY <1>1, <2>1, <2>2 DEF StartListening
  <2>6. QED
    BY <1>1, <2>2, <2>3, <2>4, <2>5, NoRtAssumption DEF StartListening
<1>2. CASE HandleStop
  BY <1>2, UnmountedPolls DEF HandleStop, StopListening
<1>3. CASE LeaveRealtimePage
  BY <1>3, UnmountedPolls DEF LeaveRealtimePage, StopListening
<1>4. CASE HandlePayloadChange
  BY <1>4 DEF HandlePayloadChange
<1>5. CASE HandlePublish
  BY <1>5 DEF HandlePublish
<1>6. ASSUME NEW c \in RtCollections, SelectRtCollection(c) PROVE RealtimeInv'
  <2>1. rtPolls' \in SUBSET Polls
    BY <1>6, UnmountedPolls, NewPoll DEF SelectRtCollection
  <2>2. Poll(c, FALSE).mounted = FALSE
    BY NewPoll
  <2>3. \A p \in rtPolls' : p.mounted = FALSE
    BY <1>6, <2>2, UnmountedPolls DEF SelectRtCollection
  <2>4. QED
    BY <1>6, <2>1, <2>3 DEF SelectRtCollection, StopListening
<1>7. QED
  BY <1>1, <1>2, <1>3, <1>4, <1>5, <1>6 DEF UseRealtimeWidgets

LEMMA RunRealtimeInv == RealtimeInv /\ RunRealtime => RealtimeInv'
<1> SUFFICES ASSUME RealtimeInv, RunRealtime PROVE RealtimeInv'
  OBVIOUS
<1> USE DEF RealtimeInv, RealtimeTypeOK, ConsoleShowsItsCollection, PollsThatCount, rtListenVars,
            RunRealtime
<1>1. CASE SubscribeRoute \/ StreamBreaks
  <2>1. PICK open \in BOOLEAN : rtStream' = [rtStream EXCEPT !.open = open]
    BY <1>1 DEF SubscribeRoute, StreamBreaks
  <2>2. rtStream \in Streams
    BY <1>1 DEF SubscribeRoute, StreamBreaks
  <2>3. rtStream' \in Streams /\ rtStream'.collection = rtStream.collection
    BY <2>1, <2>2 DEF Streams
  <2>4. QED
    BY <1>1, <2>2, <2>3, NoRtAssumption DEF SubscribeRoute, StreamBreaks
<1>3. CASE StreamIsRefused
  BY <1>3, UnmountedPolls DEF StreamIsRefused, StopListening
<1>4. CASE ReceiveEvent
  BY <1>4 DEF ReceiveEvent
<1>5. CASE FetchPresence
  BY <1>5, NewPoll DEF FetchPresence
<1>6. ASSUME NEW p \in rtPolls, GetPresenceAction(p) PROVE RealtimeInv'
  <2>1. rtPresence' \in {NoRt, rtPresence} \cup (IF p.mounted THEN {rtShown} ELSE {})
    BY <1>6 DEF GetPresenceAction
  <2>2. p.mounted => rtConnected
    OBVIOUS
  <2>3. rtPolls' \subseteq rtPolls
    BY <1>6 DEF GetPresenceAction
  <2>4. QED
    BY <1>6, <2>1, <2>2, <2>3 DEF GetPresenceAction
<1>7. QED
  BY <1>1, <1>3, <1>4, <1>5, <1>6

LEMMA RealtimeStepInv == RealtimeInv /\ [RealtimeNext]_rtVars => RealtimeInv'
<1> SUFFICES ASSUME RealtimeInv, [RealtimeNext]_rtVars PROVE RealtimeInv'
  OBVIOUS
<1> USE DEF RealtimeInv, RealtimeTypeOK, ConsoleShowsItsCollection, PollsThatCount, rtListenVars
<1>1. CASE UseRealtimeWidgets
  BY <1>1, RealtimeWidgetsInv
<1>2. CASE RunRealtime
  BY <1>2, RunRealtimeInv
<1>3. CASE PublishEventAction
  <2>1. rtEvents' \in SUBSET RtCollections /\ (rtConnected => rtEvents' \subseteq {rtShown})
    <3>1. CASE rtStream = [collection |-> rtCall.collection, open |-> TRUE] /\ rtStream # NoRt
      BY <1>3, <3>1 DEF PublishEventAction, Streams
    <3>2. CASE rtStream = [collection |-> rtCall.collection, open |-> TRUE] /\ rtStream = NoRt
      <4>1. rtCall.collection \in RtCollections
        BY <1>3 DEF PublishEventAction
      <4>2. [collection |-> rtCall.collection, open |-> TRUE] \in Streams
        BY <4>1 DEF Streams
      <4>3. QED
        BY <3>2, <4>2, NoRtAssumption
    <3>3. CASE rtStream # [collection |-> rtCall.collection, open |-> TRUE]
      BY <1>3, <3>3 DEF PublishEventAction
    <3>4. QED
      BY <3>1, <3>2, <3>3
  <2>2. rtCall' \in {NoRt} \cup [collection : RtCollections, published : BOOLEAN]
    BY <1>3 DEF PublishEventAction
  <2>3. QED
    BY <1>3, <2>1, <2>2 DEF PublishEventAction
<1>4. CASE AnswerPublish
  BY <1>4 DEF AnswerPublish
<1>5. CASE OtherTabChangesProject
  BY <1>5 DEF OtherTabChangesProject
<1>6. CASE UNCHANGED rtVars
  BY <1>6 DEF rtVars
<1>7. QED
  BY <1>1, <1>2, <1>3, <1>4, <1>5, <1>6 DEF RealtimeNext

\* The console shows the stream, the events and the number of listeners of
\* the collection it names, whichever polls are answered late (the cleanups
\* of RealtimeClient.tsx).
THEOREM ConsoleIsRight == RealtimeSpec => []ConsoleShowsItsCollection
<1>1. RealtimeInv => ConsoleShowsItsCollection
  BY DEF RealtimeInv
<1>2. QED
  BY <1>1, RealtimeInitInv, RealtimeStepInv, PTL DEF RealtimeSpec

(***************************************************************************)
(* KeysPage: every key that was minted is accounted for.                   *)
(***************************************************************************)
\* How far the call is says which key it carries, and what became of it.
CallCarriesItsKey ==
  keyCall # NoKey =>
    /\ keyCall.step \in {"sent", "error"} => keyCall.key = NoKey
    /\ keyCall.step \notin {"sent", "error"} => keyCall.key \in KeyIds
    /\ keyCall.step = "stored" => keyCall.key \in keyStored

KeysInv == KeysTypeOK /\ CallCarriesItsKey /\ KeysAreAccountedFor

LEMMA KeysInitInv == KeysInit => KeysInv
  BY DEF KeysInit, KeysInv, KeysTypeOK, CallCarriesItsKey, KeysAreAccountedFor

LEMMA KeyWidgetsInv == KeysInv /\ UseKeyWidgets => KeysInv'
<1> SUFFICES ASSUME KeysInv, UseKeyWidgets PROVE KeysInv'
  OBVIOUS
<1> USE DEF KeysInv, KeysTypeOK, CallCarriesItsKey, KeysAreAccountedFor, UseKeyWidgets, keyStoreVars
<1>1. CASE OpenCreateKey
  BY <1>1 DEF OpenCreateKey
<1>2. CASE CloseKeyPanel
  BY <1>2 DEF CloseKeyPanel
<1>3. CASE AskToGenerate
  BY <1>3 DEF AskToGenerate
<1>4. CASE CancelGenerate
  BY <1>4 DEF CancelGenerate
<1>5. CASE HandleGenerate
  BY <1>5, NoKeyAssumption DEF HandleGenerate, KeyCalls
<1>6. QED
  BY <1>1, <1>2, <1>3, <1>4, <1>5

LEMMA CreateKeyDocumentInv ==
  ASSUME KeysInv, keyCall # NoKey, keyCall.key \in KeyIds, NEW onMissing,
         onMissing \in {"no collection", "not stored"}, CreateKeyDocument(onMissing),
         UNCHANGED <<keyMinted, keyStorage, keyRows, keyPanelVars, keyWarned>>
  PROVE  KeysInv'
<1>1. PICK step \in {"stored", "no collection", "not stored"} :
        /\ keyCall' = [keyCall EXCEPT !.step = step]
        /\ step = "stored" => keyCall.key \in keyStored'
  BY DEF CreateKeyDocument, CallGoes
<1>2. keyStored \subseteq keyStored' /\ keyStored' \subseteq KeyIds
  BY DEF CreateKeyDocument, KeysInv, KeysTypeOK
<1>3. /\ keyCall' \in [key : KeyIds, step : {"stored", "no collection", "not stored"}]
      /\ keyCall'.key = keyCall.key /\ keyCall'.step = step
  BY <1>1 DEF KeysInv, KeysTypeOK, KeyCalls
<1>4. keyCall' # NoKey /\ keyCall' \in KeyCalls
  BY <1>3, NoKeyAssumption DEF KeyCalls
<1>5. QED
  BY <1>1, <1>2, <1>3, <1>4
     DEF KeysInv, KeysTypeOK, CallCarriesItsKey, KeysAreAccountedFor, keyPanelVars

LEMMA RunKeyInv == KeysInv /\ RunKeyAction => KeysInv'
<1> SUFFICES ASSUME KeysInv, RunKeyAction PROVE KeysInv'
  OBVIOUS
<1>1. CASE CreateProjectRuntimeApiKey
  <2>1. keyCall \in KeyCalls /\ keyCall.step = "sent" /\ keyCall.key = NoKey
    BY <1>1 DEF CreateProjectRuntimeApiKey, RunKeyAction, KeysInv, KeysTypeOK, CallCarriesItsKey
  <2>2. ASSUME NEW k \in KeyIds, keyMinted' = keyMinted \cup {k},
               keyCall' = [key |-> k, step |-> "minted"]
        PROVE  KeysInv'
    <3>1. [key |-> k, step |-> "minted"] \in KeyCalls
      BY DEF KeyCalls
    <3>2. keyCall' \in KeyCalls /\ keyCall' # NoKey
      BY <2>2, <3>1, NoKeyAssumption
    <3>3. QED
      BY <1>1, <2>1, <2>2, <3>2, NoKeyAssumption
         DEF CreateProjectRuntimeApiKey, RunKeyAction, KeysInv, KeysTypeOK, CallCarriesItsKey,
             KeysAreAccountedFor, keyPanelVars
  <2>3. ASSUME keyCall' = [keyCall EXCEPT !.step = "error"], UNCHANGED keyMinted
        PROVE  KeysInv'
    <3>1. keyCall' \in KeyCalls /\ keyCall'.key = NoKey /\ keyCall'.step = "error"
      BY <2>1, <2>3 DEF KeyCalls
    <3>2. QED
      BY <1>1, <2>1, <2>3, <3>1, NoKeyAssumption
         DEF CreateProjectRuntimeApiKey, RunKeyAction, KeysInv, KeysTypeOK, CallCarriesItsKey,
             KeysAreAccountedFor, keyPanelVars
  <2>4. QED
    BY <1>1, <2>2, <2>3 DEF CreateProjectRuntimeApiKey
<1>2. CASE RecordKeyMetadata
  BY <1>2, CreateKeyDocumentInv
     DEF RecordKeyMetadata, RunKeyAction, KeysInv, CallCarriesItsKey
<1>3. CASE CreateKeyCollection
  <2>1. PICK step \in {"collection", "not stored"} : keyCall' = [keyCall EXCEPT !.step = step]
    BY <1>3 DEF CreateKeyCollection, CallGoes
  <2>2. keyCall \in KeyCalls /\ keyCall.key \in KeyIds
    BY <1>3 DEF CreateKeyCollection, RunKeyAction, KeysInv, KeysTypeOK, CallCarriesItsKey
  <2>3. /\ keyCall' \in KeyCalls /\ keyCall' # NoKey
        /\ keyCall'.key = keyCall.key /\ keyCall'.step = step
    BY <2>1, <2>2, NoKeyAssumption DEF KeyCalls
  <2>4. keyStorage' \in BOOLEAN
    BY <1>3 DEF CreateKeyCollection, KeysInv, KeysTypeOK
  <2>5. QED
    BY <1>3, <2>2, <2>3, <2>4
       DEF CreateKeyCollection, RunKeyAction, KeysInv, KeysTypeOK, CallCarriesItsKey,
           KeysAreAccountedFor, keyPanelVars
<1>4. CASE RecordAfterSetup
  BY <1>4, CreateKeyDocumentInv
     DEF RecordAfterSetup, RunKeyAction, KeysInv, CallCarriesItsKey
<1>5. QED
  BY <1>1, <1>2, <1>3, <1>4 DEF RunKeyAction

LEMMA KeysStepInv == KeysInv /\ [KeysNext]_keyVars => KeysInv'
<1> SUFFICES ASSUME KeysInv, [KeysNext]_keyVars PROVE KeysInv'
  OBVIOUS
<1>1. CASE UseKeyWidgets
  BY <1>1, KeyWidgetsInv
<1>2. CASE RunKeyAction
  BY <1>2, RunKeyInv
<1> USE DEF KeysInv, KeysTypeOK, CallCarriesItsKey, KeysAreAccountedFor, keyStoreVars,
            keyPanelVars
<1>3. CASE AnswerKeyAction
  BY <1>3, NoKeyAssumption DEF AnswerKeyAction, KeyActionResult, KeyCalls
<1>4. CASE VisitKeysPage
  BY <1>4 DEF VisitKeysPage, ListDashboardApiKeys
<1>5. CASE DropKeyStorage
  BY <1>5 DEF DropKeyStorage
<1>6. CASE UNCHANGED keyVars
  BY <1>6 DEF keyVars
<1>7. QED
  BY <1>1, <1>2, <1>3, <1>4, <1>5, <1>6 DEF KeysNext

\* No key that reached the dashboard's server is forgotten: it has a record
\* or came with a warning (keys/actions.ts, lib/api-keys/service.ts).
THEOREM KeysAreKept == KeysSpec => []KeysAreAccountedFor
<1>1. KeysInv => KeysAreAccountedFor
  BY DEF KeysInv
<1>2. QED
  BY <1>1, KeysInitInv, KeysStepInv, PTL DEF KeysSpec

(***************************************************************************)
(* Workspaces: a request works on what its user owns, while the session    *)
(* lasts.                                                                  *)
(***************************************************************************)
\* Every session, wherever it is kept, ends when it was to end at its start.
LastsItsTime(session) == session # NoWs => session.expires = session.created + WsTtl

SessionsLast ==
  /\ LastsItsTime(wsCookie)
  /\ \A t \in WsTabs : wsRequest[t] # NoWs =>
       /\ LastsItsTime(wsRequest[t].session) /\ LastsItsTime(wsRequest[t].answer)
       /\ wsRequest[t].kind = "create" => wsRequest[t].subject \in ProjectOrNone

WorkspacesInv == WorkspacesTypeOK /\ SessionsLast

\* What one tab's request may become.
Sound(request) ==
  /\ request \in Requests
  /\ LastsItsTime(request.session) /\ LastsItsTime(request.answer)
  /\ request.kind = "create" => request.subject \in ProjectOrNone

LEMMA WorkspacesInitInv == WorkspacesInit => WorkspacesInv
  BY WsTimeAssumption
     DEF WorkspacesInit, WorkspacesInv, WorkspacesTypeOK, SessionsLast, LastsItsTime, ProjectOrNone

LEMMA RequestsOneByOne ==
  ASSUME WorkspacesInv, NEW t \in WsTabs, NEW request, request = NoWs \/ Sound(request),
         wsRequest' = [wsRequest EXCEPT ![t] = request]
  PROVE  /\ wsRequest' \in [WsTabs -> Requests \cup {NoWs}]
         /\ \A u \in WsTabs : wsRequest'[u] # NoWs =>
              /\ LastsItsTime(wsRequest'[u].session) /\ LastsItsTime(wsRequest'[u].answer)
              /\ wsRequest'[u].kind = "create" => wsRequest'[u].subject \in ProjectOrNone
  BY DEF WorkspacesInv, WorkspacesTypeOK, SessionsLast, Sound

LEMMA SentIsSound ==
  ASSUME WorkspacesInv, NEW t \in WsTabs, SendRequest(t)
  PROVE  \E request : Sound(request) /\ wsRequest' = [wsRequest EXCEPT ![t] = request]
<1>1. ASSUME NEW kind \in {"login", "register", "logout", "create", "select", "delete", "act",
                           "act for"},
             NEW subject \in ProjectOrNone \cup {WsEmail[u] : u \in WsUsers},
             kind = "create" => subject \in ProjectOrNone,
             NEW session \in {NoWs, wsCookie}, Send(t, kind, subject, session)
      PROVE  \E request : Sound(request) /\ wsRequest' = [wsRequest EXCEPT ![t] = request]
  <2> DEFINE request == [kind |-> kind, subject |-> subject, session |-> session,
                         step |-> "sent", answer |-> NoWs]
  <2>1. session \in Sessions \cup {NoWs} /\ LastsItsTime(session)
    BY DEF WorkspacesInv, WorkspacesTypeOK, SessionsLast, LastsItsTime
  <2>2. request \in Requests
    BY <2>1 DEF Requests
  <2>3. Sound(request)
    BY <1>1, <2>1, <2>2 DEF Sound, LastsItsTime
  <2>4. QED
    BY <1>1, <2>3 DEF Send
<1>2. NoWs \in ProjectOrNone /\ wsShown[t] \in ProjectOrNone /\ WsProjects \subseteq ProjectOrNone
  BY DEF ProjectOrNone, WorkspacesInv, WorkspacesTypeOK
<1>3. QED
  BY <1>1, <1>2
     DEF SendRequest, LoginForm, RegisterForm, CreateForm, SelectForm, DeleteForm, DashboardAction,
         ProfileMenu

\* A session that is made, or remade, lasts as long as one that is new.
LEMMA NewSessionLasts ==
  ASSUME WorkspacesInv, NEW u \in WsUsers
  PROVE  CreateDashboardSession(u) \in Sessions /\ LastsItsTime(CreateDashboardSession(u))
  BY WsTimeAssumption
     DEF CreateDashboardSession, Session, Sessions, LastsItsTime, WorkspacesInv, WorkspacesTypeOK,
         ProjectOrNone

LEMMA UpdatedSessionLasts ==
  ASSUME NEW session \in Sessions, session # NoWs, LastsItsTime(session), NEW p \in ProjectOrNone
  PROVE  /\ UpdateDashboardSession(session, p) \in Sessions
         /\ LastsItsTime(UpdateDashboardSession(session, p))
  BY DEF UpdateDashboardSession, Session, Sessions, LastsItsTime

LEMMA AnswerIsSound ==
  ASSUME NEW t \in WsTabs, NEW cookie \in Sessions \cup {NoWs}, LastsItsTime(cookie), Sets(t, cookie)
  PROVE  \E request : Sound(request) /\ wsRequest' = [wsRequest EXCEPT ![t] = request]
<1> DEFINE request == [kind |-> "over", subject |-> NoWs, session |-> NoWs, step |-> "done",
                       answer |-> cookie]
<1>1. request \in Requests
  BY DEF Requests, ProjectOrNone
<1>2. Sound(request)
  BY <1>1 DEF Sound, LastsItsTime
<1>3. QED
  BY <1>2 DEF Sets

\* A request that goes on keeps its session.
LEMMA GoingOnIsSound ==
  ASSUME WorkspacesInv, NEW t \in WsTabs, wsRequest[t] # NoWs,
         NEW step \in {"half", "acting"}, NEW subject,
         subject = wsRequest[t].subject \/ subject \in ProjectOrNone
  PROVE  /\ Sound([wsRequest[t] EXCEPT !.step = step, !.subject = subject])
         /\ Sound([wsRequest[t] EXCEPT !.step = step])
<1>1. wsRequest[t] \in Requests /\ Sound(wsRequest[t])
  BY DEF WorkspacesInv, WorkspacesTypeOK, SessionsLast, Sound
<1>2. subject \in ProjectOrNone \cup {WsEmail[u] : u \in WsUsers}
  BY <1>1 DEF Requests
<1>3. QED
  BY <1>1, <1>2 DEF Sound, Requests

\* What ServeRequest makes of one request, and the rest of the state.
LEMMA ServedIsSound ==
  ASSUME WorkspacesInv, NEW t \in WsTabs, ServeRequest(t)
  PROVE  \E request : /\ request = NoWs \/ Sound(request)
                      /\ wsRequest' = [wsRequest EXCEPT ![t] = request]
<1> DEFINE Goal == \E request : /\ request = NoWs \/ Sound(request)
                                /\ wsRequest' = [wsRequest EXCEPT ![t] = request]
<1>0. wsRequest[t] # NoWs /\ wsRequest[t] \in Requests
  BY DEF ServeRequest, WorkspacesInv, WorkspacesTypeOK
<1>1. CASE Login(t)
  <2>1. PICK u \in WsUsers : Sets(t, CreateDashboardSession(u))
    BY <1>1 DEF Login, FindDashboardUserByEmail, WorkspacesInv, WorkspacesTypeOK
  <2>2. QED
    BY <2>1, NewSessionLasts, AnswerIsSound
<1>2. CASE RegisterFind(t)
  BY <1>0, <1>2, GoingOnIsSound DEF RegisterFind, Goes
<1>3. CASE RegisterCreate(t)
  BY <1>3, NewSessionLasts, AnswerIsSound DEF RegisterCreate
<1>4. CASE Logout(t)
  BY <1>4, AnswerIsSound DEF Logout, LastsItsTime
<1>5. CASE ServeWithSession(t)
  <2> DEFINE session == GetDashboardSession(wsRequest[t].session)
  <2>1. session # NoWs /\ session \in Sessions /\ LastsItsTime(session)
    BY <1>0, <1>5 DEF ServeWithSession, GetDashboardSession, Requests, WorkspacesInv, SessionsLast
  <2>2. CASE CreateProject(t, session)
    <3>1. PICK p \in WsProjects :
            wsRequest' = [wsRequest EXCEPT ![t].step = "half", ![t].subject = p]
      BY <2>2 DEF CreateProject
    <3>2. QED
      BY <1>0, <3>1, GoingOnIsSound DEF ProjectOrNone, WorkspacesInv, WorkspacesTypeOK
  <2>3. CASE SelectCreated(t, session)
    <3>1. wsRequest[t].subject \in ProjectOrNone
      BY <1>0, <2>3 DEF SelectCreated, WorkspacesInv, SessionsLast
    <3>2. QED
      BY <2>1, <2>3, <3>1, UpdatedSessionLasts, AnswerIsSound DEF SelectCreated
  <2>4. CASE SelectProject(t, session)
    <3>1. GetDashboardProjectForUser(wsRequest[t].subject, session.user) \in ProjectOrNone
      BY DEF GetDashboardProjectForUser, Projects, ProjectOrNone
    <3>2. QED
      BY <2>1, <2>4, <3>1, UpdatedSessionLasts, AnswerIsSound DEF SelectProject
  <2>5. CASE DeleteProject(t, session)
    <3>1. NoWs \in ProjectOrNone
      BY DEF ProjectOrNone
    <3>2. CASE Sets(t, UpdateDashboardSession(session, NoWs))
      BY <2>1, <3>1, <3>2, UpdatedSessionLasts, AnswerIsSound
    <3>3. CASE wsRequest' = [wsRequest EXCEPT ![t] = NoWs]
      BY <3>3
    <3>4. QED
      BY <2>5, <3>2, <3>3 DEF DeleteProject
  <2>6. CASE RequireSelectedProject(t, session) \/ CheckProjectContext(t, session)
    <3>1. GetSelectedDashboardProject(session) \in ProjectOrNone
      BY DEF GetSelectedDashboardProject, GetDashboardProjectForUser, Projects, ProjectOrNone
    <3>2. QED
      BY <1>0, <2>6, <3>1, GoingOnIsSound
         DEF RequireSelectedProject, CheckProjectContext, WorkspacesInv, WorkspacesTypeOK
  <2>7. QED
    BY <1>5, <2>2, <2>3, <2>4, <2>5, <2>6 DEF ServeWithSession
<1>6. CASE Ends(t)
  BY <1>6 DEF Ends
<1>7. QED
  BY <1>1, <1>2, <1>3, <1>4, <1>5, <1>6 DEF ServeRequest

\* The accounts and projects stay of their types.
LEMMA ServedStores ==
  ASSUME WorkspacesInv, NEW t \in WsTabs, ServeRequest(t)
  PROVE  /\ wsAccounts' \in SUBSET WsUsers
         /\ wsOwner' \in [WsProjects -> WsUsers \cup {NoWs}]
         /\ wsDeleted' \in SUBSET WsProjects
<1> USE DEF WorkspacesInv, WorkspacesTypeOK, wsStoredVars
<1>1. CASE Login(t) \/ RegisterFind(t) \/ Logout(t) \/ Ends(t)
  BY <1>1 DEF Login, RegisterFind, Logout, Ends
<1>2. CASE RegisterCreate(t)
  BY <1>2 DEF RegisterCreate
<1>3. CASE ServeWithSession(t)
  <2> DEFINE session == GetDashboardSession(wsRequest[t].session)
  <2>1. session \in Sessions
    BY <1>3 DEF ServeWithSession, GetDashboardSession, ServeRequest, Requests
  <2>2. session.user \in WsUsers
    BY <2>1 DEF Sessions
  <2>3. CASE CreateProject(t, session)
    BY <2>2, <2>3 DEF CreateProject
  <2>4. CASE DeleteProject(t, session)
    BY <2>4 DEF DeleteProject, GetDashboardProjectForUser, Projects
  <2>5. CASE \/ SelectCreated(t, session) \/ SelectProject(t, session)
             \/ RequireSelectedProject(t, session) \/ CheckProjectContext(t, session)
    BY <2>5 DEF SelectCreated, SelectProject, RequireSelectedProject, CheckProjectContext
  <2>6. QED
    BY <1>3, <2>3, <2>4, <2>5 DEF ServeWithSession
<1>4. QED
  BY <1>1, <1>2, <1>3 DEF ServeRequest

LEMMA WorkspacesStepInv == WorkspacesInv /\ [WorkspacesNext]_wsVars => WorkspacesInv'
<1> SUFFICES ASSUME WorkspacesInv, [WorkspacesNext]_wsVars PROVE WorkspacesInv'
  OBVIOUS
<1>1. ASSUME NEW t \in WsTabs, SendRequest(t) PROVE WorkspacesInv'
  <2>1. PICK request : Sound(request) /\ wsRequest' = [wsRequest EXCEPT ![t] = request]
    BY <1>1, SentIsSound
  <2>2. UNCHANGED <<wsNow, wsAccounts, wsOwner, wsDeleted, wsCookie, wsShown>>
    BY <1>1 DEF SendRequest, wsStoredVars
  <2>3. QED
    BY <2>1, <2>2, RequestsOneByOne DEF WorkspacesInv, WorkspacesTypeOK, SessionsLast, LastsItsTime
<1>2. ASSUME NEW t \in WsTabs, ServeRequest(t) PROVE WorkspacesInv'
  <2>1. PICK request : /\ request = NoWs \/ Sound(request)
                       /\ wsRequest' = [wsRequest EXCEPT ![t] = request]
    BY <1>2, ServedIsSound
  <2>2. UNCHANGED <<wsNow, wsCookie, wsShown>>
    BY <1>2 DEF ServeRequest
  <2>3. QED
    BY <1>2, <2>1, <2>2, RequestsOneByOne, ServedStores
       DEF WorkspacesInv, WorkspacesTypeOK, SessionsLast, LastsItsTime
<1>3. ASSUME NEW t \in WsTabs, AnswerRequest(t) PROVE WorkspacesInv'
  <2>1. wsRequest[t] \in Requests /\ wsRequest[t] # NoWs /\ wsCookie' = wsRequest[t].answer
    BY <1>3 DEF AnswerRequest, WorkspacesInv, WorkspacesTypeOK
  <2>2. wsCookie' \in Sessions \cup {NoWs} /\ LastsItsTime(wsCookie')
    BY <2>1 DEF Requests, WorkspacesInv, SessionsLast
  <2>3. UNCHANGED <<wsNow, wsAccounts, wsOwner, wsDeleted, wsShown>>
    BY <1>3 DEF AnswerRequest, wsStoredVars
  <2>4. wsRequest' = [wsRequest EXCEPT ![t] = NoWs]
    BY <1>3 DEF AnswerRequest
  <2>5. QED
    BY <2>2, <2>3, <2>4, RequestsOneByOne
       DEF WorkspacesInv, WorkspacesTypeOK, SessionsLast, LastsItsTime
<1> USE DEF WorkspacesInv, WorkspacesTypeOK, SessionsLast, LastsItsTime, wsStoredVars
<1>4. ASSUME NEW t \in WsTabs, LoadDashboard(t) PROVE WorkspacesInv'
  <2>1. wsShown' \in [WsTabs -> ProjectOrNone]
    BY <1>4 DEF LoadDashboard, GetSelectedDashboardProject, GetDashboardProjectForUser, Projects,
                ProjectOrNone
  <2>2. QED
    BY <1>4, <2>1 DEF LoadDashboard
<1>5. CASE Tick
  BY <1>5, WsTimeAssumption DEF Tick
<1>6. CASE UNCHANGED wsVars
  BY <1>6 DEF wsVars
<1>7. QED
  BY <1>1, <1>2, <1>3, <1>4, <1>5, <1>6 DEF WorkspacesNext

RequestIsEntitled ==
  \A t \in WsTabs : Acting(t)' /\ ~Acting(t) =>
    LET request == wsRequest'[t] IN
    /\ request.subject \in Projects /\ wsOwner[request.subject] = request.session.user
    /\ wsNow < request.session.created + WsTtl

\* Only the two checks of the selected project let a request through.
LEMMA WorkspacesStepEntitled == WorkspacesInv /\ [WorkspacesNext]_wsVars => RequestIsEntitled
<1> SUFFICES ASSUME WorkspacesInv, [WorkspacesNext]_wsVars, NEW t \in WsTabs,
                    Acting(t)', ~Acting(t)
             PROVE  /\ wsRequest'[t].subject \in Projects
                    /\ wsOwner[wsRequest'[t].subject] = wsRequest'[t].session.user
                    /\ wsNow < wsRequest'[t].session.created + WsTtl
  BY DEF RequestIsEntitled
<1> DEFINE session == GetDashboardSession(wsRequest[t].session)
<1>0. wsRequest \in [WsTabs -> Requests \cup {NoWs}]
  BY DEF WorkspacesInv, WorkspacesTypeOK
<1>1. ServeRequest(t)
  <2>1. ASSUME NEW u \in WsTabs, SendRequest(u) PROVE u = t /\ wsRequest'[t].step = "sent"
    <3>1. PICK kind, subject, cookie : Send(u, kind, subject, cookie)
      BY <2>1 DEF SendRequest, LoginForm, RegisterForm, CreateForm, SelectForm, DeleteForm,
                  DashboardAction, ProfileMenu
    <3>2. QED
      BY <1>0, <3>1 DEF Send, Acting
  <2>2. ASSUME NEW u \in WsTabs, ServeRequest(u), u # t PROVE wsRequest'[t] = wsRequest[t]
    BY <1>0, <2>2, ServedIsSound
  <2>3. ASSUME NEW u \in WsTabs, AnswerRequest(u) PROVE FALSE
    BY <1>0, <2>3 DEF AnswerRequest, Acting
  <2>4. ASSUME wsRequest' = wsRequest PROVE FALSE
    BY <2>4 DEF Acting
  <2>5. QED
    BY <2>1, <2>2, <2>3, <2>4 DEF WorkspacesNext, LoadDashboard, Tick, wsVars, Acting
<1>2. session # NoWs /\ (RequireSelectedProject(t, session) \/ CheckProjectContext(t, session))
  <2> DEFINE After == wsRequest'[t]
  <2>1. After # NoWs /\ After.step = "acting" /\ wsRequest[t] # NoWs
    BY <1>1 DEF Acting, ServeRequest
  <2>2. ASSUME NEW cookie, Sets(t, cookie) PROVE FALSE
    <3>1. After = [kind |-> "over", subject |-> NoWs, session |-> NoWs, step |-> "done",
                   answer |-> cookie]
      BY <1>0, <2>2 DEF Sets
    <3>2. QED
      BY <2>1, <3>1
  <2>3. ASSUME wsRequest' = [wsRequest EXCEPT ![t] = NoWs] PROVE FALSE
    BY <1>0, <2>1, <2>3
  <2>4. ASSUME Goes(t, "half") PROVE FALSE
    <3>1. After.step = "half"
      BY <1>0, <2>1, <2>4 DEF Goes, Requests
    <3>2. QED
      BY <2>1, <3>1
  <2>5. ~Login(t) /\ ~RegisterCreate(t) /\ ~Logout(t)
    BY <2>2 DEF Login, RegisterCreate, Logout
  <2>6. ~RegisterFind(t) /\ ~Ends(t)
    BY <2>3, <2>4 DEF RegisterFind, Ends
  <2>7. ServeWithSession(t)
    BY <1>1, <2>5, <2>6 DEF ServeRequest
  <2>8. ~SelectCreated(t, session) /\ ~SelectProject(t, session) /\ ~DeleteProject(t, session)
    BY <2>2, <2>3 DEF SelectCreated, SelectProject, DeleteProject
  <2>9. ~CreateProject(t, session)
    <3>1. ASSUME CreateProject(t, session) PROVE After.step = "half"
      BY <1>0, <2>1, <3>1 DEF CreateProject, Requests
    <3>2. QED
      BY <2>1, <3>1
  <2>10. QED
    BY <2>7, <2>8, <2>9 DEF ServeWithSession
<1>3. wsRequest[t] # NoWs /\ wsRequest[t] \in Requests
  BY <1>0, <1>1 DEF ServeRequest
<1>4. session = wsRequest[t].session /\ session \in Sessions /\ ~IsExpired(session)
  BY <1>2, <1>3 DEF GetDashboardSession, Requests
<1>5. /\ wsRequest'[t].subject = GetSelectedDashboardProject(session)
      /\ GetSelectedDashboardProject(session) # NoWs
      /\ wsRequest'[t].session = session
  BY <1>0, <1>2, <1>3, <1>4, ZenonT(60) DEF RequireSelectedProject, CheckProjectContext, Requests
<1>6. /\ wsRequest'[t].subject \in Projects
      /\ wsOwner[wsRequest'[t].subject] = session.user
  BY <1>5 DEF GetSelectedDashboardProject, GetDashboardProjectForUser
<1>7. wsNow < session.created + WsTtl
  <2>1. session.expires = session.created + WsTtl
    BY <1>2, <1>3, <1>4 DEF WorkspacesInv, SessionsLast, LastsItsTime
  <2>2. ~(session.expires <= wsNow) /\ session.expires \in Nat /\ wsNow \in Nat
    BY <1>4, WsTimeAssumption DEF IsExpired, Sessions, WorkspacesInv, WorkspacesTypeOK
  <2>3. QED
    BY <2>1, <2>2
<1>8. QED
  BY <1>5, <1>6, <1>7

\* Core is used only for a project that the user of the request owns, and
\* only while the session lasts, whatever tabs sign in, select and delete in
\* between (lib/session, lib/projects).
THEOREM OnlyEntitledRequests == WorkspacesSpec => RequestsAreEntitled
<1>1. WorkspacesSpec => []WorkspacesInv
  BY WorkspacesInitInv, WorkspacesStepInv, PTL DEF WorkspacesSpec
<1>2. WorkspacesInv /\ [WorkspacesNext]_wsVars => [RequestIsEntitled]_wsVars
  BY WorkspacesStepEntitled
<1>3. QED
  BY <1>1, <1>2, PTL DEF WorkspacesSpec, RequestsAreEntitled, RequestIsEntitled

(***************************************************************************)
(* DocumentEditor: two tabs over one document.                             *)
(***************************************************************************)
\* What is left when one element is taken out.
LEMMA OneRemoved ==
  ASSUME NEW S, NEW s \in Seq(S), NEW k \in DOMAIN s
  PROVE  /\ SubSeq(s, 1, k - 1) \o SubSeq(s, k + 1, Len(s)) \in Seq(S)
         /\ Len(SubSeq(s, 1, k - 1) \o SubSeq(s, k + 1, Len(s))) <= Len(s)
<1>1. Len(s) \in Nat /\ k \in 1..Len(s) /\ s \in [1..Len(s) -> S]
  BY LenProperties
<1>2. /\ SubSeq(s, 1, k - 1) \in Seq(S)
      /\ Len(SubSeq(s, 1, k - 1)) = k - 1
  <2>1. \A i \in 1..(k - 1) : s[i] \in S
    BY <1>1
  <2>2. k - 1 \in Int /\ 1 \in Int
    BY <1>1
  <2>3. /\ SubSeq(s, 1, k - 1) \in Seq(S)
        /\ Len(SubSeq(s, 1, k - 1)) = IF 1 <= k - 1 THEN k - 1 - 1 + 1 ELSE 0
    BY <2>1, <2>2, SubSeqProperties
  <2>4. QED
    BY <1>1, <2>3
<1>3. /\ SubSeq(s, k + 1, Len(s)) \in Seq(S)
      /\ Len(SubSeq(s, k + 1, Len(s))) = Len(s) - k
  <2>1. \A i \in (k + 1)..Len(s) : s[i] \in S
    BY <1>1
  <2>2. k + 1 \in Int /\ Len(s) \in Int
    BY <1>1
  <2>3. /\ SubSeq(s, k + 1, Len(s)) \in Seq(S)
        /\ Len(SubSeq(s, k + 1, Len(s))) = IF k + 1 <= Len(s) THEN Len(s) - (k + 1) + 1 ELSE 0
    BY <2>1, <2>2, SubSeqProperties
  <2>4. QED
    BY <1>1, <2>3
<1>4. QED
  BY <1>1, <1>2, <1>3, ConcatProperties

LEMMA FieldListsAreBounded ==
  \A s : s \in FieldLists <=> s \in Seq(Fields) /\ Len(s) <= MaxFields
  BY BoundedLists, EditorAssumption DEF FieldLists

\* A list of fields that makes a document, and the document it makes.
LEMMA DocumentOf ==
  ASSUME NEW fields \in FieldLists, FieldsToDocument(fields) # Refused
  PROVE  /\ FieldsToDocument(fields) =
              [k \in DOMAIN fields |-> [name |-> fields[k].name, type |-> fields[k].type,
                                        value |-> ParseFieldValue(fields[k])]]
         /\ \A k \in DOMAIN fields :
              fields[k] \in Fields /\ fields[k].name # EmptyName /\ Parses(fields[k])
         /\ \A k, l \in DOMAIN fields : fields[k].name = fields[l].name => k = l
         /\ FieldsToDocument(fields) \in Documents
<1>1. \A k \in DOMAIN fields : fields[k] \in Fields
  BY DEF FieldLists
<1>2. QED
  BY <1>1 DEF FieldsToDocument, Documents

\* A field that parses is written as one that parses to the same.
LEMMA FieldRoundTrip ==
  ASSUME NEW field \in Fields, Parses(field), NEW written,
         written = [name |-> field.name, type |-> field.type, text |-> ParseFieldValue(field)]
  PROVE  written \in Fields /\ Parses(written) /\ ParseFieldValue(written) = ParseFieldValue(field)
  BY EditorAssumption DEF Fields, FieldTypes, Parses, ParseFieldValue

\* A document that is opened in the fields is read back as it was.
LEMMA DocumentRoundTrip ==
  ASSUME NEW document \in Documents
  PROVE  /\ DocumentToFields(document) \in FieldLists
         /\ FieldsToDocument(DocumentToFields(document)) = document
         /\ document \notin {Refused, Broken}
<1>1. PICK fields \in FieldLists : document = FieldsToDocument(fields) /\ document # Refused
  BY DEF Documents
<1>2. PICK n \in 0..MaxFields : fields \in [1..n -> Fields]
  BY DEF FieldLists
<1> DEFINE entry(k) == [name |-> fields[k].name, type |-> fields[k].type,
                        value |-> ParseFieldValue(fields[k])]
           written(k) == [name |-> fields[k].name, type |-> fields[k].type,
                          text |-> ParseFieldValue(fields[k])]
<1>3. /\ document = [k \in 1..n |-> entry(k)]
      /\ \A k \in 1..n :
           fields[k] \in Fields /\ fields[k].name # EmptyName /\ Parses(fields[k])
      /\ \A k, l \in 1..n : fields[k].name = fields[l].name => k = l
  BY <1>1, <1>2, DocumentOf
<1>4. DocumentToFields(document) = [k \in 1..n |-> written(k)]
  BY <1>3 DEF DocumentToFields, SerializeFieldValue
<1>5. \A k \in 1..n : written(k) \in Fields /\ Parses(written(k))
                      /\ ParseFieldValue(written(k)) = ParseFieldValue(fields[k])
  BY <1>3, FieldRoundTrip
<1>6. DocumentToFields(document) \in FieldLists
  BY <1>2, <1>4, <1>5 DEF FieldLists
<1>7. FieldsToDocument(DocumentToFields(document)) = document
  <2> DEFINE again == DocumentToFields(document)
  <2>1. DOMAIN again = 1..n /\ \A k \in 1..n : again[k] = written(k)
    BY <1>4
  <2>2. \A k \in 1..n : again[k].name = fields[k].name /\ again[k].type = fields[k].type
    BY <2>1
  <2>3. \A k \in 1..n : Parses(again[k]) /\ ParseFieldValue(again[k]) = ParseFieldValue(fields[k])
    BY <1>5, <2>1
  <2> HIDE DEF again
  <2>4. FieldsToDocument(again) =
          [k \in 1..n |-> [name |-> again[k].name, type |-> again[k].type,
                           value |-> ParseFieldValue(again[k])]]
    BY <1>3, <2>1, <2>2, <2>3, ZenonT(60) DEF FieldsToDocument
  <2>5. [k \in 1..n |-> [name |-> again[k].name, type |-> again[k].type,
                         value |-> ParseFieldValue(again[k])]]
        = [k \in 1..n |-> entry(k)]
    BY <2>2, <2>3
  <2>6. QED
    BY <1>3, <2>4, <2>5 DEF again
<1>8. document # Broken
  <2>1. SUFFICES ASSUME document = Broken PROVE FALSE
    OBVIOUS
  <2>2. DOMAIN Broken = 1..1 /\ Broken[1].name = EmptyName
    <3>1. \A e : DOMAIN <<e>> = 1..1 /\ <<e>>[1] = e
      OBVIOUS
    <3>2. QED
      BY <3>1 DEF Broken
  <2>3. 1 \in 1..n
    <3>1. DOMAIN document = 1..n
      BY <1>3
    <3>2. QED
      BY <2>1, <2>2, <3>1
  <2>4. document[1].name = fields[1].name
    BY <1>3, <2>3
  <2>5. QED
    BY <1>3, <2>1, <2>2, <2>3, <2>4
<1>9. QED
  BY <1>1, <1>6, <1>7, <1>8

LEMMA RefusedIsNotBroken == Refused # Broken
  BY DEF Refused, Broken

\* The error says that the open tab holds no document; without one the tabs
\* agree; and only a panel that was changed shows one.
EditorInv ==
  /\ EditorTypeOK
  /\ editError <=> SavedDocument \in {Refused, Broken}
  /\ ~editError => editJson = SavedDocument /\ FieldsToDocument(editFields) = SavedDocument
  /\ ~editDirty => ~editError

LEMMA EditorInitInv == EditorInit => EditorInv
  BY DocumentRoundTrip DEF EditorInit, EditorInv, EditorTypeOK, SavedDocument

\* Whatever list of fields is put in, the error and the text follow it.
LEMMA SyncInv ==
  ASSUME EditorInv, editTab = "fields", NEW fields \in FieldLists, SetFieldsAndSync(fields)
  PROVE  EditorInv'
<1> DEFINE document == FieldsToDocument(fields)
<1>1. /\ editFields' = fields /\ editDirty' = TRUE /\ editError' = (document = Refused)
      /\ editJson' = IF document = Refused THEN editJson ELSE document
      /\ editTab' = "fields" /\ editInitial' = editInitial
  BY DEF SetFieldsAndSync
<1>2. SavedDocument' = document
  BY <1>1 DEF SavedDocument
<1>3. document # Refused => document \in Documents /\ document \notin {Refused, Broken}
  BY DocumentOf, DocumentRoundTrip
<1>4. FieldsToDocument(editFields)' = document
  BY <1>1
<1> HIDE DEF document
<1>5. document \in {Refused, Broken} <=> document = Refused
  BY <1>3, RefusedIsNotBroken
<1>6. EditorTypeOK'
  BY <1>1, <1>3 DEF EditorInv, EditorTypeOK
<1>7. QED
  BY <1>1, <1>2, <1>4, <1>5, <1>6 DEF EditorInv

LEMMA EditorStepInv == EditorInv /\ [EditorNext]_editVars => EditorInv'
<1> SUFFICES ASSUME EditorInv, [EditorNext]_editVars PROVE EditorInv'
  OBVIOUS
<1>0. editFields \in Seq(Fields) /\ Len(editFields) <= MaxFields /\ Len(editFields) \in Nat
  BY FieldListsAreBounded, LenProperties DEF EditorInv, EditorTypeOK
<1>1. CASE AddField
  <2>1. PICK name \in EditorNames :
          SetFieldsAndSync(Append(editFields, [name |-> name, type |-> "string", text |-> EmptyName]))
    BY <1>1 DEF AddField
  <2> DEFINE field == [name |-> name, type |-> "string", text |-> EmptyName]
  <2>2. field \in Fields
    BY DEF Fields, FieldTypes
  <2> HIDE DEF field
  <2>3. Append(editFields, field) \in Seq(Fields) /\ Len(Append(editFields, field)) <= MaxFields
    BY <1>0, <1>1, <2>2, AppendProperties, EditorAssumption DEF AddField
  <2>4. Append(editFields, field) \in FieldLists
    BY <2>3, FieldListsAreBounded
  <2>5. QED
    BY <1>1, <2>1, <2>4, SyncInv DEF AddField, field
<1>2. CASE EditFields
  <2>1. PICK k \in DOMAIN editFields : UpdateField(k) \/ RemoveField(k)
    BY <1>2 DEF EditFields
  <2>2. k \in 1..Len(editFields)
    BY <1>0, LenProperties
  <2>3. CASE UpdateField(k)
    <3>1. PICK field \in Fields : SetFieldsAndSync([editFields EXCEPT ![k] = field])
      BY <2>3 DEF UpdateField
    <3>2. [editFields EXCEPT ![k] = field] \in FieldLists
      BY <1>0, <2>2, ExceptSeq, FieldListsAreBounded
    <3>3. QED
      BY <1>2, <3>1, <3>2, SyncInv DEF EditFields
  <2>4. CASE RemoveField(k)
    <3> DEFINE left == SubSeq(editFields, 1, k - 1) \o SubSeq(editFields, k + 1, Len(editFields))
    <3>1. left \in Seq(Fields) /\ Len(left) <= Len(editFields) /\ Len(left) \in Nat
      BY <1>0, OneRemoved, LenProperties
    <3>2. SetFieldsAndSync(left)
      BY <2>4 DEF RemoveField
    <3> HIDE DEF left
    <3>3. left \in FieldLists
      BY <1>0, <3>1, FieldListsAreBounded, EditorAssumption
    <3>4. QED
      BY <1>2, <3>2, <3>3, SyncInv DEF EditFields
  <2>5. QED
    BY <2>1, <2>3, <2>4
<1>3. CASE HandleJsonChange
  BY <1>3, DocumentRoundTrip, RefusedIsNotBroken
     DEF HandleJsonChange, EditorInv, EditorTypeOK, SavedDocument
<1>4. CASE SwitchToJson
  BY <1>4, DocumentOf, DocumentRoundTrip, RefusedIsNotBroken
     DEF SwitchToJson, EditorInv, EditorTypeOK, SavedDocument
<1>5. CASE SwitchToFields
  BY <1>5, DocumentRoundTrip, RefusedIsNotBroken
     DEF SwitchToFields, EditorInv, EditorTypeOK, SavedDocument
<1>6. CASE UNCHANGED editVars
  BY <1>6 DEF editVars, EditorInv, EditorTypeOK, SavedDocument
<1>7. QED
  BY <1>1, <1>2, <1>3, <1>4, <1>5, <1>6 DEF EditorNext

LEMMA EditorInvIsHonest == EditorInv => EditorTypeOK /\ EditorIsHonest
  BY DEF EditorInv, EditorTypeOK, EditorIsHonest, HasUnsavedChanges

\* However many fields are added, renamed, retyped and removed, and whichever
\* tab a text is broken and mended in, the panel shows an error exactly while
\* nothing can be saved, and both tabs hold what would be (document-editor.ts,
\* DocumentEditorPanel.tsx).
THEOREM EditorStaysHonest == EditorSpec => []EditorTypeOK /\ []EditorIsHonest
  BY EditorInitInv, EditorStepInv, EditorInvIsHonest, PTL DEF EditorSpec

(***************************************************************************)
(* SchemasPage: two tabs over one schema.                                  *)
(***************************************************************************)
\* A save or a validation was sent from a screen without an error, and until
\* it is answered the screen has a text that the builder shows.
CallsAreOfGoodTexts ==
  schCall # NoSchema /\ schCall.kind \in {"validate", "save"} =>
    /\ schText # BrokenSchema
    /\ schFields = SchemaToFields(schText)

SchemasInv == SchemasTypeOK /\ BuilderShowsTheText /\ CallsAreOfGoodTexts

LEMMA BuilderListsAreBounded ==
  \A s : s \in BuilderLists <=> s \in Seq(SchNames \cup {SchEmpty}) /\ Len(s) <= MaxSchFields
  BY BoundedLists, SchemasAssumption DEF BuilderLists

\* The text of a schema is what the builder can show, and is not broken.
LEMMA SchemaTexts ==
  /\ \A text \in Schemas : text.fields \in BuilderLists /\ text # BrokenSchema
  /\ EmptySchema \in Schemas
<1>1. ASSUME NEW text \in Schemas PROVE text.fields \in BuilderLists /\ text # BrokenSchema
  <2>1. PICK n \in 0..MaxSchFields : text.fields \in [1..n -> SchNames]
    BY DEF Schemas, FieldNames
  <2>2. text.fields \in BuilderLists
    BY <2>1 DEF BuilderLists
  <2>3. text.fields # <<SchEmpty>>
    <3>1. SUFFICES ASSUME text.fields = <<SchEmpty>> PROVE FALSE
      OBVIOUS
    <3>2. DOMAIN text.fields = 1..n /\ DOMAIN <<SchEmpty>> = 1..1 /\ <<SchEmpty>>[1] = SchEmpty
      BY <2>1
    <3>3. 1 \in 1..n
      BY <3>1, <3>2
    <3>4. text.fields[1] \in SchNames
      BY <2>1, <3>3
    <3>5. QED
      BY <3>1, <3>2, <3>4, SchemasAssumption
  <2>4. QED
    BY <2>2, <2>3 DEF BrokenSchema
<1>2. EmptySchema \in Schemas
  <2>1. <<>> \in [1..0 -> SchNames] /\ IsInjective(<<>>)
    BY DEF IsInjective
  <2>2. <<>> \in FieldNames
    BY <2>1, SchemasAssumption DEF FieldNames
  <2>3. QED
    BY <2>1, <2>2 DEF EmptySchema, Schemas
<1>3. QED
  BY <1>1, <1>2

\* What the builder writes is a schema of its fields, or broken.
LEMMA BuilderWrites ==
  ASSUME NEW fields \in BuilderLists, FieldsToSchemaText(fields) # BrokenSchema
  PROVE  FieldsToSchemaText(fields) \in Schemas /\ FieldsToSchemaText(fields).fields = fields
<1>1. /\ FieldsToSchemaText(fields) = [fields |-> fields, more |-> FALSE]
      /\ IsInjective(fields) /\ SchEmpty \notin ToSet(fields)
  BY DEF FieldsToSchemaText
<1>2. PICK n \in 0..MaxSchFields : fields \in [1..n -> SchNames \cup {SchEmpty}]
  BY DEF BuilderLists
<1>3. fields \in [1..n -> SchNames]
  BY <1>1, <1>2 DEF ToSet
<1>4. fields \in FieldNames
  BY <1>3 DEF FieldNames
<1>5. QED
  BY <1>1, <1>4 DEF Schemas

LEMMA TextIsASchema ==
  ASSUME NEW schema \in Schemas \cup {NoSchema}
  PROVE  Text(schema) \in Schemas
  BY SchemaTexts DEF Text

LEMMA SchemasInitInv == SchemasInit => SchemasInv
<1> SUFFICES ASSUME SchemasInit PROVE SchemasInv
  OBVIOUS
<1>1. schProp \in Schemas \cup {NoSchema} /\ schText = Text(schProp)
  BY DEF SchemasInit
<1>2. schText \in Schemas /\ schText.fields \in BuilderLists /\ schText # BrokenSchema
  BY <1>1, TextIsASchema, SchemaTexts
<1>3. QED
  BY <1>2 DEF SchemasInit, SchemasInv, SchemasTypeOK, BuilderShowsTheText, CallsAreOfGoodTexts,
              SchemaToFields

\* The error follows the list that the builder is given; a call that is under
\* way has seen a text of the same fields.
LEMMA SyncSchemaInv ==
  ASSUME SchemasInv, NEW fields \in BuilderLists, SyncSchemaModel(fields),
         fields = schFields \/ schCall = NoSchema,
         UNCHANGED <<schCore, schPageVars, schSaved, schDeleting, schCall>>
  PROVE  SchemasInv'
<1> DEFINE text == FieldsToSchemaText(fields)
<1>1. /\ schFields' = fields /\ schError' = (text = BrokenSchema) /\ schTab' = schTab
      /\ schText' = IF text = BrokenSchema THEN schText ELSE text
  BY DEF SyncSchemaModel
<1>2. text # BrokenSchema => text \in Schemas /\ text.fields = fields
  BY BuilderWrites
<1> HIDE DEF text
<1> USE DEF SchemasInv, SchemasTypeOK, BuilderShowsTheText, CallsAreOfGoodTexts, SchemaToFields,
            schPageVars
<1>3. SchemasTypeOK'
  BY <1>1, <1>2
<1>4. BuilderShowsTheText'
  BY <1>1, <1>2
<1>5. CallsAreOfGoodTexts'
  BY <1>1, <1>2
<1>6. QED
  BY <1>3, <1>4, <1>5

LEMMA BuilderInv ==
  ASSUME SchemasInv, UseBuilder, UNCHANGED <<schCore, schPageVars, schSaved, schDeleting, schCall>>
  PROVE  SchemasInv'
<1> DEFINE Names == SchNames \cup {SchEmpty}
<1>0. /\ schFields \in BuilderLists /\ schFields \in Seq(Names)
      /\ Len(schFields) <= MaxSchFields /\ Len(schFields) \in Nat
  BY BuilderListsAreBounded, LenProperties DEF SchemasInv, SchemasTypeOK
<1>1. CASE ToggleAllowExtra
  BY <1>0, <1>1, SyncSchemaInv DEF ToggleAllowExtra
<1>2. CASE CanEditSchema /\ AddSchemaField
  <2>1. PICK name \in SchNames : SyncSchemaModel(Append(schFields, name))
    BY <1>2 DEF AddSchemaField
  <2>2. Append(schFields, name) \in Seq(Names) /\ Len(Append(schFields, name)) <= MaxSchFields
    BY <1>0, <1>2, AppendProperties, SchemasAssumption DEF AddSchemaField
  <2>3. QED
    BY <1>2, <2>1, <2>2, BuilderListsAreBounded, SyncSchemaInv DEF CanEditSchema
<1>3. CASE CanEditSchema /\ UpdateSchemaField
  <2>1. PICK k \in DOMAIN schFields, name \in Names : SyncSchemaModel([schFields EXCEPT ![k] = name])
    BY <1>3 DEF UpdateSchemaField
  <2>2. k \in 1..Len(schFields)
    BY <1>0, LenProperties
  <2>3. [schFields EXCEPT ![k] = name] \in BuilderLists
    BY <1>0, <2>2, ExceptSeq, BuilderListsAreBounded
  <2>4. QED
    BY <1>3, <2>1, <2>3, SyncSchemaInv DEF CanEditSchema
<1>4. CASE CanEditSchema /\ DeleteSchemaField
  <2>1. PICK k \in DOMAIN schFields : SyncSchemaModel(RemoveAt(schFields, k))
    BY <1>4 DEF DeleteSchemaField
  <2>2. RemoveAt(schFields, k) \in Seq(Names) /\ Len(RemoveAt(schFields, k)) <= Len(schFields)
    BY <1>0, OneRemoved DEF RemoveAt
  <2>3. Len(RemoveAt(schFields, k)) \in Nat
    BY <2>2, LenProperties
  <2>4. RemoveAt(schFields, k) \in BuilderLists
    BY <1>0, <2>2, <2>3, BuilderListsAreBounded, SchemasAssumption
  <2>5. QED
    BY <1>4, <2>1, <2>4, SyncSchemaInv DEF CanEditSchema
<1>5. QED
  BY <1>1, <1>2, <1>3, <1>4 DEF UseBuilder

\* The text tab, and the way from one tab to the other.
LEMMA SchemaTextInv ==
  ASSUME SchemasInv, HandleSchemaChange \/ HandleSchemaTabChange,
         UNCHANGED <<schCore, schPageVars, schSaved, schDeleting, schCall>>
  PROVE  SchemasInv'
<1> USE DEF SchemasInv, SchemasTypeOK, BuilderShowsTheText, CallsAreOfGoodTexts, SchemaToFields,
            schPageVars
<1>1. CASE HandleSchemaChange
  BY <1>1, SchemaTexts DEF HandleSchemaChange, CanEditSchema
<1>2. CASE HandleSchemaTabChange
  <2>1. FieldsToSchemaText(schFields) # BrokenSchema =>
          /\ FieldsToSchemaText(schFields) \in Schemas
          /\ FieldsToSchemaText(schFields).fields = schFields
    BY BuilderWrites
  <2>2. QED
    BY <1>2, <2>1 DEF HandleSchemaTabChange
<1>3. QED
  BY <1>1, <1>2

\* What is sent is the open tab, which no error is about.
LEMMA SendSchemaInv ==
  ASSUME SchemasInv, NEW kind \in {"validate", "save"}, SendSchema(kind),
         UNCHANGED <<schCore, schPageVars, schSaved>>
  PROVE  SchemasInv'
<1> USE DEF SchemasInv, SchemasTypeOK, BuilderShowsTheText, CallsAreOfGoodTexts, SchemaToFields,
            schPageVars
<1>1. CurrentSchemaText # BrokenSchema =>
        CurrentSchemaText \in Schemas /\ CurrentSchemaText.fields = schFields
  BY BuilderWrites DEF CurrentSchemaText, SendSchema
<1>2. CASE CurrentSchemaText = BrokenSchema
  BY <1>2 DEF SendSchema, CanEditSchema
<1>3. CASE CurrentSchemaText # BrokenSchema
  BY <1>1, <1>3 DEF SendSchema
<1>4. QED
  BY <1>2, <1>3

LEMMA SchemaButtonsInv == SchemasInv /\ UseSchemaButtons => SchemasInv'
<1> SUFFICES ASSUME SchemasInv, UseSchemaButtons PROVE SchemasInv'
  OBVIOUS
<1> USE DEF SchemasInv, SchemasTypeOK, BuilderShowsTheText, CallsAreOfGoodTexts, SchemaToFields,
            schPageVars, schDraftVars
<1>1. ASSUME NEW kind \in {"validate", "save"}, SendSchema(kind) PROVE SchemasInv'
  BY <1>1, SendSchemaInv DEF UseSchemaButtons
<1>2. CASE AskToDeleteSchema
  BY <1>2 DEF UseSchemaButtons, AskToDeleteSchema
<1>3. CASE CancelDeleteSchema
  BY <1>3 DEF UseSchemaButtons, CancelDeleteSchema
<1>4. CASE ConfirmDeleteSchema
  BY <1>4, SchemaTexts DEF UseSchemaButtons, ConfirmDeleteSchema
<1>5. QED
  BY <1>1, <1>2, <1>3, <1>4 DEF UseSchemaButtons

LEMMA RunSchemaInv == SchemasInv /\ RunSchemaAction => SchemasInv'
<1> SUFFICES ASSUME SchemasInv, RunSchemaAction PROVE SchemasInv'
  OBVIOUS
<1> USE DEF SchemasInv, SchemasTypeOK, BuilderShowsTheText, CallsAreOfGoodTexts, SchemaToFields,
            schPageVars, schDraftVars
<1>1. PICK result \in {"success", "error"} : schCall' = [schCall EXCEPT !.result = result]
  BY DEF RunSchemaAction
<1>2. schCall \in [kind : {"validate", "save", "delete"}, collection : SchCollections,
                   schema : Schemas, result : {"sent", "success", "error"}]
  BY DEF RunSchemaAction
<1>3. schCore' \in [SchCollections -> Schemas \cup {NoSchema}]
  BY <1>2 DEF RunSchemaAction, SetSchema
<1>4. schCall' \in [kind : {"validate", "save", "delete"}, collection : SchCollections,
                    schema : Schemas, result : {"sent", "success", "error"}]
      /\ schCall'.kind = schCall.kind
  BY <1>1, <1>2
<1>5. UNCHANGED <<schPageVars, schDraftVars, schSaved, schDeleting>>
  BY DEF RunSchemaAction
<1>6. schCall # NoSchema
  BY DEF RunSchemaAction
<1>7. QED
  BY <1>3, <1>4, <1>5, <1>6

LEMMA AnswerSchemaInv == SchemasInv /\ AnswerSchemaAction => SchemasInv'
<1> SUFFICES ASSUME SchemasInv, AnswerSchemaAction PROVE SchemasInv'
  OBVIOUS
<1> USE DEF SchemasInv, SchemasTypeOK, BuilderShowsTheText, CallsAreOfGoodTexts, SchemaToFields,
            schPageVars, schDraftVars
<1>1. CASE schCall.kind = "validate"
  BY <1>1 DEF AnswerSchemaAction, AnswerValidate
<1>2. CASE schCall.kind = "save"
  BY <1>2 DEF AnswerSchemaAction, AnswerSaveSchema
<1>3. CASE schCall.kind = "delete"
  BY <1>3, SchemaTexts DEF AnswerSchemaAction, AnswerDeleteSchema
<1>4. QED
  BY <1>1, <1>2, <1>3 DEF AnswerSchemaAction

\* A page that is the same leaves the draft, with whatever call is under way.
LEMMA LoadSchemaInv ==
  ASSUME SchemasInv, NEW c \in SchCollections, NEW failed \in BOOLEAN, LoadSchemaPage(c, failed)
  PROVE  SchemasInv'
<1> USE DEF SchemasInv, SchemasTypeOK, BuilderShowsTheText, CallsAreOfGoodTexts, SchemaToFields,
            schPageVars, schDraftVars
<1>1. schProp' \in Schemas \cup {NoSchema}
  BY DEF LoadSchemaPage, GetProjectSchema
<1>2. Text(schProp') \in Schemas
  BY <1>1, TextIsASchema
<1>3. Text(schProp').fields \in BuilderLists /\ Text(schProp') # BrokenSchema
  BY <1>2, SchemaTexts
<1>4. CASE schShown' = schShown /\ schProp' = schProp
  BY <1>4 DEF LoadSchemaPage
<1>5. CASE ~(schShown' = schShown /\ schProp' = schProp)
  BY <1>1, <1>2, <1>3, <1>5 DEF LoadSchemaPage
<1>6. QED
  BY <1>4, <1>5

LEMMA SchemasStepInv == SchemasInv /\ [SchemasNext]_schVars => SchemasInv'
<1> SUFFICES ASSUME SchemasInv, [SchemasNext]_schVars PROVE SchemasInv'
  OBVIOUS
<1>1. CASE EditSchema
  BY <1>1, BuilderInv, SchemaTextInv DEF EditSchema
<1>2. CASE OtherSetsSchema
  BY <1>2 DEF OtherSetsSchema, SchemasInv, SchemasTypeOK, BuilderShowsTheText,
              CallsAreOfGoodTexts, schPageVars, schDraftVars
<1>3. CASE UNCHANGED schVars
  BY <1>3 DEF schVars, SchemasInv, SchemasTypeOK, BuilderShowsTheText, CallsAreOfGoodTexts,
              schPageVars, schDraftVars
<1>4. QED
  BY <1>1, <1>2, <1>3, SchemaButtonsInv, RunSchemaInv, AnswerSchemaInv, LoadSchemaInv
     DEF SchemasNext

\* Whatever is edited in either tab, deleted, answered late or loaded in
\* between, a builder without an error shows the fields of the text that
\* would be saved (SchemasClient.tsx).
THEOREM BuilderStaysTrue == SchemasSpec => []SchemasTypeOK /\ []BuilderShowsTheText
<1>1. SchemasInv => SchemasTypeOK /\ BuilderShowsTheText
  BY DEF SchemasInv
<1>2. QED
  BY <1>1, SchemasInitInv, SchemasStepInv, PTL DEF SchemasSpec

(***************************************************************************)
(* LiveDocuments: the collection is the number of its writes, which the    *)
(* writes of all clients together bound.                                   *)
(***************************************************************************)

\* A collection that exists has seen no more writes than there were.
LiveInv ==
  /\ LiveTypeOK
  /\ \A c \in LiveCollections : liveCore[c] \in 0..liveWrites \cup {NoLive}

LEMMA LiveInitInv == LiveInit => LiveInv
<1> SUFFICES ASSUME LiveInit PROVE LiveInv
  OBVIOUS
<1> USE DEF LiveInit
<1>1. 0 \in 0..MaxLiveWrites /\ 0 \in 0..liveWrites
  BY LiveAssumption
<1>2. /\ liveCore \in [LiveCollections -> 0..MaxLiveWrites \cup {NoLive}]
      /\ \A c \in LiveCollections : liveCore[c] \in 0..liveWrites \cup {NoLive}
  BY <1>1
<1>3. /\ {liveError, liveWanted, liveReplay, liveEvent, liveTimer, liveMissed} \subseteq BOOLEAN
      /\ liveSource \in {"new", "known", "refused"}
  OBVIOUS
<1>4. QED
  BY <1>1, <1>2, <1>3 DEF LiveInv, LiveTypeOK

LEMMA ReadDocumentsInv == LiveInv /\ ReadDocuments => LiveInv'
<1> SUFFICES ASSUME LiveInv, ReadDocuments PROVE LiveInv'
  OBVIOUS
<1> USE DEF LiveInv, LiveTypeOK, liveScreenVars, liveStreamVars
<1>1. PICK c \in SelectedCollections, failed \in BOOLEAN :
        liveLoad' = [collection |-> c, failed |-> failed,
                     rows |-> IF c = NoLive \/ failed THEN NoLive ELSE liveCore[c]]
  BY DEF ReadDocuments
<1>2. c \in LiveCollections \cup {NoLive}
  BY DEF SelectedCollections, Existing
<1>3. PICK rows : /\ rows = IF c = NoLive \/ failed THEN NoLive ELSE liveCore[c]
                  /\ rows \in 0..MaxLiveWrites \cup {NoLive}
  BY <1>2
<1>4. liveLoad' \in [collection : LiveCollections \cup {NoLive}, failed : BOOLEAN,
                     rows : 0..MaxLiveWrites \cup {NoLive}]
  BY <1>1, <1>2, <1>3
<1>5. QED
  BY <1>4 DEF ReadDocuments

\* A write makes one more of both; the collection that is gone has none.
LEMMA LiveWritesInv ==
  ASSUME LiveInv, NEW c \in LiveCollections, WriteDocuments(c) \/ DropCollection(c)
  PROVE  LiveInv'
<1> USE DEF LiveInv, LiveTypeOK, liveScreenVars, Change, Existing
<1>1. /\ liveWrites \in 0..MaxLiveWrites /\ liveWrites < MaxLiveWrites
      /\ liveWrites' = liveWrites + 1 /\ MaxLiveWrites \in Nat
  BY LiveAssumption DEF WriteDocuments, DropCollection
<1>2. PICK writes \in 0..liveWrites' \cup {NoLive} : liveCore' = [liveCore EXCEPT ![c] = writes]
  <2>1. CASE WriteDocuments(c)
    <3>1. liveCore[c] \in 0..liveWrites
      BY <2>1 DEF WriteDocuments
    <3>2. liveCore[c] + 1 \in 0..liveWrites'
      BY <1>1, <3>1
    <3>3. QED
      BY <2>1, <3>2 DEF WriteDocuments
  <2>2. CASE DropCollection(c)
    BY <2>2 DEF DropCollection
  <2>3. QED
    BY <2>1, <2>2
<1>3. liveWrites' \in 0..MaxLiveWrites /\ 0..liveWrites' \subseteq 0..MaxLiveWrites
      /\ 0..liveWrites \subseteq 0..liveWrites'
  BY <1>1
<1>4. /\ liveCore' \in [LiveCollections -> 0..MaxLiveWrites \cup {NoLive}]
      /\ \A d \in LiveCollections : liveCore'[d] \in 0..liveWrites' \cup {NoLive}
  BY <1>2, <1>3
<1>5. liveEvent' \in BOOLEAN /\ liveReplay' \in BOOLEAN /\ liveMissed' \in BOOLEAN
  BY DEF WriteDocuments, DropCollection
<1>6. UNCHANGED <<liveUrl, liveShown, liveRows, liveError, liveWanted, liveLoad, liveStream,
                  liveSource, liveTimer>>
  BY DEF WriteDocuments, DropCollection
<1>7. QED
  BY <1>3, <1>4, <1>5, <1>6

LEMMA LiveStepInv == LiveInv /\ [LiveNext]_liveVars => LiveInv'
<1> SUFFICES ASSUME LiveInv, [LiveNext]_liveVars PROVE LiveInv'
  OBVIOUS
<1>1. CASE \E c \in LiveCollections : WriteDocuments(c) \/ DropCollection(c)
  BY <1>1, LiveWritesInv
<1>2. CASE ReadDocuments
  BY <1>2, ReadDocumentsInv
<1> USE DEF LiveInv, LiveTypeOK, liveScreenVars, liveStreamVars
<1>3. CASE \/ \E c \in LiveCollections : ChooseCollection(c)
           \/ SubmitSearch \/ TurnPage
  BY <1>3 DEF ChooseCollection, SubmitSearch, TurnPage, BuildHref
<1>4. CASE RefreshDocuments \/ OwnActionEnds
  BY <1>4 DEF RefreshDocuments, OwnActionEnds
<1>5. CASE ArriveDocuments
  BY <1>5 DEF ArriveDocuments
<1>6. CASE OpenStream \/ ThrottledRefresh \/ TimerFires
  BY <1>6 DEF OpenStream, ThrottledRefresh, TimerFires, Connecting
<1>9. CASE LiveStreamIsRefused \/ LiveStreamBreaks
  BY <1>9 DEF LiveStreamIsRefused, LiveStreamBreaks
<1>7. CASE UNCHANGED liveVars
  BY <1>7 DEF liveVars
<1>8. QED
  BY <1>1, <1>2, <1>3, <1>4, <1>5, <1>6, <1>7, <1>9 DEF LiveNext

(***************************************************************************)
(* CollectionsPage.                                                        *)
(***************************************************************************)

ColCreations ==
  [kind : {"create"}, name : ColNames, result : {"sent", "created", "exists", "failed"}]
ColDeletions ==
  [kind : {"delete"}, results : UNION {[names -> {"sent", "deleted", "missing", "failed"}] :
                                       names \in SUBSET ColNames}]

LEMMA CollectionsInitInv == CollectionsInit => CollectionsTypeOK
  BY DEF CollectionsInit, CollectionsTypeOK

\* What a call of the list of collections is, by its kind.
LEMMA ColCallKinds ==
  ASSUME CollectionsTypeOK, colCall # NoCol
  PROVE  /\ colCall.kind = "create" => colCall \in ColCreations
         /\ colCall.kind = "delete" =>
              /\ colCall \in ColDeletions
              /\ DOMAIN colCall.results \subseteq ColNames
              /\ colCall.results \in
                   [DOMAIN colCall.results -> {"sent", "deleted", "missing", "failed"}]
  BY DEF CollectionsTypeOK, ColCreations, ColDeletions

LEMMA ColCallTyped ==
  ASSUME CollectionsTypeOK, colCore' \in SUBSET ColNames,
         colCall' \in {NoCol} \cup ColCreations \cup ColDeletions,
         UNCHANGED <<colListVars, colWidgetVars>>
  PROVE  CollectionsTypeOK'
  BY DEF CollectionsTypeOK, ColCreations, ColDeletions, colListVars, colWidgetVars

LEMMA SendCollectionInv == CollectionsTypeOK /\ SendCollectionAction => CollectionsTypeOK'
<1> SUFFICES ASSUME CollectionsTypeOK, SendCollectionAction PROVE CollectionsTypeOK'
  OBVIOUS
<1>1. colCore' \in SUBSET ColNames /\ colTargets \in SUBSET ColNames
  BY DEF CollectionsTypeOK, SendCollectionAction
<1>2. CASE HandleDeleteCollections
  <2>1. [n \in colTargets |-> "sent"] \in [colTargets -> {"sent", "deleted", "missing", "failed"}]
    OBVIOUS
  <2>2. colCall' \in ColDeletions
    BY <1>1, <1>2, <2>1 DEF HandleDeleteCollections, ColDeletions
  <2>3. QED
    BY <1>1, <2>2, ColCallTyped DEF SendCollectionAction
<1>3. ASSUME NEW name \in ColNames, HandleCreateCollection(name) PROVE CollectionsTypeOK'
  <2>1. colCall' \in ColCreations
    BY <1>3 DEF HandleCreateCollection, ColCreations
  <2>2. QED
    BY <1>1, <2>1, ColCallTyped DEF SendCollectionAction
<1>4. QED
  BY <1>2, <1>3 DEF SendCollectionAction

LEMMA RunCollectionInv == CollectionsTypeOK /\ RunCollectionAction => CollectionsTypeOK'
<1> SUFFICES ASSUME CollectionsTypeOK, RunCollectionAction PROVE CollectionsTypeOK'
  OBVIOUS
<1>1. colCall # NoCol /\ colCore \in SUBSET ColNames
  BY DEF CollectionsTypeOK, RunCollectionAction
<1>2. CASE colCall.kind = "create" /\ CreateProjectCollection
  <2>1. colCall \in ColCreations
    BY <1>1, <1>2, ColCallKinds
  <2>2. PICK result \in {"created", "exists", "failed"} :
          colCall' = [colCall EXCEPT !.result = result]
    BY <1>2 DEF CreateProjectCollection
  <2>3. colCall' \in ColCreations
    BY <2>1, <2>2 DEF ColCreations
  <2>4. colCall.name \in ColNames
    BY <2>1 DEF ColCreations
  <2>5. colCore' \in SUBSET ColNames
    BY <1>1, <1>2, <2>4 DEF CreateProjectCollection
  <2>6. QED
    BY <2>3, <2>5, ColCallTyped DEF RunCollectionAction
<1>3. ASSUME colCall.kind = "delete", NEW n \in DOMAIN colCall.results, DeleteProjectCollection(n)
      PROVE  CollectionsTypeOK'
  <2>1. /\ colCall \in ColDeletions /\ n \in ColNames
        /\ colCall.results \in [DOMAIN colCall.results -> {"sent", "deleted", "missing", "failed"}]
        /\ DOMAIN colCall.results \subseteq ColNames
    BY <1>1, <1>3, ColCallKinds
  <2>2. PICK result \in {"deleted", "missing", "failed"} :
          colCall' = [colCall EXCEPT !.results[n] = result]
    BY <1>3 DEF DeleteProjectCollection
  <2>3. PICK names, results : names = DOMAIN colCall.results
                              /\ results = [colCall.results EXCEPT ![n] = result]
    OBVIOUS
  <2>4. names \in SUBSET ColNames /\ results \in [names -> {"sent", "deleted", "missing", "failed"}]
    BY <2>1, <2>3
  <2>5. colCall' = [colCall EXCEPT !.results = results]
    BY <2>2, <2>3
  <2>6. colCall' \in ColDeletions
    BY <2>1, <2>4, <2>5 DEF ColDeletions
  <2>7. colCore' \in SUBSET ColNames
    BY <1>1, <1>3 DEF DeleteProjectCollection
  <2>8. QED
    BY <2>6, <2>7, ColCallTyped DEF RunCollectionAction
<1>4. QED
  BY <1>2, <1>3 DEF RunCollectionAction

LEMMA AnswerCollectionInv == CollectionsTypeOK /\ AnswerCollectionAction => CollectionsTypeOK'
<1> SUFFICES ASSUME CollectionsTypeOK, AnswerCollectionAction PROVE CollectionsTypeOK'
  OBVIOUS
<1> USE DEF colListVars, colWidgetVars
<1>1. colCall # NoCol
  BY DEF AnswerCollectionAction
<1>2. CASE AnswerCreateCollection
  <2>1. colCall.name \in ColNames
    BY <1>1, <1>2, ColCallKinds DEF AnswerCreateCollection, CreateAnswered, ColCreations
  <2>2. QED
    BY <1>2, <2>1 DEF AnswerCreateCollection, AnswerCollectionAction, CollectionsTypeOK
<1>3. CASE AnswerDeleteCollections
  <2>1. DOMAIN colCall.results \subseteq ColNames
    BY <1>1, <1>3, ColCallKinds DEF AnswerDeleteCollections, DeleteAnswered
  <2>2. PICK names \in SUBSET ColNames : names = DOMAIN colCall.results
    BY <2>1
  <2>3. CASE DeleteIsError
    BY <1>3, <2>3 DEF AnswerDeleteCollections, AnswerCollectionAction, CollectionsTypeOK
  <2>4. CASE ~DeleteIsError
    <3>1. /\ colRows' = colRows \ names /\ colTargets' = {}
          /\ colWanted' = TRUE /\ colOwed' = colOwed \cup names
          /\ UNCHANGED <<colError, colCreating>>
      BY <1>3, <2>2, <2>4 DEF AnswerDeleteCollections
    <3>2. colCall' = NoCol /\ UNCHANGED colCore
      BY DEF AnswerCollectionAction
    <3>3. QED
      BY <2>2, <3>1, <3>2 DEF CollectionsTypeOK
  <2>5. QED
    BY <2>3, <2>4
<1>4. QED
  BY <1>2, <1>3 DEF AnswerCollectionAction

LEMMA CollectionsStepInv == CollectionsTypeOK /\ [CollectionsNext]_colVars => CollectionsTypeOK'
<1> SUFFICES ASSUME CollectionsTypeOK, [CollectionsNext]_colVars PROVE CollectionsTypeOK'
  OBVIOUS
<1>1. CASE SendCollectionAction \/ RunCollectionAction \/ AnswerCollectionAction
  BY <1>1, SendCollectionInv, RunCollectionInv, AnswerCollectionInv
<1> USE DEF CollectionsTypeOK, colListVars, colWidgetVars
<1>2. CASE UseCollectionWidgets
  BY <1>2 DEF UseCollectionWidgets, OpenCreateCollection, CloseCreateCollection,
              CancelDeleteCollections, AskToDeleteCollections
<1>3. CASE LoadCollections
  BY <1>3 DEF LoadCollections, ListProjectCollections
<1>4. CASE OthersManageCollections
  BY <1>4 DEF OthersManageCollections
<1>5. CASE UNCHANGED colVars
  BY <1>5 DEF colVars
<1>6. QED
  BY <1>1, <1>2, <1>3, <1>4, <1>5 DEF CollectionsNext


(***************************************************************************)
(* IndexesPage.                                                            *)
(***************************************************************************)

IxCreations ==
  [kind : {"create"}, collection : IxCollections, field : IxFields, async : BOOLEAN,
   built : BOOLEAN, result : {"sent", "failed", "queued", "ready"}]
IxDeletions ==
  [kind : {"delete"}, collection : IxCollections,
   results : UNION {[fields -> {"sent", "deleted", "failed"}] : fields \in SUBSET IxFields}]

LEMMA IndexesInitInv == IndexesInit => IndexesTypeOK
  BY DEF IndexesInit, IndexesTypeOK, ListIndexes

LEMMA IxCallKinds ==
  ASSUME IndexesTypeOK, ixCall # NoIndex
  PROVE  /\ ixCall.kind = "create" => ixCall \in IxCreations
         /\ ixCall.kind = "delete" =>
              /\ ixCall \in IxDeletions
              /\ DOMAIN ixCall.results \subseteq IxFields
              /\ ixCall.results \in [DOMAIN ixCall.results -> {"sent", "deleted", "failed"}]
  BY DEF IndexesTypeOK, IxCreations, IxDeletions

LEMMA IxCallTyped ==
  ASSUME IndexesTypeOK, ixCore' \in [IxCollections \X IxFields -> {NoIndex, "building", "ready"}],
         ixCall' \in {NoIndex} \cup IxCreations \cup IxDeletions,
         UNCHANGED <<ixListVars, ixWidgetVars>>
  PROVE  IndexesTypeOK'
  BY DEF IndexesTypeOK, IxCreations, IxDeletions, ixListVars, ixWidgetVars

\* A build or a removal leaves the indexes of Core well-formed.
LEMMA BuildKeepsIndexes ==
  ASSUME IndexesTypeOK, NEW c \in IxCollections, NEW f \in IxFields,
         NEW state \in {NoIndex, "building", "ready"}, Build(c, f, state)
  PROVE  ixCore' \in [IxCollections \X IxFields -> {NoIndex, "building", "ready"}]
  BY DEF IndexesTypeOK, Build

LEMMA SendIndexInv == IndexesTypeOK /\ SendIndexAction => IndexesTypeOK'
<1> SUFFICES ASSUME IndexesTypeOK, SendIndexAction PROVE IndexesTypeOK'
  OBVIOUS
<1>1. /\ ixCore' \in [IxCollections \X IxFields -> {NoIndex, "building", "ready"}]
      /\ ixTargets \in SUBSET IxFields /\ ixShown \in IxCollections
  BY DEF IndexesTypeOK, SendIndexAction
<1>2. CASE HandleDeleteIndexes
  <2>1. [f \in ixTargets |-> "sent"] \in [ixTargets -> {"sent", "deleted", "failed"}]
    OBVIOUS
  <2>2. ixCall' \in IxDeletions
    BY <1>1, <1>2, <2>1 DEF HandleDeleteIndexes, IxDeletions
  <2>3. QED
    BY <1>1, <2>2, IxCallTyped DEF SendIndexAction
<1>3. ASSUME NEW f \in IxFields, NEW async \in BOOLEAN, HandleCreateIndex(f, async)
      PROVE  IndexesTypeOK'
  <2>1. ixCall' \in IxCreations
    BY <1>1, <1>3 DEF HandleCreateIndex, IxCreations
  <2>2. QED
    BY <1>1, <2>1, IxCallTyped DEF SendIndexAction
<1>4. QED
  BY <1>2, <1>3 DEF SendIndexAction

LEMMA RunIndexInv == IndexesTypeOK /\ RunIndexAction => IndexesTypeOK'
<1> SUFFICES ASSUME IndexesTypeOK, RunIndexAction PROVE IndexesTypeOK'
  OBVIOUS
<1>1. /\ ixCall # NoIndex
      /\ ixCore \in [IxCollections \X IxFields -> {NoIndex, "building", "ready"}]
  BY DEF IndexesTypeOK, RunIndexAction
<1>2. CASE ixCall.kind = "create" /\ CreateProjectIndex
  <2>1. ixCall \in IxCreations
    BY <1>1, <1>2, IxCallKinds
  <2>2. PICK c \in IxCollections, f \in IxFields : c = ixCall.collection /\ f = ixCall.field
    BY <2>1 DEF IxCreations
  <2>3. ixCore[<<c, f>>] \in {NoIndex, "building", "ready"}
    BY <1>1
  <2>4. PICK state \in {NoIndex, "building", "ready"}, result \in {"failed", "queued", "ready"} :
          /\ Build(c, f, state)
          /\ ixCall' = [ixCall EXCEPT !.result = result, !.built = (state = "ready")]
    BY <1>2, <2>2, <2>3 DEF CreateProjectIndex
  <2>5. PICK built \in BOOLEAN : built = (state = "ready")
    OBVIOUS
  <2>6. ixCall' = [ixCall EXCEPT !.result = result, !.built = built]
    BY <2>4, <2>5
  <2>7. ixCall' \in IxCreations
    BY <2>1, <2>6 DEF IxCreations
  <2>8. ixCore' \in [IxCollections \X IxFields -> {NoIndex, "building", "ready"}]
    BY <2>4, BuildKeepsIndexes
  <2>9. QED
    BY <2>7, <2>8, IxCallTyped DEF RunIndexAction
<1>3. ASSUME ixCall.kind = "delete", NEW f \in DOMAIN ixCall.results, DeleteProjectIndex(f)
      PROVE  IndexesTypeOK'
  <2>1. /\ ixCall \in IxDeletions /\ f \in IxFields /\ ixCall.collection \in IxCollections
        /\ ixCall.results \in [DOMAIN ixCall.results -> {"sent", "deleted", "failed"}]
        /\ DOMAIN ixCall.results \subseteq IxFields
    BY <1>1, <1>3, IxCallKinds DEF IxDeletions
  <2>2. PICK result \in {"deleted", "failed"} : ixCall' = [ixCall EXCEPT !.results[f] = result]
    BY <1>3 DEF DeleteProjectIndex
  <2>3. PICK fields, results : fields = DOMAIN ixCall.results
                               /\ results = [ixCall.results EXCEPT ![f] = result]
    OBVIOUS
  <2>4. fields \in SUBSET IxFields /\ results \in [fields -> {"sent", "deleted", "failed"}]
    BY <2>1, <2>3
  <2>5. ixCall' = [ixCall EXCEPT !.results = results]
    BY <2>2, <2>3
  <2>6. ixCall' \in IxDeletions
    BY <2>1, <2>4, <2>5 DEF IxDeletions
  <2>7. Build(ixCall.collection, f, NoIndex) \/ UNCHANGED ixCore
    BY <1>3 DEF DeleteProjectIndex
  <2>8. ixCore' \in [IxCollections \X IxFields -> {NoIndex, "building", "ready"}]
    BY <1>1, <2>1, <2>7, BuildKeepsIndexes
  <2>9. QED
    BY <2>6, <2>8, IxCallTyped DEF RunIndexAction
<1>4. QED
  BY <1>2, <1>3 DEF RunIndexAction

LEMMA AnswerIndexInv == IndexesTypeOK /\ AnswerIndexAction => IndexesTypeOK'
<1> SUFFICES ASSUME IndexesTypeOK, AnswerIndexAction PROVE IndexesTypeOK'
  OBVIOUS
<1> USE DEF ixListVars, ixWidgetVars
<1>1. ixCall # NoIndex /\ ixCall' = NoIndex /\ UNCHANGED ixCore
  BY DEF AnswerIndexAction
<1>2. CASE AnswerCreateIndex
  <2>1. ixCall \in IxCreations
    BY <1>1, <1>2, IxCallKinds DEF AnswerCreateIndex
  <2>2. CASE ixCall.result = "failed"
    BY <1>1, <1>2, <2>2 DEF AnswerCreateIndex, IndexesTypeOK
  <2>3. CASE ixCall.result # "failed"
    <3>1. PICK f \in IxFields, result \in {"queued", "ready"} :
            f = ixCall.field /\ result = ixCall.result
      BY <1>2, <2>1, <2>3 DEF AnswerCreateIndex, IxCreations
    <3>2. /\ ixRows' = [ixRows EXCEPT ![f] = result] /\ ixCreating' = FALSE
          /\ ixWanted' = TRUE /\ ixOwed' = ixOwed \cup {f}
          /\ UNCHANGED <<ixShown, ixError, ixTargets>>
      BY <1>2, <2>3, <3>1 DEF AnswerCreateIndex, UpsertIndex
    <3>3. QED
      BY <1>1, <3>2 DEF IndexesTypeOK
  <2>4. QED
    BY <2>2, <2>3
<1>3. CASE AnswerDeleteIndexes
  <2>1. PICK fields \in SUBSET IxFields : fields = DeletedFields
    BY <1>1, <1>3, IxCallKinds DEF AnswerDeleteIndexes, DeletedFields
  <2>2. CASE DeletedFields = {}
    BY <1>1, <1>3, <2>2 DEF AnswerDeleteIndexes, IndexesTypeOK
  <2>3. CASE DeletedFields # {}
    <3>1. /\ ixRows' = [f \in IxFields |-> IF f \in fields THEN NoIndex ELSE ixRows[f]]
          /\ ixTargets' = {} /\ ixWanted' = TRUE /\ ixOwed' = ixOwed \cup fields
          /\ UNCHANGED <<ixShown, ixError, ixCreating>>
      BY <1>3, <2>1, <2>3 DEF AnswerDeleteIndexes
    <3>2. QED
      BY <1>1, <3>1 DEF IndexesTypeOK
  <2>4. QED
    BY <2>2, <2>3
<1>4. QED
  BY <1>2, <1>3 DEF AnswerIndexAction

\* A build that ends is noted in the call that waits for it.
LEMMA BuildEndsInv ==
  ASSUME IndexesTypeOK, NEW c \in IxCollections, NEW f \in IxFields, BuildIndexEnds(c, f)
  PROVE  IndexesTypeOK'
<1>1. PICK state \in {"ready", NoIndex} :
        /\ Build(c, f, state)
        /\ ixCall' = IF /\ ixCall # NoIndex /\ ixCall.kind = "create"
                        /\ ixCall.collection = c /\ ixCall.field = f
                     THEN [ixCall EXCEPT !.built = ixCall.built \/ state = "ready"] ELSE ixCall
  BY DEF BuildIndexEnds
<1>2. ixCore' \in [IxCollections \X IxFields -> {NoIndex, "building", "ready"}]
  BY <1>1, BuildKeepsIndexes
<1>3. ixCall' \in {NoIndex} \cup IxCreations \cup IxDeletions
  <2>1. CASE ixCall' = ixCall
    BY <2>1 DEF IndexesTypeOK, IxCreations, IxDeletions
  <2>2. CASE /\ ixCall # NoIndex /\ ixCall.kind = "create"
             /\ ixCall' = [ixCall EXCEPT !.built = ixCall.built \/ state = "ready"]
    <3>1. ixCall \in IxCreations
      BY <2>2, IxCallKinds
    <3>2. PICK built \in BOOLEAN : built = (ixCall.built \/ state = "ready")
      OBVIOUS
    <3>3. ixCall' = [ixCall EXCEPT !.built = built]
      BY <2>2, <3>2
    <3>4. QED
      BY <3>1, <3>3 DEF IxCreations
  <2>3. QED
    BY <1>1, <2>1, <2>2
<1>4. QED
  BY <1>2, <1>3, IxCallTyped DEF BuildIndexEnds

LEMMA OthersIndexesInv == IndexesTypeOK /\ OthersManageIndexes => IndexesTypeOK'
<1> SUFFICES ASSUME IndexesTypeOK, OthersManageIndexes PROVE IndexesTypeOK'
  OBVIOUS
<1>1. PICK c \in IxCollections, f \in IxFields : Build(c, f, "building") \/ Build(c, f, NoIndex)
  BY DEF OthersManageIndexes
<1>2. ixCore' \in [IxCollections \X IxFields -> {NoIndex, "building", "ready"}]
  BY <1>1, BuildKeepsIndexes
<1>3. QED
  BY <1>2 DEF OthersManageIndexes, IndexesTypeOK, ixListVars, ixWidgetVars

LEMMA IndexesStepInv == IndexesTypeOK /\ [IndexesNext]_ixVars => IndexesTypeOK'
<1> SUFFICES ASSUME IndexesTypeOK, [IndexesNext]_ixVars PROVE IndexesTypeOK'
  OBVIOUS
<1>1. CASE SendIndexAction \/ RunIndexAction \/ AnswerIndexAction \/ OthersManageIndexes
  BY <1>1, SendIndexInv, RunIndexInv, AnswerIndexInv, OthersIndexesInv
<1>2. ASSUME NEW c \in IxCollections, NEW f \in IxFields, BuildIndexEnds(c, f)
      PROVE  IndexesTypeOK'
  BY <1>2, BuildEndsInv
<1> USE DEF IndexesTypeOK, ixListVars, ixWidgetVars
<1>3. CASE UseIndexWidgets
  BY <1>3 DEF UseIndexWidgets, OpenCreateIndex, CloseCreateIndex, CancelDeleteIndexes,
              AskToDeleteIndexes
<1>4. ASSUME NEW c \in IxCollections, LoadIndexes(c) PROVE IndexesTypeOK'
  <2>1. ixRows' \in [IxFields -> {NoIndex, "queued", "ready"}]
    BY <1>4 DEF LoadIndexes, ListIndexes
  <2>2. QED
    BY <1>4, <2>1 DEF LoadIndexes
<1>5. CASE UNCHANGED ixVars
  BY <1>5 DEF ixVars
<1>6. QED
  BY <1>1, <1>2, <1>3, <1>4, <1>5 DEF IndexesNext


(***************************************************************************)
(* OperationsPage.                                                         *)
(***************************************************************************)

OprStates == {"none", "active", "canceling", "canceled", "over"}
OprAnswers == {"waiting", "requested", "refused"}

LEMMA OperationsInitInv == OperationsPageInit => OperationsPageTypeOK
  BY DEF OperationsPageInit, OperationsPageTypeOK

\* A pending cancellation asks for some of the operations, one by one.
LEMMA OprCallIsOfIds ==
  ASSUME OperationsPageTypeOK, oprCall # NoOpr
  PROVE  DOMAIN oprCall \subseteq OprIds /\ oprCall \in [DOMAIN oprCall -> OprAnswers]
  BY DEF OperationsPageTypeOK, OprAnswers

LEMMA OprCallTyped ==
  ASSUME OperationsPageTypeOK, NEW ids \in SUBSET OprIds, oprCall' \in [ids -> OprAnswers],
         oprCore' \in [OprIds -> OprStates], oprOwed' \in SUBSET OprIds,
         oprDetails' = oprDetails \/ oprDetails' = NoOpr, UNCHANGED oprRows
  PROVE  OperationsPageTypeOK'
  BY DEF OperationsPageTypeOK, OprAnswers, OprStates

LEMMA UseOperationsInv == OperationsPageTypeOK /\ UseOperationWidgets => OperationsPageTypeOK'
<1> SUFFICES ASSUME OperationsPageTypeOK, UseOperationWidgets PROVE OperationsPageTypeOK'
  OBVIOUS
<1>1. /\ oprCore' \in [OprIds -> OprStates] /\ oprOwed' \in SUBSET OprIds
      /\ UNCHANGED <<oprCore, oprRows, oprOwed>>
  BY DEF UseOperationWidgets, oprListVars, OperationsPageTypeOK, OprStates
<1>2. ASSUME NEW i \in OprIds, OpenDetails(i) PROVE OperationsPageTypeOK'
  BY <1>1, <1>2 DEF OpenDetails, OperationsPageTypeOK
<1>3. CASE CloseDetails
  BY <1>1, <1>3 DEF CloseDetails, OperationsPageTypeOK
<1>4. ASSUME NEW ids \in SUBSET OprIds, Cancel(ids), oprDetails' = oprDetails \/ oprDetails' = NoOpr
      PROVE  OperationsPageTypeOK'
  <2>1. oprCall' \in [ids -> OprAnswers]
    BY <1>4 DEF Cancel, OprAnswers
  <2>2. QED
    BY <1>1, <1>4, <2>1, OprCallTyped
<1>5. CASE HandleCancel
  <2>1. {oprDetails.id} \in SUBSET OprIds
    BY <1>5 DEF HandleCancel, OperationsPageTypeOK
  <2>2. QED
    BY <1>4, <1>5, <2>1 DEF HandleCancel
<1>6. ASSUME NEW ids \in SUBSET OprIds, CancelSelectedOperations(ids) PROVE OperationsPageTypeOK'
  <2>1. SelectedCancellable(ids) \in SUBSET OprIds
    BY DEF SelectedCancellable
  <2>2. QED
    BY <1>4, <1>6, <2>1 DEF CancelSelectedOperations
<1>7. QED
  BY <1>2, <1>3, <1>5, <1>6 DEF UseOperationWidgets

\* Core cancels what is asked for, or refuses, and the answer may be lost.
LEMMA RunCancelInv == OperationsPageTypeOK /\ RunCancel => OperationsPageTypeOK'
<1> SUFFICES ASSUME OperationsPageTypeOK, RunCancel PROVE OperationsPageTypeOK'
  OBVIOUS
<1>1. PICK i \in DOMAIN oprCall : oprCall # NoOpr /\ CancelOperationAction(i)
  BY DEF RunCancel
<1>2. PICK ids \in SUBSET OprIds : ids = DOMAIN oprCall /\ oprCall \in [ids -> OprAnswers]
  BY <1>1, OprCallIsOfIds
<1>3. i \in ids /\ i \in OprIds
  BY <1>1, <1>2
<1>4. oprCall' \in [ids -> OprAnswers]
  <2>1. PICK said \in {"requested", "refused"} : oprCall' = [oprCall EXCEPT ![i] = said]
    BY <1>1 DEF CancelOperationAction
  <2>2. QED
    BY <1>2, <1>3, <2>1 DEF OprAnswers
<1>5. oprCore' \in [OprIds -> OprStates]
  <2>1. oprCore' = oprCore \/ oprCore' = [oprCore EXCEPT ![i] = "canceling"]
    BY <1>1 DEF CancelOperationAction
  <2>2. QED
    BY <2>1 DEF OperationsPageTypeOK, OprStates
<1>6. oprOwed' \in SUBSET OprIds
  <2>1. oprOwed' = oprOwed \/ oprOwed' = oprOwed \cup {i}
    BY <1>1 DEF CancelOperationAction
  <2>2. QED
    BY <1>3, <2>1 DEF OperationsPageTypeOK
<1>7. QED
  BY <1>1, <1>4, <1>5, <1>6, OprCallTyped DEF CancelOperationAction

LEMMA OperationStepsInv == OperationsPageTypeOK /\ OperationSteps => OperationsPageTypeOK'
<1> SUFFICES ASSUME OperationsPageTypeOK, OperationSteps PROVE OperationsPageTypeOK'
  OBVIOUS
<1>1. PICK i \in OprIds :
        \E state \in CASE oprCore[i] = "none" -> {"active"}
                       [] oprCore[i] = "active" -> {"over"}
                       [] oprCore[i] = "canceling" -> {"canceled", "over"}
                       [] OTHER -> {} :
          oprCore' = [oprCore EXCEPT ![i] = state]
  BY DEF OperationSteps
<1>2. PICK state \in OprStates : oprCore' = [oprCore EXCEPT ![i] = state]
  BY <1>1 DEF OprStates
<1>3. oprCore' \in [OprIds -> OprStates]
  BY <1>2 DEF OperationsPageTypeOK, OprStates
<1>4. QED
  BY <1>3 DEF OperationSteps, OperationsPageTypeOK, OprStates, oprListVars

LEMMA OperationsPageStepInv ==
  OperationsPageTypeOK /\ [OperationsPageNext]_oprVars => OperationsPageTypeOK'
<1> SUFFICES ASSUME OperationsPageTypeOK, [OperationsPageNext]_oprVars PROVE OperationsPageTypeOK'
  OBVIOUS
<1>1. CASE UseOperationWidgets \/ RunCancel \/ OperationSteps
  BY <1>1, UseOperationsInv, RunCancelInv, OperationStepsInv
<1> USE DEF OperationsPageTypeOK, oprListVars
<1>2. CASE AnswerCancel
  BY <1>2 DEF AnswerCancel
<1>3. CASE LoadOperations
  BY <1>3 DEF LoadOperations
<1>4. CASE UNCHANGED oprVars
  BY <1>4 DEF oprVars
<1>5. QED
  BY <1>1, <1>2, <1>3, <1>4 DEF OperationsPageNext

(***************************************************************************)
(* WebhooksPage: the calls are a sequence of saved lists and retries.      *)
(***************************************************************************)

WhSaves ==
  [kind : {"save"}, from : {"add", "remove"}, collection : WhCollections,
   list : SUBSET Targets, result : {"sent", "refused", "success", "error"}]
WhRetries == [kind : {"retry"}, delivery : WhDeliveries, result : {"sent", "success", "error"}]

WebhooksInv == WebhooksTypeOK /\ whCalls \in Seq(WhSaves \cup WhRetries)

LEMMA WebhooksInitInv == WebhooksInit => WebhooksInv
<1> SUFFICES ASSUME WebhooksInit PROVE WebhooksInv
  OBVIOUS
<1>1. whCalls \in Seq(WhSaves \cup WhRetries) /\ DOMAIN whCalls = {}
  BY EmptySeq DEF WebhooksInit
<1>2. QED
  BY <1>1 DEF WebhooksInit, WebhooksInv, WebhooksTypeOK

LEMMA WhCallsTyped ==
  ASSUME NEW calls \in Seq(WhSaves \cup WhRetries)
  PROVE  \A k \in DOMAIN calls : calls[k] \in WhSaves \cup WhRetries
  BY ElementOfSeq

\* The first call, which runs and is answered.
LEMMA WhCallTyped ==
  ASSUME WebhooksInv, whCalls # <<>>
  PROVE  /\ WhCall \in WhSaves \cup WhRetries
         /\ WhCall.kind = "save" => WhCall \in WhSaves
         /\ WhCall.kind # "save" => WhCall \in WhRetries
<1>1. WhCall \in WhSaves \cup WhRetries
  BY HeadTailProperties DEF WebhooksInv, WhCall
<1>2. QED
  BY <1>1 DEF WhSaves, WhRetries

LEMMA WebhookWidgetsInv == WebhooksInv /\ UseWebhookWidgets => WebhooksInv'
<1> SUFFICES ASSUME WebhooksInv, UseWebhookWidgets PROVE WebhooksInv'
  OBVIOUS
<1> USE DEF whCoreVars, whListVars
<1>1. /\ whSelected \in SUBSET WhUrls /\ whSecret \in WhCollections \cup {NoWh}
      /\ whPanel \in {NoWh} \cup [kind : {"add"}, url : WhUrls, events : SUBSET WhOptions]
                            \cup [kind : {"remove"}, urls : SUBSET WhUrls]
      /\ \A t \in whRows : t[1] \in WhUrls
  BY DEF WebhooksInv, WebhooksTypeOK, Targets
<1>2. SUFFICES /\ whSelected' \in SUBSET WhUrls /\ whSecret' \in WhCollections \cup {NoWh}
               /\ whPanel' \in {NoWh} \cup [kind : {"add"}, url : WhUrls, events : SUBSET WhOptions]
                                      \cup [kind : {"remove"}, urls : SUBSET WhUrls]
  <2>1. UNCHANGED <<whCore, whFailed, whShown, whRows, whFailedRows, whWanted, whOwed, whCalls>>
    BY DEF UseWebhookWidgets
  <2>2. QED
    BY <1>2, <2>1 DEF WebhooksInv, WebhooksTypeOK
<1>3. CASE HandleCollectionSelect \/ RemoveSelectedTargets \/ CloseWhPanel
  BY <1>1, <1>3 DEF HandleCollectionSelect, RemoveSelectedTargets, CloseWhPanel
<1>4. CASE OpenAddTarget
  BY <1>1, <1>4 DEF OpenAddTarget
<1>5. ASSUME NEW url \in WhUrls, ToggleTargetSelection(url)
      PROVE  /\ whSelected' \in SUBSET WhUrls
             /\ UNCHANGED <<whPanel, whSecret>>
  BY <1>1, <1>5 DEF ToggleTargetSelection
<1>6. ASSUME NEW e \in WhOptions, ToggleEvent(e)
      PROVE  /\ whPanel' \in [kind : {"add"}, url : WhUrls, events : SUBSET WhOptions]
             /\ UNCHANGED <<whSelected, whSecret>>
  <2>1. whPanel \in [kind : {"add"}, url : WhUrls, events : SUBSET WhOptions]
    BY <1>1, <1>6 DEF ToggleEvent, Adding
  <2>2. PICK events : /\ whPanel' = [whPanel EXCEPT !.events = events]
                      /\ events \in {{}, {e}, (whPanel.events \ {AllEvents}) \ {e},
                                     (whPanel.events \ {AllEvents}) \cup {e}}
    BY <1>6 DEF ToggleEvent
  <2>3. events \in SUBSET WhOptions
    BY <2>1, <2>2
  <2>4. QED
    BY <1>6, <2>1, <2>2, <2>3 DEF ToggleEvent
<1>7. QED
  BY <1>1, <1>3, <1>4, <1>5, <1>6 DEF UseWebhookWidgets

LEMMA SendWebhooksInv ==
  ASSUME WebhooksInv, NEW call \in WhSaves \cup WhRetries, SendWebhooks(call)
  PROVE  WebhooksInv'
<1>1. whCalls' \in Seq(WhSaves \cup WhRetries)
  BY AppendProperties DEF WebhooksInv, SendWebhooks
<1>2. \A k \in DOMAIN whCalls' : whCalls'[k] \in WhSaves \cup WhRetries
  BY <1>1, WhCallsTyped
<1>3. QED
  BY <1>1, <1>2 DEF WebhooksInv, WebhooksTypeOK, SendWebhooks, whCoreVars, whListVars,
     whWidgetVars, WhSaves, WhRetries

LEMMA SendWebhookActionInv == WebhooksInv /\ SendWebhookAction => WebhooksInv'
<1> SUFFICES ASSUME WebhooksInv, SendWebhookAction PROVE WebhooksInv'
  OBVIOUS
<1>1. /\ whShown \in WhCollections /\ whRows \in SUBSET Targets
      /\ Adding => whPanel.url \in WhUrls /\ whPanel.events \in SUBSET WhOptions
  BY DEF WebhooksInv, WebhooksTypeOK, Adding
<1>2. CASE HandleSaveTarget
  <2>1. whRows \cup ({whPanel.url} \X whPanel.events) \in SUBSET Targets
    BY <1>1, <1>2 DEF HandleSaveTarget, Targets
  <2> DEFINE new == {whPanel.url} \X whPanel.events
             result == IF new = {} \/ new \cap whRows # {} THEN "refused" ELSE "sent"
             call == [SaveOf("add", whRows \cup new) EXCEPT !.result = result]
  <2>2. SendWebhooks(call)
    BY <1>2 DEF HandleSaveTarget
  <2>3. result \in {"sent", "refused"}
    OBVIOUS
  <2> HIDE DEF new, result
  <2>4. whRows \cup new \in SUBSET Targets
    BY <2>1 DEF new
  <2>5. call \in WhSaves
    BY <1>1, <2>3, <2>4 DEF SaveOf, WhSaves
  <2> HIDE DEF call
  <2>6. QED
    BY <2>2, <2>5, SendWebhooksInv
<1>3. CASE ConfirmRemoveSelectedTargets
  <2>1. PICK list \in SUBSET Targets : SendWebhooks(SaveOf("remove", list))
    BY <1>1, <1>3 DEF ConfirmRemoveSelectedTargets
  <2>2. SaveOf("remove", list) \in WhSaves
    BY <1>1 DEF SaveOf, WhSaves
  <2>3. QED
    BY <2>1, <2>2, SendWebhooksInv
<1>4. ASSUME NEW d \in WhDeliveries, HandleRetry(d) PROVE WebhooksInv'
  <2>1. [kind |-> "retry", delivery |-> d, result |-> "sent"] \in WhRetries
    BY DEF WhRetries
  <2>2. QED
    BY <1>4, <2>1, SendWebhooksInv DEF HandleRetry
<1>5. QED
  BY <1>2, <1>3, <1>4 DEF SendWebhookAction

LEMMA RunWebhookInv == WebhooksInv /\ RunWebhookAction => WebhooksInv'
<1> SUFFICES ASSUME WebhooksInv, RunWebhookAction PROVE WebhooksInv'
  OBVIOUS
<1>1. whCalls # <<>> /\ whCalls \in Seq(WhSaves \cup WhRetries) /\ WhCall = whCalls[1]
  BY DEF RunWebhookAction, WebhooksInv, WhCall
<1>2. PICK result \in {"success", "error"} : whCalls' = [whCalls EXCEPT ![1].result = result]
  BY DEF RunWebhookAction
<1>3. PICK call : call = [WhCall EXCEPT !.result = result]
  OBVIOUS
<1>4. call \in WhSaves \cup WhRetries
  <2>1. CASE WhCall \in WhSaves
    BY <1>3, <2>1 DEF WhSaves
  <2>2. CASE WhCall \in WhRetries
    BY <1>3, <2>2 DEF WhRetries
  <2>3. QED
    BY <1>1, <2>1, <2>2, WhCallTyped
<1>5. whCalls' = [whCalls EXCEPT ![1] = call]
  BY <1>1, <1>2, <1>3
<1>6. whCalls' \in Seq(WhSaves \cup WhRetries)
  <2>1. 1 \in 1..Len(whCalls)
    BY <1>1, EmptySeq, LenProperties
  <2>2. QED
    BY <1>1, <1>4, <1>5, <2>1, ExceptSeq
<1>7. \A k \in DOMAIN whCalls' : whCalls'[k] \in WhSaves \cup WhRetries
  BY <1>6, WhCallsTyped
<1>8. /\ whCore' \in [WhCollections -> SUBSET Targets] /\ whFailed' \in SUBSET WhDeliveries
  <2>1. whCore \in [WhCollections -> SUBSET Targets] /\ whFailed \in SUBSET WhDeliveries
    BY DEF WebhooksInv, WebhooksTypeOK
  <2>2. CASE UNCHANGED whCoreVars
    BY <2>1, <2>2 DEF whCoreVars
  <2>3. CASE WebhooksDone
    <3>1. CASE WhCall.kind = "save"
      <4>1. WhCall.collection \in WhCollections /\ WhCall.list \in SUBSET Targets
        BY <1>1, <3>1, WhCallTyped DEF WhSaves
      <4>2. QED
        BY <2>1, <2>3, <3>1, <4>1 DEF WebhooksDone
    <3>2. CASE WhCall.kind # "save"
      BY <2>1, <2>3, <3>2 DEF WebhooksDone
    <3>3. QED
      BY <3>1, <3>2
  <2>4. QED
    BY <2>2, <2>3 DEF RunWebhookAction
<1>9. QED
  BY <1>6, <1>7, <1>8 DEF WebhooksInv, WebhooksTypeOK, RunWebhookAction, whListVars,
     whWidgetVars, WhSaves, WhRetries

LEMMA AnswerWebhookInv == WebhooksInv /\ AnswerWebhookAction => WebhooksInv'
<1> SUFFICES ASSUME WebhooksInv, AnswerWebhookAction PROVE WebhooksInv'
  OBVIOUS
<1>1. whCalls # <<>> /\ whCalls' = Tail(whCalls)
  BY DEF AnswerWebhookAction
<1>2. whCalls' \in Seq(WhSaves \cup WhRetries)
  BY <1>1, HeadTailProperties DEF WebhooksInv
<1>3. \A k \in DOMAIN whCalls' : whCalls'[k] \in WhSaves \cup WhRetries
  BY <1>2, WhCallsTyped
<1>4. UNCHANGED <<whCore, whFailed, whShown, whFailedRows>>
      /\ whWanted' \in BOOLEAN /\ whOwed' \in BOOLEAN
  BY DEF AnswerWebhookAction, WebhooksInv, WebhooksTypeOK, whCoreVars
<1>5. /\ whRows' \in SUBSET Targets /\ whSelected' \in SUBSET WhUrls
      /\ whSecret' \in WhCollections \cup {NoWh} /\ whPanel' \in {whPanel, NoWh}
  <2>1. /\ whRows \in SUBSET Targets /\ whSelected \in SUBSET WhUrls
        /\ whSecret \in WhCollections \cup {NoWh}
    BY DEF WebhooksInv, WebhooksTypeOK
  <2>2. CASE WhCall.result = "success" /\ WhCall.kind = "save"
    <3>1. WhCall.collection \in WhCollections /\ WhCall.list \in SUBSET Targets
      BY <1>1, <2>2, WhCallTyped DEF WhSaves
    <3>2. QED
      BY <2>1, <2>2, <3>1 DEF AnswerWebhookAction, ShowSavedList
  <2>3. CASE ~(WhCall.result = "success" /\ WhCall.kind = "save")
    BY <2>1, <2>3 DEF AnswerWebhookAction, whWidgetVars
  <2>4. QED
    BY <2>2, <2>3
<1>6. QED
  BY <1>2, <1>3, <1>4, <1>5 DEF WebhooksInv, WebhooksTypeOK, WhSaves, WhRetries

LEMMA WebhooksStepInv == WebhooksInv /\ [WebhooksNext]_whVars => WebhooksInv'
<1> SUFFICES ASSUME WebhooksInv, [WebhooksNext]_whVars PROVE WebhooksInv'
  OBVIOUS
<1>1. CASE UseWebhookWidgets \/ SendWebhookAction \/ RunWebhookAction \/ AnswerWebhookAction
  BY <1>1, WebhookWidgetsInv, SendWebhookActionInv, RunWebhookInv, AnswerWebhookInv
<1> USE DEF WebhooksInv, WebhooksTypeOK, whCoreVars, whWidgetVars, whListVars
<1>2. ASSUME NEW c \in WhCollections, LoadWebhooks(c) PROVE WebhooksInv'
  BY <1>2 DEF LoadWebhooks
<1>3. CASE OthersUseWebhooks
  BY <1>3 DEF OthersUseWebhooks
<1>4. CASE UNCHANGED whVars
  BY <1>4 DEF whVars
<1>5. QED
  BY <1>1, <1>2, <1>3, <1>4 DEF WebhooksNext


(***************************************************************************)
(* The pages together.  A step of the dashboard is a step of one of its    *)
(* parts, or none, and leaves the others: every part does what it does by  *)
(* itself, so that what is proved of a page holds of the dashboard.        *)
(***************************************************************************)

LEMMA DashboardStarts ==
  Init => /\ DocumentsInit /\ LiveInit /\ EditorInit /\ SchemasInit /\ CollectionsInit
          /\ IndexesInit /\ OperationsPageInit /\ WorkspacesInit /\ KeysInit /\ SearchPageInit
          /\ WebhooksInit /\ RealtimeInit
  BY DEF Init

LEMMA DashboardSteps ==
  ASSUME [Next]_vars
  PROVE  /\ [DocumentsNext]_docVars /\ [LiveNext]_liveVars /\ [EditorNext]_editVars
         /\ [SchemasNext]_schVars /\ [CollectionsNext]_colVars /\ [IndexesNext]_ixVars
         /\ [OperationsPageNext]_oprVars /\ [WorkspacesNext]_wsVars /\ [KeysNext]_keyVars
         /\ [SearchPageNext]_ftsVars /\ [WebhooksNext]_whVars /\ [RealtimeNext]_rtVars
<1>1. CASE Next
  BY <1>1 DEF Next, Stays
<1>2. CASE UNCHANGED vars
  BY <1>2 DEF vars
<1>3. QED
  BY <1>1, <1>2

\* Each part of the dashboard is the page of its module, with whatever the
\* module's theorems say of it.
THEOREM DashboardHasItsPages ==
  Spec => /\ DocumentsSpec /\ EditorSpec /\ SchemasSpec /\ WorkspacesSpec /\ KeysSpec
          /\ SearchPageSpec /\ RealtimeSpec
          /\ LiveInit /\ [][LiveNext]_liveVars
          /\ CollectionsInit /\ [][CollectionsNext]_colVars
          /\ IndexesInit /\ [][IndexesNext]_ixVars
          /\ OperationsPageInit /\ [][OperationsPageNext]_oprVars
          /\ WebhooksInit /\ [][WebhooksNext]_whVars
  BY DashboardStarts, DashboardSteps, PTL
     DEF Spec, DocumentsSpec, EditorSpec, SchemasSpec, WorkspacesSpec, KeysSpec, SearchPageSpec,
         RealtimeSpec

\* The invariants of all parts.
DashboardInv ==
  /\ DocumentsInv /\ LiveInv /\ EditorInv /\ SchemasInv /\ CollectionsTypeOK /\ IndexesTypeOK
  /\ OperationsPageTypeOK /\ WorkspacesInv /\ KeysInv /\ SearchPageInv /\ WebhooksInv
  /\ RealtimeInv

LEMMA DashboardInvTypes == DashboardInv => TypeOK
  BY DEF DashboardInv, TypeOK, DocumentsInv, LiveInv, EditorInv, SchemasInv, WorkspacesInv,
         KeysInv, SearchPageInv, WebhooksInv, RealtimeInv

\* The variables of every page stay well-typed, whatever page is used.
THEOREM DashboardTypes == Spec => []TypeOK
<1>1. Init => DashboardInv
  BY DashboardStarts, DocumentsInitInv, LiveInitInv, EditorInitInv, SchemasInitInv,
     CollectionsInitInv, IndexesInitInv, OperationsInitInv, WorkspacesInitInv, KeysInitInv,
     SearchPageInitInv, WebhooksInitInv, RealtimeInitInv DEF DashboardInv
<1>2. DashboardInv /\ [Next]_vars => DashboardInv'
  <2> SUFFICES ASSUME DashboardInv, [Next]_vars PROVE DashboardInv'
    OBVIOUS
  <2> USE DashboardSteps DEF DashboardInv
  <2>1. DocumentsInv' /\ LiveInv' /\ EditorInv' /\ SchemasInv'
    BY DocumentsStepInv, LiveStepInv, EditorStepInv, SchemasStepInv
  <2>2. CollectionsTypeOK' /\ IndexesTypeOK' /\ OperationsPageTypeOK' /\ WebhooksInv'
    BY CollectionsStepInv, IndexesStepInv, OperationsPageStepInv, WebhooksStepInv
  <2>3. WorkspacesInv' /\ KeysInv' /\ SearchPageInv' /\ RealtimeInv'
    BY WorkspacesStepInv, KeysStepInv, SearchPageStepInv, RealtimeStepInv
  <2>4. QED
    BY <2>1, <2>2, <2>3
<1>3. QED
  BY <1>1, <1>2, DashboardInvTypes, PTL DEF Spec

\* Hence the dashboard as a whole: every edit and deletion replaces what the
\* page showed, search fields are saved where they were loaded, every request
\* is one the session is entitled to, and the editor, the schema builder, the
\* console and the list of keys tell the truth.
THEOREM DashboardIsRight ==
  Spec => /\ EditsReplaceWhatWasLoaded /\ FieldsStayWithTheirCollection /\ RequestsAreEntitled
          /\ []EditorIsHonest /\ []BuilderShowsTheText /\ []KeysAreAccountedFor
          /\ []ConsoleShowsItsCollection
<1>1. Spec => /\ DocumentsSpec /\ EditorSpec /\ SchemasSpec /\ WorkspacesSpec /\ KeysSpec
              /\ SearchPageSpec /\ RealtimeSpec
  BY DashboardHasItsPages, PTL
<1>2. QED
  BY <1>1, EditsAreGuarded, FieldsGoHome, OnlyEntitledRequests, EditorStaysHonest,
     BuilderStaysTrue, KeysAreKept, ConsoleIsRight, PTL
=============================================================================
