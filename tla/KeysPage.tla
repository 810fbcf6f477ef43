------------------------------ MODULE KeysPage ------------------------------
(***************************************************************************)
(* The keys page (KeysClient.tsx, keys/page.tsx, its server action and     *)
(* lib/api-keys/service.ts).  Core mints a key and forgets its token; the  *)
(* dashboard shows the token once and stores a redacted record of the key  *)
(* in a collection of its own, which may not exist yet.                    *)
(***************************************************************************)
EXTENDS Naturals

CONSTANTS
  KeyIds,  \* the keys Core may mint
  NoKey    \* no key, no call

\* What a call carries, and how far it has got.
KeyCalls ==
  [key : KeyIds \cup {NoKey},
   step : {"sent", "minted", "no collection", "collection", "stored", "not stored", "error"}]

ASSUME NoKeyAssumption == NoKey \notin KeyIds /\ NoKey \notin KeyCalls

VARIABLES
  keyMinted,   \* the keys whose token has reached the dashboard's server
  keyStorage,  \* whether the collection of the records exists
  keyStored,   \* the keys with a record in it
  keyRows,     \* keyRecords: the table of the page
  keyCreating, \* creating: the panel is open
  keyConfirm,  \* generateConfirm
  keyCreated,  \* createdKey: the key whose token the panel shows
  keyNotice,   \* notice: "none" or its status
  keyWarned,   \* the keys that came with a warning instead of a record
  keyCall      \* the server action that has been sent, and its progress

keyVars == <<keyMinted, keyStorage, keyStored, keyRows, keyCreating, keyConfirm, keyCreated,
             keyNotice, keyWarned, keyCall>>
keyStoreVars == <<keyMinted, keyStorage, keyStored>>
keyPanelVars == <<keyCreating, keyConfirm, keyCreated, keyNotice>>

KeysInit ==
  /\ keyMinted = {} /\ keyStorage \in BOOLEAN /\ keyStored = {} /\ keyRows = {}
  /\ keyCreating = FALSE /\ keyConfirm = FALSE /\ keyCreated = NoKey
  /\ keyNotice = "none" /\ keyWarned = {}
  /\ keyCall = NoKey
-----------------------------------------------------------------------------
\* Opening the panel again drops the token it showed.
OpenCreateKey ==
  /\ keyCall = NoKey
  /\ keyCreating' = TRUE /\ keyConfirm' = FALSE /\ keyCreated' = NoKey /\ keyNotice' = "none"
  /\ UNCHANGED keyCall

\* The panel may be closed while the key is on its way.
CloseKeyPanel ==
  /\ keyCreating' = FALSE
  /\ UNCHANGED <<keyConfirm, keyCreated, keyNotice, keyCall>>

AskToGenerate ==
  /\ keyCreating /\ keyCreated = NoKey /\ keyCall = NoKey
  /\ keyConfirm' = TRUE
  /\ UNCHANGED <<keyCreating, keyCreated, keyNotice, keyCall>>
CancelGenerate ==
  /\ keyConfirm' = FALSE
  /\ UNCHANGED <<keyCreating, keyCreated, keyNotice, keyCall>>

HandleGenerate ==
  /\ keyConfirm /\ keyCall = NoKey
  /\ keyConfirm' = FALSE
  /\ keyCall' = [key |-> NoKey, step |-> "sent"]
  /\ UNCHANGED <<keyCreating, keyCreated, keyNotice>>

UseKeyWidgets ==
  /\ OpenCreateKey \/ CloseKeyPanel \/ AskToGenerate \/ CancelGenerate \/ HandleGenerate
  /\ UNCHANGED <<keyStoreVars, keyRows, keyWarned>>
-----------------------------------------------------------------------------
\* A token is minted and signed without a record; a failure tells nothing.
CreateProjectRuntimeApiKey ==
  /\ keyCall.step = "sent"
  /\ \/ \E k \in KeyIds \ keyMinted :
          /\ keyMinted' = keyMinted \cup {k}
          /\ keyCall' = [key |-> k, step |-> "minted"]
     \/ /\ keyCall' = [keyCall EXCEPT !.step = "error"]
        /\ UNCHANGED keyMinted
  /\ UNCHANGED <<keyStorage, keyStored>>

CallGoes(step) == keyCall' = [keyCall EXCEPT !.step = step]

\* A record that is refused for want of its collection is tried once more
\* after the collection was created; a failed write may have been done.
CreateKeyDocument(onMissing) ==
  \/ keyStorage /\ keyStored' = keyStored \cup {keyCall.key} /\ CallGoes("stored")
  \/ ~keyStorage /\ UNCHANGED keyStored /\ CallGoes(onMissing)
  \/ /\ CallGoes("not stored")
     /\ keyStored' \in {keyStored} \cup (IF keyStorage THEN {keyStored \cup {keyCall.key}} ELSE {})

RecordKeyMetadata ==
  /\ keyCall.step = "minted"
  /\ CreateKeyDocument("no collection")
  /\ UNCHANGED <<keyMinted, keyStorage>>
CreateKeyCollection ==
  /\ keyCall.step = "no collection"
  /\ \/ keyStorage' = TRUE /\ CallGoes("collection")
     \/ keyStorage' \in {keyStorage, TRUE} /\ CallGoes("not stored")
  /\ UNCHANGED <<keyMinted, keyStored>>
RecordAfterSetup ==
  /\ keyCall.step = "collection"
  /\ CreateKeyDocument("not stored")
  /\ UNCHANGED <<keyMinted, keyStorage>>

RunKeyAction ==
  /\ keyCall # NoKey
  /\ \/ CreateProjectRuntimeApiKey \/ RecordKeyMetadata \/ CreateKeyCollection
     \/ RecordAfterSetup
  /\ UNCHANGED <<keyRows, keyPanelVars, keyWarned>>

\* Mutant: a key without a record is an error like others.
KeyActionFails ==
  IF keyCall.step = "stored" THEN [status |-> "success", key |-> keyCall.key]
  ELSE [status |-> "error", key |-> NoKey]

\* A key without a record is shown with a warning.
KeyActionResult ==
  CASE keyCall.step = "stored" -> [status |-> "success", key |-> keyCall.key]
    [] keyCall.step = "not stored" -> [status |-> "warning", key |-> keyCall.key]
    [] keyCall.step = "error" -> [status |-> "error", key |-> NoKey]

AnswerKeyAction ==
  /\ keyCall # NoKey /\ keyCall.step \in {"stored", "not stored", "error"}
  /\ LET result == KeyActionResult IN
     /\ keyNotice' = result.status
     /\ keyCreated' = IF result.key = NoKey THEN keyCreated ELSE result.key
     /\ keyRows' = IF result.status = "success" THEN keyRows \cup {result.key} ELSE keyRows
     /\ keyWarned' = IF result.status = "warning" THEN keyWarned \cup {result.key} ELSE keyWarned
  /\ keyCall' = NoKey
  /\ UNCHANGED <<keyStoreVars, keyCreating, keyConfirm>>
-----------------------------------------------------------------------------
\* A failed load shows no keys.
ListDashboardApiKeys == {keyStored, {}}

\* A new visit waits for a pending call and keeps nothing of the page.
VisitKeysPage ==
  /\ keyCall = NoKey
  /\ keyRows' \in ListDashboardApiKeys
  /\ keyCreating' = FALSE /\ keyConfirm' = FALSE /\ keyCreated' = NoKey /\ keyNotice' = "none"
  /\ UNCHANGED <<keyStoreVars, keyWarned, keyCall>>

\* The collection of the records is a collection like others.
DropKeyStorage ==
  /\ keyStorage /\ keyStored = {}
  /\ keyStorage' = FALSE
  /\ UNCHANGED <<keyMinted, keyStored, keyRows, keyPanelVars, keyWarned, keyCall>>

KeysNext ==
  UseKeyWidgets \/ RunKeyAction \/ AnswerKeyAction \/ VisitKeysPage \/ DropKeyStorage

KeysSpec == KeysInit /\ [][KeysNext]_keyVars
-----------------------------------------------------------------------------
\* The keys and their records, the panel, and the call.
KeysTypeOK ==
  /\ keyMinted \in SUBSET KeyIds /\ keyStored \in SUBSET KeyIds
  /\ keyRows \in SUBSET KeyIds /\ keyWarned \in SUBSET KeyIds
  /\ keyStorage \in BOOLEAN /\ keyCreating \in BOOLEAN /\ keyConfirm \in BOOLEAN
  /\ keyCreated \in KeyIds \cup {NoKey}
  /\ keyNotice \in {"none", "success", "warning", "error"}
  /\ keyCall \in {NoKey} \cup KeyCalls

\* No key is minted and forgotten: once its request is answered it has a
\* record, or came with a warning, and its token was handed to the page; the
\* table lists only keys that have a record, the panel only one it received.
KeysAreAccountedFor ==
  /\ \A k \in keyMinted :
       k \in keyStored \cup keyWarned \/ (keyCall # NoKey /\ keyCall.key = k)
  /\ keyRows \subseteq keyStored
  /\ keyNotice = "success" => keyCreated \in keyRows
  /\ keyNotice = "warning" => keyCreated \in keyWarned
=============================================================================
