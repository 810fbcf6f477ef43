----------------------------- MODULE SearchPage -----------------------------
(***************************************************************************)
(* The search settings (FTSClient.tsx, fts/page.tsx and its server action).*)
(* Fields are added and removed on the screen, and the whole list is saved *)
(* afterwards; every new page replaces the list on the screen.             *)
(***************************************************************************)
EXTENDS Naturals

CONSTANTS
  FtsCollections,  \* the collections of the project
  FtsFields,       \* names of fields
  NoFts            \* no panel, no call

VARIABLES
  ftsCore,    \* the searchable fields of each collection in Core
  ftsShown,   \* selectedCollection
  ftsList,    \* fields
  ftsOrigin,  \* the collection the list was loaded for
  ftsPanel,   \* the add-fields panel with its draft, or fieldDeleteTargets
  ftsCall     \* the save that has been sent, and its result

ftsVars == <<ftsCore, ftsShown, ftsList, ftsOrigin, ftsPanel, ftsCall>>
ftsScreenVars == <<ftsShown, ftsList, ftsOrigin>>

SearchPageInit ==
  /\ ftsCore \in [FtsCollections -> SUBSET FtsFields]
  /\ ftsShown \in FtsCollections /\ ftsOrigin = ftsShown
  /\ ftsList = ftsCore[ftsShown]
  /\ ftsPanel = NoFts /\ ftsCall = NoFts
-----------------------------------------------------------------------------
OpenAddField ==
  /\ ftsCall = NoFts /\ ftsPanel = NoFts
  /\ ftsPanel' = [kind |-> "add", fields |-> {}, error |-> FALSE]
  /\ UNCHANGED ftsList

\* A row's input: the raw text is written anew, and its error is gone.
UpdateDraftField(fields) == ftsPanel' = [ftsPanel EXCEPT !.fields = fields, !.error = FALSE]
\* The raw text: the draft keeps its fields while the text has an error.
ValidateDraftJson(fields, broken) ==
  ftsPanel' = IF broken THEN [ftsPanel EXCEPT !.error = TRUE]
              ELSE [ftsPanel EXCEPT !.fields = fields, !.error = FALSE]
EditDraft ==
  /\ ftsPanel # NoFts /\ ftsPanel.kind = "add"
  /\ \E fields \in SUBSET FtsFields :
       UpdateDraftField(fields) \/ \E broken \in BOOLEAN : ValidateDraftJson(fields, broken)
  /\ UNCHANGED ftsList

\* Adds to the list on the screen; nothing is sent.
SaveNewFields ==
  /\ ftsPanel # NoFts /\ ftsPanel.kind = "add" /\ ~ftsPanel.error
  /\ ~ (ftsPanel.fields \subseteq ftsList)
  /\ ftsList' = ftsList \cup ftsPanel.fields
  /\ ftsPanel' = NoFts

DeleteSelectedFields ==
  /\ ftsCall = NoFts /\ ftsPanel = NoFts
  /\ \E fields \in SUBSET ftsList \ {{}} :
       ftsPanel' = [kind |-> "delete", fields |-> fields, error |-> FALSE]
  /\ UNCHANGED ftsList

ConfirmDeleteFields ==
  /\ ftsPanel # NoFts /\ ftsPanel.kind = "delete"
  /\ ftsList' = ftsList \ ftsPanel.fields
  /\ ftsPanel' = NoFts

CloseFtsPanel == ftsPanel' = NoFts /\ UNCHANGED ftsList

UseFtsWidgets ==
  /\ \/ OpenAddField \/ EditDraft \/ SaveNewFields \/ DeleteSelectedFields
     \/ ConfirmDeleteFields \/ CloseFtsPanel
  /\ UNCHANGED <<ftsCore, ftsShown, ftsOrigin, ftsCall>>

\* An empty list cannot be saved: the last field is there to stay.
SaveFields ==
  /\ ftsList # {} /\ ftsCall = NoFts
  /\ ftsCall' = [collection |-> ftsShown, fields |-> ftsList, origin |-> ftsOrigin,
                 result |-> "sent"]
  /\ UNCHANGED <<ftsCore, ftsScreenVars, ftsPanel>>

\* Core replaces the whole list; a save that fails may have been done.
SaveFTSFieldsAction ==
  /\ ftsCall # NoFts /\ ftsCall.result = "sent"
  /\ LET saved == [ftsCore EXCEPT ![ftsCall.collection] = ftsCall.fields] IN
     \/ ftsCore' = saved /\ ftsCall' = [ftsCall EXCEPT !.result = "success"]
     \/ ftsCore' \in {ftsCore, saved} /\ ftsCall' = [ftsCall EXCEPT !.result = "error"]
  /\ UNCHANGED <<ftsScreenVars, ftsPanel>>

AnswerSaveFields ==
  /\ ftsCall # NoFts /\ ftsCall.result # "sent"
  /\ ftsCall' = NoFts
  /\ UNCHANGED <<ftsCore, ftsScreenVars, ftsPanel>>
-----------------------------------------------------------------------------
\* Mutant: a list that is not empty survives the page that arrives.
LoadFtsPageKeepsList(c) ==
  /\ ftsShown' = c
  /\ IF ftsList # {} THEN UNCHANGED <<ftsList, ftsOrigin>>
     ELSE ftsList' \in {ftsCore[c], {}} /\ ftsOrigin' = c
  /\ UNCHANGED <<ftsCore, ftsPanel, ftsCall>>

\* Another collection, or the page a successful save has invalidated: what
\* was not saved is gone, and a failed load looks like an empty list.  Panels
\* stay.
LoadFtsPage(c) ==
  /\ ftsShown' = c /\ ftsOrigin' = c
  /\ ftsList' \in {ftsCore[c], {}}
  /\ UNCHANGED <<ftsCore, ftsPanel, ftsCall>>

OthersSetFts ==
  /\ \E c \in FtsCollections, fields \in SUBSET FtsFields :
       ftsCore' = [ftsCore EXCEPT ![c] = fields]
  /\ UNCHANGED <<ftsScreenVars, ftsPanel, ftsCall>>

SearchPageNext ==
  \/ UseFtsWidgets \/ SaveFields \/ SaveFTSFieldsAction \/ AnswerSaveFields
  \/ (\E c \in FtsCollections : LoadFtsPage(c)) \/ OthersSetFts

SearchPageSpec == SearchPageInit /\ [][SearchPageNext]_ftsVars
-----------------------------------------------------------------------------
\* The settings, the list on the screen, and the call.
SearchPageTypeOK ==
  /\ ftsCore \in [FtsCollections -> SUBSET FtsFields]
  /\ ftsShown \in FtsCollections /\ ftsOrigin \in FtsCollections /\ ftsList \in SUBSET FtsFields
  /\ ftsPanel \in {NoFts} \cup
       [kind : {"add", "delete"}, fields : SUBSET FtsFields, error : BOOLEAN]
  /\ ftsCall \in {NoFts} \cup
       [collection : FtsCollections, fields : SUBSET FtsFields, origin : FtsCollections,
        result : {"sent", "success", "error"}]

\* A list of fields is saved to the collection it was loaded for, whatever
\* pages have arrived and whichever panels were open meanwhile.
FieldsStayWithTheirCollection ==
  [][ftsCall # NoFts /\ ftsCall' # ftsCall
       => \A c \in FtsCollections : ftsCore'[c] # ftsCore[c] => ftsCall.origin = c]_ftsVars
=============================================================================
