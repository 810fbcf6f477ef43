--------------------------- MODULE DocumentsPage ---------------------------
(***************************************************************************)
(* The edits of the data page (DataClient.tsx, the server actions of       *)
(* data/actions.ts and lib/documents/service.ts).  The browser keeps the   *)
(* rows of one collection, an editor and a deletion that wait for the      *)
(* user, and one server action at a time.  Other clients write the same    *)
(* documents, and the page is loaded again at any time: when and why is    *)
(* LiveDocuments' subject.                                                 *)
(*                                                                         *)
(* A document is its content: Core's ETag is a hash of it, so contents     *)
(* stand for ETags too.                                                    *)
(***************************************************************************)
EXTENDS Naturals, FiniteSets

CONSTANTS
  DocCollections,  \* the collections of the project
  DocIds,          \* the documents' ids
  DocContents,     \* what a document may hold
  NoDoc,           \* no document, no panel, no call
  MaxDocDeletes    \* MAX_DOCUMENTS_PER_DELETE = 50

VARIABLES
  docCore,     \* Core's documents, by collection and id
  docShown,    \* selectedCollection: the collection on the screen
  docRows,     \* documentRows
  docTargets,  \* deleteTargets: the ids and ETags of the rows asked for
  docEditor,   \* editor and, in origin, the document the panel's text is of
  docCall      \* the server action that has been sent, and its progress

docVars == <<docCore, docShown, docRows, docTargets, docEditor, docCall>>
docPanelVars == <<docTargets, docEditor>>
docScreenVars == <<docShown, docRows>>

Row == DocContents \cup {NoDoc}
NoRows == [i \in DocIds |-> NoDoc]
PageIds == {i \in DocIds : docRows[i] # NoDoc}

DocumentsInit ==
  /\ docCore \in [DocCollections -> [DocIds -> Row]]
  /\ docShown \in DocCollections
  /\ docRows = docCore[docShown]
  /\ docTargets = NoRows /\ docEditor = NoDoc
  /\ docCall = NoDoc
-----------------------------------------------------------------------------
(* What the user does on the page. *)

\* The button of a row, or of the selected rows.
AskToDelete(ids) ==
  /\ docCall = NoDoc /\ docEditor = NoDoc
  /\ docTargets' = [i \in DocIds |-> IF i \in ids THEN docRows[i] ELSE NoDoc]
  /\ UNCHANGED docEditor

CancelDelete ==
  /\ docTargets' = NoRows
  /\ UNCHANGED docEditor

\* A row opens even while a call is pending, and from the keyboard even while
\* the panel is open: the panel, which has no key, then keeps its text.
OpenEdit(i) ==
  /\ i \in PageIds /\ docTargets = NoRows
  /\ docEditor' = [mode |-> "edit", id |-> i, json |-> docRows[i], etag |-> docRows[i],
                   origin |-> IF docEditor = NoDoc THEN i ELSE docEditor.origin]
  /\ UNCHANGED docTargets

\* The button of an empty collection does not wait for a pending call.
OpenCreate ==
  /\ docCall = NoDoc \/ PageIds = {}
  /\ docEditor = NoDoc /\ docTargets = NoRows
  /\ docEditor' = [mode |-> "create", id |-> NoDoc, json |-> NoDoc, etag |-> NoDoc,
                   origin |-> NoDoc]
  /\ UNCHANGED docTargets

CloseEditor ==
  /\ docEditor' = NoDoc
  /\ UNCHANGED docTargets

UseWidgets ==
  /\ \/ \E i \in DocIds : OpenEdit(i)
     \/ \E ids \in SUBSET PageIds \ {{}} : AskToDelete(ids)
     \/ CancelDelete \/ OpenCreate \/ CloseEditor
  /\ UNCHANGED <<docCore, docScreenVars, docCall>>

\* Mutant: the ETag of the row as the screen has it by now.
EtagOnScreen == IF docEditor.id = NoDoc THEN NoDoc ELSE docRows[docEditor.id]

\* The ETag comes from the row the editor was opened with.
ExpectedEtag == docEditor.etag

\* The collection is the one on the screen now, not when the editor opened.
SaveEditor(text) ==
  /\ docEditor # NoDoc /\ docCall = NoDoc
  /\ docCall' = [kind |-> docEditor.mode, collection |-> docShown, id |-> docEditor.id,
                 etag |-> ExpectedEtag, json |-> docEditor.json,
                 origin |-> docEditor.origin, text |-> text, result |-> "sent"]

ConfirmDelete ==
  /\ docTargets # NoRows /\ docCall = NoDoc
  /\ docCall' = [kind |-> "delete", collection |-> docShown, targets |-> docTargets,
                 results |-> [i \in {j \in DocIds : docTargets[j] # NoDoc} |-> "sent"]]

SendCall ==
  /\ ConfirmDelete \/ \E text \in DocContents : SaveEditor(text)
  /\ UNCHANGED <<docCore, docScreenVars, docPanelVars>>
-----------------------------------------------------------------------------
(* The server actions, one call of Core at a time. *)

Found(i) == docCore[docCall.collection][i]
Write(i, content) == docCore' = [docCore EXCEPT ![docCall.collection][i] = content]
Saved(result) == docCall' = [docCall EXCEPT !.result = result]
Deleted(i, result) == docCall' = [docCall EXCEPT !.results[i] = result]
NothingWritten == UNCHANGED docCore

CreateDocument ==
  /\ docCall.kind = "create"
  /\ \E i \in DocIds : Found(i) = NoDoc /\ Write(i, docCall.text)
  /\ Saved("saved")

\* Core refuses an If-Match that is not the document's.
UpdateDocument ==
  /\ docCall.kind = "edit"
  /\ IF Found(docCall.id) = docCall.etag
     THEN Write(docCall.id, docCall.text) /\ Saved("saved")
     ELSE NothingWritten /\ Saved("failed")

IfMatch(i) == docCall.targets[i]

DeleteDocument(i) ==
  IF Found(i) # NoDoc /\ Found(i) = IfMatch(i)
  THEN Write(i, NoDoc) /\ Deleted(i, "deleted")
  ELSE NothingWritten /\ Deleted(i, IF Found(i) = NoDoc THEN "missing" ELSE "failed")

\* The server action asks Core for nothing when the targets are too many.
TooMany == Cardinality(DOMAIN docCall.results) > MaxDocDeletes
Unanswered == {i \in DOMAIN docCall.results : docCall.results[i] = "sent"}

\* Core refuses a call, or the call does not reach it.
SaveFails == NothingWritten /\ Saved("failed")
DeleteFails(i) == NothingWritten /\ Deleted(i, "failed")

RunCall ==
  /\ docCall # NoDoc
  /\ \/ /\ docCall.kind # "delete" /\ docCall.result = "sent"
        /\ CreateDocument \/ UpdateDocument \/ SaveFails
     \/ /\ docCall.kind = "delete" /\ ~TooMany
        /\ \E i \in Unanswered : DeleteDocument(i) \/ DeleteFails(i)
  /\ UNCHANGED <<docScreenVars, docPanelVars>>

AnswerSave ==
  /\ docCall.kind # "delete" /\ docCall.result # "sent"
  /\ IF docCall.result = "saved" THEN docEditor' = NoDoc ELSE UNCHANGED docEditor
  /\ UNCHANGED <<docRows, docTargets>>

Answered(outcome) == {i \in DOMAIN docCall.results : docCall.results[i] = outcome}

\* Failures make an error only when nothing was deleted; otherwise every
\* target leaves the screen, the failed ones too, until the page is refreshed,
\* and all of them when they were too many and none was deleted.
AnswerDelete ==
  /\ docCall.kind = "delete" /\ (TooMany \/ Unanswered = {})
  /\ IF Answered("failed") = {} \/ Answered("deleted") # {}
     THEN /\ docRows' = [i \in DocIds |-> IF i \in DOMAIN docCall.results THEN NoDoc ELSE docRows[i]]
          /\ docTargets' = NoRows
     ELSE UNCHANGED <<docRows, docTargets>>
  /\ UNCHANGED docEditor

AnswerCall ==
  /\ docCall # NoDoc
  /\ AnswerSave \/ AnswerDelete
  /\ docCall' = NoDoc
  /\ UNCHANGED <<docCore, docShown>>
-----------------------------------------------------------------------------
\* A page for any collection may arrive at any time; a failed load shows no
\* rows.  Panels survive it: the address's parameters are no key of the page.
\* To the browser it is the same whether another client's write comes between
\* the reading and the arrival or just after it.
LoadPage(c, failed) ==
  /\ docShown' = c
  /\ docRows' = IF failed THEN NoRows ELSE docCore[c]
  /\ UNCHANGED <<docCore, docPanelVars, docCall>>

OtherWrites ==
  /\ \E c \in DocCollections, i \in DocIds, content \in Row :
       docCore' = [docCore EXCEPT ![c][i] = content]
  /\ UNCHANGED <<docScreenVars, docPanelVars, docCall>>

DocumentsNext ==
  \/ UseWidgets \/ SendCall \/ RunCall \/ AnswerCall \/ OtherWrites
  \/ \E c \in DocCollections, failed \in BOOLEAN : LoadPage(c, failed)

DocumentsSpec == DocumentsInit /\ [][DocumentsNext]_docVars
-----------------------------------------------------------------------------
\* The documents, what the screen keeps of them, and the call.
DocumentsTypeOK ==
  /\ docCore \in [DocCollections -> [DocIds -> Row]]
  /\ docShown \in DocCollections
  /\ docRows \in [DocIds -> Row] /\ docTargets \in [DocIds -> Row]
  /\ docEditor \in {NoDoc} \cup
       [mode : {"edit", "create"}, id : DocIds \cup {NoDoc}, json : Row, etag : Row,
        origin : DocIds \cup {NoDoc}]
  /\ \/ docCall = NoDoc
     \/ docCall \in [kind : {"edit", "create"}, collection : DocCollections,
                     id : DocIds \cup {NoDoc}, etag : Row, json : Row,
                     origin : DocIds \cup {NoDoc}, text : DocContents,
                     result : {"sent", "saved", "failed"}]
     \/ /\ docCall = [kind |-> "delete", collection |-> docCall.collection,
                      targets |-> docCall.targets, results |-> docCall.results]
        /\ docCall.collection \in DocCollections /\ docCall.targets \in [DocIds -> Row]
        /\ DOMAIN docCall.results \subseteq DocIds
        /\ \A i \in DOMAIN docCall.results :
             docCall.results[i] \in {"sent", "deleted", "missing", "failed"}

\* No content is overwritten or deleted that the user was not shown: what an
\* edit replaces is the content its editor was opened with, and what a
\* deletion removes is the row that was asked for, whatever was written and
\* loaded meanwhile.
EditsReplaceWhatWasLoaded ==
  [][\A c \in DocCollections, i \in DocIds :
       docCall # NoDoc /\ docCall' # docCall /\ docCore'[c][i] # docCore[c][i] =>
         CASE docCall.kind = "create" -> docCore[c][i] = NoDoc
           [] docCall.kind = "edit" -> i = docCall.id /\ docCore[c][i] = docCall.json
           [] docCall.kind = "delete" -> docCore[c][i] = docCall.targets[i]]_docVars
=============================================================================
