-------------------------- MODULE DocumentEditor --------------------------
(***************************************************************************)
(* The panel in which a document is written (DocumentEditorPanel.tsx) and  *)
(* the conversions between its two tabs (document-editor.ts): a list of    *)
(* fields with a name, a type and a text each, and one JSON text.          *)
(*                                                                         *)
(* A document is a sequence of entries, its names all different; its text  *)
(* is the document itself or Broken.  "number" stands for the types whose  *)
(* text has to parse: number, boolean, object and array.                   *)
(***************************************************************************)
EXTENDS Naturals, Sequences

CONSTANTS
  EditorNames,   \* what a name may be, without the spaces around it
  EmptyName,     \* no name at all
  EditorTexts,   \* what a value may be typed as
  NumberOf,      \* the texts that parse, and the text each number is written as
  MaxFields      \* bounds the fields of a document

\* A number is written as a text that parses as the same number.
ASSUME EditorAssumption ==
  /\ MaxFields \in Nat
  /\ EmptyName \notin EditorNames
  /\ \A text \in DOMAIN NumberOf :
       /\ NumberOf[text] \in (EditorTexts \cup {EmptyName}) \cap DOMAIN NumberOf
       /\ NumberOf[NumberOf[text]] = NumberOf[text]

VARIABLES
  editTab,      \* activeTab
  editFields,   \* fields
  editJson,     \* json
  editError,    \* error is not empty
  editDirty,    \* isDirty
  editInitial   \* initialJson

editVars == <<editTab, editFields, editJson, editError, editDirty, editInitial>>

Broken == <<[name |-> EmptyName, type |-> "no JSON object", value |-> EmptyName]>>
Refused == <<[name |-> EmptyName, type |-> "no document", value |-> EmptyName]>>

FieldTypes == {"string", "number", "null"}
Fields == [name : EditorNames \cup {EmptyName}, type : FieldTypes, text : EditorTexts \cup {EmptyName}]
FieldLists == UNION {[1..n -> Fields] : n \in 0..MaxFields}

\* A value is the text that it is written as; a null has none.
Parses(field) == field.type = "number" => field.text \in DOMAIN NumberOf
ParseFieldValue(field) ==
  CASE field.type = "string" -> field.text
    [] field.type = "number" -> NumberOf[field.text]
    [] field.type = "null" -> EmptyName

SerializeFieldValue(entry) == [name |-> entry.name, type |-> entry.type, text |-> entry.value]

FieldsToDocument(fields) ==
  IF \/ \E k \in DOMAIN fields : fields[k].name = EmptyName \/ ~Parses(fields[k])
     \/ \E k, l \in DOMAIN fields : k # l /\ fields[k].name = fields[l].name
  THEN Refused
  ELSE [k \in DOMAIN fields |-> [name |-> fields[k].name, type |-> fields[k].type,
                                 value |-> ParseFieldValue(fields[k])]]

DocumentToFields(document) ==
  [k \in DOMAIN document |-> SerializeFieldValue(document[k])]

Documents == {FieldsToDocument(fields) : fields \in FieldLists} \ {Refused}

EditorInit ==
  /\ editInitial \in Documents
  /\ editTab = "fields"
  /\ editFields = DocumentToFields(editInitial)
  /\ editJson = editInitial
  /\ editError = FALSE /\ editDirty = FALSE
-----------------------------------------------------------------------------
SetFieldsAndSync(fields) ==
  LET document == FieldsToDocument(fields) IN
  /\ editFields' = fields
  /\ editDirty' = TRUE
  /\ editError' = (document = Refused)
  /\ editJson' = IF document = Refused THEN editJson ELSE document
  /\ UNCHANGED <<editTab, editInitial>>

\* A name of their own is found for new fields.
AddField ==
  /\ editTab = "fields" /\ Len(editFields) < MaxFields
  /\ \E name \in EditorNames \ {editFields[k].name : k \in DOMAIN editFields} :
        SetFieldsAndSync(Append(editFields, [name |-> name, type |-> "string", text |-> EmptyName]))

UpdateField(k) ==
  \E field \in Fields :
    /\ \/ field.type = editFields[k].type /\ field.text = editFields[k].text
       \/ field.name = editFields[k].name /\ field.text = editFields[k].text
       \/ field.name = editFields[k].name /\ field.type = editFields[k].type
    /\ SetFieldsAndSync([editFields EXCEPT ![k] = field])

RemoveField(k) ==
  SetFieldsAndSync(SubSeq(editFields, 1, k - 1) \o SubSeq(editFields, k + 1, Len(editFields)))

EditFields ==
  /\ editTab = "fields"
  /\ \E k \in DOMAIN editFields : UpdateField(k) \/ RemoveField(k)

HandleJsonChange ==
  /\ editTab = "json"
  /\ editJson' \in Documents \cup {Broken}
  /\ editDirty' = (editJson' # editInitial)
  /\ editError' = (editJson' = Broken)
  /\ editFields' = IF editJson' = Broken THEN editFields ELSE DocumentToFields(editJson')
  /\ UNCHANGED <<editTab, editInitial>>

\* A tab whose content is no document is not left, and shows its error.
SwitchToJson ==
  LET document == FieldsToDocument(editFields) IN
  /\ editTab = "fields"
  /\ IF document = Refused
     THEN editError' = TRUE /\ UNCHANGED <<editTab, editJson>>
     ELSE editError' = FALSE /\ editTab' = "json" /\ editJson' = document
  /\ UNCHANGED <<editFields, editDirty, editInitial>>

\* Mutant: the tab opens whatever the text is.
SwitchToFieldsAnyway ==
  /\ editTab = "json"
  /\ editTab' = "fields"
  /\ editFields' = IF editJson = Broken THEN editFields ELSE DocumentToFields(editJson)
  /\ UNCHANGED <<editJson, editError, editDirty, editInitial>>

SwitchToFields ==
  /\ editTab = "json"
  /\ IF editJson = Broken
     THEN editError' = TRUE /\ UNCHANGED <<editTab, editFields>>
     ELSE editTab' = "fields" /\ editFields' = DocumentToFields(editJson) /\ UNCHANGED editError
  /\ UNCHANGED <<editJson, editDirty, editInitial>>

EditorNext ==
  AddField \/ EditFields \/ HandleJsonChange \/ SwitchToJson \/ SwitchToFields
EditorSpec == EditorInit /\ [][EditorNext]_editVars
-----------------------------------------------------------------------------
\* The tabs and what they hold.
EditorTypeOK ==
  /\ editTab \in {"fields", "json"}
  /\ editFields \in FieldLists
  /\ editInitial \in Documents /\ editJson \in Documents \cup {Broken}
  /\ {editError, editDirty} \subseteq BOOLEAN

\* What the save button, which an error disables, hands to the page.
SavedDocument == IF editTab = "fields" THEN FieldsToDocument(editFields) ELSE editJson
HasUnsavedChanges == editDirty \/ editJson # editInitial

\* The panel never says one thing and holds another: it shows an error
\* exactly while the open tab holds no document, otherwise both tabs hold the
\* document that would be saved, and a panel that closes without asking has
\* nothing in it but the document it opened with.
EditorIsHonest ==
  /\ editError <=> SavedDocument \in {Refused, Broken}
  /\ ~editError => editJson = SavedDocument /\ FieldsToDocument(editFields) = SavedDocument
  /\ ~HasUnsavedChanges => SavedDocument = editInitial
=============================================================================
