---------------------------- MODULE SchemasPage ----------------------------
(***************************************************************************)
(* The schema editor (SchemasClient.tsx, schemas/page.tsx, its server      *)
(* actions and lib/schemas/service.ts).  One schema is edited in two tabs: *)
(* a builder, which shows the top-level fields, and the raw text.  A text  *)
(* may say more than the builder shows; what the builder writes never      *)
(* does.  That fields may be required and that other fields may be allowed *)
(* is part of what a field list stands for.                                *)
(***************************************************************************)
EXTENDS Naturals, Sequences, SequencesExt

CONSTANTS
  SchCollections,  \* the collections of the project
  SchNames,        \* names of fields
  SchEmpty,        \* a field without a name
  NoSchema,        \* no schema, no call
  MaxSchFields     \* bounds the fields of a schema

ASSUME SchemasAssumption == MaxSchFields \in Nat /\ SchEmpty \notin SchNames

VARIABLES
  schCore,     \* the schema of each collection in Core
  schShown,    \* selectedCollection
  schProp,     \* schemaText, the schema of the page last loaded
  schText,     \* schema
  schFields,   \* schemaFields
  schTab,      \* schemaTab
  schError,    \* schemaError is not empty
  schSaved,    \* schemaWasSaved
  schDeleting, \* deleting
  schCall      \* the server action that has been sent, and its result

schVars == <<schCore, schShown, schProp, schText, schFields, schTab, schError, schSaved,
             schDeleting, schCall>>
schDraftVars == <<schText, schFields, schTab, schError>>
schPageVars == <<schShown, schProp>>

FieldNames == UNION {[1..n -> SchNames] : n \in 0..MaxSchFields}
BuilderLists == UNION {[1..n -> SchNames \cup {SchEmpty}] : n \in 0..MaxSchFields}
Schemas == [fields : {names \in FieldNames : IsInjective(names)}, more : BOOLEAN]
BrokenSchema == [fields |-> <<SchEmpty>>, more |-> TRUE]
EmptySchema == [fields |-> <<>>, more |-> FALSE]
Text(schema) == IF schema = NoSchema THEN EmptySchema ELSE schema

\* What the builder makes of a text, and the text it makes of its fields.
SchemaToFields(text) == text.fields
FieldsToSchemaText(fields) ==
  IF IsInjective(fields) /\ SchEmpty \notin ToSet(fields)
  THEN [fields |-> fields, more |-> FALSE] ELSE BrokenSchema

SchemasInit ==
  /\ schCore \in [SchCollections -> Schemas \cup {NoSchema}]
  /\ schShown \in SchCollections
  /\ schProp = schCore[schShown]
  /\ schText = Text(schProp) /\ schFields = SchemaToFields(schText)
  /\ schTab = "fields" /\ schError = FALSE
  /\ schSaved = (schProp # NoSchema)
  /\ schDeleting = FALSE /\ schCall = NoSchema
-----------------------------------------------------------------------------
CanEditSchema == schCall = NoSchema

SyncSchemaModel(fields) ==
  LET text == FieldsToSchemaText(fields) IN
  /\ schFields' = fields
  /\ schError' = (text = BrokenSchema)
  /\ schText' = IF text = BrokenSchema THEN schText ELSE text
  /\ UNCHANGED schTab

\* A new field is given a name of its own.
AddSchemaField ==
  /\ Len(schFields) < MaxSchFields
  /\ \E name \in SchNames \ ToSet(schFields) : SyncSchemaModel(Append(schFields, name))
UpdateSchemaField ==
  \E k \in DOMAIN schFields, name \in SchNames \cup {SchEmpty} :
    SyncSchemaModel([schFields EXCEPT ![k] = name])
DeleteSchemaField ==
  \E k \in DOMAIN schFields : SyncSchemaModel(RemoveAt(schFields, k))

\* The box that allows other fields is closed to the pointer during a call,
\* and open to the keyboard.
ToggleAllowExtra ==
  /\ schFields # <<>> \/ schSaved
  /\ SyncSchemaModel(schFields)

UseBuilder ==
  /\ schTab = "fields"
  /\ \/ ToggleAllowExtra
     \/ CanEditSchema /\ (AddSchemaField \/ UpdateSchemaField \/ DeleteSchemaField)

\* A text that parses and is no object has no fields to show, and no error:
\* it stands among those that say more than the builder shows, which Core may
\* refuse.
HandleSchemaChange ==
  /\ schTab = "json" /\ CanEditSchema
  /\ schText' \in Schemas \cup {BrokenSchema}
  /\ schError' = (schText' = BrokenSchema)
  /\ schFields' = IF schText' = BrokenSchema THEN schFields ELSE SchemaToFields(schText')
  /\ UNCHANGED schTab

\* The text is written again on the way out of the builder; nothing is done
\* on the way back, so the error of a broken text stays.
HandleSchemaTabChange ==
  /\ schTab' \in {"fields", "json"} \ {schTab}
  /\ LET text == FieldsToSchemaText(schFields) IN
     IF schTab = "json" THEN UNCHANGED <<schText, schError>>
     ELSE IF text = BrokenSchema THEN schError' = TRUE /\ UNCHANGED schText
     ELSE schText' = text /\ UNCHANGED schError
  /\ UNCHANGED schFields

EditSchema ==
  /\ UseBuilder \/ HandleSchemaChange \/ HandleSchemaTabChange
  /\ UNCHANGED <<schCore, schPageVars, schSaved, schDeleting, schCall>>

CurrentSchemaText == IF schTab = "json" THEN schText ELSE FieldsToSchemaText(schFields)

\* A save or a validation of the open tab; an error disables both buttons.
SendSchema(kind) ==
  /\ CanEditSchema /\ ~schError
  /\ IF CurrentSchemaText = BrokenSchema
     THEN schError' = TRUE /\ UNCHANGED <<schText, schCall>>
     ELSE /\ schCall' = [kind |-> kind, collection |-> schShown, schema |-> CurrentSchemaText,
                         result |-> "sent"]
          /\ schText' = CurrentSchemaText
          /\ UNCHANGED schError
  /\ UNCHANGED <<schFields, schTab, schDeleting>>

AskToDeleteSchema ==
  /\ schSaved /\ CanEditSchema
  /\ schDeleting' = TRUE
  /\ UNCHANGED <<schDraftVars, schCall>>
CancelDeleteSchema ==
  /\ schDeleting' = FALSE
  /\ UNCHANGED <<schDraftVars, schCall>>

\* The modal does not know of a call that is pending; a second click waits
\* for the first, and what it deletes is gone already.
ConfirmDeleteSchema ==
  /\ schDeleting /\ schCall = NoSchema
  /\ schCall' = [kind |-> "delete", collection |-> schShown, schema |-> EmptySchema,
                 result |-> "sent"]
  /\ UNCHANGED <<schDraftVars, schDeleting>>

UseSchemaButtons ==
  /\ SendSchema("validate") \/ SendSchema("save") \/ AskToDeleteSchema \/ CancelDeleteSchema
     \/ ConfirmDeleteSchema
  /\ UNCHANGED <<schCore, schPageVars, schSaved>>

SetSchema(schema) == schCore' = [schCore EXCEPT ![schCall.collection] = schema]

\* Core checks a schema; a call may fail on the way to it.
RunSchemaAction ==
  /\ schCall # NoSchema /\ schCall.result = "sent"
  /\ \/ /\ schCall' = [schCall EXCEPT !.result = "success"]
        /\ CASE schCall.kind = "save" -> SetSchema(schCall.schema)
             [] schCall.kind = "delete" -> SetSchema(NoSchema)
             [] schCall.kind = "validate" -> UNCHANGED schCore
     \/ /\ schCall' = [schCall EXCEPT !.result = "error"]
        /\ UNCHANGED schCore
  /\ UNCHANGED <<schPageVars, schDraftVars, schSaved, schDeleting>>

\* The answer changes the screen, whatever collection it shows by now.
AnswerValidate ==
  /\ schError' = (schCall.result = "error")
  /\ UNCHANGED <<schText, schFields, schSaved, schDeleting>>
AnswerSaveSchema ==
  /\ schError' = (schCall.result = "error")
  /\ schSaved' = (schSaved \/ schCall.result = "success")
  /\ UNCHANGED <<schText, schFields, schDeleting>>
\* Mutant: the builder is not reset.
AnswerDeleteKeepsFields ==
  /\ schDeleting' = FALSE
  /\ IF schCall.result = "success"
     THEN /\ schText' = EmptySchema /\ schSaved' = FALSE /\ schError' = FALSE
          /\ UNCHANGED schFields
     ELSE UNCHANGED <<schText, schFields, schSaved, schError>>

AnswerDeleteSchema ==
  /\ schDeleting' = FALSE
  /\ IF schCall.result = "success"
     THEN /\ schText' = EmptySchema /\ schFields' = SchemaToFields(EmptySchema)
          /\ schSaved' = FALSE /\ schError' = FALSE
     ELSE UNCHANGED <<schText, schFields, schSaved, schError>>

AnswerSchemaAction ==
  /\ schCall # NoSchema /\ schCall.result # "sent"
  /\ schCall' = NoSchema
  /\ CASE schCall.kind = "validate" -> AnswerValidate
       [] schCall.kind = "save" -> AnswerSaveSchema
       [] schCall.kind = "delete" -> AnswerDeleteSchema
  /\ UNCHANGED <<schCore, schPageVars, schTab>>
-----------------------------------------------------------------------------
GetProjectSchema(c, failed) == IF failed THEN NoSchema ELSE schCore[c]

\* A page for any collection may arrive at any time; a failed load shows no
\* schema.  The draft is replaced when the text or the collection is another
\* one.  To the browser it is the same whether another client's write comes
\* between the reading and the arrival or just after it.
LoadSchemaPage(c, failed) ==
  /\ schShown' = c
  /\ schProp' = GetProjectSchema(c, failed)
  /\ IF schShown' = schShown /\ schProp' = schProp
     THEN UNCHANGED <<schDraftVars, schSaved>>
     ELSE /\ schText' = Text(schProp') /\ schFields' = SchemaToFields(schText')
          /\ schTab' = "fields" /\ schError' = FALSE
          /\ schSaved' = (schProp' # NoSchema)
  /\ UNCHANGED <<schCore, schDeleting, schCall>>

OtherSetsSchema ==
  /\ \E c \in SchCollections, schema \in Schemas \cup {NoSchema} :
       schCore' = [schCore EXCEPT ![c] = schema]
  /\ UNCHANGED <<schPageVars, schDraftVars, schSaved, schDeleting, schCall>>

SchemasNext ==
  EditSchema \/ UseSchemaButtons \/ RunSchemaAction \/ AnswerSchemaAction
  \/ (\E c \in SchCollections, failed \in BOOLEAN : LoadSchemaPage(c, failed)) \/ OtherSetsSchema
SchemasSpec == SchemasInit /\ [][SchemasNext]_schVars
-----------------------------------------------------------------------------
\* The schemas, the draft in the two tabs, and the call.
SchemasTypeOK ==
  /\ schCore \in [SchCollections -> Schemas \cup {NoSchema}]
  /\ schShown \in SchCollections /\ schProp \in Schemas \cup {NoSchema}
  /\ schText \in Schemas \cup {BrokenSchema} /\ schFields \in BuilderLists
  /\ schTab \in {"fields", "json"}
  /\ {schError, schSaved, schDeleting} \subseteq BOOLEAN
  /\ schCall \in {NoSchema} \cup
       [kind : {"validate", "save", "delete"}, collection : SchCollections, schema : Schemas,
        result : {"sent", "success", "error"}]

\* Without an error on the screen the builder shows the fields of the text,
\* whichever of the two was edited, reset or replaced last.
BuilderShowsTheText ==
  ~schError => /\ schText # BrokenSchema
               /\ schFields = SchemaToFields(schText)
=============================================================================
