\* Two collections of one document, two events, one second; two operations
\* and room for one record; two keys with a life of two ticks; two collections
\* with schemas, two writes at a time, and room for one compiled schema.
CONSTANTS
  Jobs = {j1, j2}
  MaxTracked = 1
  MaxIndexes = 1
  Tokens = {t1, t2}
  Lifetime = 2
  MaxRevocationTime = 5
  SchemaCollections = {c1, c2}
  Writers = {w1, w2}
  MaxCachedSchemas = 1
  MaxChanges = 2
  Collections <- TwoCollections
  Fields <- OneField
  Ids = {i1}
  Vals = {v1}
  Absent = Absent
  NoDoc = NoDoc
  NoTTL = NoTTL
  NoCount = NoCount
  NoBucket = NoBucket
  NoTx = NoTx
  Star = Star
  TTLs = {1}
  MaxRetainedEvents = 2
  MaxTransactionOps = 2
  MaxTime = 1
  MaxSeq = 2
SPECIFICATION ServerSpec
INVARIANTS
  ServerTypeOK
  RecordTellsOutcome
  RevokedStaysOut
  NeverJudgedByAnOlder
PROPERTIES
  FinalStaysFinal
  OperationsEnd
  ExpiredDocumentsGo
CHECK_DEADLOCK FALSE
