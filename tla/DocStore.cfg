\* TTL, counts and events of one collection: expiry, purge, rewrites, crashes.
\* Search: two documents of two fields, two configurations at a time, a
\* document a batch, one operation in a transaction (FullText.cfg has three).
CONSTANTS
  Collections <- OneCollection
  Fields <- OneField
  Ids = {i1, i2}
  Vals = {v1}
  Absent = Absent
  NoDoc = NoDoc
  NoTTL = NoTTL
  NoCount = NoCount
  NoBucket = NoBucket
  NoTx = NoTx
  Star = Star
  TTLs = {1}
  MaxRetainedEvents = 1
  MaxTransactionOps = 2
  MaxTime = 2
  MaxSeq = 4
  FtsIds = {1, 2}
  FtsFields = {f, g}
  Words = {x}
  NoText = NoText
  NoFile = NoFile
  FtsBuilders = {b1, b2}
  FtsBatchSize = 1
  FtsMaxOps = 1
SPECIFICATION DatabaseSpec
SYMMETRY IdSymmetry
INVARIANTS
  DatabaseTypeOK
  CountsMatchDocuments
  TTLBucketsAgree
  RetainedLogHasNoGap
  NewestEventIsTheDocument
  SearchReturnsNoStale
  SearchFindsAll
PROPERTIES
  PurgeTakesOnlyExpired
  ChangesAreLogged
  ImplementsDocumentMap
