\* Two goroutines, one of which may delete databases, and one cache entry;
\* one build at a time over two fields, a document a batch, against writes,
\* deletions, cancellation and crashes.
CONSTANTS
  Databases = {d1, d2}
  Clients = {c1, c2}
  Deleters = {c1}
  Nobody = Nobody
  CacheEntries = 1
  MaxCalls = 2
  Collections <- OneCollection
  Fields <- TwoFields
  Ids = {1, 2}
  Vals = {v1, v2}
  Builders = {b1}
  BatchSize = 1
  Absent = Absent
  NoDoc = NoDoc
  NoTTL = NoTTL
  NoCount = NoCount
  NoBucket = NoBucket
  MaxRetainedEvents = 1
SPECIFICATION Spec
INVARIANTS
  TypeOK
  NoTransactionOnClosedDatabase
  CompletedIndexIsExact
  BackfillMissesNothing
PROPERTIES
  EveryCallReturns
  BuildEnds
CHECK_DEADLOCK FALSE
