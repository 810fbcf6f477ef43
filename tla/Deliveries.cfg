\* Mutations, purges, transient events, overflow, reconnects and crashes
\* before two connections; one event to one host with one slot, two workers, a
\* queue of one, and two of: transient event, retry, eviction, crash.
CONSTANTS
  Handlers = {h1}
  Purger = Purger
  Nobody = Nobody
  MaxConns = 2
  Capacity = 1
  MaxRetained = 4
  ReplayLimit = 4
  MaxBatch = 2
  MaxEvents = 2
  Workers = {w1, w2}
  Targets = {t1}
  QueueCapacity = 1
  TargetCapacity = 1
  MaxAttempts = 2
  Lease = 1
  MaxClaims = 1
  MaxSeq = 1
  MaxExtras = 2
SPECIFICATION DeliveriesSpec
INVARIANTS
  DeliveriesTypeOK
  ClosedIsUnregistered
  ReceivedInOrder
  OnlyPurgesAreMissed
  NothingIsLost
  SlotsComeBack
PROPERTIES
  ClientCatchesUp
  RowsSettle
