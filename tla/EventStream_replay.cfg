\* Counterexample: the replay stops at its limit below the end of the log.
CONSTANTS
  Handlers = {h1}
  Purger = Purger
  Nobody = Nobody
  MaxConns = 2
  Capacity = 1
  MaxRetained = 2
  ReplayLimit = 2
  MaxBatch = 3
  MaxEvents = 4
SPECIFICATION EventsSpec
PROPERTY
  ReplayIsComplete
