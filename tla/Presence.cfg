\* One client, one request at a time, and the evictor.
CONSTANTS
  Clients = {c1}
  Requests = {r1}
  Evictor = Evictor
SPECIFICATION Spec
INVARIANT FreshClientsAreSeen
CHECK_DEADLOCK FALSE
