------------------------------ MODULE Presence ------------------------------
(***************************************************************************)
(* The presence list of one collection and what a subscriber makes of its  *)
(* events (presence.go, handlers_presence.go).                             *)
(*                                                                         *)
(* Heartbeats, leaves and the eviction change the list under presenceMu    *)
(* and publish afterwards, without it.  A subscriber starts from a         *)
(* snapshot and merges the events by client id, as the integration guide   *)
(* advises.                                                                *)
(***************************************************************************)
EXTENDS Naturals, Sequences, SequencesExt, FiniteSets

CONSTANTS
  Clients,
  Requests,  \* goroutines of heartbeat and leave requests
  Evictor    \* the goroutine of StartPresenceEvictionWorker

VARIABLES
  entry,  \* entry[c]: "absent", "fresh", or "expired"
  todo,   \* todo[p]: the events p has still to publish
  view    \* the clients that the last subscriber takes to be present

presenceVars == <<entry, todo, view>>

Publishers == Requests \cup {Evictor}
Joined(c) == [action |-> "presence_join", client |-> c]
Changed(c) == [action |-> "presence_update", client |-> c]
Left(c) == [action |-> "presence_leave", client |-> c]

Init ==
  /\ entry = [c \in Clients |-> "absent"]
  /\ todo = [p \in Publishers |-> << >>]
  /\ view = {}

Events(p, events) == todo[p] = << >> /\ todo' = [todo EXCEPT ![p] = events]

\* The expiry of an entry passes.
Expire(c) ==
  /\ entry[c] = "fresh"
  /\ entry' = [entry EXCEPT ![c] = "expired"]
  /\ UNCHANGED <<todo, view>>

\* A heartbeat finds an entry until it is evicted, expired or not; with other
\* metadata than before it is an update.
Heartbeat(r, c) ==
  /\ entry' = [entry EXCEPT ![c] = "fresh"]
  /\ IF entry[c] = "absent" THEN Events(r, << Joined(c) >>)
     ELSE Events(r, << >>) \/ Events(r, << Changed(c) >>)
  /\ UNCHANGED view

LeavePresence(r, c) ==
  /\ entry[c] # "absent"
  /\ entry' = [entry EXCEPT ![c] = "absent"]
  /\ Events(r, << Left(c) >>)
  /\ UNCHANGED view

\* evictExpiredPresence removes what has expired, and then publishes.
Evict ==
  LET gone == { c \in Clients : entry[c] = "expired" } IN
  /\ gone # {}
  /\ entry' = [c \in Clients |-> IF c \in gone THEN "absent" ELSE entry[c]]
  /\ \E order \in SetToAllKPermutations(gone) :
       /\ Len(order) = Cardinality(gone)
       /\ Events(Evictor, [k \in 1 .. Len(order) |-> Left(order[k])])
  /\ UNCHANGED view

\* PublishEvent, and the subscriber merges the event.
Publish(p) ==
  /\ todo[p] # << >>
  /\ LET e == Head(todo[p]) IN
       view' = IF e.action = "presence_leave" THEN view \ {e.client}
               ELSE view \cup {e.client}
  /\ todo' = [todo EXCEPT ![p] = Tail(todo[p])]
  /\ UNCHANGED entry

\* A new subscriber starts from a presence_state, which lists what has not
\* expired.
Subscribe ==
  /\ view' = { c \in Clients : entry[c] = "fresh" }
  /\ UNCHANGED <<entry, todo>>

Next ==
  \/ \E c \in Clients :
       Expire(c) \/ \E r \in Requests : Heartbeat(r, c) \/ LeavePresence(r, c)
  \/ Evict \/ Subscribe
  \/ \E p \in Publishers : Publish(p)

Spec == Init /\ [][Next]_presenceVars

-----------------------------------------------------------------------------
\* docs/integration-guide.md: "Treat `presence_state` as the initial source of
\* truth, then merge live presence events by `client_id`": once everything is
\* published, who sends heartbeats is in the subscriber's view.
FreshClientsAreSeen ==
  (\A p \in Publishers : todo[p] = << >>) =>
    { c \in Clients : entry[c] = "fresh" } \subseteq view
=============================================================================
