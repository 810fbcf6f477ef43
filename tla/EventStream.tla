----------------------------- MODULE EventStream -----------------------------
(***************************************************************************)
(* From the commit of a mutation to the SSE client: the handlers and the   *)
(* TTL purge that commit events and publish them to the subscriptions of   *)
(* one collection, the subscriptions' bounded channels, the subscribe      *)
(* handler with its replay and its duplicate filter, and a client that     *)
(* reconnects with the id of the last event it received.                   *)
(*                                                                         *)
(* A handler publishes before it releases the database's write lock, the   *)
(* purge after.  An event is its sequence number and who recorded it; a    *)
(* transient event (publish, presence) has number 0.                       *)
(***************************************************************************)
EXTENDS Integers, Sequences, FiniteSets, SequencesExt

CONSTANTS
  Handlers,      \* request goroutines that mutate or publish
  Purger,        \* the TTL worker
  MaxConns,      \* bound: connections the client ever makes, in order
  Nobody,        \* the lock is free; the client has no connection
  Capacity,      \* capacity of a subscription's channel
  MaxRetained,   \* maxRetainedEvents
  ReplayLimit,   \* the limit handleSubscribe passes to ReplayEvents
  MaxBatch,      \* MaxTransactionOps
  MaxEvents         \* bound: events ever recorded

ASSUME StreamAssumption ==
  /\ Purger \notin Handlers /\ Nobody \notin Handlers \cup {Purger} \cup Nat
  /\ Capacity \in Nat \ {0} /\ ReplayLimit \in Nat \ {0}
  /\ MaxRetained \in Nat /\ MaxBatch \in Nat /\ MaxEvents \in Nat
  /\ MaxConns \in Nat

Publishers == Handlers \cup {Purger}
Conns == 1 .. MaxConns
Event == [seq : 0 .. MaxEvents, by : Publishers]

VARIABLES
  log,      \* retained events, oldest first
  lastSeq,      \* last sequence number given out
  lock,     \* holder of the database's write lock
  pub,      \* per publisher: events still to publish, subscriptions to drop
  conn,     \* per connection: the Subscription and the handler serving it
  client    \* the client: its connection and the numbers it received

eventVars == <<log, lastSeq, lock, pub, conn, client>>

Quiet == [todo |-> << >>, slow |-> {}, closing |-> {}]

NewConn == [ st |-> "new", registered |-> FALSE, closed |-> FALSE,
             ch |-> << >>, replay |-> << >>, lastSent |-> 0 ]

EventsTypeOK ==
  /\ log \in Seq(Event) /\ lastSeq \in 0 .. MaxEvents
  /\ lock \in Handlers \cup {Nobody}
  /\ pub \in [Publishers ->
       [todo : Seq(Event), slow : SUBSET Conns, closing : SUBSET Conns]]
  /\ conn \in [Conns ->
       [ st : {"new", "opened", "replaying", "live", "ended"},
         registered : BOOLEAN, closed : BOOLEAN,
         ch : Seq(Event), replay : Seq(Event), lastSent : 0 .. MaxEvents ]]
  /\ \A c \in Conns : Len(conn[c].ch) <= Capacity
  /\ client \in [cur : Conns \cup {Nobody}, got : Seq(1 .. MaxEvents)]

EventsInit ==
  /\ log = << >> /\ lastSeq = 0 /\ lock = Nobody
  /\ pub = [p \in Publishers |-> Quiet]
  /\ conn = [c \in Conns |-> NewConn]
  /\ client = [cur |-> Nobody, got |-> << >>]

SeqRange(s) == { s[k] : k \in 1 .. Len(s) }
Larger(m, n) == IF m > n THEN m ELSE n
Smaller(m, n) == IF m < n THEN m ELSE n

-----------------------------------------------------------------------------
(* Publishers.                                                             *)

Drop(s, n) == SubSeq(s, n + 1, Len(s))

\* recordEventTx for each of the events of a transaction: each is appended,
\* and the log trimmed by what the committed log had in excess.
Recorded(events) ==
  LET grown == log \o events
      excess == Larger(0, Len(log) - MaxRetained)
  IN  Drop(grown, Smaller(Len(events) * excess, Len(grown)))

Committed(p, n) == [k \in 1 .. n |-> [seq |-> lastSeq + k, by |-> p]]

\* A mutation commits under the write lock and keeps it to publish.
Mutate(h, n) ==
  /\ lock = Nobody /\ pub[h] = Quiet
  /\ lastSeq + n <= MaxEvents
  /\ log' = Recorded(Committed(h, n)) /\ lastSeq' = lastSeq + n
  /\ lock' = h   \* released by Release, once everything is published
  /\ pub' = [pub EXCEPT ![h].todo = Committed(h, n)]
  /\ UNCHANGED <<conn, client>>

\* The purge commits under the write lock and releases it before it publishes.
Purge(n) ==
  /\ lock = Nobody /\ pub[Purger] = Quiet
  /\ lastSeq + n <= MaxEvents
  /\ log' = Recorded(Committed(Purger, n)) /\ lastSeq' = lastSeq + n
  /\ pub' = [pub EXCEPT ![Purger].todo = Committed(Purger, n)]
  /\ UNCHANGED <<lock, conn, client>>

\* handlePublish and the presence handlers take no lock.
PublishWithoutRecord(h) ==
  /\ lock # h /\ pub[h] = Quiet
  /\ pub' = [pub EXCEPT ![h].todo = << [seq |-> 0, by |-> h] >>]
  /\ UNCHANGED <<log, lastSeq, lock, conn, client>>

Registered == { c \in Conns : conn[c].registered }

\* Mutant: a channel never counts as full.
FullNever == {}

Full == { c \in Registered : Len(conn[c].ch) = Capacity }

\* Mutant: an event that does not fit is skipped, and nobody is told.
PublishSkipsFull(p) ==
  /\ pub[p].todo # << >> /\ pub[p].slow = {} /\ pub[p].closing = {}
  /\ conn' = [c \in Conns |->
       IF c \notin Registered \ Full THEN conn[c]
       ELSE [conn[c] EXCEPT !.ch = Append(conn[c].ch, Head(pub[p].todo))]]
  /\ pub' = [pub EXCEPT ![p].todo = Tail(pub[p].todo)]
  /\ UNCHANGED <<log, lastSeq, lock, client>>

\* PublishEvent up to the release of subMu: a full channel makes a slow
\* subscription.
PublishEvent(p) ==
  /\ pub[p].todo # << >> /\ pub[p].slow = {} /\ pub[p].closing = {}
  /\ conn' = [c \in Conns |->
       IF c \notin Registered \ Full THEN conn[c]
       ELSE [conn[c] EXCEPT !.ch = Append(conn[c].ch, Head(pub[p].todo))]]
  /\ pub' = [pub EXCEPT ![p].todo = Tail(pub[p].todo), ![p].slow = Full]
  /\ UNCHANGED <<log, lastSeq, lock, client>>

\* Mutant: the slow subscription stays registered when it is closed.
DropSlowStaysRegistered(p, c) ==
  /\ c \in pub[p].slow /\ pub[p].closing = {}
  /\ pub' = [pub EXCEPT ![p].slow = pub[p].slow \ {c}, ![p].closing = {c}]
  /\ UNCHANGED <<log, lastSeq, lock, conn, client>>

\* Unsubscribe of one slow subscription.
DropSlow(p, c) ==
  /\ c \in pub[p].slow /\ pub[p].closing = {}
  /\ conn' = [conn EXCEPT ![c].registered = FALSE]
  /\ pub' = [pub EXCEPT ![p].slow = pub[p].slow \ {c}, ![p].closing = {c}]
  /\ UNCHANGED <<log, lastSeq, lock, client>>

CloseSlow(p, c) ==
  /\ c \in pub[p].closing
  /\ conn' = [conn EXCEPT ![c].closed = TRUE]
  /\ pub' = [pub EXCEPT ![p].closing = {}]
  /\ UNCHANGED <<log, lastSeq, lock, client>>

\* The mutation's handler returns: its deferred unlock.
Release(h) ==
  /\ lock = h /\ pub[h] = Quiet
  /\ lock' = Nobody
  /\ UNCHANGED <<log, lastSeq, pub, conn, client>>

-----------------------------------------------------------------------------
(* The subscribe handler and the client.                                   *)

\* The client opens its next connection, sending as Last-Event-ID the last
\* number it received; the handler registers the subscription.
Connect(c) ==
  /\ client.cur = Nobody
  /\ conn[c].st = "new" /\ \A b \in 1 .. c - 1 : conn[b].st # "new"
  /\ conn' = [conn EXCEPT ![c].st = "opened", ![c].registered = TRUE,
       ![c].lastSent = IF client.got = << >> THEN 0 ELSE Last(client.got)]
  /\ client' = [client EXCEPT !.cur = c]
  /\ UNCHANGED <<log, lastSeq, lock, pub>>

\* ReplayEvents reads the retained events after the given one, up to a limit.
After(n) ==
  LET later == { k \in 1 .. Len(log) : log[k].seq > n }
      first == Min(later)
  IN  IF later = {} THEN << >>
      ELSE SubSeq(log, first, Smaller(first + ReplayLimit - 1, Len(log)))

ReadReplay(c) ==
  /\ conn[c].st = "opened"
  /\ conn' = [conn EXCEPT ![c].st = "replaying",
       ![c].replay = IF conn[c].lastSent = 0 THEN << >> ELSE After(conn[c].lastSent)]
  /\ UNCHANGED <<log, lastSeq, lock, pub, client>>

\* writeSSEEvent reaches the client while this is its connection.
Receive(c, e) ==
  client' = IF client.cur = c /\ e.seq > 0
            THEN [client EXCEPT !.got = Append(client.got, e.seq)]
            ELSE client

SendReplay(c) ==
  /\ conn[c].st = "replaying" /\ conn[c].replay # << >>
  /\ LET e == Head(conn[c].replay) IN
       /\ Receive(c, e)
       /\ conn' = [conn EXCEPT ![c].replay = Tail(conn[c].replay),
                               ![c].lastSent = Larger(e.seq, conn[c].lastSent)]
  /\ UNCHANGED <<log, lastSeq, lock, pub>>

\* After the replay comes the presence snapshot, which has no number.
GoLive(c) ==
  /\ conn[c].st = "replaying" /\ conn[c].replay = << >>
  /\ conn' = [conn EXCEPT ![c].st = "live"]
  /\ UNCHANGED <<log, lastSeq, lock, pub, client>>

\* Mutant: an event seen before is sent again.
IsDuplicateNever(c, e) == FALSE

IsDuplicate(c, e) == e.seq > 0 /\ e.seq <= conn[c].lastSent

Forward(c) ==
  /\ conn[c].st = "live" /\ conn[c].ch # << >>
  /\ LET e == Head(conn[c].ch)
         rest == [conn EXCEPT ![c].ch = Tail(conn[c].ch)] IN
       IF IsDuplicate(c, e) THEN conn' = rest /\ UNCHANGED client
       ELSE /\ Receive(c, e)
            /\ conn' = [rest EXCEPT ![c].lastSent = Larger(e.seq, conn[c].lastSent)]
  /\ UNCHANGED <<log, lastSeq, lock, pub>>

Ended(old) == [NewConn EXCEPT !.st = "ended", !.closed = old.closed]

\* The handler returns when it finds its channel closed and drained, or when
\* the client has gone; the deferred Unsubscribe runs.
HandlerEnds(c) ==
  /\ conn[c].st \in {"opened", "replaying", "live"}
  /\ \/ conn[c].st = "live" /\ conn[c].closed /\ conn[c].ch = << >>
     \/ client.cur # c
  /\ conn' = [conn EXCEPT ![c] = Ended(conn[c])]
  /\ client' = IF client.cur = c THEN [client EXCEPT !.cur = Nobody] ELSE client
  /\ UNCHANGED <<log, lastSeq, lock, pub>>

\* The client goes away; the handler notices later.
Disconnect ==
  /\ client.cur # Nobody
  /\ client' = [client EXCEPT !.cur = Nobody]
  /\ UNCHANGED <<log, lastSeq, lock, pub, conn>>

\* The process dies: what was committed stays, what was to be published goes.
EventsCrash ==
  /\ lock' = Nobody
  /\ pub' = [p \in Publishers |-> Quiet]
  /\ conn' = [c \in Conns |->
       IF conn[c].st = "new" THEN conn[c]
       ELSE Ended(conn[c])]
  /\ client' = [client EXCEPT !.cur = Nobody]
  /\ UNCHANGED <<log, lastSeq>>

Publication(p) ==
  \/ PublishEvent(p)
  \/ \E c \in Conns : DropSlow(p, c) \/ CloseSlow(p, c)

Serving(c) ==
  ReadReplay(c) \/ SendReplay(c) \/ GoLive(c) \/ Forward(c) \/ HandlerEnds(c)

Running ==
  \/ \E h \in Handlers :
       \/ \E n \in 1 .. MaxBatch : Mutate(h, n)
       \/ PublishWithoutRecord(h) \/ Release(h)
  \/ \E n \in 1 .. MaxBatch : Purge(n)
  \/ \E p \in Publishers : Publication(p)
  \/ \E c \in Conns : Connect(c) \/ Serving(c)
  \/ Disconnect

EventsNext == Running \/ EventsCrash

EventsSpec == EventsInit /\ [][EventsNext]_eventVars

-----------------------------------------------------------------------------
(* Properties.                                                             *)

\* A send on a closed channel panics the server.  Whoever closes a channel has
\* taken it out of the map first, under the lock publishers send under.
ClosedIsUnregistered ==
  \A c \in Conns : conn[c].closed => ~conn[c].registered

\* The numbers a client receives only grow, over all its connections: the
\* replay, the live events that overlap it and a reconnection never repeat
\* or reorder an event.
ReceivedInOrder ==
  \A k \in 2 .. Len(client.got) : client.got[k - 1] < client.got[k]

\* The client's connection is served, has nothing to send, and nobody is
\* publishing.
Drained ==
  /\ \A p \in Publishers : pub[p] = Quiet
  /\ client.cur # Nobody
  /\ conn[client.cur].st = "live" /\ conn[client.cur].registered
  /\ conn[client.cur].ch = << >>

\* After the first mutation of a request that the client received, it misses
\* none but events of the purge, neither before the last it received nor once
\* its connection is drained: overflow, disconnects, reconnects, overlapping
\* replays and crashes lose no mutation (while the log retains it).
OnlyPurgesAreMissed ==
  \A first, e \in SeqRange(log) :
    /\ first.by \in Handlers /\ first.seq \in SeqRange(client.got)
    /\ e.by \in Handlers /\ first.seq < e.seq
    /\ e.seq < Last(client.got) \/ Drained
    => e.seq \in SeqRange(client.got)

\* docs/audit/audit-003.md: after a reconnection with Last-Event-ID "missed
\* retained events replay in order": none retained at the replay is left out.
ReplayIsComplete ==
  [][ \A c \in Conns : ReadReplay(c) /\ conn[c].lastSent > 0 =>
        \A e \in SeqRange(log) :
          e.seq > conn[c].lastSent => e \in SeqRange(conn'[c].replay) ]_eventVars

-----------------------------------------------------------------------------
(* Progress: publishers run on and the client reads, crashes or none.       *)

EventsFairness ==
  /\ \A p \in Publishers : WF_eventVars(Publication(p))
  /\ \A c \in Conns : WF_eventVars(Serving(c))

EventsLiveSpec == EventsSpec /\ EventsFairness

HasFollowed ==
  \E e \in SeqRange(log) : e.by \in Handlers /\ e.seq \in SeqRange(client.got)

\* Event n is on its way to a connected client that has received a mutation.
Awaited(n) ==
  /\ client.cur # Nobody /\ HasFollowed /\ n <= lastSeq
  /\ \A k \in 1 .. Len(client.got) : client.got[k] < n
  /\ ~ \E e \in SeqRange(log) : e.seq = n /\ e.by = Purger

\* A client that has received a mutation and stays connected receives every
\* later mutation of a request, or a later event, or is disconnected: once
\* nothing more is published, it awaits nothing.
ClientCatchesUp ==
  (\E n \in 1 .. MaxEvents : Awaited(n)) ~> ~ \E n \in 1 .. MaxEvents : Awaited(n)
=============================================================================
