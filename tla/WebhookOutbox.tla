--------------------------- MODULE WebhookOutbox ---------------------------
(***************************************************************************)
(* The delivery of webhooks from the durable outbox of one database        *)
(* (webhook.go, events.go, event_log.go).                                  *)
(*                                                                         *)
(* A mutation commits a pending row with its event.  After the commit the  *)
(* event is offered to a bounded queue, which wakes a worker; a ticker     *)
(* wakes the workers too.  A worker claims rows in sequence order, calls   *)
(* the targets configured at that moment with no transaction open, and     *)
(* then deletes the row or counts a failed attempt.  A claim is a lease:   *)
(* nothing but its age protects it, and fail and delete do not ask whose   *)
(* it is.                                                                  *)
(*                                                                         *)
(* Before each call the worker takes a slot of its target's host: it looks *)
(* the channel of the host up in a table of the process, under a mutex,    *)
(* and then puts a token into the channel, without one.  In between the    *)
(* table may drop entries that are idle; a channel lives on with those who *)
(* hold it.                                                                *)
(*                                                                         *)
(* Time: next_attempt_at and the age of updated_at are kept as the number  *)
(* of ticks a row still has to wait before it can be claimed.              *)
(***************************************************************************)
EXTENDS Naturals, Sequences, FiniteSets, SequencesExt, FiniteSetsExt

CONSTANTS
  Workers,          \* 4 goroutines of webhookWorker
  Targets,          \* hosts of the webhooks that ask for these events
  QueueCapacity,    \* 1024
  TargetCapacity,   \* 2 deliveries to a host at a time
  MaxAttempts,      \* webhookDeliveryAttempts = 3
  Lease,            \* 60 seconds after which a claim may be taken over
  MaxClaims,        \* 100 claims in one pass of a worker
  MaxSeq,           \* bound: mutations
  MaxExtras         \* bound: transient events, calls of the retry endpoint,
                    \* evictions of the handle and crashes, together

ASSUME OutboxAssumption ==
  /\ IsFiniteSet(Workers)
  /\ \A n \in {QueueCapacity, TargetCapacity, MaxAttempts, Lease, MaxClaims} :
       n \in Nat \ {0}
  /\ MaxSeq \in Nat /\ MaxExtras \in Nat

VARIABLES
  limits,      \* the limiter's table: limits[t] is the channel of host t, or 0
  tokens,      \* tokens[t][c]: the slots taken in a channel, len(limit.ch)
  outbox,      \* outbox[s]: the row of event s, or NoRow
  hooks,       \* the targets of the collection's webhook record
  seq,         \* the last committed event
  unpublished, \* is the last committed event still to be published
  queue,       \* webhookQueue, of "durable" and "transient" events
  worker,      \* worker[w]: where the goroutine is
  extras,      \* how many of MaxExtras were used up
  owed         \* history: the targets configured ever since event s was
               \* committed that answered no delivery of s with success

limiter == <<limits, tokens>>
vars == <<outbox, hooks, seq, unpublished, queue, worker, extras, owed, limiter>>

\* The channels of a host that somebody holds, or the table: enough names.
Channels == 1 .. Cardinality(Workers)

Seqs == 1 .. MaxSeq
NoRow == [status |-> "none", attempts |-> 0, wait |-> 0]
Pending(attempts, wait) == [status |-> "pending", attempts |-> attempts, wait |-> wait]
Idle == [pc |-> "idle", seq |-> 0, claims |-> 0, handle |-> FALSE, todo |-> {},
         calling |-> {}, channel |-> 0, failed |-> FALSE]

RetryDelay(attempts) == attempts * attempts

TypeOK ==
  /\ outbox \in [Seqs -> [status : {"none", "pending", "delivering", "failed"},
                          attempts : 0 .. MaxAttempts + Cardinality(Workers) * (1 + MaxExtras),
                          wait : 0 .. Lease + RetryDelay(MaxAttempts)]]
  /\ hooks \subseteq Targets /\ seq \in 0 .. MaxSeq /\ unpublished \in BOOLEAN
  /\ queue \in BoundedSeq({"durable", "transient"}, QueueCapacity)
  /\ worker \in [Workers -> [pc : {"idle", "claim", "read", "call", "enter"},
                             seq : 0 .. MaxSeq, claims : 0 .. MaxClaims,
                             handle : BOOLEAN, todo : SUBSET Targets,
                             calling : SUBSET Targets, channel : {0} \cup Channels,
                             failed : BOOLEAN]]
  /\ extras \in 0 .. MaxExtras
  /\ owed \in [Seqs -> SUBSET Targets]
  /\ limits \in [Targets -> {0} \cup Channels]
  /\ tokens \in [Targets -> [Channels -> 0 .. TargetCapacity]]

NoLimits == [t \in Targets |-> 0]
NoTokens == [t \in Targets |-> [c \in Channels |-> 0]]

Init ==
  /\ outbox = [s \in Seqs |-> NoRow] /\ hooks = Targets /\ seq = 0
  /\ unpublished = FALSE /\ queue = << >>
  /\ worker = [w \in Workers |-> Idle]
  /\ extras = 0
  /\ owed = [s \in Seqs |-> {}]
  /\ limits = NoLimits /\ tokens = NoTokens

Extra == extras < MaxExtras /\ extras' = extras + 1

-----------------------------------------------------------------------------
(* Publishers.                                                             *)

QueueHasRoom == Len(queue) < QueueCapacity

\* enqueueWebhook never waits: an event that finds the queue full is left to
\* its row, or dropped if it has none.
Offer(kind) == queue' = IF QueueHasRoom THEN Append(queue, kind) ELSE queue

\* A mutation commits its event together with a pending row, and holds the
\* write lock until it is published.
Commit ==
  /\ seq < MaxSeq /\ ~unpublished
  /\ seq' = seq + 1 /\ unpublished' = TRUE
  /\ outbox' = [outbox EXCEPT ![seq + 1] = Pending(0, 0)]
  /\ owed' = [owed EXCEPT ![seq + 1] = hooks]
  /\ UNCHANGED <<hooks, queue, worker, extras, limiter>>

Publish ==
  /\ unpublished
  /\ unpublished' = FALSE
  /\ Offer("durable")
  /\ UNCHANGED <<outbox, hooks, seq, worker, extras, owed, limiter>>

\* handlePublish makes an event without number and without row.
PublishTransient ==
  /\ Extra
  /\ Offer("transient")
  /\ UNCHANGED <<outbox, hooks, seq, unpublished, worker, owed, limiter>>

\* SetWebhooks, or the deletion of the collection, which deletes the record.
SetWebhooks(new) ==
  /\ hooks' = new
  /\ owed' = [s \in Seqs |-> owed[s] \cap new]
  /\ UNCHANGED <<outbox, seq, unpublished, queue, worker, extras, limiter>>

\* The retry endpoint: any row becomes pending again, and keeps its attempts.
RetryWebhookDelivery(s) ==
  /\ outbox[s] # NoRow /\ Extra
  /\ outbox' = [outbox EXCEPT ![s] = Pending(outbox[s].attempts, 0)]
  /\ UNCHANGED <<hooks, seq, unpublished, queue, worker, owed, limiter>>

-----------------------------------------------------------------------------
(* Workers.                                                                *)

Goto(w, to) == worker' = [worker EXCEPT ![w] = to]

\* A pass begins with the handle of the database, from a queued event ...
TakeEvent(w) ==
  /\ worker[w].pc = "idle" /\ queue # << >>
  /\ queue' = Tail(queue)
  /\ Goto(w, IF Head(queue) = "transient" THEN [Idle EXCEPT !.pc = "read"]
             ELSE [Idle EXCEPT !.pc = "claim", !.handle = TRUE])
  /\ UNCHANGED <<outbox, hooks, seq, unpublished, extras, owed, limiter>>

\* ... or from the ticker, which goes through all databases.
Ticker(w) ==
  /\ worker[w].pc = "idle"
  /\ Goto(w, [Idle EXCEPT !.pc = "claim", !.handle = TRUE])
  /\ UNCHANGED <<outbox, hooks, seq, unpublished, queue, extras, owed, limiter>>

\* Mutant: a row that a crashed worker was delivering stays with it.
DuePendingOnly(s) == outbox[s].status = "pending" /\ outbox[s].wait = 0

Due(s) == outbox[s].status \in {"pending", "delivering"} /\ outbox[s].wait = 0

NextDue == Min({ s \in Seqs : Due(s) })

\* claimWebhookDelivery takes the first due row; a pass ends when there is
\* none, after MaxClaims of them, or when its handle was closed.
Claim(w) ==
  /\ worker[w].pc = "claim"
  /\ IF worker[w].handle /\ worker[w].claims < MaxClaims /\ \E s \in Seqs : Due(s)
     THEN /\ outbox' = [outbox EXCEPT ![NextDue].status = "delivering",
                                      ![NextDue].wait = Lease]
          /\ Goto(w, [worker[w] EXCEPT !.pc = "read", !.seq = NextDue,
                                       !.claims = worker[w].claims + 1])
     ELSE Goto(w, Idle) /\ UNCHANGED outbox
  /\ UNCHANGED <<hooks, seq, unpublished, queue, extras, owed, limiter>>

\* GetWebhooks in a transaction of its own; it may fail.
ReadHooks(w) ==
  /\ worker[w].pc = "read"
  /\ \/ Goto(w, [worker[w] EXCEPT !.pc = "call", !.todo = hooks])
     \/ Goto(w, [worker[w] EXCEPT !.pc = "call", !.failed = TRUE])
  /\ UNCHANGED <<outbox, hooks, seq, unpublished, queue, extras, owed, limiter>>

\* The table drops a channel that is empty and was not looked up for a minute.
\* Time is left open but for this: a worker does not take a minute from the
\* unlock of acquire to the select that follows it.
Prunable(t) ==
  /\ limits[t] # 0 /\ tokens[t][limits[t]] = 0
  /\ \A w \in Workers : worker[w].pc = "enter" => t \notin worker[w].calling

\* pruneIdleLocked: any of those entries may be old enough.
Pruned(gone) == [t \in Targets |-> IF t \in gone THEN 0 ELSE limits[t]]

\* A channel of host t that no worker holds.
NewChannel(t) ==
  CHOOSE c \in Channels :
    \A w \in Workers : t \in worker[w].calling => worker[w].channel # c

\* Mutant: a refused target is passed over, and nobody counts it.
PassOver(w, t) == [worker[w] EXCEPT !.todo = @ \ {t}, !.calling = {}, !.channel = 0,
                                    !.pc = "call"]

\* A delivery to a target that gets no slot fails without a call.
Refused(w, t) == [worker[w] EXCEPT !.todo = @ \ {t}, !.calling = {}, !.channel = 0,
                                   !.pc = "call", !.failed = TRUE]

\* The worker holds the channel, and has yet to find room in it.
Holding(w, t, c) == [worker[w] EXCEPT !.todo = @ \ {t}, !.calling = {t}, !.channel = c,
                                      !.pc = "enter"]

\* acquire, under the mutex: the channel of the host if the table has one; if
\* not, idle entries go, and a new channel is made unless the hosts of other
\* databases fill the table.
Lookup(w, t) ==
  /\ worker[w].pc = "call" /\ worker[w].calling = {} /\ t \in worker[w].todo
  /\ \/ /\ limits[t] # 0
        /\ Goto(w, Holding(w, t, limits[t]))
        /\ UNCHANGED limiter
     \/ /\ limits[t] = 0
        /\ \E gone \in SUBSET { u \in Targets : Prunable(u) } :
             \/ /\ limits' = Pruned(gone)
                /\ Goto(w, Refused(w, t))
                /\ UNCHANGED tokens
             \/ /\ limits' = [Pruned(gone) EXCEPT ![t] = NewChannel(t)]
                /\ tokens' = [tokens EXCEPT ![t][NewChannel(t)] = 0]
                /\ Goto(w, Holding(w, t, NewChannel(t)))
  /\ UNCHANGED <<outbox, hooks, seq, unpublished, queue, extras, owed>>

\* acquire, after the unlock: a token goes into the channel, or the delivery
\* is refused.
Enter(w, t) ==
  /\ worker[w].pc = "enter" /\ t \in worker[w].calling
  /\ LET c == worker[w].channel IN
       \/ /\ tokens[t][c] < TargetCapacity
          /\ tokens' = [tokens EXCEPT ![t][c] = @ + 1]
          /\ Goto(w, [worker[w] EXCEPT !.pc = "call"])
       \/ /\ tokens[t][c] >= TargetCapacity
          /\ Goto(w, Refused(w, t))
          /\ UNCHANGED tokens
  /\ UNCHANGED <<outbox, hooks, seq, unpublished, queue, extras, owed, limits>>

\* Mutant: a call without an answer does not give its slot back.
ReleaseSlotIfAnswered(w, t, answered) ==
  tokens' = IF answered THEN [tokens EXCEPT ![t][worker[w].channel] = @ - 1] ELSE tokens

\* release, of the channel that was entered.
ReleaseSlot(w, t, answered) ==
  tokens' = [tokens EXCEPT ![t][worker[w].channel] = @ - 1]

\* deliverWebhook returns after at most three requests: with a success, or
\* with none; a target that is not safe to call is one without.
EndCall(w, t) ==
  /\ worker[w].pc = "call" /\ t \in worker[w].calling
  /\ \E answered \in BOOLEAN :
       /\ owed' = [s \in Seqs |-> IF s = worker[w].seq /\ answered THEN owed[s] \ {t}
                                  ELSE owed[s]]
       /\ Goto(w, [worker[w] EXCEPT !.calling = {}, !.channel = 0,
                                    !.failed = worker[w].failed \/ ~answered])
       /\ ReleaseSlot(w, t, answered)
  /\ UNCHANGED <<outbox, hooks, seq, unpublished, queue, extras, limits>>

\* failWebhookDelivery, whatever the row has become since it was claimed.
AfterFailure(row) ==
  IF row.attempts + 1 >= MaxAttempts
  THEN [status |-> "failed", attempts |-> row.attempts + 1, wait |-> 0]
  ELSE Pending(row.attempts + 1, RetryDelay(row.attempts + 1))

\* All targets are through.  Of a transient event nothing is kept; the result
\* of a row is written through the handle of the pass.  With the handle closed
\* it is lost, and the row stays claimed until the lease runs out.
Mark(w) ==
  /\ worker[w].pc = "call" /\ worker[w].calling = {} /\ worker[w].todo = {}
  /\ LET s == worker[w].seq IN
       /\ outbox' = IF s = 0 \/ ~worker[w].handle THEN outbox
                    ELSE IF ~worker[w].failed THEN [outbox EXCEPT ![s] = NoRow]
                    ELSE IF outbox[s] = NoRow THEN outbox
                    ELSE [outbox EXCEPT ![s] = AfterFailure(outbox[s])]
       /\ Goto(w, IF s = 0 THEN Idle
                  ELSE [Idle EXCEPT !.pc = "claim", !.claims = worker[w].claims,
                                    !.handle = worker[w].handle])
  /\ UNCHANGED <<hooks, seq, unpublished, queue, extras, owed, limiter>>

-----------------------------------------------------------------------------
(* The environment.                                                        *)

Tick ==
  /\ \E s \in Seqs : outbox[s].wait > 0
  /\ outbox' = [s \in Seqs |-> [outbox[s] EXCEPT !.wait = Max({@, 1}) - 1]]
  /\ UNCHANGED <<hooks, seq, unpublished, queue, worker, extras, owed, limiter>>

\* The cache evicts the database; passes under way keep the closed handle.
EvictHandle ==
  /\ Extra
  /\ worker' = [w \in Workers |-> [worker[w] EXCEPT !.handle = FALSE]]
  /\ UNCHANGED <<outbox, hooks, seq, unpublished, queue, owed, limiter>>

\* A delivery of another database asks for a host that the table does not have.
OtherLookup ==
  /\ \E gone \in SUBSET { t \in Targets : Prunable(t) } : limits' = Pruned(gone)
  /\ UNCHANGED <<outbox, hooks, seq, unpublished, queue, worker, extras, owed, tokens>>

\* The process dies and starts again.
Crash ==
  /\ Extra
  /\ unpublished' = FALSE /\ queue' = << >>
  /\ worker' = [w \in Workers |-> Idle]
  /\ limits' = NoLimits /\ tokens' = NoTokens
  /\ UNCHANGED <<outbox, hooks, seq, owed>>

WorkerStep(w) ==
  \/ TakeEvent(w) \/ Ticker(w) \/ Claim(w) \/ ReadHooks(w)
  \/ \E t \in Targets : Lookup(w, t) \/ Enter(w, t) \/ EndCall(w, t)
  \/ Mark(w)

Next ==
  \/ Commit \/ Publish \/ PublishTransient
  \/ \E new \in SUBSET Targets : SetWebhooks(new)
  \/ \E s \in Seqs : RetryWebhookDelivery(s)
  \/ \E w \in Workers : WorkerStep(w)
  \/ Tick \/ EvictHandle \/ OtherLookup \/ Crash

Spec == Init /\ [][Next]_vars

\* Goroutines run, HTTP clients time out, the clock and the ticker go on.
LiveSpec == Spec /\ WF_vars(Tick) /\ \A w \in Workers : WF_vars(WorkerStep(w))

-----------------------------------------------------------------------------
(* Properties.                                                             *)

\* The row of a committed event goes only when every target that has
\* been configured all along answered with success: neither a full queue, a
\* crash, a refused target, an expired lease nor a stale worker loses one.
NothingIsLost ==
  \A s \in 1 .. seq : outbox[s] = NoRow => owed[s] = {}

\* The workers that have a call to host t under way.
Callers(t) == { w \in Workers : worker[w].pc = "call" /\ t \in worker[w].calling }

\* newWebhookTargetLimiter: no more calls to one host at a time than allowed,
\* although channels are looked up and entered in two steps, and entries are
\* dropped and made anew in the meantime.
TargetsAreSpared == \A t \in Targets : Cardinality(Callers(t)) <= TargetCapacity

\* The slots taken in the channel that the table has for a host are the calls
\* to it under way: none is left taken by a delivery that failed, and no call
\* goes on in a channel that the table has forgotten.
SlotsComeBack ==
  \A t \in Targets :
    Cardinality(Callers(t)) = IF limits[t] = 0 THEN 0 ELSE tokens[t][limits[t]]

\* Every row ends delivered or failed, after full queues, crashes and lost
\* marks too: the ticker comes by and the leases run out.
RowsSettle ==
  \A s \in Seqs :
    (outbox[s].status \in {"pending", "delivering"}) ~>
      (outbox[s] = NoRow \/ outbox[s].status = "failed")
=============================================================================
