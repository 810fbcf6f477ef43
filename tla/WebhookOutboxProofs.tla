------------------------ MODULE WebhookOutboxProofs ------------------------
(***************************************************************************)
(* Proofs that the outbox loses no delivery and spares its targets, for    *)
(* any number of workers, targets, events and attempts.                    *)
(*                                                                         *)
(* The argument for the first: a worker that has refused nothing and seen  *)
(* no failure still has to call every target that its event is owed to.    *)
(* So when it deletes the row, with nothing left to call, nothing is owed; *)
(* and it does not matter whose claim the row was by then.                 *)
(*                                                                         *)
(* The argument for the limiter: a worker that holds a channel of a host   *)
(* holds the one in the table, since an entry is dropped only while its    *)
(* channel is empty and nobody is about to enter it.  So all calls to a    *)
(* host took their token from one channel, and the tokens in it are them.  *)
(*                                                                         *)
(* The argument for the attempts: a row with as many as the limit cannot   *)
(* be claimed, so only the workers that are at it by then can still add to *)
(* them; and that is so again after each call of the retry endpoint.       *)
(*                                                                         *)
(* At the end, what EventStreamProofs says of the subscriptions and what   *)
(* this module says of the webhooks is put together.                       *)
(***************************************************************************)
EXTENDS MCDeliveries, EventStreamProofs

Rows == [status : {"none", "pending", "delivering", "failed"}, attempts : Nat, wait : Nat]
WorkerStates ==
  [pc : {"idle", "claim", "read", "call", "enter"}, seq : 0 .. MaxSeq, claims : Nat,
   handle : BOOLEAN, todo : SUBSET Targets, calling : SUBSET Targets,
   channel : {0} \cup Channels, failed : BOOLEAN]

\* What is needed of the types.
Types ==
  /\ outbox \in [Seqs -> Rows] /\ hooks \subseteq Targets /\ seq \in 0 .. MaxSeq
  /\ worker \in [Workers -> WorkerStates]
  /\ owed \in [Seqs -> SUBSET Targets]

\* Only committed events have rows, or are owed to anyone.
RowsAreCommitted ==
  \A s \in Seqs : /\ outbox[s].status = "none" => outbox[s] = NoRow
                  /\ s > seq => outbox[s] = NoRow /\ owed[s] = {}

OwedAreConfigured == \A s \in Seqs : owed[s] \subseteq hooks

\* The worker is at a committed event, and all it is owed to is still to be
\* called, or in hand, or the delivery counts as failed.
Sound(r, last, due) ==
  /\ r.seq <= last
  /\ r.pc \notin {"call", "enter"} => r.calling = {} /\ ~r.failed
  /\ (r.pc \in {"call", "enter"} /\ ~r.failed /\ r.seq # 0) =>
       due[r.seq] \subseteq r.todo \cup r.calling

WorkersAreSound == \A w \in Workers : Sound(worker[w], seq, owed)

\* The calls to host t of the workers wk, and what lim and tok have of them: a
\* worker that holds a channel holds the one of the table, and the tokens in
\* it are the calls; all other channels are empty.
CallsIn(wk, t) == { w \in Workers : wk[w].pc = "call" /\ t \in wk[w].calling }
Holds(r, lim) ==
  \A t \in Targets : t \in r.calling =>
    r.calling = {t} /\ r.pc \in {"enter", "call"} /\ lim[t] # 0 /\ r.channel = lim[t]
LimiterRight(lim, tok, wk) ==
  /\ lim \in [Targets -> {0} \cup Channels]
  /\ tok \in [Targets -> [Channels -> 0 .. TargetCapacity]]
  /\ \A w \in Workers : Holds(wk[w], lim)
  /\ \A t \in Targets, c \in Channels :
       tok[t][c] = IF c = lim[t] THEN Cardinality(CallsIn(wk, t)) ELSE 0

LimiterInv == LimiterRight(limits, tokens, worker)

IInv ==
  Types /\ RowsAreCommitted /\ OwedAreConfigured /\ WorkersAreSound /\ NothingIsLost

-----------------------------------------------------------------------------
(* Numbers.                                                                *)

LEMMA MaxOfTwo ==
  ASSUME NEW n \in Nat
  PROVE  Max({n, 1}) = IF n >= 1 THEN n ELSE 1
<1>1. \A x \in {n, 1} : (\A y \in {n, 1} : x >= y) <=> x = IF n >= 1 THEN n ELSE 1
  OBVIOUS
<1>2. (IF n >= 1 THEN n ELSE 1) \in {n, 1}
  OBVIOUS
<1> QED
  BY <1>1, <1>2 DEF Max

LEMMA RowFacts ==
  /\ NoRow \in Rows /\ NoRow.status = "none" /\ NoRow.wait = 0
  /\ \A a \in Nat : RetryDelay(a) \in Nat
  /\ \A a, n \in Nat : Pending(a, n) \in Rows /\ Pending(a, n) # NoRow
  /\ \A a, n \in Nat : Pending(a, n).status # "none"
BY DEF NoRow, Rows, RetryDelay, Pending

LEMMA AfterFailureFacts ==
  ASSUME NEW row \in Rows
  PROVE  AfterFailure(row) \in Rows /\ AfterFailure(row).status # "none"
<1>1. row.attempts \in Nat
  BY DEF Rows
<1>2. row.attempts + 1 \in Nat
  BY <1>1
<1>3. RetryDelay(row.attempts + 1) \in Nat
  BY <1>2, RowFacts
<1> QED
  BY <1>2, <1>3, RowFacts DEF AfterFailure, Rows

LEMMA IdleFacts == Idle \in WorkerStates /\ \A n \in Nat : 0 <= n
BY OutboxAssumption DEF Idle, WorkerStates

-----------------------------------------------------------------------------
LEMMA InitIInv == Init => IInv
<1> SUFFICES ASSUME Init PROVE IInv
  OBVIOUS
<1>1. Types
  BY RowFacts, IdleFacts, OutboxAssumption DEF Init, Types
<1>2. RowsAreCommitted /\ OwedAreConfigured
  BY DEF Init, RowsAreCommitted, OwedAreConfigured
<1>3. WorkersAreSound
  BY DEF Init, WorkersAreSound, Sound, Idle
<1>4. NothingIsLost
  BY DEF Init, NothingIsLost
<1> QED
  BY <1>1, <1>2, <1>3, <1>4 DEF IInv

\* A step of a worker to the state r: rows may change as long as none of them
\* goes that is owed to anyone, and what is owed may only shrink.
LEMMA WorkerMoves ==
  ASSUME IInv, NEW w \in Workers, NEW r \in WorkerStates, Goto(w, r),
         UNCHANGED <<hooks, seq>>,
         outbox' \in [Seqs -> Rows], owed' \in [Seqs -> SUBSET Targets],
         \A s \in Seqs : owed'[s] \subseteq owed[s],
         \A s \in Seqs : /\ outbox'[s].status = "none" => outbox'[s] = NoRow
                         /\ outbox[s] = NoRow => outbox'[s] = NoRow
                         /\ outbox'[s] = NoRow /\ outbox[s] # NoRow => owed'[s] = {},
         Sound(r, seq', owed')
  PROVE  IInv'
<1>1. Types'
  BY DEF IInv, Types, Goto
<1>2. RowsAreCommitted'
  BY DEF IInv, RowsAreCommitted
<1>3. OwedAreConfigured'
  BY DEF IInv, OwedAreConfigured
<1>4. WorkersAreSound'
  <2> SUFFICES ASSUME NEW v \in Workers PROVE Sound(worker'[v], seq', owed')
    BY DEF WorkersAreSound
  <2>1. CASE v = w
    BY <2>1 DEF Goto, IInv, Types
  <2>2. CASE v # w
    <3>1. worker'[v] = worker[v] /\ worker[v] \in WorkerStates /\ Sound(worker[v], seq, owed)
      BY <2>2 DEF Goto, IInv, Types, WorkersAreSound
    <3>2. worker[v].seq # 0 => worker[v].seq \in Seqs
      BY <3>1, OutboxAssumption DEF WorkerStates, Seqs
    <3> QED
      BY <3>1, <3>2 DEF Sound
  <2> QED
    BY <2>1, <2>2
<1>5. NothingIsLost'
  <2>1. 1 .. seq \subseteq Seqs
    BY OutboxAssumption DEF IInv, Types, Seqs
  <2> QED
    BY <2>1 DEF IInv, NothingIsLost
<1> QED
  BY <1>1, <1>2, <1>3, <1>4, <1>5 DEF IInv

\* A step of a worker that touches no row: what is owed may shrink.
LEMMA WorkerMovesOnly ==
  ASSUME IInv, NEW w \in Workers, NEW r \in WorkerStates, Goto(w, r),
         UNCHANGED <<outbox, hooks, seq>>, owed' \in [Seqs -> SUBSET Targets],
         \A s \in Seqs : owed'[s] \subseteq owed[s], Sound(r, seq', owed')
  PROVE  IInv'
<1>1. /\ outbox' \in [Seqs -> Rows]
      /\ \A s \in Seqs : outbox'[s].status = "none" => outbox'[s] = NoRow
  BY DEF IInv, Types, RowsAreCommitted
<1> QED
  BY <1>1, WorkerMoves

\* A host that has no channel is in no worker's hand, so every name is free.
LEMMA ChannelsSuffice ==
  ASSUME LimiterInv, NEW w \in Workers, NEW t \in Targets, limits[t] = 0
  PROVE  NewChannel(t) \in Channels
<1>1. Cardinality(Workers) \in Nat \ {0}
  BY OutboxAssumption, FS_EmptySet, FS_CardinalityType
<1>2. 1 \in Channels
  BY <1>1 DEF Channels
<1>3. \A v \in Workers : t \notin worker[v].calling
  BY DEF LimiterInv, LimiterRight, Holds
<1> QED
  BY <1>2, <1>3 DEF NewChannel

\* Every step of a worker but the marks of its row.
LEMMA WorkerTurns ==
  ASSUME IInv, LimiterInv, NEW w \in Workers,
         \/ TakeEvent(w) \/ Ticker(w) \/ Claim(w) \/ ReadHooks(w)
         \/ \E t \in Targets : Lookup(w, t) \/ Enter(w, t) \/ EndCall(w, t)
  PROVE  IInv'
<1> DEFINE r == worker[w]
<1>1. /\ r \in WorkerStates /\ Sound(r, seq, owed) /\ seq \in Nat /\ hooks \subseteq Targets
      /\ owed \in [Seqs -> SUBSET Targets] /\ \A s \in Seqs : owed[s] \subseteq owed[s]
      /\ r.seq # 0 => r.seq \in Seqs
  BY OutboxAssumption DEF IInv, Types, WorkersAreSound, WorkerStates, Seqs
<1>2. CASE TakeEvent(w) \/ Ticker(w)
  <2>1. PICK pc \in {"read", "claim"}, b \in BOOLEAN :
          Goto(w, [Idle EXCEPT !.pc = pc, !.handle = b])
    <3>1. Idle.handle = FALSE
      BY DEF Idle
    <3>2. [Idle EXCEPT !.pc = "read"] = [Idle EXCEPT !.pc = "read", !.handle = FALSE]
      BY <3>1 DEF Idle
    <3> QED
      BY <1>2, <3>2 DEF TakeEvent, Ticker
  <2> DEFINE q == [Idle EXCEPT !.pc = pc, !.handle = b]
  <2>2. q \in WorkerStates /\ Sound(q, seq, owed)
    BY <1>1, IdleFacts DEF WorkerStates, Sound, Idle
  <2>3. UNCHANGED <<outbox, hooks, seq, owed>> /\ Goto(w, q)
    BY <1>2, <2>1 DEF TakeEvent, Ticker
  <2> HIDE DEF q
  <2> QED
    BY <1>1, <2>2, <2>3, WorkerMovesOnly
<1>3. CASE Claim(w)
  <2>1. /\ r.pc = "claim" /\ UNCHANGED <<hooks, seq, owed>>
        /\ r.claims \in Nat
    BY <1>1, <1>3 DEF Claim, WorkerStates
  <2>2. CASE Goto(w, Idle) /\ UNCHANGED outbox
    <3>1. Idle \in WorkerStates /\ Sound(Idle, seq, owed)
      BY <1>1, IdleFacts DEF Sound, Idle
    <3> QED
      BY <1>1, <2>1, <2>2, <3>1, WorkerMovesOnly
  <2>3. CASE ~(Goto(w, Idle) /\ UNCHANGED outbox)
    <3> DEFINE s0 == NextDue
               q == [r EXCEPT !.pc = "read", !.seq = s0, !.claims = r.claims + 1]
    <3>1. /\ \E s \in Seqs : Due(s)
          /\ outbox' = [outbox EXCEPT ![s0].status = "delivering", ![s0].wait = Lease]
          /\ Goto(w, q)
      BY <1>3, <2>3 DEF Claim
    <3>2. { s \in Seqs : Due(s) } \in SUBSET Nat /\ { s \in Seqs : Due(s) } # {}
      BY <3>1 DEF Seqs
    <3>3. s0 \in { s \in Seqs : Due(s) }
      BY <3>2, MinIsLeast DEF NextDue
    <3> HIDE DEF s0
    <3>4. s0 \in Seqs /\ s0 \in Nat /\ outbox[s0].status # "none" /\ outbox[s0] \in Rows
      BY <3>3 DEF Due, Seqs, IInv, Types
    <3>5. s0 <= seq /\ s0 \in 0 .. MaxSeq
      <4>1. ~ (s0 > seq)
        BY <3>4, RowFacts DEF IInv, RowsAreCommitted
      <4> QED
        BY <1>1, <3>4, <4>1, OutboxAssumption DEF Seqs
    <3>6. q \in WorkerStates /\ Sound(q, seq, owed)
      <4>1. PICK n \in Nat : n = r.claims + 1
        BY <2>1
      <4>2. q = [r EXCEPT !.pc = "read", !.seq = s0, !.claims = n]
        BY <4>1
      <4>3. q \in WorkerStates
        BY <1>1, <3>5, <4>2 DEF WorkerStates
      <4> QED
        BY <1>1, <2>1, <3>5, <4>2 DEF WorkerStates, Sound
    <3>7. /\ outbox' \in [Seqs -> Rows] /\ outbox'[s0].status = "delivering"
          /\ \A s \in Seqs \ {s0} : outbox'[s] = outbox[s]
      BY <3>1, <3>4, OutboxAssumption DEF IInv, Types, Rows
    <3>8. \A s \in Seqs : /\ outbox'[s].status = "none" => outbox'[s] = NoRow
                          /\ outbox[s] = NoRow => outbox'[s] = NoRow
                          /\ outbox'[s] = NoRow /\ outbox[s] # NoRow => owed'[s] = {}
      BY <3>4, <3>7, RowFacts DEF IInv, RowsAreCommitted
    <3> HIDE DEF q
    <3> QED
      BY <1>1, <2>1, <3>1, <3>6, <3>7, <3>8, WorkerMoves
  <2> QED
    BY <2>2, <2>3
<1>4. CASE ReadHooks(w)
  <2>1. r.pc = "read" /\ UNCHANGED <<outbox, hooks, seq, owed>>
    BY <1>4 DEF ReadHooks
  <2>2. PICK q \in { [r EXCEPT !.pc = "call", !.todo = hooks],
                     [r EXCEPT !.pc = "call", !.failed = TRUE] } : Goto(w, q)
    BY <1>4 DEF ReadHooks
  <2>3. q \in WorkerStates
    BY <1>1 DEF WorkerStates
  <2>4. Sound(q, seq, owed)
    BY <1>1, <2>1 DEF Sound, WorkerStates, IInv, OwedAreConfigured
  <2> QED
    BY <1>1, <2>1, <2>2, <2>3, <2>4, WorkerMovesOnly
<1>5. ASSUME NEW t \in Targets, Goto(w, Refused(w, t)), UNCHANGED <<outbox, hooks, seq, owed>>
      PROVE  IInv'
  <2> DEFINE q == Refused(w, t)
  <2>1. q \in WorkerStates
    <3>1. r.todo \ {t} \in SUBSET Targets
      BY <1>1 DEF WorkerStates
    <3> QED
      BY <1>1, <3>1 DEF WorkerStates, Refused
  <2>2. Sound(q, seq, owed)
    BY <1>1 DEF Sound, WorkerStates, Refused
  <2>3. Goto(w, q)
    BY <1>5
  <2> HIDE DEF q
  <2> QED
    BY <1>1, <1>5, <2>1, <2>2, <2>3, WorkerMovesOnly
<1>6. ASSUME NEW t \in Targets, NEW c \in Channels, Goto(w, Holding(w, t, c)),
             UNCHANGED <<outbox, hooks, seq, owed>>, r.pc = "call", r.calling = {}
      PROVE  IInv'
  <2> DEFINE q == Holding(w, t, c)
  <2>1. q \in WorkerStates
    <3>1. r.todo \ {t} \in SUBSET Targets /\ {t} \in SUBSET Targets
      BY <1>1 DEF WorkerStates
    <3> QED
      BY <1>1, <3>1 DEF WorkerStates, Holding
  <2>2. Sound(q, seq, owed)
    BY <1>1, <1>6 DEF Sound, WorkerStates, Holding
  <2>3. Goto(w, q)
    BY <1>6
  <2> HIDE DEF q
  <2> QED
    BY <1>1, <1>6, <2>1, <2>2, <2>3, WorkerMovesOnly
<1>7. ASSUME NEW t \in Targets, Lookup(w, t) PROVE IInv'
  <2>1. r.pc = "call" /\ r.calling = {} /\ UNCHANGED <<outbox, hooks, seq, owed>>
    BY <1>7 DEF Lookup
  <2>2. CASE limits[t] # 0
    <3>1. Goto(w, Holding(w, t, limits[t])) /\ limits[t] \in Channels
      BY <1>7, <2>2 DEF Lookup, LimiterInv, LimiterRight
    <3> QED
      BY <1>6, <2>1, <3>1
  <2>3. CASE limits[t] = 0
    <3>1. NewChannel(t) \in Channels
      BY <2>3, ChannelsSuffice
    <3>2. CASE Goto(w, Refused(w, t))
      BY <1>5, <2>1, <3>2
    <3>3. CASE Goto(w, Holding(w, t, NewChannel(t)))
      BY <1>6, <2>1, <3>1, <3>3
    <3> QED
      BY <1>7, <2>3, <3>2, <3>3 DEF Lookup
  <2> QED
    BY <2>2, <2>3
<1>8. ASSUME NEW t \in Targets, Enter(w, t) PROVE IInv'
  <2>1. r.pc = "enter" /\ UNCHANGED <<outbox, hooks, seq, owed>>
    BY <1>8 DEF Enter
  <2>2. CASE Goto(w, Refused(w, t))
    BY <1>5, <2>1, <2>2
  <2>3. CASE Goto(w, [r EXCEPT !.pc = "call"])
    <3> DEFINE q == [r EXCEPT !.pc = "call"]
    <3>1. q \in WorkerStates /\ Sound(q, seq, owed)
      BY <1>1, <2>1 DEF Sound, WorkerStates
    <3>2. Goto(w, q)
      BY <2>3
    <3> HIDE DEF q
    <3> QED
      BY <1>1, <2>1, <3>1, <3>2, WorkerMovesOnly
  <2> QED
    BY <1>8, <2>2, <2>3 DEF Enter
<1>9. ASSUME NEW t \in Targets, EndCall(w, t) PROVE IInv'
  <2>1. r.pc = "call" /\ r.calling = {t} /\ UNCHANGED <<outbox, hooks, seq>>
    BY <1>9 DEF EndCall, LimiterInv, LimiterRight, Holds
  <2>2. PICK answered \in BOOLEAN :
          /\ owed' = [s \in Seqs |-> IF s = r.seq /\ answered THEN owed[s] \ {t} ELSE owed[s]]
          /\ Goto(w, [r EXCEPT !.calling = {}, !.channel = 0,
                               !.failed = r.failed \/ ~answered])
    BY <1>9 DEF EndCall
  <2>3. /\ owed' \in [Seqs -> SUBSET Targets]
        /\ \A s \in Seqs : owed'[s] \subseteq owed[s]
        /\ r.seq # 0 => owed'[r.seq] = IF answered THEN owed[r.seq] \ {t} ELSE owed[r.seq]
    BY <1>1, <2>2
  <2>4. PICK b \in BOOLEAN : b = (r.failed \/ ~answered)
    OBVIOUS
  <2> DEFINE q == [r EXCEPT !.calling = {}, !.channel = 0, !.failed = b]
  <2>5. Goto(w, q)
    BY <2>2, <2>4
  <2>6. q \in WorkerStates
    BY <1>1 DEF WorkerStates
  <2>7. /\ q.calling = {} /\ q.pc = "call" /\ q.todo = r.todo /\ q.seq = r.seq /\ q.failed = b
        /\ r.seq <= seq
    BY <1>1, <2>1 DEF WorkerStates, Sound
  <2>8. ASSUME ~b, r.seq # 0 PROVE owed'[r.seq] \subseteq r.todo
    BY <1>1, <2>1, <2>3, <2>4, <2>8 DEF Sound
  <2> HIDE DEF q
  <2>9. Sound(q, seq, owed')
    BY <2>7, <2>8 DEF Sound
  <2> QED
    BY <1>1, <2>1, <2>3, <2>5, <2>6, <2>9, WorkerMovesOnly
<1> QED
  BY <1>2, <1>3, <1>4, <1>7, <1>8, <1>9

\* A worker marks its row only when it has nothing left to call.
LEMMA MarkStep ==
  ASSUME IInv, NEW w \in Workers, Mark(w)
  PROVE  IInv'
<1> DEFINE r == worker[w]
           s == r.seq
<1>1. /\ r \in WorkerStates /\ Sound(r, seq, owed) /\ seq \in Nat
      /\ owed \in [Seqs -> SUBSET Targets] /\ outbox \in [Seqs -> Rows]
      /\ s # 0 => s \in Seqs
  BY OutboxAssumption DEF IInv, Types, WorkersAreSound, WorkerStates, Seqs
<1>2. /\ r.pc = "call" /\ r.calling = {} /\ r.todo = {}
      /\ UNCHANGED <<hooks, seq, owed>>
  BY DEF Mark
<1>3. ~r.failed /\ s # 0 => owed[s] = {}
  BY <1>1, <1>2 DEF Sound
<1>4. PICK q \in { Idle, [Idle EXCEPT !.pc = "claim", !.claims = r.claims,
                                       !.handle = r.handle] } : Goto(w, q)
  BY DEF Mark
<1>5. q \in WorkerStates /\ Sound(q, seq, owed)
  <2>1. /\ Idle \in WorkerStates /\ Idle.seq = 0 /\ Idle.calling = {} /\ Idle.failed = FALSE
        /\ Idle.pc = "idle"
    BY IdleFacts DEF Idle
  <2>2. r.claims \in Nat /\ r.handle \in BOOLEAN
    BY <1>1 DEF WorkerStates
  <2>3. q \in WorkerStates /\ q.pc \notin {"call", "enter"} /\ q.seq = 0 /\ q.calling = {} /\ ~q.failed
    BY <2>1, <2>2 DEF WorkerStates
  <2> QED
    BY <1>1, <2>3 DEF Sound
<1>6. \/ outbox' = outbox
      \/ s # 0 /\ ~r.failed /\ outbox' = [outbox EXCEPT ![s] = NoRow]
      \/ s # 0 /\ outbox[s] # NoRow /\ outbox' = [outbox EXCEPT ![s] = AfterFailure(outbox[s])]
  BY DEF Mark
<1> HIDE DEF r, s
<1>7. /\ outbox' \in [Seqs -> Rows]
      /\ \A k \in Seqs : /\ outbox'[k].status = "none" => outbox'[k] = NoRow
                         /\ outbox[k] = NoRow => outbox'[k] = NoRow
                         /\ outbox'[k] = NoRow /\ outbox[k] # NoRow => owed'[k] = {}
  <2>1. CASE outbox' = outbox
    BY <1>1, <2>1 DEF IInv, RowsAreCommitted
  <2>2. CASE s # 0 /\ ~r.failed /\ outbox' = [outbox EXCEPT ![s] = NoRow]
    <3>1. outbox' \in [Seqs -> Rows] /\ outbox'[s] = NoRow /\ owed'[s] = {}
      BY <1>1, <1>2, <1>3, <2>2, RowFacts
    <3>2. \A k \in Seqs \ {s} : outbox'[k] = outbox[k]
      BY <1>1, <2>2
    <3> QED
      BY <3>1, <3>2 DEF IInv, RowsAreCommitted
  <2>3. CASE s # 0 /\ outbox[s] # NoRow /\ outbox' = [outbox EXCEPT ![s] = AfterFailure(outbox[s])]
    <3>1. AfterFailure(outbox[s]) \in Rows /\ AfterFailure(outbox[s]).status # "none"
      BY <1>1, <2>3, AfterFailureFacts
    <3>2. outbox' \in [Seqs -> Rows] /\ outbox'[s].status # "none"
      BY <1>1, <2>3, <3>1
    <3>3. \A k \in Seqs \ {s} : outbox'[k] = outbox[k]
      BY <1>1, <2>3
    <3> QED
      BY <2>3, <3>2, <3>3, RowFacts DEF IInv, RowsAreCommitted
  <2> QED
    BY <1>6, <2>1, <2>2, <2>3
<1> QED
  BY <1>1, <1>2, <1>4, <1>5, <1>7, WorkerMoves

-----------------------------------------------------------------------------
(* Publishers and the environment.                                         *)

\* A step that leaves the workers and what is owed alone, and keeps every row.
LEMMA RowsMove ==
  ASSUME IInv, UNCHANGED <<hooks, seq, worker, owed>>, outbox' \in [Seqs -> Rows],
         \A s \in Seqs : /\ outbox'[s] = NoRow <=> outbox[s] = NoRow
                         /\ outbox'[s].status = "none" <=> outbox[s].status = "none"
  PROVE  IInv'
<1>1. 1 .. seq \subseteq Seqs
  BY OutboxAssumption DEF IInv, Types, Seqs
<1>2. Types' /\ RowsAreCommitted' /\ OwedAreConfigured'
  BY DEF IInv, Types, RowsAreCommitted, OwedAreConfigured
<1>3. WorkersAreSound' /\ NothingIsLost'
  BY <1>1 DEF IInv, WorkersAreSound, Sound, NothingIsLost
<1> QED
  BY <1>2, <1>3 DEF IInv

\* A new event has a row before anything is owed to anyone.
LEMMA CommitStep == ASSUME IInv, Commit PROVE IInv'
<1> DEFINE n == seq + 1
<1>1. /\ n \in Seqs /\ n \in Nat /\ seq \in Nat /\ seq' = n /\ seq' \in 0 .. MaxSeq
      /\ outbox' = [outbox EXCEPT ![n] = Pending(0, 0)]
      /\ owed' = [owed EXCEPT ![n] = hooks] /\ UNCHANGED <<hooks, worker>>
      /\ outbox \in [Seqs -> Rows] /\ owed \in [Seqs -> SUBSET Targets]
      /\ hooks \in SUBSET Targets /\ MaxSeq \in Nat
  BY OutboxAssumption DEF Commit, IInv, Types, Seqs
<1>2. Pending(0, 0) \in Rows /\ Pending(0, 0).status # "none" /\ Pending(0, 0) # NoRow
  BY RowFacts
<1>3. Types'
  BY <1>1, <1>2 DEF IInv, Types
<1>4. RowsAreCommitted'
  <2> SUFFICES ASSUME NEW s \in Seqs
               PROVE  /\ outbox'[s].status = "none" => outbox'[s] = NoRow
                      /\ s > n => outbox'[s] = NoRow /\ owed'[s] = {}
    BY <1>1 DEF RowsAreCommitted
  <2>1. CASE s = n
    BY <1>1, <1>2, <2>1
  <2>2. CASE s # n
    <3>1. outbox'[s] = outbox[s] /\ owed'[s] = owed[s]
      BY <1>1, <2>2
    <3>2. s > n => s > seq
      BY <1>1 DEF Seqs
    <3> QED
      BY <3>1, <3>2 DEF IInv, RowsAreCommitted
  <2> QED
    BY <2>1, <2>2
<1>5. OwedAreConfigured'
  BY <1>1 DEF IInv, OwedAreConfigured
<1>6. WorkersAreSound'
  <2> SUFFICES ASSUME NEW w \in Workers PROVE Sound(worker[w], seq', owed')
    BY <1>1 DEF WorkersAreSound
  <2>1. Sound(worker[w], seq, owed) /\ worker[w].seq \in Nat
    BY DEF IInv, WorkersAreSound, Types, WorkerStates
  <2>2. worker[w].seq <= n /\ worker[w].seq # n
    BY <1>1, <2>1 DEF Sound
  <2>3. worker[w].seq # 0 => worker[w].seq \in Seqs
    BY <1>1, <2>1, <2>2 DEF Seqs
  <2> QED
    BY <1>1, <2>1, <2>2, <2>3 DEF Sound
<1>7. NothingIsLost'
  <2> SUFFICES ASSUME NEW s \in 1 .. n, outbox'[s] = NoRow PROVE owed'[s] = {}
    BY <1>1 DEF NothingIsLost
  <2>1. s \in Seqs /\ s # n /\ s \in 1 .. seq
    BY <1>1, <1>2 DEF Seqs
  <2> QED
    BY <1>1, <2>1 DEF IInv, NothingIsLost
<1> QED
  BY <1>3, <1>4, <1>5, <1>6, <1>7 DEF IInv

\* A target that is no longer configured is owed nothing.
LEMMA HooksStep ==
  ASSUME IInv, NEW new \in SUBSET Targets, SetWebhooks(new)
  PROVE  IInv'
<1>1. /\ hooks' = new /\ owed' = [s \in Seqs |-> owed[s] \cap new]
      /\ UNCHANGED <<outbox, seq, worker>>
      /\ 1 .. seq \subseteq Seqs
  BY OutboxAssumption DEF SetWebhooks, IInv, Types, Seqs
<1>2. Types' /\ RowsAreCommitted' /\ OwedAreConfigured' /\ NothingIsLost'
  BY <1>1 DEF IInv, Types, RowsAreCommitted, OwedAreConfigured, NothingIsLost
<1>3. WorkersAreSound'
  <2> SUFFICES ASSUME NEW w \in Workers PROVE Sound(worker[w], seq, owed')
    BY <1>1 DEF WorkersAreSound
  <2>1. Sound(worker[w], seq, owed)
    BY DEF IInv, WorkersAreSound
  <2>2. worker[w].seq # 0 => worker[w].seq \in Seqs
    BY OutboxAssumption DEF IInv, Types, WorkerStates, Seqs
  <2> QED
    BY <1>1, <2>1, <2>2 DEF Sound
<1> QED
  BY <1>2, <1>3 DEF IInv

LEMMA RetryStep ==
  ASSUME IInv, NEW s \in Seqs, RetryWebhookDelivery(s)
  PROVE  IInv'
<1>1. /\ outbox[s] # NoRow /\ outbox \in [Seqs -> Rows] /\ outbox[s].attempts \in Nat
      /\ outbox' = [outbox EXCEPT ![s] = Pending(outbox[s].attempts, 0)]
      /\ UNCHANGED <<hooks, seq, worker, owed>>
      /\ outbox[s].status # "none"
  BY DEF RetryWebhookDelivery, IInv, Types, Rows, RowsAreCommitted
<1>2. PICK row \in Rows : /\ row = Pending(outbox[s].attempts, 0)
                          /\ row.status # "none" /\ row # NoRow
  BY <1>1, RowFacts
<1>3. /\ outbox' \in [Seqs -> Rows] /\ outbox'[s] = row
      /\ \A k \in Seqs \ {s} : outbox'[k] = outbox[k]
  BY <1>1, <1>2
<1> QED
  BY <1>1, <1>2, <1>3, RowsMove

LEMMA TickStep == ASSUME IInv, Tick PROVE IInv'
<1>1. /\ outbox \in [Seqs -> Rows] /\ UNCHANGED <<hooks, seq, worker, owed>>
      /\ outbox' = [s \in Seqs |-> [outbox[s] EXCEPT !.wait = Max({@, 1}) - 1]]
  BY DEF Tick, IInv, Types
<1>2. ASSUME NEW s \in Seqs
      PROVE  /\ outbox'[s] \in Rows /\ outbox'[s].status = outbox[s].status
             /\ outbox[s] = NoRow => outbox'[s] = NoRow
  <2>1. outbox[s] \in Rows /\ outbox[s].wait \in Nat
    BY <1>1 DEF Rows
  <2>2. PICK n \in Nat : /\ n = Max({outbox[s].wait, 1}) - 1
                         /\ outbox[s].wait = 0 => n = 0
    BY <2>1, MaxOfTwo
  <2>3. outbox'[s] = [outbox[s] EXCEPT !.wait = n]
    BY <1>1, <2>2
  <2> QED
    BY <2>1, <2>2, <2>3 DEF Rows, NoRow
<1>3. outbox' \in [Seqs -> Rows]
  BY <1>1, <1>2
<1>4. \A s \in Seqs : outbox[s].status = "none" => outbox[s] = NoRow
  BY DEF IInv, RowsAreCommitted
<1>5. NoRow.status = "none"
  BY RowFacts
<1> QED
  BY <1>1, <1>2, <1>3, <1>4, <1>5, RowsMove

\* A lost handle or a crash costs a worker its turn, not a row.
LEMMA LossStep == ASSUME IInv, EvictHandle \/ Crash PROVE IInv'
<1>1. UNCHANGED <<outbox, hooks, seq, owed>> /\ seq \in Nat
  BY OutboxAssumption DEF EvictHandle, Crash, IInv, Types
<1>2. ASSUME NEW w \in Workers
      PROVE  worker'[w] \in WorkerStates /\ Sound(worker'[w], seq, owed)
  <2>1. worker[w] \in WorkerStates /\ Sound(worker[w], seq, owed)
    BY DEF IInv, Types, WorkersAreSound
  <2>2. worker'[w] \in {Idle, [worker[w] EXCEPT !.handle = FALSE]}
    BY DEF EvictHandle, Crash
  <2>3. Idle \in WorkerStates /\ Sound(Idle, seq, owed)
    BY <1>1, IdleFacts DEF Sound, Idle
  <2>4. /\ [worker[w] EXCEPT !.handle = FALSE] \in WorkerStates
        /\ Sound([worker[w] EXCEPT !.handle = FALSE], seq, owed)
    BY <2>1 DEF WorkerStates, Sound
  <2> QED
    BY <2>2, <2>3, <2>4
<1>3. worker' \in [Workers -> WorkerStates]
  <2>1. \E f : worker' = [w \in Workers |-> f[w]]
    BY DEF EvictHandle, Crash
  <2> QED
    BY <1>2, <2>1
<1>4. Types' /\ RowsAreCommitted' /\ OwedAreConfigured' /\ NothingIsLost'
  BY <1>1, <1>3 DEF IInv, Types, RowsAreCommitted, OwedAreConfigured, NothingIsLost
<1>5. WorkersAreSound'
  BY <1>1, <1>2 DEF WorkersAreSound
<1> QED
  BY <1>4, <1>5 DEF IInv

LEMMA StepIInv == IInv /\ LimiterInv /\ [Next]_vars => IInv'
<1> SUFFICES ASSUME IInv, LimiterInv, [Next]_vars PROVE IInv'
  OBVIOUS
<1>1. CASE UNCHANGED <<outbox, hooks, seq, worker, owed>>
  <2>1. outbox' \in [Seqs -> Rows]
    BY <1>1 DEF IInv, Types
  <2> QED
    BY <1>1, <2>1, RowsMove
<1>2. CASE Publish \/ PublishTransient \/ OtherLookup \/ UNCHANGED vars
  BY <1>1, <1>2 DEF Publish, PublishTransient, OtherLookup, vars
<1>3. ASSUME NEW w \in Workers, WorkerStep(w) PROVE IInv'
  BY <1>3, WorkerTurns, MarkStep DEF WorkerStep
<1> QED
  BY <1>2, <1>3, CommitStep, HooksStep, RetryStep, TickStep, LossStep DEF Next

-----------------------------------------------------------------------------
(* The limiter.                                                            *)

LEMMA CallsAreCounted ==
  ASSUME NEW wk, NEW t
  PROVE  /\ IsFiniteSet(CallsIn(wk, t)) /\ Cardinality(CallsIn(wk, t)) \in Nat
         /\ Cardinality(CallsIn(wk, t)) = 0 => CallsIn(wk, t) = {}
<1>1. IsFiniteSet(CallsIn(wk, t))
  BY OutboxAssumption, FS_Subset DEF CallsIn
<1> QED
  BY <1>1, FS_CardinalityType, FS_EmptySet

\* The table may drop what is empty and in nobody's hand.
LEMMA Pruning ==
  ASSUME NEW lim, NEW tok, NEW wk, LimiterRight(lim, tok, wk), NEW gone \in SUBSET Targets,
         \A t \in gone : /\ lim[t] # 0 /\ tok[t][lim[t]] = 0
                         /\ \A w \in Workers : wk[w].pc = "enter" => t \notin wk[w].calling,
         NEW new, new = [t \in Targets |-> IF t \in gone THEN 0 ELSE lim[t]]
  PROVE  LimiterRight(new, tok, wk)
<1>1. /\ lim \in [Targets -> {0} \cup Channels]
      /\ tok \in [Targets -> [Channels -> 0 .. TargetCapacity]]
      /\ \A w \in Workers : Holds(wk[w], lim)
      /\ \A t \in Targets, c \in Channels :
           tok[t][c] = IF c = lim[t] THEN Cardinality(CallsIn(wk, t)) ELSE 0
  BY DEF LimiterRight
<1>2. new \in [Targets -> {0} \cup Channels] /\ \A t \in Targets : new[t] \in {0, lim[t]}
  BY <1>1
<1>3. \A t \in Targets \ gone : new[t] = lim[t]
  OBVIOUS
<1>4. ASSUME NEW t \in gone PROVE lim[t] \in Channels /\ CallsIn(wk, t) = {} /\ new[t] = 0
  BY <1>1, <1>4, CallsAreCounted
<1>5. ASSUME NEW w \in Workers, NEW t \in Targets, t \in wk[w].calling PROVE t \notin gone
  BY <1>1, <1>4, <1>5 DEF Holds, CallsIn
<1>6. ASSUME NEW w \in Workers PROVE Holds(wk[w], new)
  <2> SUFFICES ASSUME NEW t \in Targets, t \in wk[w].calling
               PROVE  /\ wk[w].calling = {t} /\ wk[w].pc \in {"enter", "call"}
                      /\ new[t] # 0 /\ wk[w].channel = new[t]
    BY DEF Holds
  <2>1. new[t] = lim[t]
    BY <1>3, <1>5
  <2> QED
    BY <1>1, <2>1 DEF Holds
<1>7. ASSUME NEW t \in Targets, NEW c \in Channels
      PROVE  tok[t][c] = IF c = new[t] THEN Cardinality(CallsIn(wk, t)) ELSE 0
  <2>1. 0 \notin Channels
    BY DEF Channels
  <2>2. CASE t \in gone
    <3>1. c # new[t] /\ Cardinality(CallsIn(wk, t)) = 0
      BY <1>4, <2>1, <2>2, FS_EmptySet
    <3> QED
      BY <1>1, <3>1
  <2>3. CASE t \notin gone
    BY <1>1, <1>3, <2>3
  <2> QED
    BY <2>2, <2>3
<1> QED
  BY <1>1, <1>2, <1>6, <1>7 DEF LimiterRight

\* A new channel is empty, whoever held one of its name before.
LEMMA NewEntry ==
  ASSUME NEW lim, NEW tok, NEW wk, LimiterRight(lim, tok, wk), NEW t \in Targets, lim[t] = 0,
         NEW c \in Channels
  PROVE  LimiterRight([lim EXCEPT ![t] = c], [tok EXCEPT ![t][c] = 0], wk)
<1> DEFINE new == [lim EXCEPT ![t] = c]
<1>1. /\ lim \in [Targets -> {0} \cup Channels]
      /\ tok \in [Targets -> [Channels -> 0 .. TargetCapacity]]
      /\ \A w \in Workers : Holds(wk[w], lim)
      /\ \A u \in Targets, d \in Channels :
           tok[u][d] = IF d = lim[u] THEN Cardinality(CallsIn(wk, u)) ELSE 0
      /\ 0 \notin Channels
  BY DEF LimiterRight, Channels
<1>2. \A d \in Channels : tok[t][d] = 0
  BY <1>1
<1>3. [tok EXCEPT ![t][c] = 0] = tok
  <2>1. tok[t] \in [Channels -> 0 .. TargetCapacity] /\ tok[t][c] = 0
    BY <1>1, <1>2
  <2>2. [tok[t] EXCEPT ![c] = 0] = tok[t]
    BY <2>1
  <2>3. [tok EXCEPT ![t] = tok[t]] = tok
    BY <1>1
  <2> QED
    BY <2>2, <2>3
<1>4. new \in [Targets -> {0} \cup Channels] /\ new[t] = c /\ \A u \in Targets \ {t} : new[u] = lim[u]
  BY <1>1
<1> HIDE DEF new
<1>5. \A w \in Workers : t \notin wk[w].calling
  BY <1>1 DEF Holds
<1>6. CallsIn(wk, t) = {} /\ Cardinality(CallsIn(wk, t)) = 0
  BY <1>5, FS_EmptySet DEF CallsIn
<1>7. \A w \in Workers : Holds(wk[w], new)
  BY <1>1, <1>4, <1>5 DEF Holds
<1>8. ASSUME NEW u \in Targets, NEW d \in Channels
      PROVE  tok[u][d] = IF d = new[u] THEN Cardinality(CallsIn(wk, u)) ELSE 0
  <2>1. CASE u = t
    BY <1>2, <1>4, <1>6, <2>1
  <2>2. CASE u # t
    BY <1>1, <1>4, <2>2
  <2> QED
    BY <2>1, <2>2
<1>9. LimiterRight(new, tok, wk)
  BY <1>1, <1>4, <1>7, <1>8 DEF LimiterRight
<1> QED
  BY <1>3, <1>9 DEF new

\* A step of a worker from no call to no call.
LEMMA NoCallMoves ==
  ASSUME NEW lim, NEW tok, NEW wk, LimiterRight(lim, tok, wk), wk \in [Workers -> WorkerStates],
         NEW w \in Workers, NEW r,
         wk[w].pc # "call" \/ wk[w].calling = {}, r.pc # "call" \/ r.calling = {},
         Holds(r, lim)
  PROVE  LimiterRight(lim, tok, [wk EXCEPT ![w] = r])
<1> DEFINE to == [wk EXCEPT ![w] = r]
<1>1. to[w] = r /\ \A v \in Workers \ {w} : to[v] = wk[v]
  OBVIOUS
<1> HIDE DEF to
<1>2. \A t \in Targets : CallsIn(to, t) = CallsIn(wk, t)
  BY <1>1 DEF CallsIn
<1>3. \A v \in Workers : Holds(to[v], lim)
  BY <1>1 DEF LimiterRight
<1>4. LimiterRight(lim, tok, to)
  BY <1>2, <1>3 DEF LimiterRight
<1> QED
  BY <1>4 DEF to

\* A token goes into the channel when a call begins.
LEMMA CallBegins ==
  ASSUME NEW lim, NEW tok, NEW wk, LimiterRight(lim, tok, wk), wk \in [Workers -> WorkerStates],
         NEW w \in Workers, NEW t \in Targets, wk[w].pc = "enter", t \in wk[w].calling,
         NEW c, c = wk[w].channel, tok[t][c] < TargetCapacity
  PROVE  LimiterRight(lim, [tok EXCEPT ![t][c] = @ + 1], [wk EXCEPT ![w] = [wk[w] EXCEPT !.pc = "call"]])
<1> DEFINE to == [wk EXCEPT ![w] = [wk[w] EXCEPT !.pc = "call"]]
           more == [tok EXCEPT ![t][c] = @ + 1]
<1>1. /\ lim \in [Targets -> {0} \cup Channels]
      /\ tok \in [Targets -> [Channels -> 0 .. TargetCapacity]]
      /\ \A v \in Workers : Holds(wk[v], lim)
      /\ \A u \in Targets, d \in Channels :
           tok[u][d] = IF d = lim[u] THEN Cardinality(CallsIn(wk, u)) ELSE 0
      /\ TargetCapacity \in Nat
  BY OutboxAssumption DEF LimiterRight
<1>2. wk[w].calling = {t} /\ lim[t] # 0 /\ c = lim[t] /\ c \in Channels
  BY <1>1 DEF Holds
<1>3. /\ to[w].pc = "call" /\ to[w].calling = {t} /\ to[w].channel = c
      /\ \A v \in Workers \ {w} : to[v] = wk[v]
  BY <1>2 DEF WorkerStates
<1>4. /\ more \in [Targets -> [Channels -> 0 .. TargetCapacity]] /\ more[t][c] = tok[t][c] + 1
      /\ \A u \in Targets, d \in Channels : u # t \/ d # c => more[u][d] = tok[u][d]
  BY <1>1, <1>2
<1> HIDE DEF to, more
<1>5. \A v \in Workers : Holds(to[v], lim)
  BY <1>1, <1>2, <1>3 DEF Holds
<1>6. \A u \in Targets \ {t} : CallsIn(to, u) = CallsIn(wk, u)
  BY <1>2, <1>3 DEF CallsIn
<1>7. Cardinality(CallsIn(to, t)) = Cardinality(CallsIn(wk, t)) + 1
  <2>1. CallsIn(to, t) = CallsIn(wk, t) \cup {w} /\ w \notin CallsIn(wk, t)
    BY <1>3 DEF CallsIn
  <2> QED
    BY <2>1, CallsAreCounted, FS_AddElement
<1>8. ASSUME NEW u \in Targets, NEW d \in Channels
      PROVE  more[u][d] = IF d = lim[u] THEN Cardinality(CallsIn(to, u)) ELSE 0
  <2>1. CASE u = t
    BY <1>1, <1>2, <1>4, <1>7, <2>1
  <2>2. CASE u # t
    BY <1>1, <1>4, <1>6, <2>2
  <2> QED
    BY <2>1, <2>2
<1>9. LimiterRight(lim, more, to)
  BY <1>1, <1>4, <1>5, <1>8 DEF LimiterRight
<1> QED
  BY <1>9 DEF to, more

\* And it is taken out of the same channel when the call ends.
LEMMA CallEnds ==
  ASSUME NEW lim, NEW tok, NEW wk, LimiterRight(lim, tok, wk), wk \in [Workers -> WorkerStates],
         NEW w \in Workers, NEW t \in Targets, wk[w].pc = "call", t \in wk[w].calling,
         NEW r, r.calling = {}
  PROVE  LimiterRight(lim, [tok EXCEPT ![t][wk[w].channel] = @ - 1], [wk EXCEPT ![w] = r])
<1> DEFINE to == [wk EXCEPT ![w] = r]
           c == wk[w].channel
           less == [tok EXCEPT ![t][c] = @ - 1]
<1>1. /\ lim \in [Targets -> {0} \cup Channels]
      /\ tok \in [Targets -> [Channels -> 0 .. TargetCapacity]]
      /\ \A v \in Workers : Holds(wk[v], lim)
      /\ \A u \in Targets, d \in Channels :
           tok[u][d] = IF d = lim[u] THEN Cardinality(CallsIn(wk, u)) ELSE 0
      /\ TargetCapacity \in Nat
  BY OutboxAssumption DEF LimiterRight
<1>2. wk[w].calling = {t} /\ lim[t] # 0 /\ c = lim[t] /\ c \in Channels
  BY <1>1 DEF Holds
<1>3. to[w] = r /\ \A v \in Workers \ {w} : to[v] = wk[v]
  OBVIOUS
<1>4. /\ CallsIn(to, t) = CallsIn(wk, t) \ {w} /\ w \in CallsIn(wk, t)
      /\ \A u \in Targets \ {t} : CallsIn(to, u) = CallsIn(wk, u)
  BY <1>2, <1>3 DEF CallsIn
<1>5. /\ Cardinality(CallsIn(to, t)) = Cardinality(CallsIn(wk, t)) - 1
      /\ tok[t][c] = Cardinality(CallsIn(wk, t)) /\ tok[t][c] - 1 \in Nat
  <2>1. Cardinality(CallsIn(wk, t)) \in Nat /\ Cardinality(CallsIn(wk, t)) # 0
    BY <1>4, CallsAreCounted
  <2>2. Cardinality(CallsIn(wk, t) \ {w}) = Cardinality(CallsIn(wk, t)) - 1
    BY <1>4, CallsAreCounted, FS_RemoveElement
  <2>3. tok[t][c] = Cardinality(CallsIn(wk, t))
    BY <1>1, <1>2
  <2>4. PICK n \in Nat \ {0} : n = Cardinality(CallsIn(wk, t))
    BY <2>1
  <2>5. n - 1 \in Nat
    OBVIOUS
  <2> QED
    BY <1>4, <2>2, <2>3, <2>4, <2>5
<1> HIDE DEF to, c
<1>6. /\ less \in [Targets -> [Channels -> 0 .. TargetCapacity]] /\ less[t][c] = tok[t][c] - 1
      /\ \A u \in Targets, d \in Channels : u # t \/ d # c => less[u][d] = tok[u][d]
  <2>1. tok[t][c] \in 0 .. TargetCapacity
    BY <1>1, <1>2
  <2>2. tok[t][c] - 1 \in 0 .. TargetCapacity
    BY <1>1, <1>5, <2>1
  <2> QED
    BY <1>1, <1>2, <2>2
<1> HIDE DEF less
<1>7. \A v \in Workers : Holds(to[v], lim)
  BY <1>1, <1>3 DEF Holds
<1>8. ASSUME NEW u \in Targets, NEW d \in Channels
      PROVE  less[u][d] = IF d = lim[u] THEN Cardinality(CallsIn(to, u)) ELSE 0
  <2>1. CASE u = t
    BY <1>1, <1>2, <1>5, <1>6, <2>1
  <2>2. CASE u # t
    BY <1>1, <1>4, <1>6, <2>2
  <2> QED
    BY <2>1, <2>2
<1>9. LimiterRight(lim, less, to)
  BY <1>1, <1>6, <1>7, <1>8 DEF LimiterRight
<1> QED
  BY <1>9 DEF to, less, c

\* At the start, and after a crash, there is no channel and no call.
LEMMA LimiterStart == LimiterRight(NoLimits, NoTokens, [w \in Workers |-> Idle])
<1> DEFINE wk == [w \in Workers |-> Idle]
<1>1. \A w \in Workers : wk[w] = Idle /\ Idle.calling = {}
  BY DEF Idle
<1>2. /\ NoLimits \in [Targets -> {0} \cup Channels]
      /\ \A t \in Targets, c \in Channels : NoTokens[t][c] = 0 /\ NoLimits[t] = 0 /\ c # 0
  BY DEF NoLimits, NoTokens, Channels
<1>3. NoTokens \in [Targets -> [Channels -> 0 .. TargetCapacity]]
  BY OutboxAssumption DEF NoTokens
<1> HIDE DEF wk
<1>4. \A w \in Workers : Holds(wk[w], NoLimits)
  BY <1>1 DEF Holds
<1>5. LimiterRight(NoLimits, NoTokens, wk)
  BY <1>2, <1>3, <1>4 DEF LimiterRight
<1> QED
  BY <1>5 DEF wk

\* No step of a worker or of the environment parts the table from the calls.
LEMMA LimiterStep ==
  ASSUME IInv, LimiterInv, [Next]_vars
  PROVE  LimiterInv'
<1>1. /\ worker \in [Workers -> WorkerStates] /\ LimiterRight(limits, tokens, worker)
      /\ \A w \in Workers : Holds(worker[w], limits)
      /\ \A w \in Workers : worker[w].calling # {} => worker[w].pc \in {"call", "enter"}
      /\ \A w \in Workers : worker[w].pc \in {"idle", "claim", "read", "call", "enter"}
      /\ limits \in [Targets -> {0} \cup Channels]
  BY DEF IInv, Types, LimiterInv, LimiterRight, WorkersAreSound, Sound, WorkerStates
<1>2. ASSUME NEW w \in Workers, NEW r, Goto(w, r), r.calling = {},
             worker[w].pc # "call" \/ worker[w].calling = {},
             LimiterRight(limits', tokens', worker)
      PROVE  LimiterInv'
  <2>1. Holds(r, limits')
    BY <1>2 DEF Holds
  <2>2. LimiterRight(limits', tokens', [worker EXCEPT ![w] = r])
    BY <1>1, <1>2, <2>1, NoCallMoves
  <2> QED
    BY <1>2, <2>2 DEF Goto, LimiterInv
<1>3. ASSUME NEW w \in Workers, NEW t \in Targets, NEW c, limits'[t] = c, c # 0,
             Goto(w, Holding(w, t, c)), worker[w].calling = {},
             LimiterRight(limits', tokens', worker)
      PROVE  LimiterInv'
  <2>1. Holding(w, t, c).calling = {t} /\ Holding(w, t, c).pc = "enter" /\ Holding(w, t, c).channel = c
    BY <1>1 DEF Holding, WorkerStates
  <2>2. Holds(Holding(w, t, c), limits')
    BY <1>3, <2>1 DEF Holds
  <2>3. LimiterRight(limits', tokens', [worker EXCEPT ![w] = Holding(w, t, c)])
    BY <1>1, <1>3, <2>1, <2>2, NoCallMoves
  <2> QED
    BY <1>3, <2>3 DEF Goto, LimiterInv
<1>4. ASSUME NEW gone \in SUBSET { u \in Targets : Prunable(u) }
      PROVE  LimiterRight(Pruned(gone), tokens, worker)
  <2>1. gone \in SUBSET Targets
    OBVIOUS
  <2>2. \A t \in gone : /\ limits[t] # 0 /\ tokens[t][limits[t]] = 0
                        /\ \A w \in Workers : worker[w].pc = "enter" => t \notin worker[w].calling
    BY <1>4 DEF Prunable
  <2>3. Pruned(gone) = [t \in Targets |-> IF t \in gone THEN 0 ELSE limits[t]]
    BY DEF Pruned
  <2> QED
    BY <1>1, <2>1, <2>2, <2>3, Pruning
<1>5. CASE UNCHANGED <<limiter, worker>>
  BY <1>5 DEF limiter, LimiterInv
<1>6. ASSUME NEW w \in Workers,
             TakeEvent(w) \/ Ticker(w) \/ Claim(w) \/ ReadHooks(w) \/ Mark(w)
      PROVE  LimiterInv'
  <2>1. UNCHANGED <<limits, tokens>>
    BY <1>6 DEF TakeEvent, Ticker, Claim, ReadHooks, Mark, limiter
  <2>2. worker[w].calling = {} /\ worker[w] \in WorkerStates /\ Idle \in WorkerStates
        /\ Idle.calling = {}
    BY <1>1, <1>6, IdleFacts DEF TakeEvent, Ticker, Claim, ReadHooks, Mark, Idle
  <2>3. ASSUME NEW r, Goto(w, r), r.calling = {} PROVE LimiterInv'
    BY <1>1, <1>2, <2>1, <2>2, <2>3
  <2>4. CASE TakeEvent(w) \/ Ticker(w)
    BY <2>2, <2>3, <2>4 DEF TakeEvent, Ticker, WorkerStates
  <2>5. CASE Claim(w)
    BY <2>2, <2>3, <2>5 DEF Claim, WorkerStates
  <2>6. CASE ReadHooks(w)
    BY <2>2, <2>3, <2>6 DEF ReadHooks, WorkerStates
  <2>7. CASE Mark(w)
    BY <2>2, <2>3, <2>7 DEF Mark, WorkerStates
  <2> QED
    BY <1>6, <2>4, <2>5, <2>6, <2>7
<1>7. ASSUME NEW w \in Workers, NEW t \in Targets, Lookup(w, t) PROVE LimiterInv'
  <2>1. worker[w].calling = {} /\ Refused(w, t).calling = {}
    BY <1>1, <1>7 DEF Lookup, Refused, WorkerStates
  <2>2. CASE limits[t] # 0
    <3>1. Goto(w, Holding(w, t, limits[t])) /\ UNCHANGED <<limits, tokens>>
      BY <1>7, <2>2 DEF Lookup, limiter
    <3> QED
      BY <1>1, <1>3, <2>1, <2>2, <3>1
  <2>3. ASSUME limits[t] = 0, NEW gone \in SUBSET { u \in Targets : Prunable(u) },
               limits' = Pruned(gone), Goto(w, Refused(w, t)), UNCHANGED tokens
        PROVE  LimiterInv'
    BY <1>2, <1>4, <2>1, <2>3
  <2>4. ASSUME limits[t] = 0, NEW gone \in SUBSET { u \in Targets : Prunable(u) },
               limits' = [Pruned(gone) EXCEPT ![t] = NewChannel(t)],
               tokens' = [tokens EXCEPT ![t][NewChannel(t)] = 0],
               Goto(w, Holding(w, t, NewChannel(t)))
        PROVE  LimiterInv'
    <3>1. NewChannel(t) \in Channels
      BY <2>4, ChannelsSuffice
    <3>2. NewChannel(t) # 0
      BY <3>1 DEF Channels
    <3>3. Pruned(gone)[t] = 0 /\ limits'[t] = NewChannel(t)
      BY <2>4 DEF Pruned
    <3>4. LimiterRight(limits', tokens', worker)
      BY <1>4, <2>4, <3>1, <3>3, NewEntry
    <3> QED
      BY <1>3, <2>1, <2>4, <3>2, <3>3, <3>4
  <2> QED
    BY <1>7, <2>2, <2>3, <2>4 DEF Lookup
<1>8. ASSUME NEW w \in Workers, NEW t \in Targets, Enter(w, t) PROVE LimiterInv'
  <2> DEFINE c == worker[w].channel
  <2>1. worker[w].pc = "enter" /\ t \in worker[w].calling /\ UNCHANGED limits
    BY <1>8 DEF Enter
  <2>2. CASE Goto(w, Refused(w, t)) /\ UNCHANGED tokens
    <3>1. Refused(w, t).calling = {}
      BY <1>1 DEF Refused, WorkerStates
    <3> QED
      BY <1>1, <1>2, <2>1, <2>2, <3>1
  <2>3. CASE /\ tokens[t][c] < TargetCapacity /\ tokens' = [tokens EXCEPT ![t][c] = @ + 1]
             /\ Goto(w, [worker[w] EXCEPT !.pc = "call"])
    <3>1. LimiterRight(limits, tokens', worker')
      BY <1>1, <2>1, <2>3, CallBegins DEF Goto
    <3> QED
      BY <2>1, <3>1 DEF LimiterInv
  <2> QED
    BY <1>8, <2>2, <2>3 DEF Enter
<1>9. ASSUME NEW w \in Workers, NEW t \in Targets, EndCall(w, t) PROVE LimiterInv'
  <2>1. /\ worker[w].pc = "call" /\ t \in worker[w].calling /\ UNCHANGED limits
        /\ tokens' = [tokens EXCEPT ![t][worker[w].channel] = @ - 1]
    BY <1>9 DEF EndCall, ReleaseSlot
  <2>2. ASSUME NEW r, Goto(w, r), r.calling = {} PROVE LimiterInv'
    <3>1. LimiterRight(limits, tokens', worker')
      BY <1>1, <2>1, <2>2, CallEnds DEF Goto
    <3> QED
      BY <2>1, <3>1 DEF LimiterInv
  <2>3. PICK answered \in BOOLEAN :
          Goto(w, [worker[w] EXCEPT !.calling = {}, !.channel = 0,
                                    !.failed = worker[w].failed \/ ~answered])
    BY <1>9 DEF EndCall
  <2>4. [worker[w] EXCEPT !.calling = {}, !.channel = 0,
                          !.failed = worker[w].failed \/ ~answered].calling = {}
    BY <1>1 DEF WorkerStates
  <2> QED
    BY <2>2, <2>3, <2>4
<1>10. CASE EvictHandle
  <2>1. /\ UNCHANGED <<limits, tokens>>
        /\ worker' = [w \in Workers |-> [worker[w] EXCEPT !.handle = FALSE]]
    BY <1>10 DEF EvictHandle, limiter
  <2>2. \A w \in Workers : /\ worker'[w].pc = worker[w].pc
                           /\ worker'[w].calling = worker[w].calling
                           /\ worker'[w].channel = worker[w].channel
    BY <1>1, <2>1 DEF WorkerStates
  <2>3. \A w \in Workers : Holds(worker'[w], limits)
    BY <1>1, <2>2 DEF Holds
  <2>4. \A t \in Targets : CallsIn(worker', t) = CallsIn(worker, t)
    BY <2>2 DEF CallsIn
  <2> QED
    BY <1>1, <2>1, <2>3, <2>4 DEF LimiterInv, LimiterRight
<1>11. CASE OtherLookup
  <2>1. PICK gone \in SUBSET { u \in Targets : Prunable(u) } :
          limits' = Pruned(gone) /\ UNCHANGED <<worker, tokens>>
    BY <1>11 DEF OtherLookup
  <2> QED
    BY <1>4, <2>1 DEF LimiterInv
<1>12. CASE Crash
  <2>1. limits' = NoLimits /\ tokens' = NoTokens /\ worker' = [w \in Workers |-> Idle]
    BY <1>12 DEF Crash
  <2> QED
    BY <2>1, LimiterStart DEF LimiterInv
<1>13. ASSUME NEW w \in Workers, WorkerStep(w) PROVE LimiterInv'
  BY <1>6, <1>7, <1>8, <1>9, <1>13 DEF WorkerStep
<1> QED
  BY <1>5, <1>10, <1>11, <1>12, <1>13
    DEF Next, vars, Commit, Publish, PublishTransient, SetWebhooks, RetryWebhookDelivery, Tick

LEMMA LimiterInit == Init => LimiterInv
BY LimiterStart DEF Init, LimiterInv

-----------------------------------------------------------------------------
\* No row goes as long as a target configured all along has not answered.
THEOREM NoDeliveryIsLost == Spec => []NothingIsLost
<1>1. IInv => NothingIsLost
  BY DEF IInv
<1> QED
  BY <1>1, InitIInv, StepIInv, LimiterInit, LimiterStep, PTL DEF Spec

\* However entries of the limiter's table are dropped and made anew between a
\* worker's look at it and its call, and however calls end, the slots taken in
\* the channel of a host are the calls to it.
THEOREM NoSlotLeaks == Spec => []SlotsComeBack
<1>1. LimiterInv => SlotsComeBack
  <2> SUFFICES ASSUME LimiterInv, NEW t \in Targets
               PROVE  Cardinality(Callers(t)) = IF limits[t] = 0 THEN 0 ELSE tokens[t][limits[t]]
    BY DEF SlotsComeBack
  <2>1. Callers(t) = CallsIn(worker, t)
    BY DEF Callers, CallsIn
  <2>2. CASE limits[t] = 0
    <3>1. CallsIn(worker, t) = {}
      BY <2>2 DEF LimiterInv, LimiterRight, Holds, CallsIn
    <3> QED
      BY <2>1, <2>2, <3>1, FS_EmptySet
  <2>3. CASE limits[t] # 0
    BY <2>1, <2>3 DEF LimiterInv, LimiterRight
  <2> QED
    BY <2>2, <2>3
<1> QED
  BY <1>1, InitIInv, StepIInv, LimiterInit, LimiterStep, PTL DEF Spec

\* Hence no host is called more often at a time than its slots allow.
THEOREM LimiterHolds == Spec => []TargetsAreSpared
<1>1. LimiterInv /\ SlotsComeBack => TargetsAreSpared
  <2> SUFFICES ASSUME LimiterInv, SlotsComeBack, NEW t \in Targets
               PROVE  Cardinality(Callers(t)) <= TargetCapacity
    BY DEF TargetsAreSpared
  <2>1. TargetCapacity \in Nat
    BY OutboxAssumption
  <2>2. limits[t] # 0 => tokens[t][limits[t]] \in 0 .. TargetCapacity
    BY DEF LimiterInv, LimiterRight
  <2> QED
    BY <2>1, <2>2 DEF SlotsComeBack
<1> QED
  BY <1>1, NoSlotLeaks, InitIInv, StepIInv, LimiterInit, LimiterStep, PTL DEF Spec

-----------------------------------------------------------------------------
(* The types, and how often the deliveries of a row can fail.              *)

Busy(s) == { w \in Workers : worker[w].seq = s }

\* One failed attempt for each worker beyond the limit, and again for each
\* time that a row was made pending again: a worker may mark what was claimed
\* by others since, and the endpoint does not reset the attempts.
Most(e) == MaxAttempts + Cardinality(Workers) * e

\* What holds of a row that n workers are at, after e extra steps: a row that
\* can be claimed is below the limit with all the workers at it, and each
\* worker at a row adds at most one attempt.
Few(row, n, e) ==
  /\ row.status \in {"pending", "delivering"} => row.attempts < Most(e)
  /\ row.attempts + n < Most(e + 1)

AttemptsAreFew == \A s \in Seqs : Few(outbox[s], Cardinality(Busy(s)), extras)

\* The bounds that Types does not have.
Bounds ==
  /\ unpublished \in BOOLEAN
  /\ queue \in Seq({"durable", "transient"}) /\ Len(queue) <= QueueCapacity
  /\ extras \in 0 .. MaxExtras
  /\ \A w \in Workers : worker[w].claims <= MaxClaims
  /\ \A s \in Seqs : outbox[s].wait <= Lease + RetryDelay(MaxAttempts)

OutboxInv == IInv /\ LimiterInv /\ Bounds /\ AttemptsAreFew

LEMMA WorkersAreCounted == Cardinality(Workers) \in Nat
BY OutboxAssumption, FS_CardinalityType

LEMMA MostFacts ==
  ASSUME NEW e \in Nat
  PROVE  /\ Most(e) \in Nat /\ Most(e + 1) \in Nat
         /\ Most(e + 1) = Most(e) + Cardinality(Workers)
         /\ 1 <= MaxAttempts /\ MaxAttempts <= Most(e)
<1> DEFINE n == Cardinality(Workers)
<1>1. n \in Nat /\ MaxAttempts \in Nat \ {0}
  BY WorkersAreCounted, OutboxAssumption
<1> HIDE DEF n
<1>2. n * e \in Nat /\ n * (e + 1) = n * e + n
  BY <1>1
<1>3. Most(e) = MaxAttempts + n * e /\ Most(e + 1) = MaxAttempts + n * (e + 1)
  BY DEF Most, n
<1>4. Most(e + 1) = Most(e) + n
  BY <1>1, <1>2, <1>3
<1> QED
  BY <1>1, <1>2, <1>3, <1>4 DEF n

LEMMA BusyFacts ==
  ASSUME NEW s
  PROVE  /\ IsFiniteSet(Busy(s)) /\ Cardinality(Busy(s)) \in 0 .. Cardinality(Workers)
         /\ IsFiniteSet(Busy(s)') /\ Cardinality(Busy(s)') \in 0 .. Cardinality(Workers)
<1>1. Busy(s) \subseteq Workers /\ Busy(s)' \subseteq Workers /\ IsFiniteSet(Workers)
  BY OutboxAssumption DEF Busy
<1>2. \A S \in SUBSET Workers :
        IsFiniteSet(S) /\ Cardinality(S) \in Nat /\ Cardinality(S) <= Cardinality(Workers)
  BY <1>1, FS_Subset, FS_CardinalityType
<1>3. \A S \in SUBSET Workers : IsFiniteSet(S) /\ Cardinality(S) \in 0 .. Cardinality(Workers)
  BY <1>2, WorkersAreCounted
<1> QED
  BY <1>1, <1>3

LEMMA BusyLeave ==
  ASSUME NEW s, Busy(s)' \subseteq Busy(s)
  PROVE  Cardinality(Busy(s)) \in Nat /\ Cardinality(Busy(s)') \in 0 .. Cardinality(Busy(s))
BY BusyFacts, FS_Subset

\* A row far below the limit is, whoever is at it.
LEMMA FewAttempts ==
  ASSUME NEW row, row.attempts \in Nat, NEW n \in 0 .. Cardinality(Workers), NEW e \in Nat,
         row.attempts < Most(e)
  PROVE  Few(row, n, e)
BY MostFacts, WorkersAreCounted DEF Few

\* Extra steps and workers that leave a row only widen the gap.
LEMMA FewStays ==
  ASSUME NEW row, row.attempts \in Nat, NEW n \in Nat, NEW m \in 0 .. n, NEW e \in Nat,
         Few(row, n, e), NEW f \in {e, e + 1},
         NEW new, new.attempts = row.attempts, new.status = row.status
  PROVE  Few(new, m, f)
<1>1. Most(f) \in Nat /\ Most(f + 1) \in Nat /\ Most(e) <= Most(f) /\ Most(e + 1) <= Most(f + 1)
  <2>1. e + 1 \in Nat
    OBVIOUS
  <2> QED
    BY <2>1, MostFacts, WorkersAreCounted
<1>2. Most(e) \in Nat /\ Most(e + 1) \in Nat
  BY MostFacts
<1> QED
  BY <1>1, <1>2 DEF Few

-----------------------------------------------------------------------------
LEMMA OutboxInitInv == Init => OutboxInv
<1> SUFFICES ASSUME Init PROVE OutboxInv
  OBVIOUS
<1>1. Bounds
  <2>1. /\ RetryDelay(MaxAttempts) \in Nat /\ Lease \in Nat /\ MaxClaims \in Nat
        /\ QueueCapacity \in Nat /\ MaxExtras \in Nat
    BY RowFacts, OutboxAssumption
  <2>2. NoRow.wait = 0 /\ Idle.claims = 0
    BY DEF NoRow, Idle
  <2>3. << >> \in Seq({"durable", "transient"}) /\ Len(<< >>) = 0
    OBVIOUS
  <2>4. /\ \A w \in Workers : worker[w].claims = 0
        /\ \A s \in Seqs : outbox[s].wait = 0
        /\ unpublished = FALSE /\ queue = << >> /\ extras = 0
    BY <2>2 DEF Init
  <2>5. 0 \in 0 .. MaxExtras /\ 0 <= Lease + RetryDelay(MaxAttempts) /\ 0 <= MaxClaims
        /\ 0 <= QueueCapacity
    BY <2>1
  <2> QED
    BY <2>3, <2>4, <2>5 DEF Bounds
<1>2. AttemptsAreFew
  <2>1. NoRow.attempts = 0 /\ extras = 0 /\ 0 < Most(0)
    <3>1. Most(0) \in Nat /\ MaxAttempts \in Nat \ {0} /\ MaxAttempts <= Most(0)
      BY MostFacts, OutboxAssumption
    <3> QED
      BY <3>1 DEF Init, NoRow
  <2>2. \A n \in 0 .. Cardinality(Workers) : Few(NoRow, n, 0)
    BY <2>1, FewAttempts
  <2> QED
    BY <2>1, <2>2, BusyFacts DEF Init, AttemptsAreFew
<1> QED
  BY <1>1, <1>2, InitIInv, LimiterInit DEF OutboxInv

\* Rows keep their state and their attempts, and workers at most leave.
LEMMA RowsStayFew ==
  ASSUME OutboxInv, extras' \in {extras, extras + 1},
         \A s \in Seqs : /\ outbox'[s].attempts = outbox[s].attempts
                         /\ outbox'[s].status = outbox[s].status,
         \A w \in Workers : worker'[w].seq \in {worker[w].seq, 0}
  PROVE  AttemptsAreFew'
<1> SUFFICES ASSUME NEW s \in Seqs PROVE Few(outbox'[s], Cardinality(Busy(s)'), extras')
  BY DEF AttemptsAreFew
<1>1. Busy(s)' \subseteq Busy(s)
  BY DEF Busy, Seqs
<1>2. Cardinality(Busy(s)) \in Nat /\ Cardinality(Busy(s)') \in 0 .. Cardinality(Busy(s))
  BY <1>1, BusyLeave
<1>3. outbox[s].attempts \in Nat /\ extras \in Nat /\ Few(outbox[s], Cardinality(Busy(s)), extras)
  BY DEF OutboxInv, IInv, Types, Rows, Bounds, AttemptsAreFew
<1> QED
  BY <1>2, <1>3, FewStays

\* Nobody leaves or comes, and rows that change are below the limit.
LEMMA RowsStartFew ==
  ASSUME OutboxInv, extras' \in {extras, extras + 1}, UNCHANGED worker,
         \A s \in Seqs : outbox'[s] # outbox[s] =>
           outbox'[s].attempts \in Nat /\ outbox'[s].attempts < Most(extras')
  PROVE  AttemptsAreFew'
<1> SUFFICES ASSUME NEW s \in Seqs PROVE Few(outbox'[s], Cardinality(Busy(s)'), extras')
  BY DEF AttemptsAreFew
<1>1. outbox[s].attempts \in Nat /\ extras \in Nat /\ Few(outbox[s], Cardinality(Busy(s)), extras)
  BY DEF OutboxInv, IInv, Types, Rows, Bounds, AttemptsAreFew
<1>2. CASE outbox'[s] = outbox[s]
  <2>1. Busy(s)' = Busy(s)
    BY DEF Busy
  <2>2. Cardinality(Busy(s)) \in Nat /\ Cardinality(Busy(s)') \in 0 .. Cardinality(Busy(s))
    BY <2>1, BusyFacts
  <2> QED
    BY <1>1, <1>2, <2>2, FewStays
<1>3. CASE outbox'[s] # outbox[s]
  BY <1>1, <1>3, BusyFacts, FewAttempts
<1> QED
  BY <1>2, <1>3

LEMMA ClaimStaysFew ==
  ASSUME OutboxInv, NEW w \in Workers, Claim(w)
  PROVE  AttemptsAreFew'
<1>1. extras' = extras /\ extras \in Nat
  BY DEF Claim, OutboxInv, Bounds
<1>2. worker[w] \in WorkerStates /\ outbox \in [Seqs -> Rows] /\ worker \in [Workers -> WorkerStates]
  BY DEF OutboxInv, IInv, Types
<1>3. CASE Goto(w, Idle) /\ UNCHANGED outbox
  <2>1. \A v \in Workers : worker'[v].seq \in {worker[v].seq, 0}
    BY <1>2, <1>3 DEF Goto, Idle
  <2> QED
    BY <1>1, <1>3, <2>1, RowsStayFew
<1>4. CASE /\ \E s \in Seqs : Due(s)
           /\ outbox' = [outbox EXCEPT ![NextDue].status = "delivering", ![NextDue].wait = Lease]
           /\ Goto(w, [worker[w] EXCEPT !.pc = "read", !.seq = NextDue,
                                        !.claims = worker[w].claims + 1])
  <2>1. NextDue \in Seqs /\ Due(NextDue)
    <3>1. { s \in Seqs : Due(s) } \in SUBSET Nat /\ { s \in Seqs : Due(s) } # {}
      BY <1>4, OutboxAssumption DEF Seqs
    <3> QED
      BY <3>1, MinIsLeast DEF NextDue
  <2>2. SUFFICES ASSUME NEW s \in Seqs PROVE Few(outbox'[s], Cardinality(Busy(s)'), extras)
    BY <1>1 DEF AttemptsAreFew
  <2>3. outbox[s] \in Rows /\ Few(outbox[s], Cardinality(Busy(s)), extras)
    BY <1>2 DEF OutboxInv, AttemptsAreFew
  <2>4. CASE s = NextDue
    <3>1. /\ outbox'[s].attempts = outbox[s].attempts /\ outbox[s].attempts \in Nat
          /\ outbox[s].status \in {"pending", "delivering"}
      BY <1>2, <1>4, <2>1, <2>3, <2>4 DEF Due, Rows
    <3>2. outbox'[s].attempts < Most(extras)
      BY <2>3, <3>1 DEF Few
    <3> QED
      BY <1>1, <3>1, <3>2, BusyFacts, FewAttempts
  <2>5. CASE s # NextDue
    <3>1. outbox'[s] = outbox[s] /\ outbox[s].attempts \in Nat
      BY <1>2, <1>4, <2>1, <2>3, <2>5 DEF Rows
    <3>2. Busy(s)' \subseteq Busy(s)
      BY <1>2, <1>4, <2>5 DEF Goto, Busy, WorkerStates
    <3>3. Cardinality(Busy(s)) \in Nat /\ Cardinality(Busy(s)') \in 0 .. Cardinality(Busy(s))
      BY <3>2, BusyLeave
    <3> QED
      BY <1>1, <2>3, <3>1, <3>3, FewStays
  <2> QED
    BY <2>4, <2>5
<1> QED
  BY <1>3, <1>4 DEF Claim

\* A worker that marks a failure leaves the row.
LEMMA MarkStaysFew ==
  ASSUME OutboxInv, NEW w \in Workers, Mark(w)
  PROVE  AttemptsAreFew'
<1> DEFINE at == worker[w].seq
<1>1. extras' = extras /\ extras \in Nat
  BY DEF Mark, OutboxInv, Bounds
<1>2. /\ worker[w] \in WorkerStates /\ outbox \in [Seqs -> Rows]
      /\ worker \in [Workers -> WorkerStates]
  BY DEF OutboxInv, IInv, Types
<1>3. worker'[w].seq = 0 /\ \A v \in Workers \ {w} : worker'[v] = worker[v]
  BY <1>2 DEF Mark, Goto, Idle
<1>4. SUFFICES ASSUME NEW s \in Seqs PROVE Few(outbox'[s], Cardinality(Busy(s)'), extras)
  BY <1>1 DEF AttemptsAreFew
<1>5. /\ outbox[s] \in Rows /\ Few(outbox[s], Cardinality(Busy(s)), extras)
      /\ outbox[s].attempts \in Nat
  BY <1>2 DEF OutboxInv, AttemptsAreFew, Rows
<1>6. Busy(s)' = Busy(s) \ {w}
  BY <1>3 DEF Busy, Seqs
<1>7. CASE outbox'[s] = outbox[s]
  <2>1. Cardinality(Busy(s)) \in Nat /\ Cardinality(Busy(s)') \in 0 .. Cardinality(Busy(s))
    BY <1>6, BusyLeave
  <2> QED
    BY <1>1, <1>5, <1>7, <2>1, FewStays
<1>8. CASE outbox'[s] # outbox[s]
  <2>1. s = at /\ outbox'[s] \in {NoRow, AfterFailure(outbox[s])}
    BY <1>2, <1>8 DEF Mark
  <2>2. CASE outbox'[s] = NoRow
    <3>1. NoRow.attempts = 0 /\ 0 < Most(extras)
      <4>1. Most(extras) \in Nat /\ MaxAttempts \in Nat \ {0} /\ MaxAttempts <= Most(extras)
        BY <1>1, MostFacts, OutboxAssumption
      <4> QED
        BY <4>1 DEF NoRow
    <3> QED
      BY <1>1, <2>2, <3>1, BusyFacts, FewAttempts
  <2>3. CASE outbox'[s] = AfterFailure(outbox[s])
    <3>1. /\ outbox'[s].attempts = outbox[s].attempts + 1
          /\ outbox'[s].status \in {"pending", "delivering"} =>
               outbox[s].attempts + 1 < MaxAttempts
      BY <1>5, <2>3, OutboxAssumption DEF AfterFailure, Pending
    <3>2. Cardinality(Busy(s)') = Cardinality(Busy(s)) - 1 /\ Cardinality(Busy(s)) \in Nat
      <4>1. w \in Busy(s)
        BY <2>1 DEF Busy
      <4>2. Cardinality(Busy(s) \ {w}) = Cardinality(Busy(s)) - 1
        BY <4>1, BusyFacts, FS_RemoveElement
      <4> QED
        BY <1>6, <4>2, BusyFacts
    <3>3. /\ Most(extras) \in Nat /\ Most(extras + 1) \in Nat /\ MaxAttempts \in Nat
          /\ MaxAttempts <= Most(extras)
      BY <1>1, MostFacts, OutboxAssumption
    <3> QED
      BY <1>5, <3>1, <3>2, <3>3 DEF Few
  <2> QED
    BY <2>1, <2>2, <2>3
<1> QED
  BY <1>7, <1>8

LEMMA StepStaysFew == OutboxInv /\ [Next]_vars => AttemptsAreFew'
<1> SUFFICES ASSUME OutboxInv, [Next]_vars PROVE AttemptsAreFew'
  OBVIOUS
<1>1. /\ outbox \in [Seqs -> Rows] /\ worker \in [Workers -> WorkerStates]
      /\ extras \in Nat /\ extras + 1 \in Nat
  BY DEF OutboxInv, IInv, Types, Bounds
<1>2. CASE UNCHANGED <<outbox, worker>> /\ extras' \in {extras, extras + 1}
  BY <1>2, RowsStayFew
<1>3. CASE Commit
  <2>1. \A s \in Seqs : outbox'[s] # outbox[s] => outbox'[s].attempts = 0
    BY <1>1, <1>3 DEF Commit, Pending
  <2>2. 0 < Most(extras)
    <3>1. Most(extras) \in Nat /\ MaxAttempts \in Nat \ {0} /\ MaxAttempts <= Most(extras)
      BY <1>1, MostFacts, OutboxAssumption
    <3> QED
      BY <3>1
  <2>3. extras' = extras /\ UNCHANGED worker
    BY <1>3 DEF Commit
  <2> QED
    BY <2>1, <2>2, <2>3, RowsStartFew
<1>4. ASSUME NEW s \in Seqs, RetryWebhookDelivery(s) PROVE AttemptsAreFew'
  <2>1. /\ extras' = extras + 1 /\ UNCHANGED worker
        /\ \A t \in Seqs : outbox'[t] # outbox[t] => outbox'[t].attempts = outbox[t].attempts
    BY <1>1, <1>4 DEF RetryWebhookDelivery, Extra, Pending
  <2>2. ASSUME NEW t \in Seqs
        PROVE  outbox[t].attempts \in Nat /\ outbox[t].attempts < Most(extras + 1)
    <3>1. outbox[t].attempts \in Nat /\ Few(outbox[t], Cardinality(Busy(t)), extras)
      BY <1>1 DEF OutboxInv, AttemptsAreFew, Rows
    <3>2. Cardinality(Busy(t)) \in Nat /\ Most(extras + 1) \in Nat
      BY <1>1, BusyFacts, MostFacts
    <3> QED
      BY <3>1, <3>2 DEF Few
  <2> QED
    BY <2>1, <2>2, RowsStartFew
<1>5. CASE Tick
  <2>1. \A s \in Seqs : /\ outbox'[s].attempts = outbox[s].attempts
                        /\ outbox'[s].status = outbox[s].status
    BY <1>1, <1>5 DEF Tick, Rows
  <2> QED
    BY <1>5, <2>1, RowsStayFew DEF Tick
<1>6. CASE EvictHandle \/ Crash
  <2>1. \A w \in Workers : worker'[w].seq \in {worker[w].seq, 0}
    BY <1>1, <1>6 DEF EvictHandle, Crash, WorkerStates, Idle
  <2> QED
    BY <1>6, <2>1, RowsStayFew DEF EvictHandle, Crash, Extra
<1>7. ASSUME NEW w \in Workers, WorkerStep(w) PROVE AttemptsAreFew'
  <2>1. ASSUME NEW r, Goto(w, r), r.seq \in {worker[w].seq, 0}, UNCHANGED <<outbox, extras>>
        PROVE  AttemptsAreFew'
    <3>1. \A v \in Workers : worker'[v].seq \in {worker[v].seq, 0}
      BY <1>1, <2>1 DEF Goto
    <3> QED
      BY <2>1, <3>1, RowsStayFew
  <2>2. worker[w] \in WorkerStates /\ Idle \in WorkerStates /\ Idle.seq = 0
    BY <1>1, IdleFacts DEF Idle
  <2>3. CASE TakeEvent(w) \/ Ticker(w)
    BY <2>1, <2>2, <2>3 DEF TakeEvent, Ticker, WorkerStates
  <2>4. CASE ReadHooks(w)
    BY <2>1, <2>2, <2>4 DEF ReadHooks, WorkerStates
  <2>5. ASSUME NEW t \in Targets, Lookup(w, t) \/ Enter(w, t) \/ EndCall(w, t)
        PROVE  AttemptsAreFew'
    BY <2>1, <2>2, <2>5 DEF Lookup, Holding, Refused, Enter, EndCall, WorkerStates
  <2> QED
    BY <1>7, <2>3, <2>4, <2>5, ClaimStaysFew, MarkStaysFew DEF WorkerStep
<1> QED
  BY <1>2, <1>3, <1>4, <1>5, <1>6, <1>7
    DEF Next, vars, Publish, PublishTransient, SetWebhooks, OtherLookup, Extra

LEMMA OffersFit ==
  ASSUME OutboxInv, NEW kind \in {"durable", "transient"}, Offer(kind)
  PROVE  queue' \in Seq({"durable", "transient"}) /\ Len(queue') <= QueueCapacity
<1>1. /\ queue \in Seq({"durable", "transient"}) /\ Len(queue) <= QueueCapacity
      /\ QueueCapacity \in Nat
  BY OutboxAssumption DEF OutboxInv, Bounds
<1>2. /\ Append(queue, kind) \in Seq({"durable", "transient"})
      /\ Len(Append(queue, kind)) = Len(queue) + 1
  BY <1>1, AppendProperties
<1>3. Len(queue) \in Nat
  BY <1>1, LenProperties
<1> QED
  BY <1>1, <1>2, <1>3 DEF Offer, QueueHasRoom

\* The waits that the code sets.
LEMMA WaitsAreShort ==
  /\ \A a \in Nat : a < MaxAttempts => RetryDelay(a) <= Lease + RetryDelay(MaxAttempts)
  /\ Lease + RetryDelay(MaxAttempts) \in Nat /\ Lease <= Lease + RetryDelay(MaxAttempts)
  /\ Lease \in Nat /\ MaxAttempts \in Nat \ {0}
<1>1. MaxAttempts \in Nat \ {0} /\ Lease \in Nat /\ RetryDelay(MaxAttempts) \in Nat
  BY RowFacts, OutboxAssumption
<1>2. ASSUME NEW a \in Nat, a < MaxAttempts PROVE RetryDelay(a) <= RetryDelay(MaxAttempts)
  <2>1. PICK d \in Nat : MaxAttempts = a + d
    BY <1>1, <1>2
  <2>2. MaxAttempts * MaxAttempts = a * a + 2 * a * d + d * d
    BY <2>1
  <2>3. a * a \in Nat /\ 2 * a * d \in Nat /\ d * d \in Nat
    OBVIOUS
  <2> QED
    BY <2>2, <2>3 DEF RetryDelay
<1>3. \A a \in Nat : RetryDelay(a) \in Nat
  BY RowFacts
<1> QED
  BY <1>1, <1>2, <1>3

LEMMA WaitsStayShort ==
  ASSUME OutboxInv, [Next]_vars, NEW s \in Seqs
  PROVE  outbox'[s].wait <= Lease + RetryDelay(MaxAttempts)
<1> DEFINE most == Lease + RetryDelay(MaxAttempts)
<1>1. /\ outbox \in [Seqs -> Rows] /\ outbox[s] \in Rows /\ outbox[s].wait \in Nat
      /\ outbox[s].attempts \in Nat /\ outbox[s].wait <= most
  BY DEF OutboxInv, IInv, Types, Bounds, Rows
<1>2. most \in Nat /\ 0 <= most /\ Lease <= most
  BY WaitsAreShort
<1> SUFFICES outbox'[s].wait <= most
  OBVIOUS
<1> HIDE DEF most
<1>3. CASE UNCHANGED outbox
  BY <1>1, <1>3
<1>4. CASE Commit \/ \E t \in Seqs : RetryWebhookDelivery(t)
  <2>1. outbox'[s] = outbox[s] \/ outbox'[s].wait = 0
    BY <1>1, <1>4 DEF Commit, RetryWebhookDelivery, Pending
  <2> QED
    BY <1>1, <1>2, <2>1
<1>5. CASE Tick
  <2>1. outbox'[s].wait = Max({outbox[s].wait, 1}) - 1
    BY <1>1, <1>5 DEF Tick, Rows
  <2> QED
    BY <1>1, <1>2, <2>1, MaxOfTwo
<1>6. ASSUME NEW w \in Workers, Claim(w) PROVE outbox'[s].wait <= most
  <2>1. outbox'[s].wait \in {outbox[s].wait, Lease}
    BY <1>1, <1>6 DEF Claim, Rows
  <2> QED
    BY <1>1, <1>2, <2>1
<1>7. ASSUME NEW w \in Workers, Mark(w) PROVE outbox'[s].wait <= most
  <2>1. outbox'[s] \in {outbox[s], NoRow, AfterFailure(outbox[s])}
    BY <1>1, <1>7 DEF Mark
  <2>2. AfterFailure(outbox[s]).wait <= most
    <3>1. CASE outbox[s].attempts + 1 >= MaxAttempts
      BY <1>2, <3>1 DEF AfterFailure
    <3>2. CASE ~(outbox[s].attempts + 1 >= MaxAttempts)
      <4>1. outbox[s].attempts + 1 \in Nat /\ outbox[s].attempts + 1 < MaxAttempts
        BY <1>1, <3>2, WaitsAreShort
      <4>2. RetryDelay(outbox[s].attempts + 1) <= most
        BY <4>1, WaitsAreShort DEF most
      <4> QED
        BY <3>2, <4>2 DEF AfterFailure, Pending
    <3> QED
      BY <3>1, <3>2
  <2> QED
    BY <1>1, <1>2, <2>1, <2>2, RowFacts
<1> QED
  BY <1>3, <1>4, <1>5, <1>6, <1>7
    DEF most, Next, vars, Publish, PublishTransient, SetWebhooks, WorkerStep, TakeEvent, Ticker,
        ReadHooks, Lookup, Enter, EndCall, EvictHandle, OtherLookup, Crash

LEMMA ClaimsStayFew ==
  ASSUME OutboxInv, [Next]_vars, NEW w \in Workers
  PROVE  worker'[w].claims <= MaxClaims
<1>0. MaxClaims \in Nat /\ 0 <= MaxClaims /\ Idle.claims = 0
  <2>1. MaxClaims \in Nat
    BY OutboxAssumption
  <2> QED
    BY <2>1 DEF Idle
<1>1. /\ worker \in [Workers -> WorkerStates] /\ worker[w].claims <= MaxClaims
      /\ worker[w].claims \in Nat /\ MaxClaims \in Nat /\ 0 <= MaxClaims /\ Idle.claims = 0
  BY <1>0 DEF OutboxInv, IInv, Types, Bounds, WorkerStates
<1>2. ASSUME NEW v \in Workers, NEW r, Goto(v, r),
             v = w => r.claims \in {0, worker[w].claims} \/ r.claims <= MaxClaims
      PROVE  worker'[w].claims <= MaxClaims
  BY <1>1, <1>2 DEF Goto
<1>3. ASSUME NEW v \in Workers, WorkerStep(v) PROVE worker'[w].claims <= MaxClaims
  <2>1. worker[v] \in WorkerStates /\ Idle \in WorkerStates
    BY <1>1, IdleFacts
  <2>2. CASE TakeEvent(v) \/ Ticker(v)
    BY <1>1, <1>2, <2>1, <2>2 DEF TakeEvent, Ticker, WorkerStates
  <2>3. CASE Claim(v)
    <3>1. CASE Goto(v, Idle)
      BY <1>1, <1>2, <3>1
    <3>2. CASE /\ worker[v].claims < MaxClaims
               /\ Goto(v, [worker[v] EXCEPT !.pc = "read", !.seq = NextDue,
                                            !.claims = worker[v].claims + 1])
      <4>1. v = w => [worker[v] EXCEPT !.pc = "read", !.seq = NextDue,
                                       !.claims = worker[v].claims + 1].claims <= MaxClaims
        BY <1>1, <2>1, <3>2 DEF WorkerStates
      <4> QED
        BY <1>2, <3>2, <4>1
    <3> QED
      BY <2>3, <3>1, <3>2 DEF Claim
  <2>4. CASE ReadHooks(v)
    BY <1>1, <1>2, <2>1, <2>4 DEF ReadHooks, WorkerStates
  <2>5. ASSUME NEW t \in Targets, Lookup(v, t) \/ Enter(v, t) \/ EndCall(v, t)
        PROVE  worker'[w].claims <= MaxClaims
    BY <1>1, <1>2, <2>1, <2>5 DEF Lookup, Holding, Refused, Enter, EndCall, WorkerStates
  <2>6. CASE Mark(v)
    BY <1>1, <1>2, <2>1, <2>6 DEF Mark, WorkerStates
  <2> QED
    BY <1>3, <2>2, <2>3, <2>4, <2>5, <2>6 DEF WorkerStep
<1>4. CASE EvictHandle \/ Crash
  <2>1. worker'[w] \in {Idle, [worker[w] EXCEPT !.handle = FALSE]}
    BY <1>1, <1>4 DEF EvictHandle, Crash
  <2> QED
    BY <1>1, <2>1 DEF WorkerStates
<1>5. CASE UNCHANGED worker
  BY <1>1, <1>5
<1> QED
  BY <1>3, <1>4, <1>5
    DEF Next, vars, Commit, Publish, PublishTransient, SetWebhooks, RetryWebhookDelivery, Tick,
        OtherLookup

\* A worker only takes from the queue, and leaves publishers and the bound of
\* disturbances alone.
LEMMA WorkersStayOut ==
  ASSUME NEW w \in Workers, WorkerStep(w)
  PROVE  UNCHANGED <<extras, unpublished>> /\ (TakeEvent(w) \/ UNCHANGED queue)
<1>1. CASE TakeEvent(w) \/ Ticker(w) \/ Claim(w) \/ ReadHooks(w) \/ Mark(w)
  BY <1>1 DEF TakeEvent, Ticker, Claim, ReadHooks, Mark
<1>2. ASSUME NEW t \in Targets, Lookup(w, t) \/ Enter(w, t) \/ EndCall(w, t)
      PROVE  UNCHANGED <<extras, unpublished, queue>>
  BY <1>2 DEF Lookup, Enter, EndCall
<1> QED
  BY <1>1, <1>2 DEF WorkerStep

LEMMA StepStaysBounded == OutboxInv /\ [Next]_vars => Bounds'
<1> SUFFICES ASSUME OutboxInv, [Next]_vars PROVE Bounds'
  OBVIOUS
<1>1. Bounds
  BY DEF OutboxInv
<1>2. extras' \in 0 .. MaxExtras
  <2>1. Extra \/ UNCHANGED extras
    BY WorkersStayOut
      DEF Next, vars, Commit, Publish, PublishTransient, SetWebhooks, RetryWebhookDelivery, Tick,
          EvictHandle, OtherLookup, Crash
  <2>2. extras \in 0 .. MaxExtras /\ MaxExtras \in Nat
    BY <1>1, OutboxAssumption DEF Bounds
  <2> QED
    BY <2>1, <2>2 DEF Extra
<1>3. unpublished' \in BOOLEAN
  BY <1>1, WorkersStayOut
    DEF Bounds, Next, vars, Commit, Publish, PublishTransient, SetWebhooks, RetryWebhookDelivery,
        Tick, EvictHandle, OtherLookup, Crash
<1>4. queue' \in Seq({"durable", "transient"}) /\ Len(queue') <= QueueCapacity
  <2>1. CASE Publish \/ PublishTransient
    BY <2>1, OffersFit DEF Publish, PublishTransient
  <2>2. ASSUME NEW w \in Workers, TakeEvent(w)
        PROVE  queue' \in Seq({"durable", "transient"}) /\ Len(queue') <= QueueCapacity
    <3>1. /\ Tail(queue) \in Seq({"durable", "transient"})
          /\ Len(Tail(queue)) = Len(queue) - 1 /\ Len(queue) \in Nat
      BY <1>1, <2>2, HeadTailProperties, LenProperties DEF Bounds, TakeEvent
    <3> QED
      BY <1>1, <2>2, <3>1, OutboxAssumption DEF Bounds, TakeEvent
  <2>3. CASE Crash
    BY <2>3, OutboxAssumption DEF Crash
  <2>4. CASE UNCHANGED queue
    BY <1>1, <2>4 DEF Bounds
  <2> QED
    BY <2>1, <2>2, <2>3, <2>4, WorkersStayOut
      DEF Next, vars, Commit, SetWebhooks, RetryWebhookDelivery, Tick, EvictHandle, OtherLookup
<1> QED
  BY <1>2, <1>3, <1>4, WaitsStayShort, ClaimsStayFew DEF Bounds

LEMMA OutboxStepInv == OutboxInv /\ [Next]_vars => OutboxInv'
BY StepIInv, LimiterStep, StepStaysBounded, StepStaysFew DEF OutboxInv

\* However deliveries fail, leases run out under their workers and rows are
\* sent again by hand, the attempts of a row stay near the limit: one more for
\* each worker, and for each worker at every call of the endpoint; and the
\* queue, the waits and the passes stay within what the code allows them.
THEOREM OutboxTypes == Spec => []TypeOK
<1>1. OutboxInv => TypeOK
  <2> SUFFICES ASSUME OutboxInv PROVE TypeOK
    OBVIOUS
  <2>1. IInv /\ Types /\ LimiterInv /\ Bounds /\ AttemptsAreFew
    BY DEF OutboxInv, IInv
  <2>2. queue \in BoundedSeq({"durable", "transient"}, QueueCapacity)
    BY <2>1, BoundedLists, OutboxAssumption DEF Bounds, BoundedSeq, SeqOf
  <2>3. ASSUME NEW s \in Seqs
        PROVE  outbox[s].attempts <= MaxAttempts + Cardinality(Workers) * (1 + MaxExtras)
    <3>1. /\ outbox[s].attempts \in Nat /\ extras \in 0 .. MaxExtras /\ extras \in Nat
          /\ MaxExtras \in Nat /\ Few(outbox[s], Cardinality(Busy(s)), extras)
      BY <2>1, OutboxAssumption DEF Types, Bounds, AttemptsAreFew, Rows
    <3>2. outbox[s].attempts < Most(extras + 1)
      BY <3>1, BusyFacts, MostFacts DEF Few
    <3>3. Most(extras + 1) <= Most(1 + MaxExtras)
      <4> DEFINE n == Cardinality(Workers)
      <4>1. PICK d \in Nat : MaxExtras = extras + d
        BY <3>1
      <4>2. n \in Nat /\ MaxAttempts \in Nat
        BY WorkersAreCounted, OutboxAssumption
      <4> HIDE DEF n
      <4>3. n * (1 + MaxExtras) = n * (extras + 1) + n * d /\ n * d \in Nat /\ n * (extras + 1) \in Nat
        BY <3>1, <4>1, <4>2
      <4> QED
        BY <4>2, <4>3 DEF Most, n
    <3>4. Most(1 + MaxExtras) = MaxAttempts + Cardinality(Workers) * (1 + MaxExtras)
      BY DEF Most
    <3>5. Most(extras + 1) \in Nat /\ Most(1 + MaxExtras) \in Nat
      <4>1. MaxExtras + 1 \in Nat /\ 1 + MaxExtras = MaxExtras + 1
        BY <3>1
      <4> QED
        BY <3>1, <4>1, MostFacts
    <3> QED
      BY <3>1, <3>2, <3>3, <3>4, <3>5
  <2>4. MaxAttempts + Cardinality(Workers) * (1 + MaxExtras) \in Nat
    <3>1. 1 + MaxExtras \in Nat
      BY OutboxAssumption
    <3> QED
      BY <3>1, MostFacts DEF Most
  <2>5. outbox \in [Seqs -> [status : {"none", "pending", "delivering", "failed"},
                             attempts : 0 .. MaxAttempts + Cardinality(Workers) * (1 + MaxExtras),
                             wait : 0 .. Lease + RetryDelay(MaxAttempts)]]
    <3>1. ASSUME NEW s \in Seqs
          PROVE  outbox[s] \in [status : {"none", "pending", "delivering", "failed"},
                   attempts : 0 .. MaxAttempts + Cardinality(Workers) * (1 + MaxExtras),
                   wait : 0 .. Lease + RetryDelay(MaxAttempts)]
      <4>1. outbox[s] \in Rows /\ outbox[s].wait <= Lease + RetryDelay(MaxAttempts)
        BY <2>1 DEF Types, Bounds
      <4>2. /\ outbox[s].attempts \in 0 .. MaxAttempts + Cardinality(Workers) * (1 + MaxExtras)
            /\ outbox[s].wait \in 0 .. Lease + RetryDelay(MaxAttempts)
        BY <2>3, <2>4, <4>1, WaitsAreShort DEF Rows
      <4> QED
        BY <4>1, <4>2 DEF Rows
    <3> QED
      BY <2>1, <3>1 DEF Types
  <2>6. worker \in [Workers -> [pc : {"idle", "claim", "read", "call", "enter"},
                                seq : 0 .. MaxSeq, claims : 0 .. MaxClaims,
                                handle : BOOLEAN, todo : SUBSET Targets,
                                calling : SUBSET Targets, channel : {0} \cup Channels,
                                failed : BOOLEAN]]
    <3>1. ASSUME NEW w \in Workers
          PROVE  worker[w] \in [pc : {"idle", "claim", "read", "call", "enter"},
                                seq : 0 .. MaxSeq, claims : 0 .. MaxClaims,
                                handle : BOOLEAN, todo : SUBSET Targets,
                                calling : SUBSET Targets, channel : {0} \cup Channels,
                                failed : BOOLEAN]
      <4>1. worker[w] \in WorkerStates /\ worker[w].claims \in 0 .. MaxClaims
        BY <2>1, OutboxAssumption DEF Types, Bounds, WorkerStates
      <4> QED
        BY <4>1 DEF WorkerStates
    <3> QED
      BY <2>1, <3>1 DEF Types
  <2> QED
    BY <2>1, <2>2, <2>5, <2>6 DEF TypeOK, Types, Bounds, LimiterInv, LimiterRight
<1> QED
  BY <1>1, OutboxInitInv, OutboxStepInv, PTL DEF Spec

-----------------------------------------------------------------------------
(* The subscriptions next to the webhooks.                                 *)

LEMMA DeliveriesStart == DeliveriesInit => EventsInit /\ Init
BY DEF DeliveriesInit

\* A step is a step of one part, and leaves the other alone.
LEMMA DeliveriesSteps == [DeliveriesNext]_deliveryVars => [EventsNext]_eventVars /\ [Next]_vars
BY DEF DeliveriesNext, deliveryVars

\* Subscriptions and webhooks each behave as specified next to the other.
THEOREM DeliveriesHaveBothParts == DeliveriesSpec => EventsSpec /\ Spec
BY DeliveriesStart, DeliveriesSteps, PTL DEF DeliveriesSpec, EventsSpec, Spec

\* The connections, the log and the hub, the rows, the queue and the workers
\* keep their types.
THEOREM DeliveriesTypes == DeliveriesSpec => []DeliveriesTypeOK
<1>1. EventsTypeOK /\ TypeOK => DeliveriesTypeOK
  BY DEF DeliveriesTypeOK
<1> QED
  BY <1>1, DeliveriesHaveBothParts, StreamTypes, OutboxTypes, PTL

\* Hence the event log with both its readers: subscriptions are closed once
\* and receive in order, an outbox row goes only when it is owed to nobody,
\* no host has more calls than its slots, every slot comes back, and as long
\* as each replay is complete a client misses nothing that the log retains.
THEOREM DeliveriesAreRight ==
  DeliveriesSpec => /\ []ClosedIsUnregistered /\ []ReceivedInOrder
                    /\ []NothingIsLost /\ []TargetsAreSpared /\ []SlotsComeBack
                    /\ ReplayIsComplete => []OnlyPurgesAreMissed
BY DeliveriesHaveBothParts, NoSendOnClosed, ClientReceivesInOrder, NoDeliveryIsLost,
   NoSlotLeaks, LimiterHolds, NoMutationIsMissed, PTL
=============================================================================
