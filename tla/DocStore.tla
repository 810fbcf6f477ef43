------------------------------ MODULE DocStore ------------------------------
(***************************************************************************)
(* The documents of one database under its handlers and its TTL sweeper.   *)
(*                                                                         *)
(* Every mutation runs in one bbolt write transaction, and bbolt admits    *)
(* one at a time.  A handler that commits what it read in the same         *)
(* transaction is one action.  ExecuteTransaction and the purge loop build *)
(* up their result step by step in wtx, which nobody else sees: committing *)
(* makes it the file, an error or a crash throws it away.                  *)
(*                                                                         *)
(* The bodies offered to the handlers are those that passed the schema and *)
(* the size checks; a failing check leaves no trace, as an aborted         *)
(* transaction does.                                                       *)
(***************************************************************************)
EXTENDS DatabaseFile

CONSTANTS
  Star,               \* the If-Match token "*"
  NoTx,               \* no multi-step write transaction is open
  TTLs,               \* values of X-Expire-In, in seconds
  MaxTransactionOps,  \* MaxTransactionOps of transaction.go
  MaxTime,            \* bound: last instant of the clock
  MaxSeq              \* bound: inserts and updates stop at this sequence

ASSUME BoundsAssumption ==
  /\ TTLs \subseteq Nat \ {0}
  /\ MaxTransactionOps \in Nat \ {0} /\ MaxTime \in Nat /\ MaxSeq \in Nat

VARIABLES
  db,     \* the committed file
  wtx,    \* the open transaction of ExecuteTransaction or of the purge
  now,    \* time.Now().Unix()
  sweep   \* the TTL sweeper: idle, or holding the instant it read

vars == <<db, wtx, now, sweep>>

Idle == [pc |-> "idle", nowUnix |-> 0]

Transactions ==
  [ kind : {"ops", "purge"}, db : Tables, ops : Nat ]

TypeOK ==
  /\ db \in Tables
  /\ wtx \in Transactions \cup {NoTx}
  /\ now \in Nat
  /\ sweep \in [pc : {"idle", "waiting", "purging"}, nowUnix : Nat]

ASSUME NoTxAssumption == NoTx \notin Transactions

Init ==
  /\ db = EmptyFile
  /\ wtx = NoTx
  /\ now = 0
  /\ sweep = Idle

\* If-Match as a set of tokens; the empty set is the absent header.
IfMatches == {{}, {Star}} \cup { {b} : b \in Bodies }

Matches(body, ifMatch) == Star \in ifMatch \/ body \in ifMatch

Precondition(body, ifMatch) == ifMatch = {} \/ Matches(body, ifMatch)

Expiry(ttl) == IF ttl = NoTTL THEN NoTTL ELSE now + ttl

\* Two bounds on the model, not on the program: the event counter.
RoomForEvent(d) == d.seq < MaxSeq

-----------------------------------------------------------------------------
(* Handlers that commit in one transaction.                                *)

CreateCollection(c) ==
  /\ wtx = NoTx
  /\ c \notin db.exists
  /\ db' = MakeCollection(db, c)
  /\ UNCHANGED <<wtx, now, sweep>>

DeleteCollection(c) ==
  /\ wtx = NoTx
  /\ c \in db.exists
  /\ db' = DropCollection(db, c)
  /\ UNCHANGED <<wtx, now, sweep>>

\* The generated id is retried until it is new.
CreateDocument(c, i, body, ttl) ==
  /\ wtx = NoTx
  /\ RoomForEvent(db)
  /\ db.docs[c][i] = NoDoc
  /\ db' = StoreDocument(db, db, c, i, body, Expiry(ttl))
  /\ UNCHANGED <<wtx, now, sweep>>

\* A missing document satisfies an absent If-Match and the bare "*".
PutPrecondition(d, c, i, ifMatch) ==
  IF d.docs[c][i] = NoDoc THEN ifMatch \in {{}, {Star}}
  ELSE Precondition(d.docs[c][i], ifMatch)

PutDocument(c, i, body, ttl, ifMatch) ==
  /\ wtx = NoTx
  /\ RoomForEvent(db)
  /\ PutPrecondition(db, c, i, ifMatch)
  /\ db' = StoreDocument(db, db, c, i, body, Expiry(ttl))
  /\ UNCHANGED <<wtx, now, sweep>>

Found(d, c, i, ifMatch) ==
  /\ c \in d.exists
  /\ d.docs[c][i] # NoDoc
  /\ Precondition(d.docs[c][i], ifMatch)

PatchDocument(c, i, patch, ifMatch) ==
  /\ wtx = NoTx
  /\ RoomForEvent(db)
  /\ Found(db, c, i, ifMatch)
  /\ db' = MergeDocument(db, db, c, i, patch)
  /\ UNCHANGED <<wtx, now, sweep>>

DeleteDocument(c, i, ifMatch) ==
  /\ wtx = NoTx
  /\ Found(db, c, i, ifMatch)
  /\ db' = RemoveDocument(db, db, c, i)
  /\ UNCHANGED <<wtx, now, sweep>>

-----------------------------------------------------------------------------
(* ExecuteTransaction: begin, one action per operation, commit or rollback.*)

\* A request carries up to MaxTransactionOps operations; wtx.ops counts
\* those the loop has yet to run.
BeginTransaction(n) ==
  /\ wtx = NoTx
  /\ n \in 1 .. MaxTransactionOps
  /\ wtx' = [kind |-> "ops", db |-> db, ops |-> n]
  /\ UNCHANGED <<db, now, sweep>>

InTransaction ==
  /\ wtx # NoTx
  /\ wtx.kind = "ops"
  /\ wtx.ops > 0

StepTransaction(d) ==
  /\ wtx' = [wtx EXCEPT !.db = d, !.ops = wtx.ops - 1]
  /\ UNCHANGED <<db, now, sweep>>

\* Unlike PutDocument, any If-Match fails on a missing document, and the
\* operation carries no expiry: a TTL the document had is cleared.
TransactionPut(c, i, body, ifMatch) ==
  /\ InTransaction
  /\ RoomForEvent(wtx.db)
  /\ IF wtx.db.docs[c][i] = NoDoc THEN ifMatch = {}
     ELSE Precondition(wtx.db.docs[c][i], ifMatch)
  /\ StepTransaction(StoreDocument(db, wtx.db, c, i, body, NoTTL))

TransactionPatch(c, i, patch, ifMatch) ==
  /\ InTransaction
  /\ RoomForEvent(wtx.db)
  /\ Found(wtx.db, c, i, ifMatch)
  /\ StepTransaction(MergeDocument(db, wtx.db, c, i, patch))

TransactionDelete(c, i, ifMatch) ==
  /\ InTransaction
  /\ Found(wtx.db, c, i, ifMatch)
  /\ StepTransaction(RemoveDocument(db, wtx.db, c, i))

CommitTransaction ==
  /\ wtx # NoTx
  /\ wtx.kind = "ops" /\ wtx.ops = 0
  /\ db' = wtx.db
  /\ wtx' = NoTx
  /\ UNCHANGED <<now, sweep>>

\* Mutant: a request whose operation failed keeps what it did before.
RollbackCommits ==
  /\ wtx # NoTx
  /\ wtx.kind = "ops"
  /\ db' = wtx.db
  /\ wtx' = NoTx
  /\ UNCHANGED <<now, sweep>>

\* Some operation failed: a precondition, a missing document, a schema.
RollbackTransaction ==
  /\ wtx # NoTx
  /\ wtx.kind = "ops"
  /\ wtx' = NoTx
  /\ UNCHANGED <<db, now, sweep>>

-----------------------------------------------------------------------------
(* purgeExpiredDocuments for this database.                                *)

\* The clock is read once, before the write lock is waited for.
SweepReadsClock ==
  /\ sweep.pc = "idle"
  /\ sweep' = [pc |-> "waiting", nowUnix |-> now]
  /\ UNCHANGED <<db, wtx, now>>

BeginPurge ==
  /\ sweep.pc = "waiting"
  /\ wtx = NoTx
  /\ wtx' = [kind |-> "purge", db |-> db, ops |-> 0]
  /\ sweep' = [sweep EXCEPT !.pc = "purging"]
  /\ UNCHANGED <<db, now>>

\* Mutants: the loop breaks one second too late, or one second too early.
DueEarly(d) == { e \in d.ttlIndex : e[1] <= sweep.nowUnix + 1 }
DueLate(d) == { e \in d.ttlIndex : e[1] < sweep.nowUnix }

\* The keys the cursor still has to visit before it breaks off.
Due(d) == { e \in d.ttlIndex : e[1] <= sweep.nowUnix }

\* Keys come in order of expiry; keys of one instant in some order.
PurgeOne ==
  /\ sweep.pc = "purging"
  /\ \E key \in Due(wtx.db) :
       /\ \A e \in Due(wtx.db) : key[1] <= e[1]
       /\ wtx' = [wtx EXCEPT !.db = PurgeKey(db, wtx.db, key)]
  /\ UNCHANGED <<db, now, sweep>>

CommitPurge ==
  /\ sweep.pc = "purging"
  /\ Due(wtx.db) = {}
  /\ db' = wtx.db
  /\ wtx' = NoTx
  /\ sweep' = Idle
  /\ UNCHANGED now

\* A document that cannot be decrypted rolls the whole purge back.
FailPurge ==
  /\ sweep.pc = "purging"
  /\ Due(wtx.db) # {}
  /\ wtx' = NoTx
  /\ sweep' = Idle
  /\ UNCHANGED <<db, now>>

-----------------------------------------------------------------------------
Tick ==
  /\ now < MaxTime
  /\ now' = now + 1
  /\ UNCHANGED <<db, wtx, sweep>>

\* The process dies and restarts: bbolt keeps what was committed.
Crash ==
  /\ wtx' = NoTx
  /\ sweep' = Idle
  /\ UNCHANGED <<db, now>>

DocumentHandler ==
  \E c \in Collections, i \in Ids :
    \/ \E body \in Bodies, ttl \in TTLs \cup {NoTTL} :
         \/ CreateDocument(c, i, body, ttl)
         \/ \E m \in IfMatches : PutDocument(c, i, body, ttl, m)
    \/ \E m \in IfMatches :
         \/ \E patch \in Patches : PatchDocument(c, i, patch, m)
         \/ DeleteDocument(c, i, m)

TransactionStep ==
  \E c \in Collections, i \in Ids, m \in IfMatches :
    \/ \E body \in Bodies : TransactionPut(c, i, body, m)
    \/ \E patch \in Patches : TransactionPatch(c, i, patch, m)
    \/ TransactionDelete(c, i, m)

Handlers ==
  \/ \E c \in Collections : CreateCollection(c) \/ DeleteCollection(c)
  \/ DocumentHandler
  \/ \E n \in 1 .. MaxTransactionOps : BeginTransaction(n)
  \/ TransactionStep
  \/ CommitTransaction \/ RollbackTransaction

HealthySweeper == SweepReadsClock \/ BeginPurge \/ PurgeOne \/ CommitPurge

Sweeper == HealthySweeper \/ FailPurge

Next == Handlers \/ Sweeper \/ Tick \/ Crash

Spec == Init /\ [][Next]_vars

-----------------------------------------------------------------------------
(* Properties of the tables, stated for any value d of the tables so that  *)
(* they can be asked of the committed file and of a transaction's view.    *)

CountsExact(d) ==
  \A c \in Collections :
    IF c \in d.exists THEN d.count[c] = Cardinality(DocIds(d, c))
    ELSE d.count[c] = NoCount /\ DocIds(d, c) = {}

TTLTablesAgree(d) ==
  /\ \A e \in d.ttlIndex : d.ttlByDoc[<<e[2], e[3]>>] = e[1]
  /\ \A c \in Collections, i \in Ids :
       d.ttlByDoc[<<c, i>>] # NoTTL =>
         <<d.ttlByDoc[<<c, i>>], c, i>> \in d.ttlIndex
  /\ \A c \in Collections, i \in Ids :
       d.ttlByDoc[<<c, i>>] # NoTTL => d.docs[c][i] # NoDoc

LogIsGapless(d) ==
  /\ Len(d.log) <= d.seq
  /\ \A k \in 1 .. Len(d.log) : d.log[k].seq = d.seq - Len(d.log) + k
  /\ d.outbox = 1 .. d.seq

\* The newest retained event about a document, as a set of at most one.
NewestEvent(d, c, i) ==
  LET about == { k \in 1 .. Len(d.log) :
                   d.log[k].collection = c /\ d.log[k].id = i }
  IN  { d.log[k] : k \in { m \in about : \A j \in about : j <= m } }

\* The number stored as a collection's document count is the number of its
\* documents, in every committed state: every handler that adds or removes a
\* document adjusts it exactly once (incrementCollectionCountTx).
CountsMatchDocuments == CountsExact(db)

\* The purge index holds one key for each document that has an expiry, at
\* that expiry, and nothing else; an expiry belongs to a document that exists
\* (setDocumentTTL, clearDocumentTTL, the purge, DeleteCollection).
TTLBucketsAgree == TTLTablesAgree(db)

\* The retained log is the tail of the numbering: no hole and no repetition
\* up to the last sequence given out, whatever trimEventLogTx removed, and
\* every event ever recorded got its outbox row.
RetainedLogHasNoGap == LogIsGapless(db)

\* The newest retained event about a live document carries the ETag of its
\* current body, so a subscriber that applies events ends at the document.
NewestEventIsTheDocument ==
  \A c \in Collections, i \in Ids :
    db.docs[c][i] # NoDoc =>
      \A e \in NewestEvent(db, c, i) : e.etag = db.docs[c][i]

\* A commit of the purge removes a document only if its expiry, at the commit
\* and not when the clock was read, has passed; it rewrites no document.
PurgeTakesOnlyExpired ==
  [][ (sweep.pc = "purging" /\ db' # db) =>
        \A c \in Collections, i \in Ids :
          db'.docs[c][i] # db.docs[c][i] =>
            /\ db'.docs[c][i] = NoDoc
            /\ db.ttlByDoc[<<c, i>>] \in 0 .. now ]_vars

\* A committed change to a document of a collection that is still there took
\* a new sequence number, and the newest retained event about the document
\* says what it became: no handler changes a document without its event.
ChangesAreLogged ==
  [][ \A c \in Collections, i \in Ids :
        (db'.docs[c][i] # db.docs[c][i] /\ c \in db'.exists) =>
          /\ db'.seq > db.seq
          /\ \A e \in NewestEvent(db', c, i) : e.etag = db'.docs[c][i] ]_vars

\* No transaction is not the record that stands for one.
ASSUME NoBatchAssumption ==
  NoTx \notin [contents : [Collections -> [Ids -> Bodies \cup {NoDoc}]],
               version : Nat, left : Nat]

\* The handlers and the sweeper, with their tables and their multi-step
\* transactions, give what DocumentMap promises: batches become visible whole
\* or not at all, and every visible change is numbered.
Map == INSTANCE DocumentMap WITH
  contents <- db.docs, version <- db.seq,
  batch <- IF wtx = NoTx \/ wtx.kind = "purge" THEN NoTx
           ELSE [contents |-> wtx.db.docs, version |-> wtx.db.seq, left |-> wtx.ops],
  NoBatch <- NoTx, MaxBatch <- MaxTransactionOps

ImplementsDocumentMap == Map!MapSpec

-----------------------------------------------------------------------------
(* Progress, while the process stays up.  A handler that opened a          *)
(* transaction runs on to commit or roll back; the sweeper's ticker keeps  *)
(* firing; sync.Mutex hands the write lock to a waiter that has been       *)
(* overtaken for a while, hence the strong fairness of BeginPurge.  Every  *)
(* document can be decrypted: one that cannot fails every purge of its     *)
(* database, and then no document of the database expires any more.        *)

Fairness ==
  /\ WF_vars(TransactionStep \/ CommitTransaction \/ RollbackTransaction)
  /\ WF_vars(SweepReadsClock)
  /\ SF_vars(BeginPurge)
  /\ WF_vars(PurgeOne)
  /\ WF_vars(CommitPurge)

LiveSpec == Init /\ [][Handlers \/ HealthySweeper \/ Tick]_vars /\ Fairness

\* A document whose expiry has passed is eventually removed, unless a handler
\* removes it or gives it another expiry first.
ExpiredDocumentsGo ==
  \A c \in Collections, i \in Ids :
    (db.ttlByDoc[<<c, i>>] \in 0 .. now) ~>
      (db.ttlByDoc[<<c, i>>] \notin 0 .. now)
=============================================================================
