----------------------------- MODULE HandleCache -----------------------------
(***************************************************************************)
(* The open-handle cache of the Store (store.go getDB, dbhandle.go), the   *)
(* per-database write lock (lockDatabaseWrite) and the two operations that *)
(* make and remove database files (database.go).                           *)
(*                                                                         *)
(* Calls run in concurrent request goroutines.  A step is what a goroutine *)
(* does between two points where another may run: the taking of s.mu, of a *)
(* database's write lock or of a handle's gate, and every file system      *)
(* call.  What a transaction does to the documents is module DocStore;     *)
(* here it only matters on which file it runs.                             *)
(***************************************************************************)
EXTENDS Integers, Sequences, FiniteSets, SequencesExt

CONSTANTS
  Databases,      \* database names
  Clients,        \* request goroutines
  Nobody,         \* holder of a free s.mu
  CacheEntries,   \* s.cacheEntries; 0 keeps every database open
  Deleters,       \* the clients that may call DeleteDatabase
  MaxCalls        \* BOUND: calls each client makes

Kinds == {"create", "read", "write", "delete"}

ASSUME CacheAssumption ==
  /\ CacheEntries \in Nat
  /\ MaxCalls \in Nat \ {0}
  /\ Databases # {} /\ Deleters \subseteq Clients
  /\ Nobody \notin Clients

VARIABLES
  exists,     \* exists[d]: the path d.db names a file
  gen,        \* gen[d]: how many files have been created at that path
  handle,     \* every DBHandle ever allocated, in allocation order
  dbs,        \* s.dbs: index into handle, 0 where the map has no entry
  lru,        \* the opened handles of s.dbs, least recently used first
  smu,        \* who holds s.mu across steps (bolt.Open runs under it)
  writeLock,  \* s.writeLocks: which mutex d's entry is, 0 for none
  mutexes,    \* mutexes[d]: how many mutexes were made for d
  client      \* the calls in progress

handleVars == <<exists, gen, handle, dbs, lru, smu, writeLock, mutexes, client>>
files == <<exists, gen>>
cache == <<handle, dbs, lru>>
locks == <<writeLock, mutexes>>

Steps == {"idle", "stat", "lookup", "touch", "slow", "evicting", "retry",
          "opening", "getmutex", "lock", "begin", "intx", "mark", "close",
          "remove", "forget", "forgetlock", "unlock"}

\* A placeholder of DeleteDatabase has no bolt.DB: file 0.
Placeholder(d) == [db |-> d, file |-> 0, open |-> FALSE, deleting |-> TRUE]
Opened(d, f) == [db |-> d, file |-> f, open |-> TRUE, deleting |-> FALSE]

-----------------------------------------------------------------------------
(***************************************************************************)
(* Reading the state                                                       *)
(***************************************************************************)

Cached == {d \in Databases : dbs[d] # 0}
CachedHandles == {dbs[d] : d \in Cached}

\* A transaction holds the gate of its handle for reading.
InTx(h) == \E c \in Clients : client[c].pc = "intx" /\ client[c].h = h

\* flock: one open bolt.DB per file.
FileBusy(d, f) ==
  \E h \in DOMAIN handle :
    handle[h].open /\ handle[h].db = d /\ handle[h].file = f

\* The mutex the client asked for is held.
MutexHeld(d, n) ==
  \E c \in Clients : client[c].db = d /\ client[c].mutex = n /\ client[c].holds

\* Where getDB looks for room; lastUsed of a placeholder is the zero time.
CacheFull == CacheEntries > 0 /\ Cardinality(Cached) >= CacheEntries
Victims ==
  LET fresh == {h \in CachedHandles : handle[h].file = 0}
  IN IF fresh # {} THEN fresh ELSE {Head(lru)}

-----------------------------------------------------------------------------
(***************************************************************************)
(* Control of one call                                                     *)
(***************************************************************************)

Idle(n) == [pc |-> "idle", op |-> "none", db |-> CHOOSE d \in Databases : TRUE,
            h |-> 0, file |-> 0, mutex |-> 0, holds |-> FALSE, left |-> n]

Goto(c, pc) == client' = [client EXCEPT ![c].pc = pc]
Return(c) == client' = [client EXCEPT ![c] = Idle(client[c].left)]

\* A call that holds the write lock gives it back before it returns.
Finish(c) == IF client[c].holds THEN Goto(c, "unlock") ELSE Return(c)

\* getDB has returned h: the caller goes on.
GotHandle(c, h) ==
  IF client[c].op = "create"
  THEN Return(c)
  ELSE client' = [client EXCEPT
                    ![c].h = h,
                    ![c].pc = IF client[c].op = "read" THEN "begin" ELSE "getmutex"]

\* Mutant: the entry is listed again instead of moved.
TouchedTwice(h) == Append(lru, h)

\* h.lastUsed = time.Now().
Touched(h) == IF Contains(lru, h) THEN Append(RemoveFirst(lru, h), h) ELSE lru

-----------------------------------------------------------------------------
(***************************************************************************)
(* Entering a call: the handlers that os.Stat the path first, and the      *)
(* writers that go straight to getDB                                       *)
(***************************************************************************)

Call(c, op, d) ==
  /\ client[c].pc = "idle" /\ client[c].left > 0
  /\ op = "delete" => c \in Deleters
  /\ client' = [client EXCEPT
                  ![c] = [Idle(client[c].left - 1) EXCEPT
                            !.op = op, !.db = d,
                            !.pc = IF op = "write" THEN "lookup" ELSE "stat"]]
  /\ UNCHANGED <<exists, gen, handle, dbs, lru, smu, writeLock, mutexes>>

Stat(c) ==
  /\ client[c].pc = "stat"
  /\ LET op == client[c].op
     IN IF op = "create" \/ exists[client[c].db]
        THEN Goto(c, IF op = "delete" THEN "getmutex" ELSE "lookup")
        ELSE Return(c)
  /\ UNCHANGED <<exists, gen, handle, dbs, lru, smu, writeLock, mutexes>>

-----------------------------------------------------------------------------
(***************************************************************************)
(* getDB                                                                   *)
(***************************************************************************)

\* The map entry of d, used under s.mu: a deleting one answers ErrNotFound.
UseEntry(c, h) ==
  IF handle[h].deleting
  THEN Return(c) /\ UNCHANGED lru
  ELSE GotHandle(c, h) /\ lru' = Touched(h)

\* The fast path reads the map under s.mu.RLock and the handle afterwards.
Lookup(c) ==
  /\ client[c].pc = "lookup" /\ smu = Nobody
  /\ LET h == dbs[client[c].db]
     IN client' = [client EXCEPT ![c].h = h, ![c].pc = IF h # 0 THEN "touch" ELSE "slow"]
  /\ UNCHANGED <<exists, gen, handle, dbs, lru, smu, writeLock, mutexes>>

Touch(c) ==
  /\ client[c].pc = "touch"
  /\ UseEntry(c, client[c].h)
  /\ UNCHANGED <<exists, gen, handle, dbs, smu, writeLock, mutexes>>

\* Take the least recently used entry out of the map and mark it; its file
\* is closed after s.mu is released.
Evict(c) ==
  \E h \in Victims :
    /\ dbs' = [dbs EXCEPT ![handle[h].db] = 0]
    /\ handle' = [handle EXCEPT ![h].deleting = TRUE]
    /\ lru' = RemoveFirst(lru, h)
    /\ client' = [client EXCEPT ![c].pc = "evicting", ![c].h = h]

\* The first pass under s.mu.Lock.
Slow(c) ==
  /\ client[c].pc = "slow" /\ smu = Nobody
  /\ \/ /\ dbs[client[c].db] # 0
        /\ UseEntry(c, dbs[client[c].db])
        /\ UNCHANGED <<handle, dbs>>
     \/ /\ dbs[client[c].db] = 0 /\ CacheFull
        /\ Evict(c)
     \/ /\ dbs[client[c].db] = 0 /\ ~CacheFull
        /\ Goto(c, "retry")
        /\ UNCHANGED cache
  /\ UNCHANGED <<exists, gen, smu, writeLock, mutexes>>

\* gate.Lock waits for the transactions on the victim, then Close.  If the file
\* was open, Close may report an error, which ends the call; bbolt collects its
\* errors and closes the file all the same.
CloseVictim(c) ==
  /\ client[c].pc = "evicting" /\ ~InTx(client[c].h)
  /\ handle' = [handle EXCEPT ![client[c].h].open = FALSE]
  /\ Goto(c, "retry") \/ (handle[client[c].h].open /\ Return(c))
  /\ UNCHANGED <<exists, gen, dbs, lru, smu, writeLock, mutexes>>

\* bolt.Open first opens the path, creating the file, and keeps s.mu.
OpenPath(c) ==
  LET d == client[c].db
      f == IF exists[d] THEN gen[d] ELSE gen[d] + 1
  IN /\ exists' = [exists EXCEPT ![d] = TRUE]
     /\ gen' = [gen EXCEPT ![d] = f]
     /\ client' = [client EXCEPT ![c].pc = "opening", ![c].file = f]
     /\ smu' = c

\* The loop: found by now, still no room, or room to open.
Retry(c) ==
  /\ client[c].pc = "retry" /\ smu = Nobody
  /\ \/ /\ dbs[client[c].db] # 0
        /\ UseEntry(c, dbs[client[c].db])
        /\ UNCHANGED <<handle, dbs, smu, files>>
     \/ /\ dbs[client[c].db] = 0 /\ CacheFull
        /\ Evict(c)
        /\ UNCHANGED <<smu, files>>
     \/ /\ dbs[client[c].db] = 0 /\ ~CacheFull
        /\ OpenPath(c)
        /\ UNCHANGED cache
  /\ UNCHANGED locks

\* The file lock is free: the new handle enters the map.
TakeFileLock(c) ==
  LET d == client[c].db
      h == Len(handle) + 1
  IN /\ client[c].pc = "opening" /\ ~FileBusy(d, client[c].file)
     /\ handle' = Append(handle, Opened(d, client[c].file))
     /\ dbs' = [dbs EXCEPT ![d] = h]
     /\ lru' = Append(lru, h)
     /\ smu' = Nobody
     /\ GotHandle(c, h)
     /\ UNCHANGED <<exists, gen, writeLock, mutexes>>

\* Mutant: the error return keeps s.mu.
OpenTimeoutKeepsMutex(c) ==
  /\ client[c].pc = "opening" /\ FileBusy(client[c].db, client[c].file)
  /\ Return(c)
  /\ UNCHANGED <<exists, gen, handle, dbs, lru, smu, writeLock, mutexes>>

\* Five seconds without the file lock: getDB fails.
OpenTimeout(c) ==
  /\ client[c].pc = "opening" /\ FileBusy(client[c].db, client[c].file)
  /\ smu' = Nobody
  /\ Return(c)
  /\ UNCHANGED <<exists, gen, handle, dbs, lru, writeLock, mutexes>>

-----------------------------------------------------------------------------
(***************************************************************************)
(* lockDatabaseWrite and DBHandle.View / Update                            *)
(***************************************************************************)

\* The mutex the map names now, made if there is none ...
GetMutex(c) ==
  LET d == client[c].db
      n == IF writeLock[d] = 0 THEN mutexes[d] + 1 ELSE writeLock[d]
  IN /\ client[c].pc = "getmutex"
     /\ writeLock' = [writeLock EXCEPT ![d] = n]
     /\ mutexes' = [mutexes EXCEPT ![d] = IF writeLock[d] = 0 THEN n ELSE @]
     /\ client' = [client EXCEPT ![c].pc = "lock", ![c].mutex = n]
     /\ UNCHANGED <<exists, gen, handle, dbs, lru, smu>>

\* ... is waited for outside writeLocksMu.
LockMutex(c) ==
  /\ client[c].pc = "lock" /\ ~MutexHeld(client[c].db, client[c].mutex)
  /\ client' = [client EXCEPT
                  ![c].holds = TRUE,
                  ![c].pc = IF client[c].op = "delete" THEN "mark" ELSE "begin"]
  /\ UNCHANGED <<exists, gen, handle, dbs, lru, smu, writeLock, mutexes>>

\* Mutant: the state is not looked at before the gate is taken.
BeginTxAnyState(c) ==
  /\ client[c].pc = "begin"
  /\ Goto(c, "intx")
  /\ UNCHANGED <<exists, gen, handle, dbs, lru, smu, writeLock, mutexes>>

\* A deleting handle takes no new transaction.
BeginTx(c) ==
  /\ client[c].pc = "begin"
  /\ IF handle[client[c].h].deleting THEN Finish(c) ELSE Goto(c, "intx")
  /\ UNCHANGED <<exists, gen, handle, dbs, lru, smu, writeLock, mutexes>>

EndTx(c) ==
  /\ client[c].pc = "intx"
  /\ Finish(c)
  /\ UNCHANGED <<exists, gen, handle, dbs, lru, smu, writeLock, mutexes>>

Unlock(c) ==
  /\ client[c].pc = "unlock"
  /\ Return(c)
  /\ UNCHANGED <<exists, gen, handle, dbs, lru, smu, writeLock, mutexes>>

-----------------------------------------------------------------------------
(***************************************************************************)
(* DeleteDatabase, once it holds the write lock                            *)
(***************************************************************************)

\* Mark the cached handle, or put a marked placeholder in the map.
MarkDeleting(c) ==
  LET d == client[c].db
      h == IF dbs[d] # 0 THEN dbs[d] ELSE Len(handle) + 1
  IN /\ client[c].pc = "mark" /\ smu = Nobody
     /\ handle' = IF dbs[d] # 0 THEN [handle EXCEPT ![h].deleting = TRUE]
                                ELSE Append(handle, Placeholder(d))
     /\ dbs' = [dbs EXCEPT ![d] = h]
     /\ client' = [client EXCEPT ![c].h = h, ![c].pc = "close"]
     /\ UNCHANGED <<exists, gen, lru, smu, writeLock, mutexes>>

\* A placeholder has nothing to close; a handle is closed under its gate.
CloseDeleted(c) ==
  /\ client[c].pc = "close" /\ ~InTx(client[c].h)
  /\ handle' = [handle EXCEPT ![client[c].h].open = FALSE]
  /\ Goto(c, "remove")
  /\ UNCHANGED <<exists, gen, dbs, lru, smu, writeLock, mutexes>>

\* os.Remove; a path already gone is an error, reported after the clean-up.
RemoveFile(c) ==
  LET d == client[c].db
  IN /\ client[c].pc = "remove"
     /\ exists' = [exists EXCEPT ![d] = FALSE]
     /\ Goto(c, "forget")
     /\ UNCHANGED <<gen, handle, dbs, lru, smu, writeLock, mutexes>>

\* delete(s.dbs, name), whatever the entry is by now.
ForgetHandle(c) ==
  LET d == client[c].db
      h == dbs[d]
  IN /\ client[c].pc = "forget" /\ smu = Nobody
     /\ dbs' = [dbs EXCEPT ![d] = 0]
     /\ lru' = RemoveFirst(lru, h)
     /\ Goto(c, "forgetlock")
     /\ UNCHANGED <<exists, gen, handle, smu, writeLock, mutexes>>

\* delete(s.writeLocks, name), while the mutex is still held.
ForgetLock(c) ==
  /\ client[c].pc = "forgetlock"
  /\ writeLock' = [writeLock EXCEPT ![client[c].db] = 0]
  /\ Goto(c, "unlock")
  /\ UNCHANGED <<exists, gen, handle, dbs, lru, smu, mutexes>>

-----------------------------------------------------------------------------
(***************************************************************************)
(* Specification                                                           *)
(***************************************************************************)

\* A fresh process over a data directory with some databases in it.
HandlesInit ==
  /\ exists \in [Databases -> BOOLEAN]
  /\ gen = [d \in Databases |-> IF exists[d] THEN 1 ELSE 0]
  /\ handle = <<>> /\ dbs = [d \in Databases |-> 0] /\ lru = <<>>
  /\ smu = Nobody
  /\ writeLock = [d \in Databases |-> 0] /\ mutexes = [d \in Databases |-> 0]
  /\ client = [c \in Clients |-> Idle(MaxCalls)]

GetDB(c) == \/ Lookup(c) \/ Touch(c) \/ Slow(c) \/ CloseVictim(c) \/ Retry(c)
            \/ TakeFileLock(c) \/ OpenTimeout(c)

Transact(c) == GetMutex(c) \/ LockMutex(c) \/ BeginTx(c) \/ EndTx(c) \/ Unlock(c)

DeleteDatabase(c) == \/ MarkDeleting(c) \/ CloseDeleted(c) \/ RemoveFile(c)
                     \/ ForgetHandle(c) \/ ForgetLock(c)

Continue(c) == Stat(c) \/ GetDB(c) \/ Transact(c) \/ DeleteDatabase(c)

HandlesNext == \E c \in Clients :
          \/ \E op \in Kinds, d \in Databases : Call(c, op, d)
          \/ Continue(c)

HandlesSpec == HandlesInit /\ [][HandlesNext]_handleVars

\* Goroutines run, and sync.Mutex hands itself to a waiter that has waited
\* for a millisecond, so a waiter for s.mu or a write lock is not overtaken
\* for ever; a pending RWMutex writer (s.mu, a gate) holds back new readers.
\* A transaction ends.  Nothing obliges a client to make a call.
HandlesFairness == \A c \in Clients : SF_handleVars(Continue(c))
HandlesLiveSpec == HandlesSpec /\ HandlesFairness

-----------------------------------------------------------------------------
(***************************************************************************)
(* Properties                                                              *)
(***************************************************************************)

HandlesTypeOK ==
  /\ exists \in [Databases -> BOOLEAN]
  /\ gen \in [Databases -> Nat] /\ mutexes \in [Databases -> Nat]
  /\ handle \in Seq([db : Databases, file : Nat, open : BOOLEAN, deleting : BOOLEAN])
  /\ dbs \in [Databases -> 0..Len(handle)]
  /\ lru \in Seq(DOMAIN handle) /\ IsInjective(lru)
  /\ smu \in Clients \cup {Nobody}
  /\ writeLock \in [Databases -> Nat]
  /\ client \in [Clients -> [pc : Steps, op : Kinds \cup {"none"}, db : Databases,
                             h : 0..Len(handle), file : Nat, mutex : Nat,
                             holds : BOOLEAN, left : 0..MaxCalls]]

\* A transaction never runs on a bolt.DB that eviction or DeleteDatabase has
\* closed: the state flag and the gate of DBHandle keep the closer out until
\* the last transaction is over, and new transactions out from then on.
NoTransactionOnClosedDatabase ==
  \A c \in Clients : client[c].pc = "intx" => handle[client[c].h].open

\* docs/architecture.md promises that no file descriptor is leaked.  It
\* matters most for a file that is still there: an open bolt.DB that is not
\* in the map, and that no call is about to close, keeps the file lock, and
\* the database cannot be opened again until the process ends.
DatabaseStaysReachable ==
  \A h \in DOMAIN handle :
    handle[h].open =>
      \/ h \in CachedHandles
      \/ \E c \in Clients : client[c].pc \in {"evicting", "close"} /\ client[c].h = h
      \/ ~exists[handle[h].db] \/ gen[handle[h].db] # handle[h].file

\* Every call returns: no cycle of waits through s.mu, a gate, the file lock
\* and the write lock, and an evicting getDB finds room in the end.
EveryCallReturns == \A c \in Clients : client[c].pc # "idle" ~> client[c].pc = "idle"
=============================================================================
