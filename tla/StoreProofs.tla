---------------------------- MODULE StoreProofs ----------------------------
(***************************************************************************)
(* Proofs about the cache of open databases and about the build of an      *)
(* index, for any number of databases, calls, cache entries, documents and *)
(* batches.                                                                *)
(***************************************************************************)
EXTENDS MCStore, SequenceTheorems, OrderFacts

-----------------------------------------------------------------------------
(* The cache of open handles.                                              *)

Handles == [db : Databases, file : Nat, open : BOOLEAN, deleting : BOOLEAN]
Calls(n) ==
  [pc : Steps, op : Kinds \cup {"none"}, db : Databases, h : 0 .. n, file : Nat,
   mutex : Nat, holds : BOOLEAN, left : 0 .. MaxCalls]

\* The entry of a name is a handle of that name.
EntriesAreByName == \A d \in Databases : dbs[d] # 0 => handle[dbs[d]].db = d

\* The opened entries of the map are the ones that can be evicted in turn.
LruListsTheOpened ==
  \A h \in 1 .. Len(handle) :
    Contains(lru, h) <=> dbs[handle[h].db] = h /\ handle[h].file # 0

\* A handle is marked before it is closed, and a mark is never taken away.
ClosedIsMarked == \A h \in 1 .. Len(handle) : ~handle[h].open => handle[h].deleting

FilesAreNumbered == \A d \in Databases : exists[d] => gen[d] # 0

CacheInv == EntriesAreByName /\ LruListsTheOpened /\ ClosedIsMarked /\ FilesAreNumbered

\* What holds of the call r of client c.  bolt.Open runs under s.mu for a
\* name without an entry; who goes on with a handle has one; who closes a
\* handle has marked it; a transaction has an open one.
Sound(c, r) ==
  /\ r.pc = "opening" => smu = c /\ dbs[r.db] = 0 /\ r.file # 0
  /\ \/ r.pc \in {"touch", "begin", "intx", "evicting", "close"}
     \/ r.pc \in {"getmutex", "lock"} /\ r.op # "delete"
     => r.h # 0
  /\ r.pc \in {"evicting", "close"} => handle[r.h].deleting
  /\ r.pc = "intx" => handle[r.h].open

CallsAreSound == \A c \in Clients : Sound(c, client[c])

HandlesInv == HandlesTypeOK /\ CacheInv /\ CallsAreSound

-----------------------------------------------------------------------------
\* A piece of a list.
LEMMA SubSeqFacts ==
  ASSUME NEW S, NEW s \in Seq(S), NEW m \in 1 .. Len(s) + 1, NEW n \in m - 1 .. Len(s)
  PROVE  /\ SubSeq(s, m, n) \in Seq(S)
         /\ Len(SubSeq(s, m, n)) = n - m + 1
         /\ \A j \in 1 .. n - m + 1 : SubSeq(s, m, n)[j] = s[m + j - 1]
<1>1. Len(s) \in Nat /\ m \in Int /\ n \in Int
  BY LenProperties
<1>2. \A j \in m .. n : s[j] \in S
  BY <1>1, ElementOfSeq
<1>3. /\ SubSeq(s, m, n) \in Seq(S)
      /\ Len(SubSeq(s, m, n)) = IF m <= n THEN n - m + 1 ELSE 0
      /\ \A j \in 1 .. n - m + 1 : SubSeq(s, m, n)[j] = s[m + j - 1]
  BY <1>1, <1>2, SubSeqProperties
<1> QED
  BY <1>1, <1>3

\* Removing an element from a list without repetitions.
LEMMA RemoveFirstFacts ==
  ASSUME NEW S, NEW s \in Seq(S), IsInjective(s), NEW e
  PROVE  /\ RemoveFirst(s, e) \in Seq(S) /\ IsInjective(RemoveFirst(s, e))
         /\ \A x : Contains(RemoveFirst(s, e), x) <=> x # e /\ Contains(s, x)
<1> DEFINE t == RemoveFirst(s, e)
<1>0. Len(s) \in Nat /\ DOMAIN s = 1 .. Len(s)
  BY LenProperties
<1>1. CASE ~ \E i \in 1 .. Len(s) : s[i] = e
  BY <1>1 DEF RemoveFirst, Contains
<1>2. CASE \E i \in 1 .. Len(s) : s[i] = e
  <2>1. PICK i \in 1 .. Len(s) : s[i] = e
    BY <1>2
  <2>2. \A j \in 1 .. Len(s) : s[j] = e <=> j = i
    BY <1>0, <2>1 DEF IsInjective
  <2>3. SelectInSeq(s, LAMBDA v : v = e) = i
    <3>1. { j \in 1 .. Len(s) : s[j] = e } = {i}
      BY <2>2
    <3>2. SelectInSeq(s, LAMBDA v : v = e) = Min({i})
      BY <3>1 DEF SelectInSeq
    <3>3. Min({i}) = i
      BY DEF Min
    <3> QED
      BY <3>2, <3>3
  <2>4. t = SubSeq(s, 1, i - 1) \o SubSeq(s, i + 1, Len(s))
    BY <1>2, <2>3 DEF RemoveFirst, RemoveAt
  <2>5. /\ t \in Seq(S) /\ Len(t) = Len(s) - 1
        /\ \A j \in 1 .. Len(s) - 1 : t[j] = IF j < i THEN s[j] ELSE s[j + 1]
    <3> DEFINE front == SubSeq(s, 1, i - 1)
               back  == SubSeq(s, i + 1, Len(s))
    <3>1. /\ front \in Seq(S) /\ Len(front) = i - 1
          /\ \A j \in 1 .. i - 1 : front[j] = s[j]
      <4>1. 1 \in 1 .. Len(s) + 1 /\ i - 1 \in 0 .. Len(s) /\ (i - 1) - 1 + 1 = i - 1
        BY <1>0
      <4>2. \A j \in 1 .. i - 1 : 1 + j - 1 = j
        OBVIOUS
      <4> QED
        BY <4>1, <4>2, SubSeqFacts
    <3>2. /\ back \in Seq(S) /\ Len(back) = Len(s) - i
          /\ \A j \in 1 .. Len(s) - i : back[j] = s[j + i]
      <4>1. /\ i + 1 \in 1 .. Len(s) + 1 /\ Len(s) \in (i + 1) - 1 .. Len(s)
            /\ Len(s) - (i + 1) + 1 = Len(s) - i
        BY <1>0
      <4>2. /\ back \in Seq(S) /\ Len(back) = Len(s) - (i + 1) + 1
            /\ \A j \in 1 .. Len(s) - (i + 1) + 1 : back[j] = s[(i + 1) + j - 1]
        BY <4>1, SubSeqFacts
      <4> HIDE DEF back
      <4> QED
        BY <1>0, <4>1, <4>2
    <3> HIDE DEF front, back
    <3>3. t = front \o back
      BY <2>4 DEF front, back
    <3> HIDE DEF t
    <3>4. t \in Seq(S) /\ Len(t) = Len(s) - 1
      <4>1. t \in Seq(S) /\ Len(t) = Len(front) + Len(back)
        BY <3>1, <3>2, <3>3, ConcatProperties
      <4> QED
        BY <1>0, <3>1, <3>2, <4>1
    <3>5. ASSUME NEW j \in 1 .. Len(s) - 1
          PROVE  t[j] = IF j < i THEN s[j] ELSE s[j + 1]
      <4>1. CASE j < i
        BY <1>0, <3>1, <3>2, <3>3, <4>1
      <4>2. CASE ~ (j < i)
        <5>1. j - (i - 1) \in 1 .. Len(s) - i /\ j - (i - 1) + i = j + 1
          BY <1>0, <4>2
        <5>2. back[j - (i - 1)] = s[j + 1]
          BY <3>2, <5>1
        <5>3. t[j] = back[j - (i - 1)]
          BY <1>0, <3>1, <3>2, <3>3, <4>2
        <5> QED
          BY <4>2, <5>2, <5>3
      <4> QED
        BY <4>1, <4>2
    <3> QED
      BY <3>4, <3>5
  <2>6. DOMAIN t = 1 .. Len(s) - 1
    BY <2>5, LenProperties
  <2> HIDE DEF t
  <2>7. ASSUME NEW a \in 1 .. Len(s) - 1, NEW b \in 1 .. Len(s) - 1, t[a] = t[b]
        PROVE  a = b
    <3> DEFINE from(k) == IF k < i THEN k ELSE k + 1
    <3>1. /\ from(a) \in 1 .. Len(s) /\ from(b) \in 1 .. Len(s)
          /\ s[from(a)] = s[from(b)]
      BY <1>0, <2>5, <2>7
    <3>2. from(a) = from(b)
      BY <1>0, <3>1 DEF IsInjective
    <3> QED
      BY <1>0, <3>2
  <2>8. IsInjective(t)
    BY <2>6, <2>7 DEF IsInjective
  <2>9. ASSUME NEW x, Contains(s, x), x # e PROVE Contains(t, x)
    <3>1. PICK j \in 1 .. Len(s) : s[j] = x
      BY <2>9 DEF Contains
    <3>2. CASE j < i
      BY <1>0, <2>5, <3>1, <3>2 DEF Contains
    <3>3. CASE j > i
      <4>1. j - 1 \in 1 .. Len(s) - 1 /\ t[j - 1] = s[j]
        BY <1>0, <2>5, <3>3
      <4> QED
        BY <2>5, <3>1, <4>1 DEF Contains
    <3> QED
      BY <2>2, <2>9, <3>1, <3>2, <3>3
  <2>10. ASSUME NEW x, Contains(t, x) PROVE Contains(s, x) /\ x # e
    <3>1. PICK j \in 1 .. Len(s) - 1 : t[j] = x
      BY <2>5, <2>10 DEF Contains
    <3> QED
      BY <1>0, <2>2, <2>5, <3>1 DEF Contains
  <2> QED
    BY <2>5, <2>8, <2>9, <2>10 DEF t
<1> QED
  BY <1>1, <1>2

LEMMA AppendFacts ==
  ASSUME NEW S, NEW s \in Seq(S), IsInjective(s), NEW e \in S, ~Contains(s, e)
  PROVE  /\ Append(s, e) \in Seq(S) /\ IsInjective(Append(s, e))
         /\ \A x : Contains(Append(s, e), x) <=> x = e \/ Contains(s, x)
<1>0. Len(s) \in Nat /\ DOMAIN s = 1 .. Len(s)
  BY LenProperties
<1>1. /\ Append(s, e) \in Seq(S) /\ Len(Append(s, e)) = Len(s) + 1
      /\ DOMAIN Append(s, e) = 1 .. Len(s) + 1
      /\ \A j \in 1 .. Len(s) : Append(s, e)[j] = s[j]
      /\ Append(s, e)[Len(s) + 1] = e
  BY <1>0, AppendProperties
<1>2. IsInjective(Append(s, e))
  BY <1>0, <1>1 DEF IsInjective, Contains
<1>3. \A x : Contains(Append(s, e), x) <=> x = e \/ Contains(s, x)
  BY <1>0, <1>1 DEF Contains
<1> QED
  BY <1>1, <1>2, <1>3

\* The least recently used entry moves to the end of the list.
LEMMA TouchedFacts ==
  ASSUME HandlesTypeOK, NEW h \in 1 .. Len(handle)
  PROVE  /\ Touched(h) \in Seq(1 .. Len(handle)) /\ IsInjective(Touched(h))
         /\ \A x : Contains(Touched(h), x) <=> Contains(lru, x)
<1>0. lru \in Seq(1 .. Len(handle)) /\ IsInjective(lru)
  BY LenProperties DEF HandlesTypeOK
<1>1. /\ RemoveFirst(lru, h) \in Seq(1 .. Len(handle)) /\ IsInjective(RemoveFirst(lru, h))
      /\ \A x : Contains(RemoveFirst(lru, h), x) <=> x # h /\ Contains(lru, x)
  BY <1>0, RemoveFirstFacts
<1>2. CASE Contains(lru, h)
  <2> DEFINE t == RemoveFirst(lru, h)
  <2>1. ~Contains(t, h)
    BY <1>1
  <2>2. Touched(h) = Append(t, h)
    BY <1>2 DEF Touched
  <2> HIDE DEF t
  <2> QED
    BY <1>1, <1>2, <2>1, <2>2, AppendFacts DEF t
<1>3. CASE ~Contains(lru, h)
  BY <1>0, <1>3 DEF Touched
<1> QED
  BY <1>2, <1>3

-----------------------------------------------------------------------------
(* How a call goes on.                                                     *)

LEMMA HandleFacts ==
  ASSUME HandlesTypeOK
  PROVE  /\ handle \in Seq(Handles) /\ Len(handle) \in Nat
         /\ DOMAIN handle = 1 .. Len(handle)
         /\ \A h \in 1 .. Len(handle) : handle[h] \in Handles
         /\ client \in [Clients -> Calls(Len(handle))]
         /\ dbs \in [Databases -> 0 .. Len(handle)]
<1>1. handle \in Seq(Handles)
  BY DEF HandlesTypeOK, Handles
<1> QED
  BY <1>1, LenProperties, ElementOfSeq DEF HandlesTypeOK, Calls

\* A call that moves to a step.
LEMMA GotoCall ==
  ASSUME HandlesTypeOK, NEW c \in Clients, NEW pc \in Steps, Goto(c, pc)
  PROVE  \E r \in Calls(Len(handle)) :
           /\ client' = [client EXCEPT ![c] = r]
           /\ r = [client[c] EXCEPT !.pc = pc]
<1>1. client[c] \in Calls(Len(handle))
  BY HandleFacts
<1> QED
  BY <1>1 DEF Goto, Calls

\* The steps at which a call owns nothing and waits for nothing it has.
FreeSteps == {"idle", "stat", "lookup", "slow", "retry", "mark", "remove", "forget",
              "forgetlock", "unlock"}

LEMMA IdleCall ==
  ASSUME NEW n \in 0 .. MaxCalls, NEW m \in Nat
  PROVE  Idle(n) \in Calls(m) /\ Idle(n).pc = "idle" /\ Idle(n).left = n
<1>1. (CHOOSE d \in Databases : TRUE) \in Databases
  BY CacheAssumption
<1> QED
  BY <1>1 DEF Idle, Calls, Steps, Kinds

LEMMA ReturnCall ==
  ASSUME HandlesTypeOK, NEW c \in Clients, Return(c), NEW n \in Nat
  PROVE  \E r \in Calls(n) : client' = [client EXCEPT ![c] = r] /\ r.pc \in FreeSteps
<1>1. client[c].left \in 0 .. MaxCalls
  BY HandleFacts DEF Calls
<1> QED
  BY <1>1, IdleCall DEF Return, FreeSteps

LEMMA FinishCall ==
  ASSUME HandlesTypeOK, NEW c \in Clients, Finish(c)
  PROVE  \E r \in Calls(Len(handle)) :
           client' = [client EXCEPT ![c] = r] /\ r.pc \in FreeSteps
<1>1. CASE Return(c)
  BY <1>1, ReturnCall, HandleFacts
<1>2. CASE Goto(c, "unlock")
  <2>1. "unlock" \in Steps
    BY DEF Steps
  <2>2. PICK r \in Calls(Len(handle)) :
          client' = [client EXCEPT ![c] = r] /\ r = [client[c] EXCEPT !.pc = "unlock"]
    BY <1>2, <2>1, GotoCall
  <2>3. client[c] \in Calls(Len(handle))
    BY HandleFacts
  <2> QED
    BY <2>2, <2>3 DEF FreeSteps, Calls
<1> QED
  BY <1>1, <1>2 DEF Finish

\* getDB returns a handle: the call goes on with it.
LEMMA GotHandleCall ==
  ASSUME HandlesTypeOK, NEW c \in Clients, NEW n \in Nat, Len(handle) <= n,
         NEW h \in 1 .. n, GotHandle(c, h)
  PROVE  \E r \in Calls(n) :
           /\ client' = [client EXCEPT ![c] = r]
           /\ \/ r.pc \in FreeSteps
              \/ r.pc \in {"begin", "getmutex"} /\ r.h # 0
<1>1. client[c] \in Calls(n)
  BY HandleFacts DEF Calls
<1>2. CASE client[c].op = "create"
  <2>1. Return(c)
    BY <1>2 DEF GotHandle
  <2>2. PICK r \in Calls(n) : client' = [client EXCEPT ![c] = r] /\ r.pc \in FreeSteps
    BY <2>1, ReturnCall
  <2> QED
    BY <2>2
<1>3. CASE client[c].op # "create"
  <2>1. PICK pc \in {"begin", "getmutex"} :
          client' = [client EXCEPT ![c].h = h, ![c].pc = pc]
    BY <1>3 DEF GotHandle
  <2>2. h \in 0 .. n /\ h # 0
    OBVIOUS
  <2>3. PICK r : r = [client[c] EXCEPT !.h = h, !.pc = pc]
    OBVIOUS
  <2>4. client' = [client EXCEPT ![c] = r]
    BY <2>1, <2>3
  <2>5. r \in Calls(n) /\ r.pc = pc /\ r.h = h
    BY <1>1, <2>2, <2>3 DEF Calls, Steps
  <2> QED
    BY <2>2, <2>4, <2>5
<1> QED
  BY <1>2, <1>3

-----------------------------------------------------------------------------
(* Every step keeps the invariant.                                         *)

\* The other calls do not notice: marks stay, a handle that is in use stays
\* open, and nobody else touches the map while one of them opens a file.
LEMMA OthersStaySound ==
  ASSUME HandlesInv, NEW c \in Clients, NEW r, client' = [client EXCEPT ![c] = r],
         Sound(c, r)',
         \A h \in 1 .. Len(handle) :
           /\ handle[h].deleting => handle'[h].deleting
           /\ handle[h].open => handle'[h].open \/ ~InTx(h),
         smu \in {Nobody, c} \/ UNCHANGED <<smu, dbs>>
  PROVE  CallsAreSound'
<1> SUFFICES ASSUME NEW x \in Clients PROVE Sound(x, client[x])'
  BY DEF CallsAreSound
<1>1. client'[x] = IF x = c THEN r ELSE client[x]
  BY HandleFacts DEF HandlesInv
<1>2. CASE x = c
  BY <1>1, <1>2 DEF Sound
<1>3. CASE x # c
  <2>1. Sound(x, client[x]) /\ client[x] \in Calls(Len(handle)) /\ x # Nobody
        /\ client[x].h \in 0 .. Len(handle)
    BY HandleFacts, CacheAssumption DEF HandlesInv, CallsAreSound, Calls
  <2>2. client[x].pc = "intx" => InTx(client[x].h)
    BY DEF InTx
  <2>3. client[x].pc = "opening" => UNCHANGED <<smu, dbs>>
    BY <1>3, <2>1 DEF Sound
  <2> QED
    BY <1>1, <1>3, <2>1, <2>2, <2>3 DEF Sound
<1> QED
  BY <1>2, <1>3

\* A step that moves a call and leaves the map and the handles alone.
LEMMA CallMovesOn ==
  ASSUME HandlesInv, NEW c \in Clients, NEW r \in Calls(Len(handle)),
         client' = [client EXCEPT ![c] = r], Sound(c, r)',
         UNCHANGED <<handle, dbs>>,
         exists' \in [Databases -> BOOLEAN], gen' \in [Databases -> Nat], FilesAreNumbered',
         smu' \in Clients \cup {Nobody}, smu \in {Nobody, c} \/ UNCHANGED smu,
         lru' = lru \/ \E h \in 1 .. Len(handle) : lru' = Touched(h),
         writeLock' \in [Databases -> Nat], mutexes' \in [Databases -> Nat]
  PROVE  HandlesInv'
<1>1. /\ lru' \in Seq(1 .. Len(handle)) /\ IsInjective(lru')
      /\ \A x : Contains(lru', x) <=> Contains(lru, x)
  <2>1. HandlesTypeOK /\ lru \in Seq(1 .. Len(handle)) /\ IsInjective(lru)
    BY HandleFacts DEF HandlesInv, HandlesTypeOK
  <2> QED
    BY <2>1, TouchedFacts
<1>2. HandlesTypeOK'
  BY <1>1, HandleFacts DEF HandlesInv, HandlesTypeOK, Calls
<1>3. CacheInv'
  BY <1>1 DEF HandlesInv, CacheInv, EntriesAreByName, LruListsTheOpened, ClosedIsMarked
<1>4. CallsAreSound'
  BY OthersStaySound
<1> QED
  BY <1>2, <1>3, <1>4 DEF HandlesInv

\* A step that moves a call and, at most, touches an entry.
LEMMA CallMoves ==
  ASSUME HandlesInv, NEW c \in Clients, NEW r \in Calls(Len(handle)),
         client' = [client EXCEPT ![c] = r], Sound(c, r),
         UNCHANGED <<exists, gen, handle, dbs, smu>>,
         lru' = lru \/ \E h \in 1 .. Len(handle) : lru' = Touched(h),
         writeLock' \in [Databases -> Nat], mutexes' \in [Databases -> Nat]
  PROVE  HandlesInv'
<1>1. Sound(c, r)'
  BY DEF Sound
<1>2. /\ exists' \in [Databases -> BOOLEAN] /\ gen' \in [Databases -> Nat]
      /\ FilesAreNumbered' /\ smu' \in Clients \cup {Nobody}
  BY DEF HandlesInv, HandlesTypeOK, CacheInv, FilesAreNumbered
<1> QED
  BY <1>1, <1>2, CallMovesOn

\* A call that goes on with nothing in hand is sound.
LEMMA FreeIsSound ==
  ASSUME NEW c, NEW r, r.pc \in FreeSteps
  PROVE  Sound(c, r)
BY DEF Sound, FreeSteps

LEMMA UseEntryStep ==
  ASSUME HandlesInv, NEW c \in Clients, NEW h \in 1 .. Len(handle), UseEntry(c, h),
         UNCHANGED <<exists, gen, handle, dbs, smu, writeLock, mutexes>>
  PROVE  HandlesInv'
<1>1. HandlesTypeOK /\ Len(handle) \in Nat
      /\ writeLock' \in [Databases -> Nat] /\ mutexes' \in [Databases -> Nat]
  BY HandleFacts DEF HandlesInv, HandlesTypeOK
<1>2. CASE handle[h].deleting
  <2>1. Return(c) /\ lru' = lru
    BY <1>2 DEF UseEntry
  <2>2. PICK r \in Calls(Len(handle)) : client' = [client EXCEPT ![c] = r] /\ r.pc \in FreeSteps
    BY <1>1, <2>1, ReturnCall
  <2> QED
    BY <1>1, <2>1, <2>2, FreeIsSound, CallMoves
<1>3. CASE ~handle[h].deleting
  <2>1. GotHandle(c, h) /\ lru' = Touched(h)
    BY <1>3 DEF UseEntry
  <2>2. PICK r \in Calls(Len(handle)) :
          /\ client' = [client EXCEPT ![c] = r]
          /\ \/ r.pc \in FreeSteps
             \/ r.pc \in {"begin", "getmutex"} /\ r.h # 0
    BY <1>1, <2>1, GotHandleCall
  <2>3. Sound(c, r)
    BY <2>2 DEF Sound, FreeSteps
  <2> QED
    BY <1>1, <2>1, <2>2, <2>3, CallMoves
<1> QED
  BY <1>2, <1>3

\* The victim is an entry of the map: a full cache has one to evict.
LEMMA VictimIsAnEntry ==
  ASSUME HandlesInv, CacheFull, NEW h \in Victims
  PROVE  h \in 1 .. Len(handle) /\ dbs[handle[h].db] = h
<1>0. /\ dbs \in [Databases -> 0 .. Len(handle)] /\ Len(handle) \in Nat
      /\ lru \in Seq(1 .. Len(handle))
      /\ \A d \in Databases : dbs[d] # 0 => handle[dbs[d]].db = d
  BY HandleFacts DEF HandlesInv, HandlesTypeOK, CacheInv, EntriesAreByName
<1> DEFINE fresh == {x \in CachedHandles : handle[x].file = 0}
<1>1. CASE fresh # {}
  <2>1. h \in CachedHandles
    BY <1>1 DEF Victims
  <2>2. PICK d \in Databases : h = dbs[d] /\ dbs[d] # 0
    BY <2>1 DEF CachedHandles, Cached
  <2> QED
    BY <1>0, <2>2
<1>2. CASE fresh = {}
  <2>1. h = Head(lru)
    BY <1>2 DEF Victims
  <2>2. Cached # {}
    <3>1. Cardinality({}) = 0
      BY FS_EmptySet
    <3> QED
      BY <3>1, CacheAssumption DEF CacheFull
  <2>3. PICK d \in Databases : dbs[d] # 0
    BY <2>2 DEF Cached
  <2>4. dbs[d] \in CachedHandles /\ dbs[d] \in 1 .. Len(handle)
    BY <1>0, <2>3 DEF CachedHandles, Cached
  <2>5. handle[dbs[d]].file # 0 /\ handle[dbs[d]].db = d
    BY <1>0, <1>2, <2>3, <2>4
  <2>6. Contains(lru, dbs[d])
    BY <2>4, <2>5 DEF HandlesInv, CacheInv, LruListsTheOpened
  <2>7. lru # << >>
    BY <1>0, <2>6 DEF Contains
  <2>8. Head(lru) \in 1 .. Len(handle) /\ Len(lru) \in Nat \ {0} /\ Head(lru) = lru[1]
    BY <1>0, <2>7
  <2>9. Contains(lru, Head(lru))
    BY <2>8 DEF Contains
  <2> QED
    BY <2>1, <2>8, <2>9 DEF HandlesInv, CacheInv, LruListsTheOpened
<1> QED
  BY <1>1, <1>2

\* One handle of the list changes.
LEMMA HandleChanges ==
  ASSUME HandlesTypeOK, NEW h \in 1 .. Len(handle), NEW x \in Handles,
         handle' = [handle EXCEPT ![h] = x]
  PROVE  /\ handle' \in Seq(Handles) /\ Len(handle') = Len(handle)
         /\ DOMAIN handle' = 1 .. Len(handle)
         /\ \A k \in 1 .. Len(handle) : handle'[k] = IF k = h THEN x ELSE handle[k]
<1>1. handle \in Seq(Handles)
  BY HandleFacts
<1>2. /\ handle' \in Seq(Handles) /\ Len(handle') = Len(handle)
      /\ \A k \in 1 .. Len(handle) : handle'[k] = IF k = h THEN x ELSE handle[k]
  BY <1>1, ExceptSeq
<1> QED
  BY <1>2, LenProperties

LEMMA EvictStep ==
  ASSUME HandlesInv, NEW c \in Clients, CacheFull, Evict(c), smu = Nobody,
         UNCHANGED <<exists, gen, smu, writeLock, mutexes>>
  PROVE  HandlesInv'
<1>0. /\ HandlesTypeOK /\ Len(handle) \in Nat
      /\ \A k \in 1 .. Len(handle) : handle[k] \in Handles
      /\ dbs \in [Databases -> 0 .. Len(handle)]
      /\ lru \in Seq(1 .. Len(handle)) /\ IsInjective(lru)
      /\ client[c] \in Calls(Len(handle))
      /\ \A d \in Databases : dbs[d] # 0 => handle[dbs[d]].db = d
  BY HandleFacts DEF HandlesInv, HandlesTypeOK, CacheInv, EntriesAreByName
<1>1. PICK h \in Victims :
        /\ dbs' = [dbs EXCEPT ![handle[h].db] = 0]
        /\ handle' = [handle EXCEPT ![h].deleting = TRUE]
        /\ lru' = RemoveFirst(lru, h)
        /\ client' = [client EXCEPT ![c].pc = "evicting", ![c].h = h]
  BY DEF Evict
<1>2. h \in 1 .. Len(handle) /\ dbs[handle[h].db] = h
  BY VictimIsAnEntry
<1>3. PICK d \in Databases : d = handle[h].db
  BY <1>0, <1>2 DEF Handles
<1>4. PICK x : x = [handle[h] EXCEPT !.deleting = TRUE]
  OBVIOUS
<1>5. /\ x \in Handles
      /\ x.deleting = TRUE /\ x.db = d /\ x.file = handle[h].file /\ x.open = handle[h].open
  BY <1>0, <1>2, <1>3, <1>4 DEF Handles
<1>6. handle' = [handle EXCEPT ![h] = x]
  BY <1>1, <1>4
<1>7. /\ handle' \in Seq(Handles) /\ Len(handle') = Len(handle)
      /\ DOMAIN handle' = 1 .. Len(handle)
      /\ \A k \in 1 .. Len(handle) : handle'[k] = IF k = h THEN x ELSE handle[k]
  BY <1>0, <1>2, <1>5, <1>6, HandleChanges
<1>8. /\ dbs' \in [Databases -> 0 .. Len(handle)]
      /\ \A e \in Databases : dbs'[e] = IF e = d THEN 0 ELSE dbs[e]
  BY <1>0, <1>1, <1>3
<1>9. /\ lru' \in Seq(1 .. Len(handle)) /\ IsInjective(lru')
      /\ \A k : Contains(lru', k) <=> k # h /\ Contains(lru, k)
  BY <1>0, <1>1, RemoveFirstFacts
<1>10. PICK r \in Calls(Len(handle)) :
        client' = [client EXCEPT ![c] = r] /\ r.pc = "evicting" /\ r.h = h
  <2>1. PICK r : r = [client[c] EXCEPT !.pc = "evicting", !.h = h]
    OBVIOUS
  <2>2. client' = [client EXCEPT ![c] = r]
    BY <1>1, <2>1
  <2>3. h \in 0 .. Len(handle)
    BY <1>2
  <2>4. r \in Calls(Len(handle)) /\ r.pc = "evicting" /\ r.h = h
    BY <1>0, <2>1, <2>3 DEF Calls, Steps
  <2> QED
    BY <2>2, <2>4
<1>11. HandlesTypeOK'
  BY <1>0, <1>7, <1>8, <1>9, <1>10, HandleFacts DEF HandlesTypeOK, Calls, Handles
<1>12. CacheInv'
  <2>1. EntriesAreByName'
    <3> SUFFICES ASSUME NEW e \in Databases, dbs'[e] # 0 PROVE handle'[dbs'[e]].db = e
      BY DEF EntriesAreByName
    <3>1. e # d /\ dbs'[e] = dbs[e] /\ dbs[e] \in 1 .. Len(handle) /\ handle[dbs[e]].db = e
      BY <1>0, <1>8
    <3> QED
      BY <1>3, <1>7, <3>1
  <2>2. LruListsTheOpened'
    <3> SUFFICES ASSUME NEW k \in 1 .. Len(handle)
                 PROVE  Contains(lru', k) <=> dbs'[handle'[k].db] = k /\ handle'[k].file # 0
      BY <1>7 DEF LruListsTheOpened
    <3>1. Contains(lru, k) <=> dbs[handle[k].db] = k /\ handle[k].file # 0
      BY DEF HandlesInv, CacheInv, LruListsTheOpened
    <3>2. CASE k = h
      BY <1>3, <1>7, <1>8, <1>9, <1>5, <3>2
    <3>3. CASE k # h
      <4>1. handle'[k] = handle[k] /\ handle[k].db \in Databases /\ k # 0
        BY <1>0, <1>7, <3>3 DEF Handles
      <4>2. handle[k].db = d => dbs[handle[k].db] # k
        BY <1>2, <1>3, <3>3
      <4> QED
        BY <1>8, <1>9, <3>1, <3>3, <4>1, <4>2
    <3> QED
      BY <3>2, <3>3
  <2>3. ClosedIsMarked' /\ FilesAreNumbered'
    BY <1>5, <1>7 DEF ClosedIsMarked, FilesAreNumbered, HandlesInv, CacheInv
  <2> QED
    BY <2>1, <2>2, <2>3 DEF CacheInv
<1>13. CallsAreSound'
  <2>1. Sound(c, r)'
    <3>1. r.h # 0 /\ handle'[r.h].deleting = TRUE
      BY <1>0, <1>2, <1>5, <1>7, <1>10
    <3> QED
      BY <1>10, <3>1 DEF Sound
  <2> QED
    BY <1>5, <1>7, <1>10, <2>1, OthersStaySound
<1> QED
  BY <1>11, <1>12, <1>13 DEF HandlesInv

\* The gate is free: the handle that the call has marked is closed.
LEMMA CloseStep ==
  ASSUME HandlesInv, NEW c \in Clients, client[c].pc \in {"evicting", "close"},
         ~InTx(client[c].h), handle' = [handle EXCEPT ![client[c].h].open = FALSE],
         \/ Return(c) \/ \E pc \in {"retry", "remove"} : Goto(c, pc),
         UNCHANGED <<exists, gen, dbs, lru, smu, writeLock, mutexes>>
  PROVE  HandlesInv'
<1>0. /\ HandlesTypeOK /\ Len(handle) \in Nat
      /\ \A k \in 1 .. Len(handle) : handle[k] \in Handles
      /\ client[c] \in Calls(Len(handle)) /\ dbs \in [Databases -> 0 .. Len(handle)]
  BY HandleFacts DEF HandlesInv
<1>1. PICK h : h = client[c].h
  OBVIOUS
<1>2. h \in 1 .. Len(handle) /\ handle[h].deleting
  <2>1. client[c].h \in 0 .. Len(handle)
    BY <1>0 DEF Calls
  <2>2. client[c].h # 0 /\ handle[client[c].h].deleting
    BY DEF HandlesInv, CallsAreSound, Sound
  <2> QED
    BY <1>0, <1>1, <2>1, <2>2
<1>3. PICK x : x = [handle[h] EXCEPT !.open = FALSE]
  OBVIOUS
<1>4. /\ x \in Handles
      /\ x.deleting = handle[h].deleting /\ x.db = handle[h].db /\ x.file = handle[h].file
  BY <1>0, <1>2, <1>3 DEF Handles
<1>5. handle' = [handle EXCEPT ![h] = x]
  BY <1>1, <1>3
<1>6. /\ handle' \in Seq(Handles) /\ Len(handle') = Len(handle)
      /\ DOMAIN handle' = 1 .. Len(handle)
      /\ \A k \in 1 .. Len(handle) : handle'[k] = IF k = h THEN x ELSE handle[k]
  BY <1>0, <1>2, <1>4, <1>5, HandleChanges
<1>7. PICK r \in Calls(Len(handle)) :
        client' = [client EXCEPT ![c] = r] /\ r.pc \in FreeSteps
  <2>1. CASE Return(c)
    BY <1>0, <2>1, ReturnCall
  <2>2. ASSUME NEW pc \in {"retry", "remove"}, Goto(c, pc)
        PROVE  \E r \in Calls(Len(handle)) :
                 client' = [client EXCEPT ![c] = r] /\ r.pc \in FreeSteps
    <3>1. pc \in Steps
      BY DEF Steps
    <3>2. PICK r \in Calls(Len(handle)) :
            client' = [client EXCEPT ![c] = r] /\ r = [client[c] EXCEPT !.pc = pc]
      BY <1>0, <2>2, <3>1, GotoCall
    <3> QED
      BY <1>0, <3>2 DEF Calls, FreeSteps
  <2> QED
    BY <2>1, <2>2
<1>8. HandlesTypeOK'
  BY <1>0, <1>6, <1>7, HandleFacts DEF HandlesTypeOK, Calls, Handles
<1>9. CacheInv'
  <2>1. EntriesAreByName' /\ LruListsTheOpened'
    BY <1>0, <1>4, <1>6 DEF HandlesInv, CacheInv, EntriesAreByName, LruListsTheOpened
  <2>2. ClosedIsMarked' /\ FilesAreNumbered'
    BY <1>2, <1>4, <1>6 DEF HandlesInv, CacheInv, ClosedIsMarked, FilesAreNumbered
  <2> QED
    BY <2>1, <2>2 DEF CacheInv
<1>10. CallsAreSound'
  <2>1. Sound(c, r)'
    BY <1>7 DEF Sound, FreeSteps
  <2> QED
    BY <1>1, <1>4, <1>6, <1>7, <2>1, OthersStaySound
<1> QED
  BY <1>8, <1>9, <1>10 DEF HandlesInv

LEMMA OpenPathStep ==
  ASSUME HandlesInv, NEW c \in Clients, OpenPath(c), smu = Nobody, dbs[client[c].db] = 0,
         UNCHANGED <<handle, dbs, lru, writeLock, mutexes>>
  PROVE  HandlesInv'
<1>0. /\ Len(handle) \in Nat /\ client[c] \in Calls(Len(handle))
      /\ exists \in [Databases -> BOOLEAN] /\ gen \in [Databases -> Nat]
      /\ FilesAreNumbered /\ writeLock' \in [Databases -> Nat] /\ mutexes' \in [Databases -> Nat]
  BY HandleFacts DEF HandlesInv, HandlesTypeOK, CacheInv
<1>1. PICK d \in Databases : d = client[c].db
  BY <1>0 DEF Calls
<1>2. PICK f : f = IF exists[d] THEN gen[d] ELSE gen[d] + 1
  OBVIOUS
<1>3. f \in Nat /\ f # 0
  BY <1>0, <1>2 DEF FilesAreNumbered
<1>4. /\ exists' = [exists EXCEPT ![d] = TRUE] /\ gen' = [gen EXCEPT ![d] = f]
      /\ client' = [client EXCEPT ![c].pc = "opening", ![c].file = f]
      /\ smu' = c
  BY <1>1, <1>2 DEF OpenPath
<1>5. PICK r : r = [client[c] EXCEPT !.pc = "opening", !.file = f]
  OBVIOUS
<1>6. client' = [client EXCEPT ![c] = r]
  BY <1>4, <1>5
<1>7. r \in Calls(Len(handle)) /\ r.pc = "opening" /\ r.file = f /\ r.db = d
  BY <1>0, <1>1, <1>3, <1>5 DEF Calls, Steps
<1>8. exists' \in [Databases -> BOOLEAN] /\ gen' \in [Databases -> Nat] /\ FilesAreNumbered'
  BY <1>0, <1>3, <1>4 DEF FilesAreNumbered
<1>9. Sound(c, r)'
  BY <1>1, <1>3, <1>4, <1>7 DEF Sound
<1> QED
  BY <1>0, <1>4, <1>6, <1>7, <1>8, <1>9, CallMovesOn
\* A handle enters the map under a name that had none.
LEMMA NewEntryStep ==
  ASSUME HandlesInv, NEW c \in Clients, NEW d \in Databases, dbs[d] = 0,
         NEW x \in Handles, x.db = d, ~x.open => x.deleting,
         handle' = Append(handle, x), dbs' = [dbs EXCEPT ![d] = Len(handle) + 1],
         lru' = IF x.file # 0 THEN Append(lru, Len(handle) + 1) ELSE lru,
         NEW r \in Calls(Len(handle) + 1), client' = [client EXCEPT ![c] = r], Sound(c, r)',
         smu \in {Nobody, c}, smu' = Nobody,
         UNCHANGED <<exists, gen, writeLock, mutexes>>
  PROVE  HandlesInv'
<1>0. /\ HandlesTypeOK /\ Len(handle) \in Nat /\ handle \in Seq(Handles)
      /\ \A k \in 1 .. Len(handle) : handle[k] \in Handles
      /\ dbs \in [Databases -> 0 .. Len(handle)]
      /\ client \in [Clients -> Calls(Len(handle))]
      /\ lru \in Seq(1 .. Len(handle)) /\ IsInjective(lru)
  BY HandleFacts DEF HandlesInv, HandlesTypeOK
<1>1. PICK n \in Nat : n = Len(handle) + 1
  BY <1>0
<1>2. /\ handle' \in Seq(Handles) /\ Len(handle') = n /\ DOMAIN handle' = 1 .. n
      /\ handle'[n] = x /\ \A k \in 1 .. Len(handle) : handle'[k] = handle[k]
  <2>1. /\ handle' \in Seq(Handles) /\ Len(handle') = n
        /\ handle'[n] = x /\ \A k \in 1 .. Len(handle) : handle'[k] = handle[k]
    BY <1>0, <1>1, AppendProperties
  <2> QED
    BY <2>1, LenProperties
<1>3. /\ dbs' \in [Databases -> 0 .. n]
      /\ \A e \in Databases : dbs'[e] = IF e = d THEN n ELSE dbs[e]
  BY <1>0, <1>1
<1>4. ~Contains(lru, n)
  BY <1>0, <1>1 DEF Contains
<1>5. /\ lru' \in Seq(1 .. n) /\ IsInjective(lru')
      /\ \A k : Contains(lru', k) <=> Contains(lru, k) \/ (k = n /\ x.file # 0)
  <2>1. lru \in Seq(1 .. n) /\ n \in 1 .. n
    <3>1. Len(lru) \in Nat /\ \A k \in 1 .. Len(lru) : lru[k] \in 1 .. Len(handle)
      BY <1>0, ElementOfSeq, LenProperties
    <3>2. \A k \in 1 .. Len(lru) : lru[k] \in 1 .. n
      BY <1>0, <1>1, <3>1
    <3>3. lru = [k \in 1 .. Len(lru) |-> lru[k]]
      BY <1>0
    <3> QED
      BY <1>0, <1>1, <3>1, <3>2, <3>3, SeqDef
  <2>2. CASE x.file # 0
    BY <1>0, <1>1, <1>4, <2>1, <2>2, AppendFacts
  <2>3. CASE x.file = 0
    BY <1>0, <2>1, <2>3
  <2> QED
    BY <2>2, <2>3
<1>6. HandlesTypeOK'
  <2>1. client' \in [Clients -> Calls(n)]
    <3>1. \A e \in Clients : client[e] \in Calls(n)
      BY <1>0, <1>1, SMTT(30) DEF Calls
    <3> QED
      BY <1>0, <1>1, <3>1
  <2>2. smu' \in Clients \cup {Nobody}
    OBVIOUS
  <2> QED
    BY <1>0, <1>2, <1>3, <1>5, <2>1, <2>2 DEF HandlesTypeOK, Calls, Handles
<1>7. CacheInv'
  <2>1. EntriesAreByName'
    <3> SUFFICES ASSUME NEW e \in Databases, dbs'[e] # 0 PROVE handle'[dbs'[e]].db = e
      BY DEF EntriesAreByName
    <3>1. CASE e = d
      BY <1>2, <1>3, <3>1
    <3>2. CASE e # d
      <4>1. dbs'[e] = dbs[e] /\ dbs[e] \in 1 .. Len(handle) /\ handle[dbs[e]].db = e
        BY <1>0, <1>3, <3>2 DEF HandlesInv, CacheInv, EntriesAreByName
      <4> QED
        BY <1>2, <4>1
    <3> QED
      BY <3>1, <3>2
  <2>2. LruListsTheOpened'
    <3> SUFFICES ASSUME NEW k \in 1 .. n
                 PROVE  Contains(lru', k) <=> dbs'[handle'[k].db] = k /\ handle'[k].file # 0
      BY <1>2 DEF LruListsTheOpened
    <3>1. CASE k = n
      BY <1>2, <1>3, <1>4, <1>5, <3>1
    <3>2. CASE k # n
      <4>1. k \in 1 .. Len(handle) /\ k # 0
        BY <1>0, <1>1, <3>2
      <4>2. handle'[k] = handle[k] /\ handle[k].db \in Databases
        BY <1>0, <1>2, <4>1 DEF Handles
      <4>3. Contains(lru, k) <=> dbs[handle[k].db] = k /\ handle[k].file # 0
        BY <4>1 DEF HandlesInv, CacheInv, LruListsTheOpened
      <4> QED
        BY <1>3, <1>5, <3>2, <4>1, <4>2, <4>3
    <3> QED
      BY <3>1, <3>2
  <2>3. ClosedIsMarked'
    <3> SUFFICES ASSUME NEW k \in 1 .. n PROVE ~handle'[k].open => handle'[k].deleting
      BY <1>2 DEF ClosedIsMarked
    <3>1. CASE k = n
      BY <1>2, <3>1
    <3>2. CASE k # n
      <4>1. k \in 1 .. Len(handle)
        BY <1>0, <1>1, <3>2
      <4> QED
        BY <1>2, <4>1 DEF HandlesInv, CacheInv, ClosedIsMarked
    <3> QED
      BY <3>1, <3>2
  <2>4. FilesAreNumbered'
    BY DEF HandlesInv, CacheInv, FilesAreNumbered
  <2> QED
    BY <2>1, <2>2, <2>3, <2>4 DEF CacheInv
<1>8. CallsAreSound'
  BY <1>2, OthersStaySound
<1> QED
  BY <1>6, <1>7, <1>8 DEF HandlesInv

LEMMA TakeFileLockStep ==
  ASSUME HandlesInv, NEW c \in Clients, TakeFileLock(c)
  PROVE  HandlesInv'
<1>0. HandlesTypeOK /\ Len(handle) \in Nat /\ client[c] \in Calls(Len(handle))
  BY HandleFacts DEF HandlesInv
<1>1. PICK d \in Databases : d = client[c].db
  BY <1>0 DEF Calls
<1>2. PICK f \in Nat : f = client[c].file
  BY <1>0 DEF Calls
<1>3. /\ client[c].pc = "opening"
      /\ handle' = Append(handle, Opened(d, f)) /\ dbs' = [dbs EXCEPT ![d] = Len(handle) + 1]
      /\ lru' = Append(lru, Len(handle) + 1) /\ smu' = Nobody
      /\ GotHandle(c, Len(handle) + 1)
      /\ UNCHANGED <<exists, gen, writeLock, mutexes>>
  BY <1>1, <1>2 DEF TakeFileLock
<1>4. smu = c /\ dbs[d] = 0 /\ f # 0
  BY <1>1, <1>2, <1>3 DEF HandlesInv, CallsAreSound, Sound
<1>5. PICK x : x = Opened(d, f)
  OBVIOUS
<1>6. x \in Handles /\ x.db = d /\ x.open = TRUE /\ x.file = f
  BY <1>5 DEF Opened, Handles
<1>7. PICK r \in Calls(Len(handle) + 1) :
        /\ client' = [client EXCEPT ![c] = r]
        /\ \/ r.pc \in FreeSteps
           \/ r.pc \in {"begin", "getmutex"} /\ r.h # 0
  <2>1. Len(handle) + 1 \in Nat /\ Len(handle) <= Len(handle) + 1
        /\ Len(handle) + 1 \in 1 .. Len(handle) + 1
    BY <1>0
  <2> QED
    BY <1>0, <1>3, <2>1, GotHandleCall
<1>8. Sound(c, r)'
  BY <1>7 DEF Sound, FreeSteps
<1> QED
  BY <1>3, <1>4, <1>5, <1>6, <1>7, <1>8, NewEntryStep

LEMMA MarkDeletingStep ==
  ASSUME HandlesInv, NEW c \in Clients, MarkDeleting(c)
  PROVE  HandlesInv'
<1>0. /\ HandlesTypeOK /\ Len(handle) \in Nat /\ client[c] \in Calls(Len(handle))
      /\ \A k \in 1 .. Len(handle) : handle[k] \in Handles
      /\ dbs \in [Databases -> 0 .. Len(handle)]
  BY HandleFacts DEF HandlesInv
<1>1. PICK d \in Databases : d = client[c].db
  BY <1>0 DEF Calls
<1>2. PICK h : h = IF dbs[d] # 0 THEN dbs[d] ELSE Len(handle) + 1
  OBVIOUS
<1>3. /\ smu = Nobody
      /\ handle' = IF dbs[d] # 0 THEN [handle EXCEPT ![h].deleting = TRUE]
                                 ELSE Append(handle, Placeholder(d))
      /\ dbs' = [dbs EXCEPT ![d] = h]
      /\ client' = [client EXCEPT ![c].h = h, ![c].pc = "close"]
      /\ UNCHANGED <<exists, gen, lru, smu, writeLock, mutexes>>
  BY <1>1, <1>2 DEF MarkDeleting
<1>4. PICK r : r = [client[c] EXCEPT !.h = h, !.pc = "close"]
  OBVIOUS
<1>5. client' = [client EXCEPT ![c] = r]
  BY <1>3, <1>4
<1>6. CASE dbs[d] = 0
  <2>1. h = Len(handle) + 1 /\ h \in 0 .. Len(handle) + 1 /\ h # 0
    BY <1>0, <1>2, <1>6
  <2>2. r \in Calls(Len(handle) + 1) /\ r.pc = "close" /\ r.h = h
    BY <1>0, <1>4, <2>1 DEF Calls, Steps
  <2>3. PICK x : x = Placeholder(d)
    OBVIOUS
  <2>4. x \in Handles /\ x.db = d /\ x.deleting = TRUE /\ x.file = 0
    BY <2>3 DEF Placeholder, Handles
  <2>5. handle' = Append(handle, x)
    BY <1>3, <1>6, <2>3
  <2>6. handle'[h] = x
    BY <1>0, <2>1, <2>5, HandleFacts, AppendProperties
  <2>7. Sound(c, r)'
    BY <2>1, <2>2, <2>4, <2>6 DEF Sound
  <2> QED
    BY <1>3, <1>5, <1>6, <2>1, <2>2, <2>4, <2>5, <2>7, NewEntryStep
<1>7. CASE dbs[d] # 0
  <2>1. h = dbs[d] /\ h \in 1 .. Len(handle) /\ h \in 0 .. Len(handle)
    BY <1>0, <1>2, <1>7
  <2>2. r \in Calls(Len(handle)) /\ r.pc = "close" /\ r.h = h
    BY <1>0, <1>4, <2>1 DEF Calls, Steps
  <2>3. PICK x : x = [handle[h] EXCEPT !.deleting = TRUE]
    OBVIOUS
  <2>4. /\ x \in Handles /\ x.deleting = TRUE
        /\ x.db = handle[h].db /\ x.file = handle[h].file /\ x.open = handle[h].open
    BY <1>0, <2>1, <2>3 DEF Handles
  <2>5. handle' = [handle EXCEPT ![h] = x] /\ dbs' = dbs
    BY <1>0, <1>3, <1>7, <2>1, <2>3
  <2>6. /\ handle' \in Seq(Handles) /\ Len(handle') = Len(handle)
        /\ DOMAIN handle' = 1 .. Len(handle)
        /\ \A k \in 1 .. Len(handle) : handle'[k] = IF k = h THEN x ELSE handle[k]
    BY <1>0, <2>1, <2>4, <2>5, HandleChanges
  <2>7. HandlesTypeOK'
    <3>1. client' \in [Clients -> Calls(Len(handle))]
      BY <1>0, <1>5, <2>2, HandleFacts
    <3> QED
      BY <1>0, <1>3, <2>5, <2>6, <3>1 DEF HandlesTypeOK, Calls, Handles
  <2>8. CacheInv'
    <3>1. EntriesAreByName' /\ LruListsTheOpened'
      BY <1>0, <1>3, <2>4, <2>5, <2>6
         DEF HandlesInv, CacheInv, EntriesAreByName, LruListsTheOpened
    <3>2. ClosedIsMarked' /\ FilesAreNumbered'
      BY <1>3, <2>4, <2>6 DEF HandlesInv, CacheInv, ClosedIsMarked, FilesAreNumbered
    <3> QED
      BY <3>1, <3>2 DEF CacheInv
  <2>9. Sound(c, r)'
    <3>1. r.h # 0 /\ handle'[r.h].deleting = TRUE
      BY <2>1, <2>2, <2>4, <2>6
    <3> QED
      BY <2>2, <3>1 DEF Sound
  <2>10. CallsAreSound'
    BY <1>3, <1>5, <2>4, <2>6, <2>9, OthersStaySound
  <2> QED
    BY <2>7, <2>8, <2>10 DEF HandlesInv
<1> QED
  BY <1>6, <1>7

\* The name leaves the map, whatever its entry is by now.
LEMMA ForgetHandleStep ==
  ASSUME HandlesInv, NEW c \in Clients, ForgetHandle(c)
  PROVE  HandlesInv'
<1>0. /\ HandlesTypeOK /\ Len(handle) \in Nat /\ client[c] \in Calls(Len(handle))
      /\ \A k \in 1 .. Len(handle) : handle[k] \in Handles
      /\ dbs \in [Databases -> 0 .. Len(handle)]
      /\ lru \in Seq(1 .. Len(handle)) /\ IsInjective(lru)
  BY HandleFacts DEF HandlesInv, HandlesTypeOK
<1>1. PICK d \in Databases : d = client[c].db
  BY <1>0 DEF Calls
<1>2. /\ smu = Nobody
      /\ dbs' = [dbs EXCEPT ![d] = 0] /\ lru' = RemoveFirst(lru, dbs[d])
      /\ Goto(c, "forgetlock")
      /\ UNCHANGED <<exists, gen, handle, smu, writeLock, mutexes>>
  BY <1>1 DEF ForgetHandle
<1>3. /\ lru' \in Seq(1 .. Len(handle)) /\ IsInjective(lru')
      /\ \A k : Contains(lru', k) <=> k # dbs[d] /\ Contains(lru, k)
  BY <1>0, <1>2, RemoveFirstFacts
<1>4. /\ dbs' \in [Databases -> 0 .. Len(handle)]
      /\ \A e \in Databases : dbs'[e] = IF e = d THEN 0 ELSE dbs[e]
  BY <1>0, <1>2
<1>5. PICK r \in Calls(Len(handle)) : client' = [client EXCEPT ![c] = r] /\ r.pc = "forgetlock"
  <2>1. "forgetlock" \in Steps
    BY DEF Steps
  <2>2. PICK r \in Calls(Len(handle)) :
          client' = [client EXCEPT ![c] = r] /\ r = [client[c] EXCEPT !.pc = "forgetlock"]
    BY <1>0, <1>2, <2>1, GotoCall
  <2> QED
    BY <1>0, <2>2 DEF Calls
<1>6. HandlesTypeOK'
  BY <1>0, <1>2, <1>3, <1>4, <1>5, HandleFacts DEF HandlesTypeOK, Calls
<1>7. CacheInv'
  <2>1. LruListsTheOpened'
    <3> SUFFICES ASSUME NEW k \in 1 .. Len(handle)
                 PROVE  Contains(lru', k) <=> dbs'[handle[k].db] = k /\ handle[k].file # 0
      BY <1>2 DEF LruListsTheOpened
    <3>1. Contains(lru, k) <=> dbs[handle[k].db] = k /\ handle[k].file # 0
      BY DEF HandlesInv, CacheInv, LruListsTheOpened
    <3>2. handle[k].db \in Databases /\ k # 0
      BY <1>0 DEF Handles
    <3>3. k = dbs[d] => handle[k].db = d
      BY <3>2 DEF HandlesInv, CacheInv, EntriesAreByName
    <3> QED
      BY <1>3, <1>4, <3>1, <3>2, <3>3
  <2>2. EntriesAreByName' /\ ClosedIsMarked' /\ FilesAreNumbered'
    BY <1>2, <1>4
       DEF HandlesInv, CacheInv, EntriesAreByName, ClosedIsMarked, FilesAreNumbered
  <2> QED
    BY <2>1, <2>2 DEF CacheInv
<1>8. CallsAreSound'
  <2>1. Sound(c, r)'
    BY <1>5 DEF Sound
  <2> QED
    BY <1>2, <1>5, <2>1, OthersStaySound
<1> QED
  BY <1>6, <1>7, <1>8 DEF HandlesInv
LEMMA HandlesInitInv == HandlesInit => HandlesInv
<1> SUFFICES ASSUME HandlesInit PROVE HandlesInv
  OBVIOUS
<1>1. handle = << >> /\ lru = << >> /\ Len(handle) = 0
  BY DEF HandlesInit
<1>2. \A c \in Clients : client[c] \in Calls(0) /\ client[c].pc = "idle"
  <2>1. MaxCalls \in 0 .. MaxCalls /\ 0 \in Nat
    BY CacheAssumption
  <2> QED
    BY <2>1, IdleCall DEF HandlesInit
<1>3. /\ gen \in [Databases -> Nat] /\ exists \in [Databases -> BOOLEAN]
      /\ client \in [Clients -> Calls(0)]
      /\ dbs \in [Databases -> 0 .. 0] /\ \A d \in Databases : dbs[d] = 0
  BY <1>2 DEF HandlesInit
<1>4. IsInjective(lru) /\ lru \in Seq(DOMAIN handle) /\ ~\E x : Contains(lru, x)
  BY <1>1 DEF IsInjective, Contains
<1>5. HandlesTypeOK
  <2>1. handle \in Seq(Handles)
    BY <1>1
  <2> QED
    BY <1>1, <1>3, <1>4, <2>1 DEF HandlesInit, HandlesTypeOK, Handles, Calls
<1>6. CacheInv
  BY <1>1, <1>3, <1>4
     DEF HandlesInit, CacheInv, EntriesAreByName, LruListsTheOpened, ClosedIsMarked,
         FilesAreNumbered
<1>7. CallsAreSound
  BY <1>2 DEF CallsAreSound, Sound
<1> QED
  BY <1>5, <1>6, <1>7 DEF HandlesInv

LEMMA CallStep ==
  ASSUME HandlesInv, NEW c \in Clients, NEW op \in Kinds, NEW d \in Databases, Call(c, op, d)
  PROVE  HandlesInv'
<1>0. /\ client[c] \in Calls(Len(handle)) /\ Len(handle) \in Nat
      /\ writeLock' \in [Databases -> Nat] /\ mutexes' \in [Databases -> Nat]
  BY HandleFacts DEF HandlesInv, HandlesTypeOK, Call
<1>1. client[c].left - 1 \in 0 .. MaxCalls
  BY <1>0, CacheAssumption, SMTT(30) DEF Call, Calls
<1>2. PICK q : q = Idle(client[c].left - 1)
  OBVIOUS
<1>3. q \in Calls(Len(handle))
  BY <1>0, <1>1, <1>2, IdleCall
<1>4. PICK pc \in {"lookup", "stat"} :
        client' = [client EXCEPT ![c] = [q EXCEPT !.op = op, !.db = d, !.pc = pc]]
  BY <1>2 DEF Call
<1>5. PICK r : r = [q EXCEPT !.op = op, !.db = d, !.pc = pc]
  OBVIOUS
<1>6. r \in Calls(Len(handle)) /\ r.pc \in FreeSteps
  BY <1>3, <1>5 DEF Calls, Steps, FreeSteps
<1> QED
  BY <1>0, <1>4, <1>5, <1>6, FreeIsSound, CallMoves DEF Call

\* A step that ends a call or takes it to a step where it has nothing in hand.
LEMMA FreeStep ==
  ASSUME HandlesInv, NEW c \in Clients,
         Return(c) \/ Finish(c) \/ \E pc \in FreeSteps : Goto(c, pc),
         UNCHANGED <<exists, gen, handle, dbs, lru, smu>>,
         writeLock' \in [Databases -> Nat], mutexes' \in [Databases -> Nat]
  PROVE  HandlesInv'
<1>0. HandlesTypeOK /\ Len(handle) \in Nat /\ client[c] \in Calls(Len(handle))
  BY HandleFacts DEF HandlesInv
<1>1. PICK r \in Calls(Len(handle)) : client' = [client EXCEPT ![c] = r] /\ r.pc \in FreeSteps
  <2>1. CASE Return(c)
    BY <1>0, <2>1, ReturnCall
  <2>2. CASE Finish(c)
    BY <1>0, <2>2, FinishCall
  <2>3. ASSUME NEW pc \in FreeSteps, Goto(c, pc)
        PROVE  \E r \in Calls(Len(handle)) :
                 client' = [client EXCEPT ![c] = r] /\ r.pc \in FreeSteps
    <3>1. pc \in Steps
      BY DEF Steps, FreeSteps
    <3>2. PICK r \in Calls(Len(handle)) :
            client' = [client EXCEPT ![c] = r] /\ r = [client[c] EXCEPT !.pc = pc]
      BY <1>0, <2>3, <3>1, GotoCall
    <3> QED
      BY <1>0, <3>2 DEF Calls
  <2> QED
    BY <2>1, <2>2, <2>3
<1> QED
  BY <1>1, FreeIsSound, CallMoves

LEMMA StatStep ==
  ASSUME HandlesInv, NEW c \in Clients, Stat(c)
  PROVE  HandlesInv'
<1>0. /\ HandlesTypeOK /\ client[c] \in Calls(Len(handle))
      /\ writeLock' \in [Databases -> Nat] /\ mutexes' \in [Databases -> Nat]
  BY HandleFacts DEF HandlesInv, HandlesTypeOK, Stat
<1>1. CASE Goto(c, "getmutex") /\ client[c].op = "delete"
  <2>1. "getmutex" \in Steps
    BY DEF Steps
  <2>2. PICK r \in Calls(Len(handle)) :
          client' = [client EXCEPT ![c] = r] /\ r = [client[c] EXCEPT !.pc = "getmutex"]
    BY <1>0, <1>1, <2>1, GotoCall
  <2>3. r.pc = "getmutex" /\ r.op = "delete"
    BY <1>0, <1>1, <2>2 DEF Calls
  <2>4. Sound(c, r)
    BY <2>3 DEF Sound
  <2> QED
    BY <1>0, <2>2, <2>4, CallMoves DEF Stat
<1>2. CASE Goto(c, "lookup") \/ Return(c)
  <2>1. "lookup" \in FreeSteps
    BY DEF FreeSteps
  <2> QED
    BY <1>0, <1>2, <2>1, FreeStep DEF Stat
<1> QED
  BY <1>1, <1>2 DEF Stat

LEMMA LookupStep ==
  ASSUME HandlesInv, NEW c \in Clients, Lookup(c)
  PROVE  HandlesInv'
<1>0. /\ client[c] \in Calls(Len(handle)) /\ dbs \in [Databases -> 0 .. Len(handle)]
      /\ writeLock' \in [Databases -> Nat] /\ mutexes' \in [Databases -> Nat]
  BY HandleFacts DEF HandlesInv, HandlesTypeOK, Lookup
<1>1. PICK h \in 0 .. Len(handle) : h = dbs[client[c].db]
  BY <1>0 DEF Calls
<1>2. PICK pc : pc = IF h # 0 THEN "touch" ELSE "slow"
  OBVIOUS
<1>3. PICK r : r = [client[c] EXCEPT !.h = h, !.pc = pc]
  OBVIOUS
<1>4. client' = [client EXCEPT ![c] = r]
  BY <1>1, <1>2, <1>3 DEF Lookup
<1>5. r \in Calls(Len(handle)) /\ r.pc = pc /\ r.h = h
  BY <1>0, <1>2, <1>3 DEF Calls, Steps
<1>6. Sound(c, r)
  BY <1>2, <1>5 DEF Sound
<1> QED
  BY <1>0, <1>4, <1>5, <1>6, CallMoves DEF Lookup

\* The two passes under s.mu: an entry, a full map, or room.
LEMMA PassStep ==
  ASSUME HandlesInv, NEW c \in Clients, Slow(c) \/ Retry(c)
  PROVE  HandlesInv'
<1>0. /\ client[c] \in Calls(Len(handle)) /\ dbs \in [Databases -> 0 .. Len(handle)]
      /\ client[c].db \in Databases
  BY HandleFacts DEF HandlesInv, Calls
<1>1. CASE dbs[client[c].db] # 0
  <2>1. dbs[client[c].db] \in 1 .. Len(handle)
    BY <1>0, <1>1
  <2>2. /\ UseEntry(c, dbs[client[c].db])
        /\ UNCHANGED <<exists, gen, handle, dbs, smu, writeLock, mutexes>>
    BY <1>1 DEF Slow, Retry, files, locks, cache
  <2> QED
    BY <2>1, <2>2, UseEntryStep
<1>2. CASE dbs[client[c].db] = 0 /\ CacheFull
  <2>1. Evict(c) /\ smu = Nobody /\ UNCHANGED <<exists, gen, smu, writeLock, mutexes>>
    BY <1>2 DEF Slow, Retry, files, locks, cache
  <2> QED
    BY <1>2, <2>1, EvictStep
<1>3. CASE dbs[client[c].db] = 0 /\ ~CacheFull /\ Slow(c)
  <2>1. /\ Goto(c, "retry") /\ UNCHANGED <<exists, gen, handle, dbs, lru, smu>>
        /\ writeLock' = writeLock /\ mutexes' = mutexes
    BY <1>3 DEF Slow, cache
  <2>2. "retry" \in FreeSteps
    BY DEF FreeSteps
  <2>3. writeLock' \in [Databases -> Nat] /\ mutexes' \in [Databases -> Nat]
    BY <2>1 DEF HandlesInv, HandlesTypeOK
  <2> QED
    BY <2>1, <2>2, <2>3, FreeStep
<1>4. CASE dbs[client[c].db] = 0 /\ ~CacheFull /\ Retry(c)
  <2>1. OpenPath(c) /\ smu = Nobody /\ UNCHANGED <<handle, dbs, lru, writeLock, mutexes>>
    BY <1>4 DEF Retry, cache, locks
  <2> QED
    BY <1>4, <2>1, OpenPathStep
<1> QED
  BY <1>1, <1>2, <1>3, <1>4

LEMMA OpenTimeoutStep ==
  ASSUME HandlesInv, NEW c \in Clients, OpenTimeout(c)
  PROVE  HandlesInv'
<1>0. /\ HandlesTypeOK /\ Len(handle) \in Nat /\ FilesAreNumbered'
      /\ exists' \in [Databases -> BOOLEAN] /\ gen' \in [Databases -> Nat]
      /\ writeLock' \in [Databases -> Nat] /\ mutexes' \in [Databases -> Nat]
  BY HandleFacts
     DEF HandlesInv, HandlesTypeOK, CacheInv, FilesAreNumbered, OpenTimeout
<1>1. smu = c
  BY DEF OpenTimeout, HandlesInv, CallsAreSound, Sound
<1>2. PICK r \in Calls(Len(handle)) : client' = [client EXCEPT ![c] = r] /\ r.pc \in FreeSteps
  BY <1>0, ReturnCall DEF OpenTimeout
<1>3. Sound(c, r)'
  BY <1>2 DEF Sound, FreeSteps
<1> QED
  BY <1>0, <1>1, <1>2, <1>3, CallMovesOn DEF OpenTimeout

LEMMA GetMutexStep ==
  ASSUME HandlesInv, NEW c \in Clients, GetMutex(c)
  PROVE  HandlesInv'
<1>0. /\ client[c] \in Calls(Len(handle))
      /\ writeLock \in [Databases -> Nat] /\ mutexes \in [Databases -> Nat]
      /\ Sound(c, client[c])
  BY HandleFacts DEF HandlesInv, HandlesTypeOK, CallsAreSound
<1>1. PICK d \in Databases : d = client[c].db
  BY <1>0 DEF Calls
<1>2. PICK n \in Nat : n = IF writeLock[d] = 0 THEN mutexes[d] + 1 ELSE writeLock[d]
  BY <1>0
<1>3. writeLock' = [writeLock EXCEPT ![d] = n] /\ writeLock' \in [Databases -> Nat]
  BY <1>0, <1>1, <1>2 DEF GetMutex
<1>4. mutexes' \in [Databases -> Nat]
  <2>1. mutexes' = [mutexes EXCEPT ![d] = IF writeLock[d] = 0 THEN n ELSE @]
    BY <1>1, <1>2 DEF GetMutex
  <2> QED
    BY <1>0, <2>1
<1>5. PICK r : r = [client[c] EXCEPT !.pc = "lock", !.mutex = n]
  OBVIOUS
<1>6. client' = [client EXCEPT ![c] = r]
  BY <1>1, <1>2, <1>5 DEF GetMutex
<1>7. /\ r \in Calls(Len(handle)) /\ r.pc = "lock"
      /\ r.h = client[c].h /\ r.op = client[c].op
  BY <1>0, <1>5 DEF Calls, Steps
<1>8. Sound(c, r)
  BY <1>0, <1>7 DEF Sound, GetMutex
<1> QED
  BY <1>3, <1>4, <1>6, <1>7, <1>8, CallMoves DEF GetMutex

LEMMA LockMutexStep ==
  ASSUME HandlesInv, NEW c \in Clients, LockMutex(c)
  PROVE  HandlesInv'
<1>0. /\ client[c] \in Calls(Len(handle)) /\ Sound(c, client[c])
      /\ writeLock' \in [Databases -> Nat] /\ mutexes' \in [Databases -> Nat]
  BY HandleFacts DEF HandlesInv, HandlesTypeOK, CallsAreSound, LockMutex
<1>1. PICK pc : pc = IF client[c].op = "delete" THEN "mark" ELSE "begin"
  OBVIOUS
<1>2. PICK r : r = [client[c] EXCEPT !.holds = TRUE, !.pc = pc]
  OBVIOUS
<1>3. client' = [client EXCEPT ![c] = r]
  BY <1>1, <1>2 DEF LockMutex
<1>4. r \in Calls(Len(handle)) /\ r.pc = pc /\ r.h = client[c].h
  BY <1>0, <1>1, <1>2 DEF Calls, Steps
<1>5. Sound(c, r)
  BY <1>0, <1>1, <1>4 DEF Sound, LockMutex
<1> QED
  BY <1>0, <1>3, <1>4, <1>5, CallMoves DEF LockMutex

\* A transaction begins on a handle that is not marked, so on an open one.
LEMMA BeginTxStep ==
  ASSUME HandlesInv, NEW c \in Clients, BeginTx(c)
  PROVE  HandlesInv'
<1>0. /\ HandlesTypeOK /\ client[c] \in Calls(Len(handle)) /\ Sound(c, client[c])
      /\ Len(handle) \in Nat
      /\ writeLock' \in [Databases -> Nat] /\ mutexes' \in [Databases -> Nat]
  BY HandleFacts DEF HandlesInv, HandlesTypeOK, CallsAreSound, BeginTx
<1>1. client[c].h \in 1 .. Len(handle)
  BY <1>0 DEF Sound, BeginTx, Calls
<1>2. CASE handle[client[c].h].deleting
  BY <1>0, <1>2, FreeStep DEF BeginTx
<1>3. CASE ~handle[client[c].h].deleting
  <2>1. handle[client[c].h].open
    BY <1>1, <1>3 DEF HandlesInv, CacheInv, ClosedIsMarked
  <2>2. "intx" \in Steps /\ Goto(c, "intx")
    BY <1>3 DEF Steps, BeginTx
  <2>3. PICK r \in Calls(Len(handle)) :
          client' = [client EXCEPT ![c] = r] /\ r = [client[c] EXCEPT !.pc = "intx"]
    BY <1>0, <2>2, GotoCall
  <2>4. r.pc = "intx" /\ r.h = client[c].h
    BY <1>0, <2>3 DEF Calls
  <2>5. Sound(c, r)
    BY <1>1, <2>1, <2>4 DEF Sound
  <2> QED
    BY <1>0, <2>3, <2>5, CallMoves DEF BeginTx
<1> QED
  BY <1>2, <1>3

LEMMA RemoveFileStep ==
  ASSUME HandlesInv, NEW c \in Clients, RemoveFile(c)
  PROVE  HandlesInv'
<1>0. /\ HandlesTypeOK /\ client[c] \in Calls(Len(handle)) /\ FilesAreNumbered
      /\ exists \in [Databases -> BOOLEAN] /\ gen' \in [Databases -> Nat]
      /\ smu' \in Clients \cup {Nobody}
      /\ writeLock' \in [Databases -> Nat] /\ mutexes' \in [Databases -> Nat]
  BY HandleFacts DEF HandlesInv, HandlesTypeOK, CacheInv, RemoveFile
<1>1. "forget" \in Steps /\ Goto(c, "forget")
  BY DEF Steps, RemoveFile
<1>2. PICK r \in Calls(Len(handle)) :
        client' = [client EXCEPT ![c] = r] /\ r = [client[c] EXCEPT !.pc = "forget"]
  BY <1>0, <1>1, GotoCall
<1>3. r.pc = "forget"
  BY <1>0, <1>2 DEF Calls
<1>4. Sound(c, r)'
  BY <1>3 DEF Sound
<1>5. exists' \in [Databases -> BOOLEAN] /\ FilesAreNumbered'
  BY <1>0 DEF RemoveFile, FilesAreNumbered
<1> QED
  BY <1>0, <1>2, <1>4, <1>5, CallMovesOn DEF RemoveFile

LEMMA HandlesStepInv == HandlesInv /\ [HandlesNext]_handleVars => HandlesInv'
<1> SUFFICES ASSUME HandlesInv, [HandlesNext]_handleVars PROVE HandlesInv'
  OBVIOUS
<1>1. CASE UNCHANGED handleVars
  BY <1>1
     DEF handleVars, HandlesInv, HandlesTypeOK, CacheInv, EntriesAreByName, LruListsTheOpened,
         ClosedIsMarked, FilesAreNumbered, CallsAreSound, Sound
<1>2. ASSUME NEW c \in Clients, NEW op \in Kinds, NEW d \in Databases, Call(c, op, d)
      PROVE  HandlesInv'
  BY <1>2, CallStep
<1>3. ASSUME NEW c \in Clients, Continue(c) PROVE HandlesInv'
  <2>0. /\ client[c] \in Calls(Len(handle)) /\ Len(handle) \in Nat /\ Sound(c, client[c])
        /\ writeLock \in [Databases -> Nat] /\ mutexes \in [Databases -> Nat]
        /\ {"unlock", "retry", "remove"} \subseteq FreeSteps
    BY HandleFacts DEF HandlesInv, HandlesTypeOK, CallsAreSound, FreeSteps
  <2>1. CASE Stat(c)
    BY <2>1, StatStep
  <2>2. CASE Lookup(c)
    BY <2>2, LookupStep
  <2>3. CASE Touch(c)
    <3>1. client[c].h \in 1 .. Len(handle)
      BY <2>0, <2>3 DEF Sound, Touch, Calls
    <3> QED
      BY <2>3, <3>1, UseEntryStep DEF Touch
  <2>4. CASE Slow(c) \/ Retry(c)
    BY <2>4, PassStep
  <2>5. CASE CloseVictim(c)
    BY <2>5, CloseStep DEF CloseVictim
  <2>6. CASE TakeFileLock(c)
    BY <2>6, TakeFileLockStep
  <2>7. CASE OpenTimeout(c)
    BY <2>7, OpenTimeoutStep
  <2>8. CASE GetMutex(c)
    BY <2>8, GetMutexStep
  <2>9. CASE LockMutex(c)
    BY <2>9, LockMutexStep
  <2>10. CASE BeginTx(c)
    BY <2>10, BeginTxStep
  <2>11. CASE EndTx(c)
    BY <2>0, <2>11, FreeStep DEF EndTx
  <2>12. CASE Unlock(c)
    BY <2>0, <2>12, FreeStep DEF Unlock
  <2>13. CASE MarkDeleting(c)
    BY <2>13, MarkDeletingStep
  <2>14. CASE CloseDeleted(c)
    BY <2>14, CloseStep DEF CloseDeleted
  <2>15. CASE RemoveFile(c)
    BY <2>15, RemoveFileStep
  <2>16. CASE ForgetHandle(c)
    BY <2>16, ForgetHandleStep
  <2>17. CASE ForgetLock(c)
    <3>1. writeLock' \in [Databases -> Nat]
      BY <2>0, <2>17 DEF ForgetLock
    <3> QED
      BY <2>0, <2>17, <3>1, FreeStep DEF ForgetLock
  <2> QED
    BY <1>3, <2>1, <2>2, <2>3, <2>4, <2>5, <2>6, <2>7, <2>8, <2>9, <2>10, <2>11, <2>12,
       <2>13, <2>14, <2>15, <2>16, <2>17 DEF Continue, GetDB, Transact, DeleteDatabase
<1> QED
  BY <1>1, <1>2, <1>3 DEF HandlesNext

\* The types of the cache (store.go, dbhandle.go, database.go): every entry of
\* s.dbs and every handle a call holds is one that was allocated, and the
\* eviction order names no handle twice.
THEOREM HandlesTypes == HandlesSpec => []HandlesTypeOK
<1>1. HandlesInv => HandlesTypeOK
  BY DEF HandlesInv
<1> QED
  BY <1>1, HandlesInitInv, HandlesStepInv, PTL DEF HandlesSpec

\* However many goroutines open, use, evict and delete databases, no View or
\* Update of dbhandle.go ever runs on a bolt.DB that has been closed: whoever
\* closes a handle has marked it first, and waits for the gate.
THEOREM NoTransactionOnClosed == HandlesSpec => []NoTransactionOnClosedDatabase
<1>1. HandlesInv => NoTransactionOnClosedDatabase
  BY DEF HandlesInv, CallsAreSound, Sound, NoTransactionOnClosedDatabase
<1> QED
  BY <1>1, HandlesInitInv, HandlesStepInv, PTL DEF HandlesSpec

-----------------------------------------------------------------------------
(* The build of an index.                                                  *)

\* getIndexBucketName gives two indexes two buckets: no name of a collection
\* or a field makes an ambiguous join.
NamesAreDistinct ==
  \A c, d \in Collections, f, g \in Fields :
    IndexBucketName(c, f) = IndexBucketName(d, g) => c = d /\ f = g

\* No two goroutines build the same index: an index is not deleted and created
\* anew under a build of it.
BuildsApart ==
  \A a, b \in Builders :
    a # b /\ builder[a].pc # "idle" /\ builder[b].pc # "idle" =>
      <<builder[a].c, builder[a].f>> # <<builder[b].c, builder[b].f>>

\* The entry of a document in an index on f.
EntryOf(body, f, i) ==
  IF body # NoDoc /\ body[f] # Absent THEN { <<body[f], i>> } ELSE {}

\* A bucket that writes maintain has no entry but those of the documents.
WritableIsSound ==
  \A c \in Collections : \A f \in WritableFields(db, c) :
    /\ Bucket(c, f) # NoBucket
    /\ \A e \in Bucket(c, f) : \E i \in Ids : e \in EntryOf(db.docs[c][i], f, i)

CompletedIsFull ==
  \A c \in Collections : \A f \in db.indexed[c], i \in Ids :
    EntryOf(db.docs[c][i], f, i) \subseteq Bucket(c, f)

\* What build r has: the field is not completed, and every document it has
\* read, all of them once it has read the last, is in the bucket or in its batch.
Covers(r) ==
  \A i \in Ids :
    i <= r.after \/ (r.done /\ r.pc # "collect") =>
      \/ EntryOf(db.docs[r.c][i], r.f, i) \subseteq Bucket(r.c, r.f)
      \/ [id |-> i, body |-> db.docs[r.c][i]] \in r.batch

Holds(r) ==
  /\ r.pc # "idle" => r.f \notin db.indexed[r.c]
  /\ r.pc \notin {"apply", "abort"} => r.batch = {}
  /\ r.pc = "finish" => r.done
  /\ \A e \in r.batch : e.body[r.f] # Absent
  /\ r.pc \in {"collect", "apply", "finish"} /\ IsBuilding(r.c, r.f) => Covers(r)

BuildsInv ==
  BuildsTypeOK /\ WritableIsSound /\ CompletedIsFull /\ \A b \in Builders : Holds(builder[b])

BuildRecords == [pc : BuildSteps, c : Collections, f : Fields,
                 after : Ids \cup {0}, batch : SUBSET Entries, done : BOOLEAN]

LEMMA BuildTypes ==
  /\ BuildsTypeOK <=> db \in Tables /\ builder \in [Builders -> BuildRecords]
  /\ Ids \subseteq Nat \ {0} /\ NoDoc \notin Bodies /\ NoBucket \notin SUBSET (Vals \X Ids)
BY OrderAssumption, MarkersAssumption DEF BuildsTypeOK, BuildRecords

\* The fields of the file that the build of an index is about.
LEMMA TableFacts ==
  ASSUME NEW d \in Tables
  PROVE  /\ d.docs \in [Collections -> [Ids -> Bodies \cup {NoDoc}]]
         /\ d.indexed \in [Collections -> SUBSET Fields]
         /\ d.building \in SUBSET (Collections \X Fields)
         /\ d.idx \in [IndexBuckets -> (SUBSET (Vals \X Ids)) \cup {NoBucket}]
         /\ \A c \in Collections : WritableFields(d, c) \subseteq Fields
         /\ \A c \in Collections, f \in Fields : IndexBucketName(c, f) \in IndexBuckets
<1>1. /\ d.docs \in [Collections -> [Ids -> Bodies \cup {NoDoc}]]
      /\ d.indexed \in [Collections -> SUBSET Fields]
      /\ d.building \in SUBSET (Collections \X Fields)
      /\ d.idx \in [IndexBuckets -> (SUBSET (Vals \X Ids)) \cup {NoBucket}]
  BY DEF Tables
<1>2. \A c \in Collections : WritableFields(d, c) \subseteq Fields
  BY <1>1 DEF WritableFields
<1>3. \A c \in Collections, f \in Fields : IndexBucketName(c, f) \in IndexBuckets
  BY DEF IndexBuckets
<1> QED
  BY <1>1, <1>2, <1>3

LEMMA EntryFacts ==
  ASSUME NEW body \in Bodies \cup {NoDoc}, NEW f \in Fields, NEW i \in Ids
  PROVE  /\ EntryOf(body, f, i) \subseteq Vals \X Ids
         /\ \A e \in EntryOf(body, f, i) : e[2] = i
BY DEF EntryOf, Bodies

\* The entries of one document in the bucket of one index.
LEMMA EntriesOfDocument ==
  ASSUME NamesAreDistinct, NEW d \in Tables, NEW c \in Collections, NEW i \in Ids,
         NEW body \in Bodies, NEW o \in Collections, NEW g \in Fields
  PROVE  /\ o # c => IndexEntries(d, c, i, body, IndexBucketName(o, g)) = {}
         /\ g \in WritableFields(d, c) =>
              IndexEntries(d, c, i, body, IndexBucketName(c, g)) = EntryOf(body, g, i)
<1>1. WritableFields(d, c) \subseteq Fields /\ body # NoDoc
  BY TableFacts, BuildTypes
<1>2. \A f \in WritableFields(d, c) :
        IndexBucketName(c, f) = IndexBucketName(o, g) => c = o /\ f = g
  BY <1>1 DEF NamesAreDistinct
<1>3. \A f \in WritableFields(d, c) :
        IndexBucketName(c, f) = IndexBucketName(c, g) => f = g
  BY <1>1 DEF NamesAreDistinct
<1>4. o # c => IndexEntries(d, c, i, body, IndexBucketName(o, g)) = {}
  BY <1>2 DEF IndexEntries
<1>5. ASSUME g \in WritableFields(d, c)
      PROVE  IndexEntries(d, c, i, body, IndexBucketName(c, g)) = EntryOf(body, g, i)
  <2>1. { f \in WritableFields(d, c) :
            body[f] # Absent /\ IndexBucketName(c, f) = IndexBucketName(c, g) }
          = IF body[g] # Absent THEN {g} ELSE {}
    BY <1>3, <1>5
  <2> QED
    BY <2>1, <1>1 DEF IndexEntries, EntryOf
<1> QED
  BY <1>4, <1>5

\* What taking a document's entries away, and adding them, does to the file.
LEMMA UnindexStoredWrites ==
  ASSUME NEW d \in Tables, NEW c \in Collections, NEW i \in Ids
  PROVE  /\ UnindexStored(d, c, i) \in Tables
         /\ UnindexStored(d, c, i).docs = d.docs
         /\ UnindexStored(d, c, i).indexed = d.indexed
         /\ UnindexStored(d, c, i).building = d.building
         /\ d.docs[c][i] = NoDoc => UnindexStored(d, c, i).idx = d.idx
         /\ d.docs[c][i] # NoDoc =>
              \A b \in IndexBuckets :
                /\ d.idx[b] = NoBucket => UnindexStored(d, c, i).idx[b] = NoBucket
                /\ d.idx[b] # NoBucket =>
                     UnindexStored(d, c, i).idx[b] =
                       d.idx[b] \ IndexEntries(d, c, i, d.docs[c][i], b)
<1>1. CASE d.docs[c][i] = NoDoc
  BY <1>1 DEF UnindexStored
<1>2. CASE d.docs[c][i] # NoDoc
  <2> DEFINE idx == [b \in IndexBuckets |->
                       IF d.idx[b] = NoBucket THEN NoBucket
                       ELSE d.idx[b] \ IndexEntries(d, c, i, d.docs[c][i], b)]
  <2>1. idx \in [IndexBuckets -> (SUBSET (Vals \X Ids)) \cup {NoBucket}]
    <3> SUFFICES ASSUME NEW b \in IndexBuckets, d.idx[b] # NoBucket
                 PROVE  d.idx[b] \in SUBSET (Vals \X Ids)
      OBVIOUS
    <3> QED
      BY TableFacts
  <2>2. UnindexStored(d, c, i) = [d EXCEPT !.idx = idx]
    BY <1>2 DEF UnindexStored, UnindexDocument
  <2>3. \A b \in IndexBuckets :
          /\ d.idx[b] = NoBucket => idx[b] = NoBucket
          /\ d.idx[b] # NoBucket =>
               idx[b] = d.idx[b] \ IndexEntries(d, c, i, d.docs[c][i], b)
    OBVIOUS
  <2> HIDE DEF idx
  <2>4. [d EXCEPT !.idx = idx] \in Tables
    BY <2>1 DEF Tables
  <2> QED
    BY <1>2, <2>2, <2>3, <2>4 DEF Tables
<1> QED
  BY <1>1, <1>2

LEMMA IndexDocumentWrites ==
  ASSUME NEW d \in Tables, NEW c \in Collections, NEW i \in Ids, NEW body \in Bodies
  PROVE  /\ IndexDocument(d, c, i, body) \in Tables
         /\ IndexDocument(d, c, i, body).docs = d.docs
         /\ IndexDocument(d, c, i, body).indexed = d.indexed
         /\ IndexDocument(d, c, i, body).building = d.building
         /\ \A b \in IndexBuckets :
              /\ d.idx[b] = NoBucket => IndexDocument(d, c, i, body).idx[b] = NoBucket
              /\ d.idx[b] # NoBucket =>
                   IndexDocument(d, c, i, body).idx[b] =
                     d.idx[b] \cup IndexEntries(d, c, i, body, b)
<1> DEFINE idx == [b \in IndexBuckets |->
                     IF d.idx[b] = NoBucket THEN NoBucket
                     ELSE d.idx[b] \cup IndexEntries(d, c, i, body, b)]
<1>1. idx \in [IndexBuckets -> (SUBSET (Vals \X Ids)) \cup {NoBucket}]
  <2> SUFFICES ASSUME NEW b \in IndexBuckets, d.idx[b] # NoBucket
               PROVE  d.idx[b] \cup IndexEntries(d, c, i, body, b)
                        \in SUBSET (Vals \X Ids)
    OBVIOUS
  <2>1. d.idx[b] \in SUBSET (Vals \X Ids) /\ WritableFields(d, c) \subseteq Fields
    BY TableFacts
  <2>2. \A f \in Fields : body[f] # Absent => <<body[f], i>> \in Vals \X Ids
    BY DEF Bodies
  <2>3. IndexEntries(d, c, i, body, b) \in SUBSET (Vals \X Ids)
    BY <2>1, <2>2 DEF IndexEntries
  <2> QED
    BY <2>1, <2>3
<1>2. IndexDocument(d, c, i, body) = [d EXCEPT !.idx = idx]
  BY DEF IndexDocument
<1>3. \A b \in IndexBuckets :
        /\ d.idx[b] = NoBucket => idx[b] = NoBucket
        /\ d.idx[b] # NoBucket => idx[b] = d.idx[b] \cup IndexEntries(d, c, i, body, b)
  OBVIOUS
<1> HIDE DEF idx
<1>4. [d EXCEPT !.idx = idx] \in Tables
  BY <1>1 DEF Tables
<1> QED
  BY <1>2, <1>3, <1>4 DEF Tables

\* A write of one document, which keeps every bucket in step with it.
LEMMA DocumentChange ==
  ASSUME BuildsInv, UNCHANGED builder, db' \in Tables,
         NEW c \in Collections, NEW i \in Ids, NEW body \in Bodies \cup {NoDoc},
         db'.docs = [db.docs EXCEPT ![c][i] = body],
         db'.indexed = db.indexed, db'.building = db.building,
         \A o \in Collections, g \in Fields : o # c => Bucket(o, g)' = Bucket(o, g),
         \A g \in WritableFields(db, c) :
           /\ Bucket(c, g)' # NoBucket
           /\ Bucket(c, g)' = (Bucket(c, g) \ EntryOf(db.docs[c][i], g, i))
                                \cup EntryOf(body, g, i)
  PROVE  BuildsInv'
<1>1. /\ db \in Tables /\ builder \in [Builders -> BuildRecords]
      /\ Ids \subseteq Nat \ {0} /\ NoDoc \notin Bodies
  BY BuildTypes DEF BuildsInv
<1>2. /\ db.docs \in [Collections -> [Ids -> Bodies \cup {NoDoc}]]
      /\ \A o \in Collections : WritableFields(db, o) \subseteq Fields
      /\ db.indexed \in [Collections -> SUBSET Fields]
      /\ \A o \in Collections, j \in Ids : db.docs[o][j] \in Bodies \cup {NoDoc}
  BY <1>1, TableFacts
<1>3. /\ db'.docs[c][i] = body
      /\ \A j \in Ids : j # i => db'.docs[c][j] = db.docs[c][j]
      /\ \A o \in Collections : o # c => db'.docs[o] = db.docs[o]
  BY <1>2
<1>4. \A o \in Collections : WritableFields(db', o) = WritableFields(db, o)
  BY DEF WritableFields
<1>5. BuildsTypeOK'
  BY <1>1 DEF BuildsTypeOK, BuildRecords
<1>6. WritableIsSound'
  <2> SUFFICES ASSUME NEW o \in Collections, NEW g \in WritableFields(db, o)
               PROVE  /\ Bucket(o, g)' # NoBucket
                      /\ \A e \in Bucket(o, g)' :
                           \E j \in Ids : e \in EntryOf(db'.docs[o][j], g, j)
    BY <1>4 DEF WritableIsSound
  <2>1. /\ g \in Fields /\ Bucket(o, g) # NoBucket
        /\ \A e \in Bucket(o, g) : \E j \in Ids : e \in EntryOf(db.docs[o][j], g, j)
    BY <1>2 DEF BuildsInv, WritableIsSound
  <2>2. CASE o # c
    BY <2>1, <2>2, <1>3
  <2>3. CASE o = c
    <3>1. /\ Bucket(c, g)' # NoBucket
          /\ Bucket(c, g)' = (Bucket(c, g) \ EntryOf(db.docs[c][i], g, i))
                               \cup EntryOf(body, g, i)
      BY <2>3
    <3>2. ASSUME NEW e \in Bucket(c, g)'
          PROVE  \E j \in Ids : e \in EntryOf(db'.docs[c][j], g, j)
      <4>1. CASE e \in EntryOf(body, g, i)
        BY <4>1, <1>3
      <4>2. CASE e \in Bucket(c, g) /\ e \notin EntryOf(db.docs[c][i], g, i)
        <5>1. PICK j \in Ids : e \in EntryOf(db.docs[c][j], g, j)
          BY <2>1, <2>3, <4>2
        <5>2. j # i
          BY <4>2, <5>1
        <5> QED
          BY <5>1, <5>2, <1>3
      <4> QED
        BY <3>1, <4>1, <4>2
    <3> QED
      BY <2>3, <3>1, <3>2
  <2> QED
    BY <2>2, <2>3
\* The entries of the documents that are in a bucket stay in step.
<1>7. ASSUME NEW o \in Collections, NEW g \in WritableFields(db, o), NEW j \in Ids,
             EntryOf(db.docs[o][j], g, j) \subseteq Bucket(o, g) \/ (o = c /\ j = i)
      PROVE  EntryOf(db'.docs[o][j], g, j) \subseteq Bucket(o, g)'
  <2>1. g \in Fields
    BY <1>2
  <2>2. CASE o # c
    BY <2>1, <2>2, <1>3, <1>7
  <2>3. CASE o = c /\ j = i
    BY <2>3, <1>3, <1>7
  <2>4. CASE o = c /\ j # i
    <3>1. \A e \in EntryOf(db.docs[c][j], g, j) : e[2] = j
      BY <2>1, <1>2, EntryFacts
    <3>2. \A e \in EntryOf(db.docs[c][i], g, i) : e[2] = i
      BY <2>1, <1>2, EntryFacts
    <3> QED
      BY <2>4, <3>1, <3>2, <1>3, <1>7
  <2> QED
    BY <2>2, <2>3, <2>4
<1>8. CompletedIsFull'
  <2> SUFFICES ASSUME NEW o \in Collections, NEW g \in db.indexed[o], NEW j \in Ids
               PROVE  EntryOf(db'.docs[o][j], g, j) \subseteq Bucket(o, g)'
    BY DEF CompletedIsFull
  <2>1. g \in WritableFields(db, o)
    BY DEF WritableFields
  <2>2. EntryOf(db.docs[o][j], g, j) \subseteq Bucket(o, g)
    BY DEF BuildsInv, CompletedIsFull
  <2> QED
    BY <2>1, <2>2, <1>7
<1>9. ASSUME NEW b \in Builders
      PROVE  Holds(builder[b])'
  <2>1. PICK r \in BuildRecords : r = builder[b] /\ r = builder'[b]
    BY <1>1
  <2>2. Holds(r) /\ r.c \in Collections /\ r.f \in Fields
    BY <2>1 DEF BuildsInv, BuildRecords
  <2>3. ASSUME r.pc \in {"collect", "apply", "finish"}, IsBuilding(r.c, r.f)'
        PROVE  Covers(r)'
    <3>1. Covers(r) /\ r.f \in WritableFields(db, r.c)
      BY <2>2, <2>3 DEF Holds, IsBuilding, WritableFields
    <3> SUFFICES ASSUME NEW j \in Ids, j <= r.after \/ (r.done /\ r.pc # "collect")
                 PROVE  \/ EntryOf(db'.docs[r.c][j], r.f, j) \subseteq Bucket(r.c, r.f)'
                        \/ [id |-> j, body |-> db'.docs[r.c][j]] \in r.batch
      BY DEF Covers
    <3>2. CASE EntryOf(db.docs[r.c][j], r.f, j) \subseteq Bucket(r.c, r.f) \/ (r.c = c /\ j = i)
      BY <2>2, <3>1, <3>2, <1>7
    <3>3. CASE /\ [id |-> j, body |-> db.docs[r.c][j]] \in r.batch
               /\ r.c # c \/ j # i
      BY <2>2, <3>3, <1>3
    <3> QED
      BY <3>1, <3>2, <3>3 DEF Covers
  <2>4. Holds(r)'
    BY <2>2, <2>3 DEF Holds
  <2> QED
    BY <2>1, <2>4
<1> QED
  BY <1>5, <1>6, <1>8, <1>9 DEF BuildsInv

LEMMA PutStep ==
  ASSUME BuildsInv, NamesAreDistinct,
         NEW c \in Collections, NEW i \in Ids, NEW body \in Bodies, PutDocument(c, i, body)
  PROVE  BuildsInv'
<1>1. db \in Tables /\ NoDoc \notin Bodies /\ NoBucket \notin SUBSET (Vals \X Ids)
  BY BuildTypes DEF BuildsInv
<1>a. UnindexStored(db, c, i) \in Tables
  BY <1>1, UnindexStoredWrites
<1>b. PICK old \in Tables : old = UnindexStored(db, c, i)
  BY <1>a
<1> DEFINE mid == [old EXCEPT !.exists = db.exists \cup {c}, !.docs[c][i] = body]
<1>0. db' = IndexDocument(mid, c, i, body) /\ UNCHANGED builder
  BY <1>b DEF PutDocument
<1> HIDE DEF mid
<1>2. /\ old \in Tables /\ old.docs = db.docs /\ old.indexed = db.indexed
      /\ old.building = db.building
      /\ db.docs[c][i] = NoDoc => old.idx = db.idx
      /\ db.docs[c][i] # NoDoc =>
           \A b \in IndexBuckets :
             /\ db.idx[b] = NoBucket => old.idx[b] = NoBucket
             /\ db.idx[b] # NoBucket =>
                  old.idx[b] = db.idx[b] \ IndexEntries(db, c, i, db.docs[c][i], b)
  BY <1>1, <1>b, UnindexStoredWrites
<1>4. /\ mid \in Tables /\ mid.docs = [db.docs EXCEPT ![c][i] = body]
      /\ mid.indexed = db.indexed /\ mid.building = db.building /\ mid.idx = old.idx
  <2>1. [old.docs EXCEPT ![c][i] = body] \in [Collections -> [Ids -> Bodies \cup {NoDoc}]]
    BY <1>2, TableFacts
  <2>2. db.exists \cup {c} \in SUBSET Collections
    BY <1>1 DEF Tables
  <2>3. mid = [old EXCEPT !.exists = db.exists \cup {c},
                          !.docs = [old.docs EXCEPT ![c][i] = body]]
    BY DEF mid
  <2>4. \A e \in SUBSET Collections, t \in [Collections -> [Ids -> Bodies \cup {NoDoc}]] :
          [old EXCEPT !.exists = e, !.docs = t] \in Tables
    BY <1>2 DEF Tables
  <2>5. mid \in Tables
    BY <2>1, <2>2, <2>3, <2>4
  <2> QED
    BY <1>2, <2>3, <2>5 DEF Tables
<1>3. /\ db' \in Tables /\ db'.docs = mid.docs
      /\ db'.indexed = mid.indexed /\ db'.building = mid.building
      /\ \A b \in IndexBuckets :
           /\ mid.idx[b] = NoBucket => db'.idx[b] = NoBucket
           /\ mid.idx[b] # NoBucket =>
                db'.idx[b] = mid.idx[b] \cup IndexEntries(mid, c, i, body, b)
  <2>1. PICK m \in Tables : m = mid
    BY <1>4
  <2>2. db' = IndexDocument(m, c, i, body)
    BY <2>1, <1>0
  <2>3. /\ db' \in Tables /\ db'.docs = m.docs
        /\ db'.indexed = m.indexed /\ db'.building = m.building
        /\ \A b \in IndexBuckets :
             /\ m.idx[b] = NoBucket => db'.idx[b] = NoBucket
             /\ m.idx[b] # NoBucket =>
                  db'.idx[b] = m.idx[b] \cup IndexEntries(m, c, i, body, b)
    BY <2>2, IndexDocumentWrites
  <2> QED
    BY <2>1, <2>3
<1>5. /\ db' \in Tables /\ db'.docs = [db.docs EXCEPT ![c][i] = body]
      /\ db'.indexed = db.indexed /\ db'.building = db.building
      /\ \A b \in IndexBuckets :
           /\ old.idx[b] = NoBucket => db'.idx[b] = NoBucket
           /\ old.idx[b] # NoBucket =>
                db'.idx[b] = old.idx[b] \cup IndexEntries(mid, c, i, body, b)
  BY <1>3, <1>4
<1>6. WritableFields(mid, c) = WritableFields(db, c)
  BY <1>4 DEF WritableFields
<1>7. db.docs[c][i] \in Bodies \cup {NoDoc}
  BY <1>1, TableFacts
<1>8. ASSUME NEW o \in Collections, NEW g \in Fields, o # c
      PROVE  Bucket(o, g)' = Bucket(o, g)
  <2>1. PICK n \in IndexBuckets : n = IndexBucketName(o, g)
    BY <1>1, TableFacts
  <2>2. IndexEntries(mid, c, i, body, n) = {}
    BY <2>1, <1>4, <1>8, EntriesOfDocument
  <2>3. db.docs[c][i] # NoDoc => IndexEntries(db, c, i, db.docs[c][i], n) = {}
    BY <2>1, <1>1, <1>7, <1>8, EntriesOfDocument
  <2>4. db.idx[n] = NoBucket \/ db.idx[n] \in SUBSET (Vals \X Ids)
    BY <1>1, TableFacts
  <2>5. old.idx[n] = db.idx[n]
    <3>1. CASE db.docs[c][i] = NoDoc
      BY <3>1, <1>2
    <3>2. CASE db.docs[c][i] # NoDoc
      BY <3>2, <2>3, <2>4, <1>2
    <3> QED
      BY <3>1, <3>2
  <2>6. db'.idx[n] = db.idx[n]
    BY <2>2, <2>4, <2>5, <1>5
  <2> QED
    BY <2>1, <2>6 DEF Bucket
<1>9. ASSUME NEW g \in WritableFields(db, c)
      PROVE  /\ Bucket(c, g)' # NoBucket
             /\ Bucket(c, g)' = (Bucket(c, g) \ EntryOf(db.docs[c][i], g, i))
                                  \cup EntryOf(body, g, i)
  <2>1. g \in Fields
    BY <1>1, TableFacts
  <2>2. PICK n \in IndexBuckets : n = IndexBucketName(c, g)
    BY <2>1, <1>1, TableFacts
  <2>3. db.idx[n] # NoBucket /\ db.idx[n] \in SUBSET (Vals \X Ids)
    BY <2>2, <1>1, TableFacts DEF BuildsInv, WritableIsSound, Bucket
  <2>4. IndexEntries(mid, c, i, body, n) = EntryOf(body, g, i)
    BY <2>1, <2>2, <1>4, <1>6, EntriesOfDocument
  <2>5. db.docs[c][i] # NoDoc =>
          IndexEntries(db, c, i, db.docs[c][i], n) = EntryOf(db.docs[c][i], g, i)
    BY <2>1, <2>2, <1>1, <1>7, EntriesOfDocument
  <2>6. db.docs[c][i] = NoDoc => EntryOf(db.docs[c][i], g, i) = {}
    BY DEF EntryOf
  <2>7. old.idx[n] = db.idx[n] \ EntryOf(db.docs[c][i], g, i)
    <3>1. CASE db.docs[c][i] = NoDoc
      BY <3>1, <2>6, <1>2
    <3>2. CASE db.docs[c][i] # NoDoc
      BY <3>2, <2>3, <2>5, <1>2
    <3> QED
      BY <3>1, <3>2
  <2>8. old.idx[n] # NoBucket
    BY <2>3, <2>7, <1>1
  <2>9. EntryOf(body, g, i) \subseteq Vals \X Ids
    BY <2>1, EntryFacts
  <2>10. db'.idx[n] = (db.idx[n] \ EntryOf(db.docs[c][i], g, i)) \cup EntryOf(body, g, i)
    BY <2>4, <2>7, <2>8, <1>5
  <2>11. db'.idx[n] # NoBucket
    BY <2>3, <2>9, <2>10, <1>1
  <2> QED
    BY <2>2, <2>10, <2>11 DEF Bucket
<1> QED
  BY <1>0, <1>5, <1>8, <1>9, DocumentChange

LEMMA DeleteStep ==
  ASSUME BuildsInv, NamesAreDistinct,
         NEW c \in Collections, NEW i \in Ids, DeleteDocument(c, i)
  PROVE  BuildsInv'
<1> DEFINE old == UnindexStored(db, c, i)
<1>1. /\ db \in Tables /\ NoDoc \notin Bodies /\ NoBucket \notin SUBSET (Vals \X Ids)
      /\ db.docs[c][i] # NoDoc
  BY BuildTypes DEF BuildsInv, DeleteDocument
<1>2. /\ old \in Tables /\ old.docs = db.docs /\ old.indexed = db.indexed
      /\ old.building = db.building
      /\ \A b \in IndexBuckets :
           /\ db.idx[b] = NoBucket => old.idx[b] = NoBucket
           /\ db.idx[b] # NoBucket =>
                old.idx[b] = db.idx[b] \ IndexEntries(db, c, i, db.docs[c][i], b)
  BY <1>1, UnindexStoredWrites
<1>3. db' = [old EXCEPT !.docs[c][i] = NoDoc] /\ UNCHANGED builder
  BY DEF DeleteDocument
<1> HIDE DEF old
<1>4. /\ db' \in Tables /\ db'.docs = [db.docs EXCEPT ![c][i] = NoDoc]
      /\ db'.indexed = db.indexed /\ db'.building = db.building /\ db'.idx = old.idx
  <2>1. [old.docs EXCEPT ![c][i] = NoDoc] \in [Collections -> [Ids -> Bodies \cup {NoDoc}]]
    BY <1>2, TableFacts
  <2>2. db' = [old EXCEPT !.docs = [old.docs EXCEPT ![c][i] = NoDoc]]
    BY <1>3
  <2>3. \A t \in [Collections -> [Ids -> Bodies \cup {NoDoc}]] :
          [old EXCEPT !.docs = t] \in Tables
    BY <1>2 DEF Tables
  <2>4. db' \in Tables
    BY <2>1, <2>2, <2>3
  <2> QED
    BY <1>2, <2>2, <2>4 DEF Tables
<1>5. db.docs[c][i] \in Bodies
  BY <1>1, TableFacts
<1>6. ASSUME NEW o \in Collections, NEW g \in Fields, o # c
      PROVE  Bucket(o, g)' = Bucket(o, g)
  <2>1. PICK n \in IndexBuckets : n = IndexBucketName(o, g)
    BY <1>1, TableFacts
  <2>2. IndexEntries(db, c, i, db.docs[c][i], n) = {}
    BY <2>1, <1>1, <1>5, <1>6, EntriesOfDocument
  <2>3. db.idx[n] = NoBucket \/ db.idx[n] \in SUBSET (Vals \X Ids)
    BY <1>1, TableFacts
  <2>4. db'.idx[n] = db.idx[n]
    BY <2>2, <2>3, <1>2, <1>4
  <2> QED
    BY <2>1, <2>4 DEF Bucket
<1>7. ASSUME NEW g \in WritableFields(db, c)
      PROVE  /\ Bucket(c, g)' # NoBucket
             /\ Bucket(c, g)' = (Bucket(c, g) \ EntryOf(db.docs[c][i], g, i))
                                  \cup EntryOf(NoDoc, g, i)
  <2>1. g \in Fields /\ EntryOf(NoDoc, g, i) = {}
    BY <1>1, TableFacts DEF EntryOf
  <2>2. PICK n \in IndexBuckets : n = IndexBucketName(c, g)
    BY <2>1, <1>1, TableFacts
  <2>3. db.idx[n] # NoBucket /\ db.idx[n] \in SUBSET (Vals \X Ids)
    BY <2>2, <1>1, TableFacts DEF BuildsInv, WritableIsSound, Bucket
  <2>4. IndexEntries(db, c, i, db.docs[c][i], n) = EntryOf(db.docs[c][i], g, i)
    BY <2>1, <2>2, <1>1, <1>5, EntriesOfDocument
  <2>5. db'.idx[n] = db.idx[n] \ EntryOf(db.docs[c][i], g, i)
    BY <2>3, <2>4, <1>2, <1>4
  <2>6. db'.idx[n] # NoBucket
    BY <2>3, <2>5, <1>1
  <2> QED
    BY <2>1, <2>2, <2>5, <2>6 DEF Bucket
<1> QED
  BY <1>3, <1>4, <1>6, <1>7, DocumentChange

\* A batch reads on from the cursor and leaves nothing out up to its last id.
LEMMA NextIdsFacts ==
  ASSUME db \in Tables, NEW c \in Collections, NEW after \in Ids \cup {0}
  PROVE  LET ids == NextIds(c, after)
             last == LastRead(ids, after)
         IN  /\ ids \subseteq Ids /\ last \in Ids \cup {0}
             /\ \A i \in DocIds(db, c) : after < i /\ i <= last => i \in ids
<1> DEFINE ids == NextIds(c, after)
           last == LastRead(ids, after)
           rest == { i \in DocIds(db, c) : i > after }
<1>1. /\ Ids \in SUBSET (Nat \ {0}) /\ IsFiniteSet(Ids) /\ rest \in SUBSET Ids
      /\ DocIds(db, c) \subseteq Ids /\ BatchSize \in Nat \ {0}
  BY OrderAssumption, NamesAssumption, BuildAssumption DEF DocIds
<1>2. ids = Batch(rest, BatchSize) /\ last = Max(Batch(rest, BatchSize) \cup {after})
  BY DEF NextIds, Batch, LastRead
<1>3. rest = { i \in rest : i > after }
  OBVIOUS
<1>4. \A i \in DocIds(db, c) : i \in rest <=> i > after
  OBVIOUS
<1>5. ids \subseteq Ids
  BY <1>1 DEF NextIds
<1> HIDE DEF ids, last, rest
<1>6. last \in Ids \cup {0} /\ \A i \in rest : i <= last => i \in ids
  BY <1>1, <1>2, <1>3, CursorFacts
<1>7. ASSUME NEW i \in DocIds(db, c), after < i, i <= last PROVE i \in ids
  <2>1. i \in Ids /\ Ids \cup {0} \subseteq Nat
    BY <1>1
  <2>2. i \in Nat /\ after \in Nat
    BY <2>1
  <2> QED
    BY <2>2, <1>4, <1>6, <1>7
<1> QED
  BY <1>5, <1>6, <1>7 DEF ids, last

\* A step keeps what the build r has: its documents and its bucket.
LEMMA HoldsKept ==
  ASSUME NEW r \in BuildRecords, Holds(r),
         r.pc # "idle" => r.f \notin db'.indexed[r.c],
         r.pc # "idle" /\ IsBuilding(r.c, r.f)' =>
           /\ IsBuilding(r.c, r.f) /\ Bucket(r.c, r.f) \subseteq Bucket(r.c, r.f)'
           /\ db'.docs[r.c] = db.docs[r.c]
  PROVE  Holds(r)'
<1>1. ASSUME r.pc \in {"collect", "apply", "finish"}, IsBuilding(r.c, r.f)'
      PROVE  Covers(r)'
  <2>1. /\ Covers(r) /\ Bucket(r.c, r.f) \subseteq Bucket(r.c, r.f)'
        /\ db'.docs[r.c] = db.docs[r.c]
    BY <1>1 DEF Holds
  <2> QED
    BY <2>1 DEF Covers
<1> QED
  BY <1>1 DEF Holds

\* A step that leaves the documents and the buckets of the indexes it keeps.
LEMMA BucketsKept ==
  ASSUME WritableIsSound, CompletedIsFull,
         \A c \in Collections : \A f \in WritableFields(db', c) :
           /\ f \in WritableFields(db, c) /\ Bucket(c, f)' = Bucket(c, f)
           /\ db'.docs[c] = db.docs[c]
           /\ f \in db'.indexed[c] => f \in db.indexed[c]
  PROVE  WritableIsSound' /\ CompletedIsFull'
<1>1. WritableIsSound'
  BY DEF WritableIsSound
<1>2. CompletedIsFull'
  <2> SUFFICES ASSUME NEW c \in Collections, NEW f \in db'.indexed[c], NEW i \in Ids
               PROVE  EntryOf(db'.docs[c][i], f, i) \subseteq Bucket(c, f)'
    BY DEF CompletedIsFull
  <2>1. f \in WritableFields(db', c)
    BY DEF WritableFields
  <2>2. f \in db.indexed[c] /\ Bucket(c, f)' = Bucket(c, f) /\ db'.docs[c] = db.docs[c]
    BY <2>1
  <2> QED
    BY <2>2 DEF CompletedIsFull
<1> QED
  BY <1>1, <1>2

LEMMA BuildersMove ==
  ASSUME db' \in Tables, builder' \in [Builders -> BuildRecords],
         WritableIsSound', CompletedIsFull',
         \A a \in Builders, s \in BuildRecords : s = builder'[a] => Holds(s)'
  PROVE  BuildsInv'
<1>1. BuildsTypeOK'
  BY DEF BuildsTypeOK, BuildRecords
<1>2. ASSUME NEW a \in Builders PROVE Holds(builder[a])'
  <2>1. PICK s \in BuildRecords : s = builder'[a]
    OBVIOUS
  <2>2. Holds(s)'
    BY <2>1
  <2> QED
    BY <2>1, <2>2
<1> QED
  BY <1>1, <1>2 DEF BuildsInv

LEMMA NoBuildHolds ==
  /\ NoBuild \in BuildRecords /\ NoBuild.pc = "idle"
  /\ Holds(NoBuild) /\ Holds(NoBuild)'
<1>1. (CHOOSE c \in Collections : TRUE) \in Collections /\ (CHOOSE f \in Fields : TRUE) \in Fields
  BY BuildAssumption
<1>2. NoBuild \in BuildRecords /\ NoBuild.pc = "idle" /\ NoBuild.batch = {}
  BY <1>1 DEF NoBuild, BuildRecords, BuildSteps
<1> HIDE DEF NoBuild
<1> QED
  BY <1>2 DEF Holds

\* What is known of the builders in a state of the invariant.
LEMMA BuilderFacts ==
  ASSUME BuildsInv
  PROVE  /\ db \in Tables /\ builder \in [Builders -> BuildRecords]
         /\ \A a \in Builders, s \in BuildRecords : s = builder[a] => Holds(s)
         /\ WritableIsSound /\ CompletedIsFull
<1>1. \A a \in Builders : Holds(builder[a])
  BY DEF BuildsInv
<1>2. db \in Tables /\ builder \in [Builders -> BuildRecords]
  BY BuildTypes DEF BuildsInv
<1> QED
  BY <1>1, <1>2 DEF BuildsInv

LEMMA DeleteCollectionStep ==
  ASSUME BuildsInv, NamesAreDistinct, NEW c \in Collections, DeleteCollection(c)
  PROVE  BuildsInv'
<1>1. db \in Tables /\ builder \in [Builders -> BuildRecords] /\ builder' = builder
  BY BuilderFacts DEF DeleteCollection
<1> DEFINE gone == { IndexBucketName(c, f) : f \in WritableFields(db, c) }
           ttl == [k \in Collections \X Ids |-> IF k[1] = c THEN NoTTL ELSE db.ttlByDoc[k]]
           keys == { e \in db.ttlIndex : e[2] # c }
           markers == { m \in db.building : m[1] # c }
           idx == [b \in IndexBuckets |-> IF b \in gone THEN NoBucket ELSE db.idx[b]]
           docs == [db.docs EXCEPT ![c] = [i \in Ids |-> NoDoc]]
           count == [db.count EXCEPT ![c] = NoCount]
           indexed == [db.indexed EXCEPT ![c] = {}]
           names == db.exists \ {c}
<1>2. db' = [db EXCEPT !.exists = names, !.docs = docs, !.count = count, !.ttlByDoc = ttl,
                       !.ttlIndex = keys, !.indexed = indexed, !.building = markers,
                       !.idx = idx]
  BY DEF DeleteCollection, DropCollection
<1>3. /\ names \in SUBSET Collections
      /\ docs \in [Collections -> [Ids -> Bodies \cup {NoDoc}]]
      /\ count \in [Collections -> Nat \cup {NoCount}]
      /\ indexed \in [Collections -> SUBSET Fields]
      /\ markers \in SUBSET (Collections \X Fields)
      /\ keys \in SUBSET (Nat \X Collections \X Ids)
  BY <1>1 DEF Tables
<1>4. ttl \in [Collections \X Ids -> Nat \cup {NoTTL}]
  BY <1>1 DEF Tables
<1>5. idx \in [IndexBuckets -> (SUBSET (Vals \X Ids)) \cup {NoBucket}]
  BY <1>1, TableFacts
<1>6. /\ \A o \in Collections : o # c => docs[o] = db.docs[o]
      /\ \A o \in Collections : o # c => indexed[o] = db.indexed[o]
      /\ indexed[c] = {}
      /\ \A o \in Collections, f \in Fields :
           <<o, f>> \in markers <=> o # c /\ <<o, f>> \in db.building
      /\ \A b \in IndexBuckets : b \notin gone => idx[b] = db.idx[b]
  BY <1>1, TableFacts
<1>7. \A o \in Collections, f \in Fields : o # c => IndexBucketName(o, f) \notin gone
  <2>1. WritableFields(db, c) \subseteq Fields
    BY <1>1, TableFacts
  <2> QED
    BY <2>1 DEF NamesAreDistinct
<1> HIDE DEF gone, ttl, keys, markers, idx, docs, count, indexed, names
<1>8. db' \in Tables
  BY <1>1, <1>2, <1>3, <1>4, <1>5 DEF Tables
<1>9. /\ db'.docs = docs /\ db'.indexed = indexed /\ db'.building = markers /\ db'.idx = idx
  BY <1>1, <1>2 DEF Tables
<1>10. ASSUME NEW o \in Collections, NEW f \in Fields, o # c
       PROVE  Bucket(o, f)' = Bucket(o, f)
  <2>1. PICK n \in IndexBuckets : n = IndexBucketName(o, f)
    BY <1>1, TableFacts
  <2>2. idx[n] = db.idx[n]
    BY <2>1, <1>6, <1>7, <1>10
  <2> QED
    BY <2>1, <2>2, <1>9 DEF Bucket
<1>11. WritableIsSound' /\ CompletedIsFull'
  <2>1. ASSUME NEW o \in Collections, NEW f \in WritableFields(db', o)
        PROVE  /\ f \in WritableFields(db, o) /\ Bucket(o, f)' = Bucket(o, f)
               /\ db'.docs[o] = db.docs[o]
               /\ f \in db'.indexed[o] => f \in db.indexed[o]
    <3>1. f \in Fields
      BY <1>8, TableFacts
    <3>2. o # c
      BY <3>1, <1>6, <1>9 DEF WritableFields
    <3> QED
      BY <3>1, <3>2, <1>6, <1>9, <1>10 DEF WritableFields
  <2> QED
    BY <2>1, BucketsKept, BuilderFacts
<1>12. ASSUME NEW a \in Builders, NEW s \in BuildRecords, s = builder'[a]
       PROVE  Holds(s)'
  <2>1. Holds(s) /\ s.c \in Collections /\ s.f \in Fields
    BY <1>1, <1>12, BuilderFacts DEF BuildRecords
  <2>2. s.pc # "idle" => s.f \notin db'.indexed[s.c]
    BY <2>1, <1>6, <1>9 DEF Holds
  <2>3. IsBuilding(s.c, s.f)' => s.c # c /\ IsBuilding(s.c, s.f)
    BY <2>1, <1>6, <1>9 DEF IsBuilding
  <2> QED
    BY <2>1, <2>2, <2>3, <1>6, <1>9, <1>10, HoldsKept
<1> QED
  BY <1>1, <1>8, <1>11, <1>12, BuildersMove

LEMMA StartIndexBuildStep ==
  ASSUME BuildsInv, NamesAreDistinct, BuildsApart',
         NEW b \in Builders, NEW c \in Collections, NEW f \in Fields,
         StartIndexBuild(b, c, f)
  PROVE  BuildsInv'
<1>1. /\ db \in Tables /\ builder \in [Builders -> BuildRecords]
      /\ WritableIsSound /\ CompletedIsFull
      /\ \A a \in Builders, s \in BuildRecords : s = builder[a] => Holds(s)
      /\ f \notin db.indexed[c] /\ ~ IsBuilding(c, f)
      /\ NoBucket \notin SUBSET (Vals \X Ids) /\ Ids \subseteq Nat \ {0}
  BY BuilderFacts, BuildTypes DEF StartIndexBuild
<1>2. PICK n \in IndexBuckets : n = IndexBucketName(c, f)
  BY <1>1, TableFacts
<1> DEFINE markers == db.building \cup {<<c, f>>}
           idx == [db.idx EXCEPT ![n] = {}]
<1>3. PICK r : r = [NoBuild EXCEPT !.pc = "collect", !.c = c, !.f = f]
  OBVIOUS
<1>4. /\ r \in BuildRecords /\ r.pc = "collect" /\ r.c = c /\ r.f = f /\ r.after = 0
      /\ r.batch = {} /\ r.done = FALSE
  BY <1>3 DEF NoBuild, BuildRecords, BuildSteps
<1>5. builder' = [builder EXCEPT ![b] = r]
  BY <1>3 DEF StartIndexBuild
<1>6. /\ markers \in SUBSET (Collections \X Fields)
      /\ idx \in [IndexBuckets -> (SUBSET (Vals \X Ids)) \cup {NoBucket}]
      /\ db.indexed \in [Collections -> SUBSET Fields]
      /\ idx[n] = {} /\ \A k \in IndexBuckets : k # n => idx[k] = db.idx[k]
  BY <1>1, TableFacts
<1>7. db' = [db EXCEPT !.building = markers, !.idx = idx, !.indexed = db.indexed]
  BY <1>1, <1>2 DEF StartIndexBuild, Tables
<1> HIDE DEF markers, idx
<1>8. /\ db' \in Tables /\ db'.docs = db.docs /\ db'.building = markers
      /\ db'.idx = idx /\ db'.indexed = db.indexed
  BY <1>1, <1>6, <1>7 DEF Tables
<1>9. \A o \in Collections, g \in Fields :
        <<o, g>> \in db'.building <=> <<o, g>> \in db.building \/ (o = c /\ g = f)
  BY <1>8 DEF markers
<1>10. ASSUME NEW o \in Collections, NEW g \in Fields, o # c \/ g # f
       PROVE  Bucket(o, g)' = Bucket(o, g)
  <2>1. PICK k \in IndexBuckets : k = IndexBucketName(o, g)
    BY <1>1, TableFacts
  <2>2. k # n
    BY <2>1, <1>2, <1>10 DEF NamesAreDistinct
  <2> QED
    BY <2>1, <2>2, <1>6, <1>8 DEF Bucket
<1>11. Bucket(c, f)' = {}
  BY <1>2, <1>6, <1>8 DEF Bucket
<1>12. ASSUME NEW o \in Collections, NEW g \in WritableFields(db', o)
       PROVE  /\ g \in Fields
              /\ (o = c /\ g = f) \/ g \in WritableFields(db, o)
  <2>1. g \in Fields
    BY <1>8, TableFacts
  <2> QED
    BY <2>1, <1>8, <1>9 DEF WritableFields
<1>13. WritableIsSound'
  <2> SUFFICES ASSUME NEW o \in Collections, NEW g \in WritableFields(db', o)
               PROVE  /\ Bucket(o, g)' # NoBucket
                      /\ \A e \in Bucket(o, g)' :
                           \E i \in Ids : e \in EntryOf(db'.docs[o][i], g, i)
    BY DEF WritableIsSound
  <2>1. CASE o = c /\ g = f
    BY <2>1, <1>1, <1>11
  <2>2. CASE ~ (o = c /\ g = f)
    <3>1. g \in WritableFields(db, o) /\ Bucket(o, g)' = Bucket(o, g)
      BY <2>2, <1>10, <1>12
    <3> QED
      BY <3>1, <1>1, <1>8 DEF WritableIsSound
  <2> QED
    BY <2>1, <2>2
<1>14. CompletedIsFull'
  <2> SUFFICES ASSUME NEW o \in Collections, NEW g \in db.indexed[o], NEW i \in Ids
               PROVE  EntryOf(db.docs[o][i], g, i) \subseteq Bucket(o, g)'
    BY <1>8 DEF CompletedIsFull
  <2>1. g \in Fields /\ (o # c \/ g # f)
    BY <1>1, TableFacts
  <2> QED
    BY <2>1, <1>1, <1>10 DEF CompletedIsFull
<1>15. Holds(r)'
  <2>1. ~ Covers(r)' => FALSE
    <3> SUFFICES ASSUME NEW i \in Ids PROVE ~ (i <= 0)
      BY <1>4 DEF Covers
    <3>1. i \in Nat \ {0}
      BY <1>1
    <3> QED
      BY <3>1
  <2> QED
    BY <2>1, <1>1, <1>4, <1>8 DEF Holds
<1>16. ASSUME NEW a \in Builders, NEW s \in BuildRecords, s = builder'[a]
       PROVE  Holds(s)'
  <2>1. CASE a = b
    BY <2>1, <1>1, <1>5, <1>15, <1>16
  <2>2. CASE a # b
    <3>1. s = builder[a] /\ builder'[b] = r
      BY <2>2, <1>1, <1>5, <1>16
    <3>2. Holds(s) /\ s.c \in Collections /\ s.f \in Fields
      BY <3>1, <1>1 DEF BuildRecords
    <3>3. s.pc # "idle" => <<s.c, s.f>> # <<c, f>>
      BY <2>2, <3>1, <1>4, <1>16 DEF BuildsApart
    <3>4. s.pc # "idle" => Bucket(s.c, s.f)' = Bucket(s.c, s.f)
      BY <3>2, <3>3, <1>10
    <3>5. s.pc # "idle" /\ IsBuilding(s.c, s.f)' => IsBuilding(s.c, s.f)
      BY <3>2, <3>3, <1>9 DEF IsBuilding
    <3>6. s.pc # "idle" => s.f \notin db'.indexed[s.c]
      BY <3>2, <1>8 DEF Holds
    <3> QED
      BY <3>2, <3>4, <3>5, <3>6, <1>8, HoldsKept
  <2> QED
    BY <2>1, <2>2
<1>17. builder' \in [Builders -> BuildRecords]
  BY <1>1, <1>4, <1>5
<1> QED
  BY <1>8, <1>13, <1>14, <1>16, <1>17, BuildersMove

\* One build goes on and the file is left alone.
LEMMA BuildGoesOn ==
  ASSUME BuildsInv, UNCHANGED db, NEW b \in Builders, NEW r \in BuildRecords,
         builder' = [builder EXCEPT ![b] = r], Holds(r)
  PROVE  BuildsInv'
<1>1. /\ db \in Tables /\ builder \in [Builders -> BuildRecords]
      /\ WritableIsSound /\ CompletedIsFull
      /\ \A a \in Builders, s \in BuildRecords : s = builder[a] => Holds(s)
  BY BuilderFacts
<1>2. WritableIsSound' /\ CompletedIsFull'
  BY <1>1 DEF WritableIsSound, CompletedIsFull, Bucket, WritableFields
<1>3. ASSUME NEW s \in BuildRecords, Holds(s) PROVE Holds(s)'
  BY <1>3 DEF Holds, Covers, IsBuilding, Bucket
<1>4. ASSUME NEW a \in Builders, NEW s \in BuildRecords, s = builder'[a] PROVE Holds(s)'
  <2>1. s = r \/ s = builder[a]
    BY <1>1, <1>4
  <2> QED
    BY <2>1, <1>1, <1>3
<1> QED
  BY <1>1, <1>2, <1>4, BuildersMove

LEMMA CancelStep ==
  ASSUME BuildsInv, NEW b \in Builders, Cancel(b)
  PROVE  BuildsInv'
<1>1. PICK s \in BuildRecords : s = builder[b]
  BY BuilderFacts
<1>2. PICK r : r = [s EXCEPT !.batch = {}, !.pc = "abort"]
  OBVIOUS
<1>3. /\ r \in BuildRecords /\ r.pc = "abort" /\ r.batch = {} /\ r.c = s.c /\ r.f = s.f
  BY <1>2 DEF BuildRecords, BuildSteps
<1>4. Holds(s) /\ s.pc # "idle"
  BY <1>1, BuilderFacts DEF Cancel
<1>5. Holds(r)
  BY <1>3, <1>4 DEF Holds
<1>6. builder' = [builder EXCEPT ![b] = r] /\ UNCHANGED db
  BY <1>1, <1>2, BuilderFacts DEF Cancel
<1> QED
  BY <1>3, <1>5, <1>6, BuildGoesOn

LEMMA AbandonStep ==
  ASSUME BuildsInv, NEW b \in Builders, Abandon(b)
  PROVE  BuildsInv'
BY NoBuildHolds, BuildGoesOn DEF Abandon

LEMMA CollectBatchStep ==
  ASSUME BuildsInv, NEW b \in Builders, CollectBatch(b)
  PROVE  BuildsInv'
<1>1. PICK s \in BuildRecords : s = builder[b]
  BY BuilderFacts
<1>2. /\ Holds(s) /\ s.pc = "collect" /\ s.batch = {} /\ s.c \in Collections
      /\ s.f \in Fields /\ s.after \in Ids \cup {0} /\ s.f \notin db.indexed[s.c]
      /\ db \in Tables /\ Ids \subseteq Nat \ {0} /\ NoDoc \notin Bodies
  BY <1>1, BuilderFacts, BuildTypes DEF CollectBatch, Holds, BuildRecords
<1> DEFINE c == builder[b].c
           ids == NextIds(c, builder[b].after)
           batch == { [id |-> i, body |-> db.docs[c][i]] : i \in
                        { j \in ids : db.docs[c][j][builder[b].f] # Absent } }
           last == LastRead(ids, builder[b].after)
           done == \A i \in DocIds(db, c) : i <= last
           step == IF c \notin db.exists THEN "abort"
                   ELSE IF batch # {} THEN "apply"
                   ELSE IF done THEN "finish" ELSE "collect"
<1>3. PICK r : r = [builder[b] EXCEPT !.after = last, !.batch = batch, !.done = done,
                                      !.pc = step]
  OBVIOUS
<1>a. builder' = [builder EXCEPT ![b] =
          [@ EXCEPT !.after = last, !.batch = batch, !.done = done, !.pc = step]]
      /\ UNCHANGED db
  BY DEF CollectBatch
<1>4. builder' = [builder EXCEPT ![b] = r] /\ UNCHANGED db
  <2> HIDE DEF ids, batch, last, done, step
  <2> QED
    BY <1>a, <1>3, BuilderFacts
<1>5. /\ ids \subseteq DocIds(db, s.c) /\ last \in Ids \cup {0}
      /\ \A i \in DocIds(db, s.c) : s.after < i /\ i <= last => i \in ids
  <2>1. ids = NextIds(s.c, s.after) /\ last = LastRead(ids, s.after)
    BY <1>1
  <2>2. ids \subseteq DocIds(db, s.c)
    BY <1>1 DEF NextIds
  <2> HIDE DEF ids, last
  <2> QED
    BY <2>1, <2>2, <1>2, NextIdsFacts
<1>6. batch \in SUBSET Entries
  <2> HIDE DEF ids
  <2>1. ASSUME NEW i \in ids PROVE i \in Ids /\ db.docs[s.c][i] \in Bodies
    <3>1. i \in Ids /\ db.docs[s.c][i] # NoDoc
      BY <1>5 DEF DocIds
    <3> QED
      BY <3>1, <1>2, TableFacts
  <2> QED
    BY <2>1, <1>1 DEF Entries
<1>7. \A e \in batch : e.body[s.f] # Absent
  BY <1>1
<1>8. \A i \in ids : \/ db.docs[s.c][i][s.f] = Absent
                     \/ [id |-> i, body |-> db.docs[s.c][i]] \in batch
  BY <1>1
<1>9. /\ step \in BuildSteps /\ step # "idle" /\ done \in BOOLEAN
      /\ step = "finish" => done
      /\ step \notin {"apply", "abort"} => batch = {}
  BY DEF BuildSteps
<1>10. done => \A i \in DocIds(db, s.c) : i <= last
  BY <1>1
<1> HIDE DEF ids, batch, last, done, step
<1>b. r = [s EXCEPT !.after = last, !.batch = batch, !.done = done, !.pc = step]
  BY <1>1, <1>3
<1>11. /\ r.after = last /\ r.batch = batch /\ r.done = done /\ r.pc = step
       /\ r.c = s.c /\ r.f = s.f /\ r \in BuildRecords
  BY <1>b, <1>5, <1>6, <1>9 DEF BuildRecords
<1>12. ASSUME IsBuilding(r.c, r.f) PROVE Covers(r)
  <2>1. Covers(s)
    BY <1>2, <1>11, <1>12 DEF Holds
  <2> SUFFICES ASSUME NEW i \in Ids, i <= last \/ done
               PROVE  \/ EntryOf(db.docs[s.c][i], s.f, i) \subseteq Bucket(s.c, s.f)
                      \/ [id |-> i, body |-> db.docs[s.c][i]] \in batch
    BY <1>11 DEF Covers
  <2>2. CASE i \notin DocIds(db, s.c)
    BY <2>2 DEF DocIds, EntryOf
  <2>3. CASE i <= s.after
    BY <2>1, <2>3, <1>2 DEF Covers
  <2>4. CASE i \in DocIds(db, s.c) /\ ~ (i <= s.after)
    <3>0. Ids \cup {0} \subseteq Nat
      BY <1>2
    <3>1. i \in Nat /\ s.after \in Nat
      BY <1>2, <3>0
    <3>2. s.after < i
      BY <2>4, <3>1
    <3>3. i \in ids
      BY <2>4, <3>2, <1>5, <1>10
    <3> QED
      BY <3>3, <1>8 DEF EntryOf
  <2> QED
    BY <2>2, <2>3, <2>4
<1>13. Holds(r)
  BY <1>2, <1>7, <1>9, <1>11, <1>12 DEF Holds
<1> QED
  BY <1>4, <1>11, <1>13, BuildGoesOn

LEMMA ApplyBatchStep ==
  ASSUME BuildsInv, NamesAreDistinct, NEW b \in Builders, ApplyBatch(b)
  PROVE  BuildsInv'
<1>1. PICK s \in BuildRecords : s = builder[b]
  BY BuilderFacts
<1>2. /\ Holds(s) /\ s.pc = "apply" /\ s.c \in Collections /\ s.f \in Fields
      /\ s.f \notin db.indexed[s.c] /\ s.batch \in SUBSET Entries /\ s.done \in BOOLEAN
      /\ \A e \in s.batch : e.body[s.f] # Absent
      /\ db \in Tables /\ builder \in [Builders -> BuildRecords] /\ NoDoc \notin Bodies
      /\ NoBucket \notin SUBSET (Vals \X Ids)
      /\ \A a \in Builders, t \in BuildRecords : t = builder[a] => Holds(t)
      /\ WritableIsSound /\ CompletedIsFull
  BY <1>1, BuilderFacts, BuildTypes DEF ApplyBatch, Holds, BuildRecords
<1>3. CASE ~ (IsBuilding(s.c, s.f) /\ s.c \in db.exists /\ Bucket(s.c, s.f) # NoBucket)
  <2>1. PICK r : r = [s EXCEPT !.batch = {}, !.pc = "abort"]
    OBVIOUS
  <2>2. /\ r \in BuildRecords /\ r.pc = "abort" /\ r.batch = {} /\ r.c = s.c /\ r.f = s.f
    BY <2>1 DEF BuildRecords, BuildSteps
  <2>3. Holds(r)
    BY <2>2, <1>2 DEF Holds
  <2>4. builder' = [builder EXCEPT ![b] = r] /\ UNCHANGED db
    BY <2>1, <1>1, <1>2, <1>3 DEF ApplyBatch
  <2> QED
    BY <2>2, <2>3, <2>4, BuildGoesOn
<1>4. CASE IsBuilding(s.c, s.f) /\ s.c \in db.exists /\ Bucket(s.c, s.f) # NoBucket
  <2>1. PICK n \in IndexBuckets : n = IndexBucketName(s.c, s.f)
    BY <1>2, TableFacts
  <2> DEFINE found == { <<e.body[builder[b].f], e.id>> :
                           e \in Unchanged(builder[b].c, builder[b].batch) }
             idx == [db.idx EXCEPT ![n] = @ \cup found]
  <2>a. found = { <<e.body[s.f], e.id>> : e \in Unchanged(s.c, s.batch) }
    BY <1>1
  <2>b. db' = [db EXCEPT !.idx[n] = @ \cup found]
    <3>1. db' = [db EXCEPT !.idx[IndexBucketName(builder[b].c, builder[b].f)] = @ \cup found]
      BY <1>1, <1>4 DEF ApplyBatch
    <3> QED
      BY <3>1, <2>1, <1>1
  <2> HIDE DEF found
  <2>2. PICK r : r = [s EXCEPT !.batch = {}, !.pc = IF s.done THEN "finish" ELSE "collect"]
    OBVIOUS
  <2>3. /\ r \in BuildRecords /\ r.batch = {} /\ r.c = s.c /\ r.f = s.f
        /\ r.after = s.after /\ r.done = s.done /\ r.pc \in {"finish", "collect"}
        /\ r.pc = "finish" <=> s.done
    BY <2>2, <1>2 DEF BuildRecords, BuildSteps
  <2>4. builder' = [builder EXCEPT ![b] = r]
    BY <2>2, <1>1, <1>2, <1>4 DEF ApplyBatch
  <2>5. found \subseteq Vals \X Ids
    <3>1. ASSUME NEW e \in s.batch PROVE <<e.body[s.f], e.id>> \in Vals \X Ids
      <4>1. e \in Entries /\ e.body[s.f] # Absent
        BY <1>2
      <4> QED
        BY <4>1, <1>2 DEF Entries, Bodies
    <3> QED
      BY <3>1, <2>a DEF Unchanged
  <2>6. /\ db.idx[n] \in SUBSET (Vals \X Ids) /\ Bucket(s.c, s.f) = db.idx[n]
        /\ db.indexed \in [Collections -> SUBSET Fields]
        /\ db.building \in SUBSET (Collections \X Fields)
    BY <2>1, <1>2, <1>4, TableFacts DEF Bucket
  <2>7. /\ idx \in [IndexBuckets -> (SUBSET (Vals \X Ids)) \cup {NoBucket}]
        /\ idx[n] = db.idx[n] \cup found
        /\ \A k \in IndexBuckets : k # n => idx[k] = db.idx[k]
    <3>1. db.idx \in [IndexBuckets -> (SUBSET (Vals \X Ids)) \cup {NoBucket}]
      BY <1>2, TableFacts
    <3> QED
      BY <3>1, <2>5, <2>6
  <2>8. db' = [db EXCEPT !.building = db.building, !.idx = idx, !.indexed = db.indexed]
    BY <2>b, <1>2 DEF Tables
  <2>9. \A e \in found : \E i \in Ids : e \in EntryOf(db.docs[s.c][i], s.f, i)
    <3> SUFFICES ASSUME NEW e \in s.batch, db.docs[s.c][e.id] = e.body
                 PROVE  \E i \in Ids : <<e.body[s.f], e.id>> \in EntryOf(db.docs[s.c][i], s.f, i)
      BY <2>a DEF Unchanged
    <3>1. e.id \in Ids /\ e.body # NoDoc /\ e.body[s.f] # Absent
      BY <1>2 DEF Entries
    <3> QED
      BY <3>1 DEF EntryOf
  <2>10. ASSUME NEW i \in Ids, [id |-> i, body |-> db.docs[s.c][i]] \in s.batch
         PROVE  EntryOf(db.docs[s.c][i], s.f, i) \subseteq found
    <3>1. PICK e \in s.batch : e.id = i /\ e.body = db.docs[s.c][i]
      BY <2>10
    <3>2. e \in Unchanged(s.c, s.batch)
      BY <3>1 DEF Unchanged
    <3>3. <<db.docs[s.c][i][s.f], i>> \in found
      BY <3>1, <3>2, <2>a
    <3> QED
      BY <3>3 DEF EntryOf
  <2> HIDE DEF idx
  <2>11. /\ db' \in Tables /\ db'.docs = db.docs /\ db'.building = db.building
         /\ db'.idx = idx /\ db'.indexed = db.indexed
    BY <2>6, <2>7, <2>8, <1>2 DEF Tables
  <2>12. Bucket(s.c, s.f)' = Bucket(s.c, s.f) \cup found
    BY <2>1, <2>6, <2>7, <2>11 DEF Bucket
  <2>13. ASSUME NEW o \in Collections, NEW g \in Fields, o # s.c \/ g # s.f
         PROVE  Bucket(o, g)' = Bucket(o, g)
    <3>1. PICK k \in IndexBuckets : k = IndexBucketName(o, g)
      BY <1>2, TableFacts
    <3>2. k # n
      BY <3>1, <2>1, <2>13, <1>2 DEF NamesAreDistinct
    <3> QED
      BY <3>1, <3>2, <2>7, <2>11 DEF Bucket
  <2>14. \A o \in Collections, g \in Fields : Bucket(o, g) # NoBucket =>
           Bucket(o, g) \subseteq Bucket(o, g)' /\ Bucket(o, g)' # NoBucket
    <3>1. Bucket(s.c, s.f)' # NoBucket
      BY <2>5, <2>6, <2>12, <1>2
    <3> QED
      BY <3>1, <2>12, <2>13
  <2>15. \A o \in Collections : WritableFields(db', o) = WritableFields(db, o)
    BY <2>11 DEF WritableFields
  <2>16. WritableIsSound'
    <3> SUFFICES ASSUME NEW o \in Collections, NEW g \in WritableFields(db, o)
                 PROVE  /\ Bucket(o, g)' # NoBucket
                        /\ \A e \in Bucket(o, g)' :
                             \E i \in Ids : e \in EntryOf(db.docs[o][i], g, i)
      BY <2>11, <2>15 DEF WritableIsSound
    <3>1. /\ g \in Fields /\ Bucket(o, g) # NoBucket
          /\ \A e \in Bucket(o, g) : \E i \in Ids : e \in EntryOf(db.docs[o][i], g, i)
      BY <1>2, TableFacts DEF WritableIsSound
    <3>2. CASE o = s.c /\ g = s.f
      <4>1. \A e \in Bucket(o, g)' : e \in Bucket(o, g) \/ e \in found
        BY <3>2, <2>12
      <4> QED
        BY <4>1, <3>1, <3>2, <2>9, <2>14
    <3>3. CASE ~ (o = s.c /\ g = s.f)
      BY <3>1, <3>3, <2>13
    <3> QED
      BY <3>2, <3>3
  <2>17. CompletedIsFull'
    <3> SUFFICES ASSUME NEW o \in Collections, NEW g \in db.indexed[o], NEW i \in Ids
                 PROVE  EntryOf(db.docs[o][i], g, i) \subseteq Bucket(o, g)'
      BY <2>11 DEF CompletedIsFull
    <3>1. g \in Fields /\ (o # s.c \/ g # s.f)
      BY <1>2, TableFacts
    <3> QED
      BY <3>1, <1>2, <2>13 DEF CompletedIsFull
  <2>18. Holds(r)'
    <3>1. Covers(s)
      BY <1>2, <1>4 DEF Holds
    <3>2. Covers(r)'
      <4> SUFFICES ASSUME NEW i \in Ids, i <= s.after \/ s.done
                   PROVE  EntryOf(db.docs[s.c][i], s.f, i) \subseteq Bucket(s.c, s.f)'
        BY <2>3, <2>11 DEF Covers
      <4>1. \/ EntryOf(db.docs[s.c][i], s.f, i) \subseteq Bucket(s.c, s.f)
            \/ [id |-> i, body |-> db.docs[s.c][i]] \in s.batch
        BY <3>1, <1>2 DEF Covers
      <4> QED
        BY <4>1, <2>10, <2>12
    <3> QED
      BY <3>2, <2>3, <2>11, <1>2 DEF Holds
  <2>19. ASSUME NEW a \in Builders, NEW t \in BuildRecords, t = builder'[a]
         PROVE  Holds(t)'
    <3>1. CASE a = b
      BY <3>1, <1>2, <2>4, <2>18, <2>19
    <3>2. CASE a # b
      <4>1. Holds(t) /\ t.c \in Collections /\ t.f \in Fields
        BY <3>2, <1>2, <2>4, <2>19 DEF BuildRecords
      <4>2. t.pc # "idle" => t.f \notin db'.indexed[t.c]
        BY <4>1, <2>11 DEF Holds
      <4>3. IsBuilding(t.c, t.f)' => IsBuilding(t.c, t.f) /\ t.f \in WritableFields(db, t.c)
        BY <4>1, <2>11 DEF IsBuilding, WritableFields
      <4>4. IsBuilding(t.c, t.f)' => Bucket(t.c, t.f) \subseteq Bucket(t.c, t.f)'
        BY <4>1, <4>3, <2>14, <1>2 DEF WritableIsSound
      <4> QED
        BY <4>1, <4>2, <4>3, <4>4, <2>11, HoldsKept
    <3> QED
      BY <3>1, <3>2
  <2>20. builder' \in [Builders -> BuildRecords]
    BY <1>2, <2>3, <2>4
  <2> QED
    BY <2>11, <2>16, <2>17, <2>19, <2>20, BuildersMove
<1> QED
  BY <1>3, <1>4

LEMMA FinishIndexBuildStep ==
  ASSUME BuildsInv, BuildsApart, NEW b \in Builders, FinishIndexBuild(b)
  PROVE  BuildsInv'
<1>1. PICK s \in BuildRecords : s = builder[b]
  BY BuilderFacts
<1>2. /\ Holds(s) /\ s.pc = "finish" /\ s.c \in Collections /\ s.f \in Fields
      /\ s.f \notin db.indexed[s.c] /\ s.batch = {} /\ s.done
      /\ db \in Tables /\ builder \in [Builders -> BuildRecords]
      /\ \A a \in Builders, t \in BuildRecords : t = builder[a] => Holds(t)
      /\ WritableIsSound /\ CompletedIsFull
  BY <1>1, BuilderFacts DEF FinishIndexBuild, Holds, BuildRecords
<1>3. CASE ~ (IsBuilding(s.c, s.f) /\ s.c \in db.exists)
  <2>1. PICK r : r = [s EXCEPT !.pc = "abort"]
    OBVIOUS
  <2>2. /\ r \in BuildRecords /\ r.pc = "abort" /\ r.batch = {} /\ r.c = s.c /\ r.f = s.f
    BY <2>1, <1>2 DEF BuildRecords, BuildSteps
  <2>3. Holds(r)
    BY <2>2, <1>2 DEF Holds
  <2>4. builder' = [builder EXCEPT ![b] = r] /\ UNCHANGED db
    BY <2>1, <1>1, <1>2, <1>3 DEF FinishIndexBuild
  <2> QED
    BY <2>2, <2>3, <2>4, BuildGoesOn
<1>4. CASE IsBuilding(s.c, s.f) /\ s.c \in db.exists
  <2> DEFINE indexed == [db.indexed EXCEPT ![s.c] = @ \cup {s.f}]
             markers == db.building \ {<<s.c, s.f>>}
  <2>1. db' = [db EXCEPT !.indexed = indexed, !.building = markers]
    BY <1>1, <1>2, <1>4 DEF FinishIndexBuild, Tables
  <2>2. /\ indexed \in [Collections -> SUBSET Fields]
        /\ markers \in SUBSET (Collections \X Fields)
        /\ \A o \in Collections, g \in Fields :
             /\ g \in indexed[o] <=> g \in db.indexed[o] \/ (o = s.c /\ g = s.f)
             /\ <<o, g>> \in markers <=> <<o, g>> \in db.building /\ ~ (o = s.c /\ g = s.f)
    BY <1>2, TableFacts
  <2> HIDE DEF indexed, markers
  <2>3. /\ db' \in Tables /\ db'.docs = db.docs /\ db'.building = markers
        /\ db'.idx = db.idx /\ db'.indexed = indexed
    BY <2>1, <2>2, <1>2 DEF Tables
  <2>4. builder' = [builder EXCEPT ![b] = NoBuild]
    BY <1>1, <1>4 DEF FinishIndexBuild
  <2>5. \A o \in Collections, g \in Fields : Bucket(o, g)' = Bucket(o, g)
    BY <2>3 DEF Bucket
  <2>6. \A o \in Collections : \A g \in WritableFields(db', o) : g \in WritableFields(db, o)
    <3> SUFFICES ASSUME NEW o \in Collections, NEW g \in WritableFields(db', o)
                 PROVE  g \in WritableFields(db, o)
      OBVIOUS
    <3>1. g \in Fields
      BY <2>3, TableFacts
    <3> QED
      BY <3>1, <2>2, <2>3, <1>4 DEF WritableFields, IsBuilding
  <2>7. WritableIsSound'
    <3> SUFFICES ASSUME NEW o \in Collections, NEW g \in WritableFields(db', o)
                 PROVE  /\ Bucket(o, g)' # NoBucket
                        /\ \A e \in Bucket(o, g)' :
                             \E i \in Ids : e \in EntryOf(db.docs[o][i], g, i)
      BY <2>3 DEF WritableIsSound
    <3>1. g \in Fields /\ g \in WritableFields(db, o)
      BY <2>3, <2>6, TableFacts
    <3> QED
      BY <3>1, <2>5, <1>2 DEF WritableIsSound
  <2>8. CompletedIsFull'
    <3> SUFFICES ASSUME NEW o \in Collections, NEW g \in indexed[o], NEW i \in Ids
                 PROVE  EntryOf(db.docs[o][i], g, i) \subseteq Bucket(o, g)
      BY <2>2, <2>3, <2>5 DEF CompletedIsFull
    <3>1. g \in Fields
      BY <2>2
    <3>2. CASE g \in db.indexed[o]
      BY <3>2, <1>2 DEF CompletedIsFull
    <3>3. CASE o = s.c /\ g = s.f
      BY <3>3, <1>2, <1>4 DEF Holds, Covers
    <3> QED
      BY <3>1, <3>2, <3>3, <2>2
  <2>9. ASSUME NEW a \in Builders, NEW t \in BuildRecords, t = builder'[a]
        PROVE  Holds(t)'
    <3>1. CASE a = b
      BY <3>1, <1>2, <2>4, <2>9, NoBuildHolds
    <3>2. CASE a # b
      <4>1. Holds(t) /\ t.c \in Collections /\ t.f \in Fields /\ t = builder[a]
        BY <3>2, <1>2, <2>4, <2>9 DEF BuildRecords
      <4>2. t.pc # "idle" => <<t.c, t.f>> # <<s.c, s.f>>
        BY <3>2, <4>1, <1>1, <1>2 DEF BuildsApart
      <4>3. t.pc # "idle" => t.f \notin db'.indexed[t.c]
        BY <4>1, <4>2, <2>2, <2>3 DEF Holds
      <4>4. IsBuilding(t.c, t.f)' => IsBuilding(t.c, t.f)
        BY <4>1, <2>2, <2>3 DEF IsBuilding
      <4> QED
        BY <4>1, <4>3, <4>4, <2>3, <2>5, HoldsKept
    <3> QED
      BY <3>1, <3>2
  <2>10. builder' \in [Builders -> BuildRecords]
    BY <1>2, <2>4, NoBuildHolds
  <2> QED
    BY <2>3, <2>7, <2>8, <2>9, <2>10, BuildersMove
<1> QED
  BY <1>3, <1>4

\* An index is taken away: its marker, its bucket and, where it is completed,
\* its field.  The build b, if any, is over.
LEMMA IndexTakenAway ==
  ASSUME BuildsInv, NamesAreDistinct, NEW c \in Collections, NEW f \in Fields,
         NEW indexed \in [Collections -> SUBSET Fields],
         \A o \in Collections, g \in Fields :
           g \in indexed[o] => g \in db.indexed[o] /\ ~ (o = c /\ g = f),
         db' = [WithoutIndex(c, f) EXCEPT !.indexed = indexed],
         builder' \in [Builders -> BuildRecords],
         \A a \in Builders : builder'[a] = builder[a] \/ builder'[a] = NoBuild
  PROVE  BuildsInv'
<1>1. /\ db \in Tables /\ builder \in [Builders -> BuildRecords]
      /\ WritableIsSound /\ CompletedIsFull
      /\ \A a \in Builders, s \in BuildRecords : s = builder[a] => Holds(s)
  BY BuilderFacts
<1>2. PICK n \in IndexBuckets : n = IndexBucketName(c, f)
  BY <1>1, TableFacts
<1> DEFINE markers == db.building \ {<<c, f>>}
           idx == [db.idx EXCEPT ![n] = NoBucket]
<1>3. db' = [db EXCEPT !.building = markers, !.idx = idx, !.indexed = indexed]
  BY <1>1, <1>2 DEF WithoutIndex, Tables
<1>4. /\ markers \in SUBSET (Collections \X Fields)
      /\ idx \in [IndexBuckets -> (SUBSET (Vals \X Ids)) \cup {NoBucket}]
      /\ \A k \in IndexBuckets : k # n => idx[k] = db.idx[k]
      /\ \A o \in Collections, g \in Fields :
           <<o, g>> \in markers <=> <<o, g>> \in db.building /\ ~ (o = c /\ g = f)
  BY <1>1, TableFacts
<1> HIDE DEF markers, idx
<1>5. /\ db' \in Tables /\ db'.docs = db.docs /\ db'.building = markers
      /\ db'.idx = idx /\ db'.indexed = indexed
  BY <1>1, <1>3, <1>4, ZenonT(60) DEF Tables
<1>6. ASSUME NEW o \in Collections, NEW g \in Fields, o # c \/ g # f
      PROVE  Bucket(o, g)' = Bucket(o, g)
  <2>1. PICK k \in IndexBuckets : k = IndexBucketName(o, g)
    BY <1>1, TableFacts
  <2>2. k # n
    BY <2>1, <1>2, <1>6 DEF NamesAreDistinct
  <2> QED
    BY <2>1, <2>2, <1>4, <1>5 DEF Bucket
<1>7. WritableIsSound' /\ CompletedIsFull'
  <2>1. ASSUME NEW o \in Collections, NEW g \in WritableFields(db', o)
        PROVE  /\ g \in WritableFields(db, o) /\ Bucket(o, g)' = Bucket(o, g)
               /\ db'.docs[o] = db.docs[o]
               /\ g \in db'.indexed[o] => g \in db.indexed[o]
    <3>1. g \in Fields
      BY <1>5, TableFacts
    <3>2. ~ (o = c /\ g = f) /\ g \in WritableFields(db, o)
      BY <3>1, <1>4, <1>5 DEF WritableFields
    <3> QED
      BY <3>1, <3>2, <1>5, <1>6
  <2> QED
    BY <2>1, <1>1, BucketsKept
<1>8. ASSUME NEW a \in Builders, NEW s \in BuildRecords, s = builder'[a]
      PROVE  Holds(s)'
  <2>1. CASE s = NoBuild
    BY <2>1, NoBuildHolds
  <2>2. CASE s = builder[a]
    <3>1. Holds(s) /\ s.c \in Collections /\ s.f \in Fields
      BY <2>2, <1>1 DEF BuildRecords
    <3>2. s.pc # "idle" => s.f \notin db'.indexed[s.c]
      BY <3>1, <1>5 DEF Holds
    <3>3. IsBuilding(s.c, s.f)' => IsBuilding(s.c, s.f) /\ ~ (s.c = c /\ s.f = f)
      BY <3>1, <1>4, <1>5 DEF IsBuilding
    <3> QED
      BY <3>1, <3>2, <3>3, <1>5, <1>6, HoldsKept
  <2> QED
    BY <2>1, <2>2, <1>8
<1> QED
  BY <1>5, <1>7, <1>8, BuildersMove

LEMMA AbortIndexBuildStep ==
  ASSUME BuildsInv, NamesAreDistinct, NEW b \in Builders, AbortIndexBuild(b)
  PROVE  BuildsInv'
<1>1. PICK s \in BuildRecords : s = builder[b]
  BY BuilderFacts
<1>2. /\ Holds(s) /\ s.pc = "abort" /\ s.c \in Collections /\ s.f \in Fields
      /\ s.f \notin db.indexed[s.c]
      /\ db \in Tables /\ builder \in [Builders -> BuildRecords]
  BY <1>1, BuilderFacts DEF AbortIndexBuild, Holds, BuildRecords
<1>3. db' = WithoutIndex(s.c, s.f) /\ builder' = [builder EXCEPT ![b] = NoBuild]
  BY <1>1 DEF AbortIndexBuild
<1>4. db' = [WithoutIndex(s.c, s.f) EXCEPT !.indexed = db.indexed]
  BY <1>2, <1>3 DEF WithoutIndex, Tables
<1>5. /\ db.indexed \in [Collections -> SUBSET Fields]
      /\ builder' \in [Builders -> BuildRecords]
      /\ \A a \in Builders : builder'[a] = builder[a] \/ builder'[a] = NoBuild
  BY <1>2, <1>3, TableFacts, NoBuildHolds
<1>6. \A o \in Collections, g \in Fields :
        g \in db.indexed[o] => g \in db.indexed[o] /\ ~ (o = s.c /\ g = s.f)
  BY <1>2
<1> QED
  BY <1>2, <1>4, <1>5, <1>6, IndexTakenAway

LEMMA DeleteIndexStep ==
  ASSUME BuildsInv, NamesAreDistinct, NEW c \in Collections, NEW f \in Fields,
         DeleteIndex(c, f)
  PROVE  BuildsInv'
<1> DEFINE indexed == [db.indexed EXCEPT ![c] = @ \ {f}]
<1>1. db \in Tables /\ builder \in [Builders -> BuildRecords] /\ builder' = builder
  BY BuilderFacts DEF DeleteIndex
<1>2. db' = [WithoutIndex(c, f) EXCEPT !.indexed = indexed]
  BY <1>1 DEF DeleteIndex, WithoutIndex, Tables
<1>3. /\ indexed \in [Collections -> SUBSET Fields]
      /\ \A o \in Collections, g \in Fields :
           g \in indexed[o] => g \in db.indexed[o] /\ ~ (o = c /\ g = f)
  BY <1>1, TableFacts
<1> HIDE DEF indexed
<1> QED
  BY <1>1, <1>2, <1>3, IndexTakenAway

LEMMA BuildsInitInv == BuildsInit => BuildsInv
<1> SUFFICES ASSUME BuildsInit PROVE BuildsInv
  OBVIOUS
<1>1. db \in Tables
  BY DEF BuildsInit, EmptyFile, Tables
<1>2. \A c \in Collections : WritableFields(db, c) = {} /\ db.indexed[c] = {}
  BY DEF BuildsInit, EmptyFile, WritableFields
<1>3. builder \in [Builders -> BuildRecords] /\ \A b \in Builders : Holds(builder[b])
  BY NoBuildHolds DEF BuildsInit
<1>4. WritableIsSound /\ CompletedIsFull
  BY <1>2 DEF WritableIsSound, CompletedIsFull
<1> QED
  BY <1>1, <1>3, <1>4, BuildTypes DEF BuildsInv

\* Every transaction keeps the invariant, as long as no two goroutines build
\* the same index.
LEMMA BuildsStepInv ==
  ASSUME NamesAreDistinct
  PROVE  BuildsInv /\ BuildsApart /\ BuildsApart' /\ [BuildsNext]_buildVars => BuildsInv'
<1> SUFFICES ASSUME BuildsInv, BuildsApart, BuildsApart', [BuildsNext]_buildVars
             PROVE  BuildsInv'
  OBVIOUS
<1>1. ASSUME NEW c \in Collections, DeleteCollection(c) PROVE BuildsInv'
  BY <1>1, DeleteCollectionStep
<1>2. ASSUME NEW c \in Collections, NEW i \in Ids, NEW body \in Bodies,
             PutDocument(c, i, body)
      PROVE  BuildsInv'
  BY <1>2, PutStep
<1>3. ASSUME NEW c \in Collections, NEW i \in Ids, DeleteDocument(c, i) PROVE BuildsInv'
  BY <1>3, DeleteStep
<1>4. ASSUME NEW c \in Collections, NEW f \in Fields, DeleteIndex(c, f) PROVE BuildsInv'
  BY <1>4, DeleteIndexStep
<1>5. ASSUME NEW b \in Builders, NEW c \in Collections, NEW f \in Fields,
             StartIndexBuild(b, c, f)
      PROVE  BuildsInv'
  BY <1>5, StartIndexBuildStep
<1>6. ASSUME NEW b \in Builders, Build(b) PROVE BuildsInv'
  BY <1>6, CollectBatchStep, ApplyBatchStep, FinishIndexBuildStep, AbortIndexBuildStep DEF Build
<1>7. ASSUME NEW b \in Builders, Cancel(b) \/ Abandon(b) PROVE BuildsInv'
  BY <1>7, CancelStep, AbandonStep
<1>8. CASE UNCHANGED buildVars
  <2>1. db' = db /\ builder' = builder
    BY <1>8 DEF buildVars
  <2> QED
    BY <2>1 DEF BuildsInv, BuildsTypeOK, WritableIsSound, CompletedIsFull, Holds, Covers,
      Bucket, IsBuilding, WritableFields
<1> QED
  BY <1>1, <1>2, <1>3, <1>4, <1>5, <1>6, <1>7, <1>8 DEF BuildsNext, Documents

\* What a query reads in a bucket of the invariant.
LEMMA ExactIsEntries ==
  ASSUME db \in Tables, NEW c \in Collections, NEW f \in Fields
  PROVE  ExactEntries(c, f) = UNION { EntryOf(db.docs[c][i], f, i) : i \in Ids }
BY DEF ExactEntries, EntryOf, DocIds

LEMMA BucketsAreRight == BuildsInv => CompletedIndexIsExact /\ BackfillMissesNothing
<1> SUFFICES ASSUME BuildsInv PROVE CompletedIndexIsExact /\ BackfillMissesNothing
  OBVIOUS
<1>1. /\ db \in Tables /\ builder \in [Builders -> BuildRecords]
      /\ WritableIsSound /\ CompletedIsFull
      /\ \A a \in Builders, s \in BuildRecords : s = builder[a] => Holds(s)
  BY BuilderFacts
<1>2. CompletedIndexIsExact
  <2> SUFFICES ASSUME NEW c \in Collections, NEW f \in db.indexed[c]
               PROVE  Bucket(c, f) = ExactEntries(c, f)
    BY DEF CompletedIndexIsExact
  <2>1. f \in Fields /\ f \in WritableFields(db, c)
    BY <1>1, TableFacts DEF WritableFields
  <2>2. /\ \A e \in Bucket(c, f) : \E i \in Ids : e \in EntryOf(db.docs[c][i], f, i)
        /\ \A i \in Ids : EntryOf(db.docs[c][i], f, i) \subseteq Bucket(c, f)
    BY <2>1, <1>1 DEF WritableIsSound, CompletedIsFull
  <2>3. ExactEntries(c, f) = UNION { EntryOf(db.docs[c][i], f, i) : i \in Ids }
    BY <2>1, <1>1, ExactIsEntries
  <2>4. Bucket(c, f) \in SUBSET (Vals \X Ids) \cup {NoBucket} /\ Bucket(c, f) # NoBucket
    BY <2>1, <1>1, TableFacts DEF Bucket, WritableIsSound
  <2> QED
    BY <2>2, <2>3, <2>4
<1>3. BackfillMissesNothing
  <2> SUFFICES ASSUME NEW b \in Builders, builder[b].pc \in {"collect", "apply", "finish"},
                      IsBuilding(builder[b].c, builder[b].f),
                      NEW e \in ExactEntries(builder[b].c, builder[b].f),
                      e[2] <= builder[b].after
               PROVE  \/ e \in Bucket(builder[b].c, builder[b].f)
                      \/ [id |-> e[2], body |-> db.docs[builder[b].c][e[2]]]
                           \in builder[b].batch
    BY DEF BackfillMissesNothing
  <2>1. PICK s \in BuildRecords : s = builder[b]
    BY <1>1
  <2>2. Holds(s) /\ Covers(s) /\ s.c \in Collections /\ s.f \in Fields
    BY <2>1, <1>1 DEF Holds, BuildRecords
  <2>3. PICK i \in Ids : e \in EntryOf(db.docs[s.c][i], s.f, i)
    BY <2>1, <2>2, <1>1, ExactIsEntries
  <2>4. e[2] = i
    BY <2>3 DEF EntryOf
  <2> QED
    BY <2>1, <2>2, <2>3, <2>4 DEF Covers
<1> QED
  BY <1>2, <1>3

\* A query is answered from a bucket that has one entry for each document and
\* no other, whatever is written, deleted, cancelled or abandoned while the
\* index is built: as long as the names of the indexes are distinct and no two
\* goroutines build the same index.
THEOREM CompletedIndexes ==
  ASSUME NamesAreDistinct
  PROVE  BuildsSpec /\ []BuildsApart => []CompletedIndexIsExact
<1> QED
  BY BuildsInitInv, BuildsStepInv, BucketsAreRight, PTL DEF BuildsSpec

\* Under the same hypotheses a build, at every point, has what it has read in
\* its bucket or in its batch.
THEOREM Backfills ==
  ASSUME NamesAreDistinct
  PROVE  BuildsSpec /\ []BuildsApart => []BackfillMissesNothing
<1> QED
  BY BuildsInitInv, BuildsStepInv, BucketsAreRight, PTL DEF BuildsSpec

\* With one goroutine that builds there is no other hypothesis.
THEOREM OneBuilderIsEnough ==
  ASSUME NamesAreDistinct, NEW b, Builders = {b}
  PROVE  BuildsSpec => []CompletedIndexIsExact /\ []BackfillMissesNothing
<1>1. BuildsApart
  BY DEF BuildsApart
<1> QED
  BY <1>1, BuildsInitInv, BuildsStepInv, BucketsAreRight, PTL DEF BuildsSpec

-----------------------------------------------------------------------------
(* The types, whatever the names of the indexes and however many build.    *)

\* A batch holds documents that have the field that is being indexed.
BatchesHaveTheField ==
  \A b \in Builders : \A e \in builder[b].batch : e.body[builder[b].f] # Absent

BuildsTyped == BuildsTypeOK /\ BatchesHaveTheField

LEMMA FileOfTheBuild ==
  ASSUME BuildsTyped
  PROVE  /\ db \in Tables /\ builder \in [Builders -> BuildRecords]
         /\ \A b \in Builders : builder[b] \in BuildRecords
BY BuildTypes DEF BuildsTyped

\* The file is well formed whatever replaces the tables of indexes, ...
LEMMA IndexTablesReplaced ==
  ASSUME NEW d \in Tables, NEW indexed \in [Collections -> SUBSET Fields],
         NEW markers \in SUBSET (Collections \X Fields),
         NEW idx \in [IndexBuckets -> (SUBSET (Vals \X Ids)) \cup {NoBucket}]
  PROVE  [d EXCEPT !.building = markers, !.idx = idx, !.indexed = indexed] \in Tables
BY ZenonT(60) DEF Tables

\* ... and whatever is written to a document.
LEMMA DocumentReplaced ==
  ASSUME NEW d \in Tables, NEW c \in Collections, NEW i \in Ids,
         NEW body \in Bodies \cup {NoDoc}, NEW names \in SUBSET Collections
  PROVE  /\ [d EXCEPT !.docs[c][i] = body] \in Tables
         /\ [d EXCEPT !.exists = names, !.docs[c][i] = body] \in Tables
<1>1. [d.docs EXCEPT ![c][i] = body] \in [Collections -> [Ids -> Bodies \cup {NoDoc}]]
  BY TableFacts
<1> DEFINE docs == [d.docs EXCEPT ![c][i] = body]
<1>2. /\ [d EXCEPT !.docs[c][i] = body] = [d EXCEPT !.docs = docs]
      /\ [d EXCEPT !.exists = names, !.docs[c][i] = body] =
           [d EXCEPT !.exists = names, !.docs = docs]
  OBVIOUS
<1> HIDE DEF docs
<1> QED
  BY <1>1, <1>2 DEF docs, Tables

LEMMA DocumentsKeepTypes == BuildsTyped /\ Documents => BuildsTyped'
<1> SUFFICES ASSUME BuildsTyped, Documents PROVE BuildsTyped'
  OBVIOUS
<1>1. db \in Tables
  BY FileOfTheBuild
<1>2. ASSUME db' \in Tables, UNCHANGED builder PROVE BuildsTyped'
  BY <1>2 DEF BuildsTyped, BuildsTypeOK, BatchesHaveTheField
<1>3. ASSUME NEW c \in Collections, NEW i \in Ids, NEW body \in Bodies, PutDocument(c, i, body)
      PROVE  BuildsTyped'
  <2>1. PICK old \in Tables : old = UnindexStored(db, c, i)
    BY <1>1, UnindexStoredWrites
  <2>2. PICK names \in SUBSET Collections : names = db.exists \cup {c}
    BY <1>1 DEF Tables
  <2>3. PICK mid \in Tables : mid = [old EXCEPT !.exists = names, !.docs[c][i] = body]
    BY DocumentReplaced
  <2>4. db' = IndexDocument(mid, c, i, body) /\ UNCHANGED builder
    BY <1>3, <2>1, <2>2, <2>3 DEF PutDocument
  <2> QED
    BY <1>2, <2>4, IndexDocumentWrites
<1>4. ASSUME NEW c \in Collections, NEW i \in Ids, DeleteDocument(c, i) PROVE BuildsTyped'
  <2>1. PICK old \in Tables : old = UnindexStored(db, c, i)
    BY <1>1, UnindexStoredWrites
  <2> QED
    BY <1>2, <1>4, <2>1, DocumentReplaced DEF DeleteDocument
<1>5. ASSUME NEW c \in Collections, DeleteCollection(c) PROVE BuildsTyped'
  <2> DEFINE gone == { IndexBucketName(c, f) : f \in WritableFields(db, c) }
             ttl == [k \in Collections \X Ids |-> IF k[1] = c THEN NoTTL ELSE db.ttlByDoc[k]]
             keys == { e \in db.ttlIndex : e[2] # c }
             markers == { m \in db.building : m[1] # c }
             idx == [b \in IndexBuckets |-> IF b \in gone THEN NoBucket ELSE db.idx[b]]
             docs == [db.docs EXCEPT ![c] = [i \in Ids |-> NoDoc]]
             count == [db.count EXCEPT ![c] = NoCount]
             indexed == [db.indexed EXCEPT ![c] = {}]
             names == db.exists \ {c}
  <2>1. db' = [db EXCEPT !.exists = names, !.docs = docs, !.count = count, !.ttlByDoc = ttl,
                         !.ttlIndex = keys, !.indexed = indexed, !.building = markers,
                         !.idx = idx]
    BY <1>5 DEF DeleteCollection, DropCollection
  <2>2. /\ names \in SUBSET Collections
        /\ docs \in [Collections -> [Ids -> Bodies \cup {NoDoc}]]
        /\ count \in [Collections -> Nat \cup {NoCount}]
        /\ indexed \in [Collections -> SUBSET Fields]
        /\ markers \in SUBSET (Collections \X Fields)
        /\ keys \in SUBSET (Nat \X Collections \X Ids)
    BY <1>1 DEF Tables
  <2>3. ttl \in [Collections \X Ids -> Nat \cup {NoTTL}]
    BY <1>1 DEF Tables
  <2>4. idx \in [IndexBuckets -> (SUBSET (Vals \X Ids)) \cup {NoBucket}]
    BY <1>1, TableFacts
  <2> HIDE DEF gone, ttl, keys, markers, idx, docs, count, indexed, names
  <2>5. db' \in Tables
    BY <1>1, <2>1, <2>2, <2>3, <2>4, ZenonT(60) DEF Tables
  <2> QED
    BY <1>2, <1>5, <2>5 DEF DeleteCollection
<1> QED
  BY <1>3, <1>4, <1>5 DEF Documents

LEMMA IndexRemovalKeepsType ==
  ASSUME BuildsTyped, NEW c \in Collections, NEW f \in Fields,
         NEW indexed \in [Collections -> SUBSET Fields]
  PROVE  [WithoutIndex(c, f) EXCEPT !.indexed = indexed] \in Tables
<1>1. db \in Tables /\ IndexBucketName(c, f) \in IndexBuckets
  BY FileOfTheBuild, TableFacts
<1> DEFINE markers == db.building \ {<<c, f>>}
           idx == [db.idx EXCEPT ![IndexBucketName(c, f)] = NoBucket]
<1>2. [WithoutIndex(c, f) EXCEPT !.indexed = indexed] =
        [db EXCEPT !.building = markers, !.idx = idx, !.indexed = indexed]
  BY <1>1 DEF WithoutIndex, Tables
<1>3. /\ markers \in SUBSET (Collections \X Fields)
      /\ idx \in [IndexBuckets -> (SUBSET (Vals \X Ids)) \cup {NoBucket}]
  BY <1>1, TableFacts
<1> HIDE DEF markers, idx
<1> QED
  BY <1>1, <1>2, <1>3, IndexTablesReplaced

\* A builder moves on, with a batch of documents that have its field.
LEMMA BuilderKeepsType ==
  ASSUME BuildsTyped, db' \in Tables, NEW b \in Builders, NEW r \in BuildRecords,
         builder' = [builder EXCEPT ![b] = r],
         \A e \in r.batch : e.body[r.f] # Absent
  PROVE  BuildsTyped'
<1>1. builder' \in [Builders -> BuildRecords]
  BY FileOfTheBuild
<1>2. ASSUME NEW a \in Builders PROVE \A e \in builder'[a].batch : e.body[builder'[a].f] # Absent
  <2>1. builder'[a] = r \/ builder'[a] = builder[a]
    BY FileOfTheBuild
  <2> QED
    BY <2>1 DEF BuildsTyped, BatchesHaveTheField
<1> QED
  BY <1>1, <1>2 DEF BuildsTyped, BuildsTypeOK, BatchesHaveTheField, BuildRecords

LEMMA NoBuildIsTyped == NoBuild \in BuildRecords /\ NoBuild.batch = {}
BY NoBuildHolds DEF NoBuild

LEMMA StartKeepsTypes ==
  ASSUME BuildsTyped, NEW b \in Builders, NEW c \in Collections, NEW f \in Fields,
         StartIndexBuild(b, c, f)
  PROVE  BuildsTyped'
<1>1. db \in Tables /\ IndexBucketName(c, f) \in IndexBuckets
  BY FileOfTheBuild, TableFacts
<1> DEFINE markers == db.building \cup {<<c, f>>}
           idx == [db.idx EXCEPT ![IndexBucketName(c, f)] = {}]
<1>2. db' = [db EXCEPT !.building = markers, !.idx = idx, !.indexed = db.indexed]
  BY <1>1 DEF StartIndexBuild, Tables
<1>3. /\ markers \in SUBSET (Collections \X Fields)
      /\ idx \in [IndexBuckets -> (SUBSET (Vals \X Ids)) \cup {NoBucket}]
      /\ db.indexed \in [Collections -> SUBSET Fields]
  BY <1>1, TableFacts
<1>4. PICK r : r = [NoBuild EXCEPT !.pc = "collect", !.c = c, !.f = f]
  OBVIOUS
<1>5. r \in BuildRecords /\ r.batch = {}
  BY <1>4, NoBuildIsTyped DEF BuildRecords, BuildSteps
<1>6. builder' = [builder EXCEPT ![b] = r]
  BY <1>4 DEF StartIndexBuild
<1> HIDE DEF markers, idx
<1>7. db' \in Tables
  BY <1>1, <1>2, <1>3, IndexTablesReplaced
<1> QED
  BY <1>5, <1>6, <1>7, BuilderKeepsType

LEMMA CollectKeepsTypes ==
  ASSUME BuildsTyped, NEW b \in Builders, CollectBatch(b)
  PROVE  BuildsTyped'
<1>1. PICK s \in BuildRecords : s = builder[b]
  BY FileOfTheBuild
<1>2. /\ db \in Tables /\ NoDoc \notin Bodies
      /\ s.c \in Collections /\ s.f \in Fields /\ s.after \in Ids \cup {0}
  BY <1>1, FileOfTheBuild, BuildTypes DEF BuildRecords
<1> DEFINE ids == NextIds(s.c, s.after)
           batch == { [id |-> i, body |-> db.docs[s.c][i]] : i \in
                        { j \in ids : db.docs[s.c][j][s.f] # Absent } }
           last == LastRead(ids, s.after)
           done == \A i \in DocIds(db, s.c) : i <= last
           step == IF s.c \notin db.exists THEN "abort"
                   ELSE IF batch # {} THEN "apply"
                   ELSE IF done THEN "finish" ELSE "collect"
<1>3. ids \subseteq DocIds(db, s.c) /\ last \in Ids \cup {0}
  <2>1. ids \subseteq DocIds(db, s.c)
    BY DEF NextIds
  <2>2. last \in Ids \cup {0}
    BY <1>2, NextIdsFacts
  <2> QED
    BY <2>1, <2>2
<1>4. batch \in SUBSET Entries /\ \A e \in batch : e.body[s.f] # Absent
  <2> HIDE DEF ids
  <2>1. ASSUME NEW i \in ids PROVE i \in Ids /\ db.docs[s.c][i] \in Bodies
    <3>1. i \in Ids /\ db.docs[s.c][i] # NoDoc
      BY <1>3 DEF DocIds
    <3> QED
      BY <3>1, <1>2, TableFacts
  <2> QED
    BY <2>1 DEF Entries
<1>5. step \in BuildSteps /\ done \in BOOLEAN
  BY DEF BuildSteps
<1>6. PICK r : r = [s EXCEPT !.after = last, !.batch = batch, !.done = done, !.pc = step]
  OBVIOUS
<1>a. builder' = [builder EXCEPT ![b] =
          [@ EXCEPT !.after = last, !.batch = batch, !.done = done, !.pc = step]]
      /\ UNCHANGED db
  BY <1>1 DEF CollectBatch
<1>7. builder' = [builder EXCEPT ![b] = r] /\ UNCHANGED db
  <2> HIDE DEF ids, batch, last, done, step
  <2> QED
    BY <1>a, <1>1, <1>6, FileOfTheBuild
<1> HIDE DEF ids, batch, last, done, step
<1>8. r \in BuildRecords /\ r.batch = batch /\ r.f = s.f
  BY <1>3, <1>4, <1>5, <1>6 DEF BuildRecords
<1> QED
  BY <1>2, <1>4, <1>7, <1>8, BuilderKeepsType

LEMMA ApplyKeepsTypes ==
  ASSUME BuildsTyped, NEW b \in Builders, ApplyBatch(b)
  PROVE  BuildsTyped'
<1>1. PICK s \in BuildRecords : s = builder[b]
  BY FileOfTheBuild
<1>2. /\ db \in Tables /\ s.c \in Collections /\ s.f \in Fields /\ s.batch \in SUBSET Entries
      /\ \A e \in s.batch : e.body[s.f] # Absent
      /\ IndexBucketName(s.c, s.f) \in IndexBuckets
  BY <1>1, FileOfTheBuild, TableFacts DEF BuildRecords, BuildsTyped, BatchesHaveTheField
<1>3. PICK r : r \in { [s EXCEPT !.batch = {}, !.pc = pc] : pc \in {"finish", "collect", "abort"} }
               /\ builder' = [builder EXCEPT ![b] = r]
  <2>1. \/ builder' = [builder EXCEPT ![b] = [s EXCEPT !.batch = {}, !.pc = "finish"]]
        \/ builder' = [builder EXCEPT ![b] = [s EXCEPT !.batch = {}, !.pc = "collect"]]
        \/ builder' = [builder EXCEPT ![b] = [s EXCEPT !.batch = {}, !.pc = "abort"]]
    BY <1>1, FileOfTheBuild DEF ApplyBatch
  <2> QED
    BY <2>1
<1>4. r \in BuildRecords /\ r.batch = {}
  BY <1>3 DEF BuildRecords, BuildSteps
<1>5. db' \in Tables
  <2> DEFINE found == { <<e.body[s.f], e.id>> : e \in Unchanged(s.c, s.batch) }
             idx == [db.idx EXCEPT ![IndexBucketName(s.c, s.f)] = @ \cup found]
  <2>1. CASE UNCHANGED db
    BY <1>2, <2>1
  <2>2. CASE /\ Bucket(s.c, s.f) # NoBucket
             /\ db' = [db EXCEPT !.idx[IndexBucketName(s.c, s.f)] = @ \cup found]
    <3>1. found \subseteq Vals \X Ids
      <4>1. ASSUME NEW e \in s.batch PROVE <<e.body[s.f], e.id>> \in Vals \X Ids
        BY <1>2 DEF Entries, Bodies
      <4> QED
        BY <4>1 DEF Unchanged
    <3>2. db' = [db EXCEPT !.building = db.building, !.idx = idx, !.indexed = db.indexed]
      BY <1>2, <2>2 DEF Tables
    <3> HIDE DEF found
    <3>3. /\ db.idx[IndexBucketName(s.c, s.f)] \in SUBSET (Vals \X Ids)
          /\ db.idx \in [IndexBuckets -> (SUBSET (Vals \X Ids)) \cup {NoBucket}]
          /\ db.indexed \in [Collections -> SUBSET Fields]
          /\ db.building \in SUBSET (Collections \X Fields)
      BY <1>2, <2>2, TableFacts DEF Bucket
    <3>4. idx \in [IndexBuckets -> (SUBSET (Vals \X Ids)) \cup {NoBucket}]
      BY <3>1, <3>3
    <3> HIDE DEF idx
    <3> QED
      BY <1>2, <3>2, <3>3, <3>4, IndexTablesReplaced
  <2> QED
    BY <1>1, <2>1, <2>2 DEF ApplyBatch
<1> QED
  BY <1>3, <1>4, <1>5, BuilderKeepsType

LEMMA FinishKeepsTypes ==
  ASSUME BuildsTyped, NEW b \in Builders, FinishIndexBuild(b)
  PROVE  BuildsTyped'
<1>1. PICK s \in BuildRecords : s = builder[b]
  BY FileOfTheBuild
<1>2. /\ db \in Tables /\ s.c \in Collections /\ s.f \in Fields
      /\ \A e \in s.batch : e.body[s.f] # Absent
  BY <1>1, FileOfTheBuild DEF BuildRecords, BuildsTyped, BatchesHaveTheField
<1>3. CASE UNCHANGED db
  <2>1. CASE builder' = [builder EXCEPT ![b] = NoBuild]
    <3>1. NoBuild \in BuildRecords /\ \A e \in NoBuild.batch : e.body[NoBuild.f] # Absent
      BY NoBuildIsTyped
    <3>2. db' \in Tables
      BY <1>2, <1>3
    <3> QED
      BY <2>1, <3>1, <3>2, BuilderKeepsType
  <2>2. CASE builder' = [builder EXCEPT ![b].pc = "abort"]
    <3>1. PICK r : r = [s EXCEPT !.pc = "abort"]
      OBVIOUS
    <3>2. r \in BuildRecords /\ r.batch = s.batch /\ r.f = s.f
      BY <3>1 DEF BuildRecords, BuildSteps
    <3>3. builder' = [builder EXCEPT ![b] = r]
      BY <1>1, <2>2, <3>1, FileOfTheBuild
    <3>4. db' \in Tables /\ \A e \in r.batch : e.body[r.f] # Absent
      BY <1>2, <1>3, <3>2
    <3> QED
      BY <3>2, <3>3, <3>4, BuilderKeepsType
  <2> QED
    BY <2>1, <2>2 DEF FinishIndexBuild
<1>4. CASE /\ db' = [db EXCEPT !.indexed[s.c] = @ \cup {s.f}, !.building = @ \ {<<s.c, s.f>>}]
           /\ builder' = [builder EXCEPT ![b] = NoBuild]
  <2> DEFINE indexed == [db.indexed EXCEPT ![s.c] = @ \cup {s.f}]
             markers == db.building \ {<<s.c, s.f>>}
  <2>1. db' = [db EXCEPT !.building = markers, !.idx = db.idx, !.indexed = indexed]
    BY <1>2, <1>4 DEF Tables
  <2>2. /\ indexed \in [Collections -> SUBSET Fields]
        /\ markers \in SUBSET (Collections \X Fields)
        /\ db.idx \in [IndexBuckets -> (SUBSET (Vals \X Ids)) \cup {NoBucket}]
    BY <1>2, TableFacts
  <2> HIDE DEF indexed, markers
  <2>3. db' \in Tables
    BY <1>2, <2>1, <2>2, IndexTablesReplaced
  <2>4. NoBuild \in BuildRecords /\ \A e \in NoBuild.batch : e.body[NoBuild.f] # Absent
    BY NoBuildIsTyped
  <2> QED
    BY <1>4, <2>3, <2>4, BuilderKeepsType
<1> QED
  BY <1>1, <1>3, <1>4 DEF FinishIndexBuild

LEMMA BuildEndsTyped ==
  ASSUME BuildsTyped, NEW b \in Builders, AbortIndexBuild(b) \/ Cancel(b) \/ Abandon(b)
  PROVE  BuildsTyped'
<1>1. PICK s \in BuildRecords : s = builder[b]
  BY FileOfTheBuild
<1>2. db \in Tables /\ s.c \in Collections /\ s.f \in Fields
      /\ db.indexed \in [Collections -> SUBSET Fields]
  BY <1>1, FileOfTheBuild, TableFacts DEF BuildRecords
<1>3. CASE AbortIndexBuild(b)
  <2>1. db' = [WithoutIndex(s.c, s.f) EXCEPT !.indexed = db.indexed]
    BY <1>1, <1>2, <1>3 DEF AbortIndexBuild, WithoutIndex, Tables
  <2>2. NoBuild \in BuildRecords /\ \A e \in NoBuild.batch : e.body[NoBuild.f] # Absent
    BY NoBuildIsTyped
  <2>3. db' \in Tables
    BY <1>2, <2>1, IndexRemovalKeepsType
  <2>4. builder' = [builder EXCEPT ![b] = NoBuild]
    BY <1>3 DEF AbortIndexBuild
  <2> QED
    BY <2>2, <2>3, <2>4, BuilderKeepsType
<1>4. CASE Cancel(b)
  <2>1. PICK r : r = [s EXCEPT !.batch = {}, !.pc = "abort"]
    OBVIOUS
  <2>2. r \in BuildRecords /\ r.batch = {}
    BY <2>1 DEF BuildRecords, BuildSteps
  <2>3. builder' = [builder EXCEPT ![b] = r] /\ UNCHANGED db
    BY <1>1, <1>4, <2>1, FileOfTheBuild DEF Cancel
  <2> QED
    BY <1>2, <2>2, <2>3, BuilderKeepsType
<1>5. CASE Abandon(b)
  BY <1>2, <1>5, NoBuildIsTyped, BuilderKeepsType DEF Abandon
<1> QED
  BY <1>3, <1>4, <1>5

LEMMA BuildsStepTyped == BuildsTyped /\ [BuildsNext]_buildVars => BuildsTyped'
<1> SUFFICES ASSUME BuildsTyped, [BuildsNext]_buildVars PROVE BuildsTyped'
  OBVIOUS
<1>1. ASSUME NEW c \in Collections, NEW f \in Fields, DeleteIndex(c, f) PROVE BuildsTyped'
  <2> DEFINE indexed == [db.indexed EXCEPT ![c] = @ \ {f}]
  <2>1. db \in Tables /\ builder \in [Builders -> BuildRecords]
    BY FileOfTheBuild
  <2>2. db' = [WithoutIndex(c, f) EXCEPT !.indexed = indexed] /\ UNCHANGED builder
    BY <1>1, <2>1 DEF DeleteIndex, WithoutIndex, Tables
  <2>3. indexed \in [Collections -> SUBSET Fields]
    BY <2>1, TableFacts
  <2> HIDE DEF indexed
  <2>4. db' \in Tables
    BY <2>2, <2>3, IndexRemovalKeepsType
  <2> QED
    BY <2>2, <2>4 DEF BuildsTyped, BuildsTypeOK, BatchesHaveTheField
<1>2. CASE UNCHANGED buildVars
  BY <1>2 DEF buildVars, BuildsTyped, BuildsTypeOK, BatchesHaveTheField
<1>3. ASSUME NEW b \in Builders, Build(b) \/ Cancel(b) \/ Abandon(b) PROVE BuildsTyped'
  BY <1>3, CollectKeepsTypes, ApplyKeepsTypes, FinishKeepsTypes, BuildEndsTyped DEF Build
<1> QED
  BY <1>1, <1>2, <1>3, DocumentsKeepTypes, StartKeepsTypes DEF BuildsNext

\* The file and the builds keep their types even where two indexes share a
\* bucket, or two goroutines build the same index.
THEOREM BuildsTypes == BuildsSpec => []BuildsTypeOK
<1>1. BuildsInit => BuildsTyped
  <2>1. BuildsInit => \A b \in Builders : builder[b].batch = {}
    BY DEF BuildsInit, NoBuild
  <2> QED
    BY <2>1, BuildsInitInv DEF BuildsInv, BuildsTyped, BatchesHaveTheField
<1>2. BuildsTyped => BuildsTypeOK
  BY DEF BuildsTyped
<1> QED
  BY <1>1, <1>2, BuildsStepTyped, PTL DEF BuildsSpec

-----------------------------------------------------------------------------
(* The cache of databases next to the build of an index.                   *)

LEMMA StoreStarts == Init => HandlesInit /\ BuildsInit
BY DEF Init

\* A step is a step of one part, and leaves the other alone.
LEMMA StoreSteps == [Next]_vars => [HandlesNext]_handleVars /\ [BuildsNext]_buildVars
BY DEF Next, vars

\* The cache and the builds each behave as specified next to the other.
THEOREM StoreHasBothParts == Spec => HandlesSpec /\ BuildsSpec
BY StoreStarts, StoreSteps, PTL DEF Spec, HandlesSpec, BuildsSpec

\* The handles, the calls, the map and its order, the file and the builds keep
\* their types.
THEOREM StoreTypes == Spec => []TypeOK
<1>1. HandlesTypeOK /\ BuildsTypeOK => TypeOK
  BY DEF TypeOK
<1> QED
  BY <1>1, StoreHasBothParts, HandlesTypes, BuildsTypes, PTL

\* Hence the store: no call uses a closed database, and while no two builds
\* work on one index every completed index is exact.
THEOREM StoreIsRight ==
  ASSUME NamesAreDistinct
  PROVE  Spec => /\ []NoTransactionOnClosedDatabase
                 /\ []BuildsApart => []CompletedIndexIsExact /\ []BackfillMissesNothing
BY StoreHasBothParts, NoTransactionOnClosed, CompletedIndexes, Backfills, PTL
=============================================================================
