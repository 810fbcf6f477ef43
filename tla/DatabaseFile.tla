---------------------------- MODULE DatabaseFile ----------------------------
(***************************************************************************)
(* The tables of one database file (one bbolt file) and what the bodies of *)
(* the write transactions do to them.  A value of the tables is a record;  *)
(* an operator here maps the tables a transaction sees to the tables it    *)
(* leaves.  Nothing here is an action: DocStore and IndexBuild decide when *)
(* a transaction may run and what becomes visible.                         *)
(*                                                                         *)
(* A document body is a function from fields to values (Absent where the   *)
(* JSON object lacks the key).  Its ETag is the SHA-256 of the normalised  *)
(* body, taken to be injective: a body is its own ETag.  Encryption is     *)
(* transparent at this level.                                              *)
(***************************************************************************)
EXTENDS Integers, Sequences, FiniteSets

CONSTANTS
  Collections,        \* names: sequences of the segments between underscores
  Ids,                \* document ids
  Fields,             \* field names: sequences of segments, like Collections
  Vals,               \* encoded field values
  Absent,             \* the field is not in the document
  NoDoc,              \* no document under this id
  NoTTL,              \* the document does not expire
  NoCount,            \* no stored count for this collection
  NoBucket,           \* the index bucket does not exist
  MaxRetainedEvents   \* maxRetainedEvents of event_log.go

ASSUME NamesAssumption ==
  /\ IsFiniteSet(Collections) /\ IsFiniteSet(Ids)
  /\ NoTTL \notin Nat /\ NoCount \notin Nat
  /\ Absent \notin Vals
  /\ MaxRetainedEvents \in Nat

Bodies == [Fields -> Vals \cup {Absent}]

ASSUME MarkersAssumption ==
  NoDoc \notin Bodies /\ (\A bucket \in SUBSET (Vals \X Ids) : bucket # NoBucket)

\* The JSON patch of PatchDocument: the keys it carries, each with a value.
Patches == UNION { [F -> Vals] : F \in SUBSET Fields }

Merge(body, patch) ==
  [f \in Fields |-> IF f \in DOMAIN patch THEN patch[f] ELSE body[f]]

\* getIndexBucketName joins the two names with an underscore, and both names
\* may contain underscores: ("a", "b_c") and ("a_b", "c") give one name.
IndexBucketName(c, f) == c \o f

IndexBuckets == { IndexBucketName(c, f) : c \in Collections, f \in Fields }

EventActions == {"insert", "update", "delete"}

Event == [ seq : Nat \ {0}, action : EventActions,
           collection : Collections, id : Ids, etag : Bodies \cup {NoDoc} ]

Tables ==
  [ exists   : SUBSET Collections,
    docs     : [Collections -> [Ids -> Bodies \cup {NoDoc}]],
    count    : [Collections -> Nat \cup {NoCount}],
    ttlByDoc : [Collections \X Ids -> Nat \cup {NoTTL}],
    ttlIndex : SUBSET (Nat \X Collections \X Ids),
    seq      : Nat,
    log      : Seq(Event),
    outbox   : SUBSET Nat,
    indexed  : [Collections -> SUBSET Fields],
    building : SUBSET (Collections \X Fields),
    idx      : [IndexBuckets -> (SUBSET (Vals \X Ids)) \cup {NoBucket}] ]

EmptyFile ==
  [ exists   |-> {},
    docs     |-> [c \in Collections |-> [i \in Ids |-> NoDoc]],
    count    |-> [c \in Collections |-> NoCount],
    ttlByDoc |-> [k \in Collections \X Ids |-> NoTTL],
    ttlIndex |-> {},
    seq      |-> 0,
    log      |-> << >>,
    outbox   |-> {},
    indexed  |-> [c \in Collections |-> {}],
    building |-> {},
    idx      |-> [b \in IndexBuckets |-> NoBucket] ]

DocIds(d, c) == { i \in Ids : d.docs[c][i] # NoDoc }

-----------------------------------------------------------------------------
(* Event log and webhook outbox.                                           *)

\* How many of the oldest events trimEventLogTx removes from a log of len
\* events.  It takes the size from Bucket.Stats, which walks the committed
\* pages: base is the file as the transaction found it, whatever the
\* transaction has appended or trimmed since.
Trimmed(base, len) ==
  LET excess == Len(base.log) - MaxRetainedEvents
  IN  IF excess <= 0 THEN 0 ELSE IF excess < len THEN excess ELSE len

\* Mutant: the sequence is read from the committed file.
RecordCommittedSeq(base, d, action, c, i, etag) ==
  [ d EXCEPT !.seq = base.seq + 1,
             !.log = Append(d.log, [ seq |-> base.seq + 1, action |-> action,
                                     collection |-> c, id |-> i, etag |-> etag ]),
             !.outbox = d.outbox \cup {base.seq + 1} ]

RecordEvent(base, d, action, c, i, etag) ==
  LET event == [ seq |-> d.seq + 1, action |-> action, collection |-> c,
                 id |-> i, etag |-> etag ]
      grown == Append(d.log, event)
  IN  [ d EXCEPT !.seq = d.seq + 1,
                 !.log = SubSeq(grown, Trimmed(base, Len(grown)) + 1, Len(grown)),
                 !.outbox = d.outbox \cup {d.seq + 1} ]

-----------------------------------------------------------------------------
(* The stored document count of a collection.                              *)

\* Without a stored count the committed pages of the bucket are counted.
CollectionCount(base, d, c) ==
  IF d.count[c] = NoCount THEN Cardinality(DocIds(base, c)) ELSE d.count[c]

IncrementCount(base, d, c, delta) ==
  LET n == CollectionCount(base, d, c) + delta
  IN  [ d EXCEPT !.count[c] = IF n < 0 THEN 0 ELSE n ]

-----------------------------------------------------------------------------
(* The two TTL buckets: expiry by document, and keys ordered by expiry.    *)

\* Mutant: the purge key of the old expiry stays behind.
ClearTTLKeepsKey(d, c, i) == [ d EXCEPT !.ttlByDoc[<<c, i>>] = NoTTL ]

ClearTTL(d, c, i) ==
  [ d EXCEPT !.ttlIndex = d.ttlIndex \ { <<d.ttlByDoc[<<c, i>>], c, i>> },
             !.ttlByDoc[<<c, i>>] = NoTTL ]

SetTTL(d, c, i, expireAt) ==
  [ d EXCEPT !.ttlIndex = (d.ttlIndex \ { <<d.ttlByDoc[<<c, i>>], c, i>> })
                            \cup { <<expireAt, c, i>> },
             !.ttlByDoc[<<c, i>>] = expireAt ]

\* Mutant: an absent expiry is stored as if it were one.
PutTTLAlways(d, c, i, expireAt) == SetTTL(d, c, i, expireAt)

PutTTL(d, c, i, expireAt) ==
  IF expireAt = NoTTL THEN ClearTTL(d, c, i) ELSE SetTTL(d, c, i, expireAt)

-----------------------------------------------------------------------------
(* Secondary indexes: completed ones and ones being built are written.     *)

\* Mutant: an index being built is not maintained.
CompletedFields(d, c) == d.indexed[c]

WritableFields(d, c) ==
  d.indexed[c] \cup { f \in Fields : <<c, f>> \in d.building }

IndexEntries(d, c, i, body, bucket) ==
  { <<body[f], i>> : f \in { g \in WritableFields(d, c) :
                               /\ body[g] # Absent
                               /\ IndexBucketName(c, g) = bucket } }

IndexDocument(d, c, i, body) ==
  [ d EXCEPT !.idx = [b \in IndexBuckets |->
      IF d.idx[b] = NoBucket THEN NoBucket
      ELSE d.idx[b] \cup IndexEntries(d, c, i, body, b)] ]

UnindexDocument(d, c, i, body) ==
  [ d EXCEPT !.idx = [b \in IndexBuckets |->
      IF d.idx[b] = NoBucket THEN NoBucket
      ELSE d.idx[b] \ IndexEntries(d, c, i, body, b)] ]

\* unindexDocumentTx of the stored body, when there is one.
UnindexStored(d, c, i) ==
  IF d.docs[c][i] = NoDoc THEN d ELSE UnindexDocument(d, c, i, d.docs[c][i])

-----------------------------------------------------------------------------
(* The bodies of the write transactions.  base is the committed file.      *)

\* Mutant: every put counts as an insert.
StoreCountsAlways(base, d, c, i, body, expireAt) ==
  LET counted == IncrementCount(base, UnindexStored(d, c, i), c, 1)
      written == [ counted EXCEPT !.exists = d.exists \cup {c},
                                  !.docs[c][i] = body ]
  IN  RecordEvent(base, IndexDocument(PutTTL(written, c, i, expireAt), c, i, body),
                  "update", c, i, body)

\* CreateDocument and PutDocument, and the put of a multi-document
\* transaction: expireAt is the new expiry or NoTTL, which clears the old one
\* (a freshly created document has none to clear).
StoreDocument(base, d, c, i, body, expireAt) ==
  LET isInsert == d.docs[c][i] = NoDoc
      cleaned  == UnindexStored(d, c, i)
      counted  == IF isInsert THEN IncrementCount(base, cleaned, c, 1) ELSE cleaned
      written  == [ counted EXCEPT !.exists = d.exists \cup {c},
                                   !.docs[c][i] = body ]
      expiring == PutTTL(written, c, i, expireAt)
  IN  RecordEvent(base, IndexDocument(expiring, c, i, body),
                  IF isInsert THEN "insert" ELSE "update", c, i, body)

\* Mutant: the event carries the body from before the merge.
MergeLogsOldBody(base, d, c, i, patch) ==
  LET body    == Merge(d.docs[c][i], patch)
      written == [ UnindexStored(d, c, i) EXCEPT !.docs[c][i] = body ]
  IN  RecordEvent(base, IndexDocument(written, c, i, body), "update", c, i,
                  d.docs[c][i])

\* PatchDocument, and the patch of a transaction: the TTL is left alone.
MergeDocument(base, d, c, i, patch) ==
  LET body    == Merge(d.docs[c][i], patch)
      cleaned == UnindexStored(d, c, i)
      written == [ cleaned EXCEPT !.docs[c][i] = body ]
  IN  RecordEvent(base, IndexDocument(written, c, i, body), "update", c, i, body)

\* DeleteDocument, and the delete of a transaction.
RemoveDocument(base, d, c, i) ==
  LET counted == IncrementCount(base, UnindexStored(d, c, i), c, -1)
      cleared == ClearTTL(counted, c, i)
  IN  RecordEvent(base, [ cleared EXCEPT !.docs[c][i] = NoDoc ],
                  "delete", c, i, NoDoc)

MakeCollection(d, c) ==
  [ d EXCEPT !.exists = d.exists \cup {c}, !.count[c] = 0 ]

\* DeleteCollection removes every table entry the collection owns.  It
\* records no event and leaves the event log and the outbox as they are.
DropCollection(d, c) ==
  LET buckets == { IndexBucketName(c, f) : f \in WritableFields(d, c) }
  IN  [ d EXCEPT !.exists   = d.exists \ {c},
                 !.docs[c]  = [i \in Ids |-> NoDoc],
                 !.count[c] = NoCount,
                 !.ttlByDoc = [k \in Collections \X Ids |->
                                 IF k[1] = c THEN NoTTL ELSE d.ttlByDoc[k]],
                 !.ttlIndex = { e \in d.ttlIndex : e[2] # c },
                 !.indexed[c] = {},
                 !.building = { b \in d.building : b[1] # c },
                 !.idx = [b \in IndexBuckets |->
                            IF b \in buckets THEN NoBucket ELSE d.idx[b]] ]

\* Mutant: the purge removes the document without recording an event.
PurgeKeySilently(base, d, key) ==
  [ IncrementCount(base, UnindexStored(d, key[2], key[3]), key[2], -1)
      EXCEPT !.docs[key[2]][key[3]] = NoDoc,
             !.ttlByDoc[<<key[2], key[3]>>] = NoTTL,
             !.ttlIndex = d.ttlIndex \ {key} ]

\* One turn of the purge loop at the index key <<expireAt, c, i>>: a key the
\* document no longer carries is dropped; otherwise the document, if it is
\* still there, goes with its index entries, its count and its TTL.
PurgeKey(base, d, key) ==
  LET c == key[2]
      i == key[3]
      live == d.docs[c][i] # NoDoc
      gone == IF live
              THEN RecordEvent(base,
                     [ IncrementCount(base, UnindexStored(d, c, i), c, -1)
                         EXCEPT !.docs[c][i] = NoDoc ], "delete", c, i, NoDoc)
              ELSE d
      unkeyed == IF d.ttlByDoc[<<c, i>>] # key[1] THEN d
                 ELSE [ gone EXCEPT !.ttlByDoc[<<c, i>>] = NoTTL ]
  IN  [ unkeyed EXCEPT !.ttlIndex = d.ttlIndex \ {key} ]
=============================================================================
