--------------------------- MODULE DocStoreProofs ---------------------------
(***************************************************************************)
(* Proofs that the derived tables of a database file agree with its        *)
(* documents under every handler, transaction, purge and crash; and about  *)
(* what a commit makes visible: a purge removes only what has expired,     *)
(* every change has its event, and the handlers and the sweeper, for all   *)
(* their tables, implement the map of DocumentMap.                         *)
(***************************************************************************)
EXTENDS DocStore, FiniteSetTheorems, SequenceTheorems, TLAPS

\* Which parts of the tables a step of a transaction body leaves alone.
SameDocs(d, e) == e.exists = d.exists /\ e.docs = d.docs
SameTTL(d, e) == e.ttlByDoc = d.ttlByDoc /\ e.ttlIndex = d.ttlIndex
SameLog(d, e) == e.seq = d.seq /\ e.log = d.log /\ e.outbox = d.outbox

\* The log of e is the log of d with one more event at its end, about the
\* document i of c, and with some of the oldest events gone.
Recorded(d, e, c, i, etag) ==
  /\ e.seq = d.seq + 1
  /\ \E drop \in 0 .. Len(d.log) + 1 :
       /\ Len(e.log) = Len(d.log) + 1 - drop
       /\ \A k \in 1 .. Len(e.log) :
            IF k + drop <= Len(d.log) THEN e.log[k] = d.log[k + drop]
            ELSE e.log[k].collection = c /\ e.log[k].id = i /\ e.log[k].etag = etag

\* One document is written or removed, and the event says so.
Alters(d, e, c, i, body) ==
  e.docs = [d.docs EXCEPT ![c][i] = body] /\ Recorded(d, e, c, i, body)

-----------------------------------------------------------------------------
(* The event log.                                                          *)

LEMMA TrimmedType ==
  ASSUME NEW base \in Tables, NEW len \in Nat
  PROVE  Trimmed(base, len) \in 0 .. len
<1>1. Len(base.log) \in Nat
  BY LenProperties DEF Tables
<1> QED
  BY <1>1, NamesAssumption DEF Trimmed

LEMMA RecordEventFacts ==
  ASSUME NEW base \in Tables, NEW d \in Tables,
         NEW action \in EventActions,
         NEW c \in Collections, NEW i \in Ids, NEW etag \in Bodies \cup {NoDoc}
  PROVE  LET e == RecordEvent(base, d, action, c, i, etag)
         IN  /\ e \in Tables
             /\ SameDocs(d, e) /\ SameTTL(d, e) /\ e.count = d.count
             /\ LogIsGapless(d) => LogIsGapless(e)
             /\ Recorded(d, e, c, i, etag)
<1> DEFINE event == [ seq |-> d.seq + 1, action |-> action, collection |-> c,
                      id |-> i, etag |-> etag ]
           grown == Append(d.log, event)
           drop  == Trimmed(base, Len(grown))
           kept  == SubSeq(grown, drop + 1, Len(grown))
           e     == RecordEvent(base, d, action, c, i, etag)
<1>0. d.seq \in Nat /\ d.log \in Seq(Event) /\ Len(d.log) \in Nat
  BY LenProperties DEF Tables
<1>1. event \in Event
  BY <1>0 DEF Event
<1>2. /\ grown \in Seq(Event)
      /\ Len(grown) = Len(d.log) + 1
      /\ \A k \in 1 .. Len(d.log) : grown[k] = d.log[k]
      /\ grown[Len(d.log) + 1] = event
      /\ Len(d.log) \in Nat
  BY <1>0, <1>1
<1> HIDE DEF grown
<1>3. drop \in 0 .. Len(grown)
  <2>1. Len(grown) \in Nat
    BY <1>2
  <2> QED
    BY <2>1, TrimmedType
<1> HIDE DEF drop
<1>4. /\ kept \in Seq(Event)
      /\ Len(kept) = Len(grown) - drop
      /\ \A k \in 1 .. Len(kept) : kept[k] = grown[k + drop]
  <2>1. \A k \in drop + 1 .. Len(grown) : grown[k] \in Event
    BY <1>2, <1>3, ElementOfSeq
  <2> QED
    BY <2>1, <1>2, <1>3, SubSeqProperties
<1>5. e = [ d EXCEPT !.seq = d.seq + 1, !.log = kept,
                     !.outbox = d.outbox \cup {d.seq + 1} ]
  BY DEF RecordEvent, grown, drop
<1> HIDE DEF e, kept
<1>6. e \in Tables /\ SameDocs(d, e) /\ SameTTL(d, e) /\ e.count = d.count
  <2>1. d.seq + 1 \in Nat /\ d.outbox \cup {d.seq + 1} \in SUBSET Nat
    BY <1>0 DEF Tables
  <2> QED
    BY <2>1, <1>4, <1>5 DEF Tables, SameDocs, SameTTL
<1>7. ASSUME LogIsGapless(d) PROVE LogIsGapless(e)
  <2>1. e.log = kept /\ e.seq = d.seq + 1 /\ e.outbox = d.outbox \cup {d.seq + 1}
    BY <1>5 DEF Tables
  <2>2. event.seq = d.seq + 1
    OBVIOUS
  <2> HIDE DEF event
  <2>3. \A k \in 1 .. Len(grown) : grown[k].seq = d.seq - Len(d.log) + k
    <3> TAKE k \in 1 .. Len(grown)
    <3>1. CASE k = Len(d.log) + 1
      BY <3>1, <1>0, <1>2, <2>2
    <3>2. CASE k # Len(d.log) + 1
      <4>1. k \in 1 .. Len(d.log)
        BY <3>2, <1>0, <1>2
      <4>2. d.log[k].seq = d.seq - Len(d.log) + k
        BY <4>1, <1>7 DEF LogIsGapless
      <4> QED
        BY <4>1, <4>2, <1>2
    <3> QED
      BY <3>1, <3>2
  <2>4. \A k \in 1 .. Len(kept) : kept[k].seq = d.seq - Len(d.log) + k + drop
    <3> TAKE k \in 1 .. Len(kept)
    <3>1. k + drop \in 1 .. Len(grown) /\ k \in Int /\ drop \in Int
      BY <1>0, <1>2, <1>3, <1>4
    <3>2. kept[k].seq = d.seq - Len(d.log) + (k + drop)
      BY <3>1, <2>3, <1>4
    <3> QED
      BY <3>1, <3>2, <1>0
  <2>5. e.outbox = 1 .. e.seq
    BY <2>1, <1>0, <1>7 DEF LogIsGapless
  <2>6. Len(d.log) <= d.seq
    BY <1>7 DEF LogIsGapless
  <2>7. Len(e.log) <= e.seq
    BY <2>1, <2>6, <1>0, <1>2, <1>3, <1>4
  <2>8. \A k \in 1 .. Len(e.log) : e.log[k].seq = e.seq - Len(e.log) + k
    BY <2>1, <2>4, <1>0, <1>2, <1>3, <1>4, SMTT(30)
  <2> QED
    BY <2>5, <2>7, <2>8 DEF LogIsGapless
<1>8. Recorded(d, e, c, i, etag)
  <2>1. e.log = kept /\ e.seq = d.seq + 1
    BY <1>5 DEF Tables
  <2>2. event.collection = c /\ event.id = i /\ event.etag = etag
    OBVIOUS
  <2> HIDE DEF event
  <2>3. drop \in 0 .. Len(d.log) + 1 /\ Len(kept) = Len(d.log) + 1 - drop
    BY <1>2, <1>3, <1>4
  <2>4. ASSUME NEW k \in 1 .. Len(kept)
        PROVE  IF k + drop <= Len(d.log) THEN kept[k] = d.log[k + drop]
               ELSE kept[k].collection = c /\ kept[k].id = i /\ kept[k].etag = etag
    <3>1. kept[k] = grown[k + drop] /\ k + drop \in 1 .. Len(d.log) + 1
      BY <1>2, <1>4, <2>3
    <3>2. CASE k + drop <= Len(d.log)
      BY <1>2, <3>1, <3>2
    <3>3. CASE ~(k + drop <= Len(d.log))
      <4>1. k + drop = Len(d.log) + 1
        BY <1>2, <3>1, <3>3
      <4> QED
        BY <1>2, <2>2, <3>1, <3>3, <4>1
    <3> QED
      BY <3>2, <3>3
  <2> QED
    BY <2>1, <2>3, <2>4 DEF Recorded
<1> QED
  BY <1>6, <1>7, <1>8 DEF e

-----------------------------------------------------------------------------
(* Secondary indexes: writing a document's entries touches nothing else.   *)

LEMMA IndexEntriesType ==
  ASSUME NEW d \in Tables, NEW c \in Collections, NEW i \in Ids,
         NEW body \in Bodies, NEW b
  PROVE  IndexEntries(d, c, i, body, b) \in SUBSET (Vals \X Ids)
<1>1. WritableFields(d, c) \subseteq Fields
  BY DEF WritableFields, Tables
<1>2. \A f \in Fields : body[f] # Absent => <<body[f], i>> \in Vals \X Ids
  BY DEF Bodies
<1> QED
  BY <1>1, <1>2 DEF IndexEntries

LEMMA IndexDocumentFacts ==
  ASSUME NEW d \in Tables, NEW c \in Collections, NEW i \in Ids,
         NEW body \in Bodies
  PROVE  LET e == IndexDocument(d, c, i, body)
         IN  /\ e \in Tables
             /\ SameDocs(d, e) /\ SameTTL(d, e) /\ SameLog(d, e)
             /\ e.count = d.count
<1> DEFINE idx == [b \in IndexBuckets |->
                     IF d.idx[b] = NoBucket THEN NoBucket
                     ELSE d.idx[b] \cup IndexEntries(d, c, i, body, b)]
<1>1. idx \in [IndexBuckets -> (SUBSET (Vals \X Ids)) \cup {NoBucket}]
  <2> SUFFICES ASSUME NEW b \in IndexBuckets, d.idx[b] # NoBucket
               PROVE  d.idx[b] \cup IndexEntries(d, c, i, body, b)
                        \in SUBSET (Vals \X Ids)
    OBVIOUS
  <2>1. d.idx[b] \in SUBSET (Vals \X Ids)
    BY DEF Tables
  <2> QED
    BY <2>1, IndexEntriesType
<1> HIDE DEF idx
<1>2. [d EXCEPT !.idx = idx] \in Tables
  BY <1>1 DEF Tables
<1>3. IndexDocument(d, c, i, body) = [d EXCEPT !.idx = idx]
  BY DEF IndexDocument, idx
<1> QED
  BY <1>2, <1>3 DEF Tables, SameDocs, SameTTL, SameLog

LEMMA UnindexDocumentFacts ==
  ASSUME NEW d \in Tables, NEW c \in Collections, NEW i \in Ids,
         NEW body \in Bodies
  PROVE  LET e == UnindexDocument(d, c, i, body)
         IN  /\ e \in Tables
             /\ SameDocs(d, e) /\ SameTTL(d, e) /\ SameLog(d, e)
             /\ e.count = d.count
<1> DEFINE idx == [b \in IndexBuckets |->
                     IF d.idx[b] = NoBucket THEN NoBucket
                     ELSE d.idx[b] \ IndexEntries(d, c, i, body, b)]
<1>1. idx \in [IndexBuckets -> (SUBSET (Vals \X Ids)) \cup {NoBucket}]
  <2> SUFFICES ASSUME NEW b \in IndexBuckets, d.idx[b] # NoBucket
               PROVE  d.idx[b] \in SUBSET (Vals \X Ids)
    OBVIOUS
  <2> QED
    BY DEF Tables
<1> HIDE DEF idx
<1>2. [d EXCEPT !.idx = idx] \in Tables
  BY <1>1 DEF Tables
<1>3. UnindexDocument(d, c, i, body) = [d EXCEPT !.idx = idx]
  BY DEF UnindexDocument, idx
<1> QED
  BY <1>2, <1>3 DEF Tables, SameDocs, SameTTL, SameLog

LEMMA UnindexStoredFacts ==
  ASSUME NEW d \in Tables, NEW c \in Collections, NEW i \in Ids
  PROVE  LET e == UnindexStored(d, c, i)
         IN  /\ e \in Tables
             /\ SameDocs(d, e) /\ SameTTL(d, e) /\ SameLog(d, e)
             /\ e.count = d.count
<1>1. CASE d.docs[c][i] = NoDoc
  BY <1>1 DEF UnindexStored, SameDocs, SameTTL, SameLog
<1>2. CASE d.docs[c][i] # NoDoc
  <2>1. d.docs[c][i] \in Bodies
    BY <1>2 DEF Tables
  <2> QED
    BY <1>2, <2>1, UnindexDocumentFacts DEF UnindexStored
<1> QED
  BY <1>1, <1>2

-----------------------------------------------------------------------------
(* Counts.                                                                 *)

\* The tables of a file between transactions, and of a transaction's view.
Good(d) ==
  d \in Tables /\ CountsExact(d) /\ TTLTablesAgree(d) /\ LogIsGapless(d)

LEMMA DocIdsFinite ==
  ASSUME NEW d, NEW c
  PROVE  IsFiniteSet(DocIds(d, c)) /\ Cardinality(DocIds(d, c)) \in Nat
<1>1. DocIds(d, c) \in SUBSET Ids
  BY DEF DocIds
<1> QED
  BY <1>1, NamesAssumption, FS_Subset, FS_CardinalityType

\* Stored or counted from the committed pages, the count is the number of
\* documents: a collection without a stored count is new in this transaction.
LEMMA CollectionCountExact ==
  ASSUME NEW base \in Tables, NEW d \in Tables, NEW c \in Collections,
         CountsExact(base), CountsExact(d), base.exists \subseteq d.exists
  PROVE  CollectionCount(base, d, c) = Cardinality(DocIds(d, c))
<1>1. CASE c \in d.exists
  <2>1. d.count[c] = Cardinality(DocIds(d, c))
    BY <1>1 DEF CountsExact
  <2> QED
    BY <2>1, DocIdsFinite, NamesAssumption DEF CollectionCount
<1>2. CASE c \notin d.exists
  <2>1. d.count[c] = NoCount /\ DocIds(d, c) = {}
    BY <1>2 DEF CountsExact
  <2>2. DocIds(base, c) = {}
    BY <1>2 DEF CountsExact
  <2> QED
    BY <2>1, <2>2 DEF CollectionCount
<1> QED
  BY <1>1, <1>2

LEMMA IncrementCountFacts ==
  ASSUME NEW base \in Tables, NEW d \in Tables, NEW c \in Collections,
         CountsExact(base), CountsExact(d), base.exists \subseteq d.exists,
         NEW delta \in Int
  PROVE  LET e == IncrementCount(base, d, c, delta)
             n == Cardinality(DocIds(d, c)) + delta
         IN  /\ e \in Tables
             /\ SameDocs(d, e) /\ SameTTL(d, e) /\ SameLog(d, e)
             /\ e.count = [d.count EXCEPT ![c] = IF n < 0 THEN 0 ELSE n]
<1> DEFINE n == Cardinality(DocIds(d, c)) + delta
           m == IF n < 0 THEN 0 ELSE n
<1>1. m \in Nat
  BY DocIdsFinite
<1>2. IncrementCount(base, d, c, delta) = [d EXCEPT !.count[c] = m]
  BY CollectionCountExact DEF IncrementCount
<1> HIDE DEF m
<1>3. /\ [d EXCEPT !.count[c] = m] \in Tables
      /\ [d EXCEPT !.count[c] = m].count = [d.count EXCEPT ![c] = m]
  BY <1>1 DEF Tables
<1> QED
  BY <1>2, <1>3 DEF Tables, SameDocs, SameTTL, SameLog, m

\* The count after one document came or went.
LEMMA CountsAfterChange ==
  ASSUME NEW d \in Tables, NEW e \in Tables, NEW c \in Collections, NEW i \in Ids,
         NEW body \in Bodies \cup {NoDoc},
         CountsExact(d),
         e.exists = d.exists \cup {c},
         e.docs = [d.docs EXCEPT ![c][i] = body],
         \A x \in Collections \ {c} : e.count[x] = d.count[x],
         e.count[c] = Cardinality(DocIds(d, c))
                        + (IF body # NoDoc /\ d.docs[c][i] = NoDoc THEN 1 ELSE 0)
                        - (IF body = NoDoc /\ d.docs[c][i] # NoDoc THEN 1 ELSE 0)
  PROVE  CountsExact(e)
<1>1. ASSUME NEW x \in Collections \ {c}
      PROVE  IF x \in e.exists THEN e.count[x] = Cardinality(DocIds(e, x))
             ELSE e.count[x] = NoCount /\ DocIds(e, x) = {}
  <2>1. DocIds(e, x) = DocIds(d, x)
    BY DEF DocIds, Tables
  <2> QED
    BY <2>1 DEF CountsExact
<1>2. e.count[c] = Cardinality(DocIds(e, c))
  <2>1. e.docs[c][i] = body /\ \A j \in Ids \ {i} : e.docs[c][j] = d.docs[c][j]
    BY DEF Tables
  <2>2. CASE body # NoDoc
    <3>1. DocIds(e, c) = DocIds(d, c) \cup {i}
      BY <2>1, <2>2 DEF DocIds
    <3>2. i \in DocIds(d, c) <=> d.docs[c][i] # NoDoc
      BY DEF DocIds
    <3>3. Cardinality(DocIds(e, c)) =
            IF i \in DocIds(d, c) THEN Cardinality(DocIds(d, c))
            ELSE Cardinality(DocIds(d, c)) + 1
      BY <3>1, DocIdsFinite, FS_AddElement
    <3>4. Cardinality(DocIds(d, c)) \in Nat
      BY DocIdsFinite
    <3> QED
      BY <2>2, <3>2, <3>3, <3>4
  <2>3. CASE body = NoDoc
    <3>1. DocIds(e, c) = DocIds(d, c) \ {i}
      BY <2>1, <2>3 DEF DocIds
    <3>2. i \in DocIds(d, c) <=> d.docs[c][i] # NoDoc
      BY DEF DocIds
    <3>3. Cardinality(DocIds(e, c)) =
            IF i \in DocIds(d, c) THEN Cardinality(DocIds(d, c)) - 1
            ELSE Cardinality(DocIds(d, c))
      BY <3>1, DocIdsFinite, FS_RemoveElement
    <3>4. Cardinality(DocIds(d, c)) \in Nat
      BY DocIdsFinite
    <3> QED
      BY <2>3, <3>2, <3>3, <3>4
  <2> QED
    BY <2>2, <2>3
<1> QED
  BY <1>1, <1>2 DEF CountsExact

-----------------------------------------------------------------------------
(* TTL.                                                                    *)

\* The part of TTLTablesAgree that is about the two TTL buckets alone.
KeysAgree(d) ==
  /\ \A k \in d.ttlIndex : d.ttlByDoc[<<k[2], k[3]>>] = k[1]
  /\ \A x \in Collections, j \in Ids :
       d.ttlByDoc[<<x, j>>] # NoTTL => <<d.ttlByDoc[<<x, j>>], x, j>> \in d.ttlIndex

LEMMA PutTTLFacts ==
  ASSUME NEW d \in Tables, NEW c \in Collections, NEW i \in Ids,
         NEW expireAt \in Nat \cup {NoTTL}, KeysAgree(d)
  PROVE  LET e == PutTTL(d, c, i, expireAt)
         IN  /\ e \in Tables
             /\ SameDocs(d, e) /\ SameLog(d, e) /\ e.count = d.count
             /\ e.ttlByDoc = [d.ttlByDoc EXCEPT ![<<c, i>>] = expireAt]
             /\ KeysAgree(e)
<1> DEFINE e == PutTTL(d, c, i, expireAt)
           old == { <<d.ttlByDoc[<<c, i>>], c, i>> }
           new == IF expireAt = NoTTL THEN {} ELSE { <<expireAt, c, i>> }
           byDoc == [d.ttlByDoc EXCEPT ![<<c, i>>] = expireAt]
           index == (d.ttlIndex \ old) \cup new
<1>1. e = [d EXCEPT !.ttlIndex = index, !.ttlByDoc = byDoc]
  BY DEF PutTTL, SetTTL, ClearTTL, Tables
<1>2. byDoc \in [Collections \X Ids -> Nat \cup {NoTTL}]
  BY DEF Tables
<1>3. index \in SUBSET (Nat \X Collections \X Ids)
  BY DEF Tables
<1>4. e \in Tables /\ SameDocs(d, e) /\ SameLog(d, e) /\ e.count = d.count
  <2> HIDE DEF index, byDoc, e
  <2> QED
    BY <1>1, <1>2, <1>3 DEF Tables, SameDocs, SameLog
<1>5. e.ttlByDoc = byDoc /\ e.ttlIndex = index
  <2> HIDE DEF index, byDoc, e
  <2> QED
    BY <1>1 DEF Tables
<1>6. \A k \in index : byDoc[<<k[2], k[3]>>] = k[1]
  <2> TAKE k \in index
  <2>1. k \in Nat \X Collections \X Ids
    BY <1>3
  <2>2. PICK t \in Nat, x \in Collections, j \in Ids : k = <<t, x, j>>
    BY <2>1
  <2>3. CASE k \in new
    BY <2>3, <1>2 DEF Tables
  <2>4. CASE k \in d.ttlIndex \ old
    <3>1. d.ttlByDoc[<<x, j>>] = t
      BY <2>2, <2>4 DEF KeysAgree
    <3>2. <<x, j>> # <<c, i>>
      BY <2>2, <2>4, <3>1
    <3> QED
      BY <2>2, <3>1, <3>2 DEF Tables
  <2> QED
    BY <2>3, <2>4
<1>7. ASSUME NEW x \in Collections, NEW j \in Ids, byDoc[<<x, j>>] # NoTTL
      PROVE  <<byDoc[<<x, j>>], x, j>> \in index
  <2>1. CASE <<x, j>> = <<c, i>>
    BY <1>7, <2>1 DEF Tables
  <2>2. CASE <<x, j>> # <<c, i>>
    BY <1>7, <2>2 DEF Tables, KeysAgree
  <2> QED
    BY <2>1, <2>2
<1> HIDE DEF e, index, byDoc
<1> QED
  BY <1>4, <1>5, <1>6, <1>7 DEF e, byDoc, KeysAgree

-----------------------------------------------------------------------------
(* The transaction bodies keep the tables in agreement.                    *)

LEMMA StoreDocumentGood ==
  ASSUME NEW base, NEW d, Good(base), Good(d), base.exists \subseteq d.exists,
         NEW c \in Collections, NEW i \in Ids, NEW body \in Bodies,
         NEW expireAt \in Nat \cup {NoTTL}
  PROVE  LET e == StoreDocument(base, d, c, i, body, expireAt)
         IN  Good(e) /\ e.exists = d.exists \cup {c} /\ Alters(d, e, c, i, body)
<1> DEFINE isInsert == d.docs[c][i] = NoDoc
           cleaned  == UnindexStored(d, c, i)
           counted  == IF isInsert THEN IncrementCount(base, cleaned, c, 1)
                       ELSE cleaned
           written  == [ counted EXCEPT !.exists = d.exists \cup {c},
                                        !.docs[c][i] = body ]
           expiring == PutTTL(written, c, i, expireAt)
           indexed  == IndexDocument(expiring, c, i, body)
           action   == IF isInsert THEN "insert" ELSE "update"
           e        == StoreDocument(base, d, c, i, body, expireAt)
<1>1. d \in Tables /\ base \in Tables /\ body # NoDoc
  BY MarkersAssumption DEF Good
<1>2. /\ cleaned \in Tables
      /\ SameDocs(d, cleaned) /\ SameTTL(d, cleaned) /\ SameLog(d, cleaned)
      /\ cleaned.count = d.count
  BY <1>1, UnindexStoredFacts
<1>3. CountsExact(cleaned) /\ DocIds(cleaned, c) = DocIds(d, c)
  BY <1>2 DEF Good, CountsExact, SameDocs, DocIds
<1> HIDE DEF cleaned
<1>4. /\ counted \in Tables
      /\ SameDocs(d, counted) /\ SameTTL(d, counted) /\ SameLog(d, counted)
      /\ \A x \in Collections \ {c} : counted.count[x] = d.count[x]
      /\ isInsert => counted.count[c] = Cardinality(DocIds(d, c)) + 1
      /\ ~isInsert => counted.count[c] = d.count[c]
  <2>1. CASE isInsert
    <3>1. base.exists \subseteq cleaned.exists /\ CountsExact(base)
      BY <1>2 DEF SameDocs, Good
    <3>2. Cardinality(DocIds(d, c)) \in Nat
      BY DocIdsFinite
    <3>3. /\ counted \in Tables
          /\ SameDocs(cleaned, counted) /\ SameTTL(cleaned, counted)
          /\ SameLog(cleaned, counted)
          /\ counted.count = [cleaned.count EXCEPT
                                ![c] = Cardinality(DocIds(d, c)) + 1]
      <4> DEFINE n == Cardinality(DocIds(cleaned, c)) + 1
      <4>1. /\ counted \in Tables /\ SameDocs(cleaned, counted)
            /\ SameTTL(cleaned, counted) /\ SameLog(cleaned, counted)
            /\ counted.count = [cleaned.count EXCEPT ![c] = IF n < 0 THEN 0 ELSE n]
        <5>1. counted = IncrementCount(base, cleaned, c, 1)
          BY <2>1
        <5>2. 1 \in Int
          OBVIOUS
        <5> DEFINE f == IncrementCount(base, cleaned, c, 1)
        <5>3. /\ f \in Tables /\ SameDocs(cleaned, f)
              /\ SameTTL(cleaned, f) /\ SameLog(cleaned, f)
              /\ f.count = [cleaned.count EXCEPT ![c] = IF n < 0 THEN 0 ELSE n]
          BY <5>2, <1>1, <1>2, <1>3, <3>1, IncrementCountFacts
        <5> HIDE DEF counted, f, n
        <5> QED
          BY <5>1, <5>3 DEF f
      <4>2. (IF n < 0 THEN 0 ELSE n) = Cardinality(DocIds(d, c)) + 1
        BY <1>3, <3>2
      <4> QED
        BY <4>1, <4>2
    <3> QED
      BY <2>1, <3>3, <1>2 DEF Tables, SameDocs, SameTTL, SameLog
  <2>2. CASE ~isInsert
    BY <2>2, <1>2
  <2> QED
    BY <2>1, <2>2
<1> HIDE DEF counted
<1>5. /\ written \in Tables
      /\ written.exists = d.exists \cup {c}
      /\ written.docs = [d.docs EXCEPT ![c][i] = body]
      /\ written.count = counted.count
      /\ SameTTL(d, written) /\ SameLog(d, written)
  BY <1>1, <1>4 DEF Tables, SameDocs, SameTTL, SameLog
<1> HIDE DEF written
<1>6. KeysAgree(written)
  BY <1>5 DEF TTLTablesAgree, KeysAgree, SameTTL, Good
<1>7. /\ expiring \in Tables
      /\ SameDocs(written, expiring) /\ SameLog(written, expiring)
      /\ expiring.count = written.count
      /\ expiring.ttlByDoc = [written.ttlByDoc EXCEPT ![<<c, i>>] = expireAt]
      /\ KeysAgree(expiring)
  BY <1>5, <1>6, PutTTLFacts
<1> HIDE DEF expiring
<1>8. /\ indexed \in Tables
      /\ SameDocs(expiring, indexed) /\ SameTTL(expiring, indexed)
      /\ SameLog(expiring, indexed) /\ indexed.count = expiring.count
  BY <1>7, IndexDocumentFacts
<1> HIDE DEF indexed
<1>9. e = RecordEvent(base, indexed, action, c, i, body)
  BY DEF StoreDocument, cleaned, counted, written, expiring, indexed
<1>10. LogIsGapless(indexed)
  BY <1>5, <1>7, <1>8 DEF SameLog, LogIsGapless, Good
<1>11. /\ e \in Tables /\ LogIsGapless(e) /\ Recorded(indexed, e, c, i, body)
       /\ SameDocs(indexed, e) /\ SameTTL(indexed, e) /\ e.count = indexed.count
  <2>1. action \in EventActions
    BY DEF EventActions
  <2> HIDE DEF action
  <2> DEFINE f == RecordEvent(base, indexed, action, c, i, body)
  <2>2. /\ f \in Tables /\ (LogIsGapless(indexed) => LogIsGapless(f))
        /\ Recorded(indexed, f, c, i, body)
        /\ SameDocs(indexed, f) /\ SameTTL(indexed, f) /\ f.count = indexed.count
    BY <2>1, <1>1, <1>8, RecordEventFacts
  <2> HIDE DEF f, e
  <2> QED
    BY <2>2, <1>9, <1>10 DEF f
<1> HIDE DEF e
<1>12. e.exists = d.exists \cup {c} /\ e.docs = [d.docs EXCEPT ![c][i] = body]
       /\ e.count = counted.count
  BY <1>5, <1>7, <1>8, <1>11 DEF SameDocs
<1>13. CountsExact(e)
  <2>1. ~isInsert => counted.count[c] = Cardinality(DocIds(d, c))
    <3> SUFFICES ASSUME ~isInsert
                 PROVE  d.count[c] = Cardinality(DocIds(d, c))
      BY <1>4
    <3>1. DocIds(d, c) # {}
      BY DEF DocIds
    <3> QED
      BY <3>1 DEF Good, CountsExact
  <2>2. Cardinality(DocIds(d, c)) \in Nat
    BY DocIdsFinite
  <2>3. e.count[c] = Cardinality(DocIds(d, c))
                     + (IF body # NoDoc /\ d.docs[c][i] = NoDoc THEN 1 ELSE 0)
                     - (IF body = NoDoc /\ d.docs[c][i] # NoDoc THEN 1 ELSE 0)
    BY <2>1, <2>2, <1>1, <1>4, <1>12
  <2>4. \A x \in Collections \ {c} : e.count[x] = d.count[x]
    BY <1>4, <1>12
  <2> QED
    BY <2>3, <2>4, <1>1, <1>11, <1>12, CountsAfterChange DEF Good
<1>14. TTLTablesAgree(e)
  <2>1. e.ttlByDoc = [d.ttlByDoc EXCEPT ![<<c, i>>] = expireAt]
    BY <1>5, <1>7, <1>8, <1>11 DEF SameTTL
  <2>2. \A x \in Collections, j \in Ids :
          e.ttlByDoc[<<x, j>>] # NoTTL => e.docs[x][j] # NoDoc
    BY <2>1, <1>1, <1>12 DEF Good, TTLTablesAgree, Tables
  <2> QED
    BY <2>2, <1>7, <1>8, <1>11 DEF TTLTablesAgree, KeysAgree, SameTTL
<1>15. Alters(d, e, c, i, body)
  <2>1. indexed.seq = d.seq /\ indexed.log = d.log
    BY <1>5, <1>7, <1>8 DEF SameLog
  <2> QED
    BY <1>11, <1>12, <2>1 DEF Alters, Recorded
<1> QED
  BY <1>11, <1>12, <1>13, <1>14, <1>15 DEF Good, e

LEMMA MergeDocumentGood ==
  ASSUME NEW base, NEW d, Good(base), Good(d),
         NEW c \in d.exists, NEW i \in Ids, d.docs[c][i] # NoDoc,
         NEW patch \in Patches
  PROVE  LET e == MergeDocument(base, d, c, i, patch)
         IN  /\ Good(e) /\ e.exists = d.exists
             /\ \E body \in Bodies : Alters(d, e, c, i, body)
<1> DEFINE body    == Merge(d.docs[c][i], patch)
           cleaned == UnindexStored(d, c, i)
           written == [ cleaned EXCEPT !.docs[c][i] = body ]
           indexed == IndexDocument(written, c, i, body)
           e       == MergeDocument(base, d, c, i, patch)
<1>1. d \in Tables /\ base \in Tables /\ c \in Collections
  BY DEF Good, Tables
<1>2. body \in Bodies /\ body # NoDoc
  <2>1. d.docs[c][i] \in Bodies
    BY <1>1 DEF Tables
  <2>2. body \in Bodies
    BY <2>1 DEF Merge, Bodies, Patches
  <2> QED
    BY <2>2, MarkersAssumption
<1> HIDE DEF body
<1>3. /\ cleaned \in Tables
      /\ SameDocs(d, cleaned) /\ SameTTL(d, cleaned) /\ SameLog(d, cleaned)
      /\ cleaned.count = d.count
  BY <1>1, UnindexStoredFacts
<1> HIDE DEF cleaned
<1>4. /\ written \in Tables
      /\ written.exists = d.exists
      /\ written.docs = [d.docs EXCEPT ![c][i] = body]
      /\ written.count = d.count
      /\ SameTTL(d, written) /\ SameLog(d, written)
  BY <1>1, <1>2, <1>3 DEF Tables, SameDocs, SameTTL, SameLog
<1> HIDE DEF written
<1>5. /\ indexed \in Tables
      /\ SameDocs(written, indexed) /\ SameTTL(written, indexed)
      /\ SameLog(written, indexed) /\ indexed.count = written.count
  BY <1>1, <1>2, <1>4, IndexDocumentFacts
<1> HIDE DEF indexed
<1>6. e = RecordEvent(base, indexed, "update", c, i, body)
  BY DEF MergeDocument, body, cleaned, written, indexed
<1>7. LogIsGapless(indexed)
  BY <1>4, <1>5 DEF SameLog, LogIsGapless, Good
<1>8. /\ e \in Tables /\ LogIsGapless(e) /\ Recorded(indexed, e, c, i, body)
      /\ SameDocs(indexed, e) /\ SameTTL(indexed, e) /\ e.count = indexed.count
  <2>1. "update" \in EventActions
    BY DEF EventActions
  <2> DEFINE f == RecordEvent(base, indexed, "update", c, i, body)
  <2>2. /\ f \in Tables /\ (LogIsGapless(indexed) => LogIsGapless(f))
        /\ Recorded(indexed, f, c, i, body)
        /\ SameDocs(indexed, f) /\ SameTTL(indexed, f) /\ f.count = indexed.count
    BY <2>1, <1>1, <1>2, <1>5, RecordEventFacts
  <2> HIDE DEF f, e
  <2> QED
    BY <2>2, <1>6, <1>7 DEF f
<1> HIDE DEF e
<1>9. e.exists = d.exists /\ e.docs = [d.docs EXCEPT ![c][i] = body]
      /\ e.count = d.count /\ SameTTL(d, e)
  BY <1>4, <1>5, <1>8 DEF SameDocs, SameTTL
<1>10. CountsExact(e)
  <2>1. d.count[c] = Cardinality(DocIds(d, c)) /\ Cardinality(DocIds(d, c)) \in Nat
    BY <1>1, DocIdsFinite DEF Good, CountsExact
  <2>2. e.exists = d.exists \cup {c}
    BY <1>9
  <2>3. e.count[c] = Cardinality(DocIds(d, c))
                     + (IF body # NoDoc /\ d.docs[c][i] = NoDoc THEN 1 ELSE 0)
                     - (IF body = NoDoc /\ d.docs[c][i] # NoDoc THEN 1 ELSE 0)
    BY <2>1, <1>2, <1>9
  <2> QED
    BY <2>2, <2>3, <1>1, <1>2, <1>8, <1>9, CountsAfterChange DEF Good
<1>11. TTLTablesAgree(e)
  <2>1. \A x \in Collections, j \in Ids :
          d.docs[x][j] # NoDoc => e.docs[x][j] # NoDoc
    BY <1>1, <1>2, <1>9 DEF Tables
  <2> QED
    BY <2>1, <1>9 DEF Good, TTLTablesAgree, SameTTL
<1>12. Alters(d, e, c, i, body)
  <2>1. indexed.seq = d.seq /\ indexed.log = d.log
    BY <1>4, <1>5 DEF SameLog
  <2> QED
    BY <1>8, <1>9, <2>1 DEF Alters, Recorded
<1> QED
  BY <1>2, <1>8, <1>9, <1>10, <1>11, <1>12 DEF Good, e

\* What the removal of a document and the purge of one have in common.
LEMMA UncountFacts ==
  ASSUME NEW base, NEW d, Good(base), Good(d), base.exists \subseteq d.exists,
         NEW c \in d.exists, NEW i \in Ids, d.docs[c][i] # NoDoc
  PROVE  LET e == IncrementCount(base, UnindexStored(d, c, i), c, -1)
         IN  /\ e \in Tables
             /\ SameDocs(d, e) /\ SameTTL(d, e) /\ SameLog(d, e)
             /\ e.count = [d.count EXCEPT ![c] = Cardinality(DocIds(d, c)) - 1]
             /\ Cardinality(DocIds(d, c)) - 1 \in Nat
<1> DEFINE cleaned == UnindexStored(d, c, i)
           e == IncrementCount(base, cleaned, c, -1)
<1>1. d \in Tables /\ base \in Tables /\ c \in Collections
  BY DEF Good, Tables
<1>2. /\ cleaned \in Tables
      /\ SameDocs(d, cleaned) /\ SameTTL(d, cleaned) /\ SameLog(d, cleaned)
      /\ cleaned.count = d.count
  BY <1>1, UnindexStoredFacts
<1> HIDE DEF cleaned
<1>3. CountsExact(cleaned) /\ DocIds(cleaned, c) = DocIds(d, c)
      /\ base.exists \subseteq cleaned.exists /\ CountsExact(base)
  BY <1>2 DEF Good, CountsExact, SameDocs, DocIds
<1>4. Cardinality(DocIds(d, c)) - 1 \in Nat
  <2>1. i \in DocIds(d, c) /\ IsFiniteSet(DocIds(d, c))
        /\ Cardinality(DocIds(d, c)) \in Nat
    BY DocIdsFinite DEF DocIds
  <2>2. Cardinality(DocIds(d, c)) # 0
    BY <2>1, FS_EmptySet
  <2> QED
    BY <2>1, <2>2
<1> DEFINE n == Cardinality(DocIds(cleaned, c)) + (-1)
<1>5. /\ e \in Tables
      /\ SameDocs(cleaned, e) /\ SameTTL(cleaned, e) /\ SameLog(cleaned, e)
      /\ e.count = [cleaned.count EXCEPT ![c] = IF n < 0 THEN 0 ELSE n]
  <2>1. -1 \in Int
    OBVIOUS
  <2> QED
    BY <2>1, <1>1, <1>2, <1>3, IncrementCountFacts
<1>6. (IF n < 0 THEN 0 ELSE n) = Cardinality(DocIds(d, c)) - 1
  BY <1>3, <1>4, DocIdsFinite
<1> HIDE DEF e, n
<1>7. /\ e \in Tables
      /\ SameDocs(d, e) /\ SameTTL(d, e) /\ SameLog(d, e)
      /\ e.count = [d.count EXCEPT ![c] = Cardinality(DocIds(d, c)) - 1]
  BY <1>2, <1>5, <1>6 DEF SameDocs, SameTTL, SameLog
<1> QED
  BY <1>4, <1>7 DEF e, cleaned

\* The last step of a removal: the document goes, and the event is recorded.
LEMMA RecordedRemovalGood ==
  ASSUME NEW base, NEW d, NEW r, Good(base), Good(d),
         NEW c \in d.exists, NEW i \in Ids, d.docs[c][i] # NoDoc,
         r \in Tables, r.exists = d.exists,
         r.docs = [d.docs EXCEPT ![c][i] = NoDoc],
         r.count = [d.count EXCEPT ![c] = Cardinality(DocIds(d, c)) - 1],
         SameLog(d, r)
  PROVE  LET e == RecordEvent(base, r, "delete", c, i, NoDoc)
         IN  /\ e \in Tables /\ CountsExact(e) /\ LogIsGapless(e)
             /\ SameDocs(r, e) /\ SameTTL(r, e) /\ Alters(d, e, c, i, NoDoc)
<1> DEFINE e == RecordEvent(base, r, "delete", c, i, NoDoc)
<1>1. d \in Tables /\ base \in Tables /\ c \in Collections
  BY DEF Good, Tables
<1>2. LogIsGapless(r)
  BY DEF SameLog, LogIsGapless, Good
<1>3. /\ e \in Tables /\ LogIsGapless(e) /\ Recorded(r, e, c, i, NoDoc)
      /\ SameDocs(r, e) /\ SameTTL(r, e) /\ e.count = r.count
  <2>1. "delete" \in EventActions /\ NoDoc \in Bodies \cup {NoDoc}
    BY DEF EventActions
  <2> QED
    BY <2>1, <1>1, <1>2, RecordEventFacts
<1> HIDE DEF e
<1>4. CountsExact(e)
  <2>1. PICK none \in Bodies \cup {NoDoc} : none = NoDoc
    OBVIOUS
  <2>2. /\ e.exists = d.exists \cup {c}
        /\ e.docs = [d.docs EXCEPT ![c][i] = none]
        /\ \A x \in Collections \ {c} : e.count[x] = d.count[x]
        /\ e.count[c] = Cardinality(DocIds(d, c)) - 1
    BY <2>1, <1>1, <1>3 DEF SameDocs, Tables
  <2>3. Cardinality(DocIds(d, c)) \in Nat
    BY DocIdsFinite
  <2>4. e.count[c] = Cardinality(DocIds(d, c))
                     + (IF none # NoDoc /\ d.docs[c][i] = NoDoc THEN 1 ELSE 0)
                     - (IF none = NoDoc /\ d.docs[c][i] # NoDoc THEN 1 ELSE 0)
    BY <2>1, <2>2, <2>3
  <2>5. CountsExact(d) /\ d \in Tables /\ e \in Tables /\ c \in Collections
    BY <1>1, <1>3 DEF Good
  <2> QED
    BY <2>2, <2>4, <2>5, CountsAfterChange, SMTT(60)
<1>5. Alters(d, e, c, i, NoDoc)
  BY <1>3 DEF Alters, Recorded, SameLog, SameDocs
<1> QED
  BY <1>3, <1>4, <1>5 DEF e

LEMMA RemoveDocumentGood ==
  ASSUME NEW base, NEW d, Good(base), Good(d), base.exists \subseteq d.exists,
         NEW c \in d.exists, NEW i \in Ids, d.docs[c][i] # NoDoc
  PROVE  LET e == RemoveDocument(base, d, c, i)
         IN  Good(e) /\ e.exists = d.exists /\ Alters(d, e, c, i, NoDoc)
<1> DEFINE counted == IncrementCount(base, UnindexStored(d, c, i), c, -1)
           cleared == ClearTTL(counted, c, i)
           removed == [ cleared EXCEPT !.docs[c][i] = NoDoc ]
           e       == RemoveDocument(base, d, c, i)
<1>1. d \in Tables /\ c \in Collections
  BY DEF Good, Tables
<1>2. /\ counted \in Tables
      /\ SameDocs(d, counted) /\ SameTTL(d, counted) /\ SameLog(d, counted)
      /\ counted.count = [d.count EXCEPT ![c] = Cardinality(DocIds(d, c)) - 1]
  BY UncountFacts
<1> HIDE DEF counted
<1>3. KeysAgree(counted)
  BY <1>2 DEF Good, TTLTablesAgree, KeysAgree, SameTTL
<1>4. /\ cleared \in Tables
      /\ SameDocs(counted, cleared) /\ SameLog(counted, cleared)
      /\ cleared.count = counted.count /\ KeysAgree(cleared)
      /\ cleared.ttlByDoc = [counted.ttlByDoc EXCEPT ![<<c, i>>] = NoTTL]
  <2>1. PICK none \in Nat \cup {NoTTL} : none = NoTTL
    OBVIOUS
  <2> DEFINE f == PutTTL(counted, c, i, none)
  <2>2. cleared = f
    BY <2>1 DEF PutTTL
  <2>3. /\ f \in Tables /\ SameDocs(counted, f) /\ SameLog(counted, f)
        /\ f.count = counted.count /\ KeysAgree(f)
        /\ f.ttlByDoc = [counted.ttlByDoc EXCEPT ![<<c, i>>] = none]
    BY <1>1, <1>2, <1>3, PutTTLFacts
  <2> HIDE DEF cleared, f
  <2> QED
    BY <2>1, <2>2, <2>3
<1> HIDE DEF cleared
<1>5. /\ removed \in Tables /\ removed.exists = d.exists
      /\ removed.docs = [d.docs EXCEPT ![c][i] = NoDoc]
      /\ removed.count = [d.count EXCEPT ![c] = Cardinality(DocIds(d, c)) - 1]
      /\ SameLog(d, removed) /\ SameTTL(cleared, removed)
  BY <1>1, <1>2, <1>4 DEF Tables, SameDocs, SameTTL, SameLog
<1> HIDE DEF removed
<1>6. e = RecordEvent(base, removed, "delete", c, i, NoDoc)
  BY DEF RemoveDocument, counted, cleared, removed
<1> HIDE DEF e
<1>7. /\ e \in Tables /\ CountsExact(e) /\ LogIsGapless(e)
      /\ SameDocs(removed, e) /\ SameTTL(removed, e) /\ Alters(d, e, c, i, NoDoc)
  BY <1>5, <1>6, RecordedRemovalGood
<1>8. TTLTablesAgree(e)
  <2>1. KeysAgree(e)
    BY <1>4, <1>5, <1>7 DEF KeysAgree, SameTTL
  <2>2. /\ e.ttlByDoc = [d.ttlByDoc EXCEPT ![<<c, i>>] = NoTTL]
        /\ e.docs = [d.docs EXCEPT ![c][i] = NoDoc]
    BY <1>2, <1>4, <1>5, <1>7 DEF SameTTL, SameDocs
  <2>3. \A x \in Collections, j \in Ids :
          e.ttlByDoc[<<x, j>>] # NoTTL => e.docs[x][j] # NoDoc
    BY <2>2, <1>1 DEF Good, TTLTablesAgree, Tables
  <2> QED
    BY <2>1, <2>3 DEF TTLTablesAgree, KeysAgree
<1> QED
  BY <1>5, <1>7, <1>8 DEF Good, SameDocs, e

LEMMA MakeCollectionGood ==
  ASSUME NEW d, Good(d), NEW c \in Collections, c \notin d.exists
  PROVE  LET e == MakeCollection(d, c)
         IN  Good(e) /\ e.docs = d.docs /\ SameLog(d, e)
<1> DEFINE e == MakeCollection(d, c)
<1>1. d \in Tables
  BY DEF Good
<1>2. /\ e \in Tables /\ e.exists = d.exists \cup {c} /\ e.docs = d.docs
      /\ e.count = [d.count EXCEPT ![c] = 0]
      /\ SameTTL(d, e) /\ SameLog(d, e)
  BY <1>1 DEF MakeCollection, Tables, SameTTL, SameLog
<1> HIDE DEF e
<1>3. CountsExact(e)
  <2>1. \A x \in Collections : DocIds(e, x) = DocIds(d, x)
    BY <1>2 DEF DocIds
  <2>2. DocIds(d, c) = {} /\ Cardinality({}) = 0
    BY FS_EmptySet DEF Good, CountsExact
  <2>3. \A x \in Collections \ {c} : e.count[x] = d.count[x]
    BY <1>1, <1>2 DEF Tables
  <2>4. e.count[c] = 0
    BY <1>1, <1>2 DEF Tables
  <2> QED
    BY <2>1, <2>2, <2>3, <2>4, <1>2 DEF Good, CountsExact
<1> QED
  BY <1>2, <1>3 DEF Good, TTLTablesAgree, LogIsGapless, SameTTL, SameLog, e

LEMMA DropCollectionGood ==
  ASSUME NEW d, Good(d), NEW c \in Collections
  PROVE  LET e == DropCollection(d, c)
         IN  /\ Good(e) /\ e.exists = d.exists \ {c} /\ SameLog(d, e)
             /\ e.docs = [d.docs EXCEPT ![c] = [i \in Ids |-> NoDoc]]
<1> DEFINE e == DropCollection(d, c)
           index == { k \in d.ttlIndex : k[2] # c }
           byDoc == [k \in Collections \X Ids |->
                       IF k[1] = c THEN NoTTL ELSE d.ttlByDoc[k]]
           docs == [d.docs EXCEPT ![c] = [i \in Ids |-> NoDoc]]
           buckets == { IndexBucketName(c, f) : f \in WritableFields(d, c) }
           idx == [b \in IndexBuckets |->
                     IF b \in buckets THEN NoBucket ELSE d.idx[b]]
<1>1. d \in Tables
  BY DEF Good
<1>2. e = [ d EXCEPT !.exists = d.exists \ {c}, !.docs = docs,
                     !.count = [d.count EXCEPT ![c] = NoCount],
                     !.ttlByDoc = byDoc, !.ttlIndex = index,
                     !.indexed = [d.indexed EXCEPT ![c] = {}],
                     !.building = { b \in d.building : b[1] # c },
                     !.idx = idx ]
  BY <1>1 DEF DropCollection, Tables
<1>3. /\ docs \in [Collections -> [Ids -> Bodies \cup {NoDoc}]]
      /\ byDoc \in [Collections \X Ids -> Nat \cup {NoTTL}]
      /\ index \in SUBSET (Nat \X Collections \X Ids)
      /\ [d.count EXCEPT ![c] = NoCount] \in [Collections -> Nat \cup {NoCount}]
      /\ [d.indexed EXCEPT ![c] = {}] \in [Collections -> SUBSET Fields]
      /\ { b \in d.building : b[1] # c } \in SUBSET (Collections \X Fields)
  BY <1>1 DEF Tables
<1>4. idx \in [IndexBuckets -> (SUBSET (Vals \X Ids)) \cup {NoBucket}]
  BY <1>1 DEF Tables
<1> HIDE DEF e, docs, byDoc, index, idx
<1>5. /\ e \in Tables /\ e.exists = d.exists \ {c} /\ e.docs = docs
      /\ e.count = [d.count EXCEPT ![c] = NoCount]
      /\ e.ttlByDoc = byDoc /\ e.ttlIndex = index /\ SameLog(d, e)
  BY <1>1, <1>2, <1>3, <1>4 DEF Tables, SameLog
<1>6. CountsExact(e)
  <2>1. \A x \in Collections \ {c} :
          DocIds(e, x) = DocIds(d, x) /\ e.count[x] = d.count[x]
    BY <1>1, <1>5 DEF DocIds, docs, Tables
  <2>2. DocIds(e, c) = {} /\ e.count[c] = NoCount
    BY <1>1, <1>5 DEF DocIds, docs, Tables
  <2> QED
    BY <2>1, <2>2, <1>5 DEF Good, CountsExact
<1>7. TTLTablesAgree(e)
  <2>1. ASSUME NEW k \in e.ttlIndex PROVE e.ttlByDoc[<<k[2], k[3]>>] = k[1]
    <3>1. k \in d.ttlIndex /\ k[2] # c
      BY <1>5 DEF index
    <3>2. k \in Nat \X Collections \X Ids
      BY <3>1, <1>1 DEF Tables
    <3>3. d.ttlByDoc[<<k[2], k[3]>>] = k[1]
      BY <3>1 DEF Good, TTLTablesAgree
    <3> QED
      BY <3>1, <3>2, <3>3, <1>5 DEF byDoc
  <2>2. ASSUME NEW x \in Collections, NEW j \in Ids, e.ttlByDoc[<<x, j>>] # NoTTL
        PROVE  /\ <<e.ttlByDoc[<<x, j>>], x, j>> \in e.ttlIndex
               /\ e.docs[x][j] # NoDoc
    <3>1. x # c /\ e.ttlByDoc[<<x, j>>] = d.ttlByDoc[<<x, j>>]
      BY <2>2, <1>5 DEF byDoc
    <3>2. <<d.ttlByDoc[<<x, j>>], x, j>> \in d.ttlIndex /\ d.docs[x][j] # NoDoc
      BY <2>2, <3>1 DEF Good, TTLTablesAgree
    <3> QED
      BY <3>1, <3>2, <1>1, <1>5 DEF index, docs, Tables
  <2> QED
    BY <2>1, <2>2 DEF TTLTablesAgree
<1>8. Good(e)
  BY <1>5, <1>6, <1>7 DEF Good, LogIsGapless, SameLog
<1> QED
  BY <1>5, <1>8 DEF docs, e

\* What the purge of a key takes away.
Removes(d, e, key) ==
  /\ d.docs[key[2]][key[3]] # NoDoc
  /\ Alters(d, e, key[2], key[3], NoDoc)
  /\ e.ttlIndex = d.ttlIndex \ {key}

LEMMA PurgeKeyGood ==
  ASSUME NEW base, NEW d, Good(base), Good(d), base.exists \subseteq d.exists,
         NEW key \in d.ttlIndex
  PROVE  LET e == PurgeKey(base, d, key)
         IN  /\ Good(e) /\ e.exists = d.exists
             /\ Removes(d, e, key)
<1>1. PICK t \in Nat, c \in Collections, i \in Ids : key = <<t, c, i>>
  BY DEF Good, Tables
<1>2. d.ttlByDoc[<<c, i>>] = t /\ t # NoTTL
  BY <1>1, NamesAssumption DEF Good, TTLTablesAgree
<1>3. d.docs[c][i] # NoDoc
  BY <1>2 DEF Good, TTLTablesAgree
<1>4. c \in d.exists
  <2>1. i \in DocIds(d, c)
    BY <1>3 DEF DocIds
  <2> QED
    BY <2>1 DEF Good, CountsExact
<1> DEFINE counted == IncrementCount(base, UnindexStored(d, c, i), c, -1)
           removed == [ counted EXCEPT !.docs[c][i] = NoDoc ]
           gone    == RecordEvent(base, removed, "delete", c, i, NoDoc)
           e       == PurgeKey(base, d, key)
<1>5. d \in Tables
  BY DEF Good
<1>6. /\ counted \in Tables
      /\ SameDocs(d, counted) /\ SameTTL(d, counted) /\ SameLog(d, counted)
      /\ counted.count = [d.count EXCEPT ![c] = Cardinality(DocIds(d, c)) - 1]
  BY <1>3, <1>4, UncountFacts
<1> HIDE DEF counted
<1>7. /\ removed \in Tables /\ removed.exists = d.exists
      /\ removed.docs = [d.docs EXCEPT ![c][i] = NoDoc]
      /\ removed.count = [d.count EXCEPT ![c] = Cardinality(DocIds(d, c)) - 1]
      /\ SameLog(d, removed) /\ SameTTL(d, removed)
  BY <1>5, <1>6 DEF Tables, SameDocs, SameTTL, SameLog
<1> HIDE DEF removed
<1>8. /\ gone \in Tables /\ CountsExact(gone) /\ LogIsGapless(gone)
      /\ SameDocs(removed, gone) /\ SameTTL(removed, gone)
      /\ Alters(d, gone, c, i, NoDoc)
  BY <1>3, <1>4, <1>7, RecordedRemovalGood
<1>9. e = [ gone EXCEPT !.ttlByDoc = [gone.ttlByDoc EXCEPT ![<<c, i>>] = NoTTL],
                        !.ttlIndex = d.ttlIndex \ {key} ]
  <2>1. e = [ [ gone EXCEPT !.ttlByDoc[<<c, i>>] = NoTTL ]
                EXCEPT !.ttlIndex = d.ttlIndex \ {key} ]
    BY <1>1, <1>2, <1>3 DEF PurgeKey, gone, removed, counted
  <2> HIDE DEF e, gone
  <2> QED
    BY <2>1, <1>8 DEF Tables
<1> HIDE DEF gone
<1>10. /\ e \in Tables /\ SameDocs(gone, e) /\ SameLog(gone, e)
       /\ e.count = gone.count
       /\ e.ttlByDoc = [d.ttlByDoc EXCEPT ![<<c, i>>] = NoTTL]
       /\ e.ttlIndex = d.ttlIndex \ {key}
  <2>1. gone.ttlByDoc = d.ttlByDoc
    BY <1>7, <1>8 DEF SameTTL
  <2>2. /\ [gone.ttlByDoc EXCEPT ![<<c, i>>] = NoTTL]
             \in [Collections \X Ids -> Nat \cup {NoTTL}]
        /\ d.ttlIndex \ {key} \in SUBSET (Nat \X Collections \X Ids)
    BY <1>5, <1>8 DEF Tables
  <2> HIDE DEF e
  <2> QED
    BY <1>8, <1>9, <2>1, <2>2 DEF Tables, SameDocs, SameLog
<1> HIDE DEF e
<1>11. e.exists = d.exists /\ e.docs = [d.docs EXCEPT ![c][i] = NoDoc]
  BY <1>7, <1>8, <1>10 DEF SameDocs
<1>12. CountsExact(e) /\ LogIsGapless(e)
  <2>1. \A x \in Collections : DocIds(e, x) = DocIds(gone, x)
    BY <1>10 DEF DocIds, SameDocs
  <2>2. CountsExact(e)
    BY <2>1, <1>8, <1>10 DEF CountsExact, SameDocs
  <2>3. LogIsGapless(e)
    BY <1>8, <1>10 DEF LogIsGapless, SameLog
  <2> QED
    BY <2>2, <2>3
<1>13. TTLTablesAgree(e)
  <2>1. ASSUME NEW k \in e.ttlIndex PROVE e.ttlByDoc[<<k[2], k[3]>>] = k[1]
    <3>1. PICK u \in Nat, x \in Collections, j \in Ids : k = <<u, x, j>>
      BY <1>5, <1>10 DEF Tables
    <3>2. d.ttlByDoc[<<x, j>>] = u
      BY <3>1, <1>10 DEF Good, TTLTablesAgree
    <3>3. <<x, j>> # <<c, i>>
      BY <3>1, <3>2, <1>1, <1>2, <1>10
    <3> QED
      BY <3>1, <3>2, <3>3, <1>5, <1>10 DEF Tables
  <2>2. ASSUME NEW x \in Collections, NEW j \in Ids, e.ttlByDoc[<<x, j>>] # NoTTL
        PROVE  /\ <<e.ttlByDoc[<<x, j>>], x, j>> \in e.ttlIndex
               /\ e.docs[x][j] # NoDoc
    <3>1. <<x, j>> # <<c, i>> /\ e.ttlByDoc[<<x, j>>] = d.ttlByDoc[<<x, j>>]
      BY <2>2, <1>5, <1>10 DEF Tables
    <3>2. <<d.ttlByDoc[<<x, j>>], x, j>> \in d.ttlIndex /\ d.docs[x][j] # NoDoc
      BY <2>2, <3>1 DEF Good, TTLTablesAgree
    <3> QED
      BY <3>1, <3>2, <1>1, <1>5, <1>10, <1>11 DEF Tables
  <2> QED
    BY <2>1, <2>2 DEF TTLTablesAgree
<1>14. Removes(d, e, key)
  <2>1. Alters(d, e, c, i, NoDoc)
    BY <1>8, <1>10, <1>11 DEF Alters, Recorded, SameLog
  <2> QED
    BY <1>1, <1>3, <1>10, <2>1 DEF Removes
<1> QED
  BY <1>10, <1>11, <1>12, <1>13, <1>14 DEF Good, e

LEMMA EmptyFileGood == Good(EmptyFile)
<1>1. EmptyFile \in Tables
  BY DEF EmptyFile, Tables
<1>2. CountsExact(EmptyFile)
  BY DEF EmptyFile, CountsExact, DocIds
<1>3. TTLTablesAgree(EmptyFile)
  BY DEF EmptyFile, TTLTablesAgree
<1>4. LogIsGapless(EmptyFile)
  BY DEF EmptyFile, LogIsGapless
<1> QED
  BY <1>1, <1>2, <1>3, <1>4 DEF Good

-----------------------------------------------------------------------------
(* The inductive invariant.  What a handler commits depends on what the    *)
(* open transaction holds, so the transaction's view must be consistent    *)
(* too, and must know every collection of the file: a collection without a *)
(* stored count is counted in the committed pages.                         *)

OpenTransactionGood ==
  wtx # NoTx => Good(wtx.db) /\ db.exists \subseteq wtx.db.exists

PurgeHoldsTransaction ==
  sweep.pc = "purging" => wtx # NoTx /\ wtx.kind = "purge"

IInv ==
  TypeOK /\ Good(db) /\ OpenTransactionGood /\ PurgeHoldsTransaction

\* A handler that commits at once, and needs no open transaction to do it.
LEMMA CommitAtOnce ==
  ASSUME IInv, wtx = NoTx, Good(db'), UNCHANGED <<wtx, now, sweep>>
  PROVE  IInv'
<1>1. db' \in Tables
  BY DEF Good
<1>2. TypeOK'
  BY <1>1 DEF IInv, TypeOK
<1> QED
  BY <1>2 DEF IInv, OpenTransactionGood, PurgeHoldsTransaction

\* An operation inside the open transaction.
LEMMA StepInside ==
  ASSUME IInv, InTransaction, NEW d, Good(d), wtx.db.exists \subseteq d.exists,
         StepTransaction(d)
  PROVE  IInv'
<1>1. wtx \in Transactions /\ d \in Tables
  BY DEF IInv, TypeOK, InTransaction, Good
<1>2. /\ wtx' = [wtx EXCEPT !.db = d, !.ops = wtx.ops - 1]
      /\ UNCHANGED <<db, now, sweep>>
  BY DEF StepTransaction
<1>3. wtx' \in Transactions /\ wtx'.db = d /\ wtx'.kind = wtx.kind
  <2>1. wtx.ops \in Nat /\ wtx.ops - 1 \in Nat
    BY <1>1 DEF Transactions, InTransaction
  <2>2. PICK n \in Nat : n = wtx.ops - 1
    BY <2>1
  <2>3. wtx' = [wtx EXCEPT !.db = d, !.ops = n]
    BY <1>2, <2>2
  <2> QED
    BY <1>1, <2>3 DEF Transactions
<1>4. TypeOK'
  BY <1>2, <1>3 DEF IInv, TypeOK
<1>5. Good(db)' /\ OpenTransactionGood'
  BY <1>2, <1>3 DEF IInv, OpenTransactionGood, InTransaction
<1>6. PurgeHoldsTransaction'
  BY <1>2, <1>3, NoTxAssumption DEF IInv, PurgeHoldsTransaction
<1> QED
  BY <1>4, <1>5, <1>6 DEF IInv

\* The transaction's view becomes the file.
LEMMA CommitOpen ==
  ASSUME IInv, wtx # NoTx, db' = wtx.db, wtx' = NoTx, now' = now,
         \/ sweep' = sweep /\ wtx.kind = "ops"
         \/ sweep' = Idle
  PROVE  IInv'
<1>1. Good(db')
  BY DEF IInv, OpenTransactionGood
<1>2. TypeOK'
  BY <1>1 DEF IInv, TypeOK, Good, Idle
<1>3. PurgeHoldsTransaction'
  BY DEF IInv, PurgeHoldsTransaction, Idle
<1> QED
  BY <1>1, <1>2, <1>3 DEF IInv, OpenTransactionGood

\* The transaction is thrown away: an error, or the end of the process.
LEMMA AbandonOpen ==
  ASSUME IInv, wtx' = NoTx, UNCHANGED <<db, now>>,
         \/ sweep' = sweep /\ wtx # NoTx /\ wtx.kind = "ops"
         \/ sweep' = Idle
  PROVE  IInv'
<1>1. TypeOK'
  BY DEF IInv, TypeOK, Idle
<1>2. PurgeHoldsTransaction'
  BY DEF IInv, PurgeHoldsTransaction, Idle
<1> QED
  BY <1>1, <1>2 DEF IInv, OpenTransactionGood, Good

LEMMA InitIInv == Init => IInv
<1> SUFFICES ASSUME Init PROVE IInv
  OBVIOUS
<1>1. Good(db)
  BY EmptyFileGood DEF Init
<1>2. TypeOK
  BY <1>1 DEF Init, TypeOK, Good, Idle
<1> QED
  BY <1>1, <1>2 DEF Init, IInv, OpenTransactionGood, PurgeHoldsTransaction, Idle

LEMMA ExpiryType ==
  ASSUME TypeOK, NEW ttl \in TTLs \cup {NoTTL}
  PROVE  Expiry(ttl) \in Nat \cup {NoTTL}
BY BoundsAssumption DEF TypeOK, Expiry

LEMMA HandlersKeepIInv ==
  ASSUME IInv, Handlers PROVE IInv'
<1>1. Good(db) /\ db \in Tables /\ TypeOK /\ db.exists \subseteq Collections
  BY DEF IInv, Good, Tables
<1>2. ASSUME NEW c \in Collections, CreateCollection(c) PROVE IInv'
  <2>1. Good(db')
    BY <1>1, <1>2, MakeCollectionGood DEF CreateCollection
  <2> QED
    BY <1>2, <2>1, CommitAtOnce DEF CreateCollection
<1>3. ASSUME NEW c \in Collections, DeleteCollection(c) PROVE IInv'
  <2>1. Good(db')
    BY <1>1, <1>3, DropCollectionGood DEF DeleteCollection
  <2> QED
    BY <1>3, <2>1, CommitAtOnce DEF DeleteCollection
<1>4. ASSUME NEW c \in Collections, NEW i \in Ids, NEW body \in Bodies,
             NEW ttl \in TTLs \cup {NoTTL},
             wtx = NoTx, UNCHANGED <<wtx, now, sweep>>,
             db' = StoreDocument(db, db, c, i, body, Expiry(ttl))
      PROVE  IInv'
  <2>1. Expiry(ttl) \in Nat \cup {NoTTL}
    BY <1>1, ExpiryType
  <2>2. Good(db')
    BY <1>1, <1>4, <2>1, StoreDocumentGood
  <2> QED
    BY <1>4, <2>2, CommitAtOnce
<1>5. ASSUME NEW c \in Collections, NEW i \in Ids, NEW m \in IfMatches,
             NEW patch \in Patches, PatchDocument(c, i, patch, m)
      PROVE  IInv'
  <2>1. c \in db.exists /\ db.docs[c][i] # NoDoc
    BY <1>5 DEF PatchDocument, Found
  <2>2. Good(db')
    BY <1>1, <1>5, <2>1, MergeDocumentGood DEF PatchDocument
  <2> QED
    BY <1>5, <2>2, CommitAtOnce DEF PatchDocument
<1>6. ASSUME NEW c \in Collections, NEW i \in Ids, NEW m \in IfMatches,
             DeleteDocument(c, i, m)
      PROVE  IInv'
  <2>1. c \in db.exists /\ db.docs[c][i] # NoDoc
    BY <1>6 DEF DeleteDocument, Found
  <2>2. Good(db')
    BY <1>1, <1>6, <2>1, RemoveDocumentGood DEF DeleteDocument
  <2> QED
    BY <1>6, <2>2, CommitAtOnce DEF DeleteDocument
<1>7. ASSUME NEW n \in 1 .. MaxTransactionOps, BeginTransaction(n) PROVE IInv'
  <2>1. wtx' = [kind |-> "ops", db |-> db, ops |-> n] /\ wtx = NoTx
        /\ UNCHANGED <<db, now, sweep>>
    BY <1>7 DEF BeginTransaction
  <2>2. wtx' \in Transactions /\ wtx'.db = db
    BY <1>1, <2>1 DEF Transactions
  <2> QED
    BY <1>1, <2>1, <2>2
    DEF IInv, TypeOK, OpenTransactionGood, PurgeHoldsTransaction
<1>8. ASSUME InTransaction
      PROVE  Good(wtx.db) /\ db.exists \subseteq wtx.db.exists
             /\ wtx.db.exists \subseteq Collections
  BY <1>8 DEF IInv, OpenTransactionGood, InTransaction, Good, Tables
<1>9. ASSUME NEW c \in Collections, NEW i \in Ids, NEW m \in IfMatches,
             NEW body \in Bodies, TransactionPut(c, i, body, m)
      PROVE  IInv'
  <2>1. PICK none \in Nat \cup {NoTTL} : none = NoTTL
    OBVIOUS
  <2> DEFINE d == StoreDocument(db, wtx.db, c, i, body, none)
  <2>2. InTransaction /\ StepTransaction(d)
    BY <1>9, <2>1 DEF TransactionPut
  <2>3. Good(d) /\ d.exists = wtx.db.exists \cup {c}
    BY <1>1, <1>8, <2>2, StoreDocumentGood
  <2> HIDE DEF d
  <2> QED
    BY <2>2, <2>3, StepInside
<1>10. ASSUME NEW c \in Collections, NEW i \in Ids, NEW m \in IfMatches,
              NEW patch \in Patches, TransactionPatch(c, i, patch, m)
       PROVE  IInv'
  <2> DEFINE d == MergeDocument(db, wtx.db, c, i, patch)
  <2>1. /\ InTransaction /\ StepTransaction(d)
        /\ c \in wtx.db.exists /\ wtx.db.docs[c][i] # NoDoc
    BY <1>10 DEF TransactionPatch, Found
  <2>2. Good(d) /\ d.exists = wtx.db.exists
    BY <1>1, <1>8, <2>1, MergeDocumentGood
  <2> HIDE DEF d
  <2> QED
    BY <2>1, <2>2, StepInside
<1>11. ASSUME NEW c \in Collections, NEW i \in Ids, NEW m \in IfMatches,
              TransactionDelete(c, i, m)
       PROVE  IInv'
  <2> DEFINE d == RemoveDocument(db, wtx.db, c, i)
  <2>1. /\ InTransaction /\ StepTransaction(d)
        /\ c \in wtx.db.exists /\ wtx.db.docs[c][i] # NoDoc
    BY <1>11 DEF TransactionDelete, Found
  <2>2. Good(d) /\ d.exists = wtx.db.exists
    BY <1>1, <1>8, <2>1, RemoveDocumentGood
  <2> HIDE DEF d
  <2> QED
    BY <2>1, <2>2, StepInside
<1>12. ASSUME CommitTransaction PROVE IInv'
  BY <1>12, CommitOpen DEF CommitTransaction
<1>13. ASSUME RollbackTransaction PROVE IInv'
  BY <1>13, AbandonOpen DEF RollbackTransaction
<1>14. ASSUME DocumentHandler PROVE IInv'
  BY <1>14, <1>4, <1>5, <1>6 DEF DocumentHandler, CreateDocument, PutDocument
<1>15. ASSUME TransactionStep PROVE IInv'
  BY <1>15, <1>9, <1>10, <1>11 DEF TransactionStep
<1> QED
  BY <1>2, <1>3, <1>7, <1>12, <1>13, <1>14, <1>15 DEF Handlers

LEMMA SweeperKeepsIInv ==
  ASSUME IInv, Sweeper PROVE IInv'
<1>1. Good(db) /\ db \in Tables
  BY DEF IInv, Good
<1>2. ASSUME SweepReadsClock PROVE IInv'
  BY <1>2 DEF SweepReadsClock, IInv, TypeOK, OpenTransactionGood,
              PurgeHoldsTransaction
<1>3. ASSUME BeginPurge PROVE IInv'
  <2>1. /\ wtx' = [kind |-> "purge", db |-> db, ops |-> 0]
        /\ sweep' = [sweep EXCEPT !.pc = "purging"]
        /\ UNCHANGED <<db, now>>
    BY <1>3 DEF BeginPurge
  <2>2. wtx' \in Transactions /\ wtx'.db = db /\ wtx'.kind = "purge"
    BY <1>1, <2>1 DEF Transactions
  <2>3. TypeOK'
    BY <2>1, <2>2 DEF IInv, TypeOK
  <2> QED
    BY <1>1, <2>1, <2>2, <2>3, NoTxAssumption
    DEF IInv, OpenTransactionGood, PurgeHoldsTransaction
<1>4. ASSUME PurgeOne PROVE IInv'
  <2>1. PICK key \in Due(wtx.db) :
          wtx' = [wtx EXCEPT !.db = PurgeKey(db, wtx.db, key)]
    BY <1>4 DEF PurgeOne
  <2>2. wtx # NoTx /\ wtx.kind = "purge" /\ UNCHANGED <<db, now, sweep>>
    BY <1>4 DEF PurgeOne, IInv, PurgeHoldsTransaction
  <2>3. Good(wtx.db) /\ db.exists \subseteq wtx.db.exists
        /\ wtx \in Transactions
    BY <2>2 DEF IInv, OpenTransactionGood, TypeOK
  <2> DEFINE d == PurgeKey(db, wtx.db, key)
  <2>4. Good(d) /\ d.exists = wtx.db.exists
    <3>1. key \in wtx.db.ttlIndex
      BY DEF Due
    <3> QED
      BY <3>1, <1>1, <2>3, PurgeKeyGood
  <2> HIDE DEF d
  <2>5. wtx' \in Transactions /\ wtx'.db = d /\ wtx'.kind = "purge"
    BY <2>1, <2>2, <2>3, <2>4 DEF Transactions, Good, d
  <2>6. TypeOK'
    BY <2>2, <2>5 DEF IInv, TypeOK
  <2> QED
    BY <1>1, <2>2, <2>3, <2>4, <2>5, <2>6, NoTxAssumption
    DEF IInv, OpenTransactionGood, PurgeHoldsTransaction
<1>5. ASSUME CommitPurge PROVE IInv'
  BY <1>5, CommitOpen DEF CommitPurge, IInv, PurgeHoldsTransaction
<1>6. ASSUME FailPurge PROVE IInv'
  BY <1>6, AbandonOpen DEF FailPurge
<1> QED
  BY <1>2, <1>3, <1>4, <1>5, <1>6 DEF Sweeper, HealthySweeper

LEMMA NextKeepsIInv == IInv /\ [Next]_vars => IInv'
<1> SUFFICES ASSUME IInv, [Next]_vars PROVE IInv'
  OBVIOUS
<1>1. CASE Handlers
  BY <1>1, HandlersKeepIInv
<1>2. CASE Sweeper
  BY <1>2, SweeperKeepsIInv
<1>3. CASE Tick
  BY <1>3 DEF Tick, IInv, TypeOK, OpenTransactionGood, PurgeHoldsTransaction
<1>4. CASE Crash
  BY <1>4, AbandonOpen DEF Crash
<1>5. CASE UNCHANGED vars
  BY <1>5 DEF vars, IInv, TypeOK, OpenTransactionGood, PurgeHoldsTransaction
<1> QED
  BY <1>1, <1>2, <1>3, <1>4, <1>5 DEF Next

\* IInv holds in every reachable state: the file, and the view of the open
\* transaction, are consistent under every interleaving of handlers,
\* multi-document transactions, purges, rollbacks and crashes.
THEOREM Consistent == Spec => []IInv
BY InitIInv, NextKeepsIInv, PTL DEF Spec

\* Every variable keeps its type, the file being a value of Tables.
THEOREM TypeCorrect == Spec => []TypeOK
<1>1. IInv => TypeOK
  BY DEF IInv
<1> QED
  BY <1>1, Consistent, PTL

\* The stored count of every collection is the number of its documents.
THEOREM CountsCorrect == Spec => []CountsMatchDocuments
<1>1. IInv => CountsMatchDocuments
  BY DEF IInv, Good, CountsMatchDocuments
<1> QED
  BY <1>1, Consistent, PTL

\* The two TTL buckets and the documents agree.
THEOREM TTLBucketsCorrect == Spec => []TTLBucketsAgree
<1>1. IInv => TTLBucketsAgree
  BY DEF IInv, Good, TTLBucketsAgree
<1> QED
  BY <1>1, Consistent, PTL

\* The retained log is the tail of the numbering, whatever has been trimmed.
THEOREM LogCorrect == Spec => []RetainedLogHasNoGap
<1>1. IInv => RetainedLogHasNoGap
  BY DEF IInv, Good, RetainedLogHasNoGap
<1> QED
  BY <1>1, Consistent, PTL

-----------------------------------------------------------------------------
(* What a commit makes visible.  The argument for the purge: it holds the  *)
(* write lock from the moment it begins, so the file keeps the expiries it *)
(* began with.  What its transaction has removed so far carried an expiry  *)
(* no later than the instant the sweeper read, and the clock has only      *)
(* moved on since.                                                         *)

\* The sweeper read the clock in the past, and it alone holds a purge.
SweepInPast == sweep.nowUnix <= now
PurgeIsSweepers == wtx # NoTx /\ wtx.kind = "purge" => sweep.pc = "purging"

\* How the open purge differs from the file.
PurgeOnlyRemoves ==
  sweep.pc = "purging" =>
    /\ wtx.db.ttlIndex \subseteq db.ttlIndex
    /\ \A c \in Collections, i \in Ids :
         \/ wtx.db.docs[c][i] = db.docs[c][i]
         \/ wtx.db.docs[c][i] = NoDoc /\ db.ttlByDoc[<<c, i>>] \in 0 .. sweep.nowUnix

PurgeInv == IInv /\ SweepInPast /\ PurgeIsSweepers /\ PurgeOnlyRemoves

-----------------------------------------------------------------------------
\* The sweeper leaves the transaction of a handler alone, and no handler
\* commits or steps while the purge holds it.
LEMMA HandlersAndPurge ==
  ASSUME PurgeInv, Handlers
  PROVE  /\ UNCHANGED <<now, sweep>> /\ sweep.pc # "purging"
         /\ wtx' = NoTx \/ wtx'.kind = "ops"
<1>1. sweep.pc # "purging"
  BY DEF PurgeInv, IInv, PurgeHoldsTransaction, Handlers, CreateCollection,
         DeleteCollection, DocumentHandler, CreateDocument, PutDocument,
         PatchDocument, DeleteDocument, BeginTransaction, TransactionStep,
         InTransaction, TransactionPut, TransactionPatch, TransactionDelete,
         CommitTransaction, RollbackTransaction
<1>2. UNCHANGED <<now, sweep>>
  BY DEF Handlers, CreateCollection,
         DeleteCollection, DocumentHandler, CreateDocument, PutDocument,
         PatchDocument, DeleteDocument, BeginTransaction, TransactionStep,
         StepTransaction, TransactionPut, TransactionPatch, TransactionDelete,
         CommitTransaction, RollbackTransaction
<1>3. wtx' = NoTx \/ wtx'.kind = "ops"
  <2>1. CASE wtx' = wtx
    BY <1>1, <2>1 DEF PurgeInv, IInv, PurgeIsSweepers, TypeOK, Transactions
  <2>2. ASSUME NEW n \in 1 .. MaxTransactionOps, BeginTransaction(n)
        PROVE  wtx'.kind = "ops"
    BY <2>2 DEF BeginTransaction
  <2>3. CASE TransactionStep
    <3>1. PICK d : StepTransaction(d)
      BY <2>3 DEF TransactionStep, TransactionPut, TransactionPatch, TransactionDelete
    <3>2. wtx \in Transactions /\ wtx.kind = "ops" /\ InTransaction
      BY <2>3 DEF TransactionStep, TransactionPut, TransactionPatch, TransactionDelete,
                  InTransaction, PurgeInv, IInv, TypeOK
    <3>3. wtx'.kind = "ops"
      BY <3>1, <3>2 DEF StepTransaction, Transactions
    <3> QED
      BY <3>3
  <2>4. CASE CommitTransaction \/ RollbackTransaction
    BY <2>4 DEF CommitTransaction, RollbackTransaction
  <2> QED
    BY <2>1, <2>2, <2>3, <2>4
      DEF Handlers, CreateCollection, DeleteCollection, DocumentHandler,
          CreateDocument, PutDocument, PatchDocument, DeleteDocument
<1> QED
  BY <1>1, <1>2, <1>3

LEMMA PurgeOneStep ==
  ASSUME PurgeInv, PurgeOne
  PROVE  PurgeOnlyRemoves'
<1>1. PICK key \in Due(wtx.db) : wtx' = [wtx EXCEPT !.db = PurgeKey(db, wtx.db, key)]
  BY DEF PurgeOne
<1>2. /\ sweep.pc = "purging" /\ wtx # NoTx /\ UNCHANGED <<db, now, sweep>>
      /\ wtx \in Transactions
  BY DEF PurgeOne, PurgeInv, IInv, PurgeHoldsTransaction, TypeOK
<1>3. /\ Good(db) /\ Good(wtx.db) /\ db.exists \subseteq wtx.db.exists
      /\ key \in wtx.db.ttlIndex /\ key[1] <= sweep.nowUnix
  BY <1>2 DEF PurgeInv, IInv, OpenTransactionGood, Due
<1> DEFINE d == PurgeKey(db, wtx.db, key)
<1>4. Good(d) /\ Removes(wtx.db, d, key)
  BY <1>3, PurgeKeyGood
<1>5. wtx'.db = d
  BY <1>1, <1>2 DEF Transactions
<1> HIDE DEF d
<1>6. PICK t \in Nat, c \in Collections, i \in Ids : key = <<t, c, i>>
  BY <1>3 DEF Good, Tables
<1>7. /\ key \in db.ttlIndex /\ wtx.db.ttlIndex \subseteq db.ttlIndex
      /\ \A x \in Collections, j \in Ids :
           \/ wtx.db.docs[x][j] = db.docs[x][j]
           \/ wtx.db.docs[x][j] = NoDoc /\ db.ttlByDoc[<<x, j>>] \in 0 .. sweep.nowUnix
  BY <1>2, <1>3 DEF PurgeInv, PurgeOnlyRemoves
<1>8. db.ttlByDoc[<<c, i>>] \in 0 .. sweep.nowUnix
  <2>1. db.ttlByDoc[<<c, i>>] = t
    BY <1>3, <1>6, <1>7 DEF Good, TTLTablesAgree
  <2>2. sweep.nowUnix \in Nat
    BY DEF PurgeInv, IInv, TypeOK
  <2> QED
    BY <1>3, <1>6, <2>1, <2>2
<1>9. /\ d.docs = [wtx.db.docs EXCEPT ![c][i] = NoDoc]
      /\ d.ttlIndex \subseteq wtx.db.ttlIndex
      /\ wtx.db.docs \in [Collections -> [Ids -> Bodies \cup {NoDoc}]]
  BY <1>3, <1>4, <1>6 DEF Removes, Alters, Good, Tables
<1>10. \A x \in Collections, j \in Ids :
         d.docs[x][j] = IF x = c /\ j = i THEN NoDoc ELSE wtx.db.docs[x][j]
  <2>1. PICK none \in Bodies \cup {NoDoc} : none = NoDoc
    OBVIOUS
  <2>2. PICK old \in [Collections -> [Ids -> Bodies \cup {NoDoc}]] : old = wtx.db.docs
    BY <1>9
  <2>3. d.docs = [old EXCEPT ![c][i] = none]
    BY <1>9, <2>1, <2>2
  <2>4. \A x \in Collections, j \in Ids :
          d.docs[x][j] = IF x = c /\ j = i THEN none ELSE old[x][j]
    BY <2>3
  <2> QED
    BY <2>1, <2>2, <2>4
<1>11. ASSUME NEW x \in Collections, NEW j \in Ids
       PROVE  \/ d.docs[x][j] = db.docs[x][j]
              \/ d.docs[x][j] = NoDoc /\ db.ttlByDoc[<<x, j>>] \in 0 .. sweep.nowUnix
  <2>1. CASE x = c /\ j = i
    BY <1>8, <1>10, <2>1
  <2>2. CASE ~ (x = c /\ j = i)
    <3>1. d.docs[x][j] = wtx.db.docs[x][j]
      BY <1>10, <2>2
    <3> QED
      BY <1>7, <3>1
  <2> QED
    BY <2>1, <2>2
<1>12. d.ttlIndex \subseteq db.ttlIndex
  BY <1>7, <1>9
<1> QED
  BY <1>2, <1>5, <1>11, <1>12 DEF PurgeOnlyRemoves

LEMMA InitPurgeInv == Init => PurgeInv
<1>1. Init => SweepInPast /\ PurgeIsSweepers /\ PurgeOnlyRemoves
  BY DEF Init, Idle, SweepInPast, PurgeIsSweepers, PurgeOnlyRemoves
<1> QED
  BY <1>1, InitIInv DEF PurgeInv

LEMMA NextKeepsPurgeInv == PurgeInv /\ [Next]_vars => PurgeInv'
<1> SUFFICES ASSUME PurgeInv, [Next]_vars PROVE PurgeInv'
  OBVIOUS
<1>1. IInv'
  BY NextKeepsIInv DEF PurgeInv
<1>2. now \in Nat /\ sweep.nowUnix \in Nat /\ sweep.nowUnix <= now
      /\ sweep \in [pc : {"idle", "waiting", "purging"}, nowUnix : Nat]
  BY DEF PurgeInv, IInv, TypeOK, SweepInPast
<1>3. CASE Handlers
  <2>1. /\ UNCHANGED <<now, sweep>> /\ sweep.pc # "purging"
        /\ wtx' = NoTx \/ wtx'.kind = "ops"
    BY <1>3, HandlersAndPurge
  <2> QED
    BY <1>1, <2>1 DEF PurgeInv, SweepInPast, PurgeIsSweepers, PurgeOnlyRemoves
<1>4. CASE SweepReadsClock
  BY <1>1, <1>2, <1>4
    DEF PurgeInv, SweepReadsClock, SweepInPast, PurgeIsSweepers, PurgeOnlyRemoves
<1>5. CASE BeginPurge
  <2>1. /\ sweep'.pc = "purging" /\ sweep'.nowUnix = sweep.nowUnix
        /\ wtx'.db = db /\ UNCHANGED <<db, now>>
    BY <1>2, <1>5 DEF BeginPurge
  <2> QED
    BY <1>1, <2>1 DEF PurgeInv, SweepInPast, PurgeIsSweepers, PurgeOnlyRemoves
<1>6. CASE PurgeOne
  <2>1. UNCHANGED <<now, sweep>> /\ sweep.pc = "purging"
    BY <1>6 DEF PurgeOne
  <2> QED
    BY <1>1, <1>6, <2>1, PurgeOneStep DEF PurgeInv, SweepInPast, PurgeIsSweepers
<1>7. CASE CommitPurge \/ FailPurge \/ Crash
  <2>1. wtx' = NoTx /\ sweep' = Idle /\ now' = now
    BY <1>7 DEF CommitPurge, FailPurge, Crash
  <2> QED
    BY <1>1, <1>2, <2>1
      DEF PurgeInv, Idle, SweepInPast, PurgeIsSweepers, PurgeOnlyRemoves
<1>8. CASE Tick \/ UNCHANGED vars
  BY <1>1, <1>2, <1>8
    DEF Tick, vars, PurgeInv, SweepInPast, PurgeIsSweepers, PurgeOnlyRemoves
<1> QED
  BY <1>3, <1>4, <1>5, <1>6, <1>7, <1>8 DEF Next, Sweeper, HealthySweeper

\* While the purge holds the lock only its own commit changes the file.
LEMMA PurgeCommits ==
  ASSUME PurgeInv, [Next]_vars, sweep.pc = "purging", db' # db,
         NEW c \in Collections, NEW i \in Ids, db'.docs[c][i] # db.docs[c][i]
  PROVE  db'.docs[c][i] = NoDoc /\ db.ttlByDoc[<<c, i>>] \in 0 .. now
<1>1. ~Handlers
  BY HandlersAndPurge
<1>2. CommitPurge
  BY <1>1
    DEF Next, Sweeper, HealthySweeper, SweepReadsClock, BeginPurge, PurgeOne,
        FailPurge, Tick, Crash, vars
<1>3. db' = wtx.db
  BY <1>2 DEF CommitPurge
<1>4. db'.docs[c][i] = NoDoc /\ db.ttlByDoc[<<c, i>>] \in 0 .. sweep.nowUnix
  BY <1>3 DEF PurgeInv, PurgeOnlyRemoves
<1>5. sweep.nowUnix \in Nat /\ now \in Nat /\ sweep.nowUnix <= now
  BY DEF PurgeInv, IInv, TypeOK, SweepInPast
<1> QED
  BY <1>4, <1>5

\* A commit of the purge rewrites no document, and removes one only if its
\* expiry has passed by the clock of the commit.
THEOREM PurgeIsSafe == Spec => PurgeTakesOnlyExpired
<1>1. PurgeInv /\ [Next]_vars =>
        [ (sweep.pc = "purging" /\ db' # db) =>
            \A c \in Collections, i \in Ids :
              db'.docs[c][i] # db.docs[c][i] =>
                /\ db'.docs[c][i] = NoDoc
                /\ db.ttlByDoc[<<c, i>>] \in 0 .. now ]_vars
  BY PurgeCommits
<1> QED
  BY <1>1, InitPurgeInv, NextKeepsPurgeInv, PTL DEF Spec, PurgeTakesOnlyExpired
-----------------------------------------------------------------------------
(* What a step does to the documents and to the log.                       *)

\* A handler that commits the write or the removal of one document.
FileWrite ==
  /\ wtx = NoTx /\ UNCHANGED <<wtx, now, sweep>> /\ db' \in Tables
  /\ \E c \in Collections, i \in Ids, body \in Bodies \cup {NoDoc} :
       Alters(db, db', c, i, body)

\* An operation of a multi-document transaction.
TxWrite ==
  /\ InTransaction
  /\ \E d \in Tables, c \in Collections, i \in Ids, body \in Bodies \cup {NoDoc} :
       StepTransaction(d) /\ Alters(wtx.db, d, c, i, body)

FileMake ==
  /\ wtx = NoTx /\ UNCHANGED <<wtx, now, sweep>> /\ db' \in Tables
  /\ db'.docs = db.docs /\ SameLog(db, db')

FileDrop(c) ==
  /\ wtx = NoTx /\ UNCHANGED <<wtx, now, sweep>> /\ db' \in Tables
  /\ db'.exists = db.exists \ {c} /\ SameLog(db, db')
  /\ db'.docs = [db.docs EXCEPT ![c] = [i \in Ids |-> NoDoc]]

LEMMA HandlerShapes ==
  ASSUME IInv, Handlers
  PROVE  \/ FileWrite \/ TxWrite \/ FileMake \/ \E c \in Collections : FileDrop(c)
         \/ \E n \in 1 .. MaxTransactionOps : BeginTransaction(n)
         \/ CommitTransaction \/ RollbackTransaction
<1>1. Good(db) /\ db \in Tables /\ TypeOK /\ db.exists \subseteq Collections
  BY DEF IInv, Good, Tables
<1>2. ASSUME NEW c \in Collections, CreateCollection(c) PROVE FileMake
  BY <1>1, <1>2, MakeCollectionGood DEF CreateCollection, FileMake, Good
<1>3. ASSUME NEW c \in Collections, DeleteCollection(c) PROVE FileDrop(c)
  BY <1>1, <1>3, DropCollectionGood DEF DeleteCollection, FileDrop, Good
<1>4. ASSUME NEW c \in Collections, NEW i \in Ids, NEW body \in Bodies,
             NEW ttl \in TTLs \cup {NoTTL},
             wtx = NoTx, UNCHANGED <<wtx, now, sweep>>,
             db' = StoreDocument(db, db, c, i, body, Expiry(ttl))
      PROVE  FileWrite
  <2>1. Expiry(ttl) \in Nat \cup {NoTTL}
    BY <1>1, ExpiryType
  <2>2. Good(db') /\ Alters(db, db', c, i, body)
    BY <1>1, <1>4, <2>1, StoreDocumentGood
  <2> QED
    BY <1>4, <2>2 DEF FileWrite, Good
<1>5. ASSUME NEW c \in Collections, NEW i \in Ids, NEW m \in IfMatches,
             NEW patch \in Patches, PatchDocument(c, i, patch, m)
      PROVE  FileWrite
  <2>1. c \in db.exists /\ db.docs[c][i] # NoDoc
    BY <1>5 DEF PatchDocument, Found
  <2>2. Good(db') /\ \E body \in Bodies : Alters(db, db', c, i, body)
    BY <1>1, <1>5, <2>1, MergeDocumentGood DEF PatchDocument
  <2> QED
    BY <1>5, <2>2 DEF PatchDocument, FileWrite, Good
<1>6. ASSUME NEW c \in Collections, NEW i \in Ids, NEW m \in IfMatches,
             DeleteDocument(c, i, m)
      PROVE  FileWrite
  <2>1. c \in db.exists /\ db.docs[c][i] # NoDoc
    BY <1>6 DEF DeleteDocument, Found
  <2>2. Good(db') /\ Alters(db, db', c, i, NoDoc)
    BY <1>1, <1>6, <2>1, RemoveDocumentGood DEF DeleteDocument
  <2> QED
    BY <1>6, <2>2 DEF DeleteDocument, FileWrite, Good
<1>7. ASSUME InTransaction
      PROVE  Good(wtx.db) /\ db.exists \subseteq wtx.db.exists
             /\ wtx.db.exists \subseteq Collections
  BY <1>7 DEF IInv, OpenTransactionGood, InTransaction, Good, Tables
<1>8. ASSUME NEW c \in Collections, NEW i \in Ids, NEW m \in IfMatches,
             NEW body \in Bodies, TransactionPut(c, i, body, m)
      PROVE  TxWrite
  <2>1. PICK none \in Nat \cup {NoTTL} : none = NoTTL
    OBVIOUS
  <2> DEFINE d == StoreDocument(db, wtx.db, c, i, body, none)
  <2>2. InTransaction /\ StepTransaction(d)
    BY <1>8, <2>1 DEF TransactionPut
  <2>3. Good(d) /\ Alters(wtx.db, d, c, i, body)
    BY <1>1, <1>7, <2>2, StoreDocumentGood
  <2> HIDE DEF d
  <2> QED
    BY <2>2, <2>3 DEF TxWrite, Good
<1>9. ASSUME NEW c \in Collections, NEW i \in Ids, NEW m \in IfMatches,
             NEW patch \in Patches, TransactionPatch(c, i, patch, m)
      PROVE  TxWrite
  <2> DEFINE d == MergeDocument(db, wtx.db, c, i, patch)
  <2>1. /\ InTransaction /\ StepTransaction(d)
        /\ c \in wtx.db.exists /\ wtx.db.docs[c][i] # NoDoc
    BY <1>9 DEF TransactionPatch, Found
  <2>2. Good(d) /\ \E body \in Bodies : Alters(wtx.db, d, c, i, body)
    BY <1>1, <1>7, <2>1, MergeDocumentGood
  <2> HIDE DEF d
  <2> QED
    BY <2>1, <2>2 DEF TxWrite, Good
<1>10. ASSUME NEW c \in Collections, NEW i \in Ids, NEW m \in IfMatches,
              TransactionDelete(c, i, m)
       PROVE  TxWrite
  <2> DEFINE d == RemoveDocument(db, wtx.db, c, i)
  <2>1. /\ InTransaction /\ StepTransaction(d)
        /\ c \in wtx.db.exists /\ wtx.db.docs[c][i] # NoDoc
    BY <1>10 DEF TransactionDelete, Found
  <2>2. Good(d) /\ Alters(wtx.db, d, c, i, NoDoc)
    BY <1>1, <1>7, <2>1, RemoveDocumentGood
  <2> HIDE DEF d
  <2> QED
    BY <2>1, <2>2 DEF TxWrite, Good
<1>11. ASSUME DocumentHandler PROVE FileWrite
  BY <1>11, <1>4, <1>5, <1>6 DEF DocumentHandler, CreateDocument, PutDocument
<1>12. ASSUME TransactionStep PROVE TxWrite
  BY <1>12, <1>8, <1>9, <1>10 DEF TransactionStep
<1> QED
  BY <1>2, <1>3, <1>11, <1>12 DEF Handlers

\* After one operation of a transaction.
LEMMA TxWriteFacts ==
  ASSUME IInv, TxWrite
  PROVE  /\ UNCHANGED <<db, now, sweep>>
         /\ wtx \in Transactions /\ wtx.db \in Tables /\ wtx # NoTx /\ wtx.kind = "ops"
         /\ wtx' \in Transactions /\ wtx'.kind = "ops" /\ wtx' # NoTx
         /\ wtx.ops > 0 /\ wtx'.ops = wtx.ops - 1
         /\ \E c \in Collections, i \in Ids, body \in Bodies \cup {NoDoc} :
              Alters(wtx.db, wtx'.db, c, i, body)
<1>1. wtx \in Transactions /\ wtx # NoTx /\ wtx.kind = "ops" /\ wtx.ops > 0
  BY DEF TxWrite, InTransaction, IInv, TypeOK
<1>2. PICK d \in Tables, c \in Collections, i \in Ids, body \in Bodies \cup {NoDoc} :
        StepTransaction(d) /\ Alters(wtx.db, d, c, i, body)
  BY DEF TxWrite
<1>3. PICK n \in Nat : n = wtx.ops - 1
  BY <1>1 DEF Transactions
<1>4. wtx' = [wtx EXCEPT !.db = d, !.ops = n] /\ UNCHANGED <<db, now, sweep>>
  BY <1>2, <1>3 DEF StepTransaction
<1>5. wtx' \in Transactions /\ wtx'.db = d /\ wtx'.kind = "ops" /\ wtx'.ops = n
  BY <1>1, <1>4 DEF Transactions
<1>6. wtx.db \in Tables
  BY <1>1 DEF Transactions
<1> QED
  BY <1>1, <1>2, <1>3, <1>4, <1>5, <1>6, NoTxAssumption

\* One document changes in the map of documents.
LEMMA DocChanges ==
  ASSUME NEW d \in Tables, NEW e \in Tables, NEW c \in Collections, NEW i \in Ids,
         NEW body \in Bodies \cup {NoDoc}, Alters(d, e, c, i, body)
  PROVE  /\ e.docs[c][i] = body
         /\ \A x \in Collections, j \in Ids :
              ~(x = c /\ j = i) => e.docs[x][j] = d.docs[x][j]
BY DEF Tables, Alters

-----------------------------------------------------------------------------
(* Every change has its event.  A transaction that is open may have put a  *)
(* document back to what the file has; until it does, it has numbered the  *)
(* change, and the last event about the document is the one that says what *)
(* it is.                                                                  *)

\* The newest event about a document, where one is retained, says what it is.
Tells(d, c, i) == \A e \in NewestEvent(d, c, i) : e.etag = d.docs[c][i]

Differs(base, d, c, i) == d.docs[c][i] # base.docs[c][i]

LogTells(base, d) ==
  \A c \in Collections, i \in Ids :
    d.docs[c][i] # NoDoc \/ Differs(base, d, c, i) => Tells(d, c, i)

Numbered(base, d) ==
  /\ base.seq <= d.seq
  /\ \A c \in Collections, i \in Ids : Differs(base, d, c, i) => base.seq < d.seq

LogInv ==
  /\ LogTells(db, db)
  /\ wtx # NoTx => LogTells(db, wtx.db) /\ Numbered(db, wtx.db)

\* Other documents keep their newest event, or lose it to the trimming.
LEMMA TellsAfterChange ==
  ASSUME NEW d \in Tables, NEW e \in Tables, NEW c \in Collections, NEW i \in Ids,
         NEW body \in Bodies \cup {NoDoc}, Alters(d, e, c, i, body)
  PROVE  /\ Tells(e, c, i)
         /\ \A x \in Collections, j \in Ids :
              ~(x = c /\ j = i) /\ Tells(d, x, j) => Tells(e, x, j)
<1>1. /\ e.docs[c][i] = body
      /\ \A x \in Collections, j \in Ids :
           ~(x = c /\ j = i) => e.docs[x][j] = d.docs[x][j]
  BY DocChanges
<1>2. PICK drop \in 0 .. Len(d.log) + 1 :
        /\ Len(e.log) = Len(d.log) + 1 - drop
        /\ \A k \in 1 .. Len(e.log) :
             IF k + drop <= Len(d.log) THEN e.log[k] = d.log[k + drop]
             ELSE e.log[k].collection = c /\ e.log[k].id = i /\ e.log[k].etag = body
  BY DEF Alters, Recorded
<1>3. Len(d.log) \in Nat /\ Len(e.log) \in Nat
  BY LenProperties DEF Tables
<1>4. Tells(e, c, i)
  <2> SUFFICES ASSUME NEW m \in 1 .. Len(e.log),
                      \A k \in 1 .. Len(e.log) :
                        e.log[k].collection = c /\ e.log[k].id = i => k <= m
               PROVE  e.log[m].etag = body
    BY <1>1 DEF Tells, NewestEvent
  <2>1. Len(e.log) \in 1 .. Len(e.log) /\ ~(Len(e.log) + drop <= Len(d.log))
    BY <1>2, <1>3
  <2>2. /\ e.log[Len(e.log)].collection = c /\ e.log[Len(e.log)].id = i
        /\ e.log[Len(e.log)].etag = body
    BY <1>2, <2>1
  <2>3. m = Len(e.log)
    BY <1>3, <2>1, <2>2
  <2> QED
    BY <2>2, <2>3
<1>5. ASSUME NEW x \in Collections, NEW j \in Ids, ~(x = c /\ j = i), Tells(d, x, j)
      PROVE  Tells(e, x, j)
  <2> SUFFICES ASSUME NEW m \in 1 .. Len(e.log), e.log[m].collection = x, e.log[m].id = j,
                      \A k \in 1 .. Len(e.log) :
                        e.log[k].collection = x /\ e.log[k].id = j => k <= m
               PROVE  e.log[m].etag = d.docs[x][j]
    BY <1>1, <1>5 DEF Tells, NewestEvent
  <2>1. m + drop <= Len(d.log) /\ e.log[m] = d.log[m + drop]
    BY <1>2, <1>5
  <2>2. m + drop \in 1 .. Len(d.log)
    BY <1>2, <1>3, <2>1
  <2>3. ASSUME NEW k \in 1 .. Len(d.log), d.log[k].collection = x, d.log[k].id = j
        PROVE  k <= m + drop
    <3>1. CASE k <= drop
      BY <1>2, <1>3, <3>1
    <3>2. CASE k > drop
      <4>1. k - drop \in 1 .. Len(e.log) /\ (k - drop) + drop = k
        BY <1>2, <1>3, <3>2
      <4>2. e.log[k - drop] = d.log[k]
        BY <1>2, <4>1
      <4>3. k - drop <= m
        BY <2>3, <4>1, <4>2
      <4> QED
        BY <1>2, <1>3, <4>3
    <3> QED
      BY <1>2, <1>3, <3>1, <3>2
  <2>4. d.log[m + drop] \in NewestEvent(d, x, j)
    BY <2>1, <2>2, <2>3 DEF NewestEvent
  <2> QED
    BY <1>5, <2>1, <2>4 DEF Tells
<1> QED
  BY <1>4, <1>5

\* A change keeps the log telling and the changes numbered, and the file that
\* the change is committed to has it in its log.
LEMMA LogAfterChange ==
  ASSUME NEW base \in Tables, NEW d \in Tables, NEW e \in Tables,
         NEW c \in Collections, NEW i \in Ids, NEW body \in Bodies \cup {NoDoc},
         Alters(d, e, c, i, body), LogTells(base, d), Numbered(base, d)
  PROVE  LogTells(base, e) /\ Numbered(base, e)
<1>1. /\ e.docs[c][i] = body
      /\ \A x \in Collections, j \in Ids :
           ~(x = c /\ j = i) => e.docs[x][j] = d.docs[x][j]
  BY DocChanges
<1>2. LogTells(base, e)
  <2> SUFFICES ASSUME NEW x \in Collections, NEW j \in Ids,
                      e.docs[x][j] # NoDoc \/ Differs(base, e, x, j)
               PROVE  Tells(e, x, j)
    BY DEF LogTells
  <2>1. CASE x = c /\ j = i
    BY <2>1, TellsAfterChange
  <2>2. CASE ~(x = c /\ j = i)
    <3>1. Tells(d, x, j)
      BY <1>1, <2>2 DEF LogTells, Differs
    <3> QED
      BY <2>2, <3>1, TellsAfterChange
  <2> QED
    BY <2>1, <2>2
<1>3. Numbered(base, e)
  <2>1. e.seq = d.seq + 1 /\ base.seq \in Nat /\ d.seq \in Nat
    BY DEF Alters, Recorded, Tables
  <2> QED
    BY <2>1 DEF Numbered
<1> QED
  BY <1>2, <1>3

LEMMA SelfNumbered ==
  ASSUME NEW d \in Tables
  PROVE  /\ Numbered(d, d)
         /\ \A base : LogTells(base, d) => LogTells(d, d)
BY DEF Numbered, LogTells, Differs, Tables

\* A purged key is one more change.
LEMMA PurgeOneFacts ==
  ASSUME IInv, PurgeOne
  PROVE  /\ UNCHANGED <<db, now, sweep>>
         /\ wtx \in Transactions /\ wtx.db \in Tables /\ wtx # NoTx /\ wtx.kind = "purge"
         /\ wtx' \in Transactions /\ wtx'.kind = "purge" /\ wtx' # NoTx
         /\ \E c \in Collections, i \in Ids :
              wtx.db.docs[c][i] # NoDoc /\ Alters(wtx.db, wtx'.db, c, i, NoDoc)
<1>1. PICK key \in Due(wtx.db) : wtx' = [wtx EXCEPT !.db = PurgeKey(db, wtx.db, key)]
  BY DEF PurgeOne
<1>2. /\ wtx # NoTx /\ wtx.kind = "purge" /\ UNCHANGED <<db, now, sweep>>
      /\ wtx \in Transactions
  BY DEF PurgeOne, IInv, PurgeHoldsTransaction, TypeOK
<1>3. /\ Good(db) /\ Good(wtx.db) /\ db.exists \subseteq wtx.db.exists
      /\ key \in wtx.db.ttlIndex
  BY <1>2 DEF IInv, OpenTransactionGood, Due
<1> DEFINE d == PurgeKey(db, wtx.db, key)
<1>4. Good(d) /\ Removes(wtx.db, d, key)
  BY <1>3, PurgeKeyGood
<1> HIDE DEF d
<1>5. wtx' \in Transactions /\ wtx'.db = d /\ wtx'.kind = "purge"
  BY <1>1, <1>2, <1>4 DEF Transactions, Good, d
<1>6. PICK t \in Nat, c \in Collections, i \in Ids : key = <<t, c, i>>
  BY <1>3 DEF Good, Tables
<1>7. wtx.db.docs[c][i] # NoDoc /\ Alters(wtx.db, d, c, i, NoDoc)
  BY <1>4, <1>6 DEF Removes
<1> QED
  BY <1>2, <1>3, <1>5, <1>7, NoTxAssumption DEF Good

LEMMA InitLogInv == Init => LogInv
<1> SUFFICES ASSUME Init PROVE LogInv
  OBVIOUS
<1>1. db.log = << >> /\ wtx = NoTx
  BY DEF Init, EmptyFile
<1> QED
  BY <1>1 DEF LogInv, LogTells, Tells, NewestEvent

\* How the file changes, whatever the step: not at all, by one write, by the
\* making or the dropping of a collection, or to what a transaction has built.
LEMMA StepShapes ==
  ASSUME IInv, [Next]_vars
  PROVE  \/ FileWrite \/ FileMake \/ \E c \in Collections : FileDrop(c)
         \/ wtx # NoTx /\ db' = wtx.db /\ wtx' = NoTx
         \/ UNCHANGED db /\ \/ wtx' = NoTx \/ wtx' = wtx
                            \/ wtx' # NoTx /\ wtx'.db = db
                            \/ TxWrite \/ PurgeOne
<1>1. CASE Handlers
  <2>1. ASSUME NEW n \in 1 .. MaxTransactionOps, BeginTransaction(n)
        PROVE  UNCHANGED db /\ wtx' # NoTx /\ wtx'.db = db
    <3>1. wtx' = [kind |-> "ops", db |-> db, ops |-> n] /\ UNCHANGED db
      BY <2>1 DEF BeginTransaction
    <3>2. wtx' \in Transactions
      BY <3>1 DEF Transactions, IInv, TypeOK
    <3> QED
      BY <3>1, <3>2, NoTxAssumption
  <2>2. CASE TxWrite
    BY <2>2, TxWriteFacts
  <2>3. CASE CommitTransaction \/ RollbackTransaction
    BY <2>3 DEF CommitTransaction, RollbackTransaction
  <2> QED
    BY <1>1, <2>1, <2>2, <2>3, HandlerShapes
<1>2. CASE BeginPurge
  <2>1. wtx' = [kind |-> "purge", db |-> db, ops |-> 0] /\ UNCHANGED db
    BY <1>2 DEF BeginPurge
  <2>2. wtx' \in Transactions
    BY <2>1 DEF Transactions, IInv, TypeOK
  <2> QED
    BY <2>1, <2>2, NoTxAssumption
<1>3. CASE CommitPurge
  BY <1>3 DEF CommitPurge, IInv, PurgeHoldsTransaction
<1>4. CASE PurgeOne
  BY <1>4 DEF PurgeOne
<1>5. CASE SweepReadsClock \/ FailPurge \/ Tick \/ Crash \/ UNCHANGED vars
  BY <1>5 DEF SweepReadsClock, FailPurge, Tick, Crash, vars
<1> QED
  BY <1>1, <1>2, <1>3, <1>4, <1>5 DEF Next, Sweeper, HealthySweeper

LEMMA NextKeepsLogInv == IInv /\ LogInv /\ [Next]_vars => LogInv'
<1> SUFFICES ASSUME IInv, LogInv, [Next]_vars PROVE LogInv'
  OBVIOUS
<1>0. db \in Tables /\ LogTells(db, db) /\ Numbered(db, db)
      /\ (wtx # NoTx => wtx.db \in Tables /\ LogTells(db, wtx.db) /\ Numbered(db, wtx.db))
  BY SelfNumbered DEF IInv, TypeOK, Transactions, LogInv
<1>1. CASE FileWrite
  <2>1. PICK c \in Collections, i \in Ids, body \in Bodies \cup {NoDoc} :
          Alters(db, db', c, i, body)
    BY <1>1 DEF FileWrite
  <2>2. LogTells(db, db') /\ wtx' = NoTx /\ db' \in Tables
    BY <1>0, <1>1, <2>1, LogAfterChange DEF FileWrite
  <2> QED
    BY <2>2, SelfNumbered DEF LogInv
<1>2. CASE FileMake
  BY <1>0, <1>2 DEF FileMake, SameLog, LogInv, LogTells, Tells, NewestEvent, Differs
<1>3. ASSUME NEW c \in Collections, FileDrop(c) PROVE LogInv'
  <2>1. /\ wtx' = NoTx /\ db'.log = db.log
        /\ \A x \in Collections, i \in Ids :
             db'.docs[x][i] = IF x = c THEN NoDoc ELSE db.docs[x][i]
    BY <1>0, <1>3 DEF FileDrop, SameLog, Tables
  <2> QED
    BY <1>0, <2>1 DEF LogInv, LogTells, Tells, NewestEvent, Differs
<1>4. CASE wtx # NoTx /\ db' = wtx.db /\ wtx' = NoTx
  BY <1>0, <1>4, SelfNumbered DEF LogInv
<1>5. CASE UNCHANGED db /\ (wtx' = NoTx \/ wtx' = wtx \/ (wtx' # NoTx /\ wtx'.db = db))
  BY <1>0, <1>5 DEF LogInv
<1>6. CASE TxWrite \/ PurgeOne
  <2>1. /\ UNCHANGED db /\ wtx # NoTx /\ wtx.db \in Tables /\ wtx'.db \in Tables
        /\ \E c \in Collections, i \in Ids, body \in Bodies \cup {NoDoc} :
             Alters(wtx.db, wtx'.db, c, i, body)
    <3>1. CASE TxWrite
      BY <3>1, TxWriteFacts DEF Transactions
    <3>2. CASE PurgeOne
      BY <3>2, PurgeOneFacts DEF Transactions
    <3> QED
      BY <1>6, <3>1, <3>2
  <2>2. LogTells(db, wtx'.db) /\ Numbered(db, wtx'.db)
    BY <1>0, <2>1, LogAfterChange
  <2> QED
    BY <1>0, <2>1, <2>2 DEF LogInv
<1> QED
  BY <1>1, <1>2, <1>3, <1>4, <1>5, <1>6, StepShapes

\* In every committed state the newest retained event about a live document
\* carries its ETag, whatever transactions, purges and crashes came before.
THEOREM NewestEventIsRight == Spec => []NewestEventIsTheDocument
<1>1. LogInv => NewestEventIsTheDocument
  BY DEF LogInv, LogTells, Tells, NewestEventIsTheDocument
<1>2. Spec => [](IInv /\ LogInv)
  BY InitIInv, NextKeepsIInv, InitLogInv, NextKeepsLogInv, PTL DEF Spec
<1> QED
  BY <1>1, <1>2, PTL

\* No step changes a document of a collection that is still there without a
\* new number and without the event that says what the document became.
LEMMA ChangeIsLogged ==
  ASSUME IInv, LogInv, [Next]_vars, NEW c \in Collections, NEW i \in Ids,
         db'.docs[c][i] # db.docs[c][i], c \in db'.exists
  PROVE  db'.seq > db.seq /\ \A e \in NewestEvent(db', c, i) : e.etag = db'.docs[c][i]
<1>0. db \in Tables /\ LogTells(db, db) /\ Numbered(db, db)
      /\ (wtx # NoTx => wtx.db \in Tables /\ LogTells(db, wtx.db) /\ Numbered(db, wtx.db))
  BY SelfNumbered DEF IInv, TypeOK, Transactions, LogInv
<1>1. LogTells(db, db') /\ Numbered(db, db') /\ db' \in Tables
  <2>1. CASE FileWrite
    <3>1. PICK x \in Collections, j \in Ids, body \in Bodies \cup {NoDoc} :
            Alters(db, db', x, j, body)
      BY <2>1 DEF FileWrite
    <3> QED
      BY <1>0, <2>1, <3>1, LogAfterChange DEF FileWrite
  <2>2. CASE wtx # NoTx /\ db' = wtx.db
    BY <1>0, <2>2
  <2>3. ~FileMake /\ db' # db
    BY DEF FileMake
  <2>4. ~\E x \in Collections : FileDrop(x)
    <3> SUFFICES ASSUME NEW x \in Collections, FileDrop(x) PROVE FALSE
      OBVIOUS
    <3>1. /\ db'.exists = db.exists \ {x}
          /\ db'.docs = [db.docs EXCEPT ![x] = [j \in Ids |-> NoDoc]]
      BY DEF FileDrop
    <3>2. c # x
      BY <3>1
    <3> QED
      BY <1>0, <3>1, <3>2 DEF Tables
  <2> QED
    BY <2>1, <2>2, <2>3, <2>4, StepShapes
<1>2. db.seq \in Nat /\ db'.seq \in Nat
  BY <1>0, <1>1 DEF Tables
<1> QED
  BY <1>1, <1>2 DEF LogTells, Numbered, Differs, Tells

\* A committed change to a document always takes a new number and leaves an
\* event that says what the document became.
THEOREM ChangesLogged == Spec => ChangesAreLogged
<1>1. IInv /\ LogInv /\ [Next]_vars =>
        [ \A c \in Collections, i \in Ids :
            (db'.docs[c][i] # db.docs[c][i] /\ c \in db'.exists) =>
              /\ db'.seq > db.seq
              /\ \A e \in NewestEvent(db', c, i) : e.etag = db'.docs[c][i] ]_vars
  BY ChangeIsLogged
<1>2. Spec => [](IInv /\ LogInv)
  BY InitIInv, NextKeepsIInv, InitLogInv, NextKeepsLogInv, PTL DEF Spec
<1> QED
  BY <1>1, <1>2, PTL DEF Spec, ChangesAreLogged
-----------------------------------------------------------------------------
(* The file and the transaction implement DocumentMap.  The one step that  *)
(* is not a step of one document is the commit of the purge: it takes as   *)
(* many numbers as it removes documents.                                   *)

Changed(d, e) ==
  { k \in Collections \X Ids : e.docs[k[1]][k[2]] # d.docs[k[1]][k[2]] }

PurgeNumbers ==
  sweep.pc = "purging" => wtx.db.seq = db.seq + Cardinality(Changed(db, wtx.db))

LEMMA ChangedIsFinite ==
  ASSUME NEW d, NEW e
  PROVE  IsFiniteSet(Changed(d, e)) /\ Cardinality(Changed(d, e)) \in Nat
<1>1. IsFiniteSet(Collections \X Ids)
  BY NamesAssumption, FS_Product
<1>2. Changed(d, e) \in SUBSET (Collections \X Ids)
  BY DEF Changed
<1> QED
  BY <1>1, <1>2, FS_Subset, FS_CardinalityType

LEMMA PurgeOneCounts ==
  ASSUME PurgeInv, PurgeNumbers, PurgeOne
  PROVE  PurgeNumbers'
<1>0. IInv /\ sweep.pc = "purging" /\ db \in Tables
  BY DEF PurgeInv, PurgeOne, IInv, TypeOK
<1>1. /\ UNCHANGED <<db, now, sweep>> /\ wtx.db \in Tables /\ wtx'.db \in Tables
      /\ \E c \in Collections, i \in Ids :
           wtx.db.docs[c][i] # NoDoc /\ Alters(wtx.db, wtx'.db, c, i, NoDoc)
  BY <1>0, PurgeOneFacts DEF Transactions
<1>2. PICK c \in Collections, i \in Ids :
        wtx.db.docs[c][i] # NoDoc /\ Alters(wtx.db, wtx'.db, c, i, NoDoc)
  BY <1>1
<1>3. PICK none \in Bodies \cup {NoDoc} : none = NoDoc
  OBVIOUS
<1>4. /\ wtx'.db.docs[c][i] = NoDoc
      /\ \A x \in Collections, j \in Ids :
           ~(x = c /\ j = i) => wtx'.db.docs[x][j] = wtx.db.docs[x][j]
  <2>1. Alters(wtx.db, wtx'.db, c, i, none)
    BY <1>2, <1>3
  <2> QED
    BY <1>1, <1>3, <2>1, DocChanges
<1>5. wtx.db.docs[c][i] = db.docs[c][i]
  BY <1>0, <1>2 DEF PurgeInv, PurgeOnlyRemoves
<1>6. Changed(db, wtx'.db) = Changed(db, wtx.db) \cup {<<c, i>>}
  <2> SUFFICES ASSUME NEW k \in Collections \X Ids
               PROVE  wtx'.db.docs[k[1]][k[2]] # db.docs[k[1]][k[2]]
                        <=> \/ wtx.db.docs[k[1]][k[2]] # db.docs[k[1]][k[2]]
                            \/ k = <<c, i>>
    BY DEF Changed
  <2>1. PICK x \in Collections, j \in Ids : k = <<x, j>>
    OBVIOUS
  <2>2. CASE x = c /\ j = i
    BY <1>2, <1>4, <1>5, <2>1, <2>2
  <2>3. CASE ~(x = c /\ j = i)
    BY <1>4, <2>1, <2>3
  <2> QED
    BY <2>2, <2>3
<1>7. <<c, i>> \notin Changed(db, wtx.db)
  BY <1>5 DEF Changed
<1>8. Cardinality(Changed(db, wtx'.db)) = Cardinality(Changed(db, wtx.db)) + 1
  BY <1>6, <1>7, ChangedIsFinite, FS_AddElement
<1>9. wtx'.db.seq = wtx.db.seq + 1 /\ wtx.db.seq = db.seq + Cardinality(Changed(db, wtx.db))
      /\ db.seq \in Nat
  BY <1>0, <1>2 DEF PurgeNumbers, Alters, Recorded, Tables
<1> QED
  BY <1>1, <1>8, <1>9, ChangedIsFinite DEF PurgeNumbers

LEMMA NextKeepsPurgeNumbers == PurgeInv /\ PurgeNumbers /\ [Next]_vars => PurgeNumbers'
<1> SUFFICES ASSUME PurgeInv, PurgeNumbers, [Next]_vars PROVE PurgeNumbers'
  OBVIOUS
<1>1. CASE Handlers
  BY <1>1, HandlersAndPurge DEF PurgeNumbers
<1>2. CASE BeginPurge
  <2>1. wtx'.db = db /\ UNCHANGED db
    BY <1>2 DEF BeginPurge
  <2>2. Changed(db, db) = {} /\ Cardinality({}) = 0 /\ db.seq \in Nat
    BY FS_EmptySet DEF Changed, PurgeInv, IInv, TypeOK, Tables
  <2>3. db.seq = db.seq + Cardinality(Changed(db, db))
    BY <2>2
  <2> QED
    BY <2>1, <2>3 DEF PurgeNumbers
<1>3. CASE PurgeOne
  BY <1>3, PurgeOneCounts
<1>4. CASE SweepReadsClock \/ CommitPurge \/ FailPurge \/ Crash
  BY <1>4 DEF SweepReadsClock, CommitPurge, FailPurge, Crash, Idle, PurgeNumbers, PurgeInv,
              IInv, TypeOK
<1>5. CASE Tick \/ UNCHANGED vars
  BY <1>5 DEF Tick, vars, PurgeNumbers
<1> QED
  BY <1>1, <1>2, <1>3, <1>4, <1>5 DEF Next, Sweeper, HealthySweeper

\* The batch a transaction of ExecuteTransaction stands for.
OpenBatch(t) ==
  IF t = NoTx \/ t.kind = "purge" THEN NoTx
  ELSE [contents |-> t.db.docs, version |-> t.db.seq, left |-> t.ops]

LEMMA OpenBatchFacts ==
  ASSUME NEW t \in Transactions, t.kind = "ops"
  PROVE  /\ OpenBatch(t) = [contents |-> t.db.docs, version |-> t.db.seq, left |-> t.ops]
         /\ OpenBatch(t) # NoTx
<1>1. t # NoTx
  BY NoTxAssumption
<1>2. OpenBatch(t) = [contents |-> t.db.docs, version |-> t.db.seq, left |-> t.ops]
  BY <1>1 DEF OpenBatch
<1>3. /\ t.db.docs \in [Collections -> [Ids -> Bodies \cup {NoDoc}]]
      /\ t.db.seq \in Nat /\ t.ops \in Nat
  BY DEF Transactions, Tables
<1> QED
  BY <1>2, <1>3, NoBatchAssumption

\* A change of one document is a write of the map.
LEMMA ChangeIsWrite ==
  ASSUME NEW d, NEW e, NEW c \in Collections, NEW i \in Ids,
         NEW body \in Bodies \cup {NoDoc}, Alters(d, e, c, i, body)
  PROVE  e.docs \in Map!Writes(d.docs) /\ e.seq = d.seq + 1
BY DEF Alters, Recorded, Map!Writes

LEMMA CommitPurgeRefines ==
  ASSUME PurgeInv, PurgeNumbers, CommitPurge
  PROVE  [Map!MapNext]_Map!mapVars
<1>1. /\ IInv /\ sweep.pc = "purging" /\ wtx # NoTx /\ wtx.kind = "purge"
      /\ db' = wtx.db /\ wtx' = NoTx
  BY DEF PurgeInv, IInv, PurgeHoldsTransaction, CommitPurge
<1>2. /\ db.docs \in [Collections -> [Ids -> Bodies \cup {NoDoc}]]
      /\ db'.docs \in [Collections -> [Ids -> Bodies \cup {NoDoc}]] /\ db.seq \in Nat
  BY <1>1 DEF IInv, TypeOK, Transactions, Tables
<1>3. db'.seq = db.seq + Cardinality(Changed(db, db'))
  BY <1>1 DEF PurgeNumbers
<1>4. OpenBatch(wtx) = NoTx /\ OpenBatch(wtx') = NoTx
  BY <1>1 DEF OpenBatch
<1>5. ASSUME NEW k \in Changed(db, db') PROVE db'.docs[k[1]][k[2]] = NoDoc
  <2>1. PICK c \in Collections, i \in Ids :
          k = <<c, i>> /\ db'.docs[c][i] # db.docs[c][i]
    BY DEF Changed
  <2> QED
    BY <1>1, <2>1 DEF PurgeInv, PurgeOnlyRemoves
<1>6. CASE Changed(db, db') = {}
  <2>1. \A c \in Collections, i \in Ids : db'.docs[c][i] = db.docs[c][i]
    <3> SUFFICES ASSUME NEW c \in Collections, NEW i \in Ids,
                        db'.docs[c][i] # db.docs[c][i]
                 PROVE  FALSE
      OBVIOUS
    <3>1. <<c, i>> \in Changed(db, db')
      BY DEF Changed
    <3> QED
      BY <1>6, <3>1
  <2>2. \A c \in Collections : db'.docs[c] = db.docs[c]
    BY <1>2, <2>1
  <2>3. db'.docs = db.docs
    BY <1>2, <2>2
  <2>4. db'.seq = db.seq
    BY <1>2, <1>3, <1>6, FS_EmptySet
  <2> QED
    BY <1>4, <2>3, <2>4 DEF OpenBatch, Map!mapVars
<1>7. CASE Changed(db, db') # {}
  <2>1. Map!Changed = Changed(db, db')
    BY DEF Map!Changed, Changed
  <2>2. Map!Expire
    <3>1. Map!Changed # {} /\ \A k \in Map!Changed : db'.docs[k[1]][k[2]] = NoDoc
      BY <1>5, <1>7, <2>1
    <3>2. Map!Cardinality(Map!Changed) = Cardinality(Map!Changed)
      BY Zenon DEF Map!Cardinality, Cardinality
    <3>3. db'.seq = db.seq + Map!Cardinality(Map!Changed)
      BY <1>3, <2>1, <3>2
    <3> QED
      BY <1>1, <1>2, <3>1, <3>3 DEF Map!Expire
  <2> QED
    BY <2>2 DEF Map!MapNext
<1> QED
  BY <1>6, <1>7

LEMMA HandlersRefine ==
  ASSUME IInv, Handlers
  PROVE  [Map!MapNext]_Map!mapVars
<1>0. db \in Tables
  BY DEF IInv, TypeOK
<1>1. CASE FileWrite
  <2>1. PICK c \in Collections, i \in Ids, body \in Bodies \cup {NoDoc} :
          Alters(db, db', c, i, body)
    BY <1>1 DEF FileWrite
  <2>2. db'.docs \in Map!Writes(db.docs) /\ db'.seq = db.seq + 1
    BY <2>1, ChangeIsWrite
  <2>3. Map!Write
    BY <1>1, <2>2 DEF FileWrite, Map!Write
  <2> QED
    BY <2>3 DEF Map!MapNext
<1>2. CASE TxWrite
  <2>1. /\ UNCHANGED db /\ wtx \in Transactions /\ wtx.kind = "ops"
        /\ wtx' \in Transactions /\ wtx'.kind = "ops"
        /\ wtx.ops > 0 /\ wtx'.ops = wtx.ops - 1
        /\ \E c \in Collections, i \in Ids, body \in Bodies \cup {NoDoc} :
             Alters(wtx.db, wtx'.db, c, i, body)
    BY <1>2, TxWriteFacts
  <2>2. wtx'.db.docs \in Map!Writes(wtx.db.docs) /\ wtx'.db.seq = wtx.db.seq + 1
    BY <2>1, ChangeIsWrite
  <2>3. /\ OpenBatch(wtx) = [contents |-> wtx.db.docs, version |-> wtx.db.seq, left |-> wtx.ops]
        /\ OpenBatch(wtx) # NoTx
        /\ OpenBatch(wtx') =
             [contents |-> wtx'.db.docs, version |-> wtx'.db.seq, left |-> wtx'.ops]
    BY <2>1, OpenBatchFacts
  <2>4. Map!BatchWrites
    BY <2>1, <2>2, <2>3 DEF Map!BatchWrites, OpenBatch
  <2> QED
    BY <2>4 DEF Map!MapNext
<1>3. CASE FileMake
  BY <1>3 DEF FileMake, SameLog, Map!mapVars
<1>4. ASSUME NEW c \in Collections, FileDrop(c) PROVE [Map!MapNext]_Map!mapVars
  <2>1. Map!Drop(c)
    BY <1>4 DEF FileDrop, SameLog, Map!Drop
  <2> QED
    BY <2>1 DEF Map!MapNext
<1>5. ASSUME NEW n \in 1 .. MaxTransactionOps, BeginTransaction(n)
      PROVE  [Map!MapNext]_Map!mapVars
  <2>1. /\ wtx = NoTx /\ wtx' = [kind |-> "ops", db |-> db, ops |-> n] /\ UNCHANGED db
    BY <1>5 DEF BeginTransaction
  <2>2. wtx' \in Transactions /\ wtx'.kind = "ops" /\ wtx'.db = db /\ wtx'.ops = n
    BY <1>0, <2>1, BoundsAssumption DEF Transactions
  <2>3. OpenBatch(wtx') = [contents |-> db.docs, version |-> db.seq, left |-> n]
    BY <2>2, OpenBatchFacts
  <2>4. Map!BatchBegins
    BY <2>1, <2>3 DEF Map!BatchBegins, OpenBatch
  <2> QED
    BY <2>4 DEF Map!MapNext
<1>6. CASE CommitTransaction
  <2>1. /\ wtx # NoTx /\ wtx.kind = "ops" /\ wtx.ops = 0 /\ db' = wtx.db /\ wtx' = NoTx
        /\ wtx \in Transactions
    BY <1>6 DEF CommitTransaction, IInv, TypeOK
  <2>2. /\ OpenBatch(wtx) = [contents |-> wtx.db.docs, version |-> wtx.db.seq, left |-> 0]
        /\ OpenBatch(wtx) # NoTx
    BY <2>1, OpenBatchFacts
  <2>3. Map!BatchCommits
    BY <2>1, <2>2 DEF Map!BatchCommits, OpenBatch
  <2> QED
    BY <2>3 DEF Map!MapNext
<1>7. CASE RollbackTransaction
  <2>1. Map!BatchFails
    BY <1>7 DEF RollbackTransaction, Map!BatchFails
  <2> QED
    BY <2>1 DEF Map!MapNext
<1> QED
  BY <1>1, <1>2, <1>3, <1>4, <1>5, <1>6, <1>7, HandlerShapes

LEMMA StepRefines ==
  PurgeInv /\ PurgeNumbers /\ [Next]_vars => [Map!MapNext]_Map!mapVars
<1> SUFFICES ASSUME PurgeInv, PurgeNumbers, [Next]_vars PROVE [Map!MapNext]_Map!mapVars
  OBVIOUS
<1>0. IInv
  BY DEF PurgeInv
<1>1. CASE Handlers
  BY <1>0, <1>1, HandlersRefine
<1>2. CASE BeginPurge
  <2>1. wtx = NoTx /\ wtx' = [kind |-> "purge", db |-> db, ops |-> 0] /\ UNCHANGED db
    BY <1>2 DEF BeginPurge
  <2>2. OpenBatch(wtx) = NoTx /\ OpenBatch(wtx') = NoTx
    BY <2>1 DEF OpenBatch
  <2> QED
    BY <2>1, <2>2 DEF OpenBatch, Map!mapVars
<1>3. CASE PurgeOne
  <2>1. UNCHANGED db /\ wtx.kind = "purge" /\ wtx'.kind = "purge"
    BY <1>0, <1>3, PurgeOneFacts
  <2> QED
    BY <2>1 DEF Map!mapVars
<1>4. CASE CommitPurge
  BY <1>4, CommitPurgeRefines
<1>5. CASE FailPurge \/ Crash
  <2>1. Map!BatchFails
    BY <1>5 DEF FailPurge, Crash, Map!BatchFails
  <2> QED
    BY <2>1 DEF Map!MapNext
<1>6. CASE SweepReadsClock \/ Tick \/ UNCHANGED vars
  BY <1>6 DEF SweepReadsClock, Tick, vars, Map!mapVars
<1> QED
  BY <1>1, <1>2, <1>3, <1>4, <1>5, <1>6 DEF Next, Sweeper, HealthySweeper

LEMMA InitRefines == Init => Map!MapInit
BY DEF Init, EmptyFile, Map!MapInit

\* A client of the REST handlers sees a map of documents: each request, each
\* multi-document transaction as a whole, each purge and each dropped
\* collection is one step of it, and every write takes the next number.
THEOREM MapImplemented == Spec => ImplementsDocumentMap
<1>1. Init => PurgeNumbers
  BY DEF Init, Idle, PurgeNumbers
<1>2. Spec => [](PurgeInv /\ PurgeNumbers)
  BY <1>1, InitPurgeInv, NextKeepsPurgeInv, NextKeepsPurgeNumbers, PTL DEF Spec
<1> QED
  BY <1>2, InitRefines, StepRefines, PTL DEF Spec, ImplementsDocumentMap, Map!MapSpec
=============================================================================
