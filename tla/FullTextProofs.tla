--------------------------- MODULE FullTextProofs ---------------------------
(***************************************************************************)
(* A proof that no search returns a stale document, for any documents,     *)
(* fields, words, batches, backfills and transactions of any length; and   *)
(* that a search misses no document once the backfill has ended well, when *)
(* a transaction has one operation.                                        *)
(*                                                                         *)
(* At the end, what DocStoreProofs says of the documents and what this     *)
(* module says of the search is put together for a database with both.     *)
(*                                                                         *)
(* The argument: a posting has its word in the reverse entry of the        *)
(* document, and so it goes when the document is next written; and it was  *)
(* made from the text that the document still has, under the fields that   *)
(* are still configured.  A backfill compares the texts before it indexes, *)
(* and a new configuration starts with no postings.                        *)
(***************************************************************************)
EXTENDS MCDocStore, DocStoreProofs, OrderFacts

\* Every posting is in the reverse map, and true of the document.
Sound(file) ==
  \A w \in Words, i \in FtsIds : i \in file.post[w] =>
    /\ w \in file.rev[i]
    /\ file.docs[i] # NoFile /\ w \in WordsOf(file.docs[i], file.config)

\* A cursor stands at the key of a document, or before the first.
Fillers ==
  [pc : {"idle", "collect", "apply"}, after : FtsIds \cup {0},
   batch : SUBSET [id : FtsIds, text : Texts], done : BOOLEAN, latest : BOOLEAN]

CallsTyped == filler \in [FtsBuilders -> Fillers] /\ filled \in BOOLEAN

Types ==
  /\ fts \in Buckets
  /\ ftsTx = NoFile \/ ftsTx \in [file : Buckets, left : 0 .. FtsMaxOps]
  /\ CallsTyped

SearchInv == Types /\ Sound(fts) /\ (ftsTx # NoFile => Sound(ftsTx.file))

-----------------------------------------------------------------------------
LEMMA UnindexFacts ==
  ASSUME NEW file \in Buckets, Sound(file), NEW i \in FtsIds
  PROVE  LET e == UnindexFTS(file, i)
         IN  /\ e \in Buckets /\ e.docs = file.docs /\ e.config = file.config
             /\ \A w \in Words : e.post[w] \subseteq file.post[w] /\ i \notin e.post[w]
             /\ \A k \in FtsIds \ {i} : e.rev[k] = file.rev[k]
<1> DEFINE kept(w) == IF w \notin file.rev[i] THEN file.post[w]
                      ELSE IF KeyN(w) = 0 THEN {} ELSE file.post[w] \ {i}
           post == [w \in Words |-> kept(w)]
           rev == [file.rev EXCEPT ![i] = {}]
           e == UnindexFTS(file, i)
<1>0. \A w \in Words : kept(w) \subseteq file.post[w] /\ i \notin kept(w)
  BY DEF Sound, Buckets
<1>1. e = [file EXCEPT !.rev = rev, !.post = post]
  BY DEF UnindexFTS
<1>2. post \in [Words -> SUBSET FtsIds] /\ rev \in [FtsIds -> SUBSET Words]
  BY <1>0 DEF Buckets
<1> HIDE DEF post, rev, e
<1>3. /\ e \in Buckets /\ e.docs = file.docs /\ e.config = file.config
      /\ e.post = post /\ e.rev = rev
  BY <1>1, <1>2 DEF Buckets
<1>4. \A k \in FtsIds \ {i} : e.rev[k] = file.rev[k]
  BY <1>3 DEF rev, Buckets
<1>5. \A w \in Words : e.post[w] \subseteq file.post[w] /\ i \notin e.post[w]
  BY <1>0, <1>3 DEF post
<1> QED
  BY <1>3, <1>4, <1>5 DEF e

\* A document that is in no posting may be given a text and indexed.
LEMMA IndexFacts ==
  ASSUME NEW file \in Buckets, Sound(file), NEW i \in FtsIds, NEW text \in Texts,
         \A w \in Words : i \notin file.post[w]
  PROVE  LET e == IndexFTS([file EXCEPT !.docs[i] = text], i, text)
         IN  e \in Buckets /\ Sound(e)
<1> DEFINE words == WordsOf(text, file.config)
           docs == [file.docs EXCEPT ![i] = text]
           rev == [file.rev EXCEPT ![i] = IF words = {} THEN @ ELSE words]
           post == [w \in Words |-> IF w \in words THEN file.post[w] \cup {i} ELSE file.post[w]]
           e == IndexFTS([file EXCEPT !.docs[i] = text], i, text)
<1>1. words \subseteq Words
  BY DEF WordsOf, Texts, Buckets
<1>2. e = [file EXCEPT !.docs = docs, !.rev = rev, !.post = post]
  <2> DEFINE base == [file EXCEPT !.docs[i] = text]
  <2>1. base.config = file.config /\ base.rev = file.rev /\ base.post = file.post
    BY DEF Buckets
  <2>2. base = [file EXCEPT !.docs = docs]
    OBVIOUS
  <2> HIDE DEF base, docs
  <2>3. IndexFTS(base, i, text) = [base EXCEPT !.rev = rev, !.post = post]
    BY <2>1 DEF IndexFTS
  <2> HIDE DEF rev, post
  <2> QED
    BY <2>2, <2>3 DEF base
<1> HIDE DEF words
<1>3. /\ docs \in [FtsIds -> Texts \cup {NoFile}]
      /\ rev \in [FtsIds -> SUBSET Words] /\ post \in [Words -> SUBSET FtsIds]
  BY <1>1 DEF Buckets
<1> HIDE DEF docs, rev, post, e
<1>5. /\ e \in Buckets /\ e.config = file.config
      /\ e.docs = docs /\ e.post = post /\ e.rev = rev
  BY <1>2, <1>3 DEF Buckets
<1>4. Sound(e)
  <2> SUFFICES ASSUME NEW w \in Words, NEW k \in FtsIds, k \in e.post[w]
               PROVE  /\ w \in e.rev[k] /\ e.docs[k] # NoFile
                      /\ w \in WordsOf(e.docs[k], e.config)
    BY DEF Sound
  <2>1. CASE k = i
    <3>1. w \in words
      BY <1>5, <2>1 DEF post
    <3>2. e.docs[i] = text /\ e.rev[i] = words
      BY <1>5, <3>1 DEF Buckets, docs, rev
    <3>3. text # NoFile
      BY NoFileAssumption
    <3> QED
      BY <1>5, <2>1, <3>1, <3>2, <3>3 DEF words
  <2>2. CASE k # i
    <3>1. k \in file.post[w] /\ e.docs[k] = file.docs[k] /\ e.rev[k] = file.rev[k]
      BY <1>5, <2>2 DEF Buckets, docs, rev, post
    <3> QED
      BY <1>5, <3>1 DEF Sound
  <2> QED
    BY <2>1, <2>2
<1> QED
  BY <1>4, <1>5 DEF e

LEMMA WriteKeepsSound ==
  ASSUME NEW file \in Buckets, Sound(file), NEW i \in FtsIds, NEW text \in Texts
  PROVE  WriteText(file, i, text) \in Buckets /\ Sound(WriteText(file, i, text))
<1> DEFINE old == IF file.docs[i] = NoFile THEN file ELSE UnindexFTS(file, i)
<1>1. old \in Buckets /\ \A w \in Words : i \notin old.post[w]
  BY UnindexFacts DEF Sound
<1>2. Sound(old)
  <2>1. CASE file.docs[i] = NoFile
    BY <2>1
  <2>2. CASE file.docs[i] # NoFile
    <3> DEFINE e == UnindexFTS(file, i)
    <3>1. /\ e.docs = file.docs /\ e.config = file.config
          /\ \A w \in Words : e.post[w] \subseteq file.post[w] /\ i \notin e.post[w]
          /\ \A k \in FtsIds \ {i} : e.rev[k] = file.rev[k]
      BY UnindexFacts
    <3> HIDE DEF e
    <3>2. Sound(e)
      BY <3>1 DEF Sound
    <3> QED
      BY <2>2, <3>2 DEF e
  <2> QED
    BY <2>1, <2>2
<1> HIDE DEF old
<1>3. LET e == IndexFTS([old EXCEPT !.docs[i] = text], i, text)
      IN  e \in Buckets /\ Sound(e)
  BY <1>1, <1>2, IndexFacts
<1> QED
  BY <1>3 DEF WriteText, old

LEMMA DeleteKeepsSound ==
  ASSUME NEW file \in Buckets, Sound(file), NEW i \in FtsIds
  PROVE  DeleteText(file, i) \in Buckets /\ Sound(DeleteText(file, i))
<1> DEFINE u == UnindexFTS(file, i)
           e == DeleteText(file, i)
<1>1. /\ u \in Buckets /\ u.docs = file.docs /\ u.config = file.config
      /\ \A w \in Words : u.post[w] \subseteq file.post[w] /\ i \notin u.post[w]
      /\ \A k \in FtsIds \ {i} : u.rev[k] = file.rev[k]
  BY UnindexFacts
<1>2. e = [u EXCEPT !.docs[i] = NoFile]
  BY DEF DeleteText
<1> HIDE DEF u, e
<1>3. /\ e \in Buckets /\ e.post = u.post /\ e.rev = u.rev /\ e.config = u.config
      /\ \A k \in FtsIds \ {i} : e.docs[k] = u.docs[k]
  BY <1>1, <1>2 DEF Buckets
<1>4. Sound(e)
  BY <1>1, <1>3 DEF Sound
<1> QED
  BY <1>3, <1>4 DEF e

\* With no postings at all there is nothing to go wrong.
LEMMA ClearedIsSound ==
  ASSUME NEW file \in Buckets, NEW config \in SUBSET FtsFields
  PROVE  Cleared(file, config) \in Buckets /\ Sound(Cleared(file, config))
<1>1. Cleared(file, config) \in Buckets
  BY DEF Cleared, Buckets
<1>2. \A w \in Words : Cleared(file, config).post[w] = {}
  BY DEF Cleared, Buckets
<1> QED
  BY <1>1, <1>2 DEF Sound

LEMMA BatchKeepsSound ==
  ASSUME fts \in Buckets, Sound(fts),
         NEW batch \in SUBSET [id : FtsIds, text : Texts],
         \A d \in batch : fts.docs[d.id] = d.text
  PROVE  IndexAll(batch) \in Buckets /\ Sound(IndexAll(batch))
<1> DEFINE words(d) == WordsOf(d.text, fts.config)
           about(i) == { d \in batch : d.id = i /\ words(d) # {} }
           posted(w) == fts.post[w] \cup { d.id : d \in { x \in batch : w \in words(x) } }
           known(i) == IF about(i) = {} THEN fts.rev[i]
                       ELSE UNION { words(d) : d \in about(i) }
           post == [w \in Words |-> posted(w)]
           rev == [i \in FtsIds |-> known(i)]
           e == IndexAll(batch)
<1>1. \A d \in batch : d.id \in FtsIds /\ d.text \in Texts /\ words(d) \subseteq Words
  BY DEF WordsOf, Texts, Buckets
<1>2. e = [fts EXCEPT !.rev = rev, !.post = post]
  BY DEF IndexAll
<1>3. rev \in [FtsIds -> SUBSET Words] /\ post \in [Words -> SUBSET FtsIds]
  <2>1. \A w \in Words : posted(w) \subseteq FtsIds
    BY <1>1 DEF Buckets
  <2>2. \A i \in FtsIds : known(i) \subseteq Words
    BY <1>1 DEF Buckets
  <2> HIDE DEF posted, known
  <2> QED
    BY <2>1, <2>2
<1>4. ASSUME NEW w \in Words, NEW i \in FtsIds, i \in posted(w)
      PROVE  w \in known(i) /\ fts.docs[i] # NoFile /\ w \in WordsOf(fts.docs[i], fts.config)
  <2>1. CASE \E d \in batch : d.id = i /\ w \in words(d)
    <3>1. PICK d \in batch : d.id = i /\ w \in words(d)
      BY <2>1
    <3>2. fts.docs[i] = d.text /\ d.text # NoFile
      BY <1>1, <3>1, NoFileAssumption
    <3>3. d \in about(i)
      BY <3>1
    <3> QED
      BY <3>1, <3>2, <3>3
  <2>2. CASE ~ \E d \in batch : d.id = i /\ w \in words(d)
    <3>1. i \in fts.post[w]
      BY <1>4, <2>2
    <3>2. w \in fts.rev[i] /\ fts.docs[i] # NoFile /\ w \in WordsOf(fts.docs[i], fts.config)
      BY <3>1 DEF Sound
    <3>3. about(i) = {}
      BY <2>2, <3>2
    <3> QED
      BY <3>2, <3>3
  <2> QED
    BY <2>1, <2>2
<1> HIDE DEF posted, known, rev, post, e
<1>5. /\ e \in Buckets /\ e.docs = fts.docs /\ e.config = fts.config
      /\ e.rev = rev /\ e.post = post
  BY <1>2, <1>3 DEF Buckets
<1>6. Sound(e)
  BY <1>4, <1>5 DEF Sound, rev, post
<1> QED
  BY <1>5, <1>6 DEF e

-----------------------------------------------------------------------------
(* The invariant.                                                          *)

LEMMA FillerFacts ==
  /\ NoFill \in Fillers /\ NoFill.pc = "idle"
  /\ [NoFill EXCEPT !.pc = "collect", !.latest = TRUE] \in Fillers
  /\ CallsTyped => NotLatest \in [FtsBuilders -> Fillers]
BY DEF NoFill, Fillers, CallsTyped, NotLatest

LEMMA InitSearchInv == FullTextInit => SearchInv
<1> SUFFICES ASSUME FullTextInit
             PROVE  SearchInv
  OBVIOUS
<1>1. fts \in Buckets /\ \A w \in Words : fts.post[w] = {}
  BY DEF FullTextInit, Buckets
<1>2. CallsTyped
  BY FillerFacts DEF FullTextInit, CallsTyped
<1>3. ftsTx = NoFile
  BY DEF FullTextInit
<1> QED
  BY <1>1, <1>2, <1>3 DEF SearchInv, Types, Sound

\* A write transaction works on its own buckets until it commits them.
LEMMA WritesKeepSearchInv ==
  ASSUME SearchInv,
         \/ \E n \in 1 .. FtsMaxOps : BeginWrite(n)
         \/ \E i \in FtsIds : FtsRemoveDocument(i) \/ \E text \in Texts : WriteDocument(i, text)
         \/ CommitWrites \/ RollbackWrites
  PROVE  SearchInv'
<1> USE DEF SearchInv, Types
<1>1. CallsTyped'
  BY DEF BeginWrite, FtsRemoveDocument, WriteDocument, Step, CommitWrites, RollbackWrites,
         CallsTyped
<1>2. ASSUME NEW n \in 1 .. FtsMaxOps, BeginWrite(n) PROVE SearchInv'
  <2>1. /\ fts' = fts /\ ftsTx'.file = fts
        /\ ftsTx' \in [file : Buckets, left : 0 .. FtsMaxOps]
    BY <1>2, FullTextAssumption DEF BeginWrite
  <2> QED
    BY <1>1, <2>1 DEF Sound, WordsOf
<1>3. ASSUME NEW file \in Buckets, Sound(file), InWrite, Step(file) PROVE SearchInv'
  <2>1. /\ fts' = fts /\ ftsTx'.file = file
        /\ ftsTx' \in [file : Buckets, left : 0 .. FtsMaxOps]
    BY <1>3, FullTextAssumption DEF Step, InWrite
  <2> QED
    BY <1>1, <1>3, <2>1 DEF Sound, WordsOf
<1>4. ASSUME NEW i \in FtsIds, FtsRemoveDocument(i) PROVE SearchInv'
  BY <1>3, <1>4, DeleteKeepsSound DEF FtsRemoveDocument, InWrite
<1>5. ASSUME NEW i \in FtsIds, NEW text \in Texts, WriteDocument(i, text) PROVE SearchInv'
  BY <1>3, <1>5, WriteKeepsSound DEF WriteDocument, InWrite
<1>6. CASE CommitWrites
  BY <1>1, <1>6 DEF CommitWrites, Sound, WordsOf
<1>7. CASE RollbackWrites
  BY <1>1, <1>7 DEF RollbackWrites, Sound, WordsOf
<1> QED
  BY <1>2, <1>4, <1>5, <1>6, <1>7

\* A new value of the file, with no transaction open, is all there is to see.
LEMMA NewFile ==
  ASSUME SearchInv, NEW file \in Buckets, Sound(file), fts' = file,
         ftsTx = NoFile, ftsTx' = ftsTx, CallsTyped'
  PROVE  SearchInv'
<1>1. Sound(fts)'
  BY DEF Sound, WordsOf
<1> QED
  BY <1>1 DEF SearchInv, Types

LEMMA DeletionKeepsSearchInv ==
  ASSUME SearchInv, FtsDeleteCollection
  PROVE  SearchInv'
<1> DEFINE c == Cleared(fts, {})
           e == [c EXCEPT !.docs = [i \in FtsIds |-> NoFile]]
<1>1. c \in Buckets /\ \A w \in Words : c.post[w] = {}
  BY DEF SearchInv, Types, Cleared, Buckets
<1>2. fts' = e
  BY DEF FtsDeleteCollection
<1> HIDE DEF c
<1>3. e \in Buckets /\ e.post = c.post
  BY <1>1 DEF Buckets
<1>4. Sound(e)
  BY <1>1, <1>3 DEF Sound
<1> HIDE DEF e
<1>5. CallsTyped'
  BY FillerFacts DEF FtsDeleteCollection, SearchInv, Types, CallsTyped
<1> QED
  BY <1>2, <1>3, <1>4, <1>5, NewFile DEF FtsDeleteCollection

LEMMA SetConfigKeepsSearchInv ==
  ASSUME SearchInv, NEW b \in FtsBuilders, NEW config \in SUBSET FtsFields,
         SetFTSConfig(b, config)
  PROVE  SearchInv'
<1>1. Cleared(fts, config) \in Buckets /\ Sound(Cleared(fts, config))
  BY ClearedIsSound DEF SearchInv, Types
<1>2. CallsTyped'
  BY FillerFacts DEF SetFTSConfig, SearchInv, Types, CallsTyped
<1> QED
  BY <1>1, <1>2, NewFile DEF SetFTSConfig

\* Steps of a backfill that only read.
LEMMA ReadingKeepsSearchInv ==
  ASSUME SearchInv, UNCHANGED <<fts, ftsTx>>, CallsTyped'
  PROVE  SearchInv'
BY DEF SearchInv, Types, Sound, WordsOf

\* The keys that remain, and the cursor after the next batch of them.
LEMMA CursorMoves ==
  ASSUME NEW after \in FtsIds \cup {0}
  PROVE  /\ LastKey(after) \in FtsIds \cup {0} /\ after <= LastKey(after)
         /\ \A i \in Remaining(after) : i <= LastKey(after) => i \in NextBatch(after)
         /\ NextBatch(after) = {} => Remaining(after) = {}
         /\ NextBatch(after) \subseteq Remaining(after)
<1> DEFINE rest == Remaining(after)
<1>1. /\ FtsIds \in SUBSET (Nat \ {0}) /\ IsFiniteSet(FtsIds) /\ rest \in SUBSET FtsIds
      /\ FtsBatchSize \in Nat \ {0}
  BY FullTextAssumption DEF Remaining
<1>2. rest = { i \in rest : i > after }
  BY DEF Remaining
<1>3. NextBatch(after) = Batch(rest, FtsBatchSize)
  BY DEF NextBatch, Batch
<1> HIDE DEF rest
<1>4. LastKey(after) = Max(Batch(rest, FtsBatchSize) \cup {after})
  BY <1>3 DEF LastKey
<1>5. rest \in SUBSET Nat /\ IsFiniteSet(rest)
  BY <1>1, FS_Subset
<1>6. /\ LastKey(after) \in FtsIds \cup {0} /\ after <= LastKey(after)
      /\ \A i \in rest : i <= LastKey(after) => i \in Batch(rest, FtsBatchSize)
  BY <1>1, <1>2, <1>4, CursorFacts
<1>7. /\ Batch(rest, FtsBatchSize) \subseteq rest
      /\ rest # {} => Batch(rest, FtsBatchSize) # {}
  BY <1>1, <1>5, BatchFacts
<1> QED
  BY <1>3, <1>6, <1>7 DEF rest

\* The call of a backfill after it has read a batch.
Reading(b) ==
  LET after == filler[b].after
  IN  [filler[b] EXCEPT
         !.pc = "apply", !.after = LastKey(after),
         !.batch = { [id |-> i, text |-> fts.docs[i]] : i \in NextBatch(after) },
         !.done = (Remaining(LastKey(after)) = {})]

LEMMA CollectMoves ==
  ASSUME SearchInv, NEW b \in FtsBuilders, CollectBatch(b)
  PROVE  /\ UNCHANGED <<fts, ftsTx>> /\ filler[b].pc = "collect"
         /\ \/ NextBatch(filler[b].after) = {} /\ EndFill(b)
            \/ filler' = [filler EXCEPT ![b] = Reading(b)] /\ UNCHANGED filled
BY DEF CollectBatch, Reading

LEMMA ReadingFacts ==
  ASSUME SearchInv, NEW b \in FtsBuilders
  PROVE  LET r == Reading(b)
             after == filler[b].after
         IN  /\ r \in Fillers /\ r.pc = "apply" /\ r.latest = filler[b].latest
             /\ r.after = LastKey(after)
             /\ \A i \in NextBatch(after) : [id |-> i, text |-> fts.docs[i]] \in r.batch
             /\ r.done <=> Remaining(LastKey(after)) = {}
<1> DEFINE after == filler[b].after
           batch == { [id |-> i, text |-> fts.docs[i]] : i \in NextBatch(after) }
           done == Remaining(LastKey(after)) = {}
           last == LastKey(after)
<1>1. filler[b] \in Fillers
  BY DEF SearchInv, Types, CallsTyped
<1>2. batch \in SUBSET [id : FtsIds, text : Texts]
  <2>1. \A i \in NextBatch(after) : i \in FtsIds /\ fts.docs[i] # NoFile
    BY DEF NextBatch, Remaining
  <2>2. fts.docs \in [FtsIds -> Texts \cup {NoFile}]
    BY DEF SearchInv, Types, Buckets
  <2> QED
    BY <2>1, <2>2
<1>3. after \in FtsIds \cup {0}
  BY <1>1 DEF Fillers
<1>4. last \in FtsIds \cup {0}
  <2> HIDE DEF after
  <2> QED
    BY <1>3, CursorMoves
<1>5. done \in BOOLEAN
  OBVIOUS
<1>6. Reading(b) = [filler[b] EXCEPT !.pc = "apply", !.after = last, !.batch = batch,
                                     !.done = done]
  BY DEF Reading
<1>7. \A i \in NextBatch(after) : [id |-> i, text |-> fts.docs[i]] \in batch
  OBVIOUS
<1>8. done <=> Remaining(LastKey(after)) = {}
  OBVIOUS
<1> HIDE DEF batch, done, last
<1>9. /\ Reading(b) \in Fillers /\ Reading(b).pc = "apply" /\ Reading(b).after = last
      /\ Reading(b).latest = filler[b].latest /\ Reading(b).batch = batch
      /\ Reading(b).done = done
  BY <1>1, <1>2, <1>4, <1>5, <1>6 DEF Fillers
<1> QED
  BY <1>7, <1>8, <1>9 DEF last

LEMMA EndTyped ==
  ASSUME CallsTyped, NEW b \in FtsBuilders, EndFill(b)
  PROVE  CallsTyped'
<1>1. filler[b].latest \in BOOLEAN
  BY DEF CallsTyped, Fillers
<1> QED
  BY <1>1, FillerFacts DEF CallsTyped, EndFill

LEMMA CollectKeepsSearchInv ==
  ASSUME SearchInv, NEW b \in FtsBuilders, CollectBatch(b)
  PROVE  SearchInv'
<1>1. CallsTyped
  BY DEF SearchInv, Types
<1>2. Reading(b) \in Fillers
  BY ReadingFacts
<1>3. CallsTyped'
  <2>1. CASE EndFill(b)
    BY <1>1, <2>1, EndTyped
  <2>2. CASE filler' = [filler EXCEPT ![b] = Reading(b)] /\ UNCHANGED filled
    BY <1>1, <1>2, <2>2 DEF CallsTyped
  <2> QED
    BY <2>1, <2>2, CollectMoves
<1> QED
  BY <1>3, CollectMoves, ReadingKeepsSearchInv

LEMMA ApplyKeepsSearchInv ==
  ASSUME SearchInv, NEW b \in FtsBuilders, ApplyBatch(b)
  PROVE  SearchInv'
<1> DEFINE batch == SameAsRead(filler[b].batch)
<1>0. CallsTyped /\ filler[b] \in Fillers
  BY DEF SearchInv, Types, CallsTyped
<1>1. batch \in SUBSET [id : FtsIds, text : Texts] /\ \A d \in batch : fts.docs[d.id] = d.text
  BY <1>0 DEF SameAsRead, Fillers
<1>2. IndexAll(batch) \in Buckets /\ Sound(IndexAll(batch))
  BY <1>1, BatchKeepsSound DEF SearchInv, Types
<1>3. CallsTyped'
  <2>1. CASE EndFill(b)
    BY <1>0, <2>1, EndTyped
  <2>2. CASE ~ filler[b].done
    <3>1. /\ filler' = [filler EXCEPT ![b] = [@ EXCEPT !.pc = "collect", !.batch = {}]]
          /\ UNCHANGED filled
      BY <2>2 DEF ApplyBatch
    <3>2. [filler[b] EXCEPT !.pc = "collect", !.batch = {}] \in Fillers
      BY <1>0 DEF Fillers
    <3> QED
      BY <1>0, <3>1, <3>2 DEF CallsTyped
  <2> QED
    BY <2>1, <2>2 DEF ApplyBatch
<1> QED
  BY <1>2, <1>3, NewFile DEF ApplyBatch

LEMMA StepSearchInv == SearchInv /\ [FullTextNext]_fullTextVars => SearchInv'
<1> SUFFICES ASSUME SearchInv, [FullTextNext]_fullTextVars
             PROVE  SearchInv'
  OBVIOUS
<1>0. CallsTyped
  BY DEF SearchInv, Types
<1>1. CASE \/ \E n \in 1 .. FtsMaxOps : BeginWrite(n)
           \/ \E i \in FtsIds : FtsRemoveDocument(i) \/ \E text \in Texts : WriteDocument(i, text)
           \/ CommitWrites \/ RollbackWrites
  BY <1>1, WritesKeepSearchInv
<1>2. CASE FtsDeleteCollection
  BY <1>2, DeletionKeepsSearchInv
<1>3. ASSUME NEW b \in FtsBuilders, \E config \in SUBSET FtsFields : SetFTSConfig(b, config)
      PROVE  SearchInv'
  BY <1>3, SetConfigKeepsSearchInv
<1>4. ASSUME NEW b \in FtsBuilders, CollectBatch(b) PROVE SearchInv'
  BY <1>4, CollectKeepsSearchInv
<1>5. ASSUME NEW b \in FtsBuilders, ApplyBatch(b) PROVE SearchInv'
  BY <1>5, ApplyKeepsSearchInv
<1>6. ASSUME NEW b \in FtsBuilders, Abandon(b) PROVE SearchInv'
  <2>1. CallsTyped'
    BY <1>0, <1>6, FillerFacts DEF Abandon, CallsTyped
  <2> QED
    BY <1>6, <2>1, ReadingKeepsSearchInv DEF Abandon
<1>7. CASE CrashFullText
  <2>1. CallsTyped'
    BY <1>0, <1>7, FillerFacts DEF CrashFullText, CallsTyped
  <2> QED
    BY <1>7, <2>1 DEF CrashFullText, SearchInv, Types, Sound, WordsOf
<1>8. CASE UNCHANGED fullTextVars
  <2>1. CallsTyped'
    BY <1>0, <1>8 DEF fullTextVars, CallsTyped
  <2> QED
    BY <1>8, <2>1, ReadingKeepsSearchInv DEF fullTextVars
<1> QED
  BY <1>1, <1>2, <1>3, <1>4, <1>5, <1>6, <1>7, <1>8 DEF FullTextNext

\* The buckets, the open transaction and the backfills keep their types; a
\* cursor never leaves the keys of the documents.
THEOREM SearchTypes == FullTextSpec => []FullTextTypeOK
<1>1. SearchInv => FullTextTypeOK
  <2> SUFFICES ASSUME SearchInv PROVE FullTextTypeOK
    OBVIOUS
  <2>1. /\ fts \in Buckets /\ CallsTyped
        /\ ftsTx = NoFile \/ ftsTx \in [file : Buckets, left : 0 .. FtsMaxOps]
    BY DEF SearchInv, Types
  <2>2. ASSUME NEW b \in FtsBuilders
        PROVE  /\ filler[b].pc \in {"idle", "collect", "apply"}
               /\ filler[b].after \in Nat
               /\ filler[b].batch \subseteq [id : FtsIds, text : Texts]
               /\ filler[b].done \in BOOLEAN /\ filler[b].latest \in BOOLEAN
    <3>1. PICK r \in Fillers : r = filler[b]
      BY <2>1 DEF CallsTyped
    <3>2. r.after \in Nat
      <4>1. FtsIds \cup {0} \subseteq Nat
        BY FullTextAssumption
      <4>2. r.after \in FtsIds \cup {0}
        BY DEF Fillers
      <4> QED
        BY <4>1, <4>2
    <3>3. /\ r.pc \in {"idle", "collect", "apply"}
          /\ r.batch \subseteq [id : FtsIds, text : Texts]
          /\ r.done \in BOOLEAN /\ r.latest \in BOOLEAN
      BY DEF Fillers
    <3> QED
      BY <3>1, <3>2, <3>3
  <2> QED
    BY <2>1, <2>2 DEF FullTextTypeOK, CallsTyped
<1> QED
  BY <1>1, InitSearchInv, StepSearchInv, PTL DEF FullTextSpec

\* A search returns only documents that hold every word of the query now, in
\* a configured field (searchFTS over the postings of fts.go).
THEOREM SearchesAreTrue == FullTextSpec => []SearchReturnsNoStale
<1>1. SearchInv => SearchReturnsNoStale
  <2> SUFFICES ASSUME SearchInv, NEW query \in Queries, NEW i \in Search(query)
               PROVE  i \in Holding(query)
    BY DEF SearchReturnsNoStale
  <2>1. i \in FtsIds /\ \A w \in query : w \in Words /\ i \in fts.post[w]
    BY DEF Search, Queries
  <2>2. PICK w \in Words : w \in query
    BY DEF Queries
  <2> QED
    BY <2>1, <2>2 DEF Holding, SearchInv, Sound
<1> QED
  BY <1>1, InitSearchInv, StepSearchInv, PTL DEF FullTextSpec

-----------------------------------------------------------------------------
(* Nothing is missing, when a write transaction has one operation.         *)

\* Every word of the document i is posted.
IsPosted(file, i) ==
  file.docs[i] # NoFile =>
    \A w \in WordsOf(file.docs[i], file.config) : i \in file.post[w]

\* What a backfill has behind it, while its configuration is in force: the
\* documents it has read are posted, or in its batch as they are now.
Reached(r) ==
  r.latest =>
    /\ r.pc = "collect" => \A i \in FtsIds : i <= r.after => IsPosted(fts, i)
    /\ r.pc = "apply" =>
         \A i \in FtsIds : i <= r.after \/ r.done =>
           IsPosted(fts, i) \/ [id |-> i, text |-> fts.docs[i]] \in r.batch

\* What a write transaction may do to the file: the documents it touches are
\* posted when it is through, and the others stay as they are.
Advances(file) ==
  /\ file.config = fts.config
  /\ \A i \in FtsIds : /\ IsPosted(fts, i) => IsPosted(file, i)
                       /\ file.docs[i] = fts.docs[i] \/ IsPosted(file, i)

FoundInv ==
  /\ SearchInv
  /\ ftsTx # NoFile => /\ Advances(ftsTx.file)
                       /\ ftsTx.left > 0 => ftsTx.file = fts
  /\ \A b \in FtsBuilders : Reached(filler[b])
  /\ filled => \A i \in FtsIds : IsPosted(fts, i)

\* unindexFTS of the committed file takes the document out of the postings and
\* nothing else: KeyN counts the keys that are there.
LEMMA UnindexIsExact ==
  ASSUME fts \in Buckets, NEW i \in FtsIds
  PROVE  LET e == UnindexFTS(fts, i)
         IN  /\ e \in Buckets /\ e.docs = fts.docs /\ e.config = fts.config
             /\ \A w \in Words, k \in FtsIds \ {i} : k \in fts.post[w] => k \in e.post[w]
<1> DEFINE kept(w) == IF w \notin fts.rev[i] THEN fts.post[w]
                      ELSE IF KeyN(w) = 0 THEN {} ELSE fts.post[w] \ {i}
           post == [w \in Words |-> kept(w)]
           rev == [fts.rev EXCEPT ![i] = {}]
           e == UnindexFTS(fts, i)
<1>1. ASSUME NEW w \in Words
      PROVE  kept(w) \subseteq FtsIds /\ \A k \in fts.post[w] : k # i => k \in kept(w)
  <2>1. fts.post[w] \subseteq FtsIds /\ IsFiniteSet(fts.post[w])
    <3>1. fts.post[w] \subseteq FtsIds
      BY DEF Buckets
    <3> QED
      BY <3>1, FullTextAssumption, FS_Subset
  <2>2. KeyN(w) = 0 => fts.post[w] = {}
    BY <2>1, FS_EmptySet DEF KeyN
  <2> QED
    BY <2>1, <2>2
<1>2. e = [fts EXCEPT !.rev = rev, !.post = post]
  BY DEF UnindexFTS
<1>3. post \in [Words -> SUBSET FtsIds] /\ rev \in [FtsIds -> SUBSET Words]
  BY <1>1 DEF Buckets
<1>4. \A w \in Words : post[w] = kept(w)
  OBVIOUS
<1> HIDE DEF post, rev, e, kept
<1>5. e \in Buckets /\ e.docs = fts.docs /\ e.config = fts.config /\ e.post = post
  BY <1>2, <1>3 DEF Buckets
<1> QED
  BY <1>1, <1>4, <1>5 DEF e

\* indexFTS posts the words of the document and takes nothing away.
LEMMA IndexPosts ==
  ASSUME NEW file \in Buckets, NEW i \in FtsIds, NEW text \in Texts
  PROVE  LET e == IndexFTS([file EXCEPT !.docs[i] = text], i, text)
         IN  /\ e.config = file.config /\ e.docs = [file.docs EXCEPT ![i] = text]
             /\ \A w \in Words : file.post[w] \subseteq e.post[w]
             /\ \A w \in WordsOf(text, file.config) : w \in Words /\ i \in e.post[w]
<1> DEFINE base == [file EXCEPT !.docs[i] = text]
           words == WordsOf(text, file.config)
           post == [w \in Words |-> IF w \in words THEN file.post[w] \cup {i} ELSE file.post[w]]
           rev == [file.rev EXCEPT ![i] = IF words = {} THEN @ ELSE words]
<1>1. words \subseteq Words
  BY DEF WordsOf, Texts, Buckets
<1>2. /\ base.config = file.config /\ base.rev = file.rev /\ base.post = file.post
      /\ base.docs = [file.docs EXCEPT ![i] = text]
      /\ base \in Buckets
  <2>1. [file.docs EXCEPT ![i] = text] \in [FtsIds -> Texts \cup {NoFile}]
    BY DEF Buckets
  <2>2. base = [file EXCEPT !.docs = [file.docs EXCEPT ![i] = text]]
    OBVIOUS
  <2> HIDE DEF base
  <2> QED
    BY <2>1, <2>2 DEF Buckets
<1> HIDE DEF base, words
<1>3. IndexFTS(base, i, text) = [base EXCEPT !.rev = rev, !.post = post]
  BY <1>2 DEF IndexFTS, words
<1>4. \A w \in Words : /\ file.post[w] \subseteq post[w]
                       /\ w \in words => i \in post[w]
  OBVIOUS
<1> HIDE DEF post, rev
<1>5. /\ IndexFTS(base, i, text).config = file.config
      /\ IndexFTS(base, i, text).docs = [file.docs EXCEPT ![i] = text]
      /\ IndexFTS(base, i, text).post = post
  BY <1>2, <1>3 DEF Buckets
<1> QED
  BY <1>1, <1>4, <1>5 DEF base, words

\* The words of a document are words.
LEMMA WordsAreWords ==
  ASSUME NEW file \in Buckets, NEW i \in FtsIds, file.docs[i] # NoFile
  PROVE  WordsOf(file.docs[i], file.config) \subseteq Words
<1>1. file.docs[i] \in Texts /\ file.config \subseteq FtsFields
  BY DEF Buckets
<1> QED
  BY <1>1 DEF WordsOf, Texts

\* A transaction of one operation advances the file it began with.
LEMMA WriteAdvances ==
  ASSUME fts \in Buckets, NEW i \in FtsIds, NEW text \in Texts
  PROVE  Advances(WriteText(fts, i, text))
<1>1. PICK old \in Buckets :
        /\ old = IF fts.docs[i] = NoFile THEN fts ELSE UnindexFTS(fts, i)
        /\ old.docs = fts.docs /\ old.config = fts.config
        /\ \A w \in Words, k \in FtsIds \ {i} : k \in fts.post[w] => k \in old.post[w]
  <2>1. CASE fts.docs[i] = NoFile
    BY <2>1
  <2>2. CASE fts.docs[i] # NoFile
    BY <2>2, UnindexIsExact
  <2> QED
    BY <2>1, <2>2
<1>2. PICK e : e = IndexFTS([old EXCEPT !.docs[i] = text], i, text)
  OBVIOUS
<1>3. /\ e.config = old.config /\ e.docs = [old.docs EXCEPT ![i] = text]
      /\ \A w \in Words : old.post[w] \subseteq e.post[w]
      /\ \A w \in WordsOf(text, old.config) : w \in Words /\ i \in e.post[w]
  BY <1>2, IndexPosts
<1>4. /\ e.config = fts.config /\ e.docs[i] = text
      /\ \A k \in FtsIds \ {i} : e.docs[k] = fts.docs[k]
  BY <1>1, <1>3 DEF Buckets
<1>5. IsPosted(e, i)
  BY <1>1, <1>3, <1>4 DEF IsPosted
<1>6. ASSUME NEW k \in FtsIds \ {i}, IsPosted(fts, k)
      PROVE  IsPosted(e, k)
  <2> SUFFICES ASSUME fts.docs[k] # NoFile, NEW w \in WordsOf(fts.docs[k], fts.config)
               PROVE  k \in e.post[w]
    BY <1>4 DEF IsPosted
  <2>1. w \in Words /\ k \in fts.post[w]
    BY <1>6, WordsAreWords DEF IsPosted
  <2> QED
    BY <2>1, <1>1, <1>3
<1>7. Advances(e)
  BY <1>4, <1>5, <1>6 DEF Advances
<1> QED
  BY <1>1, <1>2, <1>7 DEF WriteText

LEMMA DeleteAdvances ==
  ASSUME fts \in Buckets, NEW i \in FtsIds
  PROVE  Advances(DeleteText(fts, i))
<1>1. PICK u \in Buckets :
        /\ u = UnindexFTS(fts, i) /\ u.docs = fts.docs /\ u.config = fts.config
        /\ \A w \in Words, k \in FtsIds \ {i} : k \in fts.post[w] => k \in u.post[w]
  BY UnindexIsExact
<1>2. PICK e : e = [u EXCEPT !.docs[i] = NoFile]
  OBVIOUS
<1>3. /\ e.config = fts.config /\ e.docs[i] = NoFile /\ e.post = u.post
      /\ \A k \in FtsIds \ {i} : e.docs[k] = fts.docs[k]
  BY <1>1, <1>2 DEF Buckets
<1>4. ASSUME NEW k \in FtsIds \ {i}, IsPosted(fts, k)
      PROVE  IsPosted(e, k)
  <2> SUFFICES ASSUME fts.docs[k] # NoFile, NEW w \in WordsOf(fts.docs[k], fts.config)
               PROVE  k \in e.post[w]
    BY <1>3 DEF IsPosted
  <2>1. w \in Words /\ k \in fts.post[w]
    BY <1>4, WordsAreWords DEF IsPosted
  <2> QED
    BY <2>1, <1>1, <1>3
<1>5. Advances(e)
  BY <1>3, <1>4 DEF Advances, IsPosted
<1> QED
  BY <1>1, <1>2, <1>5 DEF DeleteText

\* Steps after which the file is the same, or has documents that are posted
\* in place of others: the backfills have what they had.
LEMMA ReachedKept ==
  ASSUME NEW r \in Fillers, Reached(r),
         \A i \in FtsIds : /\ IsPosted(fts, i) => IsPosted(fts', i)
                           /\ fts'.docs[i] = fts.docs[i] \/ IsPosted(fts', i)
  PROVE  Reached(r)'
BY DEF Reached

LEMMA FileAdvances ==
  ASSUME FoundInv, SearchInv', filled' = filled,
         \A b \in FtsBuilders : filler'[b] = filler[b] \/ filler'[b] = NoFill,
         \A i \in FtsIds : /\ IsPosted(fts, i) => IsPosted(fts', i)
                           /\ fts'.docs[i] = fts.docs[i] \/ IsPosted(fts', i),
         ftsTx' # NoFile => /\ Advances(ftsTx.file)'
                            /\ ftsTx'.left > 0 => ftsTx'.file = fts'
  PROVE  FoundInv'
<1>1. ASSUME NEW b \in FtsBuilders PROVE Reached(filler[b])'
  <2>1. PICK r \in Fillers : r = filler'[b]
    BY DEF SearchInv, Types, CallsTyped
  <2>2. CASE r = NoFill
    BY <2>1, <2>2, FillerFacts DEF Reached
  <2>3. CASE r = filler[b]
    <3>1. Reached(r)
      BY <2>3 DEF FoundInv
    <3>2. Reached(r)'
      BY <3>1, ReachedKept
    <3> QED
      BY <2>1, <3>2
  <2> QED
    BY <2>1, <2>2, <2>3
<1> QED
  BY <1>1 DEF FoundInv

LEMMA WritesKeepFound ==
  ASSUME FtsMaxOps <= 1, FoundInv, SearchInv',
         \/ \E n \in 1 .. FtsMaxOps : BeginWrite(n)
         \/ \E i \in FtsIds : FtsRemoveDocument(i) \/ \E text \in Texts : WriteDocument(i, text)
         \/ CommitWrites \/ RollbackWrites
  PROVE  FoundInv'
<1>1. filler' = filler /\ filled' = filled
  BY DEF BeginWrite, FtsRemoveDocument, WriteDocument, Step, CommitWrites, RollbackWrites
<1>2. ftsTx # NoFile => ftsTx.left \in 0 .. FtsMaxOps
  BY DEF FoundInv, SearchInv, Types
<1>3. ASSUME NEW n \in 1 .. FtsMaxOps, BeginWrite(n) PROVE FoundInv'
  <2>1. fts' = fts /\ ftsTx'.file = fts
    BY <1>3 DEF BeginWrite
  <2>2. Advances(ftsTx.file)'
    BY <2>1 DEF Advances
  <2> QED
    BY <1>1, <2>1, <2>2, FileAdvances DEF IsPosted
<1>4. ASSUME NEW file, InWrite, Step(file), Advances(file) PROVE FoundInv'
  <2>1. fts' = fts /\ ftsTx'.file = file /\ ftsTx'.left = ftsTx.left - 1
    BY <1>4 DEF Step
  <2>2. ftsTx.left \in 0 .. FtsMaxOps /\ ftsTx.left > 0
    BY <1>2, <1>4 DEF InWrite
  <2>3. ~ (ftsTx'.left > 0)
    BY <2>1, <2>2, FullTextAssumption
  <2>4. Advances(ftsTx.file)'
    BY <2>1, <1>4 DEF Advances, IsPosted
  <2> QED
    BY <1>1, <2>1, <2>3, <2>4, FileAdvances DEF IsPosted
<1>5. InWrite => ftsTx.file = fts /\ fts \in Buckets
  BY DEF InWrite, FoundInv, SearchInv, Types
<1>6. ASSUME NEW i \in FtsIds, FtsRemoveDocument(i) PROVE FoundInv'
  BY <1>4, <1>5, <1>6, DeleteAdvances DEF FtsRemoveDocument
<1>7. ASSUME NEW i \in FtsIds, NEW text \in Texts, WriteDocument(i, text) PROVE FoundInv'
  BY <1>4, <1>5, <1>7, WriteAdvances DEF WriteDocument
<1>8. CASE CommitWrites
  <2>1. Advances(ftsTx.file) /\ fts' = ftsTx.file /\ ftsTx' = NoFile
    BY <1>8 DEF CommitWrites, FoundInv
  <2> QED
    BY <1>1, <2>1, FileAdvances DEF Advances
<1>9. CASE RollbackWrites
  <2>1. fts' = fts /\ ftsTx' = NoFile
    BY <1>9 DEF RollbackWrites
  <2> QED
    BY <1>1, <2>1, FileAdvances
<1> QED
  BY <1>3, <1>6, <1>7, <1>8, <1>9

\* A configuration or a deletion leaves no backfill that is the latest, but
\* the one that begins.
LEMMA AnewKeepsFound ==
  ASSUME FoundInv, SearchInv', ftsTx' = NoFile, filled' = FALSE,
         \A b \in FtsBuilders :
           \/ filler'[b].latest = FALSE
           \/ filler'[b].pc = "collect" /\ filler'[b].after = 0
  PROVE  FoundInv'
<1>1. \A i \in FtsIds : ~ (i <= 0)
  <2>1. ASSUME NEW i \in FtsIds PROVE ~ (i <= 0)
    <3>1. i \in Nat /\ i # 0
      BY FullTextAssumption
    <3> QED
      BY <3>1
  <2> QED
    BY <2>1
<1>2. ASSUME NEW b \in FtsBuilders PROVE Reached(filler[b])'
  BY <1>1 DEF Reached
<1> QED
  BY <1>2 DEF FoundInv

LEMMA ConfigKeepsFound ==
  ASSUME FoundInv, SearchInv',
         \/ FtsDeleteCollection
         \/ \E b \in FtsBuilders, config \in SUBSET FtsFields : SetFTSConfig(b, config)
  PROVE  FoundInv'
<1>1. filler \in [FtsBuilders -> Fillers]
  BY DEF FoundInv, SearchInv, Types, CallsTyped
<1>2. NotLatest \in [FtsBuilders -> Fillers] /\ \A b \in FtsBuilders : NotLatest[b].latest = FALSE
  BY <1>1 DEF NotLatest, Fillers
<1>3. CASE FtsDeleteCollection
  BY <1>2, <1>3, AnewKeepsFound DEF FtsDeleteCollection
<1>4. ASSUME NEW b \in FtsBuilders, NEW config \in SUBSET FtsFields, SetFTSConfig(b, config)
      PROVE  FoundInv'
  <2> DEFINE to == [NoFill EXCEPT !.pc = "collect", !.latest = TRUE]
  <2>1. to.pc = "collect" /\ to.after = 0
    BY DEF NoFill
  <2>2. filler' = [NotLatest EXCEPT ![b] = to] /\ ftsTx' = NoFile /\ filled' = FALSE
    BY <1>4 DEF SetFTSConfig
  <2> HIDE DEF to
  <2>3. \A a \in FtsBuilders : filler'[a] = IF a = b THEN to ELSE NotLatest[a]
    BY <1>2, <2>2
  <2> QED
    BY <1>2, <2>1, <2>2, <2>3, AnewKeepsFound
<1> QED
  BY <1>3, <1>4

LEMMA CollectKeepsFound ==
  ASSUME FoundInv, SearchInv', NEW b \in FtsBuilders, CollectBatch(b)
  PROVE  FoundInv'
<1>1. SearchInv /\ filler \in [FtsBuilders -> Fillers]
  BY DEF FoundInv, SearchInv, Types, CallsTyped
<1>2. PICK r \in Fillers : r = filler[b]
  BY <1>1
<1>3. /\ UNCHANGED <<fts, ftsTx>> /\ r.pc = "collect" /\ Reached(r)
      /\ r.after \in FtsIds \cup {0}
      /\ r.latest => \A i \in FtsIds : i <= r.after => IsPosted(fts, i)
  BY <1>1, <1>2, CollectMoves DEF FoundInv, Reached, Fillers
<1>4. /\ LastKey(r.after) \in FtsIds \cup {0} /\ r.after <= LastKey(r.after)
      /\ \A i \in Remaining(r.after) : i <= LastKey(r.after) => i \in NextBatch(r.after)
      /\ NextBatch(r.after) = {} => Remaining(r.after) = {}
  BY <1>3, CursorMoves
<1>5. \A n \in FtsIds \cup {0}, i \in FtsIds :
        i <= n \/ i \in Remaining(n) \/ fts.docs[i] = NoFile
  <2> SUFFICES ASSUME NEW n \in FtsIds \cup {0}, NEW i \in FtsIds, ~ (i <= n),
                      fts.docs[i] # NoFile
               PROVE  i \in Remaining(n)
    OBVIOUS
  <2>1. FtsIds \cup {0} \subseteq Nat
    BY FullTextAssumption
  <2>2. i \in Nat /\ n \in Nat
    BY <2>1
  <2> QED
    BY <2>2 DEF Remaining
<1>6. CASE NextBatch(r.after) = {} /\ EndFill(b)
  <2>1. r.latest => \A i \in FtsIds : IsPosted(fts, i)
    BY <1>3, <1>4, <1>5, <1>6 DEF IsPosted
  <2>2. filled' => \A i \in FtsIds : IsPosted(fts, i)
    BY <1>2, <1>6, <2>1 DEF EndFill, FoundInv
  <2>3. \A a \in FtsBuilders : filler'[a] = filler[a] \/ filler'[a] = NoFill
    BY <1>1, <1>6 DEF EndFill
  <2>4. ASSUME NEW a \in FtsBuilders PROVE Reached(filler[a])'
    <3>1. CASE filler'[a] = NoFill
      BY <3>1, FillerFacts DEF Reached
    <3>2. CASE filler'[a] = filler[a]
      BY <3>2, <1>3 DEF Reached, FoundInv
    <3> QED
      BY <2>3, <3>1, <3>2
  <2> QED
    BY <1>3, <2>2, <2>4 DEF FoundInv, Advances
<1>7. CASE filler' = [filler EXCEPT ![b] = Reading(b)] /\ UNCHANGED filled
  <2>1. PICK t \in Fillers :
          /\ t = Reading(b) /\ t.pc = "apply" /\ t.latest = r.latest
          /\ t.after = LastKey(r.after)
          /\ \A i \in NextBatch(r.after) : [id |-> i, text |-> fts.docs[i]] \in t.batch
          /\ t.done <=> Remaining(LastKey(r.after)) = {}
    BY <1>1, <1>2, ReadingFacts
  <2>2. ASSUME t.latest, NEW i \in FtsIds, i <= t.after \/ t.done
        PROVE  IsPosted(fts, i) \/ [id |-> i, text |-> fts.docs[i]] \in t.batch
    <3>1. CASE fts.docs[i] = NoFile
      BY <3>1 DEF IsPosted
    <3>2. CASE i <= r.after
      BY <3>2, <2>1, <2>2, <1>3
    <3>3. CASE i \in Remaining(r.after) /\ i <= LastKey(r.after)
      BY <3>3, <2>1, <1>4
    <3>4. CASE i \in Remaining(LastKey(r.after)) /\ ~ (i <= t.after)
      BY <3>4, <2>1, <2>2
    <3>5. i <= LastKey(r.after) \/ i \in Remaining(LastKey(r.after)) \/ fts.docs[i] = NoFile
      BY <1>4, <1>5
    <3> QED
      BY <3>1, <3>2, <3>3, <3>4, <3>5, <2>1, <1>3, <1>5
  <2>3. Reached(t)
    BY <2>1, <2>2 DEF Reached
  <2>4. ASSUME NEW a \in FtsBuilders PROVE Reached(filler[a])'
    <3>1. filler'[a] = t \/ filler'[a] = filler[a]
      BY <1>1, <1>7, <2>1
    <3> QED
      BY <3>1, <2>3, <1>3 DEF Reached, FoundInv
  <2> QED
    BY <1>3, <1>7, <2>4 DEF FoundInv, Advances
<1> QED
  BY <1>1, <1>2, <1>6, <1>7, CollectMoves

\* A batch posts the words of its documents and takes nothing away.
LEMMA BatchPosts ==
  ASSUME fts \in Buckets, NEW batch \in SUBSET [id : FtsIds, text : Texts]
  PROVE  LET e == IndexAll(batch)
         IN  /\ e.docs = fts.docs /\ e.config = fts.config
             /\ \A w \in Words : fts.post[w] \subseteq e.post[w]
             /\ \A d \in batch, w \in Words :
                  w \in WordsOf(d.text, fts.config) => d.id \in e.post[w]
<1> DEFINE words(d) == WordsOf(d.text, fts.config)
           about(i) == { d \in batch : d.id = i /\ words(d) # {} }
           post == [w \in Words |->
                      fts.post[w] \cup { d.id : d \in { x \in batch : w \in words(x) } }]
           rev == [i \in FtsIds |-> IF about(i) = {} THEN fts.rev[i]
                                    ELSE UNION { words(d) : d \in about(i) }]
           e == IndexAll(batch)
<1>1. e = [fts EXCEPT !.rev = rev, !.post = post]
  BY DEF IndexAll
<1>2. \A w \in Words : /\ fts.post[w] \subseteq post[w]
                       /\ \A d \in batch : w \in words(d) => d.id \in post[w]
  OBVIOUS
<1> HIDE DEF post, rev, e
<1>3. e.docs = fts.docs /\ e.config = fts.config /\ e.post = post
  BY <1>1 DEF Buckets
<1> QED
  BY <1>2, <1>3 DEF e

LEMMA ApplyKeepsFound ==
  ASSUME FoundInv, SearchInv', NEW b \in FtsBuilders, ApplyBatch(b)
  PROVE  FoundInv'
<1>1. SearchInv /\ fts \in Buckets /\ filler \in [FtsBuilders -> Fillers]
  BY DEF FoundInv, SearchInv, Types, CallsTyped
<1>2. PICK r \in Fillers : r = filler[b]
  BY <1>1
<1>3. /\ ftsTx' = NoFile /\ r.pc = "apply" /\ Reached(r)
      /\ fts' = IndexAll(SameAsRead(r.batch))
      /\ r.batch \in SUBSET [id : FtsIds, text : Texts] /\ r.done \in BOOLEAN
  BY <1>2 DEF ApplyBatch, FoundInv, Fillers
<1>4. SameAsRead(r.batch) \in SUBSET [id : FtsIds, text : Texts]
  BY <1>3 DEF SameAsRead
<1>5. /\ fts'.docs = fts.docs /\ fts'.config = fts.config
      /\ \A w \in Words : fts.post[w] \subseteq fts'.post[w]
      /\ \A d \in SameAsRead(r.batch), w \in Words :
           w \in WordsOf(d.text, fts.config) => d.id \in fts'.post[w]
  BY <1>1, <1>3, <1>4, BatchPosts
<1>6. ASSUME NEW i \in FtsIds,
             IsPosted(fts, i) \/ [id |-> i, text |-> fts.docs[i]] \in r.batch
      PROVE  IsPosted(fts', i)
  <2> SUFFICES ASSUME fts.docs[i] # NoFile, NEW w \in WordsOf(fts.docs[i], fts.config)
               PROVE  i \in fts'.post[w]
    BY <1>5 DEF IsPosted
  <2>1. w \in Words
    BY <1>1, WordsAreWords
  <2>2. CASE IsPosted(fts, i)
    BY <2>1, <2>2, <1>5 DEF IsPosted
  <2>3. CASE [id |-> i, text |-> fts.docs[i]] \in r.batch
    <3>1. PICK d \in r.batch : d.id = i /\ d.text = fts.docs[i]
      BY <2>3
    <3>2. d \in SameAsRead(r.batch)
      BY <3>1 DEF SameAsRead
    <3> QED
      BY <2>1, <3>1, <3>2, <1>5
  <2> QED
    BY <2>2, <2>3, <1>6
<1>7. \A s \in Fillers : Reached(s) => Reached(s)'
  <2> SUFFICES ASSUME NEW s \in Fillers, Reached(s) PROVE Reached(s)'
    OBVIOUS
  <2> QED
    BY <1>5, <1>6, ReachedKept
<1>8. CASE r.done /\ EndFill(b)
  <2>1. r.latest => \A i \in FtsIds : IsPosted(fts', i)
    BY <1>3, <1>6, <1>8 DEF Reached
  <2>2. filled' => \A i \in FtsIds : IsPosted(fts', i)
    BY <1>2, <1>6, <1>8, <2>1 DEF EndFill, FoundInv
  <2>3. ASSUME NEW a \in FtsBuilders PROVE Reached(filler[a])'
    <3>1. PICK s \in Fillers : s = filler'[a] /\ (s = NoFill \/ s = filler[a])
      BY <1>1, <1>8, FillerFacts DEF EndFill
    <3>2. Reached(s)'
      <4>1. CASE s = NoFill
        BY <4>1, FillerFacts DEF Reached
      <4>2. CASE s = filler[a]
        BY <4>2, <1>7 DEF FoundInv
      <4> QED
        BY <3>1, <4>1, <4>2
    <3> QED
      BY <3>1, <3>2
  <2> QED
    BY <1>3, <2>2, <2>3 DEF FoundInv
<1>9. CASE ~ r.done
  <2>1. PICK t : t = [r EXCEPT !.pc = "collect", !.batch = {}]
    OBVIOUS
  <2>2. /\ t \in Fillers /\ t.pc = "collect" /\ t.after = r.after /\ t.latest = r.latest
    BY <2>1 DEF Fillers
  <2>3. filler' = [filler EXCEPT ![b] = t] /\ filled' = filled
    BY <1>1, <1>2, <1>9, <2>1 DEF ApplyBatch
  <2>4. Reached(t)'
    BY <2>2, <1>3, <1>6 DEF Reached
  <2>5. ASSUME NEW a \in FtsBuilders PROVE Reached(filler[a])'
    <3>1. PICK s \in Fillers : s = filler'[a] /\ (s = t \/ s = filler[a])
      BY <1>1, <2>2, <2>3
    <3>2. Reached(s)'
      BY <3>1, <2>4, <1>7 DEF FoundInv
    <3> QED
      BY <3>1, <3>2
  <2>6. filled' => \A i \in FtsIds : IsPosted(fts', i)
    BY <1>6, <2>3 DEF FoundInv
  <2> QED
    BY <1>3, <2>5, <2>6 DEF FoundInv
<1> QED
  BY <1>2, <1>8, <1>9 DEF ApplyBatch

LEMMA StepFound ==
  ASSUME FtsMaxOps <= 1
  PROVE  FoundInv /\ [FullTextNext]_fullTextVars => FoundInv'
<1> SUFFICES ASSUME FoundInv, [FullTextNext]_fullTextVars
             PROVE  FoundInv'
  OBVIOUS
<1>0. SearchInv' /\ filler \in [FtsBuilders -> Fillers]
  BY StepSearchInv DEF FoundInv, SearchInv, Types, CallsTyped
<1>1. CASE \/ \E n \in 1 .. FtsMaxOps : BeginWrite(n)
           \/ \E i \in FtsIds : FtsRemoveDocument(i) \/ \E text \in Texts : WriteDocument(i, text)
           \/ CommitWrites \/ RollbackWrites
  BY <1>0, <1>1, WritesKeepFound
<1>2. CASE \/ FtsDeleteCollection
           \/ \E b \in FtsBuilders, config \in SUBSET FtsFields : SetFTSConfig(b, config)
  BY <1>0, <1>2, ConfigKeepsFound
<1>3. ASSUME NEW b \in FtsBuilders, CollectBatch(b) PROVE FoundInv'
  BY <1>0, <1>3, CollectKeepsFound
<1>4. ASSUME NEW b \in FtsBuilders, ApplyBatch(b) PROVE FoundInv'
  BY <1>0, <1>4, ApplyKeepsFound
<1>5. CASE (\E b \in FtsBuilders : Abandon(b)) \/ CrashFullText \/ UNCHANGED fullTextVars
  <2>1. /\ fts' = fts /\ filled' = filled /\ (ftsTx' = ftsTx \/ ftsTx' = NoFile)
        /\ \A b \in FtsBuilders : filler'[b] = filler[b] \/ filler'[b] = NoFill
    BY <1>0, <1>5 DEF Abandon, CrashFullText, fullTextVars
  <2>2. ftsTx' # NoFile => /\ Advances(ftsTx.file)'
                           /\ ftsTx'.left > 0 => ftsTx'.file = fts'
    BY <2>1 DEF FoundInv, Advances
  <2> QED
    BY <1>0, <2>1, <2>2, FileAdvances
<1> QED
  BY <1>1, <1>2, <1>3, <1>4, <1>5 DEF FullTextNext

\* When the backfill of the configuration in force has run to its end, a
\* search finds every document that holds the words, whatever is written while
\* it runs and whatever other backfills run next to it: as long as each write
\* transaction has one operation, as that of a request for a single document
\* has (with three operations in one the property fails: FullText.cfg).
THEOREM SearchesAreComplete ==
  ASSUME FtsMaxOps <= 1
  PROVE  FullTextSpec => []SearchFindsAll
<1>1. FullTextInit => FoundInv
  <2> SUFFICES ASSUME FullTextInit PROVE FoundInv
    OBVIOUS
  <2>1. SearchInv /\ ftsTx = NoFile /\ filled = FALSE
    BY InitSearchInv DEF FullTextInit
  <2>2. \A b \in FtsBuilders : filler[b].latest = FALSE
    BY DEF FullTextInit, NoFill
  <2> QED
    BY <2>1, <2>2 DEF FoundInv, Reached
<1>2. FoundInv => SearchFindsAll
  <2> SUFFICES ASSUME FoundInv, filled, NEW query \in Queries, NEW i \in Holding(query)
               PROVE  i \in Search(query)
    BY DEF SearchFindsAll
  <2>1. /\ i \in FtsIds /\ fts.docs[i] # NoFile
        /\ \A w \in query : w \in WordsOf(fts.docs[i], fts.config)
    BY DEF Holding
  <2>2. IsPosted(fts, i)
    BY <2>1 DEF FoundInv
  <2> QED
    BY <2>1, <2>2 DEF Search, IsPosted
<1> QED
  BY <1>1, <1>2, StepFound, PTL DEF FullTextSpec

-----------------------------------------------------------------------------
(* A database with documents and a search.                                 *)

LEMMA DatabaseStarts == DatabaseInit => Init /\ FullTextInit
BY DEF DatabaseInit

\* A step of the database is a step of one part, and leaves the other alone.
LEMMA DatabaseSteps == [DatabaseNext]_databaseVars => [Next]_vars /\ [FullTextNext]_fullTextVars
BY DEF DatabaseNext, databaseVars

\* The documents and the search of a database, which keep their tables in
\* buckets of their own, each behave as specified next to the other.
THEOREM DatabaseHasBothParts == DatabaseSpec => Spec /\ FullTextSpec
BY DatabaseStarts, DatabaseSteps, PTL DEF DatabaseSpec, Spec, FullTextSpec

\* All that the tables of the documents and of the search hold, the open
\* transaction, the sweeper and the backfills keep their types.
THEOREM DatabaseTypes == DatabaseSpec => []DatabaseTypeOK
<1>1. TypeOK /\ FullTextTypeOK => DatabaseTypeOK
  BY DEF DatabaseTypeOK
<1> QED
  BY <1>1, DatabaseHasBothParts, TypeCorrect, SearchTypes, PTL

\* Hence the database that serves documents and searches together: counts,
\* TTL buckets and the log agree with the documents, no search is stale, and
\* the store is still the map of documents that clients take it for.
THEOREM DatabaseIsRight ==
  DatabaseSpec => /\ []CountsMatchDocuments /\ []TTLBucketsAgree /\ []RetainedLogHasNoGap
                  /\ []NewestEventIsTheDocument /\ []SearchReturnsNoStale
                  /\ PurgeTakesOnlyExpired /\ ChangesAreLogged /\ ImplementsDocumentMap
BY DatabaseHasBothParts, CountsCorrect, TTLBucketsCorrect, LogCorrect, NewestEventIsRight,
   SearchesAreTrue, PurgeIsSafe, ChangesLogged, MapImplemented, PTL

\* And while a transaction makes one change at most, every document with a
\* word is found.
THEOREM DatabaseFindsAll ==
  ASSUME FtsMaxOps <= 1
  PROVE  DatabaseSpec => []SearchFindsAll
BY DatabaseHasBothParts, SearchesAreComplete, PTL
=============================================================================
