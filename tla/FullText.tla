------------------------------ MODULE FullText ------------------------------
(***************************************************************************)
(* The full-text index of one collection (fts.go): configuration, batched  *)
(* backfill, maintenance by the write transactions, and search.            *)
(*                                                                         *)
(* SetFTSConfig throws the old index away and stores the new fields in one *)
(* transaction, and then reads the documents in batches; each batch is     *)
(* indexed in a transaction of its own if the documents are still what     *)
(* they were, under whatever configuration is in force by then.  There is  *)
(* no build marker: an abandoned backfill leaves its configuration behind. *)
(*                                                                         *)
(* A write transaction takes the old words of a document out of the index  *)
(* and puts the new ones in.  It works on ftsTx, which nobody else sees.   *)
(* A request for a single document is a transaction of one operation.      *)
(***************************************************************************)
EXTENDS Naturals, Sequences, FiniteSets, FiniteSetsExt

CONSTANTS
  FtsIds,       \* document ids; the cursor walks them in key order
  FtsFields,
  Words,        \* tokens
  NoText,       \* the field is missing, or holds no string, or no word
  NoFile,       \* no write transaction is open; also: no document
  FtsBuilders,  \* goroutines that call SetFTSConfig
  FtsBatchSize, \* ftsBackfillBatchSize
  FtsMaxOps     \* MaxTransactionOps

ASSUME FullTextAssumption ==
  /\ FtsIds \subseteq Nat \ {0} /\ IsFiniteSet(FtsIds)
  /\ NoText \notin Words
  /\ FtsBatchSize \in Nat \ {0} /\ FtsMaxOps \in Nat

\* What is left of a document: one word, or none, for each field.
Texts == [FtsFields -> Words \cup {NoText}]

ASSUME NoFileAssumption == NoFile \notin Texts

VARIABLES
  fts,      \* the committed buckets: documents, configuration, postings, reverse map
  ftsTx,    \* the open write transaction: its buckets and operations left
  filler,   \* filler[b]: where the call of SetFTSConfig is
  filled    \* history: the backfill of the configuration in force has ended well

fullTextVars == <<fts, ftsTx, filler, filled>>

\* No call in progress.  after is the last key read, 0 before the first; done
\* tells that nothing followed the batch when it was read; latest that the
\* configuration in force is that of this call.
NoFill == [pc |-> "idle", after |-> 0, batch |-> {}, done |-> FALSE, latest |-> FALSE]

Buckets ==
  [ docs : [FtsIds -> Texts \cup {NoFile}],
    config : SUBSET FtsFields,                \* {}: not configured
    post : [Words -> SUBSET FtsIds],          \* a missing bucket reads as {}
    rev : [FtsIds -> SUBSET Words] ]          \* {}: no reverse entry

FullTextTypeOK ==
  /\ fts \in Buckets
  /\ ftsTx = NoFile \/ ftsTx \in [file : Buckets, left : 0 .. FtsMaxOps]
  /\ \A b \in FtsBuilders :
       /\ filler[b].pc \in {"idle", "collect", "apply"}
       /\ filler[b].after \in Nat
       /\ filler[b].batch \subseteq [id : FtsIds, text : Texts]
       /\ filler[b].done \in BOOLEAN /\ filler[b].latest \in BOOLEAN
  /\ filled \in BOOLEAN

FullTextInit ==
  /\ fts = [ docs |-> [i \in FtsIds |-> NoFile], config |-> {},
             post |-> [w \in Words |-> {}], rev |-> [i \in FtsIds |-> {}] ]
  /\ ftsTx = NoFile
  /\ filler = [b \in FtsBuilders |-> NoFill]
  /\ filled = FALSE

-----------------------------------------------------------------------------
(* What the write transactions do to the buckets.                          *)

\* extractText and tokenize.
WordsOf(text, config) == { text[f] : f \in config } \ {NoText}

\* indexFTS.  A document without words gets no reverse entry.
IndexFTS(file, i, text) ==
  LET words == WordsOf(text, file.config)
  IN  [file EXCEPT !.rev[i] = IF words = {} THEN @ ELSE words,
                   !.post = [w \in Words |-> IF w \in words THEN @[w] \cup {i} ELSE @[w]]]

\* Bucket.Stats counts the keys in the pages of the last commit: for a bucket
\* made or filled in this transaction that is none.
KeyN(w) == Cardinality(fts.post[w])

\* unindexFTS: each posting is deleted, and then its bucket if it is found
\* to have no keys.
UnindexFTS(file, i) ==
  [file EXCEPT !.rev[i] = {},
               !.post = [w \in Words |->
                  IF w \notin file.rev[i] THEN @[w]
                  ELSE IF KeyN(w) = 0 THEN {} ELSE @[w] \ {i}]]

WriteText(file, i, text) ==
  LET old == IF file.docs[i] = NoFile THEN file ELSE UnindexFTS(file, i)
  IN  IndexFTS([old EXCEPT !.docs[i] = text], i, text)

DeleteText(file, i) == [UnindexFTS(file, i) EXCEPT !.docs[i] = NoFile]

\* deleteFTSForCollectionTx
Cleared(file, config) ==
  [file EXCEPT !.config = config, !.post = [w \in Words |-> {}],
               !.rev = [i \in FtsIds |-> {}]]

-----------------------------------------------------------------------------
(* Write transactions: a handler's, ExecuteTransaction's or the purge's.   *)

BeginWrite(n) ==
  /\ ftsTx = NoFile
  /\ n \in 1 .. FtsMaxOps
  /\ ftsTx' = [file |-> fts, left |-> n]
  /\ UNCHANGED <<fts, filler, filled>>

Step(file) == /\ ftsTx' = [file |-> file, left |-> ftsTx.left - 1]
              /\ UNCHANGED <<fts, filler, filled>>

InWrite == ftsTx # NoFile /\ ftsTx.left > 0

\* Create, put and patch.
WriteDocument(i, text) == InWrite /\ Step(WriteText(ftsTx.file, i, text))

\* Deletion by a request or by the purge.
FtsRemoveDocument(i) ==
  /\ InWrite
  /\ ftsTx.file.docs[i] # NoFile
  /\ Step(DeleteText(ftsTx.file, i))

CommitWrites ==
  /\ ftsTx # NoFile /\ ftsTx.left = 0
  /\ fts' = ftsTx.file
  /\ ftsTx' = NoFile
  /\ UNCHANGED <<filler, filled>>

RollbackWrites ==
  /\ ftsTx # NoFile
  /\ ftsTx' = NoFile
  /\ UNCHANGED <<fts, filler, filled>>

\* Nobody's backfill is that of the configuration in force any more.
NotLatest == [b \in FtsBuilders |-> [filler[b] EXCEPT !.latest = FALSE]]

FtsDeleteCollection ==
  /\ ftsTx = NoFile
  /\ fts' = [Cleared(fts, {}) EXCEPT !.docs = [i \in FtsIds |-> NoFile]]
  /\ filler' = NotLatest
  /\ filled' = FALSE
  /\ UNCHANGED ftsTx

-----------------------------------------------------------------------------
(* SetFTSConfig.                                                           *)

SetFTSConfig(b, config) ==
  /\ filler[b].pc = "idle"
  /\ ftsTx = NoFile
  /\ config # {}
  /\ fts' = Cleared(fts, config)
  /\ filler' = [NotLatest EXCEPT ![b] = [NoFill EXCEPT !.pc = "collect", !.latest = TRUE]]
  /\ filled' = FALSE
  /\ UNCHANGED ftsTx

Remaining(after) == { i \in FtsIds : fts.docs[i] # NoFile /\ i > after }

NextBatch(after) ==
  { i \in Remaining(after) :
      Cardinality({ k \in Remaining(after) : k < i }) < FtsBatchSize }

\* Mutant: the cursor goes on two keys further.
LastKeyPlusOne(after) == Max(NextBatch(after) \cup {after}) + 1

LastKey(after) == Max(NextBatch(after) \cup {after})

\* The call returns without an error.
EndFill(b) ==
  /\ filled' = (filled \/ filler[b].latest)
  /\ filler' = [filler EXCEPT ![b] = NoFill]

\* A View transaction: it sees what was committed last and needs no lock.
CollectBatch(b) ==
  /\ filler[b].pc = "collect"
  /\ LET after == filler[b].after
     IN  IF NextBatch(after) = {} THEN EndFill(b)
         ELSE /\ filler' = [filler EXCEPT
                   ![b].pc = "apply", ![b].after = LastKey(after),
                   ![b].batch = { [id |-> i, text |-> fts.docs[i]] : i \in NextBatch(after) },
                   ![b].done = (Remaining(LastKey(after)) = {})]
              /\ UNCHANGED filled
  /\ UNCHANGED <<fts, ftsTx>>

\* Mutant: the documents of the batch are indexed as they were read.
SameAsReadAlways(batch) == batch

SameAsRead(batch) == { e \in batch : fts.docs[e.id] = e.text }

\* indexFTS for each document of the batch: none of them is taken out first.
IndexAll(batch) ==
  LET words(e) == WordsOf(e.text, fts.config)
      about(i) == { e \in batch : e.id = i /\ words(e) # {} }
  IN  [fts EXCEPT
         !.rev = [i \in FtsIds |-> IF about(i) = {} THEN @[i]
                                   ELSE UNION { words(e) : e \in about(i) }],
         !.post = [w \in Words |-> @[w] \cup { e.id : e \in { d \in batch : w \in words(d) } }]]

ApplyBatch(b) ==
  /\ filler[b].pc = "apply"
  /\ ftsTx = NoFile
  /\ fts' = IndexAll(SameAsRead(filler[b].batch))
  /\ IF filler[b].done THEN EndFill(b)
     ELSE /\ filler' = [filler EXCEPT ![b].pc = "collect", ![b].batch = {}]
          /\ UNCHANGED filled
  /\ UNCHANGED ftsTx

\* A document that cannot be decrypted, or an evicted handle: the call fails
\* and leaves the configuration in force.
Abandon(b) ==
  /\ filler[b].pc # "idle"
  /\ filler' = [filler EXCEPT ![b] = NoFill]
  /\ UNCHANGED <<fts, ftsTx, filled>>

CrashFullText ==
  /\ ftsTx' = NoFile
  /\ filler' = [b \in FtsBuilders |-> NoFill]
  /\ UNCHANGED <<fts, filled>>

FullTextNext ==
  \/ \E n \in 1 .. FtsMaxOps : BeginWrite(n)
  \/ \E i \in FtsIds : FtsRemoveDocument(i) \/ \E text \in Texts : WriteDocument(i, text)
  \/ CommitWrites \/ RollbackWrites \/ FtsDeleteCollection
  \/ \E b \in FtsBuilders :
       \/ \E config \in SUBSET FtsFields : SetFTSConfig(b, config)
       \/ CollectBatch(b) \/ ApplyBatch(b) \/ Abandon(b)
  \/ CrashFullText

FullTextSpec == FullTextInit /\ [][FullTextNext]_fullTextVars

-----------------------------------------------------------------------------
\* searchFTS for a query of the given words: the intersection of postings.
Search(query) == { i \in FtsIds : \A w \in query : i \in fts.post[w] }

Holding(query) ==
  { i \in FtsIds : fts.docs[i] # NoFile /\ query \subseteq WordsOf(fts.docs[i], fts.config) }

Queries == (SUBSET Words) \ {{}}

\* Whatever is written, expired, deleted, configured or abandoned meanwhile, a
\* search returns no document that does not hold every word of the query now
\* in a configured field.
SearchReturnsNoStale == \A query \in Queries : Search(query) \subseteq Holding(query)

\* When the backfill of the configuration in force has run to its end, a
\* search finds every document that holds the words, however writes and other
\* backfills interleaved with it.
SearchFindsAll == filled => \A query \in Queries : Holding(query) \subseteq Search(query)
=============================================================================
