----------------------------- MODULE IndexBuild -----------------------------
(***************************************************************************)
(* Building a secondary index while documents are written (index.go).      *)
(*                                                                         *)
(* CreateIndex runs in the goroutine of a request or of an operation and   *)
(* takes no write lock: it is a sequence of transactions, and between two  *)
(* of them anything may be committed.  The first one puts a build marker   *)
(* and an empty bucket; then the collection is read in batches, and each   *)
(* batch is written to the bucket if the documents are still what they     *)
(* were; the last one moves the field into the completed metadata.         *)
(* Document writes maintain completed and building indexes alike, through  *)
(* the operators of DatabaseFile.  TTL, counts and events are DocStore's.  *)
(***************************************************************************)
EXTENDS DatabaseFile, FiniteSetsExt

CONSTANTS
  Builders,   \* goroutines that call CreateIndex
  BatchSize   \* indexBuildBatchSize

ASSUME BuildAssumption ==
  BatchSize \in Nat \ {0} /\ Collections # {} /\ Fields # {}

\* The cursor walks the ids in key order.
ASSUME OrderAssumption == Ids \subseteq Nat \ {0}

VARIABLES
  db,       \* the committed file
  builder   \* builder[b]: where the goroutine b is

buildVars == <<db, builder>>

\* No call in progress.  after is the last id read, 0 before the first.
NoBuild == [pc |-> "idle", c |-> CHOOSE c \in Collections : TRUE,
            f |-> CHOOSE f \in Fields : TRUE, after |-> 0, batch |-> {}, done |-> FALSE]

BuildSteps == {"idle", "collect", "apply", "finish", "abort"}

Entries == [id : Ids, body : Bodies]

BuildsTypeOK ==
  /\ db \in Tables
  /\ builder \in [Builders -> [pc : BuildSteps, c : Collections, f : Fields,
                               after : Ids \cup {0}, batch : SUBSET Entries, done : BOOLEAN]]

BuildsInit ==
  /\ db = EmptyFile
  /\ builder = [b \in Builders |-> NoBuild]

Bucket(c, f) == db.idx[IndexBucketName(c, f)]
IsBuilding(c, f) == <<c, f>> \in db.building

-----------------------------------------------------------------------------
(* Document writes and the deletion of collections.                        *)

PutDocument(c, i, body) ==
  /\ db' = IndexDocument([UnindexStored(db, c, i) EXCEPT !.exists = db.exists \cup {c},
                                                         !.docs[c][i] = body],
                         c, i, body)
  /\ UNCHANGED builder

DeleteDocument(c, i) ==
  /\ db.docs[c][i] # NoDoc
  /\ db' = [UnindexStored(db, c, i) EXCEPT !.docs[c][i] = NoDoc]
  /\ UNCHANGED builder

DeleteCollection(c) ==
  /\ c \in db.exists
  /\ db' = DropCollection(db, c)
  /\ UNCHANGED builder

-----------------------------------------------------------------------------
(* CreateIndex.                                                            *)

\* startIndexBuild: an index that exists or is being built is left alone; a
\* leftover bucket of that name is replaced by an empty one.
StartIndexBuild(b, c, f) ==
  /\ builder[b].pc = "idle"
  /\ c \in db.exists /\ f \notin db.indexed[c] /\ ~IsBuilding(c, f)
  /\ db' = [db EXCEPT !.building = @ \cup {<<c, f>>}, !.idx[IndexBucketName(c, f)] = {}]
  /\ builder' = [builder EXCEPT ![b] = [NoBuild EXCEPT !.pc = "collect", !.c = c, !.f = f]]

\* Mutant: the cursor stays on the last key of the batch before.
NextIdsAgain(c, after) ==
  LET rest == { i \in DocIds(db, c) : i >= after }
  IN  { i \in rest : Cardinality({ j \in rest : j < i }) < BatchSize }

\* The next ids in key order, a batch of them.
NextIds(c, after) ==
  LET rest == { i \in DocIds(db, c) : i > after }
  IN  { i \in rest : Cardinality({ j \in rest : j < i }) < BatchSize }

LastRead(ids, after) == Max(ids \cup {after})

\* collectIndexBackfillBatch, in a read transaction: the documents that have
\* the field, with their ETags.
CollectBatch(b) ==
  LET c == builder[b].c
      ids == NextIds(c, builder[b].after)
      batch == { [id |-> i, body |-> db.docs[c][i]] : i \in
                   { j \in ids : db.docs[c][j][builder[b].f] # Absent } }
      last == LastRead(ids, builder[b].after)
      done == \A i \in DocIds(db, c) : i <= last
  IN /\ builder[b].pc = "collect"
     /\ builder' = [builder EXCEPT ![b] =
          [@ EXCEPT !.after = last, !.batch = batch, !.done = done,
                    !.pc = IF c \notin db.exists THEN "abort"
                           ELSE IF batch # {} THEN "apply"
                           ELSE IF done THEN "finish" ELSE "collect"]]
     /\ UNCHANGED db

\* Mutant: the batch is written without looking at the documents again.
UnchangedAlways(c, batch) == batch

\* The entries whose document still has the ETag it was read with.
Unchanged(c, batch) == { e \in batch : db.docs[c][e.id] = e.body }

\* applyIndexBackfillBatch.
ApplyBatch(b) ==
  LET c == builder[b].c
      f == builder[b].f
      found == { <<e.body[f], e.id>> : e \in Unchanged(c, builder[b].batch) }
  IN /\ builder[b].pc = "apply"
     /\ IF IsBuilding(c, f) /\ c \in db.exists /\ Bucket(c, f) # NoBucket
        THEN /\ db' = [db EXCEPT !.idx[IndexBucketName(c, f)] = @ \cup found]
             /\ builder' = [builder EXCEPT
                  ![b].batch = {},
                  ![b].pc = IF builder[b].done THEN "finish" ELSE "collect"]
        ELSE /\ builder' = [builder EXCEPT ![b].batch = {}, ![b].pc = "abort"]
             /\ UNCHANGED db

\* finishIndexBuild: the field becomes a completed index.
FinishIndexBuild(b) ==
  LET c == builder[b].c
      f == builder[b].f
  IN /\ builder[b].pc = "finish"
     /\ IF IsBuilding(c, f) /\ c \in db.exists
        THEN /\ db' = [db EXCEPT !.indexed[c] = @ \cup {f}, !.building = @ \ {<<c, f>>}]
             /\ builder' = [builder EXCEPT ![b] = NoBuild]
        ELSE /\ builder' = [builder EXCEPT ![b].pc = "abort"]
             /\ UNCHANGED db

\* The request is cancelled before the last transaction commits.
Cancel(b) ==
  /\ builder[b].pc \in {"collect", "apply", "finish"}
  /\ builder' = [builder EXCEPT ![b].batch = {}, ![b].pc = "abort"]
  /\ UNCHANGED db

\* deleteIndexBucketAndBuildTx: whoever the bucket and the marker belong to.
WithoutIndex(c, f) ==
  [db EXCEPT !.idx[IndexBucketName(c, f)] = NoBucket, !.building = @ \ {<<c, f>>}]

\* The deferred abortIndexBuild.
AbortIndexBuild(b) ==
  /\ builder[b].pc = "abort"
  /\ db' = WithoutIndex(builder[b].c, builder[b].f)
  /\ builder' = [builder EXCEPT ![b] = NoBuild]

\* The process dies, or the handle the call holds is evicted from the cache
\* and refuses every transaction of it, the one that aborts included.
Abandon(b) ==
  /\ builder[b].pc # "idle"
  /\ builder' = [builder EXCEPT ![b] = NoBuild]
  /\ UNCHANGED db

-----------------------------------------------------------------------------
(* DeleteIndex takes a completed index or an unfinished build away.        *)

DeleteIndex(c, f) ==
  /\ f \in db.indexed[c] \/ IsBuilding(c, f)
  /\ db' = [WithoutIndex(c, f) EXCEPT !.indexed[c] = @ \ {f}]
  /\ UNCHANGED builder

-----------------------------------------------------------------------------
Documents ==
  \E c \in Collections :
    \/ DeleteCollection(c)
    \/ \E i \in Ids : \/ \E body \in Bodies : PutDocument(c, i, body)
                      \/ DeleteDocument(c, i)

Build(b) == \/ CollectBatch(b) \/ ApplyBatch(b) \/ FinishIndexBuild(b) \/ AbortIndexBuild(b)

BuildsNext ==
  \/ Documents
  \/ \E c \in Collections, f \in Fields :
       DeleteIndex(c, f) \/ \E b \in Builders : StartIndexBuild(b, c, f)
  \/ \E b \in Builders : Build(b) \/ Cancel(b) \/ Abandon(b)

BuildsSpec == BuildsInit /\ [][BuildsNext]_buildVars

\* The goroutine of a build runs on; bbolt admits every writer in the end.
BuildsLiveSpec == BuildsSpec /\ \A b \in Builders : WF_buildVars(Build(b))

-----------------------------------------------------------------------------
(* Properties.                                                             *)

\* What the bucket of an index on c, f must hold.
ExactEntries(c, f) ==
  { <<db.docs[c][i][f], i>> : i \in { j \in DocIds(db, c) : db.docs[c][j][f] # Absent } }

\* A completed index, the only kind a query uses, has one entry for each
\* document that has the field, under its present value, and no other: no
\* document is lost by the backfill or kept under an old value, in whatever
\* order batches, writes, deletions and cancellations commit.
CompletedIndexIsExact ==
  \A c \in Collections : \A f \in db.indexed[c] : Bucket(c, f) = ExactEntries(c, f)

\* A build under way has, for every document it has read and that has the
\* field, the entry in the bucket or still in its batch.
BackfillMissesNothing ==
  \A b \in Builders :
    LET c == builder[b].c
        f == builder[b].f
    IN builder[b].pc \in {"collect", "apply", "finish"} /\ IsBuilding(c, f) =>
         \A e \in ExactEntries(c, f) :
           e[2] <= builder[b].after =>
             \/ e \in Bucket(c, f)
             \/ [id |-> e[2], body |-> db.docs[c][e[2]]] \in builder[b].batch

\* A build ends: the cursor moves on with every batch, whatever is written.
BuildEnds == \A b \in Builders : builder[b].pc # "idle" ~> builder[b].pc = "idle"
=============================================================================
