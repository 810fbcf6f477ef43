----------------------------- MODULE DocumentMap -----------------------------
(***************************************************************************)
(* What a database promises its clients, without tables, locks or sweeper: *)
(* a map from documents to bodies and a version that numbers the writes.   *)
(* A single request writes one document and takes one number.  A batch of  *)
(* a given length works on a copy and replaces the map when its last write *)
(* is done, or is given up and leaves no trace.  Documents expire, one     *)
(* number each, and a whole collection may be dropped without a number.    *)
(***************************************************************************)
EXTENDS Integers, FiniteSets

CONSTANTS Collections, Ids, Bodies, NoDoc,
          NoBatch,   \* no batch is under way
          MaxBatch   \* the largest batch of writes one request may carry

VARIABLES contents, version, batch

mapVars == <<contents, version, batch>>

MapInit ==
  /\ contents = [c \in Collections |-> [i \in Ids |-> NoDoc]]
  /\ version = 0
  /\ batch = NoBatch

\* m with one document written or deleted.
Writes(m) ==
  { [m EXCEPT ![c][i] = b] : c \in Collections, i \in Ids, b \in Bodies \cup {NoDoc} }

Write ==
  /\ batch = NoBatch
  /\ contents' \in Writes(contents)
  /\ version' = version + 1
  /\ UNCHANGED batch

BatchBegins ==
  /\ batch = NoBatch
  /\ batch' \in [contents : {contents}, version : {version}, left : 1 .. MaxBatch]
  /\ UNCHANGED <<contents, version>>

BatchWrites ==
  /\ batch # NoBatch /\ batch.left > 0
  /\ batch' \in [contents : Writes(batch.contents),
                 version : {batch.version + 1}, left : {batch.left - 1}]
  /\ UNCHANGED <<contents, version>>

BatchCommits ==
  /\ batch # NoBatch /\ batch.left = 0
  /\ contents' = batch.contents /\ version' = batch.version
  /\ batch' = NoBatch

BatchFails ==
  /\ batch' = NoBatch
  /\ UNCHANGED <<contents, version>>

Changed ==
  { k \in Collections \X Ids : contents'[k[1]][k[2]] # contents[k[1]][k[2]] }

Expire ==
  /\ batch = NoBatch
  /\ contents' \in [Collections -> [Ids -> Bodies \cup {NoDoc}]]
  /\ Changed # {}
  /\ \A k \in Changed : contents'[k[1]][k[2]] = NoDoc
  /\ version' = version + Cardinality(Changed)
  /\ UNCHANGED batch

Drop(c) ==
  /\ batch = NoBatch
  /\ contents' = [contents EXCEPT ![c] = [i \in Ids |-> NoDoc]]
  /\ UNCHANGED <<version, batch>>

MapNext == \/ Write \/ BatchBegins \/ BatchWrites \/ BatchCommits \/ BatchFails
           \/ Expire \/ \E c \in Collections : Drop(c)

MapSpec == MapInit /\ [][MapNext]_mapVars
=============================================================================
