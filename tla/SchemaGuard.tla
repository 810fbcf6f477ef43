---------------------------- MODULE SchemaGuard ----------------------------
(***************************************************************************)
(* Which schema judges a write (schema.go, document_write.go,              *)
(* transaction.go).                                                        *)
(*                                                                         *)
(* A put is validated before its write transaction, against the schema it  *)
(* reads in a transaction of its own; a patch and the operations of a      *)
(* transaction are validated inside.  Compiled schemas are cached for each *)
(* collection, under a lock of their own and with the fingerprint of the   *)
(* text.  SetSchema commits, and then drops the entry of the cache.        *)
(*                                                                         *)
(* A schema is the number of the change that set it; changes are numbered  *)
(* over all collections, and some of them remove the schema.               *)
(***************************************************************************)
EXTENDS Naturals, FiniteSets, FiniteSetsExt

CONSTANTS
  SchemaCollections,
  Writers,           \* goroutines of write requests
  MaxCachedSchemas,  \* 1024
  MaxChanges         \* bound: changes of schemas

ASSUME SchemaAssumption ==
  /\ IsFiniteSet(SchemaCollections) /\ SchemaCollections # {}
  /\ MaxCachedSchemas \in Nat \ {0} /\ MaxChanges \in Nat

Changes == 1 .. MaxChanges

VARIABLES
  schema,    \* schema[c]: the last change of the schema of c, 0 for none yet
  removals,  \* the changes that removed a schema
  cache,     \* cache[c]: the schema compiled for c, or 0
  stale,     \* collections whose cache entry SetSchema is about to drop
  writer,    \* writer[w]: the request of w
  judged     \* history: the last write that was committed

schemaVars == <<schema, removals, cache, stale, writer, judged>>

NoRequest == [pc |-> "idle", c |-> CHOOSE c \in SchemaCollections : TRUE,
              inside |-> FALSE, since |-> 0, text |-> 0, used |-> 0]

Cached == { c \in SchemaCollections : cache[c] # 0 }

SchemaTypeOK ==
  /\ schema \in [SchemaCollections -> 0 .. MaxChanges] /\ removals \subseteq Changes
  /\ cache \in [SchemaCollections -> 0 .. MaxChanges]
  /\ Cardinality(Cached) <= MaxCachedSchemas
  /\ stale \subseteq SchemaCollections
  /\ writer \in [Writers -> [pc : {"idle", "read", "lookup", "compiled", "validated"},
                             c : SchemaCollections, inside : BOOLEAN,
                             since : 0 .. MaxChanges, text : 0 .. MaxChanges,
                             used : 0 .. MaxChanges]]
  /\ judged \in [used : 0 .. MaxChanges, since : 0 .. MaxChanges]

SchemaInit ==
  /\ schema = [c \in SchemaCollections |-> 0] /\ removals = {}
  /\ cache = [c \in SchemaCollections |-> 0] /\ stale = {}
  /\ writer = [w \in Writers |-> NoRequest]
  /\ judged = [used |-> 0, since |-> 0]

LastChange == Max({ schema[c] : c \in SchemaCollections })

\* A write transaction is open while its documents are validated inside it.
InSchemaTransaction == \E w \in Writers : writer[w].inside

HasSchema(n) == n # 0 /\ n \notin removals

-----------------------------------------------------------------------------
\* SetSchema, or DeleteCollection, which removes the schema with the rest.
ChangeSchema(c, removes) ==
  /\ ~InSchemaTransaction /\ LastChange < MaxChanges
  /\ schema' = [schema EXCEPT ![c] = LastChange + 1]
  /\ removals' = IF removes THEN removals \cup {LastChange + 1} ELSE removals
  /\ stale' = stale \cup {c}
  /\ UNCHANGED <<cache, writer, judged>>

InvalidateCache(c) ==
  /\ c \in stale
  /\ cache' = [cache EXCEPT ![c] = 0]
  /\ stale' = stale \ {c}
  /\ UNCHANGED <<schema, removals, writer, judged>>

Request(w, to) == writer' = [writer EXCEPT ![w] = to]

\* A put is on its way.
BeginPut(w, c) ==
  /\ writer[w].pc = "idle"
  /\ Request(w, [NoRequest EXCEPT !.pc = "read", !.c = c, !.since = schema[c]])
  /\ UNCHANGED <<schema, removals, cache, stale, judged>>

\* A patch, or an operation of a transaction, has its write transaction.
BeginInside(w, c) ==
  /\ writer[w].pc = "idle" /\ ~InSchemaTransaction
  /\ Request(w, [NoRequest EXCEPT !.pc = "read", !.c = c, !.since = schema[c],
                                  !.inside = TRUE])
  /\ UNCHANGED <<schema, removals, cache, stale, judged>>

\* GetSchema, or getSchemaTx.
ReadSchema(w) ==
  /\ writer[w].pc = "read"
  /\ LET n == schema[writer[w].c] IN
       Request(w, [writer[w] EXCEPT !.pc = IF HasSchema(n) THEN "lookup" ELSE "validated",
                                    !.text = n, !.used = n])
  /\ UNCHANGED <<schema, removals, cache, stale, judged>>

\* Mutant: any entry of the collection will do.
HitAny(c, text) == cache[c] # 0

\* The entry is for this text.
Hit(c, text) == cache[c] = text

Lookup(w) ==
  /\ writer[w].pc = "lookup"
  /\ LET r == writer[w] IN
       Request(w, IF Hit(r.c, r.text) THEN [r EXCEPT !.pc = "validated", !.used = cache[r.c]]
                  ELSE [r EXCEPT !.pc = "compiled", !.used = r.text])
  /\ UNCHANGED <<schema, removals, cache, stale, judged>>

CacheFull == Cardinality(Cached) >= MaxCachedSchemas

\* A full cache first loses any one entry, also when an entry is replaced.
CacheSchema(w) ==
  /\ writer[w].pc = "compiled"
  /\ \E kept \in IF CacheFull THEN { [cache EXCEPT ![c] = 0] : c \in Cached } ELSE { cache } :
       cache' = [kept EXCEPT ![writer[w].c] = writer[w].used]
  /\ Request(w, [writer[w] EXCEPT !.pc = "validated"])
  /\ UNCHANGED <<schema, removals, stale, judged>>

\* The document complies, and is written.
CommitWrite(w) ==
  /\ writer[w].pc = "validated" /\ (writer[w].inside \/ ~InSchemaTransaction)
  /\ judged' = [used |-> writer[w].used, since |-> writer[w].since]
  /\ Request(w, NoRequest)
  /\ UNCHANGED <<schema, removals, cache, stale>>

\* It does not comply, and the request ends.
Refuse(w) ==
  /\ writer[w].pc = "validated" /\ HasSchema(writer[w].used)
  /\ Request(w, NoRequest)
  /\ UNCHANGED <<schema, removals, cache, stale, judged>>

SchemaNext ==
  \/ \E c \in SchemaCollections :
       \/ \E removes \in BOOLEAN : ChangeSchema(c, removes)
       \/ InvalidateCache(c)
       \/ \E w \in Writers : BeginPut(w, c) \/ BeginInside(w, c)
  \/ \E w \in Writers :
       ReadSchema(w) \/ Lookup(w) \/ CacheSchema(w) \/ CommitWrite(w) \/ Refuse(w)

SchemaSpec == SchemaInit /\ [][SchemaNext]_schemaVars

-----------------------------------------------------------------------------
\* Every committed write was judged by the schema in force when its request
\* came, or by a later one: the cache never serves an older text, whatever the
\* order of commits, invalidations, compilations and evictions.
NeverJudgedByAnOlder == judged.used >= judged.since
=============================================================================
