----------------------------- MODULE Operations -----------------------------
(***************************************************************************)
(* Long-running operations as a client sees them (operations.go), and the  *)
(* index builds behind them (handlers_index.go, index.go).                 *)
(*                                                                         *)
(* A handler looks at the number of indexes, records an operation in the   *)
(* tracker and builds the index in its own goroutine or in a new one.  The *)
(* tracker keeps a bounded number of records, the newest.  Cancelling      *)
(* an operation only cancels its context; the build sees that at its next  *)
(* check, or not any more.  What a build does is IndexBuild's; here it     *)
(* ends with or without the index.                                         *)
(***************************************************************************)
EXTENDS Naturals, Sequences, FiniteSets, SequencesExt

CONSTANTS
  Jobs,        \* calls of the create-index handler, each for a field of its own
  MaxTracked,  \* maxTrackedOperations = 1024
  MaxIndexes   \* maxManagedIndexesPerCollection = 16

ASSUME OperationsAssumption ==
  MaxTracked \in Nat \ {0} /\ MaxIndexes \in Nat

VARIABLES
  ops,    \* ops[j]: the state of the record of j, or "untracked"
  order,  \* the tracked operations, oldest first
  job,    \* job[j]: where the handler, then the goroutine of j is
  built   \* the completed indexes

opsVars == <<ops, order, job, built>>

Unfinished == {"queued", "running", "canceling"}
Final == {"ready", "failed", "canceled"}

New == [pc |-> "new", cancellable |-> FALSE, canceled |-> FALSE]

OperationsTypeOK ==
  /\ ops \in [Jobs -> Unfinished \cup Final \cup {"untracked"}]
  /\ order \in BoundedSeq(Jobs, MaxTracked)
  /\ { j \in Jobs : ops[j] # "untracked" } = ToSet(order)
  /\ job \in [Jobs -> [pc : {"new", "checked", "started", "building", "committing",
                             "succeeded", "erred", "ended"},
                       cancellable : BOOLEAN, canceled : BOOLEAN]]
  /\ built \subseteq Jobs

OperationsInit ==
  /\ ops = [j \in Jobs |-> "untracked"] /\ order = << >>
  /\ job = [j \in Jobs |-> New] /\ built = {}

Goto(j, pc) == job' = [job EXCEPT ![j].pc = pc]

-----------------------------------------------------------------------------
\* The handler counts the completed indexes, and ends here when they are
\* enough.
CheckQuota(j) ==
  /\ job[j].pc = "new"
  /\ Goto(j, IF Cardinality(built) >= MaxIndexes THEN "ended" ELSE "checked")
  /\ UNCHANGED <<ops, order, built>>

\* Mutant: the tracker forgets nothing.
KeepAll(s) == s

Newest(s) == IF Len(s) > MaxTracked THEN SubSeq(s, Len(s) - MaxTracked + 1, Len(s)) ELSE s

\* start: only an operation that runs on in the background can be cancelled.
Start(j, cancellable) ==
  /\ job[j].pc = "checked"
  /\ order' = Newest(Append(order, j))
  /\ ops' = [k \in Jobs |-> IF k \notin ToSet(order') THEN "untracked"
                            ELSE IF k = j THEN "queued" ELSE ops[k]]
  /\ job' = [job EXCEPT ![j].pc = "started", ![j].cancellable = cancellable]
  /\ UNCHANGED built

\* update changes a record that is still tracked.
Update(j, state) == ops' = [ops EXCEPT ![j] = IF @ = "untracked" THEN @ ELSE state]

MarkRunning(j) ==
  /\ job[j].pc = "started"
  /\ Update(j, IF ops[j] = "queued" THEN "running" ELSE ops[j])
  /\ Goto(j, "building")
  /\ UNCHANGED <<order, built>>

\* CreateIndex: the last check of the context is made inside the transaction
\* that completes the index.
LastCheck(j) ==
  /\ job[j].pc = "building" /\ ~job[j].canceled
  /\ Goto(j, "committing")
  /\ UNCHANGED <<ops, order, built>>

Complete(j) ==
  /\ job[j].pc = "committing"
  /\ built' = built \cup {j}
  /\ Goto(j, "succeeded")
  /\ UNCHANGED <<ops, order>>

\* The context is cancelled, or anything else went wrong.
Err(j) ==
  /\ job[j].pc \in {"building", "committing"}
  /\ Goto(j, "erred")
  /\ UNCHANGED <<ops, order, built>>

\* Mutant: an operation under cancellation ends as cancelled in any case.
OutcomeCanceled(j) ==
  IF ops[j] = "canceling" THEN "canceled"
  ELSE IF job[j].pc = "succeeded" THEN "ready" ELSE "failed"

\* Mutant: a build that fails under cancellation is left at that.
OutcomeCanceling(j) ==
  IF job[j].pc = "succeeded" THEN "ready"
  ELSE IF ops[j] = "canceling" THEN "canceling" ELSE "failed"

Outcome(j) ==
  IF job[j].pc = "succeeded" THEN "ready"
  ELSE IF ops[j] = "canceling" THEN "canceled" ELSE "failed"

Finish(j) ==
  /\ job[j].pc \in {"succeeded", "erred"}
  /\ Update(j, Outcome(j))
  /\ Goto(j, "ended")
  /\ UNCHANGED <<order, built>>

\* Mutant: what is over can be cancelled.
CancelableAlways(j) == job[j].cancellable /\ ops[j] # "untracked"

Cancelable(j) == job[j].cancellable /\ ops[j] \in {"queued", "running"}

Cancel(j) ==
  /\ Cancelable(j)
  /\ Update(j, "canceling")
  /\ job' = [job EXCEPT ![j].canceled = TRUE]
  /\ UNCHANGED <<order, built>>

\* The client of a synchronous call goes away, and the request's context with it.
Disconnect(j) ==
  /\ job[j].pc \notin {"new", "checked", "ended"} /\ ~job[j].cancellable
  /\ job' = [job EXCEPT ![j].canceled = TRUE]
  /\ UNCHANGED <<ops, order, built>>

Working(j) ==
  MarkRunning(j) \/ LastCheck(j) \/ Complete(j) \/ Err(j) \/ Finish(j)

OperationsNext ==
  \E j \in Jobs :
    \/ CheckQuota(j) \/ \E cancellable \in BOOLEAN : Start(j, cancellable)
    \/ Working(j) \/ Cancel(j) \/ Disconnect(j)

OperationsFairness == \A j \in Jobs : WF_opsVars(Working(j))

OperationsSpec == OperationsInit /\ [][OperationsNext]_opsVars

-----------------------------------------------------------------------------
\* What the tracker says happened is what happened: an operation that is ready
\* has completed its index, one that failed or was cancelled has not, however
\* the cancellation races with the last transaction of the build.
RecordTellsOutcome ==
  \A j \in Jobs : /\ ops[j] = "ready" => j \in built
                  /\ ops[j] \in {"failed", "canceled"} => j \notin built

\* A client that polls may stop at the first final state it sees.
FinalStaysFinal ==
  [][ \A j \in Jobs : ops[j] \in Final => ops'[j] \in {ops[j], "untracked"} ]_opsVars

\* Every operation ends, or is forgotten by the tracker.
OperationsEnd ==
  \A j \in Jobs : ops[j] \in Unfinished ~> ops[j] \in Final \cup {"untracked"}
=============================================================================
