---------------------------- MODULE ServerProofs ----------------------------
(***************************************************************************)
(* Proofs about the parts of the server that keep no documents:            *)
(* operations, the revocation of keys, and the schemas writes are judged   *)
(* by.  They share no state, and each has its own inductive invariant.     *)
(***************************************************************************)
EXTENDS MCServer, DocStoreProofs, OrderFacts

-----------------------------------------------------------------------------
(***************************************************************************)
(* Proofs that the record of an operation tells what became of it, for any *)
(* number of operations and any size of the tracker.                       *)
(*                                                                         *)
(* The argument: only the goroutine of an operation writes a final state,  *)
(* as its last step, and by then it knows whether the index is complete.   *)
(***************************************************************************)

OpStates == Unfinished \cup Final \cup {"untracked"}
JobStates ==
  [pc : {"new", "checked", "started", "building", "committing", "succeeded",
         "erred", "ended"},
   cancellable : BOOLEAN, canceled : BOOLEAN]

\* What is needed of the types; the order of the records plays no part.
OperationsTypes == ops \in [Jobs -> OpStates] /\ job \in [Jobs -> JobStates]

\* A final state, and a complete index, belong to a job that is at its end.
FinalIsLast ==
  \A j \in Jobs :
    /\ ops[j] \in Final => job[j].pc = "ended"
    /\ ops[j] # "untracked" => job[j].pc \notin {"new", "checked"}
    /\ job[j].pc = "succeeded" => j \in built
    /\ j \in built => job[j].pc \in {"succeeded", "ended"}

OperationsInv == OperationsTypes /\ FinalIsLast /\ RecordTellsOutcome

-----------------------------------------------------------------------------
LEMMA OperationsInitInv == OperationsInit => OperationsInv
BY DEF OperationsInit, OperationsInv, OperationsTypes, OpStates, JobStates, New, FinalIsLast, Final,
       RecordTellsOutcome

\* A step of one job: the record may be forgotten or change its state, and the
\* job moves on.  What is asked of the job and its record is asked of every
\* job by the invariant.
LEMMA JobStep ==
  ASSUME OperationsInv, NEW j \in Jobs, NEW o \in OpStates, NEW w \in JobStates,
         ops' \in [Jobs -> OpStates], ops'[j] = o,
         \A k \in Jobs \ {j} : ops'[k] \in {ops[k], "untracked"},
         job' = [job EXCEPT ![j] = w],
         \A k \in Jobs \ {j} : k \in built' <=> k \in built,
         o \in Final => w.pc = "ended",
         o # "untracked" => w.pc \notin {"new", "checked"},
         w.pc = "succeeded" => j \in built',
         j \in built' => w.pc \in {"succeeded", "ended"},
         o = "ready" => j \in built',
         o \in {"failed", "canceled"} => j \notin built'
  PROVE  OperationsInv'
<1>1. OperationsTypes'
  BY DEF OperationsInv, OperationsTypes
<1>2. job'[j] = w /\ \A k \in Jobs \ {j} : job'[k] = job[k]
  BY DEF OperationsInv, OperationsTypes
<1>3. FinalIsLast'
  BY <1>2 DEF OperationsInv, FinalIsLast, Final
<1>4. RecordTellsOutcome'
  BY <1>2 DEF OperationsInv, RecordTellsOutcome
<1> QED
  BY <1>1, <1>3, <1>4 DEF OperationsInv

LEMMA StartStep ==
  ASSUME OperationsInv, NEW j \in Jobs, NEW b \in BOOLEAN, Start(j, b)
  PROVE  OperationsInv'
<1> DEFINE w == [job[j] EXCEPT !.pc = "started", !.cancellable = b]
<1>1. /\ job \in [Jobs -> JobStates] /\ ops \in [Jobs -> OpStates]
      /\ job[j].pc = "checked" /\ ops[j] = "untracked" /\ built' = built
  BY DEF OperationsInv, OperationsTypes, Start, FinalIsLast
<1>2. job' = [job EXCEPT ![j] = w]
  BY <1>1 DEF Start
<1>3. w \in JobStates /\ w.pc = "started"
  BY <1>1 DEF JobStates
<1>4. j \notin built
  BY <1>1 DEF OperationsInv, FinalIsLast
<1>5. /\ ops' \in [Jobs -> OpStates] /\ ops'[j] \in {"untracked", "queued"}
      /\ \A k \in Jobs \ {j} : ops'[k] \in {ops[k], "untracked"}
  BY <1>1 DEF Start, OpStates, Unfinished
<1> HIDE DEF w
<1>6. PICK o \in OpStates : o = ops'[j]
  BY <1>5
<1> QED
  BY <1>1, <1>2, <1>3, <1>4, <1>5, <1>6, JobStep DEF Final

\* The check of the quota moves on the job alone.
LEMMA QuotaStep ==
  ASSUME OperationsInv, NEW j \in Jobs, CheckQuota(j)
  PROVE  OperationsInv'
<1>1. PICK pc \in {"ended", "checked"} : Goto(j, pc)
  BY DEF CheckQuota
<1>2. /\ job \in [Jobs -> JobStates] /\ ops \in [Jobs -> OpStates]
      /\ job[j].pc = "new" /\ ops[j] = "untracked" /\ UNCHANGED <<ops, built>>
      /\ j \notin built /\ ops[j] \in OpStates
  BY DEF OperationsInv, OperationsTypes, CheckQuota, FinalIsLast
<1> DEFINE w == [job[j] EXCEPT !.pc = pc]
<1>3. w \in JobStates /\ w.pc = pc /\ job' = [job EXCEPT ![j] = w]
  BY <1>1, <1>2 DEF JobStates, Goto
<1> HIDE DEF w
<1> QED
  BY <1>2, <1>3, JobStep DEF Final

\* The steps of the goroutine.
LEMMA WorkingStep ==
  ASSUME OperationsInv, NEW j \in Jobs, Working(j)
  PROVE  OperationsInv'
<1>1. /\ job \in [Jobs -> JobStates] /\ ops \in [Jobs -> OpStates]
      /\ ops[j] \in OpStates
  BY DEF OperationsInv, OperationsTypes
<1>2. ASSUME NEW pc \in {"building", "committing", "succeeded", "erred", "ended"},
             Goto(j, pc)
      PROVE  \E w \in JobStates : w.pc = pc /\ job' = [job EXCEPT ![j] = w]
  <2>1. [job[j] EXCEPT !.pc = pc] \in JobStates
    BY <1>1 DEF JobStates
  <2>2. [job[j] EXCEPT !.pc = pc].pc = pc
    BY <1>1 DEF JobStates
  <2> QED
    BY <1>2, <2>1, <2>2 DEF Goto
<1>3. ASSUME NEW state \in OpStates, Update(j, state)
      PROVE  /\ ops' \in [Jobs -> OpStates]
             /\ ops'[j] = IF ops[j] = "untracked" THEN "untracked" ELSE state
             /\ \A k \in Jobs \ {j} : ops'[k] \in {ops[k], "untracked"}
  BY <1>1, <1>3 DEF Update, OpStates
<1>4. CASE MarkRunning(j)
  <2>1. /\ job[j].pc = "started" /\ Goto(j, "building") /\ UNCHANGED built
        /\ Update(j, IF ops[j] = "queued" THEN "running" ELSE ops[j])
    BY <1>4 DEF MarkRunning
  <2>2. PICK w \in JobStates : w.pc = "building" /\ job' = [job EXCEPT ![j] = w]
    BY <1>2, <2>1
  <2>3. ops[j] \notin Final /\ j \notin built
    BY <2>1 DEF OperationsInv, FinalIsLast
  <2>4. PICK state \in OpStates : /\ state = IF ops[j] = "queued" THEN "running" ELSE ops[j]
                                  /\ state \notin Final
    BY <1>1, <2>3 DEF OpStates, Unfinished, Final
  <2>5. /\ ops' \in [Jobs -> OpStates] /\ ops'[j] \in {"untracked", state}
        /\ \A k \in Jobs \ {j} : ops'[k] \in {ops[k], "untracked"}
    BY <1>3, <2>1, <2>4
  <2>6. PICK o \in OpStates : o = ops'[j] /\ o \notin Final
    BY <2>4, <2>5 DEF OpStates, Final
  <2> QED
    BY <2>1, <2>2, <2>3, <2>5, <2>6, JobStep DEF Final
<1>5. CASE LastCheck(j) \/ Err(j)
  <2>1. /\ job[j].pc \in {"building", "committing"} /\ UNCHANGED <<ops, built>>
        /\ \E pc \in {"committing", "erred"} : Goto(j, pc)
    BY <1>5 DEF LastCheck, Err
  <2>2. PICK w \in JobStates : /\ w.pc \in {"committing", "erred"}
                               /\ job' = [job EXCEPT ![j] = w]
    BY <1>2, <2>1
  <2>3. ops[j] \notin Final /\ j \notin built
    BY <2>1 DEF OperationsInv, FinalIsLast
  <2> QED
    BY <1>1, <2>1, <2>2, <2>3, JobStep DEF Final
<1>6. CASE Complete(j)
  <2>1. /\ job[j].pc = "committing" /\ Goto(j, "succeeded") /\ UNCHANGED ops
        /\ built' = built \cup {j}
    BY <1>6 DEF Complete
  <2>2. PICK w \in JobStates : w.pc = "succeeded" /\ job' = [job EXCEPT ![j] = w]
    BY <1>2, <2>1
  <2>3. ops[j] \notin Final
    BY <2>1 DEF OperationsInv, FinalIsLast
  <2>4. j \in built' /\ \A k \in Jobs \ {j} : k \in built' <=> k \in built
    BY <2>1
  <2> QED
    BY <1>1, <2>1, <2>2, <2>3, <2>4, JobStep DEF Final
<1>7. CASE Finish(j)
  <2>1. /\ job[j].pc \in {"succeeded", "erred"} /\ Goto(j, "ended")
        /\ UNCHANGED built /\ Update(j, Outcome(j))
    BY <1>7 DEF Finish
  <2>2. PICK w \in JobStates : w.pc = "ended" /\ job' = [job EXCEPT ![j] = w]
    BY <1>2, <2>1
  <2>3. /\ Outcome(j) \in OpStates
        /\ Outcome(j) = "ready" => job[j].pc = "succeeded"
        /\ Outcome(j) \in {"failed", "canceled"} => job[j].pc # "succeeded"
    BY DEF Outcome, OpStates, Final
  <2>4. job[j].pc = "succeeded" <=> j \in built
    BY <2>1 DEF OperationsInv, FinalIsLast
  <2>5. /\ ops' \in [Jobs -> OpStates] /\ ops'[j] \in {"untracked", Outcome(j)}
        /\ \A k \in Jobs \ {j} : ops'[k] \in {ops[k], "untracked"}
    BY <1>3, <2>1, <2>3
  <2>6. PICK o \in OpStates : o = ops'[j]
    BY <2>5
  <2>7. /\ o = "ready" => j \in built'
        /\ o \in {"failed", "canceled"} => j \notin built'
    BY <2>1, <2>3, <2>4, <2>5, <2>6
  <2> QED
    BY <2>1, <2>2, <2>5, <2>6, <2>7, JobStep
<1> QED
  BY <1>4, <1>5, <1>6, <1>7 DEF Working

\* A cancellation, or a client that goes away, leaves the goroutine where it is.
LEMMA CancelStep ==
  ASSUME OperationsInv, NEW j \in Jobs, Cancel(j) \/ Disconnect(j)
  PROVE  OperationsInv'
<1> DEFINE w == [job[j] EXCEPT !.canceled = TRUE]
<1>1. /\ job \in [Jobs -> JobStates] /\ ops \in [Jobs -> OpStates]
      /\ ops[j] \in OpStates
  BY DEF OperationsInv, OperationsTypes
<1>2. w \in JobStates /\ w.pc = job[j].pc
  BY <1>1 DEF JobStates
<1>3. job' = [job EXCEPT ![j] = w] /\ built' = built
  BY <1>1 DEF Cancel, Disconnect
<1>4. \/ ops' = ops
      \/ /\ ops[j] \in {"queued", "running"}
         /\ ops' = [ops EXCEPT ![j] = "canceling"]
  BY <1>1 DEF Cancel, Disconnect, Cancelable, Update
<1> HIDE DEF w
<1>5. /\ ops' \in [Jobs -> OpStates] /\ ops'[j] \in {ops[j], "canceling"}
      /\ ops'[j] = "canceling" => ops[j] \in {"queued", "running", "canceling"}
      /\ \A k \in Jobs \ {j} : ops'[k] \in {ops[k], "untracked"}
  BY <1>1, <1>4 DEF OpStates, Unfinished
<1>6. PICK o \in OpStates : o = ops'[j]
  BY <1>5
<1>7. /\ ops[j] \in Final => w.pc = "ended"
      /\ ops[j] # "untracked" => w.pc \notin {"new", "checked"}
      /\ w.pc = "succeeded" => j \in built
      /\ j \in built => w.pc \in {"succeeded", "ended"}
      /\ ops[j] = "ready" => j \in built
      /\ ops[j] \in {"failed", "canceled"} => j \notin built
  BY <1>2 DEF OperationsInv, FinalIsLast, RecordTellsOutcome
<1>8. /\ o \in Final => w.pc = "ended"
      /\ o # "untracked" => w.pc \notin {"new", "checked"}
      /\ o = "ready" => j \in built
      /\ o \in {"failed", "canceled"} => j \notin built
  BY <1>5, <1>6, <1>7 DEF Final
<1> QED
  BY <1>2, <1>3, <1>5, <1>6, <1>7, <1>8, JobStep

LEMMA OperationsStepInv == OperationsInv /\ [OperationsNext]_opsVars => OperationsInv'
<1>1. ASSUME OperationsInv, UNCHANGED opsVars PROVE OperationsInv'
  BY <1>1 DEF opsVars, OperationsInv, OperationsTypes, FinalIsLast, RecordTellsOutcome
<1>2. ASSUME OperationsInv, OperationsNext PROVE OperationsInv'
  BY <1>2, StartStep, QuotaStep, WorkingStep, CancelStep DEF OperationsNext
<1> QED
  BY <1>1, <1>2

\* What the tracker says happened is what happened.
THEOREM RecordsTellOutcomes == OperationsSpec => []RecordTellsOutcome
<1>1. OperationsInv => RecordTellsOutcome
  BY DEF OperationsInv
<1> QED
  BY <1>1, OperationsInitInv, OperationsStepInv, PTL DEF OperationsSpec

-----------------------------------------------------------------------------
LEMMA FinalStep ==
  ASSUME OperationsInv, [OperationsNext]_opsVars, NEW j \in Jobs, ops[j] \in Final
  PROVE  ops'[j] \in {ops[j], "untracked"}
<1>1. job[j].pc = "ended" /\ ops \in [Jobs -> OpStates] /\ ops[j] \notin Unfinished
  BY DEF OperationsInv, FinalIsLast, OperationsTypes, Final, Unfinished
<1>2. CASE UNCHANGED opsVars
  BY <1>2 DEF opsVars
<1>3. ASSUME NEW k \in Jobs, CheckQuota(k) \/ Disconnect(k)
      PROVE  ops'[j] = ops[j]
  BY <1>3 DEF CheckQuota, Disconnect
<1>4. ASSUME NEW k \in Jobs, NEW b \in BOOLEAN, Start(k, b)
      PROVE  ops'[j] \in {ops[j], "untracked"}
  BY <1>1, <1>4 DEF Start
<1>5. ASSUME NEW k \in Jobs, Working(k)
      PROVE  ops'[j] = ops[j]
  BY <1>1, <1>5
    DEF Working, MarkRunning, LastCheck, Complete, Err, Finish, Update
<1>6. ASSUME NEW k \in Jobs, Cancel(k)
      PROVE  ops'[j] = ops[j]
  BY <1>1, <1>6 DEF Cancel, Cancelable, Update, Unfinished
<1> QED
  BY <1>2, <1>3, <1>4, <1>5, <1>6 DEF OperationsNext

\* A final state stays, until the tracker forgets the operation.
THEOREM FinalStatesStay == OperationsSpec => FinalStaysFinal
<1>1. OperationsInv /\ [OperationsNext]_opsVars =>
        [ \A j \in Jobs : ops[j] \in Final => ops'[j] \in {ops[j], "untracked"} ]_opsVars
  BY FinalStep
<1> QED
  BY <1>1, OperationsInitInv, OperationsStepInv, PTL DEF OperationsSpec, FinalStaysFinal

-----------------------------------------------------------------------------
(* The size of the tracker.                                                *)

\* The tracker lists the operations that have a record, and no more than it
\* has room for.
TrackerInv ==
  /\ OperationsInv /\ built \subseteq Jobs
  /\ order \in Seq(Jobs) /\ Len(order) <= MaxTracked
  /\ { j \in Jobs : ops[j] # "untracked" } = ToSet(order)

\* What is left of a list when a new operation is recorded.
LEMMA NewestFacts ==
  ASSUME NEW s \in Seq(Jobs), NEW j \in Jobs
  PROVE  /\ Newest(Append(s, j)) \in Seq(Jobs) /\ Len(Newest(Append(s, j))) <= MaxTracked
         /\ ToSet(Newest(Append(s, j))) \subseteq ToSet(s) \cup {j}
<1>1. PICK t \in Seq(Jobs) : /\ t = Append(s, j) /\ Len(t) = Len(s) + 1
                             /\ t[Len(s) + 1] = j /\ \A k \in 1 .. Len(s) : t[k] = s[k]
  <2>1. /\ Append(s, j) \in Seq(Jobs) /\ Len(Append(s, j)) = Len(s) + 1
        /\ Append(s, j)[Len(s) + 1] = j /\ \A k \in 1 .. Len(s) : Append(s, j)[k] = s[k]
    BY AppendProperties
  <2> QED
    BY <2>1
<1>2. Len(t) \in Nat /\ Len(s) \in Nat /\ MaxTracked \in Nat \ {0}
  BY <1>1, OperationsAssumption, LenProperties
<1>3. DOMAIN t = 1 .. Len(t) /\ DOMAIN s = 1 .. Len(s) /\ \A k \in 1 .. Len(t) : t[k] \in Jobs
  BY <1>2, LenProperties, ElementOfSeq
<1>4. \A k \in 1 .. Len(t) : t[k] \in ToSet(s) \cup {j}
  <2> SUFFICES ASSUME NEW k \in 1 .. Len(t) PROVE t[k] \in ToSet(s) \cup {j}
    OBVIOUS
  <2>1. k = Len(s) + 1 \/ k \in 1 .. Len(s)
    BY <1>1, <1>2
  <2> QED
    BY <1>1, <1>3, <2>1 DEF ToSet
<1>5. CASE Len(t) > MaxTracked
  <2> DEFINE first == Len(t) - MaxTracked + 1
  <2>1. first \in 1 .. Len(t) /\ Newest(t) = SubSeq(t, first, Len(t))
    BY <1>2, <1>5 DEF Newest
  <2>2. /\ SubSeq(t, first, Len(t)) \in Seq(Jobs)
        /\ Len(SubSeq(t, first, Len(t))) = MaxTracked
        /\ \A k \in 1 .. MaxTracked : SubSeq(t, first, Len(t))[k] = t[first + k - 1]
    BY <1>2, <1>3, <1>5, <2>1, SubSeqProperties
  <2>3. DOMAIN SubSeq(t, first, Len(t)) = 1 .. MaxTracked
    BY <2>2, LenProperties
  <2>4. \A k \in 1 .. MaxTracked : SubSeq(t, first, Len(t))[k] \in ToSet(s) \cup {j}
    <3> SUFFICES ASSUME NEW k \in 1 .. MaxTracked PROVE t[first + k - 1] \in ToSet(s) \cup {j}
      BY <2>2
    <3>1. first + k - 1 \in 1 .. Len(t)
      BY <1>2, <1>5
    <3> QED
      BY <1>4, <3>1
  <2> HIDE DEF first
  <2>5. ToSet(SubSeq(t, first, Len(t))) \subseteq ToSet(s) \cup {j}
    BY <2>3, <2>4 DEF ToSet
  <2>6. Newest(t) \in Seq(Jobs) /\ Len(Newest(t)) = MaxTracked
    BY <2>1, <2>2
  <2> QED
    BY <1>1, <1>2, <2>1, <2>5, <2>6
<1>6. CASE ~(Len(t) > MaxTracked)
  BY <1>1, <1>2, <1>3, <1>4, <1>6 DEF Newest, ToSet
<1> QED
  BY <1>5, <1>6

LEMMA TrackerStep == TrackerInv /\ [OperationsNext]_opsVars => TrackerInv'
<1> SUFFICES ASSUME TrackerInv, [OperationsNext]_opsVars PROVE TrackerInv'
  OBVIOUS
<1>1. OperationsInv /\ OperationsInv'
  BY OperationsStepInv DEF TrackerInv
<1>2. ops \in [Jobs -> OpStates] /\ ops' \in [Jobs -> OpStates]
  BY <1>1 DEF OperationsInv, OperationsTypes
<1>0. built' \subseteq Jobs
  BY DEF TrackerInv, OperationsNext, opsVars, CheckQuota, Start, Working, MarkRunning, LastCheck,
         Complete, Err, Finish, Cancel, Disconnect
<1>3. CASE UNCHANGED order /\ \A j \in Jobs : ops'[j] = "untracked" <=> ops[j] = "untracked"
  BY <1>0, <1>1, <1>3 DEF TrackerInv
<1>4. ASSUME NEW j \in Jobs, NEW b \in BOOLEAN, Start(j, b) PROVE TrackerInv'
  <2>1. /\ order' \in Seq(Jobs) /\ Len(order') <= MaxTracked
        /\ ToSet(order') \subseteq ToSet(order) \cup {j}
    BY <1>4, NewestFacts DEF TrackerInv, Start
  <2>2. \A k \in Jobs : k \in ToSet(order') => ops'[k] # "untracked"
    BY <1>4, <2>1 DEF TrackerInv, Start
  <2>3. \A k \in Jobs : ops'[k] # "untracked" => k \in ToSet(order')
    BY <1>4 DEF Start
  <2>4. ToSet(order') \subseteq Jobs
    BY <2>1 DEF TrackerInv
  <2> QED
    BY <1>0, <1>1, <2>1, <2>2, <2>3, <2>4 DEF TrackerInv
<1>5. ASSUME NEW j \in Jobs, NEW state, Update(j, state),
             state = "untracked" => ops[j] = "untracked"
      PROVE  \A k \in Jobs : ops'[k] = "untracked" <=> ops[k] = "untracked"
  BY <1>2, <1>5 DEF Update
<1>6. ASSUME NEW j \in Jobs, Working(j) PROVE TrackerInv'
  <2>1. UNCHANGED order
    BY <1>6 DEF Working, MarkRunning, LastCheck, Complete, Err, Finish
  <2>2. CASE MarkRunning(j)
    BY <1>3, <1>5, <2>1, <2>2 DEF MarkRunning
  <2>3. CASE Finish(j)
    BY <1>3, <1>5, <2>1, <2>3 DEF Finish, Outcome
  <2>4. CASE UNCHANGED ops
    BY <1>3, <2>1, <2>4
  <2> QED
    BY <1>6, <2>2, <2>3, <2>4 DEF Working, LastCheck, Complete, Err
<1>7. ASSUME NEW j \in Jobs, Cancel(j) PROVE TrackerInv'
  BY <1>3, <1>5, <1>7 DEF Cancel
<1>8. ASSUME NEW j \in Jobs, CheckQuota(j) \/ Disconnect(j) PROVE TrackerInv'
  BY <1>3, <1>8 DEF CheckQuota, Disconnect
<1> QED
  BY <1>3, <1>4, <1>6, <1>7, <1>8 DEF OperationsNext, opsVars

\* The tracker never holds more records than it has room for, and forgets an
\* operation exactly when it drops it from its list.
THEOREM OperationsTypeCorrect == OperationsSpec => []OperationsTypeOK
<1>1. OperationsInit => TrackerInv
  <2>1. ASSUME OperationsInit
        PROVE  /\ order \in Seq(Jobs) /\ Len(order) = 0 /\ ToSet(order) = {}
               /\ \A j \in Jobs : ops[j] = "untracked"
    BY <2>1 DEF OperationsInit, ToSet
  <2> QED
    BY <2>1, OperationsInitInv, OperationsAssumption DEF TrackerInv, OperationsInit
<1>2. TrackerInv => OperationsTypeOK
  <2> SUFFICES ASSUME TrackerInv PROVE OperationsTypeOK
    OBVIOUS
  <2>1. order \in BoundedSeq(Jobs, MaxTracked)
    BY BoundedLists, OperationsAssumption DEF TrackerInv, BoundedSeq, SeqOf
  <2>2. ops \in [Jobs -> OpStates] /\ job \in [Jobs -> JobStates]
    BY DEF TrackerInv, OperationsInv, OperationsTypes
  <2>3. built \subseteq Jobs
    BY DEF TrackerInv
  <2> QED
    BY <2>1, <2>2, <2>3 DEF TrackerInv, OperationsTypeOK, OpStates, JobStates
<1> QED
  BY <1>1, <1>2, TrackerStep, PTL DEF OperationsSpec

-----------------------------------------------------------------------------
(***************************************************************************)
(* A proof that a revoked key stays out, for any set of keys, any lifetime *)
(* and any number of crashes.                                              *)
(*                                                                         *)
(* The argument: from the moment a revocation is answered, the map, the    *)
(* file and the records of every save in progress hold a record of the     *)
(* token that lasts at least as long as the token itself.  A record is     *)
(* dropped only when it has expired, and then the token has.               *)
(***************************************************************************)

\* The token has been generated, and its exp claim has passed.
Over(t) == minted[t] # 0 /\ clock >= minted[t] + Lifetime

\* The records hold one for the token that lasts as long as the token.
Holds(records, t) == minted[t] # 0 /\ records[t] >= minted[t] + Lifetime

\* Nothing of what is written, or may still be written, lets the token in.
Covered(t) ==
  Over(t) \/ ( /\ Holds(revoked, t) /\ Holds(file, t)
               /\ save.pc # "none" => Holds(save.records, t) )

MintedInThePast == \A t \in Tokens : minted[t] <= clock
FallbackIsMarked == save.pc \in {"remove", "renameAgain"} => renameFailed
AckedIsCovered == renameFailed \/ \A t \in acked : Covered(t)
SavedIsHeld ==
  \A t \in save.tokens : Over(t) \/ (Holds(revoked, t) /\ Holds(save.records, t))
IdleSavesNothing == save.pc = "none" => save.tokens = {}

RevocationInv ==
  /\ RevocationTypeOK /\ MintedInThePast /\ FallbackIsMarked
  /\ AckedIsCovered /\ SavedIsHeld /\ IdleSavesNothing

-----------------------------------------------------------------------------
\* Pruning a set of records keeps every one that still matters.
LEMMA PrunedHolds ==
  ASSUME RevocationTypeOK, NEW t \in Tokens, NEW records \in Records,
         Holds(records, t)
  PROVE  Over(t) \/ Holds(Pruned(records), t)
<1>1. records[t] \in Nat /\ minted[t] \in Nat /\ clock \in Nat /\ Lifetime \in Nat
  BY RevocationAssumption DEF RevocationTypeOK, Records
<1> QED
  BY <1>1 DEF Holds, Over, Pruned, Expired

\* So does loading the file.
LEMMA LoadedHolds ==
  ASSUME RevocationTypeOK, NEW t \in Tokens, Holds(file, t)
  PROVE  Over(t) \/ Holds(Loaded, t)
<1>1. file[t] \in Nat /\ minted[t] \in Nat /\ clock \in Nat /\ Lifetime \in Nat
  BY RevocationAssumption DEF RevocationTypeOK, Records
<1> QED
  BY <1>1 DEF Holds, Over, Loaded

\* A covered token is refused.
LEMMA CoveredIsRefused ==
  ASSUME RevocationTypeOK, NEW t \in Tokens, Covered(t)
  PROVE  ~Accepted(t)
<1>1. /\ revoked[t] \in Nat /\ minted[t] \in Nat /\ clock \in Nat
      /\ Lifetime \in Nat
  BY RevocationAssumption DEF RevocationTypeOK, Records
<1>2. minted[t] # 0 => minted[t] + Lifetime > 0
  BY <1>1
<1> QED
  BY <1>1, <1>2 DEF Covered, Over, Holds, Accepted, Valid, Expired

LEMMA NoRecordsType == NoRecords \in Records
BY RevocationAssumption DEF NoRecords, Records

LEMMA RevocationInitInv == RevocationInit => RevocationInv
<1> SUFFICES ASSUME RevocationInit PROVE RevocationInv
  OBVIOUS
<1>1. MaxRevocationTime \in Nat /\ 1 \in 1 .. MaxRevocationTime
  BY RevocationAssumption
<1>2. minted \in [Tokens -> 0 .. MaxRevocationTime] /\ \A t \in Tokens : minted[t] = 0
  BY <1>1 DEF RevocationInit, NoRecords
<1>3. RevocationTypeOK
  BY <1>1, <1>2, NoRecordsType DEF RevocationInit, RevocationTypeOK, NoSave
<1> QED
  BY <1>2, <1>3
    DEF RevocationInit, RevocationInv, NoSave, MintedInThePast, FallbackIsMarked,
        AckedIsCovered, SavedIsHeld, IdleSavesNothing

-----------------------------------------------------------------------------
(* Types.                                                                  *)

LEMMA TypeStep ==
  ASSUME RevocationTypeOK, [RevocationNext]_revocationVars
  PROVE  RevocationTypeOK'
<1> USE DEF RevocationTypeOK
<1>0. MaxRevocationTime \in Nat /\ Lifetime \in Nat /\ clock \in Nat
  BY RevocationAssumption
<1>1. CASE RevocationTick
  BY <1>0, <1>1 DEF RevocationTick
<1>2. CASE Restart
  <2>1. Loaded \in Records
    BY <1>0 DEF Loaded, Records
  <2> QED
    BY <1>2, <2>1, NoRecordsType DEF Restart, NoSave
<1>3. ASSUME NEW t \in Tokens, GenerateKey(t)
      PROVE  RevocationTypeOK'
  <2>1. clock \in 0 .. MaxRevocationTime
    BY <1>0
  <2> QED
    BY <1>3, <2>1 DEF GenerateKey
<1>4. ASSUME NEW t \in Tokens, RevokeTokenID(t)
      PROVE  RevocationTypeOK'
  <2> DEFINE more == [revoked EXCEPT ![t] = RecordExpiry]
  <2>1. RecordExpiry \in 0 .. MaxRevocationTime + Lifetime
    BY <1>0 DEF RecordExpiry
  <2>2. more \in Records
    BY <2>1 DEF Records
  <2>3. Pruned(more) \in Records
    BY <1>0, <2>2 DEF Pruned, Records
  <2> QED
    BY <1>4, <2>3 DEF RevokeTokenID
<1>5. CASE WriteTemporary
  BY <1>5, NoRecordsType DEF WriteTemporary, SaveGoesOn, SaveFails, NoSave
<1>6. CASE Rename
  <2>1. CASE Saved
    <3>1. file' \in Records /\ acked' \subseteq Tokens
      BY <2>1 DEF Saved
    <3> QED
      BY <1>6, <2>1, <3>1, NoRecordsType DEF Rename, Saved, NoSave
  <2>2. CASE SaveGoesOn("remove") /\ renameFailed' = TRUE /\ UNCHANGED file
    BY <1>6, <2>2 DEF Rename, SaveGoesOn
  <2> QED
    BY <1>6, <2>1, <2>2 DEF Rename
<1>7. CASE RemoveOld
  BY <1>7, NoRecordsType DEF RemoveOld, SaveGoesOn, SaveFails, NoSave
<1>8. CASE RenameAgain
  BY <1>8, NoRecordsType DEF RenameAgain, Saved, SaveFails, NoSave
<1>9. CASE UNCHANGED revocationVars
  BY <1>9 DEF revocationVars
<1> QED
  BY <1>1, <1>2, <1>3, <1>4, <1>5, <1>6, <1>7, <1>8, <1>9
    DEF RevocationNext

-----------------------------------------------------------------------------
(* The rest of the invariant, one lemma for each kind of step.             *)

\* A step that leaves the clock, the keys and the map alone, takes the save
\* further or ends it, and leaves what is covered covered.
LEMMA SaveStep ==
  ASSUME RevocationInv, WriteTemporary \/ Rename \/ RemoveOld \/ RenameAgain,
         RevocationTypeOK'
  PROVE  RevocationInv'
<1>0. /\ UNCHANGED <<clock, minted, revoked>>
      /\ save.pc # "none"
  BY DEF WriteTemporary, Rename, RemoveOld, RenameAgain
<1>1. MintedInThePast'
  BY <1>0 DEF RevocationInv, MintedInThePast
<1>2. FallbackIsMarked'
  BY DEF RevocationInv, FallbackIsMarked, WriteTemporary, Rename, RemoveOld,
         RenameAgain, Saved, SaveFails, SaveGoesOn, NoSave, RevocationTypeOK
<1>3. \/ save' = NoSave
      \/ /\ save'.pc # "none"
         /\ save'.tokens = save.tokens /\ save'.records = save.records
  BY DEF RevocationInv, RevocationTypeOK, WriteTemporary, Rename, RemoveOld,
         RenameAgain, Saved, SaveFails, SaveGoesOn
<1>4. IdleSavesNothing' /\ SavedIsHeld'
  BY <1>0, <1>3
    DEF RevocationInv, IdleSavesNothing, SavedIsHeld, NoSave, Over, Holds
<1>5. renameFailed => renameFailed'
  BY DEF WriteTemporary, Rename, RemoveOld, RenameAgain
<1>6. ASSUME ~renameFailed' PROVE \A t \in acked' : Covered(t)'
  <2>1. ~renameFailed /\ \A t \in acked : Covered(t)
    BY <1>5, <1>6 DEF RevocationInv, AckedIsCovered
  <2>2. save.pc \notin {"remove", "renameAgain"}
    BY <2>1 DEF RevocationInv, FallbackIsMarked
  <2>3. \/ UNCHANGED <<file, acked>>
        \/ Saved
    BY <1>6, <2>2
      DEF WriteTemporary, Rename, RemoveOld, RenameAgain, SaveFails, SaveGoesOn
  <2>4. CASE UNCHANGED <<file, acked>>
    BY <1>0, <1>3, <2>1, <2>4 DEF Covered, Over, Holds, NoSave
  <2>5. CASE Saved
    <3> SUFFICES ASSUME NEW t \in acked \cup save.tokens
                 PROVE  Covered(t)'
      BY <2>5 DEF Saved
    <3>1. Over(t) \/ (Holds(revoked, t) /\ Holds(save.records, t))
      BY <1>0, <2>1 DEF RevocationInv, SavedIsHeld, Covered
    <3> QED
      BY <1>0, <2>5, <3>1 DEF Saved, NoSave, Covered, Over, Holds
  <2> QED
    BY <2>3, <2>4, <2>5
<1> QED
  BY <1>1, <1>2, <1>4, <1>6 DEF RevocationInv, AckedIsCovered

\* Time passes: what is over stays over.
LEMMA TickStep == ASSUME RevocationInv, RevocationTick, RevocationTypeOK' PROVE RevocationInv'
<1>1. /\ clock \in Nat /\ clock' = clock + 1 /\ Lifetime \in Nat
      /\ UNCHANGED <<minted, revoked, file, save, acked, renameFailed>>
      /\ \A t \in Tokens : minted[t] \in Nat
      /\ acked \subseteq Tokens /\ save.tokens \subseteq Tokens
  BY RevocationAssumption DEF RevocationInv, RevocationTypeOK, RevocationTick
<1>2. \A t \in Tokens : Over(t) => Over(t)'
  BY <1>1 DEF Over
<1>3. MintedInThePast'
  BY <1>1 DEF RevocationInv, MintedInThePast
<1>4. AckedIsCovered' /\ SavedIsHeld'
  BY <1>1, <1>2 DEF RevocationInv, AckedIsCovered, SavedIsHeld, Covered, Holds
<1> QED
  BY <1>1, <1>3, <1>4 DEF RevocationInv, FallbackIsMarked, IdleSavesNothing

\* A new key has not been revoked, so nothing is said of it yet.
LEMMA GenerateStep ==
  ASSUME RevocationInv, NEW t \in Tokens, GenerateKey(t), RevocationTypeOK'
  PROVE  RevocationInv'
<1>1. /\ clock \in Nat /\ minted[t] = 0 /\ minted' = [minted EXCEPT ![t] = clock]
      /\ UNCHANGED <<clock, revoked, file, save, acked, renameFailed>>
      /\ minted \in [Tokens -> 0 .. MaxRevocationTime]
      /\ acked \subseteq Tokens /\ save.tokens \subseteq Tokens
  BY RevocationAssumption DEF RevocationInv, RevocationTypeOK, GenerateKey
<1>2. MintedInThePast'
  BY <1>1 DEF RevocationInv, MintedInThePast
<1>3. \A u \in Tokens : Covered(u) => u # t /\ minted'[u] = minted[u]
  BY <1>1 DEF Covered, Over, Holds
<1>4. \A u \in save.tokens : u # t /\ minted'[u] = minted[u]
  BY <1>1 DEF RevocationInv, SavedIsHeld, Over, Holds
<1>5. AckedIsCovered'
  BY <1>1, <1>3 DEF RevocationInv, AckedIsCovered, Covered, Over, Holds
<1>6. SavedIsHeld'
  BY <1>1, <1>4 DEF RevocationInv, SavedIsHeld, Over, Holds
<1> QED
  BY <1>1, <1>2, <1>5, <1>6 DEF RevocationInv, FallbackIsMarked, IdleSavesNothing

\* A revocation records the token for a whole lifetime from now, and prunes
\* the rest.
LEMMA RevokeStep ==
  ASSUME RevocationInv, NEW t \in Tokens, RevokeTokenID(t), RevocationTypeOK'
  PROVE  RevocationInv'
<1> DEFINE more == [revoked EXCEPT ![t] = RecordExpiry]
<1>1. /\ clock \in Nat /\ Lifetime \in Nat /\ MaxRevocationTime \in Nat
      /\ minted[t] # 0 /\ minted[t] \in Nat /\ minted[t] <= clock
      /\ clock <= MaxRevocationTime /\ revoked \in Records /\ acked \subseteq Tokens
      /\ RevocationTypeOK /\ minted \in [Tokens -> 0 .. MaxRevocationTime]
  BY RevocationAssumption
    DEF RevocationInv, RevocationTypeOK, MintedInThePast, RevokeTokenID
<1>2. /\ UNCHANGED <<clock, minted, file, acked, renameFailed>>
      /\ revoked' = Pruned(more) /\ save'.records = Pruned(more)
      /\ save'.pc = "write" /\ save'.tokens = {t}
  BY DEF RevokeTokenID
<1>3. RecordExpiry \in 0 .. MaxRevocationTime + Lifetime /\ RecordExpiry >= minted[t] + Lifetime
  BY <1>1 DEF RecordExpiry
<1>4. more \in Records /\ more[t] = RecordExpiry
  BY <1>1, <1>3 DEF Records
<1>5. Holds(more, t)
  BY <1>1, <1>3, <1>4 DEF Holds
<1>6. \A u \in Tokens : Holds(revoked, u) => Holds(more, u)
  BY <1>1, <1>5 DEF Holds, Records
<1> HIDE DEF more
<1>7. \A u \in Tokens : Holds(more, u) => Over(u) \/ Holds(Pruned(more), u)
  BY <1>1, <1>4, PrunedHolds
<1>8. SavedIsHeld'
  BY <1>2, <1>5, <1>7 DEF SavedIsHeld, Over, Holds
<1>9. AckedIsCovered'
  BY <1>1, <1>2, <1>6, <1>7 DEF RevocationInv, AckedIsCovered, Covered, Over, Holds
<1> QED
  BY <1>2, <1>8, <1>9 DEF RevocationInv, MintedInThePast, FallbackIsMarked, IdleSavesNothing

\* A restart reads from the file what still matters.
LEMMA RestartStep == ASSUME RevocationInv, Restart, RevocationTypeOK' PROVE RevocationInv'
<1>1. /\ RevocationTypeOK /\ acked \subseteq Tokens
      /\ UNCHANGED <<clock, minted, file, acked, renameFailed>>
      /\ revoked' = Loaded /\ save' = NoSave
  BY DEF RevocationInv, RevocationTypeOK, Restart
<1>2. \A t \in Tokens : Holds(file, t) => Over(t) \/ Holds(Loaded, t)
  BY <1>1, LoadedHolds
<1>3. AckedIsCovered'
  BY <1>1, <1>2 DEF RevocationInv, AckedIsCovered, Covered, Over, Holds, NoSave
<1> QED
  BY <1>1, <1>3
    DEF RevocationInv, MintedInThePast, FallbackIsMarked, SavedIsHeld, IdleSavesNothing, NoSave

-----------------------------------------------------------------------------
LEMMA RevocationStepInv == RevocationInv /\ [RevocationNext]_revocationVars => RevocationInv'
<1> SUFFICES ASSUME RevocationInv, [RevocationNext]_revocationVars PROVE RevocationInv'
  OBVIOUS
<1>1. RevocationTypeOK'
  BY TypeStep DEF RevocationInv
<1>2. CASE UNCHANGED revocationVars
  BY <1>1, <1>2
    DEF revocationVars, RevocationInv, MintedInThePast, FallbackIsMarked, AckedIsCovered,
        SavedIsHeld, IdleSavesNothing, Covered, Over, Holds
<1>3. CASE RevocationNext
  BY <1>1, <1>3, SaveStep, TickStep, GenerateStep, RevokeStep,
     RestartStep
    DEF RevocationNext
<1> QED
  BY <1>2, <1>3

\* What the map, the file and a save in progress may hold.
THEOREM RevocationTypeCorrect == RevocationSpec => []RevocationTypeOK
<1>1. RevocationInv => RevocationTypeOK
  BY DEF RevocationInv
<1> QED
  BY <1>1, RevocationInitInv, RevocationStepInv, PTL DEF RevocationSpec

\* A key whose revocation was answered with success is not accepted again,
\* after any number of restarts and failed saves, unless a rename over the old
\* file has failed.
THEOREM RevokedKeysStayOut == RevocationSpec => []RevokedStaysOut
<1>1. RevocationInv => RevokedStaysOut
  <2> SUFFICES ASSUME RevocationInv, NEW t \in acked, Accepted(t), ~renameFailed
               PROVE  FALSE
    BY DEF RevokedStaysOut
  <2>1. RevocationTypeOK /\ t \in Tokens /\ Covered(t)
    BY DEF RevocationInv, RevocationTypeOK, AckedIsCovered
  <2> QED
    BY <2>1, CoveredIsRefused
<1> QED
  BY <1>1, RevocationInitInv, RevocationStepInv, PTL DEF RevocationSpec

-----------------------------------------------------------------------------
(* A record never expires before its token: the branch of isRevoked that   *)
(* forgets an expired record is not taken.                                 *)

Outlive(records) == \A t \in Tokens : records[t] # 0 => Holds(records, t)

OutliveInv ==
  RevocationInv /\ Outlive(revoked) /\ Outlive(file) /\ Outlive(save.records)

LEMMA InitOutlive == RevocationInit => OutliveInv
BY RevocationInitInv DEF RevocationInit, OutliveInv, Outlive, NoRecords, NoSave

LEMMA StepOutlive == OutliveInv /\ [RevocationNext]_revocationVars => OutliveInv'
<1> SUFFICES ASSUME OutliveInv, [RevocationNext]_revocationVars PROVE OutliveInv'
  OBVIOUS
<1>1. RevocationInv'
  BY RevocationStepInv DEF OutliveInv
<1>2. /\ clock \in Nat /\ Lifetime \in Nat /\ MaxRevocationTime \in Nat /\ clock <= MaxRevocationTime
      /\ minted \in [Tokens -> 0 .. MaxRevocationTime]
      /\ revoked \in Records /\ file \in Records
      /\ \A t \in Tokens : minted[t] \in Nat /\ minted[t] <= clock
  BY RevocationAssumption DEF OutliveInv, RevocationInv, RevocationTypeOK, MintedInThePast
<1>3. \A r \in Records : Outlive(r) => \A t \in Tokens : minted[t] = 0 => r[t] = 0
  BY DEF Outlive, Holds
<1>4. ASSUME UNCHANGED minted,
             revoked' \in {revoked, Loaded}, file' \in {file, save.records, NoRecords},
             save'.records \in {save.records, NoRecords}
      PROVE  OutliveInv'
  <2>1. Outlive(NoRecords)
    BY DEF Outlive, NoRecords
  <2>2. Outlive(Loaded)
    BY DEF OutliveInv, Outlive, Holds, Loaded
  <2>3. /\ Outlive(revoked') /\ Outlive(file') /\ Outlive(save'.records)
    BY <1>4, <2>1, <2>2 DEF OutliveInv
  <2> QED
    BY <1>1, <1>4, <2>3 DEF OutliveInv, Outlive, Holds
<1>5. CASE RevocationTick \/ Restart \/ UNCHANGED revocationVars
  BY <1>4, <1>5 DEF RevocationTick, Restart, revocationVars, NoSave
<1>6. CASE WriteTemporary \/ Rename \/ RemoveOld \/ RenameAgain
  <2>1. \/ save' = NoSave
        \/ \E pc : save' = [save EXCEPT !.pc = pc]
    BY <1>6 DEF WriteTemporary, Rename, RemoveOld, RenameAgain, Saved, SaveFails,
                SaveGoesOn
  <2>2. save'.records \in {save.records, NoRecords}
    BY <2>1 DEF NoSave, OutliveInv, RevocationInv, RevocationTypeOK
  <2>3. UNCHANGED <<minted, revoked>> /\ file' \in {file, save.records, NoRecords}
    BY <1>6 DEF WriteTemporary, Rename, RemoveOld, RenameAgain, Saved, SaveFails
  <2> QED
    BY <1>4, <2>2, <2>3
<1>7. ASSUME NEW t \in Tokens, GenerateKey(t) PROVE OutliveInv'
  <2>1. /\ minted' = [minted EXCEPT ![t] = clock] /\ minted[t] = 0
        /\ UNCHANGED <<revoked, file, save>>
    BY <1>7 DEF GenerateKey
  <2>2. \A u \in Tokens \ {t} : minted'[u] = minted[u]
    BY <1>2, <2>1
  <2> QED
    BY <1>1, <2>1, <2>2 DEF OutliveInv, Outlive, Holds
<1>8. ASSUME NEW t \in Tokens, RevokeTokenID(t) PROVE OutliveInv'
  <2> DEFINE more == [revoked EXCEPT ![t] = RecordExpiry]
  <2>1. /\ minted[t] # 0 /\ UNCHANGED <<minted, file>>
        /\ revoked' = Pruned(more) /\ save'.records = Pruned(more)
    BY <1>8 DEF RevokeTokenID
  <2>2. RecordExpiry \in Nat /\ RecordExpiry >= minted[t] + Lifetime
    BY <1>2 DEF RecordExpiry
  <2>3. Outlive(more)
    BY <1>2, <2>1, <2>2 DEF OutliveInv, Outlive, Holds, Records
  <2> HIDE DEF more
  <2>4. Outlive(Pruned(more))
    BY <2>3 DEF Outlive, Holds, Pruned
  <2> QED
    BY <1>1, <2>1, <2>4 DEF OutliveInv, Outlive, Holds
<1> QED
  BY <1>5, <1>6, <1>7, <1>8 DEF RevocationNext

\* A token that is still valid never has an expired record (isRevoked).
THEOREM RecordsOutliveTokens ==
  RevocationSpec => [](\A t \in Tokens : Valid(t) => ~Expired(revoked, t))
<1>1. OutliveInv => \A t \in Tokens : Valid(t) => ~Expired(revoked, t)
  <2> SUFFICES ASSUME OutliveInv, NEW t \in Tokens, Valid(t), Expired(revoked, t)
               PROVE  FALSE
    OBVIOUS
  <2>1. /\ clock \in Nat /\ minted[t] \in Nat /\ revoked[t] \in Nat /\ Lifetime \in Nat
    BY RevocationAssumption DEF OutliveInv, RevocationInv, RevocationTypeOK, Records
  <2> QED
    BY <2>1 DEF OutliveInv, Outlive, Holds, Valid, Expired
<1> QED
  BY <1>1, InitOutlive, StepOutlive, PTL DEF RevocationSpec

-----------------------------------------------------------------------------
(***************************************************************************)
(* A proof that no write is judged by a schema older than the one in force *)
(* when its request came, for any number of collections, writers and       *)
(* cache entries.                                                          *)
(*                                                                         *)
(* The argument: the schema of a collection only gets newer, a request     *)
(* reads its text after it came, and whether the compiled schema is then   *)
(* taken from the cache or compiled, it is the one of that text.           *)
(***************************************************************************)

Numbers == 0 .. MaxChanges
Requests ==
  [pc : {"idle", "read", "lookup", "compiled", "validated"}, c : SchemaCollections,
   inside : BOOLEAN, since : Numbers, text : Numbers, used : Numbers]

\* What is needed of the types; the size of the cache plays no part.
SchemaTypes ==
  /\ schema \in [SchemaCollections -> Numbers]
  /\ cache \in [SchemaCollections -> Numbers]
  /\ writer \in [Writers -> Requests]
  /\ judged \in [used : Numbers, since : Numbers]

\* Some collection has the newest schema of all, so LastChange is it.
NewestExists ==
  \E c \in SchemaCollections : \A d \in SchemaCollections : schema[d] <= schema[c]

\* A request reads a text no older than the request.
RequestsLookForward ==
  \A w \in Writers :
    LET r == writer[w] IN
      /\ r.pc = "read" => r.since <= schema[r.c]
      /\ r.pc \in {"lookup", "compiled", "validated"} =>
           r.since <= r.text /\ r.since <= r.used

SchemaInv == SchemaTypes /\ NewestExists /\ RequestsLookForward /\ NeverJudgedByAnOlder

-----------------------------------------------------------------------------
LEMMA NumbersFact == MaxChanges \in Nat /\ 0 \in Numbers
BY SchemaAssumption DEF Numbers

LEMMA NoRequestType == NoRequest \in Requests
BY SchemaAssumption, NumbersFact DEF NoRequest, Requests

LEMMA LastChangeBounds ==
  ASSUME SchemaTypes, NewestExists
  PROVE  /\ LastChange \in Numbers
         /\ \A c \in SchemaCollections : schema[c] <= LastChange
<1> DEFINE S == { schema[c] : c \in SchemaCollections }
<1>1. \E m \in S : \A n \in S : n <= m
  BY DEF NewestExists
<1>2. S \subseteq Nat /\ S \subseteq Numbers
  BY NumbersFact DEF SchemaTypes, Numbers
<1>3. \E m \in S : \A n \in S : m >= n
  BY <1>1, <1>2
<1>4. Max(S) \in S /\ \A n \in S : Max(S) >= n
  BY <1>3 DEF Max
<1>5. LastChange = Max(S)
  BY DEF LastChange
<1> QED
  BY <1>2, <1>4, <1>5

LEMMA SchemaInitInv == SchemaInit => SchemaInv
<1> SUFFICES ASSUME SchemaInit PROVE SchemaInv
  OBVIOUS
<1>1. SchemaTypes
  BY NumbersFact, NoRequestType DEF SchemaInit, SchemaTypes
<1>2. NewestExists
  BY SchemaAssumption DEF SchemaInit, NewestExists
<1>3. RequestsLookForward
  BY DEF SchemaInit, RequestsLookForward, NoRequest
<1>4. NeverJudgedByAnOlder
  BY DEF SchemaInit, NeverJudgedByAnOlder
<1> QED
  BY <1>1, <1>2, <1>3, <1>4 DEF SchemaInv

\* A change of a schema: the collection's schema becomes the newest of all.
LEMMA ChangeStep ==
  ASSUME SchemaInv, NEW c \in SchemaCollections, NEW removes \in BOOLEAN,
         ChangeSchema(c, removes)
  PROVE  SchemaInv'
<1>1. /\ LastChange \in Numbers /\ LastChange < MaxChanges
      /\ \A d \in SchemaCollections : schema[d] <= LastChange
      /\ schema' = [schema EXCEPT ![c] = LastChange + 1]
      /\ UNCHANGED <<cache, writer, judged>>
      /\ schema \in [SchemaCollections -> Numbers]
  BY LastChangeBounds DEF SchemaInv, SchemaTypes, ChangeSchema
<1>2. PICK n \in Numbers : n = LastChange + 1
  BY <1>1, NumbersFact DEF Numbers
<1>3. schema' \in [SchemaCollections -> Numbers] /\ schema'[c] = n
  BY <1>1, <1>2
<1>4. \A d \in SchemaCollections :
        schema[d] \in Nat /\ schema[d] <= schema'[d] /\ schema'[d] <= n /\ schema'[d] \in Nat
  BY <1>1, <1>2, <1>3, NumbersFact DEF Numbers
<1>5. SchemaTypes'
  BY <1>1, <1>3 DEF SchemaInv, SchemaTypes
<1>6. NewestExists'
  BY <1>3, <1>4 DEF NewestExists
<1>7. RequestsLookForward'
  <2> SUFFICES ASSUME NEW w \in Writers, writer[w].pc = "read"
               PROVE  writer[w].since <= schema'[writer[w].c]
    BY <1>1 DEF RequestsLookForward, SchemaInv
  <2>1. writer[w] \in Requests /\ writer[w].since <= schema[writer[w].c]
    BY DEF SchemaInv, SchemaTypes, RequestsLookForward
  <2>2. writer[w].c \in SchemaCollections /\ writer[w].since \in Nat
    BY <2>1, NumbersFact DEF Requests, Numbers
  <2> QED
    BY <1>4, <2>1, <2>2
<1>8. NeverJudgedByAnOlder'
  BY <1>1 DEF SchemaInv, NeverJudgedByAnOlder
<1> QED
  BY <1>5, <1>6, <1>7, <1>8 DEF SchemaInv

\* A step of a writer that leaves the schemas alone and moves to a request
\* that looks forward as well.
LEMMA WriterStep ==
  ASSUME SchemaInv, NEW w \in Writers, NEW r \in Requests, Request(w, r),
         UNCHANGED schema, cache' \in [SchemaCollections -> Numbers],
         judged' \in [used : Numbers, since : Numbers], NeverJudgedByAnOlder',
         r.pc = "read" => r.since <= schema[r.c],
         r.pc \in {"lookup", "compiled", "validated"} =>
           r.since <= r.text /\ r.since <= r.used
  PROVE  SchemaInv'
<1>1. writer' = [writer EXCEPT ![w] = r] /\ writer \in [Writers -> Requests]
  BY DEF Request, SchemaInv, SchemaTypes
<1>2. SchemaTypes'
  BY <1>1 DEF SchemaInv, SchemaTypes
<1>3. NewestExists'
  BY DEF SchemaInv, NewestExists
<1>4. RequestsLookForward'
  <2> SUFFICES ASSUME NEW v \in Writers
               PROVE  LET q == writer'[v] IN
                        /\ q.pc = "read" => q.since <= schema[q.c]
                        /\ q.pc \in {"lookup", "compiled", "validated"} =>
                             q.since <= q.text /\ q.since <= q.used
    BY DEF RequestsLookForward
  <2>1. CASE v = w
    BY <1>1, <2>1
  <2>2. CASE v # w
    BY <1>1, <2>2 DEF SchemaInv, RequestsLookForward
  <2> QED
    BY <2>1, <2>2
<1> QED
  BY <1>2, <1>3, <1>4 DEF SchemaInv

LEMMA BeginStep ==
  ASSUME SchemaInv, NEW w \in Writers, NEW c \in SchemaCollections,
         BeginPut(w, c) \/ BeginInside(w, c)
  PROVE  SchemaInv'
<1>1. PICK inside \in BOOLEAN :
        Request(w, [NoRequest EXCEPT !.pc = "read", !.c = c, !.since = schema[c],
                                     !.inside = inside])
  <2>1. NoRequest.inside = FALSE
    BY DEF NoRequest
  <2>2. [NoRequest EXCEPT !.pc = "read", !.c = c, !.since = schema[c]]
          = [NoRequest EXCEPT !.pc = "read", !.c = c, !.since = schema[c],
                              !.inside = FALSE]
    BY <2>1 DEF NoRequest
  <2> QED
    BY <2>2 DEF BeginPut, BeginInside
<1> DEFINE r == [NoRequest EXCEPT !.pc = "read", !.c = c, !.since = schema[c],
                                  !.inside = inside]
<1>2. schema[c] \in Numbers /\ schema[c] <= schema[c]
  BY NumbersFact DEF SchemaInv, SchemaTypes, Numbers
<1>3. r \in Requests /\ r.pc = "read" /\ r.since = schema[c] /\ r.c = c
  BY <1>2, NoRequestType DEF Requests, NoRequest
<1>4. UNCHANGED <<schema, cache, judged>>
  BY DEF BeginPut, BeginInside
<1>5. Request(w, r)
  BY <1>1
<1> HIDE DEF r
<1>6. /\ cache' \in [SchemaCollections -> Numbers]
      /\ judged' \in [used : Numbers, since : Numbers] /\ NeverJudgedByAnOlder'
  BY <1>4 DEF SchemaInv, SchemaTypes, NeverJudgedByAnOlder
<1> QED
  BY <1>2, <1>3, <1>4, <1>5, <1>6, WriterStep

\* The steps of a request that has come.
LEMMA RequestStep ==
  ASSUME SchemaInv, NEW w \in Writers,
         ReadSchema(w) \/ Lookup(w) \/ CacheSchema(w) \/ CommitWrite(w) \/ Refuse(w)
  PROVE  SchemaInv'
<1> DEFINE r == writer[w]
<1>1. /\ r \in Requests /\ schema[r.c] \in Numbers
      /\ r.pc = "read" => r.since <= schema[r.c]
      /\ r.pc \in {"lookup", "compiled", "validated"} =>
           r.since <= r.text /\ r.since <= r.used
  BY DEF SchemaInv, SchemaTypes, Requests, RequestsLookForward
<1>2. /\ NoRequest \in Requests /\ NoRequest.pc = "idle"
  BY NoRequestType DEF NoRequest
<1>3. /\ cache \in [SchemaCollections -> Numbers]
      /\ judged \in [used : Numbers, since : Numbers] /\ NeverJudgedByAnOlder
  BY DEF SchemaInv, SchemaTypes
<1>4. CASE ReadSchema(w)
  <2> DEFINE q == [r EXCEPT !.pc = IF HasSchema(schema[r.c]) THEN "lookup" ELSE "validated",
                            !.text = schema[r.c], !.used = schema[r.c]]
  <2>1. Request(w, q) /\ r.pc = "read" /\ UNCHANGED <<schema, cache, judged>>
    BY <1>4 DEF ReadSchema
  <2>2. /\ q \in Requests /\ q.pc # "read" /\ q.since = r.since
        /\ q.text = schema[r.c] /\ q.used = schema[r.c]
    BY <1>1 DEF Requests
  <2>3. NeverJudgedByAnOlder'
    BY <1>3, <2>1 DEF NeverJudgedByAnOlder
  <2> HIDE DEF q
  <2> QED
    BY <1>1, <1>3, <2>1, <2>2, <2>3, WriterStep
<1>5. CASE Lookup(w)
  <2> DEFINE q == IF Hit(r.c, r.text)
                  THEN [r EXCEPT !.pc = "validated", !.used = cache[r.c]]
                  ELSE [r EXCEPT !.pc = "compiled", !.used = r.text]
  <2>1. Request(w, q) /\ r.pc = "lookup" /\ UNCHANGED <<schema, cache, judged>>
    BY <1>5 DEF Lookup
  <2>2. /\ q \in Requests /\ q.pc # "read" /\ q.since = r.since
        /\ q.text = r.text /\ q.used = r.text
    BY <1>1 DEF Requests, Hit
  <2>3. NeverJudgedByAnOlder'
    BY <1>3, <2>1 DEF NeverJudgedByAnOlder
  <2> HIDE DEF q
  <2> QED
    BY <1>1, <1>3, <2>1, <2>2, <2>3, WriterStep
<1>6. CASE CacheSchema(w)
  <2> DEFINE q == [r EXCEPT !.pc = "validated"]
  <2>1. Request(w, q) /\ r.pc = "compiled" /\ UNCHANGED <<schema, judged>>
    BY <1>6 DEF CacheSchema
  <2>2. q \in Requests /\ q.pc # "read" /\ q.since = r.since /\ q.text = r.text /\ q.used = r.used
    BY <1>1 DEF Requests
  <2>3. PICK kept \in IF CacheFull THEN { [cache EXCEPT ![c] = 0] : c \in Cached } ELSE { cache } :
          cache' = [kept EXCEPT ![r.c] = r.used]
    BY <1>6 DEF CacheSchema
  <2>4. kept \in [SchemaCollections -> Numbers]
    BY <1>3, NumbersFact
  <2>5. cache' \in [SchemaCollections -> Numbers]
    BY <1>1, <2>3, <2>4 DEF Requests
  <2>6. NeverJudgedByAnOlder'
    BY <1>3, <2>1 DEF NeverJudgedByAnOlder
  <2> HIDE DEF q
  <2> QED
    BY <1>1, <1>3, <2>1, <2>2, <2>5, <2>6, WriterStep
<1>7. CASE CommitWrite(w)
  <2>1. /\ Request(w, NoRequest) /\ r.pc = "validated" /\ UNCHANGED <<schema, cache>>
        /\ judged' = [used |-> r.used, since |-> r.since]
    BY <1>7 DEF CommitWrite
  <2>2. r.used \in Nat /\ r.since \in Nat /\ r.used \in Numbers /\ r.since \in Numbers
    BY <1>1, NumbersFact DEF Requests, Numbers
  <2>3. NeverJudgedByAnOlder' /\ judged' \in [used : Numbers, since : Numbers]
    BY <1>1, <2>1, <2>2 DEF NeverJudgedByAnOlder
  <2> QED
    BY <1>2, <1>3, <2>1, <2>3, WriterStep
<1>8. CASE Refuse(w)
  <2>1. Request(w, NoRequest) /\ UNCHANGED <<schema, cache, judged>>
    BY <1>8 DEF Refuse
  <2>2. NeverJudgedByAnOlder'
    BY <1>3, <2>1 DEF NeverJudgedByAnOlder
  <2> QED
    BY <1>2, <1>3, <2>1, <2>2, WriterStep
<1> QED
  BY <1>4, <1>5, <1>6, <1>7, <1>8

LEMMA SchemaStepInv == SchemaInv /\ [SchemaNext]_schemaVars => SchemaInv'
<1> SUFFICES ASSUME SchemaInv, [SchemaNext]_schemaVars PROVE SchemaInv'
  OBVIOUS
<1>1. CASE UNCHANGED schemaVars
  BY <1>1 DEF schemaVars, SchemaInv, SchemaTypes, NewestExists, RequestsLookForward,
              NeverJudgedByAnOlder
<1>2. ASSUME NEW c \in SchemaCollections, InvalidateCache(c)
      PROVE  SchemaInv'
  <2>1. /\ cache' = [cache EXCEPT ![c] = 0] /\ UNCHANGED <<schema, writer, judged>>
    BY <1>2 DEF InvalidateCache
  <2>2. cache' \in [SchemaCollections -> Numbers]
    BY <2>1, NumbersFact DEF SchemaInv, SchemaTypes
  <2> QED
    BY <2>1, <2>2 DEF SchemaInv, SchemaTypes, NewestExists, RequestsLookForward,
                      NeverJudgedByAnOlder
<1>3. CASE SchemaNext
  BY <1>2, <1>3, ChangeStep, BeginStep, RequestStep DEF SchemaNext
<1> QED
  BY <1>1, <1>3

\* Every committed write was judged by the schema in force when its request
\* came, or by a later one, whatever the cache holds.
THEOREM JudgedByNoOlderSchema == SchemaSpec => []NeverJudgedByAnOlder
<1>1. SchemaInv => NeverJudgedByAnOlder
  BY DEF SchemaInv
<1> QED
  BY <1>1, SchemaInitInv, SchemaStepInv, PTL DEF SchemaSpec

-----------------------------------------------------------------------------
(* The size of the cache.                                                  *)

CacheInv ==
  /\ SchemaInv
  /\ removals \subseteq Changes /\ stale \subseteq SchemaCollections
  /\ Cardinality(Cached) <= MaxCachedSchemas

LEMMA CachedFacts ==
  /\ IsFiniteSet(Cached) /\ Cardinality(Cached) \in Nat
  /\ IsFiniteSet(Cached') /\ Cardinality(Cached') \in Nat
<1>1. \A S \in SUBSET SchemaCollections : IsFiniteSet(S) /\ Cardinality(S) \in Nat
  BY SchemaAssumption, FS_Subset, FS_CardinalityType
<1>2. Cached \in SUBSET SchemaCollections /\ Cached' \in SUBSET SchemaCollections
  BY DEF Cached
<1> QED
  BY <1>1, <1>2

\* A schema takes the place of another when the cache is full.
LEMMA CacheStaysSmall ==
  ASSUME CacheInv, NEW w \in Writers, CacheSchema(w)
  PROVE  Cardinality(Cached') <= MaxCachedSchemas
<1>1. cache \in [SchemaCollections -> Numbers] /\ writer[w] \in Requests
  BY DEF CacheInv, SchemaInv, SchemaTypes
<1>2. PICK c \in SchemaCollections : c = writer[w].c
  BY <1>1 DEF Requests
<1>3. PICK kept \in IF CacheFull THEN { [cache EXCEPT ![d] = 0] : d \in Cached } ELSE { cache } :
        cache' = [kept EXCEPT ![c] = writer[w].used]
  BY <1>2 DEF CacheSchema
<1>4. Cardinality(Cached) <= MaxCachedSchemas /\ MaxCachedSchemas \in Nat \ {0}
  BY SchemaAssumption DEF CacheInv
<1>5. \A S : IsFiniteSet(S) => /\ IsFiniteSet(S \cup {c})
                               /\ Cardinality(S \cup {c}) <= Cardinality(S) + 1
                               /\ Cardinality(S) \in Nat /\ Cardinality(S \cup {c}) \in Nat
  <2> SUFFICES ASSUME NEW S, IsFiniteSet(S)
               PROVE  /\ IsFiniteSet(S \cup {c})
                      /\ Cardinality(S \cup {c}) <= Cardinality(S) + 1
                      /\ Cardinality(S) \in Nat /\ Cardinality(S \cup {c}) \in Nat
    OBVIOUS
  <2>1. /\ IsFiniteSet(S \cup {c}) /\ Cardinality(S) \in Nat
        /\ Cardinality(S \cup {c}) \in {Cardinality(S), Cardinality(S) + 1}
    BY FS_AddElement, FS_CardinalityType
  <2> QED
    BY <2>1
<1>6. ASSUME NEW S, IsFiniteSet(S), Cached' \subseteq S \cup {c}, Cardinality(S) < MaxCachedSchemas
      PROVE  Cardinality(Cached') <= MaxCachedSchemas
  <2>1. Cardinality(Cached') <= Cardinality(S \cup {c})
    BY <1>5, <1>6, FS_Subset
  <2>2. /\ Cardinality(S \cup {c}) <= Cardinality(S) + 1
        /\ Cardinality(S) \in Nat /\ Cardinality(S \cup {c}) \in Nat
    BY <1>5, <1>6
  <2> QED
    BY <1>4, <1>6, <2>1, <2>2, CachedFacts
<1>7. CASE CacheFull
  <2>1. PICK d \in Cached : kept = [cache EXCEPT ![d] = 0]
    BY <1>3, <1>7
  <2>2. Cached' \subseteq (Cached \ {d}) \cup {c}
    BY <1>1, <1>3, <2>1 DEF Cached
  <2>3. IsFiniteSet(Cached \ {d}) /\ Cardinality(Cached \ {d}) = Cardinality(Cached) - 1
    BY <2>1, CachedFacts, FS_RemoveElement
  <2>4. Cardinality(Cached \ {d}) < MaxCachedSchemas
    BY <1>4, <2>3, CachedFacts
  <2> QED
    BY <1>6, <2>2, <2>3, <2>4
<1>8. CASE ~CacheFull
  <2>1. Cached' \subseteq Cached \cup {c}
    BY <1>1, <1>3, <1>8 DEF Cached
  <2>2. Cardinality(Cached) < MaxCachedSchemas
    BY <1>4, <1>8, CachedFacts DEF CacheFull
  <2> QED
    BY <1>6, <2>1, <2>2, CachedFacts
<1> QED
  BY <1>7, <1>8

LEMMA CacheStep == CacheInv /\ [SchemaNext]_schemaVars => CacheInv'
<1> SUFFICES ASSUME CacheInv, [SchemaNext]_schemaVars PROVE CacheInv'
  OBVIOUS
<1>1. SchemaInv /\ SchemaInv'
  BY SchemaStepInv DEF CacheInv
<1>2. CASE UNCHANGED <<removals, stale, cache>>
  BY <1>1, <1>2 DEF CacheInv, Cached
<1>3. ASSUME NEW c \in SchemaCollections, NEW removes \in BOOLEAN, ChangeSchema(c, removes)
      PROVE  CacheInv'
  <2>1. LastChange \in Numbers /\ LastChange < MaxChanges
    BY <1>1, <1>3, LastChangeBounds DEF SchemaInv, ChangeSchema
  <2>2. LastChange + 1 \in Changes
    BY <2>1, NumbersFact DEF Numbers, Changes
  <2>3. Cached' = Cached
    BY <1>3 DEF ChangeSchema, Cached
  <2> QED
    BY <1>1, <1>3, <2>2, <2>3 DEF CacheInv, ChangeSchema
<1>4. ASSUME NEW c \in SchemaCollections, InvalidateCache(c) PROVE CacheInv'
  <2>1. Cached' \subseteq Cached
    BY <1>1, <1>4 DEF SchemaInv, SchemaTypes, InvalidateCache, Cached
  <2>2. Cardinality(Cached') <= Cardinality(Cached)
    BY <2>1, CachedFacts, FS_Subset
  <2>3. Cardinality(Cached') <= MaxCachedSchemas
    BY <2>2, CachedFacts, SchemaAssumption DEF CacheInv
  <2> QED
    BY <1>1, <1>4, <2>3 DEF CacheInv, InvalidateCache
<1>5. ASSUME NEW w \in Writers, CacheSchema(w) PROVE CacheInv'
  BY <1>1, <1>5, CacheStaysSmall DEF CacheInv, CacheSchema
<1> QED
  BY <1>2, <1>3, <1>4, <1>5
    DEF SchemaNext, schemaVars, BeginPut, BeginInside, ReadSchema, Lookup, CommitWrite, Refuse

\* The cache of compiled schemas never outgrows its limit, whoever compiles at
\* the same time; and the requests and the schemas keep their types.
THEOREM SchemaTypeCorrect == SchemaSpec => []SchemaTypeOK
<1>1. SchemaInit => CacheInv
  <2> SUFFICES ASSUME SchemaInit PROVE CacheInv
    OBVIOUS
  <2>1. Cached = {}
    BY DEF SchemaInit, Cached
  <2>2. Cardinality(Cached) <= MaxCachedSchemas
    BY <2>1, FS_EmptySet, SchemaAssumption
  <2> QED
    BY <2>2, SchemaInitInv DEF SchemaInit, CacheInv
<1>2. CacheInv => SchemaTypeOK
  BY DEF CacheInv, SchemaInv, SchemaTypes, SchemaTypeOK, Numbers, Requests
<1> QED
  BY <1>1, <1>2, CacheStep, PTL DEF SchemaSpec

-----------------------------------------------------------------------------
(* The parts of the server together, and next to the documents.            *)

LEMMA ServerStarts == ServerInit => Init /\ OperationsInit /\ RevocationInit /\ SchemaInit
BY DEF ServerInit

\* A step is a step of one part, and leaves the others alone.
LEMMA ServerSteps ==
  [ServerNext]_serverVars =>
    /\ [Next]_vars /\ [OperationsNext]_opsVars
    /\ [RevocationNext]_revocationVars /\ [SchemaNext]_schemaVars
<1>1. Handlers \/ HealthySweeper \/ Tick => Next
  BY DEF Next, Sweeper
<1> QED
  BY <1>1 DEF ServerNext, serverVars

\* Documents, operations, revocations and schemas each behave as specified
\* next to the others.
THEOREM ServerHasItsParts ==
  ServerSpec => Spec /\ OperationsSpec /\ RevocationSpec /\ SchemaSpec
BY ServerStarts, ServerSteps, PTL
  DEF ServerSpec, Spec, OperationsSpec, RevocationSpec, SchemaSpec

\* The file, the tracker of operations, the records of revocations, the saves
\* and the cache of schemas keep their types and their limits.
THEOREM ServerTypes == ServerSpec => []ServerTypeOK
<1>1. TypeOK /\ OperationsTypeOK /\ RevocationTypeOK /\ SchemaTypeOK => ServerTypeOK
  BY DEF ServerTypeOK
<1> QED
  BY <1>1, ServerHasItsParts, TypeCorrect, OperationsTypeCorrect, RevocationTypeCorrect,
     SchemaTypeCorrect, PTL

\* Hence the server with its tracker, its revocations and its schemas: a
\* record tells what became of its operation and a final one stays, a revoked
\* key stays out, and no write is judged by a schema older than its request.
THEOREM ServerIsRight ==
  ServerSpec => /\ []RecordTellsOutcome /\ FinalStaysFinal /\ []RevokedStaysOut
                /\ []NeverJudgedByAnOlder
BY ServerHasItsParts, RecordsTellOutcomes, FinalStatesStay, RevokedKeysStayOut,
   JudgedByNoOlderSchema, PTL
=============================================================================
