------------------------- MODULE EventStreamProofs -------------------------
(***************************************************************************)
(* Proofs about the subscriptions of a collection, for any number of       *)
(* handlers, connections and events, and any capacity and retention.       *)
(***************************************************************************)
EXTENDS EventStream, SequenceTheorems, OrderFacts

-----------------------------------------------------------------------------
(* Lists of events.                                                        *)

SeqsIn(s) == { s[k].seq : k \in 1 .. Len(s) }

Increasing(s) == \A k, l \in 1 .. Len(s) : k < l => s[k].seq < s[l].seq

LEMMA EventFacts ==
  ASSUME NEW e \in Event
  PROVE  e.seq \in 0 .. MaxEvents /\ e.seq \in Nat /\ e.by \in Publishers
BY StreamAssumption DEF Event

LEMMA SeqsFacts ==
  ASSUME NEW s \in Seq(Event)
  PROVE  SeqsIn(s) \subseteq Nat /\ (s = << >> => SeqsIn(s) = {})
<1>1. Len(s) \in Nat /\ (s = << >> => Len(s) = 0)
  OBVIOUS
<1>2. \A k \in 1 .. Len(s) : s[k].seq \in Nat
  BY ElementOfSeq, EventFacts
<1> QED
  BY <1>1, <1>2 DEF SeqsIn

LEMMA NoEvents == SeqsIn(<< >>) = {} /\ Increasing(<< >>)
<1>1. Len(<< >>) = 0
  OBVIOUS
<1> QED
  BY <1>1 DEF SeqsIn, Increasing

\* A piece of a list.
LEMMA PieceFacts ==
  ASSUME NEW s \in Seq(Event), NEW m \in 1 .. Len(s) + 1, NEW n \in m - 1 .. Len(s)
  PROVE  /\ SubSeq(s, m, n) \in Seq(Event)
         /\ Len(SubSeq(s, m, n)) = n - m + 1
         /\ \A j \in 1 .. n - m + 1 : SubSeq(s, m, n)[j] = s[m + j - 1]
         /\ Increasing(s) => Increasing(SubSeq(s, m, n))
<1>1. Len(s) \in Nat /\ m \in Int /\ n \in Int
  OBVIOUS
<1>2. \A j \in m .. n : s[j] \in Event
  BY <1>1, ElementOfSeq
<1>3. /\ SubSeq(s, m, n) \in Seq(Event)
      /\ Len(SubSeq(s, m, n)) = IF m <= n THEN n - m + 1 ELSE 0
      /\ \A j \in 1 .. n - m + 1 : SubSeq(s, m, n)[j] = s[m + j - 1]
  BY <1>1, <1>2, SubSeqProperties
<1>4. Len(SubSeq(s, m, n)) = n - m + 1
  BY <1>1, <1>3
<1>5. ASSUME Increasing(s) PROVE Increasing(SubSeq(s, m, n))
  <2> SUFFICES ASSUME NEW k \in 1 .. n - m + 1, NEW l \in 1 .. n - m + 1, k < l
               PROVE  SubSeq(s, m, n)[k].seq < SubSeq(s, m, n)[l].seq
    BY <1>4 DEF Increasing
  <2>1. m + k - 1 \in 1 .. Len(s) /\ m + l - 1 \in 1 .. Len(s) /\ m + k - 1 < m + l - 1
    BY <1>1
  <2> QED
    BY <2>1, <1>3, <1>5 DEF Increasing
<1> QED
  BY <1>3, <1>4, <1>5

\* What an event appended adds.
LEMMA AppendFacts ==
  ASSUME NEW s \in Seq(Event), NEW e \in Event
  PROVE  /\ Append(s, e) \in Seq(Event) /\ Len(Append(s, e)) = Len(s) + 1
         /\ SeqsIn(Append(s, e)) = SeqsIn(s) \cup {e.seq}
<1>1. /\ Append(s, e) \in Seq(Event) /\ Len(Append(s, e)) = Len(s) + 1
      /\ \A i \in 1 .. Len(s) : Append(s, e)[i] = s[i]
      /\ Append(s, e)[Len(s) + 1] = e /\ Len(s) \in Nat
  BY AppendProperties
<1>2. 1 .. Len(s) + 1 = 1 .. Len(s) \cup {Len(s) + 1}
  BY <1>1
<1>3. \A x : x \in SeqsIn(Append(s, e)) <=> x \in SeqsIn(s) \cup {e.seq}
  BY <1>1, <1>2 DEF SeqsIn
<1> QED
  BY <1>1, <1>3

\* What is first and what is left.
LEMMA TailFacts ==
  ASSUME NEW s \in Seq(Event), s # << >>
  PROVE  /\ Head(s) \in Event /\ Tail(s) \in Seq(Event)
         /\ Len(s) > 0 /\ Len(Tail(s)) = Len(s) - 1
         /\ \A i \in 1 .. Len(Tail(s)) : Tail(s)[i] = s[i + 1]
         /\ Head(s) = s[1]
         /\ SeqsIn(s) = SeqsIn(Tail(s)) \cup {Head(s).seq}
         /\ Increasing(s) =>
              Increasing(Tail(s)) /\ \A n \in SeqsIn(Tail(s)) : Head(s).seq < n
<1>1. /\ Head(s) \in Event /\ Tail(s) \in Seq(Event) /\ Len(Tail(s)) = Len(s) - 1
      /\ \A i \in 1 .. Len(Tail(s)) : Tail(s)[i] = s[i + 1]
  BY HeadTailProperties, Zenon
<1>2. Len(s) \in Nat /\ Len(s) > 0 /\ Head(s) = s[1]
  BY EmptySeq
<1>3. \A x : x \in SeqsIn(s) <=> x \in SeqsIn(Tail(s)) \cup {Head(s).seq}
  <2>1. ASSUME NEW k \in 1 .. Len(s)
        PROVE  s[k].seq \in SeqsIn(Tail(s)) \cup {Head(s).seq}
    <3>1. CASE k = 1
      BY <3>1, <1>2
    <3>2. CASE k # 1
      <4>1. k - 1 \in 1 .. Len(Tail(s)) /\ (k - 1) + 1 = k
        BY <3>2, <1>1, <1>2
      <4> QED
        BY <4>1, <1>1 DEF SeqsIn
    <3> QED
      BY <3>1, <3>2
  <2>2. ASSUME NEW k \in 1 .. Len(Tail(s)) PROVE Tail(s)[k].seq \in SeqsIn(s)
    <3>1. k + 1 \in 1 .. Len(s)
      BY <1>1, <1>2
    <3> QED
      BY <3>1, <1>1 DEF SeqsIn
  <2>3. Head(s).seq \in SeqsIn(s)
    <3>1. 1 \in 1 .. Len(s)
      BY <1>2
    <3> QED
      BY <3>1, <1>2 DEF SeqsIn
  <2> QED
    BY <2>1, <2>2, <2>3 DEF SeqsIn
<1>4. ASSUME Increasing(s)
      PROVE  Increasing(Tail(s)) /\ \A n \in SeqsIn(Tail(s)) : Head(s).seq < n
  <2>1. \A k \in 1 .. Len(Tail(s)) : k + 1 \in 1 .. Len(s) /\ 1 < k + 1
    BY <1>1, <1>2
  <2>2. \A k \in 1 .. Len(Tail(s)) : Head(s).seq < Tail(s)[k].seq
    BY <2>1, <1>1, <1>2, <1>4 DEF Increasing
  <2>3. ASSUME NEW k \in 1 .. Len(Tail(s)), NEW l \in 1 .. Len(Tail(s)), k < l
        PROVE  Tail(s)[k].seq < Tail(s)[l].seq
    <3>1. k + 1 < l + 1
      BY <2>3, <1>1, <1>2
    <3> QED
      BY <2>1, <3>1, <1>1, <1>4 DEF Increasing
  <2> QED
    BY <2>2, <2>3 DEF SeqsIn, Increasing
<1> QED
  BY <1>1, <1>2, <1>3, <1>4

-----------------------------------------------------------------------------
(* The log.                                                                *)

\* The events of one transaction.
LEMMA CommittedFacts ==
  ASSUME NEW p \in Publishers, NEW n \in Nat, lastSeq \in Nat, lastSeq + n <= MaxEvents
  PROVE  /\ Committed(p, n) \in Seq(Event) /\ Len(Committed(p, n)) = n
         /\ \A k \in 1 .. n : Committed(p, n)[k] = [seq |-> lastSeq + k, by |-> p]
         /\ Increasing(Committed(p, n))
         /\ SeqsIn(Committed(p, n)) = lastSeq + 1 .. lastSeq + n
<1>1. \A k \in 1 .. n : [seq |-> lastSeq + k, by |-> p] \in Event
  BY StreamAssumption DEF Event
<1>2. Committed(p, n) \in [1 .. n -> Event]
  BY <1>1 DEF Committed
<1>3. Committed(p, n) \in Seq(Event) /\ Len(Committed(p, n)) = n
  BY <1>2
<1>4. \A k \in 1 .. n : /\ Committed(p, n)[k] = [seq |-> lastSeq + k, by |-> p]
                        /\ Committed(p, n)[k].seq = lastSeq + k
  BY DEF Committed
<1>5. Increasing(Committed(p, n))
  BY <1>3, <1>4 DEF Increasing
<1>6. \A k \in 1 .. n : lastSeq + k \in lastSeq + 1 .. lastSeq + n
  OBVIOUS
<1>7. \A x \in lastSeq + 1 .. lastSeq + n : x - lastSeq \in 1 .. n /\ lastSeq + (x - lastSeq) = x
  OBVIOUS
<1>8. SeqsIn(Committed(p, n)) = { Committed(p, n)[k].seq : k \in 1 .. n }
  BY <1>3 DEF SeqsIn
<1>9. SeqsIn(Committed(p, n)) = lastSeq + 1 .. lastSeq + n
  <2>1. \A x \in SeqsIn(Committed(p, n)) : x \in lastSeq + 1 .. lastSeq + n
    BY <1>4, <1>6, <1>8
  <2>2. ASSUME NEW x \in lastSeq + 1 .. lastSeq + n PROVE x \in SeqsIn(Committed(p, n))
    <3>1. x - lastSeq \in 1 .. n /\ Committed(p, n)[x - lastSeq].seq = x
      BY <1>7, <1>4
    <3> QED
      BY <3>1, <1>8
  <2> QED
    BY <2>1, <2>2
<1> QED
  BY <1>3, <1>4, <1>5, <1>9

\* The trimmed log is a piece of the log with the new events.
LEMMA RecordedFacts ==
  ASSUME log \in Seq(Event), NEW events \in Seq(Event)
  PROVE  /\ Recorded(events) \in Seq(Event)
         /\ \A k \in 1 .. Len(Recorded(events)) :
              \/ \E j \in 1 .. Len(log) : Recorded(events)[k] = log[j]
              \/ \E j \in 1 .. Len(events) : Recorded(events)[k] = events[j]
         /\ /\ Increasing(log) /\ Increasing(events)
            /\ \A j \in 1 .. Len(log), k \in 1 .. Len(events) : log[j].seq < events[k].seq
            => Increasing(Recorded(events))
         /\ Len(Recorded(events)) <= Len(log) + Len(events)
         /\ Len(log) > MaxRetained => Len(Recorded(events)) <= Len(log)
<1> DEFINE grown == log \o events
           excess == Larger(0, Len(log) - MaxRetained)
           drop == Smaller(Len(events) * excess, Len(grown))
<1>1. /\ grown \in Seq(Event) /\ Len(grown) = Len(log) + Len(events)
      /\ \A i \in 1 .. Len(grown) :
           grown[i] = IF i <= Len(log) THEN log[i] ELSE events[i - Len(log)]
      /\ Len(log) \in Nat /\ Len(events) \in Nat
  BY ConcatProperties
<1>2. \A i \in 1 .. Len(grown) :
        \/ i \in 1 .. Len(log) /\ grown[i] = log[i]
        \/ /\ i > Len(log) /\ i - Len(log) \in 1 .. Len(events)
           /\ grown[i] = events[i - Len(log)]
  BY <1>1
<1>3. drop \in 0 .. Len(grown)
  <2>1. excess \in Nat
    BY <1>1, StreamAssumption DEF Larger
  <2>2. \A a, b \in Nat : a * b \in Nat
    OBVIOUS
  <2>3. Len(events) * excess \in Nat
    BY <2>1, <2>2, <1>1
  <2> QED
    BY <2>3, <1>1 DEF Smaller
<1>4. Recorded(events) = SubSeq(grown, drop + 1, Len(grown))
  BY DEF Recorded, Drop
<1>9. Len(log) > MaxRetained => drop >= Len(events)
  <2>1. \A a \in Nat, b \in Nat \ {0} : a * b >= a
    OBVIOUS
  <2>2. Len(log) > MaxRetained => excess \in Nat \ {0}
    BY <1>1, StreamAssumption DEF Larger
  <2>3. Len(log) > MaxRetained => Len(events) * excess >= Len(events)
    BY <2>1, <2>2, <1>1
  <2>4. Len(grown) >= Len(events)
    BY <1>1
  <2> HIDE DEF grown, excess
  <2> QED
    BY <2>3, <2>4 DEF Smaller
<1> HIDE DEF grown, excess, drop
<1>5. /\ drop + 1 \in 1 .. Len(grown) + 1
      /\ Len(grown) \in (drop + 1) - 1 .. Len(grown)
      /\ Len(grown) - (drop + 1) + 1 = Len(grown) - drop
  BY <1>1, <1>3
<1>6. /\ Recorded(events) \in Seq(Event)
      /\ Len(Recorded(events)) = Len(grown) - drop
      /\ \A j \in 1 .. Len(grown) - drop : Recorded(events)[j] = grown[drop + 1 + j - 1]
      /\ Increasing(grown) => Increasing(Recorded(events))
  <2>1. /\ SubSeq(grown, drop + 1, Len(grown)) \in Seq(Event)
        /\ Len(SubSeq(grown, drop + 1, Len(grown))) = Len(grown) - (drop + 1) + 1
        /\ \A j \in 1 .. Len(grown) - (drop + 1) + 1 :
             SubSeq(grown, drop + 1, Len(grown))[j] = grown[drop + 1 + j - 1]
        /\ Increasing(grown) => Increasing(SubSeq(grown, drop + 1, Len(grown)))
    BY <1>1, <1>5, PieceFacts
  <2> QED
    BY <2>1, <1>4, <1>5
<1>7. ASSUME NEW k \in 1 .. Len(Recorded(events))
      PROVE  \/ \E j \in 1 .. Len(log) : Recorded(events)[k] = log[j]
             \/ \E j \in 1 .. Len(events) : Recorded(events)[k] = events[j]
  <2>1. drop + 1 + k - 1 \in 1 .. Len(grown)
    BY <1>1, <1>3, <1>6
  <2>2. Recorded(events)[k] = grown[drop + 1 + k - 1]
    BY <1>6
  <2> QED
    BY <2>1, <2>2, <1>2
<1>8. ASSUME /\ Increasing(log) /\ Increasing(events)
             /\ \A j \in 1 .. Len(log), k \in 1 .. Len(events) : log[j].seq < events[k].seq
      PROVE  Increasing(grown)
  <2> SUFFICES ASSUME NEW k \in 1 .. Len(grown), NEW l \in 1 .. Len(grown), k < l
               PROVE  grown[k].seq < grown[l].seq
    BY DEF Increasing
  <2>1. k - Len(log) < l - Len(log)
    BY <1>1
  <2>2. CASE l \in 1 .. Len(log)
    <3>1. k \in 1 .. Len(log)
      BY <2>2, <1>1
    <3>2. log[k].seq < log[l].seq
      BY <3>1, <2>2, <1>8 DEF Increasing
    <3> QED
      BY <3>1, <3>2, <2>2, <1>1
  <2>3. CASE l \notin 1 .. Len(log)
    <3>1. l - Len(log) \in 1 .. Len(events) /\ grown[l] = events[l - Len(log)]
      BY <2>3, <1>2
    <3>2. CASE k \in 1 .. Len(log)
      BY <3>1, <3>2, <1>1, <1>8
    <3>3. CASE k \notin 1 .. Len(log)
      <4>1. k - Len(log) \in 1 .. Len(events) /\ grown[k] = events[k - Len(log)]
        BY <3>3, <1>2
      <4> QED
        BY <4>1, <3>1, <2>1, <1>8 DEF Increasing
    <3> QED
      BY <3>2, <3>3
  <2> QED
    BY <2>2, <2>3
<1>10. /\ Len(Recorded(events)) <= Len(log) + Len(events)
       /\ Len(log) > MaxRetained => Len(Recorded(events)) <= Len(log)
  BY <1>1, <1>3, <1>6, <1>9
<1> QED
  BY <1>6, <1>7, <1>8, <1>10

\* The replay is a piece of the log from the first event after the given one.
LEMMA AfterFacts ==
  ASSUME log \in Seq(Event), NEW n \in Nat
  PROVE  /\ After(n) \in Seq(Event)
         /\ Increasing(log) => Increasing(After(n)) /\ \A x \in SeqsIn(After(n)) : x > n
         /\ SeqsIn(After(n)) \subseteq SeqsIn(log)
<1> DEFINE later == { k \in 1 .. Len(log) : log[k].seq > n }
           first == Min(later)
           upTo == Smaller(first + ReplayLimit - 1, Len(log))
<1>1. CASE later = {}
  <2>1. After(n) = << >>
    BY <1>1 DEF After
  <2>2. << >> \in Seq(Event) /\ Increasing(<< >>) /\ SeqsIn(<< >>) = {}
    <3>1. << >> \in Seq(Event)
      OBVIOUS
    <3> QED
      BY <3>1, NoEvents
  <2> QED
    BY <2>1, <2>2
<1>2. CASE later # {}
  <2>1. After(n) = SubSeq(log, first, upTo)
    BY <1>2 DEF After
  <2>2. first \in 1 .. Len(log) /\ log[first].seq > n
    <3>1. later \in SUBSET Nat
      OBVIOUS
    <3>2. first \in later
      BY <1>2, <3>1, MinIsLeast, Zenon
    <3> QED
      BY <3>2
  <2>3. first \in 1 .. Len(log) + 1 /\ upTo \in first - 1 .. Len(log) /\ upTo \in Int
    BY <2>2, StreamAssumption DEF Smaller
  <2> HIDE DEF first, later, upTo
  <2>4. /\ After(n) \in Seq(Event) /\ Len(After(n)) = upTo - first + 1
        /\ \A j \in 1 .. upTo - first + 1 : After(n)[j] = log[first + j - 1]
        /\ Increasing(log) => Increasing(After(n))
    BY <2>1, <2>3, PieceFacts
  <2>5. ASSUME NEW j \in 1 .. Len(After(n))
        PROVE  /\ After(n)[j].seq \in SeqsIn(log)
               /\ Increasing(log) => After(n)[j].seq > n
    <3>1. first + j - 1 \in 1 .. Len(log) /\ (j = 1 \/ first < first + j - 1)
      BY <2>2, <2>3, <2>4
    <3>2. After(n)[j] = log[first + j - 1]
      BY <2>4
    <3>3. /\ log[first].seq \in Nat /\ log[first + j - 1].seq \in Nat
      BY <2>2, <3>1, ElementOfSeq, EventFacts
    <3>4. j = 1 => first + j - 1 = first
      BY <2>2
    <3>5. ASSUME Increasing(log) PROVE log[first].seq <= log[first + j - 1].seq
      BY <3>1, <3>3, <3>4, <3>5, <2>2 DEF Increasing
    <3> QED
      BY <3>1, <3>2, <3>3, <3>5, <2>2, SMTT(30) DEF SeqsIn
  <2> QED
    BY <2>4, <2>5 DEF SeqsIn
<1> QED
  BY <1>1, <1>2

-----------------------------------------------------------------------------
(* What the variables range over.                                          *)

Publications == [todo : Seq(Event), slow : SUBSET Conns, closing : SUBSET Conns]

Connections ==
  [ st : {"new", "opened", "replaying", "live", "ended"},
    registered : BOOLEAN, closed : BOOLEAN,
    ch : Seq(Event), replay : Seq(Event), lastSent : 0 .. MaxEvents ]

LEMMA TypeFacts ==
  /\ EventsTypeOK <=>
       /\ log \in Seq(Event) /\ lastSeq \in 0 .. MaxEvents
       /\ lock \in Handlers \cup {Nobody}
       /\ pub \in [Publishers -> Publications] /\ conn \in [Conns -> Connections]
       /\ \A c \in Conns : Len(conn[c].ch) <= Capacity
       /\ client \in [cur : Conns \cup {Nobody}, got : Seq(1 .. MaxEvents)]
  /\ Capacity \in Nat \ {0} /\ MaxEvents \in Nat
  /\ Conns \subseteq Nat /\ Nobody \notin Conns
  /\ Handlers \subseteq Publishers /\ Purger \in Publishers
  /\ Nobody \notin Handlers /\ Purger \notin Handlers
BY StreamAssumption DEF EventsTypeOK, Publications, Connections, Conns, Publishers

LEMMA QuietFacts ==
  /\ Quiet \in Publications
  /\ Quiet.todo = << >> /\ Quiet.slow = {} /\ Quiet.closing = {}
BY DEF Quiet, Publications

LEMMA NewConnFacts ==
  /\ NewConn \in Connections /\ NewConn.st = "new"
  /\ NewConn.registered = FALSE /\ NewConn.closed = FALSE
  /\ NewConn.ch = << >> /\ NewConn.replay = << >> /\ NewConn.lastSent = 0
BY StreamAssumption DEF NewConn, Connections

LEMMA EndedFacts ==
  ASSUME NEW old \in Connections
  PROVE  /\ Ended(old) \in Connections
         /\ Ended(old).st = "ended" /\ Ended(old).registered = FALSE
         /\ Ended(old).closed = old.closed
         /\ Ended(old).ch = << >> /\ Ended(old).replay = << >>
BY NewConnFacts DEF Ended, NewConn, Connections

-----------------------------------------------------------------------------
(* The record that each step writes.                                       *)

LEMMA MutateWrites ==
  ASSUME EventsTypeOK, NEW h \in Handlers, NEW n \in 1 .. MaxBatch, Mutate(h, n)
  PROVE  \E q \in Publications :
           /\ pub' = [pub EXCEPT ![h] = q]
           /\ q.todo = Committed(h, n) /\ q.slow = {} /\ q.closing = {}
<1>1. n \in Nat /\ lastSeq \in Nat /\ lastSeq + n <= MaxEvents /\ h \in Publishers
  BY TypeFacts, StreamAssumption DEF Mutate
<1>2. PICK events \in Seq(Event) : events = Committed(h, n)
  BY <1>1, CommittedFacts
<1>3. PICK q : q = [Quiet EXCEPT !.todo = events]
  OBVIOUS
<1>4. q \in Publications /\ q.todo = events /\ q.slow = {} /\ q.closing = {}
  BY <1>3 DEF Quiet, Publications
<1>5. pub[h] = Quiet /\ pub' = [pub EXCEPT ![h].todo = events]
  BY <1>2 DEF Mutate
<1>6. pub' = [pub EXCEPT ![h] = q]
  BY <1>3, <1>5
<1> QED
  BY <1>2, <1>4, <1>6

LEMMA PurgeWrites ==
  ASSUME EventsTypeOK, NEW n \in 1 .. MaxBatch, Purge(n)
  PROVE  \E q \in Publications :
           /\ pub' = [pub EXCEPT ![Purger] = q]
           /\ q.todo = Committed(Purger, n) /\ q.slow = {} /\ q.closing = {}
<1>1. n \in Nat /\ lastSeq \in Nat /\ lastSeq + n <= MaxEvents /\ Purger \in Publishers
  BY TypeFacts, StreamAssumption DEF Purge
<1>2. PICK events \in Seq(Event) : events = Committed(Purger, n)
  BY <1>1, CommittedFacts
<1>3. PICK q : q = [Quiet EXCEPT !.todo = events]
  OBVIOUS
<1>4. q \in Publications /\ q.todo = events /\ q.slow = {} /\ q.closing = {}
  BY <1>3 DEF Quiet, Publications
<1>5. pub[Purger] = Quiet /\ pub' = [pub EXCEPT ![Purger].todo = events]
  BY <1>2 DEF Purge
<1>6. pub' = [pub EXCEPT ![Purger] = q]
  BY <1>3, <1>5
<1> QED
  BY <1>2, <1>4, <1>6

LEMMA PublishWithoutRecordWrites ==
  ASSUME EventsTypeOK, NEW h \in Handlers, PublishWithoutRecord(h)
  PROVE  \E q \in Publications :
           /\ pub' = [pub EXCEPT ![h] = q]
           /\ SeqsIn(q.todo) = {0} /\ q.slow = {} /\ q.closing = {}
<1>0. h \in Publishers /\ 0 \in 0 .. MaxEvents
  BY TypeFacts
<1>1. PICK e \in Event : e = [seq |-> 0, by |-> h]
  BY <1>0 DEF Event
<1>2. e.seq = 0
  BY <1>1
<1>3. << e >> \in Seq(Event) /\ Len(<< e >>) = 1 /\ << e >>[1] = e
  OBVIOUS
<1>4. \A x : x \in SeqsIn(<< e >>) <=> x = 0
  BY <1>2, <1>3 DEF SeqsIn
<1>5. PICK q : q = [Quiet EXCEPT !.todo = << e >>]
  OBVIOUS
<1>6. q \in Publications /\ q.todo = << e >> /\ q.slow = {} /\ q.closing = {}
  BY <1>3, <1>5 DEF Quiet, Publications
<1>7. pub[h] = Quiet /\ pub' = [pub EXCEPT ![h].todo = << e >>]
  BY <1>1 DEF PublishWithoutRecord
<1>8. pub' = [pub EXCEPT ![h] = q]
  BY <1>5, <1>7
<1> QED
  BY <1>4, <1>6, <1>8

LEMMA PublishEventWrites ==
  ASSUME EventsTypeOK, NEW p \in Publishers, PublishEvent(p)
  PROVE  /\ \E q \in Publications :
              /\ pub' = [pub EXCEPT ![p] = q]
              /\ q.todo = Tail(pub[p].todo) /\ q.slow = Full /\ q.closing = {}
         /\ pub[p].todo \in Seq(Event) /\ pub[p].todo # << >>
         /\ pub[p].slow = {} /\ pub[p].closing = {}
         /\ Full \subseteq Conns
         /\ conn' \in [Conns -> Connections]
         /\ \A c \in Conns :
              /\ c \notin Registered \ Full => conn'[c] = conn[c]
              /\ c \in Registered \ Full =>
                   /\ conn[c].registered = TRUE
                   /\ conn'[c].st = conn[c].st /\ conn'[c].registered = TRUE
                   /\ conn'[c].closed = conn[c].closed
                   /\ conn'[c].ch = Append(conn[c].ch, Head(pub[p].todo))
                   /\ conn'[c].replay = conn[c].replay
                   /\ conn'[c].lastSent = conn[c].lastSent
<1>1. /\ pub[p] \in Publications /\ pub[p].todo \in Seq(Event) /\ pub[p].todo # << >>
      /\ pub[p].slow = {} /\ pub[p].closing = {}
      /\ Full \subseteq Conns
  BY TypeFacts DEF PublishEvent, Publications, Full, Registered
<1>2. PICK e \in Event : e = Head(pub[p].todo)
  BY <1>1, TailFacts
<1>3. PICK rest \in Seq(Event) : rest = Tail(pub[p].todo)
  BY <1>1, TailFacts
<1>4. PICK old \in Publications : old = pub[p]
  BY <1>1
<1>5. PICK q : q = [old EXCEPT !.todo = rest, !.slow = Full]
  OBVIOUS
<1>6. q \in Publications /\ q.todo = rest /\ q.slow = Full /\ q.closing = {}
  BY <1>1, <1>3, <1>4, <1>5 DEF Publications
<1>7. pub' = [pub EXCEPT ![p] = q]
  BY <1>3, <1>4, <1>5 DEF PublishEvent
<1>8. ASSUME NEW c \in Conns
      PROVE  /\ conn'[c] \in Connections
             /\ c \notin Registered \ Full => conn'[c] = conn[c]
             /\ c \in Registered \ Full =>
                  /\ conn[c].registered = TRUE
                  /\ conn'[c].st = conn[c].st /\ conn'[c].registered = TRUE
                  /\ conn'[c].closed = conn[c].closed
                  /\ conn'[c].ch = Append(conn[c].ch, e)
                  /\ conn'[c].replay = conn[c].replay
                  /\ conn'[c].lastSent = conn[c].lastSent
  <2>1. PICK r \in Connections : r = conn[c]
    BY TypeFacts
  <2>2. CASE c \notin Registered \ Full
    BY <2>1, <2>2 DEF PublishEvent
  <2>3. CASE c \in Registered \ Full
    <3>1. conn'[c] = [r EXCEPT !.ch = Append(r.ch, e)]
      BY <2>1, <2>3, <1>2 DEF PublishEvent
    <3>2. r.registered = TRUE /\ r.ch \in Seq(Event)
      BY <2>1, <2>3 DEF Registered, Connections
    <3>3. PICK more \in Seq(Event) : more = Append(r.ch, e)
      BY <3>2, AppendFacts
    <3>4. PICK s : s = [r EXCEPT !.ch = more]
      OBVIOUS
    <3>5. /\ s \in Connections /\ s.st = r.st /\ s.registered = TRUE /\ s.closed = r.closed
          /\ s.ch = more /\ s.replay = r.replay /\ s.lastSent = r.lastSent
      BY <3>2, <3>4 DEF Connections
    <3> QED
      BY <2>1, <2>3, <3>1, <3>2, <3>3, <3>4, <3>5
  <2> QED
    BY <2>2, <2>3
<1>9. conn' \in [Conns -> Connections]
  BY <1>8 DEF PublishEvent
<1> QED
  BY <1>1, <1>2, <1>3, <1>6, <1>7, <1>8, <1>9

LEMMA DropSlowWrites ==
  ASSUME EventsTypeOK, NEW p \in Publishers, NEW c \in Conns, DropSlow(p, c)
  PROVE  /\ \E q \in Publications :
              /\ pub' = [pub EXCEPT ![p] = q]
              /\ q.todo = pub[p].todo /\ q.slow = pub[p].slow \ {c} /\ q.closing = {c}
         /\ \E r \in Connections :
              /\ conn' = [conn EXCEPT ![c] = r]
              /\ r.st = conn[c].st /\ r.registered = FALSE /\ r.closed = conn[c].closed
              /\ r.ch = conn[c].ch /\ r.replay = conn[c].replay
              /\ r.lastSent = conn[c].lastSent
<1>1. PICK old \in Publications : old = pub[p]
  BY TypeFacts
<1>2. PICK was \in Connections : was = conn[c]
  BY TypeFacts
<1>3. PICK q : q = [old EXCEPT !.slow = old.slow \ {c}, !.closing = {c}]
  OBVIOUS
<1>4. q \in Publications /\ q.todo = old.todo /\ q.slow = old.slow \ {c} /\ q.closing = {c}
  BY <1>3 DEF Publications
<1>5. pub' = [pub EXCEPT ![p] = q]
  BY <1>1, <1>3 DEF DropSlow
<1>6. PICK r : r = [was EXCEPT !.registered = FALSE]
  OBVIOUS
<1>7. /\ r \in Connections /\ r.st = was.st /\ r.registered = FALSE /\ r.closed = was.closed
      /\ r.ch = was.ch /\ r.replay = was.replay /\ r.lastSent = was.lastSent
  BY <1>6 DEF Connections
<1>8. conn' = [conn EXCEPT ![c] = r]
  BY <1>2, <1>6 DEF DropSlow
<1> QED
  BY <1>1, <1>2, <1>4, <1>5, <1>7, <1>8

LEMMA CloseSlowWrites ==
  ASSUME EventsTypeOK, NEW p \in Publishers, NEW c \in Conns, CloseSlow(p, c)
  PROVE  /\ \E q \in Publications :
              /\ pub' = [pub EXCEPT ![p] = q]
              /\ q.todo = pub[p].todo /\ q.slow = pub[p].slow /\ q.closing = {}
         /\ \E r \in Connections :
              /\ conn' = [conn EXCEPT ![c] = r]
              /\ r.st = conn[c].st /\ r.registered = conn[c].registered /\ r.closed = TRUE
              /\ r.ch = conn[c].ch /\ r.replay = conn[c].replay
              /\ r.lastSent = conn[c].lastSent
<1>1. PICK old \in Publications : old = pub[p]
  BY TypeFacts
<1>2. PICK was \in Connections : was = conn[c]
  BY TypeFacts
<1>3. PICK q : q = [old EXCEPT !.closing = {}]
  OBVIOUS
<1>4. q \in Publications /\ q.todo = old.todo /\ q.slow = old.slow /\ q.closing = {}
  BY <1>3 DEF Publications
<1>5. pub' = [pub EXCEPT ![p] = q]
  BY <1>1, <1>3 DEF CloseSlow
<1>6. PICK r : r = [was EXCEPT !.closed = TRUE]
  OBVIOUS
<1>7. /\ r \in Connections /\ r.st = was.st /\ r.registered = was.registered
      /\ r.closed = TRUE
      /\ r.ch = was.ch /\ r.replay = was.replay /\ r.lastSent = was.lastSent
  BY <1>6 DEF Connections
<1>8. conn' = [conn EXCEPT ![c] = r]
  BY <1>2, <1>6 DEF CloseSlow
<1> QED
  BY <1>1, <1>2, <1>4, <1>5, <1>7, <1>8

\* The last number that the client received.
LastGot == IF client.got = << >> THEN 0 ELSE Last(client.got)

LEMMA ConnectWrites ==
  ASSUME EventsTypeOK, NEW c \in Conns, Connect(c)
  PROVE  /\ \E r \in Connections :
              /\ conn' = [conn EXCEPT ![c] = r]
              /\ r.st = "opened" /\ r.registered = TRUE /\ r.closed = conn[c].closed
              /\ r.ch = conn[c].ch /\ r.replay = conn[c].replay
              /\ r.lastSent = LastGot
         /\ client'.cur = c /\ client'.got = client.got
         /\ client' \in [cur : Conns \cup {Nobody}, got : Seq(1 .. MaxEvents)]
<1>1. PICK was \in Connections : was = conn[c]
  BY TypeFacts
<1>2. PICK n \in 0 .. MaxEvents : n = LastGot
  BY TypeFacts DEF Last, LastGot
<1>3. PICK r : r = [was EXCEPT !.st = "opened", !.registered = TRUE, !.lastSent = n]
  OBVIOUS
<1>4. /\ r \in Connections /\ r.st = "opened" /\ r.registered = TRUE
      /\ r.closed = was.closed /\ r.ch = was.ch /\ r.replay = was.replay
      /\ r.lastSent = n
  BY <1>3 DEF Connections
<1>5. conn' = [conn EXCEPT ![c] = r]
  BY <1>1, <1>2, <1>3 DEF Connect, LastGot
<1>6. PICK cl \in [cur : Conns \cup {Nobody}, got : Seq(1 .. MaxEvents)] : cl = client
  BY TypeFacts
<1>7. client' = [cl EXCEPT !.cur = c]
  BY <1>6 DEF Connect
<1>8. /\ client'.cur = c /\ client'.got = cl.got
      /\ client' \in [cur : Conns \cup {Nobody}, got : Seq(1 .. MaxEvents)]
  BY <1>7
<1> QED
  BY <1>1, <1>2, <1>4, <1>5, <1>6, <1>8

LEMMA ReadReplayWrites ==
  ASSUME EventsTypeOK, NEW c \in Conns, ReadReplay(c)
  PROVE  \E r \in Connections :
           /\ conn' = [conn EXCEPT ![c] = r]
           /\ r.st = "replaying" /\ r.registered = conn[c].registered
           /\ r.closed = conn[c].closed /\ r.ch = conn[c].ch
           /\ conn[c].lastSent = 0 => r.replay = << >>
           /\ conn[c].lastSent # 0 => r.replay = After(conn[c].lastSent)
           /\ r.lastSent = conn[c].lastSent
<1>1. PICK was \in Connections : was = conn[c]
  BY TypeFacts
<1>2. was.lastSent \in Nat /\ log \in Seq(Event)
  BY TypeFacts DEF Connections
<1>3. PICK replay \in Seq(Event) :
        /\ replay = IF was.lastSent = 0 THEN << >> ELSE After(was.lastSent)
  <2>1. After(was.lastSent) \in Seq(Event)
    BY <1>2, AfterFacts
  <2>2. << >> \in Seq(Event)
    OBVIOUS
  <2> QED
    BY <2>1, <2>2
<1>4. PICK r : r = [was EXCEPT !.st = "replaying", !.replay = replay]
  OBVIOUS
<1>5. /\ r \in Connections /\ r.st = "replaying" /\ r.registered = was.registered
      /\ r.closed = was.closed /\ r.ch = was.ch /\ r.replay = replay
      /\ r.lastSent = was.lastSent
  BY <1>4 DEF Connections
<1>6. conn' = [conn EXCEPT ![c] = r]
  BY <1>1, <1>3, <1>4 DEF ReadReplay
<1> QED
  BY <1>1, <1>3, <1>5, <1>6

\* What the client makes of an event sent on connection c.
LEMMA ReceiveWrites ==
  ASSUME EventsTypeOK, NEW c \in Conns, NEW e \in Event, Receive(c, e)
  PROVE  /\ client'.cur = client.cur
         /\ client' \in [cur : Conns \cup {Nobody}, got : Seq(1 .. MaxEvents)]
         /\ client.cur = c /\ e.seq > 0 => client'.got = Append(client.got, e.seq)
         /\ ~ (client.cur = c /\ e.seq > 0) => client'.got = client.got
<1>1. PICK cl \in [cur : Conns \cup {Nobody}, got : Seq(1 .. MaxEvents)] : cl = client
  BY TypeFacts
<1>2. e.seq > 0 => e.seq \in 1 .. MaxEvents
  BY EventFacts, TypeFacts
<1>3. CASE client.cur = c /\ e.seq > 0
  <2>0. cl.got \in Seq(1 .. MaxEvents) /\ e.seq \in 1 .. MaxEvents
    BY <1>2, <1>3
  <2>1. PICK more \in Seq(1 .. MaxEvents) : more = Append(cl.got, e.seq)
    BY <2>0, AppendProperties
  <2>2. client' = [cl EXCEPT !.got = more]
    BY <1>1, <1>3, <2>1 DEF Receive
  <2>3. /\ client'.cur = cl.cur /\ client'.got = more
        /\ client' \in [cur : Conns \cup {Nobody}, got : Seq(1 .. MaxEvents)]
    BY <2>2
  <2> QED
    BY <1>1, <1>3, <2>1, <2>3
<1>4. CASE ~ (client.cur = c /\ e.seq > 0)
  <2>1. client' = client
    BY <1>4 DEF Receive
  <2> QED
    BY <1>1, <1>4, <2>1
<1> QED
  BY <1>3, <1>4

LEMMA SendReplayWrites ==
  ASSUME EventsTypeOK, NEW c \in Conns, SendReplay(c)
  PROVE  /\ conn[c].replay \in Seq(Event) /\ conn[c].replay # << >>
         /\ Head(conn[c].replay) \in Event /\ Receive(c, Head(conn[c].replay))
         /\ \E r \in Connections :
              /\ conn' = [conn EXCEPT ![c] = r]
              /\ r.st = conn[c].st /\ r.registered = conn[c].registered
              /\ r.closed = conn[c].closed /\ r.ch = conn[c].ch
              /\ r.replay = Tail(conn[c].replay)
              /\ r.lastSent = Larger(Head(conn[c].replay).seq, conn[c].lastSent)
<1>1. PICK was \in Connections : was = conn[c]
  BY TypeFacts
<1>2. was.replay \in Seq(Event) /\ was.replay # << >> /\ was.lastSent \in 0 .. MaxEvents
  BY <1>1 DEF Connections, SendReplay
<1>3. PICK e \in Event : e = Head(was.replay)
  BY <1>2, TailFacts
<1>4. PICK rest \in Seq(Event) : rest = Tail(was.replay)
  BY <1>2, TailFacts
<1>5. PICK n \in 0 .. MaxEvents : n = Larger(e.seq, was.lastSent)
  BY <1>2, EventFacts, TypeFacts DEF Larger
<1>6. PICK r : r = [was EXCEPT !.replay = rest, !.lastSent = n]
  OBVIOUS
<1>7. /\ r \in Connections /\ r.st = was.st /\ r.registered = was.registered
      /\ r.closed = was.closed /\ r.ch = was.ch /\ r.replay = rest /\ r.lastSent = n
  BY <1>6 DEF Connections
<1>8. conn' = [conn EXCEPT ![c] = r]
  BY <1>1, <1>3, <1>4, <1>5, <1>6 DEF SendReplay
<1>9. Receive(c, e)
  BY <1>1, <1>3 DEF SendReplay
<1> QED
  BY <1>1, <1>2, <1>3, <1>4, <1>5, <1>7, <1>8, <1>9

LEMMA GoLiveWrites ==
  ASSUME EventsTypeOK, NEW c \in Conns, GoLive(c)
  PROVE  \E r \in Connections :
           /\ conn' = [conn EXCEPT ![c] = r]
           /\ r.st = "live" /\ r.registered = conn[c].registered
           /\ r.closed = conn[c].closed /\ r.ch = conn[c].ch
           /\ r.replay = conn[c].replay /\ r.lastSent = conn[c].lastSent
<1>1. PICK was \in Connections : was = conn[c]
  BY TypeFacts
<1>2. PICK r : r = [was EXCEPT !.st = "live"]
  OBVIOUS
<1>3. /\ r \in Connections /\ r.st = "live" /\ r.registered = was.registered
      /\ r.closed = was.closed /\ r.ch = was.ch /\ r.replay = was.replay
      /\ r.lastSent = was.lastSent
  BY <1>2 DEF Connections
<1>4. conn' = [conn EXCEPT ![c] = r]
  BY <1>1, <1>2 DEF GoLive
<1> QED
  BY <1>1, <1>3, <1>4

\* The event first in the channel is dropped as a duplicate, or sent.
LEMMA ForwardWrites ==
  ASSUME EventsTypeOK, NEW c \in Conns, Forward(c)
  PROVE  /\ conn[c].ch \in Seq(Event) /\ conn[c].ch # << >>
         /\ Head(conn[c].ch) \in Event
         /\ IsDuplicate(c, Head(conn[c].ch)) => client' = client
         /\ ~ IsDuplicate(c, Head(conn[c].ch)) => Receive(c, Head(conn[c].ch))
         /\ \E r \in Connections :
              /\ conn' = [conn EXCEPT ![c] = r]
              /\ r.st = conn[c].st /\ r.registered = conn[c].registered
              /\ r.closed = conn[c].closed /\ r.ch = Tail(conn[c].ch)
              /\ r.replay = conn[c].replay
              /\ r.lastSent = Larger(Head(conn[c].ch).seq, conn[c].lastSent)
<1>1. PICK was \in Connections : was = conn[c]
  BY TypeFacts
<1>2. was.ch \in Seq(Event) /\ was.ch # << >> /\ was.lastSent \in 0 .. MaxEvents
  BY <1>1 DEF Connections, Forward
<1>3. PICK e \in Event : e = Head(was.ch)
  BY <1>2, TailFacts
<1>4. PICK rest \in Seq(Event) : rest = Tail(was.ch)
  BY <1>2, TailFacts
<1>5. PICK n \in 0 .. MaxEvents : n = Larger(e.seq, was.lastSent)
  BY <1>2, EventFacts, TypeFacts DEF Larger
<1>6. PICK r : r = [was EXCEPT !.ch = rest, !.lastSent = n]
  OBVIOUS
<1>7. /\ r \in Connections /\ r.st = was.st /\ r.registered = was.registered
      /\ r.closed = was.closed /\ r.ch = rest /\ r.replay = was.replay /\ r.lastSent = n
  BY <1>6 DEF Connections
<1>8. /\ IsDuplicate(c, e) => client' = client
      /\ ~ IsDuplicate(c, e) => Receive(c, e)
  BY <1>1, <1>3 DEF Forward
<1>9. CASE IsDuplicate(c, e)
  <2>1. n = was.lastSent
    BY <1>1, <1>2, <1>5, <1>9, EventFacts DEF IsDuplicate, Larger
  <2>2. conn' = [conn EXCEPT ![c].ch = rest]
    BY <1>1, <1>3, <1>4, <1>9 DEF Forward
  <2>3. r = [was EXCEPT !.ch = rest]
    BY <1>6, <2>1 DEF Connections
  <2>4. conn' = [conn EXCEPT ![c] = r]
    BY <1>1, <2>2, <2>3
  <2> QED
    BY <1>1, <1>2, <1>3, <1>4, <1>5, <1>7, <1>8, <2>4
<1>10. CASE ~ IsDuplicate(c, e)
  <2>1. conn' = [[conn EXCEPT ![c].ch = rest] EXCEPT ![c].lastSent = n]
    BY <1>1, <1>3, <1>4, <1>5, <1>10 DEF Forward
  <2>2. conn' = [conn EXCEPT ![c] = r]
    BY <1>1, <1>6, <2>1
  <2> QED
    BY <1>1, <1>2, <1>3, <1>4, <1>5, <1>7, <1>8, <2>2
<1> QED
  BY <1>9, <1>10

LEMMA HandlerEndsWrites ==
  ASSUME EventsTypeOK, NEW c \in Conns, HandlerEnds(c)
  PROVE  /\ conn[c].st # "new"
         /\ \E r \in Connections :
              /\ conn' = [conn EXCEPT ![c] = r]
              /\ r.st = "ended" /\ r.registered = FALSE
              /\ r.closed = conn[c].closed /\ r.ch = << >> /\ r.replay = << >>
         /\ client' \in [cur : Conns \cup {Nobody}, got : Seq(1 .. MaxEvents)]
         /\ client'.got = client.got
         /\ client.cur = c => client'.cur = Nobody
         /\ client.cur # c => client'.cur = client.cur
<1>1. PICK was \in Connections : was = conn[c]
  BY TypeFacts
<1>2. PICK r \in Connections : r = Ended(was)
  BY EndedFacts
<1>3. /\ r.st = "ended" /\ r.registered = FALSE /\ r.closed = was.closed
      /\ r.ch = << >> /\ r.replay = << >>
  BY <1>2, EndedFacts
<1>4. conn' = [conn EXCEPT ![c] = r] /\ conn[c].st # "new"
  BY <1>1, <1>2 DEF HandlerEnds
<1>5. PICK cl \in [cur : Conns \cup {Nobody}, got : Seq(1 .. MaxEvents)] : cl = client
  BY TypeFacts
<1>6. client' = IF cl.cur = c THEN [cl EXCEPT !.cur = Nobody] ELSE cl
  BY <1>5 DEF HandlerEnds
<1>7. /\ client' \in [cur : Conns \cup {Nobody}, got : Seq(1 .. MaxEvents)]
      /\ client'.got = cl.got
      /\ cl.cur = c => client'.cur = Nobody
      /\ cl.cur # c => client'.cur = cl.cur
  BY <1>6
<1> QED
  BY <1>1, <1>3, <1>4, <1>5, <1>7

\* The client has left: by itself, or in a crash.
LEMMA LeaveWrites ==
  ASSUME EventsTypeOK, client' = [client EXCEPT !.cur = Nobody]
  PROVE  /\ client' \in [cur : Conns \cup {Nobody}, got : Seq(1 .. MaxEvents)]
         /\ client'.got = client.got /\ client'.cur = Nobody
<1>1. PICK cl \in [cur : Conns \cup {Nobody}, got : Seq(1 .. MaxEvents)] : cl = client
  BY TypeFacts
<1>2. client' = [cl EXCEPT !.cur = Nobody]
  BY <1>1
<1>3. /\ client' \in [cur : Conns \cup {Nobody}, got : Seq(1 .. MaxEvents)]
      /\ client'.got = cl.got /\ client'.cur = Nobody
  BY <1>2
<1> QED
  BY <1>1, <1>3

LEMMA CrashWrites ==
  ASSUME EventsTypeOK, EventsCrash
  PROVE  /\ pub' \in [Publishers -> Publications]
         /\ \A p \in Publishers :
              pub'[p].todo = << >> /\ pub'[p].slow = {} /\ pub'[p].closing = {}
         /\ conn' \in [Conns -> Connections]
         /\ \A c \in Conns :
              /\ conn[c].st = "new" => conn'[c] = conn[c]
              /\ conn[c].st # "new" =>
                   /\ conn'[c].st = "ended" /\ conn'[c].registered = FALSE
                   /\ conn'[c].closed = conn[c].closed
                   /\ conn'[c].ch = << >> /\ conn'[c].replay = << >>
         /\ client' \in [cur : Conns \cup {Nobody}, got : Seq(1 .. MaxEvents)]
         /\ client'.got = client.got /\ client'.cur = Nobody
<1>1. pub' = [p \in Publishers |-> Quiet]
  BY DEF EventsCrash
<1>2. /\ pub' \in [Publishers -> Publications]
      /\ \A p \in Publishers :
           pub'[p].todo = << >> /\ pub'[p].slow = {} /\ pub'[p].closing = {}
  BY <1>1, QuietFacts
<1>3. ASSUME NEW c \in Conns
      PROVE  /\ conn'[c] \in Connections
             /\ conn[c].st = "new" => conn'[c] = conn[c]
             /\ conn[c].st # "new" =>
                  /\ conn'[c].st = "ended" /\ conn'[c].registered = FALSE
                  /\ conn'[c].closed = conn[c].closed
                  /\ conn'[c].ch = << >> /\ conn'[c].replay = << >>
  <2>1. conn[c] \in Connections
    BY TypeFacts
  <2>2. conn'[c] = IF conn[c].st = "new" THEN conn[c] ELSE Ended(conn[c])
    BY DEF EventsCrash
  <2> QED
    BY <2>1, <2>2, EndedFacts
<1>4. conn' \in [Conns -> Connections]
  BY <1>3 DEF EventsCrash
<1>5. client' = [client EXCEPT !.cur = Nobody]
  BY DEF EventsCrash
<1> QED
  BY <1>2, <1>3, <1>4, <1>5, LeaveWrites

-----------------------------------------------------------------------------
(* The range of every variable.                                            *)

LEMMA TypesInit == EventsInit => EventsTypeOK
<1> SUFFICES ASSUME EventsInit PROVE EventsTypeOK
  OBVIOUS
<1>1. /\ pub \in [Publishers -> Publications] /\ conn \in [Conns -> Connections]
      /\ \A c \in Conns : conn[c].ch = << >>
  BY QuietFacts, NewConnFacts DEF EventsInit
<1>2. client \in [cur : Conns \cup {Nobody}, got : Seq(1 .. MaxEvents)]
  BY DEF EventsInit
<1>3. \A c \in Conns : Len(conn[c].ch) <= Capacity
  BY <1>1, TypeFacts
<1> QED
  BY <1>1, <1>2, <1>3, TypeFacts DEF EventsInit

\* A step writes one record, and leaves the channel it writes no longer.
LEMMA OneConnection ==
  ASSUME EventsTypeOK, NEW c \in Conns, NEW r \in Connections,
         conn' = [conn EXCEPT ![c] = r], Len(r.ch) <= Capacity
  PROVE  /\ conn' \in [Conns -> Connections]
         /\ \A b \in Conns : Len(conn'[b].ch) <= Capacity
BY TypeFacts

LEMMA TypesStep ==
  ASSUME EventsTypeOK, [EventsNext]_eventVars
  PROVE  EventsTypeOK'
<1> DEFINE Same == /\ conn' \in [Conns -> Connections]
                   /\ \A b \in Conns : Len(conn'[b].ch) <= Capacity
           ClientOK == client' \in [cur : Conns \cup {Nobody}, got : Seq(1 .. MaxEvents)]
           PubOK == pub' \in [Publishers -> Publications]
           LogOK == /\ log' \in Seq(Event) /\ lastSeq' \in 0 .. MaxEvents
                    /\ lock' \in Handlers \cup {Nobody}
<1>0. LogOK /\ PubOK /\ Same /\ ClientOK => EventsTypeOK'
  BY TypeFacts DEF EventsTypeOK, Publications, Connections
<1>00. /\ UNCHANGED <<log, lastSeq, lock>> => LogOK
       /\ UNCHANGED pub => PubOK
       /\ UNCHANGED conn => Same
       /\ UNCHANGED client => ClientOK
  BY TypeFacts
<1>a. \A c \in Conns : conn[c] \in Connections /\ conn[c].ch \in Seq(Event)
                       /\ Len(conn[c].ch) <= Capacity
  BY TypeFacts DEF Connections
<1>b. \A p \in Publishers, q \in Publications : pub' = [pub EXCEPT ![p] = q] => PubOK
  BY TypeFacts
<1> HIDE DEF Same, ClientOK, PubOK, LogOK
<1>1. ASSUME NEW h \in Handlers, NEW n \in 1 .. MaxBatch, Mutate(h, n)
      PROVE  EventsTypeOK'
  <2>1. /\ n \in Nat /\ lastSeq \in Nat /\ lastSeq + n <= MaxEvents
        /\ h \in Publishers /\ log \in Seq(Event)
    BY <1>1, TypeFacts, StreamAssumption DEF Mutate
  <2>2. Committed(h, n) \in Seq(Event)
    BY <2>1, CommittedFacts
  <2>3. Recorded(Committed(h, n)) \in Seq(Event)
    BY <2>1, <2>2, RecordedFacts
  <2>4. LogOK
    BY <2>1, <2>3, <1>1, TypeFacts DEF Mutate, LogOK
  <2>5. PubOK
    BY <2>1, <1>1, <1>b, MutateWrites
  <2> QED
    BY <2>4, <2>5, <1>0, <1>00, <1>1 DEF Mutate
<1>2. ASSUME NEW n \in 1 .. MaxBatch, Purge(n)
      PROVE  EventsTypeOK'
  <2>1. /\ n \in Nat /\ lastSeq \in Nat /\ lastSeq + n <= MaxEvents
        /\ Purger \in Publishers /\ log \in Seq(Event)
    BY <1>2, TypeFacts, StreamAssumption DEF Purge
  <2>2. Committed(Purger, n) \in Seq(Event)
    BY <2>1, CommittedFacts
  <2>3. Recorded(Committed(Purger, n)) \in Seq(Event)
    BY <2>1, <2>2, RecordedFacts
  <2>4. LogOK
    BY <2>1, <2>3, <1>2, TypeFacts DEF Purge, LogOK
  <2>5. PubOK
    BY <2>1, <1>2, <1>b, PurgeWrites
  <2> QED
    BY <2>4, <2>5, <1>0, <1>00, <1>2 DEF Purge
<1>3. ASSUME NEW h \in Handlers, PublishWithoutRecord(h)
      PROVE  EventsTypeOK'
  <2>1. PubOK
    BY <1>3, <1>b, TypeFacts, PublishWithoutRecordWrites
  <2> QED
    BY <2>1, <1>0, <1>00, <1>3 DEF PublishWithoutRecord
<1>4. ASSUME NEW h \in Handlers, Release(h)
      PROVE  EventsTypeOK'
  <2>1. LogOK
    BY <1>4, TypeFacts DEF Release, LogOK
  <2> QED
    BY <2>1, <1>0, <1>00, <1>4 DEF Release
<1>5. ASSUME NEW p \in Publishers, PublishEvent(p)
      PROVE  EventsTypeOK'
  <2>1. PubOK
    BY <1>5, <1>b, PublishEventWrites
  <2>2. \A c \in Conns : Len(conn'[c].ch) <= Capacity
    <3> SUFFICES ASSUME NEW c \in Conns PROVE Len(conn'[c].ch) <= Capacity
      OBVIOUS
    <3>1. Head(pub[p].todo) \in Event
      BY <1>5, PublishEventWrites, TailFacts
    <3>2. CASE c \in Registered \ Full
      <4>1. conn'[c].ch = Append(conn[c].ch, Head(pub[p].todo))
        BY <1>5, <3>2, PublishEventWrites
      <4>2. Len(Append(conn[c].ch, Head(pub[p].todo))) = Len(conn[c].ch) + 1
        BY <3>1, <1>a, AppendFacts
      <4>3. Len(conn[c].ch) # Capacity /\ Len(conn[c].ch) \in Nat
        BY <3>2, <1>a DEF Full
      <4> QED
        BY <4>1, <4>2, <4>3, <1>a, TypeFacts
    <3>3. CASE c \notin Registered \ Full
      BY <1>5, <3>3, <1>a, PublishEventWrites
    <3> QED
      BY <3>2, <3>3
  <2>3. Same
    BY <2>2, <1>5, PublishEventWrites DEF Same
  <2> QED
    BY <2>1, <2>3, <1>0, <1>00, <1>5 DEF PublishEvent
<1>6. ASSUME NEW p \in Publishers, NEW c \in Conns, DropSlow(p, c)
      PROVE  EventsTypeOK'
  <2>1. PubOK
    BY <1>6, <1>b, DropSlowWrites
  <2>2. PICK r \in Connections : conn' = [conn EXCEPT ![c] = r] /\ r.ch = conn[c].ch
    BY <1>6, DropSlowWrites
  <2>3. Same
    BY <2>2, <1>a, OneConnection DEF Same
  <2> QED
    BY <2>1, <2>3, <1>0, <1>00, <1>6 DEF DropSlow
<1>7. ASSUME NEW p \in Publishers, NEW c \in Conns, CloseSlow(p, c)
      PROVE  EventsTypeOK'
  <2>1. PubOK /\ Same
    BY <1>7, <1>a, <1>b, CloseSlowWrites, OneConnection, ZenonT(60) DEF Same
  <2> QED
    BY <2>1, <1>0, <1>00, <1>7 DEF CloseSlow
<1>8. ASSUME NEW c \in Conns, Connect(c)
      PROVE  EventsTypeOK'
  <2>1. Same /\ ClientOK
    BY <1>8, <1>a, ConnectWrites, OneConnection, ZenonT(60) DEF Same, ClientOK
  <2> QED
    BY <2>1, <1>0, <1>00, <1>8 DEF Connect
<1>9. ASSUME NEW c \in Conns, ReadReplay(c)
      PROVE  EventsTypeOK'
  <2>1. Same
    BY <1>9, <1>a, ReadReplayWrites, OneConnection DEF Same
  <2> QED
    BY <2>1, <1>0, <1>00, <1>9 DEF ReadReplay
<1>10. ASSUME NEW c \in Conns, SendReplay(c)
       PROVE  EventsTypeOK'
  <2>1. Same
    BY <1>10, <1>a, SendReplayWrites, OneConnection DEF Same
  <2>2. ClientOK
    BY <1>10, SendReplayWrites, ReceiveWrites DEF ClientOK
  <2> QED
    BY <2>1, <2>2, <1>0, <1>00, <1>10 DEF SendReplay
<1>11. ASSUME NEW c \in Conns, GoLive(c)
       PROVE  EventsTypeOK'
  <2>1. Same
    BY <1>11, <1>a, GoLiveWrites, OneConnection DEF Same
  <2> QED
    BY <2>1, <1>0, <1>00, <1>11 DEF GoLive
<1>12. ASSUME NEW c \in Conns, Forward(c)
       PROVE  EventsTypeOK'
  <2>1. /\ conn[c].ch \in Seq(Event) /\ conn[c].ch # << >>
    BY <1>12, ForwardWrites
  <2>2. Len(Tail(conn[c].ch)) <= Capacity
    BY <2>1, <1>a, TypeFacts, TailFacts
  <2>3. Same
    BY <2>2, <1>12, ForwardWrites, OneConnection DEF Same
  <2>4. ClientOK
    BY <1>00, <1>12, ForwardWrites, ReceiveWrites DEF ClientOK
  <2> QED
    BY <2>3, <2>4, <1>0, <1>00, <1>12 DEF Forward
<1>13. ASSUME NEW c \in Conns, HandlerEnds(c)
       PROVE  EventsTypeOK'
  <2>1. PICK r \in Connections : conn' = [conn EXCEPT ![c] = r] /\ r.ch = << >>
    BY <1>13, HandlerEndsWrites
  <2>2. Len(r.ch) <= Capacity
    BY <2>1, TypeFacts
  <2>3. Same
    BY <2>1, <2>2, OneConnection DEF Same
  <2>4. ClientOK
    BY <1>13, HandlerEndsWrites DEF ClientOK
  <2> QED
    BY <2>3, <2>4, <1>0, <1>00, <1>13 DEF HandlerEnds
<1>14. CASE Disconnect
  <2>1. ClientOK
    BY <1>14, LeaveWrites DEF Disconnect, ClientOK
  <2> QED
    BY <2>1, <1>0, <1>00, <1>14 DEF Disconnect
<1>15. CASE EventsCrash
  <2>1. \A c \in Conns : Len(conn'[c].ch) <= Capacity
    <3> SUFFICES ASSUME NEW c \in Conns PROVE Len(conn'[c].ch) <= Capacity
      OBVIOUS
    <3>1. conn'[c].ch = conn[c].ch \/ conn'[c].ch = << >>
      BY <1>15, CrashWrites
    <3> QED
      BY <3>1, <1>a, TypeFacts
  <2>2. PubOK /\ Same /\ ClientOK
    BY <2>1, <1>15, CrashWrites DEF PubOK, Same, ClientOK
  <2>3. LogOK
    BY <1>15, TypeFacts DEF EventsCrash, LogOK
  <2> QED
    BY <2>2, <2>3, <1>0
<1>16. CASE UNCHANGED eventVars
  BY <1>0, <1>00, <1>16 DEF eventVars
<1> QED
  BY <1>1, <1>2, <1>3, <1>4, <1>5, <1>6, <1>7, <1>8, <1>9, <1>10, <1>11, <1>12, <1>13,
     <1>14, <1>15, <1>16
  DEF EventsNext, Running, Publication, Serving

\* The event stream keeps its types, and no channel holds more than its
\* capacity: neither a full subscription nor any interleaving of publishers,
\* handlers, the client and crashes takes a variable out of its range.
THEOREM StreamTypes == EventsSpec => []EventsTypeOK
<1>1. EventsInit => EventsTypeOK
  BY TypesInit
<1>2. EventsTypeOK /\ [EventsNext]_eventVars => EventsTypeOK'
  BY TypesStep
<1> QED
  BY <1>1, <1>2, PTL DEF EventsSpec

-----------------------------------------------------------------------------
(* Nobody sends on a closed channel.                                       *)

\* A connection that is still to be made has nothing, and nobody drops it.
UnmadeAreFresh ==
  \A c \in Conns : conn[c].st = "new" =>
    /\ ~conn[c].registered /\ ~conn[c].closed
    /\ conn[c].ch = << >> /\ conn[c].replay = << >>
    /\ \A p \in Publishers : c \notin pub[p].slow /\ c \notin pub[p].closing

\* A channel is closed after its subscription was taken out of the map.
ClosingIsUnregistered ==
  \A p \in Publishers : \A c \in pub[p].closing : ~conn[c].registered

ClosedInv == UnmadeAreFresh /\ ClosingIsUnregistered /\ ClosedIsUnregistered

LEMMA ClosedInit == EventsInit => ClosedInv
<1> SUFFICES ASSUME EventsInit PROVE ClosedInv
  OBVIOUS
<1>1. \A c \in Conns : conn[c] = NewConn
  BY DEF EventsInit
<1>2. \A p \in Publishers : pub[p] = Quiet
  BY DEF EventsInit
<1> QED
  BY <1>1, <1>2, QuietFacts, NewConnFacts
  DEF ClosedInv, UnmadeAreFresh, ClosingIsUnregistered, ClosedIsUnregistered

\* A step of a made connection that registers nothing and closes nothing.
LEMMA ServingKeepsClosed ==
  ASSUME EventsTypeOK, ClosedInv, NEW c \in Conns, NEW r \in Connections,
         conn' = [conn EXCEPT ![c] = r], UNCHANGED pub,
         r.st # "new", r.registered => conn[c].registered, r.closed = conn[c].closed
  PROVE  ClosedInv'
<1>1. \A b \in Conns : b # c => conn'[b] = conn[b]
  BY TypeFacts
<1>2. conn'[c] = r
  BY TypeFacts
<1>3. \A p \in Publishers : pub[p].closing \subseteq Conns
  BY TypeFacts DEF Publications
<1> QED
  BY <1>1, <1>2, <1>3
  DEF ClosedInv, UnmadeAreFresh, ClosingIsUnregistered, ClosedIsUnregistered

\* A step of a publisher that starts to close nothing.
LEMMA PublishersKeepClosed ==
  ASSUME EventsTypeOK, ClosedInv, UNCHANGED conn, NEW p \in Publishers,
         NEW q \in Publications, pub' = [pub EXCEPT ![p] = q], q.slow = {}, q.closing = {}
  PROVE  ClosedInv'
<1>1. \A b \in Publishers : b # p => pub'[b] = pub[b]
  BY TypeFacts
<1>2. pub'[p] = q
  BY TypeFacts
<1> QED
  BY <1>1, <1>2
  DEF ClosedInv, UnmadeAreFresh, ClosingIsUnregistered, ClosedIsUnregistered

LEMMA ClosedStep ==
  ASSUME EventsTypeOK, ClosedInv, [EventsNext]_eventVars
  PROVE  ClosedInv'
<1> USE DEF ClosedInv
<1>1. ASSUME NEW h \in Handlers, NEW n \in 1 .. MaxBatch, Mutate(h, n)
      PROVE  ClosedInv'
  <2>1. UNCHANGED conn /\ h \in Publishers
    BY <1>1, TypeFacts DEF Mutate
  <2> QED
    BY <1>1, <2>1, MutateWrites, PublishersKeepClosed
<1>2. ASSUME NEW n \in 1 .. MaxBatch, Purge(n)
      PROVE  ClosedInv'
  <2>1. UNCHANGED conn /\ Purger \in Publishers
    BY <1>2, TypeFacts DEF Purge
  <2> QED
    BY <1>2, <2>1, PurgeWrites, PublishersKeepClosed
<1>3. ASSUME NEW h \in Handlers, PublishWithoutRecord(h)
      PROVE  ClosedInv'
  <2>1. UNCHANGED conn /\ h \in Publishers
    BY <1>3, TypeFacts DEF PublishWithoutRecord
  <2> QED
    BY <1>3, <2>1, PublishWithoutRecordWrites, PublishersKeepClosed
<1>4. ASSUME UNCHANGED <<pub, conn>>
      PROVE  ClosedInv'
  BY <1>4 DEF UnmadeAreFresh, ClosingIsUnregistered, ClosedIsUnregistered
<1>5. ASSUME NEW p \in Publishers, PublishEvent(p)
      PROVE  ClosedInv'
  <2>1. PICK q \in Publications :
          pub' = [pub EXCEPT ![p] = q] /\ q.slow = Full /\ q.closing = {}
    BY <1>5, PublishEventWrites
  <2>2. /\ pub'[p].slow = Full /\ pub'[p].closing = {}
        /\ \A b \in Publishers : b # p => pub'[b] = pub[b]
    BY <2>1, TypeFacts
  <2>3. \A c \in Conns : /\ conn'[c].st = conn[c].st
                         /\ conn'[c].registered = conn[c].registered
                         /\ conn'[c].closed = conn[c].closed
                         /\ ~conn[c].registered => conn'[c] = conn[c]
    BY <1>5, PublishEventWrites DEF Registered
  <2>4. \A c \in Full : conn[c].registered
    BY DEF Full, Registered
  <2>5. \A b \in Publishers : pub[b].closing \subseteq Conns
    BY TypeFacts DEF Publications
  <2> QED
    BY <2>2, <2>3, <2>4, <2>5
    DEF UnmadeAreFresh, ClosingIsUnregistered, ClosedIsUnregistered
<1>6. ASSUME NEW p \in Publishers, NEW c \in Conns, DropSlow(p, c)
      PROVE  ClosedInv'
  <2>1. PICK q \in Publications :
          /\ pub' = [pub EXCEPT ![p] = q]
          /\ q.slow = pub[p].slow \ {c} /\ q.closing = {c}
    BY <1>6, DropSlowWrites
  <2>2. PICK r \in Connections :
          /\ conn' = [conn EXCEPT ![c] = r]
          /\ r.st = conn[c].st /\ r.registered = FALSE /\ r.closed = conn[c].closed
    BY <1>6, DropSlowWrites
  <2>3. /\ pub'[p].slow = pub[p].slow \ {c} /\ pub'[p].closing = {c}
        /\ \A b \in Publishers : b # p => pub'[b] = pub[b]
    BY <2>1, TypeFacts
  <2>4. conn'[c] = r /\ \A b \in Conns : b # c => conn'[b] = conn[b]
    BY <2>2, TypeFacts
  <2>5. c \in pub[p].slow
    BY <1>6 DEF DropSlow
  <2>6. conn[c].st # "new"
    BY <2>5 DEF UnmadeAreFresh
  <2>7. \A b \in Publishers : pub[b].closing \subseteq Conns
    BY TypeFacts DEF Publications
  <2> QED
    BY <2>2, <2>3, <2>4, <2>6, <2>7
    DEF UnmadeAreFresh, ClosingIsUnregistered, ClosedIsUnregistered
<1>7. ASSUME NEW p \in Publishers, NEW c \in Conns, CloseSlow(p, c)
      PROVE  ClosedInv'
  <2>1. PICK q \in Publications :
          /\ pub' = [pub EXCEPT ![p] = q]
          /\ q.slow = pub[p].slow /\ q.closing = {}
    BY <1>7, CloseSlowWrites
  <2>2. PICK r \in Connections :
          /\ conn' = [conn EXCEPT ![c] = r]
          /\ r.st = conn[c].st /\ r.registered = conn[c].registered
    BY <1>7, CloseSlowWrites
  <2>3. /\ pub'[p].slow = pub[p].slow /\ pub'[p].closing = {}
        /\ \A b \in Publishers : b # p => pub'[b] = pub[b]
    BY <2>1, TypeFacts
  <2>4. conn'[c] = r /\ \A b \in Conns : b # c => conn'[b] = conn[b]
    BY <2>2, TypeFacts
  <2>5. c \in pub[p].closing
    BY <1>7 DEF CloseSlow
  <2>6. conn[c].st # "new" /\ ~conn[c].registered
    BY <2>5 DEF UnmadeAreFresh, ClosingIsUnregistered
  <2>7. \A b \in Publishers : pub[b].closing \subseteq Conns
    BY TypeFacts DEF Publications
  <2> QED
    BY <2>2, <2>3, <2>4, <2>6, <2>7
    DEF UnmadeAreFresh, ClosingIsUnregistered, ClosedIsUnregistered
<1>8. ASSUME NEW c \in Conns, Connect(c)
      PROVE  ClosedInv'
  <2>1. PICK r \in Connections :
          /\ conn' = [conn EXCEPT ![c] = r]
          /\ r.st = "opened" /\ r.closed = conn[c].closed
    BY <1>8, ConnectWrites
  <2>2. conn'[c] = r /\ \A b \in Conns : b # c => conn'[b] = conn[b]
    BY <2>1, TypeFacts
  <2>3. conn[c].st = "new" /\ UNCHANGED pub
    BY <1>8 DEF Connect
  <2>4. ~conn[c].closed /\ \A p \in Publishers : c \notin pub[p].closing
    BY <2>3 DEF UnmadeAreFresh
  <2>5. \A b \in Publishers : pub[b].closing \subseteq Conns
    BY TypeFacts DEF Publications
  <2> QED
    BY <2>1, <2>2, <2>3, <2>4, <2>5
    DEF UnmadeAreFresh, ClosingIsUnregistered, ClosedIsUnregistered
<1>9. ASSUME NEW c \in Conns, ReadReplay(c)
      PROVE  ClosedInv'
  <2>1. UNCHANGED pub
    BY <1>9 DEF ReadReplay
  <2>2. PICK r \in Connections :
          /\ conn' = [conn EXCEPT ![c] = r]
          /\ r.st = "replaying" /\ r.registered = conn[c].registered
          /\ r.closed = conn[c].closed
    BY <1>9, ReadReplayWrites
  <2> QED
    BY <2>1, <2>2, ServingKeepsClosed
<1>10. ASSUME NEW c \in Conns, SendReplay(c)
       PROVE  ClosedInv'
  <2>1. UNCHANGED pub /\ conn[c].st = "replaying"
    BY <1>10 DEF SendReplay
  <2>2. PICK r \in Connections :
          /\ conn' = [conn EXCEPT ![c] = r]
          /\ r.st = conn[c].st /\ r.registered = conn[c].registered
          /\ r.closed = conn[c].closed
    BY <1>10, SendReplayWrites
  <2> QED
    BY <2>1, <2>2, ServingKeepsClosed
<1>11. ASSUME NEW c \in Conns, GoLive(c)
       PROVE  ClosedInv'
  <2>1. UNCHANGED pub
    BY <1>11 DEF GoLive
  <2>2. PICK r \in Connections :
          /\ conn' = [conn EXCEPT ![c] = r]
          /\ r.st = "live" /\ r.registered = conn[c].registered
          /\ r.closed = conn[c].closed
    BY <1>11, GoLiveWrites
  <2> QED
    BY <2>1, <2>2, ServingKeepsClosed
<1>12. ASSUME NEW c \in Conns, Forward(c)
       PROVE  ClosedInv'
  <2>1. UNCHANGED pub /\ conn[c].st = "live"
    BY <1>12 DEF Forward
  <2>2. PICK r \in Connections :
          /\ conn' = [conn EXCEPT ![c] = r]
          /\ r.st = conn[c].st /\ r.registered = conn[c].registered
          /\ r.closed = conn[c].closed
    BY <1>12, ForwardWrites
  <2> QED
    BY <2>1, <2>2, ServingKeepsClosed
<1>13. ASSUME NEW c \in Conns, HandlerEnds(c)
       PROVE  ClosedInv'
  <2>1. UNCHANGED pub
    BY <1>13 DEF HandlerEnds
  <2>2. PICK r \in Connections :
          /\ conn' = [conn EXCEPT ![c] = r]
          /\ r.st = "ended" /\ r.registered = FALSE /\ r.closed = conn[c].closed
    BY <1>13, HandlerEndsWrites
  <2> QED
    BY <2>1, <2>2, ServingKeepsClosed
<1>14. CASE EventsCrash
  <2>1. \A p \in Publishers : pub'[p].slow = {} /\ pub'[p].closing = {}
    BY <1>14, CrashWrites
  <2>2. ASSUME NEW c \in Conns
        PROVE  \/ conn'[c] = conn[c]
               \/ conn'[c].st = "ended" /\ ~conn'[c].registered
    BY <1>14, CrashWrites
  <2> QED
    BY <2>1, <2>2 DEF UnmadeAreFresh, ClosingIsUnregistered, ClosedIsUnregistered
<1> QED
  BY <1>1, <1>2, <1>3, <1>4, <1>5, <1>6, <1>7, <1>8, <1>9, <1>10, <1>11, <1>12, <1>13,
     <1>14
  DEF EventsNext, Running, Publication, Serving, Release, Disconnect, eventVars

\* Nobody sends on a closed channel, which would panic the server: whichever
\* publisher found a subscription slow, in whatever order publishers drop and
\* close it and its handler ends, a closed subscription is out of the map.
THEOREM NoSendOnClosed == EventsSpec => []ClosedIsUnregistered
<1>1. EventsInit => EventsTypeOK /\ ClosedInv
  BY TypesInit, ClosedInit
<1>2. EventsTypeOK /\ ClosedInv /\ [EventsNext]_eventVars => EventsTypeOK' /\ ClosedInv'
  BY TypesStep, ClosedStep
<1>3. ClosedInv => ClosedIsUnregistered
  BY DEF ClosedInv
<1> QED
  BY <1>1, <1>2, <1>3, PTL DEF EventsSpec

-----------------------------------------------------------------------------
(* What the client receives is in order.                                   *)

\* The client's connection; without one, one that has nothing.
Current == IF client.cur \in Conns THEN conn[client.cur] ELSE NewConn

InReplay == SeqsIn(Current.replay)
InChannel == SeqsIn(Current.ch)
Got == SeqRange(client.got)

LEMMA CurrentFacts ==
  ASSUME EventsTypeOK
  PROVE  /\ Current \in Connections
         /\ Current.replay \in Seq(Event) /\ Current.ch \in Seq(Event)
         /\ Current.lastSent \in Nat
         /\ client.cur \in Conns => Current = conn[client.cur]
         /\ client.cur \notin Conns =>
              Current.st = "new" /\ Current.replay = << >> /\ Current.ch = << >>
<1>1. client.cur \in Conns => Current = conn[client.cur] /\ conn[client.cur] \in Connections
  BY TypeFacts DEF Current
<1>2. client.cur \notin Conns => Current = NewConn
  BY DEF Current
<1>3. Current \in Connections
  BY <1>1, <1>2, NewConnFacts
<1>4. Current.replay \in Seq(Event) /\ Current.ch \in Seq(Event) /\ Current.lastSent \in Nat
  BY <1>3, TypeFacts DEF Connections
<1> QED
  BY <1>1, <1>2, <1>3, <1>4, NewConnFacts

\* What a write of connection c does to the client's.
LEMMA CurrentOfWrite ==
  ASSUME EventsTypeOK, NEW c \in Conns, NEW r \in Connections,
         conn' = [conn EXCEPT ![c] = r], client'.cur = client.cur
  PROVE  /\ client.cur = c => Current' = r
         /\ client.cur # c => Current' = Current
BY TypeFacts DEF Current

LEMMA CurrentOfLeave ==
  ASSUME client'.cur = Nobody
  PROVE  Current' = NewConn
BY TypeFacts DEF Current

LEMMA GotFacts ==
  ASSUME EventsTypeOK
  PROVE  /\ client.got \in Seq(1 .. MaxEvents)
         /\ Got \subseteq 1 .. MaxEvents /\ Got \subseteq Nat
         /\ LastGot \in Nat /\ (LastGot # 0 => LastGot \in Got)
         /\ LastGot = 0 <=> client.got = << >>
         /\ client.got = << >> => Got = {}
<1>1. client.got \in Seq(1 .. MaxEvents)
  BY TypeFacts
<1>2. Len(client.got) \in Nat /\ (client.got = << >> <=> Len(client.got) = 0)
  BY <1>1, EmptySeq
<1>3. \A k \in 1 .. Len(client.got) : client.got[k] \in 1 .. MaxEvents
  BY <1>1, ElementOfSeq
<1>4. client.got # << >> => Len(client.got) \in 1 .. Len(client.got)
  BY <1>2
<1> QED
  BY <1>1, <1>2, <1>3, <1>4 DEF Got, SeqRange, LastGot, Last

\* A number received is the new last one.
LEMMA GotMore ==
  ASSUME EventsTypeOK, NEW x \in 1 .. MaxEvents, client'.got = Append(client.got, x)
  PROVE  /\ LastGot' = x /\ Got' = Got \cup {x}
         /\ ReceivedInOrder /\ LastGot < x => ReceivedInOrder'
<1> DEFINE more == Append(client.got, x)
<1>1. client.got \in Seq(1 .. MaxEvents) /\ Len(client.got) \in Nat
  BY GotFacts
<1>2. /\ more # << >> /\ Len(more) = Len(client.got) + 1
      /\ \A k \in 1 .. Len(client.got) : more[k] = client.got[k]
      /\ more[Len(client.got) + 1] = x
  BY <1>1, AppendProperties
<1> HIDE DEF more
<1>3. client'.got = more
  BY DEF more
<1>4. LastGot' = x
  BY <1>2, <1>3 DEF LastGot, Last
<1>5. 1 .. Len(client.got) + 1 = 1 .. Len(client.got) \cup {Len(client.got) + 1}
  BY <1>1
<1>6. \A y : y \in Got' <=> y \in Got \cup {x}
  BY <1>1, <1>2, <1>3, <1>5 DEF Got, SeqRange
<1>7. ASSUME ReceivedInOrder, LastGot < x PROVE ReceivedInOrder'
  <2> SUFFICES ASSUME NEW k \in 2 .. Len(more) PROVE more[k - 1] < more[k]
    BY <1>3 DEF ReceivedInOrder
  <2>1. k - 1 \in 1 .. Len(client.got)
    BY <1>1, <1>2
  <2>2. CASE k = Len(client.got) + 1
    <3>1. more[k] = x /\ more[k - 1] = client.got[Len(client.got)]
      BY <1>1, <1>2, <2>1, <2>2
    <3>2. client.got # << >>
      BY <1>1, <2>1
    <3>3. LastGot = client.got[Len(client.got)]
      BY <3>2 DEF LastGot, Last
    <3> QED
      BY <3>1, <3>3, <1>7
  <2>3. CASE k # Len(client.got) + 1
    <3>1. k \in 2 .. Len(client.got) /\ k \in 1 .. Len(client.got)
      BY <1>1, <1>2, <2>3
    <3> QED
      BY <3>1, <2>1, <1>2, <1>7 DEF ReceivedInOrder
  <2> QED
    BY <2>2, <2>3
<1> QED
  BY <1>4, <1>6, <1>7

LogInv == Increasing(log) /\ SeqsIn(log) \subseteq 1 .. lastSeq

\* The client's connection goes on where the client is, and its replay lies
\* ahead.
FollowsOn ==
  /\ client.cur \in Conns =>
       /\ Current.st \in {"opened", "replaying", "live"}
       /\ Current.lastSent = LastGot
  /\ Current.st # "replaying" => Current.replay = << >>
  /\ Increasing(Current.replay)
  /\ \A x \in InReplay : Current.lastSent < x

OrderInv == LogInv /\ FollowsOn /\ ReceivedInOrder

\* The log after a commit.
LEMMA CommitFacts ==
  ASSUME EventsTypeOK, LogInv, NEW p \in Publishers, NEW n \in Nat, lastSeq + n <= MaxEvents,
         log' = Recorded(Committed(p, n)), lastSeq' = lastSeq + n
  PROVE  /\ LogInv'
         /\ \A k \in 1 .. Len(log') :
              \/ \E j \in 1 .. Len(log) : log'[k] = log[j]
              \/ log'[k].seq \in lastSeq + 1 .. lastSeq + n /\ log'[k].by = p
<1>1. log \in Seq(Event) /\ lastSeq \in Nat
  BY TypeFacts
<1>2. PICK events \in Seq(Event) :
        /\ events = Committed(p, n) /\ Len(events) = n /\ Increasing(events)
        /\ SeqsIn(events) = lastSeq + 1 .. lastSeq + n
        /\ \A k \in 1 .. n : events[k] = [seq |-> lastSeq + k, by |-> p]
  BY <1>1, CommittedFacts
<1>3. \A k \in 1 .. Len(events) :
        events[k].seq \in lastSeq + 1 .. lastSeq + n /\ events[k].by = p
  BY <1>2 DEF SeqsIn
<1>4. \A j \in 1 .. Len(log) : log[j].seq \in 1 .. lastSeq
  BY DEF LogInv, SeqsIn
<1>5. \A j \in 1 .. Len(log), k \in 1 .. Len(events) : log[j].seq < events[k].seq
  BY <1>1, <1>3, <1>4
<1>6. /\ Increasing(log')
      /\ \A k \in 1 .. Len(log') :
           \/ \E j \in 1 .. Len(log) : log'[k] = log[j]
           \/ \E j \in 1 .. Len(events) : log'[k] = events[j]
  BY <1>1, <1>2, <1>5, RecordedFacts DEF LogInv
<1>7. \A k \in 1 .. Len(log') :
        \/ \E j \in 1 .. Len(log) : log'[k] = log[j]
        \/ log'[k].seq \in lastSeq + 1 .. lastSeq + n /\ log'[k].by = p
  BY <1>3, <1>6
<1>8. \A k \in 1 .. Len(log') : log'[k].seq \in 1 .. lastSeq + n
  <2> SUFFICES ASSUME NEW k \in 1 .. Len(log') PROVE log'[k].seq \in 1 .. lastSeq + n
    OBVIOUS
  <2>1. CASE \E j \in 1 .. Len(log) : log'[k] = log[j]
    <3>1. log'[k].seq \in 1 .. lastSeq
      BY <2>1, <1>4
    <3> QED
      BY <3>1, <1>1
  <2>2. CASE log'[k].seq \in lastSeq + 1 .. lastSeq + n
    BY <2>2, <1>1
  <2> QED
    BY <1>7, <2>1, <2>2
<1>9. LogInv'
  BY <1>6, <1>8 DEF LogInv, SeqsIn
<1> QED
  BY <1>7, <1>9

LEMMA LogStep ==
  ASSUME EventsTypeOK, LogInv, [EventsNext]_eventVars
  PROVE  LogInv'
<1>1. ASSUME NEW h \in Handlers, NEW n \in 1 .. MaxBatch, Mutate(h, n)
      PROVE  LogInv'
  <2>1. n \in Nat /\ h \in Publishers
    BY TypeFacts, StreamAssumption
  <2> QED
    BY <2>1, <1>1, CommitFacts DEF Mutate
<1>2. ASSUME NEW n \in 1 .. MaxBatch, Purge(n)
      PROVE  LogInv'
  <2>1. n \in Nat /\ Purger \in Publishers
    BY TypeFacts, StreamAssumption
  <2> QED
    BY <2>1, <1>2, CommitFacts DEF Purge
<1>3. ASSUME UNCHANGED <<log, lastSeq>> PROVE LogInv'
  BY <1>3 DEF LogInv
<1> QED
  BY <1>1, <1>2, <1>3
  DEF EventsNext, Running, Publication, Serving, PublishWithoutRecord, Release,
      PublishEvent, DropSlow, CloseSlow, Connect, ReadReplay, SendReplay, GoLive, Forward,
      HandlerEnds, Disconnect, EventsCrash, eventVars

\* What a publication does to the client's connection.
LEMMA CurrentOfPublish ==
  ASSUME EventsTypeOK, NEW p \in Publishers, PublishEvent(p)
  PROVE  /\ Current'.st = Current.st /\ Current'.replay = Current.replay
         /\ Current'.lastSent = Current.lastSent
         /\ Current'.registered = Current.registered
         /\ client.cur \in Registered \ Full =>
              /\ Current.registered
              /\ Current'.ch = Append(Current.ch, Head(pub[p].todo))
         /\ client.cur \notin Registered \ Full => Current'.ch = Current.ch
<1>1. UNCHANGED client
  BY DEF PublishEvent
<1>2. CASE client.cur \in Conns
  <2>1. Current = conn[client.cur] /\ Current' = conn'[client.cur]
    BY <1>1, <1>2 DEF Current
  <2> QED
    BY <1>2, <2>1, PublishEventWrites
<1>3. CASE client.cur \notin Conns
  <2>1. Current = NewConn /\ Current' = NewConn /\ client.cur \notin Registered
    BY <1>1, <1>3 DEF Current, Registered
  <2> QED
    BY <2>1
<1> QED
  BY <1>2, <1>3

LEMMA FollowsOnKept ==
  ASSUME FollowsOn, ReceivedInOrder, UNCHANGED client,
         Current'.st = Current.st, Current'.replay = Current.replay,
         Current'.lastSent = Current.lastSent
  PROVE  FollowsOn' /\ ReceivedInOrder'
BY DEF FollowsOn, ReceivedInOrder, InReplay, LastGot

LEMMA FollowsOnAlone ==
  ASSUME FollowsOn, ReceivedInOrder, client'.cur = Nobody, client'.got = client.got
  PROVE  FollowsOn' /\ ReceivedInOrder'
<1>1. Current' = NewConn
  BY CurrentOfLeave
<1> QED
  BY <1>1, NoEvents, NewConnFacts, TypeFacts DEF FollowsOn, ReceivedInOrder, InReplay

\* A write of another connection, or of what the order does not depend on.
LEMMA FollowsOnWritten ==
  ASSUME EventsTypeOK, FollowsOn, ReceivedInOrder, UNCHANGED client,
         NEW c \in Conns, NEW r \in Connections, conn' = [conn EXCEPT ![c] = r],
         client.cur = c => /\ r.st = conn[c].st /\ r.replay = conn[c].replay
                           /\ r.lastSent = conn[c].lastSent
  PROVE  FollowsOn' /\ ReceivedInOrder'
<1>1. CASE client.cur = c
  <2>1. Current' = r /\ Current = conn[c]
    BY <1>1, CurrentOfWrite, CurrentFacts
  <2> QED
    BY <1>1, <2>1, FollowsOnKept
<1>2. CASE client.cur # c
  <2>1. Current' = Current
    BY <1>2, CurrentOfWrite
  <2> QED
    BY <2>1, FollowsOnKept
<1> QED
  BY <1>1, <1>2

\* The client receives x, and its connection notes it.
LEMMA FollowsOnMore ==
  ASSUME EventsTypeOK, FollowsOn, ReceivedInOrder, NEW x \in 1 .. MaxEvents, LastGot < x,
         client'.cur = client.cur, client'.got = Append(client.got, x),
         Current'.st = Current.st, Current'.lastSent = x,
         Current'.st # "replaying" => Current'.replay = << >>,
         Increasing(Current'.replay), \A y \in SeqsIn(Current'.replay) : x < y
  PROVE  FollowsOn' /\ ReceivedInOrder'
<1>1. LastGot' = x /\ ReceivedInOrder'
  BY GotMore
<1> QED
  BY <1>1 DEF FollowsOn, InReplay

LEMMA OrderStep ==
  ASSUME EventsTypeOK, ClosedInv, OrderInv, [EventsNext]_eventVars
  PROVE  FollowsOn' /\ ReceivedInOrder'
<1>0. FollowsOn /\ ReceivedInOrder /\ LogInv
  BY DEF OrderInv
<1>1. ASSUME UNCHANGED <<conn, client>>
      PROVE  FollowsOn' /\ ReceivedInOrder'
  BY <1>0, <1>1 DEF FollowsOn, ReceivedInOrder, InReplay, LastGot, Current
<1>2. ASSUME NEW p \in Publishers, PublishEvent(p)
      PROVE  FollowsOn' /\ ReceivedInOrder'
  <2>1. UNCHANGED client
    BY <1>2 DEF PublishEvent
  <2> QED
    BY <2>1, <1>0, <1>2, CurrentOfPublish, FollowsOnKept
<1>3. ASSUME NEW p \in Publishers, NEW c \in Conns, DropSlow(p, c)
      PROVE  FollowsOn' /\ ReceivedInOrder'
  <2>1. UNCHANGED client
    BY <1>3 DEF DropSlow
  <2>2. PICK r \in Connections :
          /\ conn' = [conn EXCEPT ![c] = r]
          /\ r.st = conn[c].st /\ r.replay = conn[c].replay
          /\ r.lastSent = conn[c].lastSent
    BY <1>3, DropSlowWrites
  <2> QED
    BY <2>1, <2>2, <1>0, FollowsOnWritten
<1>4. ASSUME NEW p \in Publishers, NEW c \in Conns, CloseSlow(p, c)
      PROVE  FollowsOn' /\ ReceivedInOrder'
  <2>1. UNCHANGED client
    BY <1>4 DEF CloseSlow
  <2>2. PICK r \in Connections :
          /\ conn' = [conn EXCEPT ![c] = r]
          /\ r.st = conn[c].st /\ r.replay = conn[c].replay
          /\ r.lastSent = conn[c].lastSent
    BY <1>4, CloseSlowWrites
  <2> QED
    BY <2>1, <2>2, <1>0, FollowsOnWritten
<1>5. ASSUME NEW c \in Conns, Connect(c)
      PROVE  FollowsOn' /\ ReceivedInOrder'
  <2>1. PICK r \in Connections :
          /\ conn' = [conn EXCEPT ![c] = r]
          /\ r.st = "opened" /\ r.replay = conn[c].replay /\ r.lastSent = LastGot
    BY <1>5, ConnectWrites
  <2>2. client'.cur = c /\ client'.got = client.got
    BY <1>5, ConnectWrites
  <2>3. Current' = r
    BY <2>1, <2>2, TypeFacts DEF Current
  <2>4. r.replay = << >>
    BY <2>1, <1>5 DEF Connect, ClosedInv, UnmadeAreFresh
  <2>5. LastGot' = LastGot
    BY <2>2 DEF LastGot
  <2>6. Increasing(r.replay) /\ SeqsIn(r.replay) = {}
    BY <2>4, NoEvents
  <2> QED
    BY <2>1, <2>2, <2>3, <2>4, <2>5, <2>6, <1>0 DEF FollowsOn, ReceivedInOrder, InReplay
<1>6. ASSUME NEW c \in Conns, ReadReplay(c)
      PROVE  FollowsOn' /\ ReceivedInOrder'
  <2>1. UNCHANGED client /\ conn[c].st = "opened"
    BY <1>6 DEF ReadReplay
  <2>2. PICK r \in Connections :
          /\ conn' = [conn EXCEPT ![c] = r]
          /\ r.st = "replaying" /\ r.lastSent = conn[c].lastSent
          /\ conn[c].lastSent = 0 => r.replay = << >>
          /\ conn[c].lastSent # 0 => r.replay = After(conn[c].lastSent)
    BY <1>6, ReadReplayWrites
  <2>3. CASE client.cur = c
    <3>1. Current = conn[c] /\ Current' = r /\ conn[c].lastSent \in Nat
      BY <2>1, <2>2, <2>3, CurrentOfWrite, CurrentFacts
    <3>2. Increasing(r.replay) /\ \A x \in SeqsIn(r.replay) : conn[c].lastSent < x
      <4>1. CASE conn[c].lastSent = 0
        <5>1. r.replay = << >> /\ Len(<< >>) = 0
          BY <2>2, <4>1
        <5> QED
          BY <5>1 DEF Increasing, SeqsIn
      <4>2. CASE conn[c].lastSent # 0
        <5>1. log \in Seq(Event) /\ Increasing(log)
          BY <1>0, TypeFacts DEF LogInv
        <5>2. \A x \in SeqsIn(After(conn[c].lastSent)) : x \in Nat
          BY <5>1, <3>1, AfterFacts, SeqsFacts
        <5>3. /\ Increasing(After(conn[c].lastSent))
              /\ \A x \in SeqsIn(After(conn[c].lastSent)) : x > conn[c].lastSent
          BY <5>1, <3>1, AfterFacts
        <5> QED
          BY <5>2, <5>3, <3>1, <2>2, <4>2
      <4> QED
        BY <4>1, <4>2
    <3>3. LastGot' = LastGot
      BY <2>1 DEF LastGot
    <3> QED
      BY <2>1, <2>2, <2>3, <3>1, <3>2, <3>3, <1>0 DEF FollowsOn, ReceivedInOrder, InReplay
  <2>4. CASE client.cur # c
    BY <2>1, <2>2, <2>4, <1>0, FollowsOnWritten
  <2> QED
    BY <2>3, <2>4
<1>7. ASSUME NEW c \in Conns, SendReplay(c)
      PROVE  FollowsOn' /\ ReceivedInOrder'
  <2>1. /\ conn[c].st = "replaying" /\ conn[c].replay \in Seq(Event)
        /\ conn[c].replay # << >>
    BY <1>7, SendReplayWrites DEF SendReplay
  <2>2. PICK e \in Event : e = Head(conn[c].replay) /\ Receive(c, e)
    BY <1>7, SendReplayWrites
  <2>3. PICK r \in Connections :
          /\ conn' = [conn EXCEPT ![c] = r]
          /\ r.st = conn[c].st /\ r.replay = Tail(conn[c].replay)
          /\ r.lastSent = Larger(e.seq, conn[c].lastSent)
    BY <1>7, <2>2, SendReplayWrites
  <2>4. CASE client.cur = c
    <3>1. Current = conn[c] /\ conn[c].lastSent \in Nat
      BY <2>4, CurrentFacts
    <3>2. /\ SeqsIn(conn[c].replay) = SeqsIn(Tail(conn[c].replay)) \cup {e.seq}
          /\ Increasing(Tail(conn[c].replay))
          /\ \A n \in SeqsIn(Tail(conn[c].replay)) : e.seq < n
      BY <2>1, <2>2, <3>1, <1>0, TailFacts DEF FollowsOn
    <3>3. conn[c].lastSent < e.seq /\ e.seq \in Nat /\ e.seq <= MaxEvents
      BY <3>1, <3>2, <1>0, EventFacts, TypeFacts DEF FollowsOn, InReplay
    <3>4. r.lastSent = e.seq /\ e.seq \in 1 .. MaxEvents /\ LastGot < e.seq
      BY <2>3, <2>4, <3>1, <3>3, <1>0, TypeFacts DEF Larger, FollowsOn
    <3>5. client'.cur = client.cur /\ client'.got = Append(client.got, e.seq)
      BY <2>2, <2>4, <3>4, ReceiveWrites
    <3>6. Current' = r
      BY <2>3, <2>4, <3>5, CurrentOfWrite
    <3> QED
      BY <2>1, <2>3, <3>1, <3>2, <3>4, <3>5, <3>6, <1>0, FollowsOnMore
  <2>5. CASE client.cur # c
    <3>1. UNCHANGED client
      BY <2>2, <2>5 DEF Receive
    <3> QED
      BY <2>3, <2>5, <3>1, <1>0, FollowsOnWritten
  <2> QED
    BY <2>4, <2>5
<1>8. ASSUME NEW c \in Conns, GoLive(c)
      PROVE  FollowsOn' /\ ReceivedInOrder'
  <2>1. UNCHANGED client /\ conn[c].replay = << >>
    BY <1>8 DEF GoLive
  <2>2. PICK r \in Connections :
          /\ conn' = [conn EXCEPT ![c] = r]
          /\ r.st = "live" /\ r.replay = conn[c].replay
          /\ r.lastSent = conn[c].lastSent
    BY <1>8, GoLiveWrites
  <2>3. CASE client.cur = c
    <3>1. Current = conn[c] /\ Current' = r
      BY <2>1, <2>2, <2>3, CurrentOfWrite, CurrentFacts
    <3>2. LastGot' = LastGot
      BY <2>1 DEF LastGot
    <3> QED
      BY <2>1, <2>2, <2>3, <3>1, <3>2, <1>0 DEF FollowsOn, ReceivedInOrder, InReplay
  <2>4. CASE client.cur # c
    BY <2>1, <2>2, <2>4, <1>0, FollowsOnWritten
  <2> QED
    BY <2>3, <2>4
<1>9. ASSUME NEW c \in Conns, Forward(c)
      PROVE  FollowsOn' /\ ReceivedInOrder'
  <2>1. /\ conn[c].st = "live" /\ conn[c].ch \in Seq(Event) /\ conn[c].ch # << >>
    BY <1>9, ForwardWrites DEF Forward
  <2>2. PICK e \in Event : /\ e = Head(conn[c].ch)
                           /\ IsDuplicate(c, e) => client' = client
                           /\ ~ IsDuplicate(c, e) => Receive(c, e)
    BY <1>9, ForwardWrites
  <2>3. PICK r \in Connections :
          /\ conn' = [conn EXCEPT ![c] = r]
          /\ r.st = conn[c].st /\ r.replay = conn[c].replay
          /\ r.lastSent = Larger(e.seq, conn[c].lastSent)
    BY <1>9, <2>2, ForwardWrites
  <2>4. CASE client.cur = c /\ e.seq > conn[c].lastSent
    <3>1. Current = conn[c] /\ conn[c].lastSent \in Nat /\ conn[c].replay = << >>
      BY <2>1, <2>4, <1>0, CurrentFacts DEF FollowsOn
    <3>2. e.seq \in Nat /\ e.seq <= MaxEvents
      BY EventFacts, TypeFacts
    <3>3. r.lastSent = e.seq /\ e.seq \in 1 .. MaxEvents /\ LastGot < e.seq
      BY <2>3, <2>4, <3>1, <3>2, <1>0, TypeFacts DEF Larger, FollowsOn
    <3>4. Receive(c, e)
      BY <2>2, <2>4, <3>1, <3>2 DEF IsDuplicate
    <3>5. client'.cur = client.cur /\ client'.got = Append(client.got, e.seq)
      BY <2>4, <3>3, <3>4, ReceiveWrites
    <3>6. Current' = r
      BY <2>3, <2>4, <3>5, CurrentOfWrite
    <3> QED
      BY <2>3, <3>1, <3>3, <3>5, <3>6, <1>0, NoEvents, FollowsOnMore
  <2>5. CASE client.cur = c /\ ~ (e.seq > conn[c].lastSent)
    <3>1. Current = conn[c] /\ conn[c].lastSent \in Nat /\ e.seq \in Nat
      BY <2>5, CurrentFacts, EventFacts
    <3>2. r.lastSent = conn[c].lastSent
      BY <2>3, <2>5, <3>1 DEF Larger
    <3>3. UNCHANGED client
      <4>1. CASE IsDuplicate(c, e)
        BY <4>1, <2>2
      <4>2. CASE ~ IsDuplicate(c, e)
        <5>1. ~ (e.seq > 0)
          BY <4>2, <2>5, <3>1 DEF IsDuplicate
        <5> QED
          BY <4>2, <5>1, <2>2 DEF Receive
      <4> QED
        BY <4>1, <4>2
    <3> QED
      BY <2>3, <3>2, <3>3, <1>0, FollowsOnWritten
  <2>6. CASE client.cur # c
    <3>1. UNCHANGED client
      BY <2>2, <2>6 DEF Receive
    <3> QED
      BY <2>3, <2>6, <3>1, <1>0, FollowsOnWritten
  <2> QED
    BY <2>4, <2>5, <2>6
<1>10. ASSUME NEW c \in Conns, HandlerEnds(c)
       PROVE  FollowsOn' /\ ReceivedInOrder'
  <2>1. CASE client.cur = c
    <3>1. client'.cur = Nobody /\ client'.got = client.got
      BY <1>10, <2>1, HandlerEndsWrites
    <3> QED
      BY <3>1, <1>0, FollowsOnAlone
  <2>2. CASE client.cur # c
    <3>1. UNCHANGED client
      BY <1>10, <2>2 DEF HandlerEnds
    <3> QED
      BY <1>10, <2>2, <3>1, <1>0, HandlerEndsWrites, FollowsOnWritten
  <2> QED
    BY <2>1, <2>2
<1>11. CASE Disconnect
  <2>1. client'.cur = Nobody /\ client'.got = client.got
    BY <1>11, LeaveWrites DEF Disconnect
  <2> QED
    BY <2>1, <1>0, FollowsOnAlone
<1>12. CASE EventsCrash
  <2>1. client'.cur = Nobody /\ client'.got = client.got
    BY <1>12, CrashWrites
  <2> QED
    BY <2>1, <1>0, FollowsOnAlone
<1> QED
  BY <1>1, <1>2, <1>3, <1>4, <1>5, <1>6, <1>7, <1>8, <1>9, <1>10, <1>11, <1>12
  DEF EventsNext, Running, Publication, Serving, Mutate, Purge, PublishWithoutRecord,
      Release, eventVars

LEMMA OrderInit == EventsInit => OrderInv
<1> SUFFICES ASSUME EventsInit PROVE OrderInv
  OBVIOUS
<1>1. /\ log = << >> /\ client.cur = Nobody /\ client.got = << >>
      /\ Len(<< >>) = 0
  BY DEF EventsInit
<1>2. Current = NewConn
  BY <1>1, TypeFacts DEF Current
<1>3. Increasing(<< >>) /\ SeqsIn(<< >>) = {}
  BY <1>1 DEF Increasing, SeqsIn
<1>4. ReceivedInOrder
  BY <1>1 DEF ReceivedInOrder
<1> QED
  BY <1>1, <1>2, <1>3, <1>4, NewConnFacts, TypeFacts
  DEF OrderInv, LogInv, FollowsOn, InReplay

\* A client is never sent an event again, or an older one after a newer: not
\* by a replay that overlaps live events, not on its next connections, not by
\* the purge that publishes late, and not after a crash.
THEOREM ClientReceivesInOrder == EventsSpec => []ReceivedInOrder
<1> DEFINE Inv == EventsTypeOK /\ ClosedInv /\ OrderInv
<1>1. EventsInit => Inv
  BY TypesInit, ClosedInit, OrderInit
<1>2. Inv /\ [EventsNext]_eventVars => Inv'
  BY TypesStep, ClosedStep, LogStep, OrderStep DEF OrderInv
<1>3. Inv => ReceivedInOrder
  BY DEF OrderInv
<1> QED
  BY <1>1, <1>2, <1>3, PTL DEF EventsSpec

-----------------------------------------------------------------------------
(* The numbers of the mutations, and where they are.                       *)

\* Of the retained mutations of requests: all, and those not received.
Mutations == { log[k].seq : k \in { j \in 1 .. Len(log) : log[j].by \in Handlers } }
Missing == Mutations \ Got

\* What the holder of the lock, and the purge, have still to publish.
Unpublished == IF lock \in Handlers THEN SeqsIn(pub[lock].todo) ELSE {}
Purged == SeqsIn(pub[Purger].todo)

\* The holder of the lock found the client's subscription full.
Late == lock \in Handlers /\ client.cur \in pub[lock].slow

\* No number is above the last; a request without the lock has transient
\* events only; the numbers of the holder are above all that is on its way,
\* and no mutation lies between them.
NumbersInv ==
  /\ \A n \in InReplay \cup InChannel \cup Got : n <= lastSeq
  /\ \A n \in Unpublished \cup Purged : 1 <= n /\ n <= lastSeq
  /\ \A h \in Handlers : h # lock => SeqsIn(pub[h].todo) \subseteq {0}
  /\ lock \in Handlers => Increasing(pub[lock].todo)
  /\ \A n \in Unpublished, x \in InChannel \cup Purged : x < n
  /\ \A n \in Mutations, x \in Unpublished : x < n => n \in Unpublished
  /\ Purged \cap Mutations = {}

LEMMA NumberFacts ==
  ASSUME EventsTypeOK
  PROVE  /\ InReplay \subseteq Nat /\ InChannel \subseteq Nat /\ Got \subseteq Nat
         /\ Mutations \subseteq Nat /\ Missing \subseteq Nat
         /\ Unpublished \subseteq Nat /\ Purged \subseteq Nat
         /\ LastGot \in Nat /\ lastSeq \in Nat
<1>1. /\ \A p \in Publishers : pub[p].todo \in Seq(Event)
      /\ log \in Seq(Event) /\ lastSeq \in Nat
  BY TypeFacts DEF Publications
<1>2. InReplay \subseteq Nat /\ InChannel \subseteq Nat
  BY CurrentFacts, SeqsFacts DEF InReplay, InChannel
<1>3. \A p \in Publishers : SeqsIn(pub[p].todo) \subseteq Nat
  BY <1>1, SeqsFacts
<1>4. SeqsIn(log) \subseteq Nat /\ Mutations \subseteq SeqsIn(log)
  BY <1>1, SeqsFacts DEF Mutations, SeqsIn
<1> QED
  BY <1>1, <1>2, <1>3, <1>4, GotFacts, TypeFacts DEF Unpublished, Purged, Missing

LEMMA MutationsBound ==
  ASSUME LogInv
  PROVE  Mutations \subseteq 1 .. lastSeq
BY DEF LogInv, Mutations, SeqsIn

\* The new mutations are those of the commit.
LEMMA MutationsOfCommit ==
  ASSUME EventsTypeOK, LogInv, NEW p \in Publishers, NEW n \in Nat, lastSeq + n <= MaxEvents,
         log' = Recorded(Committed(p, n)), lastSeq' = lastSeq + n
  PROVE  /\ \A x \in Mutations' :
              x \in Mutations \/ (p \in Handlers /\ x \in lastSeq + 1 .. lastSeq + n)
<1> SUFFICES ASSUME NEW k \in 1 .. Len(log'), log'[k].by \in Handlers
             PROVE  \/ log'[k].seq \in Mutations
                    \/ p \in Handlers /\ log'[k].seq \in lastSeq + 1 .. lastSeq + n
  BY DEF Mutations
<1>1. \/ \E j \in 1 .. Len(log) : log'[k] = log[j]
      \/ log'[k].seq \in lastSeq + 1 .. lastSeq + n /\ log'[k].by = p
  BY CommitFacts
<1> QED
  BY <1>1 DEF Mutations

\* What a write of publisher p does to what is to be published.
LEMMA PublicationsOfWrite ==
  ASSUME EventsTypeOK, UNCHANGED lock, NEW p \in Publishers, NEW q \in Publications,
         pub' = [pub EXCEPT ![p] = q]
  PROVE  /\ p = lock => Unpublished' = SeqsIn(q.todo)
         /\ p # lock => Unpublished' = Unpublished
         /\ p = Purger => Purged' = SeqsIn(q.todo)
         /\ p # Purger => Purged' = Purged
         /\ p = lock => (Late' <=> client'.cur \in q.slow)
         /\ p # lock /\ client'.cur = client.cur => (Late' <=> Late)
         /\ \A h \in Publishers : h # p => pub'[h] = pub[h]
         /\ pub'[p] = q
<1>1. /\ pub'[p] = q /\ \A h \in Publishers : h # p => pub'[h] = pub[h]
      /\ lock \in Handlers => lock \in Publishers
      /\ Purger \in Publishers /\ Purger \notin Handlers /\ Nobody \notin Publishers
      /\ lock \in Handlers \/ lock = Nobody
  BY TypeFacts, StreamAssumption DEF Publishers
<1>2. p = lock => lock \in Handlers
  BY <1>1
<1>3. /\ p = lock => Unpublished' = SeqsIn(q.todo)
      /\ p # lock => Unpublished' = Unpublished
  BY <1>1, <1>2 DEF Unpublished
<1>4. /\ p = Purger => Purged' = SeqsIn(q.todo)
      /\ p # Purger => Purged' = Purged
  BY <1>1 DEF Purged
<1>5. /\ p = lock => (Late' <=> client'.cur \in q.slow)
      /\ p # lock /\ client'.cur = client.cur => (Late' <=> Late)
  BY <1>1, <1>2 DEF Late
<1> QED
  BY <1>1, <1>3, <1>4, <1>5

\* Nothing of the log or of the publishers changes.
LEMMA SameNumbers ==
  /\ UNCHANGED log => Mutations' = Mutations
  /\ UNCHANGED <<lock, pub>> => Unpublished' = Unpublished /\ Purged' = Purged
  /\ UNCHANGED <<lock, pub>> /\ client'.cur = client.cur => (Late' <=> Late)
  /\ UNCHANGED <<conn, client>> =>
       /\ InReplay' = InReplay /\ InChannel' = InChannel /\ Got' = Got
       /\ LastGot' = LastGot /\ Current' = Current
BY DEF Mutations, Unpublished, Purged, Late, InReplay, InChannel, Got, LastGot, Current

\* The client's side changes: nothing is new to it, or the channel is empty.
LEMMA NumbersOfClient ==
  ASSUME EventsTypeOK, NumbersInv, UNCHANGED <<log, lastSeq, lock, pub>>,
         InChannel' \subseteq InChannel,
         \A n \in InReplay' \cup Got' : n <= lastSeq
  PROVE  NumbersInv'
<1>1. Mutations' = Mutations /\ Unpublished' = Unpublished /\ Purged' = Purged
  BY SameNumbers
<1> QED
  BY <1>1 DEF NumbersInv

-----------------------------------------------------------------------------
(* The client's side of each step.                                         *)

LEMMA ViewSame ==
  ASSUME UNCHANGED client, Current' = Current
  PROVE  InReplay' = InReplay /\ InChannel' = InChannel /\ Got' = Got /\ LastGot' = LastGot
BY DEF InReplay, InChannel, Got, LastGot

LEMMA ViewOfLeave ==
  ASSUME client'.cur = Nobody, client'.got = client.got
  PROVE  /\ InReplay' = {} /\ InChannel' = {} /\ Got' = Got /\ LastGot' = LastGot
         /\ Current' = NewConn
<1>1. Current' = NewConn
  BY CurrentOfLeave
<1>2. SeqsIn(<< >>) = {}
  BY NoEvents
<1> QED
  BY <1>1, <1>2, NewConnFacts DEF InReplay, InChannel, Got, LastGot

LEMMA ViewOfConnect ==
  ASSUME EventsTypeOK, ClosedInv, NEW c \in Conns, Connect(c)
  PROVE  /\ InReplay' = {} /\ InChannel' = {} /\ Got' = Got /\ LastGot' = LastGot
         /\ Current'.st = "opened" /\ Current'.ch = << >> /\ Current'.replay = << >>
<1>1. PICK r \in Connections :
        /\ conn' = [conn EXCEPT ![c] = r] /\ r.st = "opened"
        /\ r.ch = conn[c].ch /\ r.replay = conn[c].replay
  BY ConnectWrites
<1>2. client'.cur = c /\ client'.got = client.got
  BY ConnectWrites
<1>3. Current' = r
  BY <1>1, <1>2, TypeFacts DEF Current
<1>4. r.ch = << >> /\ r.replay = << >>
  BY <1>1 DEF Connect, ClosedInv, UnmadeAreFresh
<1>5. SeqsIn(<< >>) = {}
  BY NoEvents
<1> QED
  BY <1>1, <1>2, <1>3, <1>4, <1>5 DEF InReplay, InChannel, Got, LastGot

\* A publisher drops or closes a subscription.
LEMMA ViewOfDrop ==
  ASSUME EventsTypeOK, UNCHANGED client, NEW c \in Conns, NEW r \in Connections,
         conn' = [conn EXCEPT ![c] = r], r.st = conn[c].st, r.ch = conn[c].ch,
         r.replay = conn[c].replay, r.lastSent = conn[c].lastSent
  PROVE  /\ InReplay' = InReplay /\ InChannel' = InChannel /\ Got' = Got /\ LastGot' = LastGot
         /\ Current'.st = Current.st /\ Current'.ch = Current.ch
         /\ Current'.lastSent = Current.lastSent
         /\ client.cur # c => Current'.registered = Current.registered
         /\ client.cur = c => Current'.registered = r.registered
                              /\ Current.registered = conn[c].registered
<1>1. client.cur = c => Current' = r /\ Current = conn[c]
  BY CurrentOfWrite, CurrentFacts
<1>2. client.cur # c => Current' = Current
  BY CurrentOfWrite
<1>3. /\ Current'.st = Current.st /\ Current'.ch = Current.ch
      /\ Current'.replay = Current.replay /\ Current'.lastSent = Current.lastSent
  BY <1>1, <1>2
<1> QED
  BY <1>1, <1>2, <1>3 DEF InReplay, InChannel, Got, LastGot

LEMMA ViewOfReadReplay ==
  ASSUME EventsTypeOK, OrderInv, NEW c \in Conns, ReadReplay(c)
  PROVE  /\ UNCHANGED client /\ Got' = Got /\ LastGot' = LastGot /\ InChannel' = InChannel
         /\ client.cur # c => Current' = Current
         /\ client.cur = c =>
              /\ InReplay = {} /\ InReplay' \subseteq SeqsIn(log)
              /\ LastGot = 0 => InReplay' = {}
              /\ Current = conn[c] /\ conn[c].lastSent = LastGot
              /\ conn'[c].replay = Current'.replay
              /\ Current'.ch = Current.ch /\ Current'.lastSent = Current.lastSent
              /\ Current'.registered = Current.registered
<1>1. UNCHANGED client /\ conn[c].st = "opened"
  BY DEF ReadReplay
<1>2. PICK r \in Connections :
        /\ conn' = [conn EXCEPT ![c] = r]
        /\ r.ch = conn[c].ch /\ r.lastSent = conn[c].lastSent
        /\ r.registered = conn[c].registered
        /\ conn[c].lastSent = 0 => r.replay = << >>
        /\ conn[c].lastSent # 0 => r.replay = After(conn[c].lastSent)
  BY ReadReplayWrites
<1>3. client.cur # c => Current' = Current
  BY <1>1, <1>2, CurrentOfWrite
<1>4. client.cur = c => Current = conn[c] /\ Current' = r /\ conn'[c] = r
  BY <1>1, <1>2, CurrentOfWrite, CurrentFacts, TypeFacts
<1>5. Got' = Got /\ LastGot' = LastGot
  BY <1>1 DEF Got, LastGot
<1>6. InChannel' = InChannel
  BY <1>2, <1>3, <1>4 DEF InChannel
<1>7. ASSUME client.cur = c
      PROVE  /\ InReplay = {} /\ InReplay' \subseteq SeqsIn(log)
             /\ LastGot = 0 => InReplay' = {}
             /\ conn[c].lastSent = LastGot
  <2>1. conn[c].lastSent \in Nat /\ conn[c].lastSent = LastGot /\ Current.replay = << >>
    BY <1>1, <1>4, <1>7, CurrentFacts DEF OrderInv, FollowsOn
  <2>2. SeqsIn(<< >>) = {}
    BY NoEvents
  <2>3. SeqsIn(After(conn[c].lastSent)) \subseteq SeqsIn(log)
    BY <2>1, TypeFacts, AfterFacts
  <2> QED
    BY <2>1, <2>2, <2>3, <1>2, <1>4, <1>7 DEF InReplay
<1> QED
  BY <1>1, <1>2, <1>3, <1>4, <1>5, <1>6, <1>7

LEMMA ViewOfSendReplay ==
  ASSUME EventsTypeOK, OrderInv, NEW c \in Conns, SendReplay(c)
  PROVE  /\ client.cur # c => UNCHANGED client /\ Current' = Current
         /\ client.cur = c => \E x \in 1 .. MaxEvents :
              /\ LastGot < x /\ InReplay = InReplay' \cup {x}
              /\ \A y \in InReplay' : x < y
              /\ Got' = Got \cup {x} /\ LastGot' = x /\ client'.cur = client.cur
              /\ InChannel' = InChannel /\ Current'.ch = Current.ch
              /\ Current'.st = Current.st /\ Current'.registered = Current.registered
              /\ Current'.lastSent = x /\ Current.lastSent = LastGot
<1>1. conn[c].replay \in Seq(Event) /\ conn[c].replay # << >>
  BY SendReplayWrites DEF SendReplay
<1>2. PICK e \in Event : e = Head(conn[c].replay) /\ Receive(c, e)
  BY SendReplayWrites
<1>3. PICK r \in Connections :
        /\ conn' = [conn EXCEPT ![c] = r]
        /\ r.st = conn[c].st /\ r.registered = conn[c].registered /\ r.ch = conn[c].ch
        /\ r.replay = Tail(conn[c].replay)
        /\ r.lastSent = Larger(e.seq, conn[c].lastSent)
  BY <1>2, SendReplayWrites
<1>4. ASSUME client.cur = c
      PROVE  \E x \in 1 .. MaxEvents :
              /\ LastGot < x /\ InReplay = InReplay' \cup {x}
              /\ \A y \in InReplay' : x < y
              /\ Got' = Got \cup {x} /\ LastGot' = x /\ client'.cur = client.cur
              /\ InChannel' = InChannel /\ Current'.ch = Current.ch
              /\ Current'.st = Current.st /\ Current'.registered = Current.registered
              /\ Current'.lastSent = x /\ Current.lastSent = LastGot
  <2>1. Current = conn[c] /\ conn[c].lastSent \in Nat /\ conn[c].lastSent = LastGot
    BY <1>4, CurrentFacts DEF OrderInv, FollowsOn
  <2>2. /\ SeqsIn(conn[c].replay) = SeqsIn(Tail(conn[c].replay)) \cup {e.seq}
        /\ \A n \in SeqsIn(Tail(conn[c].replay)) : e.seq < n
    BY <1>1, <1>2, <2>1, TailFacts DEF OrderInv, FollowsOn
  <2>3. conn[c].lastSent < e.seq /\ e.seq \in Nat /\ e.seq <= MaxEvents
    BY <2>1, <2>2, EventFacts, TypeFacts DEF OrderInv, FollowsOn, InReplay
  <2>4. r.lastSent = e.seq /\ e.seq \in 1 .. MaxEvents /\ LastGot < e.seq /\ e.seq > 0
    BY <1>3, <2>1, <2>3, TypeFacts DEF Larger
  <2>5. client'.cur = client.cur /\ client'.got = Append(client.got, e.seq)
    BY <1>2, <1>4, <2>4, ReceiveWrites
  <2>6. Current' = r
    BY <1>3, <1>4, <2>5, CurrentOfWrite
  <2>7. LastGot' = e.seq /\ Got' = Got \cup {e.seq}
    BY <2>4, <2>5, GotMore
  <2>8. InReplay' = SeqsIn(Tail(conn[c].replay)) /\ InReplay = SeqsIn(conn[c].replay)
        /\ InChannel' = InChannel
    BY <1>3, <2>1, <2>6 DEF InReplay, InChannel
  <2> QED
    BY <1>3, <2>1, <2>2, <2>4, <2>5, <2>6, <2>7, <2>8
<1>5. ASSUME client.cur # c
      PROVE  UNCHANGED client /\ Current' = Current
  <2>1. UNCHANGED client
    BY <1>2, <1>5 DEF Receive
  <2> QED
    BY <1>3, <1>5, <2>1, CurrentOfWrite
<1> QED
  BY <1>4, <1>5

LEMMA ViewOfGoLive ==
  ASSUME EventsTypeOK, NEW c \in Conns, GoLive(c)
  PROVE  /\ UNCHANGED client /\ Got' = Got /\ LastGot' = LastGot
         /\ InChannel' = InChannel /\ InReplay' = InReplay
         /\ Current'.ch = Current.ch /\ Current'.lastSent = Current.lastSent
         /\ Current'.registered = Current.registered
         /\ \/ Current'.st = Current.st
            \/ Current.st = "replaying" /\ Current'.st = "live"
<1>1. UNCHANGED client /\ conn[c].st = "replaying"
  BY DEF GoLive
<1>2. PICK r \in Connections :
        /\ conn' = [conn EXCEPT ![c] = r] /\ r.st = "live"
        /\ r.ch = conn[c].ch /\ r.lastSent = conn[c].lastSent
        /\ r.registered = conn[c].registered /\ r.replay = conn[c].replay
  BY GoLiveWrites
<1>3. client.cur # c => Current' = Current
  BY <1>1, <1>2, CurrentOfWrite
<1>4. client.cur = c => Current = conn[c] /\ Current' = r
  BY <1>1, <1>2, CurrentOfWrite, CurrentFacts
<1>5. Got' = Got /\ LastGot' = LastGot
  BY <1>1 DEF Got, LastGot
<1>6. InChannel' = InChannel /\ InReplay' = InReplay
  BY <1>2, <1>3, <1>4 DEF InChannel, InReplay
<1>7. CASE client.cur = c
  BY <1>1, <1>2, <1>4, <1>5, <1>6, <1>7
<1>8. CASE client.cur # c
  BY <1>1, <1>3, <1>5, <1>6, <1>8
<1> QED
  BY <1>7, <1>8

LEMMA ViewOfForward ==
  ASSUME EventsTypeOK, OrderInv, NEW c \in Conns, Forward(c)
  PROVE  /\ client.cur # c => UNCHANGED client /\ Current' = Current
         /\ client.cur = c => \E x \in Nat :
              /\ Current.ch # << >> /\ Head(Current.ch).seq = x
              /\ Current'.ch = Tail(Current.ch) /\ InChannel = InChannel' \cup {x}
              /\ InReplay = {} /\ InReplay' = {} /\ client'.cur = client.cur
              /\ Current.st = "live" /\ Current'.st = "live"
              /\ Current'.registered = Current.registered
              /\ \/ x <= LastGot /\ Got' = Got /\ LastGot' = LastGot
                 \/ x > LastGot /\ Got' = Got \cup {x} /\ LastGot' = x
<1>1. /\ conn[c].st = "live" /\ conn[c].ch \in Seq(Event) /\ conn[c].ch # << >>
  BY ForwardWrites DEF Forward
<1>2. PICK e \in Event : /\ e = Head(conn[c].ch)
                         /\ IsDuplicate(c, e) => client' = client
                         /\ ~ IsDuplicate(c, e) => Receive(c, e)
  BY ForwardWrites
<1>3. PICK r \in Connections :
        /\ conn' = [conn EXCEPT ![c] = r]
        /\ r.st = conn[c].st /\ r.registered = conn[c].registered
        /\ r.ch = Tail(conn[c].ch) /\ r.replay = conn[c].replay
  BY <1>2, ForwardWrites
<1>4. client'.cur = client.cur
  BY <1>2, ReceiveWrites
<1>5. ASSUME client.cur # c
      PROVE  UNCHANGED client /\ Current' = Current
  <2>1. UNCHANGED client
    BY <1>2, <1>5 DEF Receive
  <2> QED
    BY <1>3, <1>5, <2>1, CurrentOfWrite
<1>6. ASSUME client.cur = c
      PROVE  /\ Current.ch # << >> /\ Head(Current.ch).seq = e.seq
             /\ Current'.ch = Tail(Current.ch) /\ InChannel = InChannel' \cup {e.seq}
             /\ InReplay = {} /\ InReplay' = {}
             /\ Current.st = "live" /\ Current'.st = "live"
             /\ Current'.registered = Current.registered
             /\ \/ e.seq <= LastGot /\ Got' = Got /\ LastGot' = LastGot
                \/ e.seq > LastGot /\ Got' = Got \cup {e.seq} /\ LastGot' = e.seq
  <2>1. /\ Current = conn[c] /\ Current' = r /\ conn[c].lastSent = LastGot
        /\ conn[c].replay = << >>
    BY <1>1, <1>3, <1>4, <1>6, CurrentOfWrite, CurrentFacts DEF OrderInv, FollowsOn
  <2>2. SeqsIn(conn[c].ch) = SeqsIn(Tail(conn[c].ch)) \cup {e.seq}
    BY <1>1, <1>2, TailFacts
  <2>3. SeqsIn(<< >>) = {}
    BY NoEvents
  <2>4. e.seq \in Nat /\ e.seq <= MaxEvents /\ LastGot \in Nat
    BY EventFacts, GotFacts, TypeFacts
  <2>5. CASE e.seq > LastGot
    <3>1. ~ IsDuplicate(c, e) /\ e.seq \in 1 .. MaxEvents /\ e.seq > 0
      BY <2>1, <2>4, <2>5, TypeFacts DEF IsDuplicate
    <3>2. client'.got = Append(client.got, e.seq)
      BY <1>2, <1>6, <3>1, ReceiveWrites
    <3>3. LastGot' = e.seq /\ Got' = Got \cup {e.seq}
      BY <3>1, <3>2, GotMore
    <3> QED
      BY <1>1, <1>2, <1>3, <2>1, <2>2, <2>3, <2>5, <3>3 DEF InReplay, InChannel
  <2>6. CASE ~ (e.seq > LastGot)
    <3>1. IsDuplicate(c, e) \/ ~ (e.seq > 0)
      BY <2>1, <2>4, <2>6 DEF IsDuplicate
    <3>2. client'.got = client.got
      BY <1>2, <3>1, ReceiveWrites
    <3>3. LastGot' = LastGot /\ Got' = Got /\ e.seq <= LastGot
      BY <2>4, <2>6, <3>2 DEF LastGot, Got
    <3> QED
      BY <1>1, <1>2, <1>3, <2>1, <2>2, <2>3, <3>3 DEF InReplay, InChannel
  <2> QED
    BY <2>5, <2>6
<1>7. e.seq \in Nat
  BY EventFacts
<1> QED
  BY <1>4, <1>5, <1>6, <1>7

\* A publication moves one number, from its publisher to the channel.
LEMMA ViewOfPublish ==
  ASSUME EventsTypeOK, NumbersInv, NEW p \in Publishers, PublishEvent(p)
  PROVE  \E e \in Event :
           /\ InReplay' = InReplay /\ Got' = Got /\ LastGot' = LastGot
           /\ Current'.st = Current.st /\ Current'.registered = Current.registered
           /\ Current'.lastSent = Current.lastSent
           /\ client.cur \in Registered \ Full =>
                /\ InChannel' = InChannel \cup {e.seq} /\ Current.registered
                /\ Current'.ch = Append(Current.ch, e)
           /\ client.cur \notin Registered \ Full =>
                InChannel' = InChannel /\ Current'.ch = Current.ch
           /\ p = lock =>
                /\ Unpublished = Unpublished' \cup {e.seq} /\ Purged' = Purged
                /\ \A y \in Unpublished' : e.seq < y
                /\ Increasing(pub'[p].todo)
                /\ ~Late /\ (Late' <=> client.cur \in Full)
           /\ p # lock => Unpublished' = Unpublished /\ (Late' <=> Late)
           /\ p = Purger => Purged = Purged' \cup {e.seq}
           /\ p # lock /\ p # Purger => Purged' = Purged /\ e.seq = 0
           /\ \A h \in Publishers : h # p => pub'[h] = pub[h]
           /\ SeqsIn(pub'[p].todo) \subseteq SeqsIn(pub[p].todo)
<1>1. /\ pub[p].todo \in Seq(Event) /\ pub[p].todo # << >> /\ pub[p].slow = {}
  BY PublishEventWrites
<1>2. PICK q \in Publications :
        pub' = [pub EXCEPT ![p] = q] /\ q.todo = Tail(pub[p].todo) /\ q.slow = Full
  BY PublishEventWrites
<1>3. PICK e \in Event : e = Head(pub[p].todo)
  BY <1>1, TailFacts
<1>4. /\ SeqsIn(pub[p].todo) = SeqsIn(q.todo) \cup {e.seq}
      /\ Increasing(pub[p].todo) =>
           Increasing(q.todo) /\ \A y \in SeqsIn(q.todo) : e.seq < y
  BY <1>1, <1>2, <1>3, TailFacts
<1>5. UNCHANGED <<client, lock>>
  BY DEF PublishEvent
<1>6. /\ Current'.st = Current.st /\ Current'.replay = Current.replay
      /\ Current'.lastSent = Current.lastSent /\ Current'.registered = Current.registered
      /\ client.cur \in Registered \ Full =>
           Current.registered /\ Current'.ch = Append(Current.ch, e)
      /\ client.cur \notin Registered \ Full => Current'.ch = Current.ch
  BY <1>3, CurrentOfPublish
<1>7. InReplay' = InReplay /\ Got' = Got /\ LastGot' = LastGot
  BY <1>5, <1>6 DEF InReplay, Got, LastGot
<1>8. Current.ch \in Seq(Event)
  BY CurrentFacts
<1>9. /\ client.cur \in Registered \ Full => InChannel' = InChannel \cup {e.seq}
      /\ client.cur \notin Registered \ Full => InChannel' = InChannel
  BY <1>6, <1>8, AppendFacts DEF InChannel
<1>10. /\ p = lock => Unpublished' = SeqsIn(q.todo)
       /\ p # lock => Unpublished' = Unpublished
       /\ p = Purger => Purged' = SeqsIn(q.todo)
       /\ p # Purger => Purged' = Purged
       /\ p = lock => (Late' <=> client.cur \in q.slow)
       /\ p # lock => (Late' <=> Late)
       /\ \A h \in Publishers : h # p => pub'[h] = pub[h]
       /\ pub'[p] = q
  BY <1>2, <1>5, PublicationsOfWrite
<1>11. lock \in Handlers \cup {Nobody} /\ Nobody \notin Publishers /\ Purger \notin Handlers
       /\ p \in Handlers \cup {Purger}
  BY TypeFacts, StreamAssumption DEF Publishers
<1>12. ASSUME p = lock
       PROVE  /\ Unpublished = Unpublished' \cup {e.seq} /\ Purged' = Purged
              /\ \A y \in Unpublished' : e.seq < y
              /\ Increasing(pub'[p].todo)
              /\ ~Late /\ (Late' <=> client.cur \in Full)
  <2>1. lock \in Handlers /\ p # Purger
    BY <1>11, <1>12
  <2>2. Increasing(pub[p].todo) /\ Unpublished = SeqsIn(pub[p].todo) /\ ~Late
    BY <2>1, <1>1, <1>12 DEF NumbersInv, Unpublished, Late
  <2> QED
    BY <2>1, <2>2, <1>2, <1>4, <1>10, <1>12
<1>13. ASSUME p = Purger
       PROVE  Purged = Purged' \cup {e.seq}
  BY <1>4, <1>10, <1>13 DEF Purged
<1>14. ASSUME p # lock, p # Purger
       PROVE  e.seq = 0
  <2>1. p \in Handlers /\ SeqsIn(pub[p].todo) \subseteq {0}
    BY <1>11, <1>14 DEF NumbersInv
  <2> QED
    BY <2>1, <1>4
<1>15. SeqsIn(pub'[p].todo) \subseteq SeqsIn(pub[p].todo)
  BY <1>4, <1>10
<1> QED
  BY <1>6, <1>7, <1>9, <1>10, <1>12, <1>13, <1>14, <1>15

-----------------------------------------------------------------------------
(* The numbers stay in order.                                              *)

LEMMA NumbersInit == EventsInit => NumbersInv
<1> SUFFICES ASSUME EventsInit PROVE NumbersInv
  OBVIOUS
<1>1. /\ log = << >> /\ client.cur = Nobody /\ client.got = << >> /\ lock = Nobody
      /\ \A p \in Publishers : pub[p] = Quiet
  BY DEF EventsInit
<1>2. Current = NewConn
  BY <1>1, TypeFacts DEF Current
<1>3. InReplay = {} /\ InChannel = {}
  BY <1>2, NoEvents, NewConnFacts DEF InReplay, InChannel
<1>4. Got = {} /\ Mutations = {}
  <2>1. Len(<< >>) = 0
    OBVIOUS
  <2> QED
    BY <2>1, <1>1 DEF Got, SeqRange, Mutations
<1>5. Unpublished = {} /\ Purged = {}
  BY <1>1, NoEvents, QuietFacts, TypeFacts DEF Unpublished, Purged
<1>6. \A h \in Handlers : SeqsIn(pub[h].todo) \subseteq {0}
  BY <1>1, NoEvents, QuietFacts, TypeFacts
<1> QED
  BY <1>1, <1>3, <1>4, <1>5, <1>6, TypeFacts DEF NumbersInv

LEMMA NumbersOfMutate ==
  ASSUME EventsTypeOK, OrderInv, NumbersInv,
         NEW h \in Handlers, NEW n \in 1 .. MaxBatch, Mutate(h, n)
  PROVE  /\ NumbersInv'
         /\ \A x \in Mutations' : x \in Mutations \/ x \in lastSeq + 1 .. lastSeq + n
         /\ Unpublished = {} /\ Unpublished' = lastSeq + 1 .. lastSeq + n
         /\ ~Late /\ ~Late' /\ Purged' = Purged /\ UNCHANGED <<conn, client>>
<1>1. /\ n \in Nat /\ lastSeq \in Nat /\ h \in Publishers /\ lastSeq + n <= MaxEvents
      /\ UNCHANGED <<conn, client>> /\ lock = Nobody /\ lock' = h /\ lastSeq' = lastSeq + n
      /\ log' = Recorded(Committed(h, n))
  BY TypeFacts, StreamAssumption DEF Mutate
<1>2. PICK q \in Publications :
        pub' = [pub EXCEPT ![h] = q] /\ q.todo = Committed(h, n) /\ q.slow = {}
  BY MutateWrites
<1>3. /\ Increasing(q.todo) /\ SeqsIn(q.todo) = lastSeq + 1 .. lastSeq + n
  BY <1>1, <1>2, CommittedFacts
<1>4. pub'[h] = q /\ \A b \in Publishers : b # h => pub'[b] = pub[b]
  BY <1>1, <1>2, TypeFacts
<1>5. /\ InReplay' = InReplay /\ InChannel' = InChannel /\ Got' = Got
  BY <1>1, SameNumbers
<1>6. /\ Unpublished = {} /\ ~Late /\ Unpublished' = lastSeq + 1 .. lastSeq + n
      /\ ~Late' /\ Purged' = Purged
  BY <1>1, <1>2, <1>3, <1>4, TypeFacts DEF Unpublished, Late, Purged
<1>7. \A x \in Mutations' : x \in Mutations \/ x \in lastSeq + 1 .. lastSeq + n
  BY <1>1, MutationsOfCommit DEF OrderInv
<1>8. Mutations \subseteq 1 .. lastSeq
  BY MutationsBound DEF OrderInv
<1>9. /\ InReplay \subseteq Nat /\ InChannel \subseteq Nat /\ Got \subseteq Nat
      /\ Purged \subseteq Nat /\ Mutations \subseteq Nat
  BY NumberFacts
<1>10. \A x \in InReplay' \cup InChannel' \cup Got' : x <= lastSeq'
  BY <1>1, <1>5, <1>9 DEF NumbersInv
<1>11. \A x \in Unpublished' \cup Purged' : 1 <= x /\ x <= lastSeq'
  BY <1>1, <1>6, <1>9 DEF NumbersInv
<1>12. \A b \in Handlers : b # lock' => SeqsIn(pub'[b].todo) \subseteq {0}
  BY <1>1, <1>4, TypeFacts DEF NumbersInv
<1>13. Increasing(pub'[lock'].todo)
  BY <1>1, <1>3, <1>4
<1>14. \A m \in Unpublished', x \in InChannel' \cup Purged' : x < m
  BY <1>1, <1>5, <1>6, <1>9 DEF NumbersInv
<1>15. ASSUME NEW m \in Mutations', NEW x \in Unpublished', x < m
       PROVE  m \in Unpublished'
  <2>1. x \in Nat /\ lastSeq < x
    BY <1>1, <1>6
  <2>2. ASSUME m \in Mutations PROVE FALSE
    <3>1. m \in 1 .. lastSeq
      BY <2>2, <1>8
    <3> QED
      BY <3>1, <2>1, <1>1, <1>15
  <2> QED
    BY <2>2, <1>6, <1>7
<1>16. ASSUME NEW x \in Purged', x \in Mutations'
       PROVE  FALSE
  <2>1. x \in Nat /\ x <= lastSeq /\ x \notin Mutations
    BY <1>6, <1>9 DEF NumbersInv
  <2> QED
    BY <2>1, <1>1, <1>7, <1>16
<1>17. NumbersInv'
  BY <1>10, <1>11, <1>12, <1>13, <1>14, <1>15, <1>16 DEF NumbersInv
<1> QED
  BY <1>1, <1>6, <1>7, <1>17

LEMMA NumbersOfPurge ==
  ASSUME EventsTypeOK, OrderInv, NumbersInv, NEW n \in 1 .. MaxBatch, Purge(n)
  PROVE  /\ NumbersInv' /\ Mutations' \subseteq Mutations
         /\ Unpublished = {} /\ Unpublished' = {} /\ ~Late /\ ~Late'
         /\ UNCHANGED <<conn, client>>
<1>1. /\ n \in Nat /\ lastSeq \in Nat /\ Purger \in Publishers /\ lastSeq + n <= MaxEvents
      /\ UNCHANGED <<conn, client, lock>> /\ lock = Nobody /\ lastSeq' = lastSeq + n
      /\ log' = Recorded(Committed(Purger, n)) /\ Purger \notin Handlers
  BY TypeFacts, StreamAssumption DEF Purge
<1>2. PICK q \in Publications :
        pub' = [pub EXCEPT ![Purger] = q] /\ q.todo = Committed(Purger, n)
  BY PurgeWrites
<1>3. SeqsIn(q.todo) = lastSeq + 1 .. lastSeq + n
  BY <1>1, <1>2, CommittedFacts
<1>4. pub'[Purger] = q /\ \A b \in Publishers : b # Purger => pub'[b] = pub[b]
  BY <1>1, <1>2, TypeFacts
<1>5. InReplay' = InReplay /\ InChannel' = InChannel /\ Got' = Got
  BY <1>1, SameNumbers
<1>6. /\ Unpublished = {} /\ Unpublished' = {} /\ ~Late /\ ~Late'
      /\ Purged' = lastSeq + 1 .. lastSeq + n
  BY <1>1, <1>3, <1>4, TypeFacts DEF Unpublished, Late, Purged
<1>7. Mutations' \subseteq Mutations
  BY <1>1, MutationsOfCommit DEF OrderInv
<1>8. Mutations \subseteq 1 .. lastSeq
  BY MutationsBound DEF OrderInv
<1>9. InReplay \subseteq Nat /\ InChannel \subseteq Nat /\ Got \subseteq Nat
  BY NumberFacts
<1>10. \A x \in InReplay' \cup InChannel' \cup Got' : x <= lastSeq'
  BY <1>1, <1>5, <1>9 DEF NumbersInv
<1>11. \A x \in Unpublished' \cup Purged' : 1 <= x /\ x <= lastSeq'
  BY <1>1, <1>6
<1>12. \A b \in Handlers : b # lock' => SeqsIn(pub'[b].todo) \subseteq {0}
  BY <1>1, <1>4, TypeFacts DEF NumbersInv
<1>13. lock' \notin Handlers
  BY <1>1, TypeFacts
<1>14. Purged' \cap Mutations' = {}
  BY <1>1, <1>6, <1>7, <1>8
<1>15. NumbersInv'
  BY <1>6, <1>10, <1>11, <1>12, <1>13, <1>14 DEF NumbersInv
<1> QED
  BY <1>1, <1>6, <1>7, <1>15

LEMMA NumbersOfPublish ==
  ASSUME EventsTypeOK, NumbersInv, NEW p \in Publishers, PublishEvent(p)
  PROVE  NumbersInv'
<1>1. UNCHANGED <<log, lastSeq, lock, client>>
  BY DEF PublishEvent
<1>2. PICK e \in Event :
           /\ InReplay' = InReplay /\ Got' = Got
           /\ client.cur \in Registered \ Full => InChannel' = InChannel \cup {e.seq}
           /\ client.cur \notin Registered \ Full => InChannel' = InChannel
           /\ p = lock =>
                /\ Unpublished = Unpublished' \cup {e.seq} /\ Purged' = Purged
                /\ \A y \in Unpublished' : e.seq < y
                /\ Increasing(pub'[p].todo)
           /\ p # lock => Unpublished' = Unpublished
           /\ p = Purger => Purged = Purged' \cup {e.seq}
           /\ p # lock /\ p # Purger => Purged' = Purged /\ e.seq = 0
           /\ \A h \in Publishers : h # p => pub'[h] = pub[h]
           /\ SeqsIn(pub'[p].todo) \subseteq SeqsIn(pub[p].todo)
  BY ViewOfPublish
<1>3. Mutations' = Mutations
  BY <1>1, SameNumbers
<1>4. /\ InReplay \subseteq Nat /\ InChannel \subseteq Nat /\ Got \subseteq Nat
      /\ Unpublished \subseteq Nat /\ Purged \subseteq Nat /\ lastSeq \in Nat
      /\ Mutations \subseteq Nat /\ e.seq \in Nat
  BY NumberFacts, EventFacts
<1>5. InChannel' \subseteq InChannel \cup {e.seq}
  BY <1>2
<1>6. /\ Unpublished' \subseteq Unpublished /\ Purged' \subseteq Purged
      /\ e.seq \in Unpublished \/ e.seq \in Purged \/ e.seq = 0
  <2>1. CASE p = lock
    BY <2>1, <1>2
  <2>2. CASE p # lock /\ p = Purger
    BY <2>2, <1>2
  <2>3. CASE p # lock /\ p # Purger
    BY <2>3, <1>2
  <2> QED
    BY <2>1, <2>2, <2>3
<1>7. e.seq <= lastSeq
  BY <1>4, <1>6 DEF NumbersInv
<1>8. \A x \in InReplay' \cup InChannel' \cup Got' : x <= lastSeq'
  BY <1>1, <1>2, <1>5, <1>7 DEF NumbersInv
<1>9. \A x \in Unpublished' \cup Purged' : 1 <= x /\ x <= lastSeq'
  BY <1>1, <1>6 DEF NumbersInv
<1>10. ASSUME NEW h \in Handlers, h # lock'
       PROVE  SeqsIn(pub'[h].todo) \subseteq {0}
  <2>1. SeqsIn(pub[h].todo) \subseteq {0}
    BY <1>1, <1>10 DEF NumbersInv
  <2> QED
    BY <2>1, <1>2, TypeFacts
<1>11. lock' \in Handlers => Increasing(pub'[lock'].todo)
  BY <1>1, <1>2, TypeFacts DEF NumbersInv
<1>12. \A y \in Unpublished', x \in Purged' : x < y
  BY <1>6 DEF NumbersInv
<1>13. \A y \in Unpublished' : e.seq < y
  <2>1. CASE p = lock
    BY <2>1, <1>2
  <2>2. CASE p # lock /\ p = Purger
    BY <2>2, <1>2 DEF NumbersInv
  <2>3. CASE p # lock /\ p # Purger
    <3>1. \A y \in Unpublished' : y \in Nat /\ 1 <= y
      BY <1>4, <1>6 DEF NumbersInv
    <3> QED
      BY <2>3, <3>1, <1>2
  <2> QED
    BY <2>1, <2>2, <2>3
<1>14. \A y \in Unpublished', x \in InChannel' : x < y
  BY <1>5, <1>6, <1>13 DEF NumbersInv
<1>15. ASSUME NEW m \in Mutations', NEW x \in Unpublished', x < m
       PROVE  m \in Unpublished'
  <2>1. m \in Unpublished /\ m \in Nat /\ x \in Nat
    BY <1>3, <1>4, <1>6, <1>15 DEF NumbersInv
  <2>2. CASE p = lock
    <3>1. e.seq < x
      BY <2>2, <1>2
    <3> QED
      BY <2>1, <2>2, <3>1, <1>2, <1>4, <1>15
  <2>3. CASE p # lock
    BY <2>1, <2>3, <1>2
  <2> QED
    BY <2>2, <2>3
<1>16. Purged' \cap Mutations' = {}
  BY <1>3, <1>6 DEF NumbersInv
<1> QED
  BY <1>8, <1>9, <1>10, <1>11, <1>12, <1>14, <1>15, <1>16 DEF NumbersInv

LEMMA NumbersStep ==
  ASSUME EventsTypeOK, ClosedInv, OrderInv, NumbersInv, [EventsNext]_eventVars
  PROVE  NumbersInv'
<1>1. ASSUME NEW h \in Handlers, NEW n \in 1 .. MaxBatch, Mutate(h, n)
      PROVE  NumbersInv'
  BY <1>1, NumbersOfMutate
<1>2. ASSUME NEW n \in 1 .. MaxBatch, Purge(n)
      PROVE  NumbersInv'
  BY <1>2, NumbersOfPurge
<1>3. ASSUME NEW h \in Handlers, PublishWithoutRecord(h)
      PROVE  NumbersInv'
  <2>1. PICK q \in Publications : pub' = [pub EXCEPT ![h] = q] /\ SeqsIn(q.todo) = {0}
    BY <1>3, PublishWithoutRecordWrites
  <2>2. /\ h # lock /\ h \in Publishers /\ h # Purger
        /\ UNCHANGED <<log, lastSeq, lock, conn, client>>
    BY <1>3, TypeFacts DEF PublishWithoutRecord
  <2>3. /\ Unpublished' = Unpublished /\ Purged' = Purged
        /\ pub'[h] = q /\ \A b \in Publishers : b # h => pub'[b] = pub[b]
    BY <2>1, <2>2, PublicationsOfWrite
  <2>4. /\ Mutations' = Mutations /\ InReplay' = InReplay /\ InChannel' = InChannel
        /\ Got' = Got
    BY <2>2, SameNumbers
  <2>5. \A b \in Handlers : b # lock' => SeqsIn(pub'[b].todo) \subseteq {0}
    BY <2>1, <2>2, <2>3, TypeFacts DEF NumbersInv
  <2>6. lock' \in Handlers => Increasing(pub'[lock'].todo)
    BY <2>2, <2>3, TypeFacts DEF NumbersInv
  <2> QED
    BY <2>2, <2>3, <2>4, <2>5, <2>6 DEF NumbersInv
<1>4. ASSUME NEW h \in Handlers, Release(h)
      PROVE  NumbersInv'
  <2>1. /\ lock = h /\ pub[h] = Quiet /\ lock' = Nobody
        /\ UNCHANGED <<log, lastSeq, pub, conn, client>>
    BY <1>4 DEF Release
  <2>2. Unpublished' = {} /\ lock' \notin Handlers /\ Purged' = Purged
    BY <2>1, TypeFacts DEF Unpublished, Purged
  <2>3. /\ Mutations' = Mutations /\ InReplay' = InReplay /\ InChannel' = InChannel
        /\ Got' = Got
    BY <2>1, SameNumbers
  <2>4. SeqsIn(pub[h].todo) = {}
    BY <2>1, QuietFacts, NoEvents
  <2>5. \A b \in Handlers : SeqsIn(pub'[b].todo) \subseteq {0}
    BY <2>1, <2>4 DEF NumbersInv
  <2> QED
    BY <2>1, <2>2, <2>3, <2>5 DEF NumbersInv
<1>5. ASSUME NEW p \in Publishers, PublishEvent(p)
      PROVE  NumbersInv'
  BY <1>5, NumbersOfPublish
<1>6. ASSUME NEW p \in Publishers, NEW c \in Conns, DropSlow(p, c) \/ CloseSlow(p, c)
      PROVE  NumbersInv'
  <2>1. UNCHANGED <<log, lastSeq, lock, client>>
    BY <1>6 DEF DropSlow, CloseSlow
  <2>2. PICK q \in Publications : pub' = [pub EXCEPT ![p] = q] /\ q.todo = pub[p].todo
    BY <1>6, DropSlowWrites, CloseSlowWrites
  <2>3. PICK r \in Connections :
          /\ conn' = [conn EXCEPT ![c] = r]
          /\ r.st = conn[c].st /\ r.ch = conn[c].ch
          /\ r.replay = conn[c].replay /\ r.lastSent = conn[c].lastSent
    BY <1>6, DropSlowWrites, CloseSlowWrites, ZenonT(60)
  <2>4. InReplay' = InReplay /\ InChannel' = InChannel /\ Got' = Got
    BY <2>1, <2>3, ViewOfDrop
  <2>5. \A b \in Publishers : pub'[b].todo = pub[b].todo
    BY <2>2, TypeFacts
  <2>6. Unpublished' = Unpublished /\ Purged' = Purged /\ Mutations' = Mutations
    BY <2>1, <2>5, TypeFacts, SameNumbers DEF Unpublished, Purged
  <2>7. \A b \in Handlers : b # lock' => SeqsIn(pub'[b].todo) \subseteq {0}
    BY <2>1, <2>5, TypeFacts DEF NumbersInv
  <2>8. lock' \in Handlers => Increasing(pub'[lock'].todo)
    BY <2>1, <2>5, TypeFacts DEF NumbersInv
  <2> QED
    BY <2>1, <2>4, <2>6, <2>7, <2>8 DEF NumbersInv
<1>7. ASSUME NEW c \in Conns, Connect(c)
      PROVE  NumbersInv'
  <2>1. UNCHANGED <<log, lastSeq, lock, pub>>
    BY <1>7 DEF Connect
  <2>2. InReplay' = {} /\ InChannel' = {} /\ Got' = Got
    BY <1>7, ViewOfConnect
  <2>3. \A n \in InReplay' \cup Got' : n <= lastSeq
    BY <2>2 DEF NumbersInv
  <2> QED
    BY <2>1, <2>2, <2>3, NumbersOfClient
<1>8. ASSUME NEW c \in Conns, ReadReplay(c)
      PROVE  NumbersInv'
  <2>1. UNCHANGED <<log, lastSeq, lock, pub>>
    BY <1>8 DEF ReadReplay
  <2>2. /\ Got' = Got /\ InChannel' = InChannel
        /\ InReplay' \subseteq SeqsIn(log) \/ Current' = Current
    BY <1>8, ViewOfReadReplay
  <2>3. SeqsIn(log) \subseteq 1 .. lastSeq
    BY DEF OrderInv, LogInv
  <2>4. \A n \in InReplay' \cup Got' : n <= lastSeq
    BY <2>2, <2>3, TypeFacts DEF NumbersInv, InReplay
  <2> QED
    BY <2>1, <2>2, <2>4, NumbersOfClient
<1>9. ASSUME NEW c \in Conns, SendReplay(c)
      PROVE  NumbersInv'
  <2>1. UNCHANGED <<log, lastSeq, lock, pub>>
    BY <1>9 DEF SendReplay
  <2>2. CASE client.cur = c
    <3>1. PICK x \in 1 .. MaxEvents :
            /\ InReplay = InReplay' \cup {x} /\ Got' = Got \cup {x}
            /\ InChannel' = InChannel
      BY <1>9, <2>2, ViewOfSendReplay
    <3>2. \A n \in InReplay' \cup Got' : n <= lastSeq
      BY <3>1 DEF NumbersInv
    <3> QED
      BY <2>1, <3>1, <3>2, NumbersOfClient
  <2>3. CASE client.cur # c
    <3>1. InReplay' = InReplay /\ InChannel' = InChannel /\ Got' = Got
      BY <1>9, <2>3, ViewOfSendReplay, ViewSame
    <3>2. \A n \in InReplay' \cup Got' : n <= lastSeq
      BY <3>1 DEF NumbersInv
    <3> QED
      BY <2>1, <3>1, <3>2, NumbersOfClient
  <2> QED
    BY <2>2, <2>3
<1>10. ASSUME NEW c \in Conns, GoLive(c)
       PROVE  NumbersInv'
  <2>1. UNCHANGED <<log, lastSeq, lock, pub>>
    BY <1>10 DEF GoLive
  <2>2. InReplay' = InReplay /\ InChannel' = InChannel /\ Got' = Got
    BY <1>10, ViewOfGoLive
  <2>3. \A n \in InReplay' \cup Got' : n <= lastSeq
    BY <2>2 DEF NumbersInv
  <2> QED
    BY <2>1, <2>2, <2>3, NumbersOfClient
<1>11. ASSUME NEW c \in Conns, Forward(c)
       PROVE  NumbersInv'
  <2>1. UNCHANGED <<log, lastSeq, lock, pub>>
    BY <1>11 DEF Forward
  <2>2. CASE client.cur = c
    <3>1. PICK x \in Nat :
            /\ InChannel = InChannel' \cup {x} /\ InReplay' = {}
            /\ Got' = Got \/ Got' = Got \cup {x}
      BY <1>11, <2>2, ViewOfForward
    <3>2. \A n \in InReplay' \cup Got' : n <= lastSeq
      BY <3>1 DEF NumbersInv
    <3> QED
      BY <2>1, <3>1, <3>2, NumbersOfClient
  <2>3. CASE client.cur # c
    <3>1. InReplay' = InReplay /\ InChannel' = InChannel /\ Got' = Got
      BY <1>11, <2>3, ViewOfForward, ViewSame
    <3>2. \A n \in InReplay' \cup Got' : n <= lastSeq
      BY <3>1 DEF NumbersInv
    <3> QED
      BY <2>1, <3>1, <3>2, NumbersOfClient
  <2> QED
    BY <2>2, <2>3
<1>12. ASSUME NEW c \in Conns, HandlerEnds(c)
       PROVE  NumbersInv'
  <2>1. UNCHANGED <<log, lastSeq, lock, pub>>
    BY <1>12 DEF HandlerEnds
  <2>2. CASE client.cur = c
    <3>1. client'.cur = Nobody /\ client'.got = client.got
      BY <1>12, <2>2, HandlerEndsWrites
    <3>2. InReplay' = {} /\ InChannel' = {} /\ Got' = Got
      BY <3>1, ViewOfLeave
    <3>3. \A n \in InReplay' \cup Got' : n <= lastSeq
      BY <3>2 DEF NumbersInv
    <3> QED
      BY <2>1, <3>2, <3>3, NumbersOfClient
  <2>3. CASE client.cur # c
    <3>1. UNCHANGED client
      BY <1>12, <2>3 DEF HandlerEnds
    <3>2. Current' = Current
      BY <1>12, <2>3, <3>1, HandlerEndsWrites, CurrentOfWrite
    <3>3. InReplay' = InReplay /\ InChannel' = InChannel /\ Got' = Got
      BY <3>1, <3>2, ViewSame
    <3>4. \A n \in InReplay' \cup Got' : n <= lastSeq
      BY <3>3 DEF NumbersInv
    <3> QED
      BY <2>1, <3>3, <3>4, NumbersOfClient
  <2> QED
    BY <2>2, <2>3
<1>13. CASE Disconnect
  <2>1. client'.cur = Nobody /\ client'.got = client.got
    BY <1>13, LeaveWrites DEF Disconnect
  <2>2. InReplay' = {} /\ InChannel' = {} /\ Got' = Got
    BY <2>1, ViewOfLeave
  <2>3. \A n \in InReplay' \cup Got' : n <= lastSeq
    BY <2>2 DEF NumbersInv
  <2> QED
    BY <1>13, <2>2, <2>3, NumbersOfClient DEF Disconnect
<1>14. CASE EventsCrash
  <2>1. /\ client'.cur = Nobody /\ client'.got = client.got
        /\ \A p \in Publishers : pub'[p].todo = << >>
    BY <1>14, CrashWrites
  <2>2. InReplay' = {} /\ InChannel' = {} /\ Got' = Got
    BY <2>1, ViewOfLeave
  <2>3. UNCHANGED <<log, lastSeq>> /\ lock' = Nobody
    BY <1>14 DEF EventsCrash
  <2>4. \A p \in Publishers : SeqsIn(pub'[p].todo) = {}
    BY <2>1, NoEvents
  <2>5. Unpublished' = {} /\ Purged' = {} /\ lock' \notin Handlers
    BY <2>3, <2>4, TypeFacts DEF Unpublished, Purged
  <2>6. \A b \in Handlers : SeqsIn(pub'[b].todo) \subseteq {0}
    BY <2>4, TypeFacts
  <2> QED
    BY <2>2, <2>3, <2>5, <2>6 DEF NumbersInv
<1>15. CASE UNCHANGED eventVars
  <2>1. UNCHANGED <<log, lastSeq, lock, pub, conn, client>>
    BY <1>15 DEF eventVars
  <2>2. InReplay' = InReplay /\ InChannel' = InChannel /\ Got' = Got
    BY <2>1, SameNumbers
  <2>3. \A n \in InReplay' \cup Got' : n <= lastSeq
    BY <2>2 DEF NumbersInv
  <2> QED
    BY <2>1, <2>2, <2>3, NumbersOfClient
<1> QED
  BY <1>1, <1>2, <1>3, <1>4, <1>5, <1>6, <1>7, <1>8, <1>9, <1>10, <1>11, <1>12, <1>13,
     <1>14, <1>15
  DEF EventsNext, Running, Publication, Serving

-----------------------------------------------------------------------------
(* No mutation is missed while the replay is complete.                     *)

\* An event behind a mutation in the channel is newer.
ChannelInOrder ==
  \A k, l \in 1 .. Len(Current.ch) :
    k < l /\ Current.ch[l].seq \in Mutations => Current.ch[k].seq < Current.ch[l].seq

\* A mutation ahead of the connection is in its replay, or after all of it.
ReplayReaches ==
  \A n \in Mutations :
    Current.lastSent < n => n \in InReplay \/ \A x \in InReplay : x < n

\* A mutation that comes to the connection or came before, which the client
\* must not miss anything after.
Started == Current.st \in {"replaying", "live"}

Anchors == { m \in Mutations : m \in InReplay \cup InChannel \/ (Started /\ m \in Got) }

\* Number n is on its way to the client; or its connection is dropped, or is
\* about to be, and sends nothing that is newer.
Coming(n) ==
  \/ n \in InReplay \cup InChannel
  \/ n \in Unpublished /\ Current.registered /\ ~Late
  \/ /\ \A x \in InReplay \cup InChannel : x < n
     /\ ~Current.registered \/ (Late /\ \A x \in Purged : x < n)

FollowInv ==
  /\ ChannelInOrder /\ ReplayReaches
  /\ \A n \in Missing, m \in Mutations \cap Got : m < n => LastGot < n
  /\ \A n \in Missing : n \in Unpublished \cup InChannel => LastGot < n
  /\ \A m \in Anchors, n \in Missing : m < n => LastGot < n /\ Coming(n)

\* Without a connection there is nothing on its way.
LEMMA FollowOfNone ==
  ASSUME FollowInv, Mutations' = Mutations, Unpublished' \subseteq Unpublished,
         InReplay' = {}, InChannel' = {}, Current'.ch = << >>, ~Started',
         Got' = Got, LastGot' = LastGot
  PROVE  FollowInv'
<1>1. Missing' = Missing /\ Anchors' = {}
  BY DEF Missing, Anchors
<1>2. ChannelInOrder'
  <2>1. Len(<< >>) = 0
    OBVIOUS
  <2> QED
    BY <2>1 DEF ChannelInOrder
<1>3. ReplayReaches'
  BY DEF ReplayReaches
<1> QED
  BY <1>1, <1>2, <1>3 DEF FollowInv

\* The mutations retained become fewer, and nothing else that matters changes.
LEMMA FollowOfSame ==
  ASSUME FollowInv, Mutations' \subseteq Mutations, Unpublished' = Unpublished,
         InReplay' = InReplay, InChannel' = InChannel, Current'.ch = Current.ch,
         Current'.lastSent = Current.lastSent, Current'.registered = Current.registered,
         Started' => Started, Got' = Got, LastGot' = LastGot, Late' <=> Late,
         Late => Purged' \subseteq Purged
  PROVE  FollowInv'
<1>1. Missing' \subseteq Missing /\ Anchors' \subseteq Anchors
  BY DEF Missing, Anchors
<1>2. ChannelInOrder' /\ ReplayReaches'
  BY DEF FollowInv, ChannelInOrder, ReplayReaches
<1>3. \A n \in Missing : Coming(n) => Coming(n)'
  BY DEF Coming
<1> QED
  BY <1>1, <1>2, <1>3 DEF FollowInv

LEMMA FollowOfMutate ==
  ASSUME EventsTypeOK, OrderInv, NumbersInv, FollowInv,
         NEW h \in Handlers, NEW n \in 1 .. MaxBatch, Mutate(h, n)
  PROVE  FollowInv'
<1>1. /\ \A x \in Mutations' : x \in Mutations \/ x \in lastSeq + 1 .. lastSeq + n
      /\ Unpublished = {} /\ Unpublished' = lastSeq + 1 .. lastSeq + n
      /\ ~Late /\ ~Late' /\ Purged' = Purged /\ UNCHANGED <<conn, client>>
  BY NumbersOfMutate
<1>2. /\ InReplay' = InReplay /\ InChannel' = InChannel /\ Got' = Got /\ LastGot' = LastGot
      /\ Current' = Current
  BY <1>1, SameNumbers
<1>3. /\ InReplay \subseteq Nat /\ InChannel \subseteq Nat /\ Got \subseteq Nat
      /\ Mutations \subseteq Nat /\ LastGot \in Nat /\ lastSeq \in Nat /\ n \in Nat
  BY NumberFacts, StreamAssumption
<1>4. /\ \A x \in InReplay \cup InChannel \cup Got : x <= lastSeq
      /\ LastGot <= lastSeq
  BY <1>3, GotFacts DEF NumbersInv
\* What is new is above everything.
<1>5. \A x \in Mutations' : x \notin Mutations =>
        /\ x \in Unpublished' /\ lastSeq < x /\ LastGot < x /\ x \in Nat
        /\ \A y \in InReplay \cup InChannel \cup Got : y < x
  <2> SUFFICES ASSUME NEW x \in Mutations', x \notin Mutations
               PROVE  /\ x \in Unpublished' /\ lastSeq < x /\ LastGot < x /\ x \in Nat
                      /\ \A y \in InReplay \cup InChannel \cup Got : y < x
    OBVIOUS
  <2>1. x \in lastSeq + 1 .. lastSeq + n
    BY <1>1
  <2>2. x \in Nat /\ lastSeq < x
    BY <2>1, <1>3
  <2> QED
    BY <2>1, <2>2, <1>1, <1>3, <1>4
<1>6. \A x \in InReplay \cup InChannel \cup Got : x \in Mutations' => x \in Mutations
  BY <1>3, <1>5
<1>7. Anchors' \subseteq Anchors
  BY <1>2, <1>6 DEF Anchors, Started
<1>8. ChannelInOrder'
  <2>1. \A k \in 1 .. Len(Current.ch) : Current.ch[k].seq \in InChannel
    BY DEF InChannel, SeqsIn
  <2> QED
    BY <2>1, <1>2, <1>6 DEF FollowInv, ChannelInOrder
<1>9. ReplayReaches'
  BY <1>2, <1>5 DEF FollowInv, ReplayReaches
<1>10. ASSUME NEW x \in Missing', NEW m \in Mutations' \cap Got', m < x
       PROVE  LastGot' < x
  <2>1. m \in Mutations \cap Got
    BY <1>2, <1>6
  <2>2. CASE x \in Mutations
    <3>1. x \in Missing
      BY <2>2, <1>2 DEF Missing
    <3> QED
      BY <2>1, <3>1, <1>2, <1>10 DEF FollowInv
  <2>3. CASE x \notin Mutations
    BY <2>3, <1>2, <1>5 DEF Missing
  <2> QED
    BY <2>2, <2>3
<1>11. ASSUME NEW x \in Missing', x \in Unpublished' \cup InChannel'
       PROVE  LastGot' < x
  <2>1. CASE x \in Mutations
    <3>1. x \in Missing /\ x \in Nat /\ x <= lastSeq
      BY <2>1, <1>2, <1>3, MutationsBound DEF Missing, OrderInv
    <3>2. x \in InChannel
      BY <3>1, <1>1, <1>2, <1>3, <1>11
    <3> QED
      BY <3>1, <3>2, <1>2 DEF FollowInv
  <2>2. CASE x \notin Mutations
    BY <2>2, <1>2, <1>5 DEF Missing
  <2> QED
    BY <2>1, <2>2
<1>12. ASSUME NEW m \in Anchors', NEW x \in Missing', m < x
       PROVE  LastGot' < x /\ Coming(x)'
  <2>1. CASE x \in Mutations
    <3>1. x \in Missing
      BY <2>1, <1>2 DEF Missing
    <3>2. LastGot < x /\ Coming(x)
      BY <3>1, <1>7, <1>12 DEF FollowInv
    <3>3. Coming(x)'
      BY <3>2, <1>1, <1>2 DEF Coming
    <3> QED
      BY <3>2, <3>3, <1>2
  <2>2. CASE x \notin Mutations
    <3>1. /\ x \in Unpublished' /\ LastGot < x
          /\ \A y \in InReplay \cup InChannel : y < x
      BY <2>2, <1>5 DEF Missing
    <3>2. Coming(x)'
      BY <3>1, <1>1, <1>2 DEF Coming
    <3> QED
      BY <3>1, <3>2, <1>2
  <2> QED
    BY <2>1, <2>2
<1> QED
  BY <1>8, <1>9, <1>10, <1>11, <1>12 DEF FollowInv

LEMMA FollowOfPurge ==
  ASSUME EventsTypeOK, OrderInv, NumbersInv, FollowInv, NEW n \in 1 .. MaxBatch, Purge(n)
  PROVE  FollowInv'
<1>1. /\ Mutations' \subseteq Mutations
      /\ Unpublished = {} /\ Unpublished' = {} /\ ~Late /\ ~Late'
      /\ UNCHANGED <<conn, client>>
  BY NumbersOfPurge
<1>2. /\ InReplay' = InReplay /\ InChannel' = InChannel /\ Got' = Got /\ LastGot' = LastGot
      /\ Current' = Current
  BY <1>1, SameNumbers
<1>3. /\ Current'.ch = Current.ch /\ Current'.lastSent = Current.lastSent
      /\ Current'.registered = Current.registered /\ Started' = Started
  BY <1>2 DEF Started
<1> QED
  BY <1>1, <1>2, <1>3, FollowOfSame

\* A mutation that the holder of the lock is publishing, ahead of a registered
\* connection, is ahead of all that is in its channel and its replay or comes
\* with the replay.
LEMMA UnpublishedIsAhead ==
  ASSUME EventsTypeOK, OrderInv, NumbersInv, FollowInv, Current.registered,
         NEW n \in Missing, n \in Unpublished
  PROVE  /\ client.cur \in Conns /\ client.cur \in Registered /\ LastGot < n
         /\ \A x \in Purged : x < n
         /\ n \in InReplay \/ \A x \in InReplay \cup InChannel : x < n
<1>1. client.cur \in Conns /\ client.cur \in Registered
  <2>1. client.cur \in Conns
    BY NewConnFacts DEF Current
  <2> QED
    BY <2>1 DEF Current, Registered
<1>2. LastGot < n /\ n \in Mutations
  BY DEF FollowInv, Missing
<1>3. Current.lastSent < n
  BY <1>1, <1>2 DEF OrderInv, FollowsOn
<1>4. n \in InReplay \/ \A x \in InReplay : x < n
  BY <1>2, <1>3 DEF FollowInv, ReplayReaches
<1>5. \A x \in InChannel \cup Purged : x < n
  BY DEF NumbersInv
<1> QED
  BY <1>1, <1>2, <1>4, <1>5

LEMMA FollowOfPublish ==
  ASSUME EventsTypeOK, OrderInv, NumbersInv, FollowInv, NEW p \in Publishers, PublishEvent(p)
  PROVE  FollowInv'
<1>1. UNCHANGED <<log, lastSeq, lock, client>>
  BY DEF PublishEvent
<1>2. PICK e \in Event :
           /\ InReplay' = InReplay /\ Got' = Got /\ LastGot' = LastGot
           /\ Current'.st = Current.st /\ Current'.registered = Current.registered
           /\ Current'.lastSent = Current.lastSent
           /\ client.cur \in Registered \ Full =>
                /\ InChannel' = InChannel \cup {e.seq} /\ Current.registered
                /\ Current'.ch = Append(Current.ch, e)
           /\ client.cur \notin Registered \ Full =>
                InChannel' = InChannel /\ Current'.ch = Current.ch
           /\ p = lock =>
                /\ Unpublished = Unpublished' \cup {e.seq} /\ Purged' = Purged
                /\ ~Late /\ (Late' <=> client.cur \in Full)
           /\ p # lock => Unpublished' = Unpublished /\ (Late' <=> Late)
           /\ p = Purger => Purged = Purged' \cup {e.seq}
           /\ p # lock /\ p # Purger => Purged' = Purged /\ e.seq = 0
  BY ViewOfPublish
<1>3. Mutations' = Mutations /\ Missing' = Missing
  BY <1>1, <1>2, SameNumbers DEF Missing
<1>4. /\ Mutations \subseteq Nat /\ e.seq \in Nat
      /\ \A m \in Mutations : 1 <= m
  BY NumberFacts, EventFacts, MutationsBound DEF OrderInv
<1>5. e.seq \in Mutations => p = lock /\ e.seq \in Unpublished
  BY <1>2, <1>4 DEF NumbersInv
<1>6. InChannel \subseteq InChannel' /\ InChannel' \subseteq InChannel \cup {e.seq}
  BY <1>2
<1>7. ChannelInOrder'
  <2>1. CASE client.cur \notin Registered \ Full
    BY <2>1, <1>2, <1>3 DEF FollowInv, ChannelInOrder
  <2>2. CASE client.cur \in Registered \ Full
    <3>1. Current.ch \in Seq(Event)
      BY CurrentFacts
    <3>2. /\ Len(Current'.ch) = Len(Current.ch) + 1 /\ Len(Current.ch) \in Nat
          /\ \A k \in 1 .. Len(Current.ch) : Current'.ch[k] = Current.ch[k]
          /\ Current'.ch[Len(Current.ch) + 1] = e
      BY <2>2, <3>1, <1>2
    <3> SUFFICES ASSUME NEW k \in 1 .. Len(Current'.ch), NEW l \in 1 .. Len(Current'.ch),
                        k < l, Current'.ch[l].seq \in Mutations
                 PROVE  Current'.ch[k].seq < Current'.ch[l].seq
      BY <1>3 DEF ChannelInOrder
    <3>3. k \in 1 .. Len(Current.ch)
      BY <3>2
    <3>4. Current.ch[k].seq \in InChannel
      BY <3>3 DEF InChannel, SeqsIn
    <3>5. CASE l \in 1 .. Len(Current.ch)
      BY <3>2, <3>3, <3>5 DEF FollowInv, ChannelInOrder
    <3>6. CASE l = Len(Current.ch) + 1
      <4>1. e.seq \in Unpublished
        BY <3>2, <3>6, <1>5
      <4> QED
        BY <3>2, <3>3, <3>4, <3>6, <4>1 DEF NumbersInv
    <3> QED
      BY <3>2, <3>5, <3>6
  <2> QED
    BY <2>1, <2>2
<1>8. ReplayReaches'
  BY <1>2, <1>3 DEF FollowInv, ReplayReaches
<1>9. \A n \in Missing', m \in Mutations' \cap Got' : m < n => LastGot' < n
  BY <1>2, <1>3 DEF FollowInv
<1>10. Unpublished' \subseteq Unpublished
  BY <1>2
<1>11. \A n \in Missing' : n \in Unpublished' \cup InChannel' => LastGot' < n
  <2>1. ASSUME NEW n \in Missing, n \in Unpublished' \cup InChannel'
        PROVE  n \in Unpublished \cup InChannel
    BY <2>1, <1>5, <1>6, <1>10 DEF Missing
  <2> QED
    BY <2>1, <1>2, <1>3 DEF FollowInv
<1>12. ASSUME NEW m \in Anchors, NEW n \in Missing, m < n
       PROVE  LastGot < n /\ Coming(n)'
  <2>1. LastGot < n /\ Coming(n) /\ n \in Nat /\ 1 <= n
    BY <1>4, <1>12 DEF FollowInv, Missing
  <2>2. CASE n \in InReplay \cup InChannel
    BY <2>1, <2>2, <1>2, <1>6 DEF Coming
  <2>3. CASE n \in Unpublished /\ Current.registered /\ ~Late
    <3>1. /\ client.cur \in Registered /\ \A x \in Purged : x < n
          /\ n \in InReplay \/ \A x \in InReplay \cup InChannel : x < n
      BY <2>3, UnpublishedIsAhead
    <3>2. CASE p # lock
      BY <2>1, <2>3, <3>2, <1>2 DEF Coming
    <3>3. CASE p = lock /\ client.cur \in Full
      <4>1. Late' /\ InChannel' = InChannel /\ InReplay' = InReplay /\ Purged' = Purged
        BY <3>3, <1>2
      <4> QED
        BY <2>1, <3>1, <4>1 DEF Coming
    <3>4. CASE p = lock /\ client.cur \notin Full
      <4>1. /\ ~Late' /\ InChannel' = InChannel \cup {e.seq} /\ Current'.registered
            /\ Unpublished = Unpublished' \cup {e.seq}
        BY <2>3, <3>1, <3>4, <1>2
      <4> QED
        BY <2>1, <2>3, <4>1 DEF Coming
    <3> QED
      BY <3>2, <3>3, <3>4
  <2>4. CASE /\ \A x \in InReplay \cup InChannel : x < n
             /\ ~Current.registered
    <3>1. InChannel' = InChannel /\ ~Current'.registered
      BY <2>4, <1>2
    <3> QED
      BY <2>1, <2>4, <3>1, <1>2 DEF Coming
  <2>5. CASE /\ \A x \in InReplay \cup InChannel : x < n
             /\ Late /\ \A x \in Purged : x < n
    <3>1. p # lock /\ Late'
      BY <2>5, <1>2
    <3>2. Purged' \subseteq Purged /\ e.seq < n
      BY <2>1, <2>5, <3>1, <1>2
    <3> QED
      BY <2>1, <2>5, <3>1, <3>2, <1>2, <1>6 DEF Coming
  <2> QED
    BY <2>1, <2>2, <2>3, <2>4, <2>5 DEF Coming
<1>13. ASSUME NEW m \in Anchors', m \notin Anchors, NEW n \in Missing, m < n
       PROVE  LastGot < n /\ Coming(n)'
  <2>1. m = e.seq /\ m \in Mutations /\ client.cur \in Registered \ Full
    BY <1>2, <1>3, <1>6, <1>13 DEF Anchors, Started
  <2>2. p = lock /\ m \in Unpublished
    BY <2>1, <1>5
  <2>3. n \in Unpublished /\ n # e.seq
    BY <2>1, <2>2, <1>4, <1>13 DEF NumbersInv, Missing
  <2>4. n \in Unpublished' /\ ~Late' /\ Current'.registered
    BY <2>1, <2>2, <2>3, <1>2
  <2>5. LastGot < n
    BY <2>3 DEF FollowInv
  <2> QED
    BY <2>4, <2>5 DEF Coming
<1>14. \A m \in Anchors', n \in Missing' : m < n => LastGot' < n /\ Coming(n)'
  BY <1>2, <1>3, <1>12, <1>13
<1> QED
  BY <1>7, <1>8, <1>9, <1>11, <1>14 DEF FollowInv

LEMMA FollowOfDrop ==
  ASSUME EventsTypeOK, OrderInv, NumbersInv, FollowInv,
         NEW p \in Publishers, NEW c \in Conns, DropSlow(p, c)
  PROVE  FollowInv'
<1>1. UNCHANGED <<log, lastSeq, lock, client>>
  BY DEF DropSlow
<1>2. PICK q \in Publications :
        pub' = [pub EXCEPT ![p] = q] /\ q.todo = pub[p].todo /\ q.slow = pub[p].slow \ {c}
  BY DropSlowWrites
<1>3. PICK r \in Connections :
        /\ conn' = [conn EXCEPT ![c] = r]
        /\ r.st = conn[c].st /\ r.registered = FALSE /\ r.ch = conn[c].ch
        /\ r.replay = conn[c].replay /\ r.lastSent = conn[c].lastSent
  BY DropSlowWrites
<1>4. /\ InReplay' = InReplay /\ InChannel' = InChannel /\ Got' = Got /\ LastGot' = LastGot
      /\ Current'.st = Current.st /\ Current'.ch = Current.ch
      /\ Current'.lastSent = Current.lastSent
      /\ client.cur # c => Current'.registered = Current.registered
      /\ client.cur = c => ~Current'.registered
  BY <1>1, <1>3, ViewOfDrop
<1>5. \A b \in Publishers : pub'[b].todo = pub[b].todo
  BY <1>2, TypeFacts
<1>6. Unpublished' = Unpublished /\ Purged' = Purged /\ Mutations' = Mutations
  BY <1>1, <1>5, TypeFacts, SameNumbers DEF Unpublished, Purged
<1>7. client.cur # c => (Late' <=> Late)
  BY <1>1, <1>2, TypeFacts DEF Late
<1>8. Missing' = Missing /\ Anchors' = Anchors
  BY <1>4, <1>6 DEF Missing, Anchors, Started
<1>9. ChannelInOrder' /\ ReplayReaches'
  BY <1>4, <1>6 DEF FollowInv, ChannelInOrder, ReplayReaches
<1>10. ASSUME NEW n \in Missing, Coming(n)
       PROVE  Coming(n)'
  <2>1. CASE client.cur # c
    BY <2>1, <1>4, <1>6, <1>7, <1>10 DEF Coming
  <2>2. CASE n \in InReplay \cup InChannel
    BY <2>2, <1>4 DEF Coming
  <2>3. CASE client.cur = c /\ n \notin InReplay \cup InChannel
    <3>1. \A x \in InReplay \cup InChannel : x < n
      BY <2>3, <1>10, UnpublishedIsAhead DEF Coming
    <3> QED
      BY <2>3, <3>1, <1>4 DEF Coming
  <2> QED
    BY <2>1, <2>2, <2>3
<1> QED
  BY <1>4, <1>6, <1>8, <1>9, <1>10 DEF FollowInv

\* A connection that reads a complete replay has every mutation that is ahead.
LEMMA FollowOfReadReplay ==
  ASSUME EventsTypeOK, OrderInv, NumbersInv, FollowInv, FollowsOn',
         NEW c \in Conns, ReadReplay(c),
         conn[c].lastSent > 0 =>
           \A e \in SeqRange(log) : e.seq > conn[c].lastSent => e \in SeqRange(conn'[c].replay)
  PROVE  FollowInv'
<1>1. UNCHANGED <<log, lastSeq, lock, pub, client>> /\ conn[c].st = "opened"
  BY DEF ReadReplay
<1>2. /\ Mutations' = Mutations /\ Unpublished' = Unpublished /\ Purged' = Purged
      /\ Late' <=> Late
  BY <1>1, SameNumbers
<1>3. /\ Got' = Got /\ LastGot' = LastGot /\ InChannel' = InChannel
      /\ client.cur # c => Current' = Current
      /\ client.cur = c =>
           /\ InReplay = {} /\ InReplay' \subseteq SeqsIn(log)
           /\ LastGot = 0 => InReplay' = {}
           /\ Current = conn[c] /\ conn[c].lastSent = LastGot
           /\ conn'[c].replay = Current'.replay
           /\ Current'.ch = Current.ch /\ Current'.lastSent = Current.lastSent
           /\ Current'.registered = Current.registered
  BY ViewOfReadReplay
<1>4. CASE client.cur # c
  <2>1. InReplay' = InReplay /\ Started' = Started
    BY <1>3, <1>4 DEF InReplay, Started
  <2> QED
    BY <2>1, <1>2, <1>3, <1>4, FollowOfSame
<1>5. CASE client.cur = c /\ LastGot = 0
  <2>1. /\ Got = {} /\ InReplay' = InReplay /\ Missing' = Missing
    BY <1>2, <1>3, <1>5, GotFacts DEF Missing
  <2>2. Anchors' \subseteq Anchors
    BY <2>1, <1>2, <1>3 DEF Anchors
  <2>3. \A n : Coming(n) => Coming(n)'
    BY <2>1, <1>2, <1>3, <1>5 DEF Coming
  <2>4. ChannelInOrder' /\ ReplayReaches'
    BY <2>1, <1>2, <1>3, <1>5 DEF FollowInv, ChannelInOrder, ReplayReaches
  <2> QED
    BY <2>1, <2>2, <2>3, <2>4, <1>2, <1>3 DEF FollowInv
<1>6. CASE client.cur = c /\ LastGot # 0
  <2>1. \A n \in Mutations : LastGot < n => n \in InReplay'
    <3> SUFFICES ASSUME NEW k \in 1 .. Len(log), LastGot < log[k].seq
                 PROVE  log[k].seq \in InReplay'
      BY DEF Mutations
    <3>1. log[k] \in SeqRange(log) /\ LastGot \in Nat
      BY GotFacts DEF SeqRange
    <3>2. log[k].seq \in Nat
      BY TypeFacts, EventFacts, ElementOfSeq
    <3>3. log[k] \in SeqRange(conn'[c].replay)
      BY <3>1, <3>2, <1>3, <1>6
    <3> QED
      BY <3>3, <1>3, <1>6 DEF InReplay, SeqsIn, SeqRange
  <2>2. Missing' = Missing /\ Missing \subseteq Mutations
    BY <1>2, <1>3 DEF Missing
  <2>3. \A x \in InReplay' : LastGot < x
    BY <1>3, <1>6 DEF FollowsOn
  <2>4. ChannelInOrder' /\ ReplayReaches'
    BY <2>1, <1>2, <1>3, <1>6 DEF FollowInv, ChannelInOrder, ReplayReaches
  <2>5. ASSUME NEW m \in Anchors', NEW n \in Missing, m < n
        PROVE  LastGot < n /\ Coming(n)'
    <3>1. m \in Mutations /\ n \in Mutations
      BY <2>2, <1>2 DEF Anchors
    <3>2. CASE m \in InReplay'
      <4>1. m \in Nat /\ n \in Nat /\ LastGot \in Nat /\ LastGot < m
        BY <3>1, <3>2, <2>3, NumberFacts
      <4>2. LastGot < n
        BY <4>1, <2>5
      <4> QED
        BY <4>2, <3>1, <2>1 DEF Coming
    <3>3. CASE m \in InChannel
      <4>1. m \in Anchors
        BY <3>1, <3>3 DEF Anchors
      <4>2. LastGot < n
        BY <4>1, <2>5 DEF FollowInv
      <4> QED
        BY <4>2, <3>1, <2>1 DEF Coming
    <3>4. CASE m \in Got
      <4>1. LastGot < n
        BY <3>1, <3>4, <2>5 DEF FollowInv
      <4> QED
        BY <4>1, <3>1, <2>1 DEF Coming
    <3> QED
      BY <3>2, <3>3, <3>4, <1>3 DEF Anchors
  <2> QED
    BY <2>2, <2>4, <2>5, <1>2, <1>3 DEF FollowInv
<1> QED
  BY <1>4, <1>5, <1>6

LEMMA FollowOfSendReplay ==
  ASSUME EventsTypeOK, OrderInv, NumbersInv, FollowInv, NEW c \in Conns, SendReplay(c)
  PROVE  FollowInv'
<1>1. UNCHANGED <<log, lastSeq, lock, pub>> /\ conn[c].st = "replaying"
  BY DEF SendReplay
<1>2. Mutations' = Mutations /\ Unpublished' = Unpublished /\ Purged' = Purged
  BY <1>1, SameNumbers
<1>3. CASE client.cur # c
  <2>1. UNCHANGED client /\ Current' = Current
    BY <1>3, ViewOfSendReplay
  <2>2. /\ InReplay' = InReplay /\ InChannel' = InChannel /\ Got' = Got
        /\ LastGot' = LastGot /\ (Late' <=> Late) /\ Started' = Started
    BY <2>1, <1>1, ViewSame, SameNumbers DEF Started
  <2> QED
    BY <2>1, <2>2, <1>2, FollowOfSame
<1>4. CASE client.cur = c
  <2>1. PICK x \in 1 .. MaxEvents :
          /\ LastGot < x /\ InReplay = InReplay' \cup {x}
          /\ \A y \in InReplay' : x < y
          /\ Got' = Got \cup {x} /\ LastGot' = x /\ client'.cur = client.cur
          /\ InChannel' = InChannel /\ Current'.ch = Current.ch
          /\ Current'.st = Current.st /\ Current'.registered = Current.registered
          /\ Current'.lastSent = x /\ Current.lastSent = LastGot
    BY <1>4, ViewOfSendReplay
  <2>2. Late' <=> Late
    BY <2>1, <1>1, SameNumbers
  <2>3. Started
    BY <1>1, <1>4, CurrentFacts DEF Started
  <2>4. Missing' = Missing \ {x}
    BY <2>1, <1>2 DEF Missing
  <2>5. \A n \in Mutations : LastGot < n /\ n # x => x < n
    BY <2>1 DEF FollowInv, ReplayReaches
  <2>6. Anchors' \subseteq Anchors
    BY <2>1, <2>3, <1>2 DEF Anchors
  <2>7. ChannelInOrder'
    BY <2>1, <1>2 DEF FollowInv, ChannelInOrder
  <2>8. ReplayReaches'
    <3> SUFFICES ASSUME NEW n \in Mutations, x < n
                 PROVE  n \in InReplay' \/ \A y \in InReplay' : y < n
      BY <2>1, <1>2 DEF ReplayReaches
    <3>1. n \in Nat /\ x \in Nat /\ LastGot \in Nat
      BY NumberFacts, TypeFacts
    <3>2. LastGot < n /\ n # x
      BY <3>1, <2>1
    <3> QED
      BY <3>2, <2>1 DEF FollowInv, ReplayReaches
  <2>9. ASSUME NEW n \in Missing', NEW m \in Mutations \cap Got', m < n
        PROVE  x < n
    <3>1. n \in Missing /\ n # x /\ n \in Mutations
      BY <2>4 DEF Missing
    <3>2. CASE m \in Got
      BY <3>1, <3>2, <2>5, <2>9 DEF FollowInv
    <3>3. CASE m = x
      BY <3>3, <2>9
    <3> QED
      BY <3>2, <3>3, <2>1
  <2>10. ASSUME NEW n \in Missing', n \in Unpublished \cup InChannel
         PROVE  x < n
    BY <2>4, <2>5, <2>10 DEF FollowInv, Missing
  <2>11. ASSUME NEW m \in Anchors, NEW n \in Missing', m < n
         PROVE  x < n /\ Coming(n)'
    <3>1. LastGot < n /\ Coming(n) /\ n # x /\ n \in Mutations
      BY <2>4, <2>11 DEF FollowInv, Missing
    <3>2. Coming(n)'
      BY <3>1, <2>1, <2>2, <1>2 DEF Coming
    <3> QED
      BY <3>1, <3>2, <2>5
  <2> QED
    BY <2>1, <2>6, <2>7, <2>8, <2>9, <2>10, <2>11, <1>2 DEF FollowInv
<1> QED
  BY <1>3, <1>4

LEMMA FollowOfForward ==
  ASSUME EventsTypeOK, OrderInv, NumbersInv, FollowInv, NEW c \in Conns, Forward(c)
  PROVE  FollowInv'
<1>1. UNCHANGED <<log, lastSeq, lock, pub>>
  BY DEF Forward
<1>2. Mutations' = Mutations /\ Unpublished' = Unpublished /\ Purged' = Purged
  BY <1>1, SameNumbers
<1>3. CASE client.cur # c
  <2>1. UNCHANGED client /\ Current' = Current
    BY <1>3, ViewOfForward
  <2>2. /\ InReplay' = InReplay /\ InChannel' = InChannel /\ Got' = Got
        /\ LastGot' = LastGot /\ (Late' <=> Late) /\ Started' = Started
    BY <2>1, <1>1, ViewSame, SameNumbers DEF Started
  <2> QED
    BY <2>1, <2>2, <1>2, FollowOfSame
<1>4. CASE client.cur = c
  <2>1. PICK x \in Nat :
          /\ Current.ch # << >> /\ Head(Current.ch).seq = x
          /\ Current'.ch = Tail(Current.ch) /\ InChannel = InChannel' \cup {x}
          /\ InReplay = {} /\ InReplay' = {} /\ client'.cur = client.cur
          /\ Current.st = "live" /\ Current'.st = "live"
          /\ Current'.registered = Current.registered
          /\ \/ x <= LastGot /\ Got' = Got /\ LastGot' = LastGot
             \/ x > LastGot /\ Got' = Got \cup {x} /\ LastGot' = x
    BY <1>4, ViewOfForward
  <2>2. Late' <=> Late
    BY <2>1, <1>1, SameNumbers
  <2>3. Started
    BY <2>1 DEF Started
  <2>4. /\ Len(Current.ch) \in Nat /\ Len(Current.ch) > 0
        /\ Len(Current'.ch) = Len(Current.ch) - 1
        /\ \A i \in 1 .. Len(Current'.ch) : Current'.ch[i] = Current.ch[i + 1]
        /\ Current.ch[1].seq = x
    BY <2>1, CurrentFacts, TailFacts
  <2>5. ChannelInOrder'
    <3> SUFFICES ASSUME NEW k \in 1 .. Len(Current'.ch), NEW l \in 1 .. Len(Current'.ch),
                        k < l, Current'.ch[l].seq \in Mutations
                 PROVE  Current'.ch[k].seq < Current'.ch[l].seq
      BY <1>2 DEF ChannelInOrder
    <3>1. /\ k + 1 \in 1 .. Len(Current.ch) /\ l + 1 \in 1 .. Len(Current.ch)
          /\ k + 1 < l + 1
      <4>1. Len(Current'.ch) \in Nat /\ k \in Nat /\ l \in Nat
        BY <2>4
      <4> QED
        BY <4>1, <2>4
    <3>2. Current'.ch[k] = Current.ch[k + 1] /\ Current'.ch[l] = Current.ch[l + 1]
      BY <2>4
    <3> QED
      BY <3>1, <3>2 DEF FollowInv, ChannelInOrder
  <2>6. ReplayReaches'
    BY <2>1 DEF ReplayReaches
  <2>7. \A n \in Mutations : n \in InChannel /\ n # x => x < n
    <3> SUFFICES ASSUME NEW l \in 1 .. Len(Current.ch), Current.ch[l].seq \in Mutations,
                        Current.ch[l].seq # x
                 PROVE  x < Current.ch[l].seq
      BY DEF InChannel, SeqsIn
    <3>1. l # 1 /\ 1 \in 1 .. Len(Current.ch) /\ 1 < l
      BY <2>4
    <3> QED
      BY <3>1, <2>4 DEF FollowInv, ChannelInOrder
  <2>8. \A n \in Unpublished : x < n
    BY <2>1 DEF NumbersInv
  <2>9. \A n \in Mutations : Coming(n) /\ n # x => x < n
    BY <2>1, <2>7, <2>8 DEF Coming
  <2>10. Anchors' \subseteq Anchors
    BY <2>1, <2>3, <1>2 DEF Anchors
  <2>11. Missing' \subseteq Missing /\ Missing \subseteq Mutations
    BY <2>1, <1>2 DEF Missing
  <2>12. ASSUME NEW n \in Missing', LastGot < n, Coming(n)
         PROVE  LastGot' < n /\ Coming(n)'
    <3>1. n \in Mutations /\ n \in Missing /\ n \notin Got' /\ n \in Nat /\ LastGot \in Nat
      BY <2>11, NumberFacts DEF Missing
    <3>2. n # x
      BY <3>1, <2>1, <2>12
    <3>3. LastGot' < n
      BY <3>1, <3>2, <2>1, <2>9, <2>12
    <3>4. Coming(n)'
      BY <3>2, <2>1, <2>2, <2>12, <1>2 DEF Coming
    <3> QED
      BY <3>3, <3>4
  <2>13. ASSUME NEW n \in Missing', NEW m \in Mutations \cap Got', m < n
         PROVE  LastGot' < n
    <3>1. CASE m \in Got
      <4>1. m \in Anchors /\ n \in Missing
        BY <3>1, <2>3, <2>11 DEF Anchors
      <4> QED
        BY <4>1, <2>12, <2>13 DEF FollowInv
    <3>2. CASE m \notin Got
      BY <3>2, <2>1, <2>13
    <3> QED
      BY <3>1, <3>2
  <2>14. ASSUME NEW n \in Missing', n \in Unpublished \cup InChannel'
         PROVE  LastGot' < n
    <3>1. n \in Missing /\ n \in Mutations /\ n \in Unpublished \cup InChannel
      BY <2>1, <2>11, <2>14
    <3>2. LastGot < n
      BY <3>1 DEF FollowInv
    <3>3. CASE LastGot' = LastGot
      BY <3>2, <3>3
    <3>4. CASE LastGot' = x /\ Got' = Got \cup {x}
      <4>1. n # x
        BY <3>4, <2>14 DEF Missing
      <4> QED
        BY <3>1, <3>4, <4>1, <2>7, <2>8
    <3> QED
      BY <3>3, <3>4, <2>1
  <2>15. ASSUME NEW m \in Anchors', NEW n \in Missing', m < n
         PROVE  LastGot' < n /\ Coming(n)'
    BY <2>10, <2>11, <2>12, <2>15 DEF FollowInv
  <2> QED
    BY <2>5, <2>6, <2>13, <2>14, <2>15, <1>2 DEF FollowInv
<1> QED
  BY <1>3, <1>4

LEMMA FollowInit == EventsInit => FollowInv
<1> SUFFICES ASSUME EventsInit PROVE FollowInv
  OBVIOUS
<1>1. log = << >> /\ client.cur = Nobody
  BY DEF EventsInit
<1>2. Current = NewConn
  BY <1>1, TypeFacts DEF Current
<1>3. Len(<< >>) = 0
  OBVIOUS
<1>4. Mutations = {} /\ Missing = {}
  BY <1>1, <1>3 DEF Mutations, Missing
<1>5. ChannelInOrder
  BY <1>4 DEF ChannelInOrder
<1>6. ReplayReaches /\ Anchors = {}
  BY <1>4 DEF ReplayReaches, Anchors
<1> QED
  BY <1>4, <1>5, <1>6 DEF FollowInv

\* The replay that a step reads leaves out nothing retained.
CompleteReplayRead ==
  \A c \in Conns : ReadReplay(c) /\ conn[c].lastSent > 0 =>
    \A e \in SeqRange(log) :
      e.seq > conn[c].lastSent => e \in SeqRange(conn'[c].replay)

LEMMA FollowStep ==
  ASSUME EventsTypeOK, ClosedInv, OrderInv, NumbersInv, FollowInv, FollowsOn',
         CompleteReplayRead, [EventsNext]_eventVars
  PROVE  FollowInv'
<1>1. ASSUME NEW h \in Handlers, NEW n \in 1 .. MaxBatch, Mutate(h, n)
      PROVE  FollowInv'
  BY <1>1, FollowOfMutate
<1>2. ASSUME NEW n \in 1 .. MaxBatch, Purge(n)
      PROVE  FollowInv'
  BY <1>2, FollowOfPurge
<1>3. ASSUME NEW h \in Handlers, PublishWithoutRecord(h)
      PROVE  FollowInv'
  <2>1. PICK q \in Publications : pub' = [pub EXCEPT ![h] = q]
    BY <1>3, PublishWithoutRecordWrites
  <2>2. /\ h # lock /\ h \in Publishers /\ h # Purger
        /\ UNCHANGED <<log, lastSeq, lock, conn, client>>
    BY <1>3, TypeFacts DEF PublishWithoutRecord
  <2>3. Unpublished' = Unpublished /\ Purged' = Purged /\ (Late' <=> Late)
    BY <2>1, <2>2, PublicationsOfWrite
  <2>4. /\ Mutations' = Mutations /\ InReplay' = InReplay /\ InChannel' = InChannel
        /\ Got' = Got /\ LastGot' = LastGot /\ Current' = Current
    BY <2>2, SameNumbers
  <2> QED
    BY <2>3, <2>4, FollowOfSame DEF Started
<1>4. ASSUME NEW h \in Handlers, Release(h)
      PROVE  FollowInv'
  <2>1. /\ lock = h /\ pub[h] = Quiet /\ lock' = Nobody
        /\ UNCHANGED <<log, lastSeq, pub, conn, client>>
    BY <1>4 DEF Release
  <2>2. Unpublished' = {} /\ Unpublished = {} /\ ~Late /\ ~Late'
    BY <2>1, TypeFacts, QuietFacts, NoEvents DEF Unpublished, Late
  <2>3. /\ Mutations' = Mutations /\ InReplay' = InReplay /\ InChannel' = InChannel
        /\ Got' = Got /\ LastGot' = LastGot /\ Current' = Current
    BY <2>1, SameNumbers
  <2> QED
    BY <2>2, <2>3, FollowOfSame DEF Started
<1>5. ASSUME NEW p \in Publishers, PublishEvent(p)
      PROVE  FollowInv'
  BY <1>5, FollowOfPublish
<1>6. ASSUME NEW p \in Publishers, NEW c \in Conns, DropSlow(p, c)
      PROVE  FollowInv'
  BY <1>6, FollowOfDrop
<1>7. ASSUME NEW p \in Publishers, NEW c \in Conns, CloseSlow(p, c)
      PROVE  FollowInv'
  <2>1. UNCHANGED <<log, lastSeq, lock, client>>
    BY <1>7 DEF CloseSlow
  <2>2. PICK q \in Publications :
          pub' = [pub EXCEPT ![p] = q] /\ q.todo = pub[p].todo /\ q.slow = pub[p].slow
    BY <1>7, CloseSlowWrites
  <2>3. PICK r \in Connections :
          /\ conn' = [conn EXCEPT ![c] = r]
          /\ r.st = conn[c].st /\ r.registered = conn[c].registered /\ r.ch = conn[c].ch
          /\ r.replay = conn[c].replay /\ r.lastSent = conn[c].lastSent
    BY <1>7, CloseSlowWrites
  <2>4. /\ InReplay' = InReplay /\ InChannel' = InChannel /\ Got' = Got /\ LastGot' = LastGot
        /\ Current'.st = Current.st /\ Current'.ch = Current.ch
        /\ Current'.lastSent = Current.lastSent
        /\ client.cur # c => Current'.registered = Current.registered
        /\ client.cur = c => Current'.registered = r.registered
                             /\ Current.registered = conn[c].registered
    BY <2>1, <2>3, ViewOfDrop
  <2>5. Current'.registered = Current.registered
    BY <2>3, <2>4
  <2>6. \A b \in Publishers : pub'[b].todo = pub[b].todo /\ pub'[b].slow = pub[b].slow
    BY <2>2, TypeFacts
  <2>7. /\ Unpublished' = Unpublished /\ Purged' = Purged /\ Mutations' = Mutations
        /\ Late' <=> Late
    BY <2>1, <2>6, TypeFacts, SameNumbers DEF Unpublished, Purged, Late
  <2> QED
    BY <2>4, <2>5, <2>7, FollowOfSame DEF Started
<1>8. ASSUME NEW c \in Conns, Connect(c)
      PROVE  FollowInv'
  <2>1. UNCHANGED <<log, lastSeq, lock, pub>>
    BY <1>8 DEF Connect
  <2>2. /\ InReplay' = {} /\ InChannel' = {} /\ Got' = Got /\ LastGot' = LastGot
        /\ Current'.st = "opened" /\ Current'.ch = << >>
    BY <1>8, ViewOfConnect
  <2>3. ~Started'
    BY <2>2 DEF Started
  <2> QED
    BY <2>1, <2>2, <2>3, SameNumbers, FollowOfNone
<1>9. ASSUME NEW c \in Conns, ReadReplay(c)
      PROVE  FollowInv'
  BY <1>9, FollowOfReadReplay DEF CompleteReplayRead
<1>10. ASSUME NEW c \in Conns, SendReplay(c)
       PROVE  FollowInv'
  BY <1>10, FollowOfSendReplay
<1>11. ASSUME NEW c \in Conns, GoLive(c)
       PROVE  FollowInv'
  <2>1. UNCHANGED <<log, lastSeq, lock, pub>>
    BY <1>11 DEF GoLive
  <2>2. /\ UNCHANGED client /\ Got' = Got /\ LastGot' = LastGot
        /\ InChannel' = InChannel /\ InReplay' = InReplay
        /\ Current'.ch = Current.ch /\ Current'.lastSent = Current.lastSent
        /\ Current'.registered = Current.registered
        /\ Started' => Started
    BY <1>11, ViewOfGoLive DEF Started
  <2> QED
    BY <2>1, <2>2, SameNumbers, FollowOfSame
<1>12. ASSUME NEW c \in Conns, Forward(c)
       PROVE  FollowInv'
  BY <1>12, FollowOfForward
<1>13. ASSUME NEW c \in Conns, HandlerEnds(c)
       PROVE  FollowInv'
  <2>1. UNCHANGED <<log, lastSeq, lock, pub>>
    BY <1>13 DEF HandlerEnds
  <2>2. CASE client.cur = c
    <3>1. client'.cur = Nobody /\ client'.got = client.got
      BY <1>13, <2>2, HandlerEndsWrites
    <3>2. /\ InReplay' = {} /\ InChannel' = {} /\ Got' = Got /\ LastGot' = LastGot
          /\ Current'.ch = << >> /\ ~Started'
      BY <3>1, ViewOfLeave, NewConnFacts DEF Started
    <3> QED
      BY <2>1, <3>2, SameNumbers, FollowOfNone
  <2>3. CASE client.cur # c
    <3>1. UNCHANGED client
      BY <1>13, <2>3 DEF HandlerEnds
    <3>2. Current' = Current
      BY <1>13, <2>3, <3>1, HandlerEndsWrites, CurrentOfWrite
    <3>3. InReplay' = InReplay /\ InChannel' = InChannel /\ Got' = Got /\ LastGot' = LastGot
      BY <3>1, <3>2, ViewSame
    <3> QED
      BY <2>1, <3>1, <3>2, <3>3, SameNumbers, FollowOfSame DEF Started
  <2> QED
    BY <2>2, <2>3
<1>14. CASE Disconnect
  <2>1. client'.cur = Nobody /\ client'.got = client.got
    BY <1>14, LeaveWrites DEF Disconnect
  <2>2. /\ InReplay' = {} /\ InChannel' = {} /\ Got' = Got /\ LastGot' = LastGot
        /\ Current'.ch = << >> /\ ~Started'
    BY <2>1, ViewOfLeave, NewConnFacts DEF Started
  <2>3. UNCHANGED <<log, lastSeq, lock, pub>>
    BY <1>14 DEF Disconnect
  <2> QED
    BY <2>2, <2>3, SameNumbers, FollowOfNone
<1>15. CASE EventsCrash
  <2>1. client'.cur = Nobody /\ client'.got = client.got
    BY <1>15, CrashWrites
  <2>2. /\ InReplay' = {} /\ InChannel' = {} /\ Got' = Got /\ LastGot' = LastGot
        /\ Current'.ch = << >> /\ ~Started'
    BY <2>1, ViewOfLeave, NewConnFacts DEF Started
  <2>3. UNCHANGED <<log, lastSeq>> /\ lock' = Nobody
    BY <1>15 DEF EventsCrash
  <2>4. Unpublished' = {} /\ Mutations' = Mutations
    BY <2>3, TypeFacts, SameNumbers DEF Unpublished
  <2> QED
    BY <2>2, <2>4, FollowOfNone
<1>16. CASE UNCHANGED eventVars
  <2>1. UNCHANGED <<log, lastSeq, lock, pub, conn, client>>
    BY <1>16 DEF eventVars
  <2> QED
    BY <2>1, SameNumbers, FollowOfSame DEF Started
<1> QED
  BY <1>1, <1>2, <1>3, <1>4, <1>5, <1>6, <1>7, <1>8, <1>9, <1>10, <1>11, <1>12, <1>13,
     <1>14, <1>15, <1>16
  DEF EventsNext, Running, Publication, Serving

\* Nothing is on its way to a connection that is drained.
LEMMA FollowImplies ==
  ASSUME EventsTypeOK, ClosedInv, OrderInv, NumbersInv, FollowInv
  PROVE  OnlyPurgesAreMissed
<1> SUFFICES ASSUME NEW first \in SeqRange(log), NEW e \in SeqRange(log),
                    first.by \in Handlers, first.seq \in SeqRange(client.got),
                    e.by \in Handlers, first.seq < e.seq,
                    e.seq < Last(client.got) \/ Drained,
                    e.seq \notin SeqRange(client.got)
             PROVE  FALSE
  BY DEF OnlyPurgesAreMissed
<1>1. first.seq \in Mutations \cap Got /\ e.seq \in Missing
  BY DEF Mutations, Missing, Got, SeqRange
<1>2. LastGot < e.seq
  BY <1>1 DEF FollowInv
<1>3. LastGot \in Nat /\ e.seq \in Nat /\ client.got # << >>
  BY <1>1, NumberFacts, GotFacts
<1>4. ~ (e.seq < Last(client.got))
  BY <1>2, <1>3 DEF LastGot
<1>5. Drained
  BY <1>4
<1>6. /\ client.cur \in Conns /\ Current = conn[client.cur]
      /\ Current.st = "live" /\ Current.registered /\ Current.ch = << >>
  BY <1>5, CurrentFacts, TypeFacts DEF Drained
<1>7. InChannel = {} /\ InReplay = {}
  BY <1>6, NoEvents DEF InChannel, InReplay, OrderInv, FollowsOn
<1>8. Unpublished = {} /\ ~Late
  BY <1>5, TypeFacts, QuietFacts, NoEvents DEF Drained, Unpublished, Late
<1>9. first.seq \in Anchors
  BY <1>1, <1>6 DEF Anchors, Started
<1>10. Coming(e.seq)
  BY <1>1, <1>9 DEF FollowInv
<1> QED
  BY <1>6, <1>7, <1>8, <1>10 DEF Coming

\* While every replay reaches the end of the retained log (ReplayIsComplete,
\* which the limit that handleSubscribe passes to ReplayEvents breaks), a client
\* misses no mutation of a request after the first it received: the limit is
\* the only way to lose one, whatever the capacity of a channel, the number of
\* writers and connections, the order of publications, drops and crashes.
THEOREM NoMutationIsMissed == EventsSpec /\ ReplayIsComplete => []OnlyPurgesAreMissed
<1> DEFINE IInv == /\ EventsTypeOK /\ ClosedInv /\ OrderInv /\ NumbersInv /\ FollowInv
<1>1. EventsInit => IInv
  BY TypesInit, ClosedInit, OrderInit, NumbersInit, FollowInit
<1>2. IInv /\ [EventsNext]_eventVars /\ [CompleteReplayRead]_eventVars => IInv'
  <2> SUFFICES ASSUME IInv, [EventsNext]_eventVars, [CompleteReplayRead]_eventVars
               PROVE  IInv'
    OBVIOUS
  <2>1. EventsTypeOK' /\ ClosedInv'
    BY TypesStep, ClosedStep
  <2>2. OrderInv' /\ FollowsOn'
    BY <2>1, LogStep, OrderStep DEF OrderInv
  <2>3. NumbersInv'
    BY NumbersStep
  <2>4. FollowInv'
    <3>1. CASE CompleteReplayRead
      BY <3>1, <2>2, FollowStep
    <3>2. CASE UNCHANGED eventVars
      <4>1. UNCHANGED <<log, lastSeq, lock, pub, conn, client>>
        BY <3>2 DEF eventVars
      <4> QED
        BY <4>1, SameNumbers, FollowOfSame DEF Started
    <3> QED
      BY <3>1, <3>2
  <2> QED
    BY <2>1, <2>2, <2>3, <2>4
<1>3. IInv => OnlyPurgesAreMissed
  BY FollowImplies
<1>4. ReplayIsComplete <=> [][CompleteReplayRead]_eventVars
  BY PTL DEF ReplayIsComplete, CompleteReplayRead
<1> QED
  BY <1>1, <1>2, <1>3, <1>4, PTL DEF EventsSpec

\* The retained log is never longer than what was ever recorded, nor than its
\* limit and one transaction.
LogIsShort == Len(log) <= lastSeq /\ Len(log) <= MaxRetained + MaxBatch

LEMMA ShortOfCommit ==
  ASSUME EventsTypeOK, LogIsShort, NEW p \in Publishers, NEW n \in 1 .. MaxBatch,
         lastSeq + n <= MaxEvents,
         log' = Recorded(Committed(p, n)), lastSeq' = lastSeq + n
  PROVE  LogIsShort'
<1>1. /\ log \in Seq(Event) /\ Len(log) \in Nat /\ lastSeq \in Nat /\ n \in Nat
      /\ MaxRetained \in Nat /\ MaxBatch \in Nat
  BY TypeFacts, StreamAssumption
<1>2. Committed(p, n) \in Seq(Event) /\ Len(Committed(p, n)) = n
  BY <1>1, CommittedFacts
<1>3. /\ Len(log') \in Nat /\ Len(log') <= Len(log) + n
      /\ Len(log) > MaxRetained => Len(log') <= Len(log)
  BY <1>1, <1>2, RecordedFacts
<1> QED
  BY <1>1, <1>3 DEF LogIsShort

LEMMA ShortStep ==
  ASSUME EventsTypeOK, LogIsShort, [EventsNext]_eventVars
  PROVE  LogIsShort'
<1>1. ASSUME NEW h \in Handlers, NEW n \in 1 .. MaxBatch, Mutate(h, n)
      PROVE  LogIsShort'
  BY <1>1, TypeFacts, ShortOfCommit DEF Mutate
<1>2. ASSUME NEW n \in 1 .. MaxBatch, Purge(n)
      PROVE  LogIsShort'
  BY <1>2, TypeFacts, ShortOfCommit DEF Purge
<1>3. ASSUME UNCHANGED <<log, lastSeq>> PROVE LogIsShort'
  BY <1>3 DEF LogIsShort
<1> QED
  BY <1>1, <1>2, <1>3
  DEF EventsNext, Running, Publication, Serving, PublishWithoutRecord, Release,
      PublishEvent, DropSlow, CloseSlow, Connect, ReadReplay, SendReplay, GoLive, Forward,
      HandlerEnds, Disconnect, EventsCrash, eventVars

\* A log that is within the limit is read to its end.
LEMMA AfterIsComplete ==
  ASSUME log \in Seq(Event), Len(log) <= ReplayLimit, NEW n \in Nat,
         NEW e \in SeqRange(log), e.seq > n
  PROVE  e \in SeqRange(After(n))
<1> DEFINE later == { k \in 1 .. Len(log) : log[k].seq > n }
           first == Min(later)
           upTo == Smaller(first + ReplayLimit - 1, Len(log))
<1>1. PICK k \in 1 .. Len(log) : e = log[k]
  BY DEF SeqRange
<1>2. k \in later /\ later \in SUBSET Nat /\ Len(log) \in Nat
  BY <1>1
<1>3. first \in later /\ \A l \in later : first <= l
  BY <1>2, MinIsLeast, Zenon
<1>4. After(n) = SubSeq(log, first, upTo)
  BY <1>2 DEF After
<1>5. first \in 1 .. Len(log) /\ first <= k
  BY <1>2, <1>3
<1> HIDE DEF first, later
<1>6. upTo = Len(log)
  BY <1>2, <1>5, StreamAssumption DEF Smaller
<1>7. /\ first \in 1 .. Len(log) + 1 /\ Len(log) \in first - 1 .. Len(log)
      /\ k - first + 1 \in 1 .. Len(log) - first + 1
      /\ first + (k - first + 1) - 1 = k
  BY <1>2, <1>5
<1>8. /\ Len(SubSeq(log, first, Len(log))) = Len(log) - first + 1
      /\ \A j \in 1 .. Len(log) - first + 1 :
           SubSeq(log, first, Len(log))[j] = log[first + j - 1]
  BY <1>7, PieceFacts
<1>9. After(n)[k - first + 1] = e /\ k - first + 1 \in 1 .. Len(After(n))
  BY <1>1, <1>4, <1>6, <1>7, <1>8
<1> QED
  BY <1>9 DEF SeqRange

\* Where the limit of a replay covers all that the log retains, every replay is
\* complete and so no mutation is missed: the theorem above is about more than
\* the behaviours in which nobody reconnects.
THEOREM EnoughIsReplayed ==
  ASSUME ReplayLimit >= MaxEvents \/ ReplayLimit >= MaxRetained + MaxBatch
  PROVE  EventsSpec => ReplayIsComplete /\ []OnlyPurgesAreMissed
<1> DEFINE IInv == EventsTypeOK /\ LogIsShort
<1>1. EventsInit => IInv
  <2>1. Len(<< >>) = 0
    OBVIOUS
  <2> QED
    BY <2>1, TypesInit, StreamAssumption DEF EventsInit, LogIsShort
<1>2. IInv /\ [EventsNext]_eventVars => IInv'
  BY TypesStep, ShortStep
<1>3. IInv => CompleteReplayRead
  <2> SUFFICES ASSUME IInv, NEW c \in Conns, ReadReplay(c), conn[c].lastSent > 0,
                      NEW e \in SeqRange(log), e.seq > conn[c].lastSent
               PROVE  e \in SeqRange(conn'[c].replay)
    BY DEF CompleteReplayRead
  <2>1. PICK r \in Connections :
          /\ conn' = [conn EXCEPT ![c] = r]
          /\ conn[c].lastSent # 0 => r.replay = After(conn[c].lastSent)
    BY ReadReplayWrites
  <2>2. conn[c] \in Connections /\ log \in Seq(Event) /\ Len(log) \in Nat
        /\ lastSeq \in Nat /\ lastSeq <= MaxEvents
    BY TypeFacts
  <2>3. conn[c].lastSent \in Nat /\ conn[c].lastSent # 0
    BY <2>2, TypeFacts DEF Connections
  <2>4. conn'[c].replay = After(conn[c].lastSent)
    BY <2>1, <2>3, TypeFacts
  <2>5. Len(log) <= ReplayLimit
    BY <2>2, StreamAssumption DEF LogIsShort
  <2> QED
    BY <2>2, <2>3, <2>4, <2>5, AfterIsComplete
<1>4. ReplayIsComplete <=> [][CompleteReplayRead]_eventVars
  BY PTL DEF ReplayIsComplete, CompleteReplayRead
<1> QED
  BY <1>1, <1>2, <1>3, <1>4, NoMutationIsMissed, PTL DEF EventsSpec

=============================================================================
