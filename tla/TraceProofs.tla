------------------------------ MODULE TraceProofs ------------------------------
(***************************************************************************)
(* What the captures of campaign-agent promise, for every graph with a gate,  *)
(* every assignment of declared children and every bound on the run: proofs   *)
(* of the three properties of TraceCapture that the run trace_capture checks. *)
(***************************************************************************)
EXTENDS TraceCapture, FiniteSetTheorems, SequenceTheorems, TLAPS

-------------------------------------------------------------------------------
(* The inductive invariant, in four parts.                                  *)

Event == [ sequence : Nat, source : Sources, nodeId : NodeIds,
           outcome : {"reported", "returned", "passed", "awaiting_approval"},
           number : Nat, invocation : {1, 2}, occurrence : Nat, taskId : Nat,
           under : Nodes \cup {NoNode} ]

\* The variables have their types.
Typed ==
  /\ phase \in {"begin", "running", "refused", "failed", "written"}
  /\ invocation \in 0 .. 2
  /\ task \in Nodes \cup {NoNode} /\ taskId \in Nat /\ call \in Graphs \cup {NoGraph}
  /\ pending \in {"none", "asked", "answered"} /\ tries \in Nat
  /\ sequence \in Nat /\ count \in [Sources \X NodeIds -> Nat]
  /\ nesting \in Seq(Nodes) /\ events \in Seq(Event)
  /\ happened \in [ returned : SUBSET Nodes, inside : SUBSET (Nodes \X NodeIds),
                    retries : Nat, gates : SUBSET Nat ]

\* A child runs within the task of the node that declares it, and the recorder's stack
\* says so; nothing runs while an interrupt waits.
Nested ==
  /\ call # NoGraph => task \in DOMAIN Child /\ call = Child[task]
  /\ nesting = IF call = NoGraph THEN << >> ELSE <<task>>
  /\ task # NoNode => pending = "none"

\* The recorder's counters are the numbers of the events there are.
Counted ==
  /\ sequence = Len(events) /\ SequencesContiguous(events)
  /\ \A s \in Sources : \A n \in NodeIds :
       /\ count[<<s, n>>] = Cardinality(Of(events, s, n))
       /\ Occurrences(events, s, n) = 1 .. count[<<s, n>>]
  /\ OccurrencesAreOrdinals(events)

GateEvent(es, i) == es[i].source = "task" /\ es[i].nodeId = Gate
Asked(es, i) == GateEvent(es, i) /\ es[i].outcome = "awaiting_approval"

\* The first invocation ended with the gate's question i.
PausedAt(es, i) == Asked(es, i) /\ \A k \in DOMAIN es : es[k].invocation = IF k <= i THEN 1 ELSE 2

\* Since then the gate's task ran on and ended with j.
ReopenedAt(es, i, j) ==
  /\ i < j /\ GateEvent(es, j) /\ es[j].taskId = es[i].taskId
  /\ \A k \in i + 1 .. j - 1 : es[k].source # "task"

AsksAgain(es) == \E l \in DOMAIN es : Asked(es, l) /\ \A k \in DOMAIN es : k > l => ~GateEvent(es, k)

\* The gate's task, whose question is i, has not ended again.
StillOpen(i) ==
  /\ \A k \in DOMAIN events : k > i => events[k].source # "task"
  /\ taskId = events[i].taskId
  /\ (task = NoNode /\ pending = "answered") \/ (task = Gate /\ pending = "none")

Resumed(i) ==
  \/ StillOpen(i)
  \/ /\ pending # "answered"
     /\ \E j \in DOMAIN events : ReopenedAt(events, i, j)
     /\ pending = "asked" <=> AsksAgain(events)

\* How far the two invocations have come.
Staged ==
  /\ phase = "running" => invocation # 0
  /\ phase = "begin" => invocation = 0
  /\ invocation = 0 => events = << >> /\ pending = "none"
  /\ invocation = 1 =>
       /\ pending # "answered"
       /\ \A k \in DOMAIN events : events[k].invocation = 1
       /\ pending = "asked" =>
            Len(events) > 0 /\ Asked(events, Len(events)) /\ events[Len(events)].taskId = taskId
  /\ invocation = 2 => \E i \in DOMAIN events : PausedAt(events, i) /\ Resumed(i)

\* The events tell what the graph did.
Told ==
  /\ TaskEventsNeverNested(events)
  /\ happened.returned = IdentityConfirmed(events)
  /\ \A p \in Nodes : \A n \in NodeIds : n \in NestedNodeIds(events, p) <=> <<p, n>> \in happened.inside
  /\ happened.retries = RetryAttempts(events)
  /\ happened.gates = GateTaskIds(events) \cup (IF task = Gate THEN {taskId} ELSE {})

\* A trace is written at the end of the second invocation, of what was recorded.
Written ==
  trace # NoTrace =>
    /\ phase = "written" /\ invocation = 2 /\ task = NoNode /\ pending # "answered"
    /\ trace = [ events |-> events, matchesStandalone |-> relationship.matches,
                 secondPaused |-> pending = "asked" ]

Capturing == Typed /\ Nested /\ Counted /\ Staged /\ Told /\ Written

-------------------------------------------------------------------------------
(* Lemmas about one more event.                                             *)

LEMMA OneMore ==
  ASSUME NEW es \in Seq(Event), NEW e \in Event
  PROVE  LET fs == Append(es, e) IN
         /\ fs \in Seq(Event) /\ Len(es) \in Nat /\ Len(fs) = Len(es) + 1
         /\ DOMAIN es = 1 .. Len(es) /\ DOMAIN fs = 1 .. Len(es) + 1
         /\ \A i \in DOMAIN es : i # Len(es) + 1 /\ fs[i] = es[i] /\ es[i] \in Event
         /\ fs[Len(es) + 1] = e
<1>1. /\ Append(es, e) \in Seq(Event) /\ Len(Append(es, e)) = Len(es) + 1
      /\ \A i \in 1 .. Len(es) : Append(es, e)[i] = es[i]
      /\ Append(es, e)[Len(es) + 1] = e
  BY AppendProperties
<1>2. Len(es) \in Nat /\ DOMAIN es = 1 .. Len(es) /\ \A i \in DOMAIN es : es[i] \in Event
  BY LenProperties, ElementOfSeq
<1>3. DOMAIN Append(es, e) = 1 .. Len(es) + 1
  BY <1>1, LenProperties
<1>4. QED
  BY <1>1, <1>2, <1>3

LEMMA OneMoreFrom ==
  ASSUME NEW es \in Seq(Event), NEW e \in Event, NEW sources
  PROVE  From(Append(es, e), sources) =
           From(es, sources) \cup (IF e.source \in sources THEN {e} ELSE {})
<1> DEFINE fs == Append(es, e)
<1>1. /\ DOMAIN es = 1 .. Len(es) /\ DOMAIN fs = 1 .. Len(es) + 1 /\ Len(es) \in Nat
      /\ \A i \in DOMAIN es : fs[i] = es[i]
      /\ fs[Len(es) + 1] = e
  BY OneMore
<1> HIDE DEF fs
<1>2. ASSUME NEW x PROVE x \in ToSet(fs) <=> x \in ToSet(es) \/ x = e
  <2>1. ASSUME NEW i \in DOMAIN fs, x = fs[i] PROVE x \in ToSet(es) \/ x = e
    <3>1. i \in DOMAIN es \/ i = Len(es) + 1
      BY <1>1
    <3>2. QED
      BY <1>1, <2>1, <3>1 DEF ToSet
  <2>2. ASSUME NEW i \in DOMAIN es, x = es[i] PROVE x \in ToSet(fs)
    <3>1. i \in DOMAIN fs /\ x = fs[i]
      BY <1>1, <2>2
    <3>2. QED
      BY <3>1 DEF ToSet
  <2>3. x = e => x \in ToSet(fs)
    <3>1. Len(es) + 1 \in DOMAIN fs
      BY <1>1
    <3>2. QED
      BY <1>1, <3>1 DEF ToSet
  <2>4. QED
    BY <2>1, <2>2, <2>3 DEF ToSet
<1>3. ASSUME NEW x
      PROVE  x \in From(fs, sources) <=>
               x \in From(es, sources) \/ (e.source \in sources /\ x = e)
  BY <1>2 DEF From
<1>4. From(fs, sources) = From(es, sources) \cup (IF e.source \in sources THEN {e} ELSE {})
  BY <1>3
<1>5. QED
  BY <1>4 DEF fs

\* The events of a node from one source are finitely many and among the events.
LEMMA OfType ==
  ASSUME NEW es \in Seq(Event), NEW s, NEW n, NEW I \in SUBSET DOMAIN es
  PROVE  /\ IsFiniteSet(I) /\ Cardinality(I) \in Nat
         /\ Of(es, s, n) \subseteq DOMAIN es
<1>1. DOMAIN es = 1..Len(es) /\ Len(es) \in Nat
  BY LenProperties
<1>2. IsFiniteSet(1..Len(es))
  BY <1>1, FS_Interval
<1>3. IsFiniteSet(I)
  BY <1>1, <1>2, FS_Subset
<1>4. QED
  BY <1>3, FS_CardinalityType DEF Of

LEMMA OneMoreOf ==
  ASSUME NEW es \in Seq(Event), NEW e \in Event, NEW s, NEW n
  PROVE  LET fs == Append(es, e) IN
         /\ Of(fs, s, n) = Of(es, s, n) \cup
              (IF e.source = s /\ e.nodeId = n THEN {Len(es) + 1} ELSE {})
         /\ Cardinality(Of(fs, s, n)) = Cardinality(Of(es, s, n)) +
              (IF e.source = s /\ e.nodeId = n THEN 1 ELSE 0)
<1> DEFINE fs == Append(es, e)
<1> DEFINE new == e.source = s /\ e.nodeId = n
<1>1. /\ DOMAIN es = 1 .. Len(es) /\ DOMAIN fs = 1 .. Len(es) + 1 /\ Len(es) \in Nat
      /\ \A i \in DOMAIN es : i # Len(es) + 1 /\ fs[i] = es[i]
      /\ fs[Len(es) + 1] = e
  BY OneMore
<1> HIDE DEF fs
<1>2. ASSUME NEW i PROVE i \in DOMAIN fs <=> i \in DOMAIN es \/ i = Len(es) + 1
  BY <1>1
<1>3. ASSUME NEW i
      PROVE  i \in Of(fs, s, n) <=> i \in Of(es, s, n) \/ (new /\ i = Len(es) + 1)
  BY <1>1, <1>2 DEF Of
<1>4. Of(fs, s, n) = Of(es, s, n) \cup (IF new THEN {Len(es) + 1} ELSE {})
  BY <1>3
<1>5. IsFiniteSet(Of(es, s, n)) /\ Cardinality(Of(es, s, n)) \in Nat
  <2>1. Of(es, s, n) \in SUBSET DOMAIN es
    BY DEF Of
  <2>2. QED
    BY <2>1, OfType
<1>6. Len(es) + 1 \notin Of(es, s, n)
  BY <1>1 DEF Of
<1>7. Cardinality(Of(es, s, n) \cup {Len(es) + 1}) = Cardinality(Of(es, s, n)) + 1
  BY <1>5, <1>6, FS_AddElement
<1>8. Cardinality(Of(fs, s, n)) = Cardinality(Of(es, s, n)) + (IF new THEN 1 ELSE 0)
  <2>1. CASE new
    BY <1>4, <1>7, <2>1
  <2>2. CASE ~new
    <3>1. Of(fs, s, n) = Of(es, s, n)
      BY <1>4, <2>2
    <3>2. QED
      BY <1>5, <2>2, <3>1
  <2>3. QED
    BY <2>1, <2>2
<1>9. QED
  BY <1>4, <1>8 DEF fs

\* A retry is an attempt that is not the first of its call.
LEMMA OneMoreAttempt ==
  ASSUME NEW es \in Seq(Event), NEW e \in Event
  PROVE  /\ RetryAttempts(es) \in Nat
         /\ RetryAttempts(Append(es, e)) = RetryAttempts(es) +
              (IF e.source = "attempt" /\ e.number > 1 THEN 1 ELSE 0)
<1> DEFINE fs == Append(es, e)
<1> DEFINE R(q) == {i \in DOMAIN q : q[i].source = "attempt" /\ q[i].number > 1}
<1> DEFINE new == e.source = "attempt" /\ e.number > 1
<1>1. /\ DOMAIN es = 1 .. Len(es) /\ DOMAIN fs = 1 .. Len(es) + 1 /\ Len(es) \in Nat
      /\ \A i \in DOMAIN es : i # Len(es) + 1 /\ fs[i] = es[i]
      /\ fs[Len(es) + 1] = e
  BY OneMore
<1> HIDE DEF fs
<1>2. ASSUME NEW i PROVE i \in DOMAIN fs <=> i \in DOMAIN es \/ i = Len(es) + 1
  BY <1>1
<1>3. ASSUME NEW i PROVE i \in R(fs) <=> i \in R(es) \/ (new /\ i = Len(es) + 1)
  BY <1>1, <1>2
<1>4. R(fs) = R(es) \cup (IF new THEN {Len(es) + 1} ELSE {})
  BY <1>3
<1>5. IsFiniteSet(R(es)) /\ Cardinality(R(es)) \in Nat
  <2>1. R(es) \in SUBSET DOMAIN es
    OBVIOUS
  <2>2. QED
    BY <2>1, OfType
<1>6. Len(es) + 1 \notin R(es)
  BY <1>1
<1>7. Cardinality(R(es) \cup {Len(es) + 1}) = Cardinality(R(es)) + 1
  BY <1>5, <1>6, FS_AddElement
<1> HIDE DEF R
<1>8. Cardinality(R(fs)) = Cardinality(R(es)) + (IF new THEN 1 ELSE 0)
  <2>1. CASE new
    BY <1>4, <1>7, <2>1
  <2>2. CASE ~new
    <3>1. R(fs) = R(es)
      BY <1>4, <2>2
    <3>2. QED
      BY <1>5, <2>2, <3>1
  <2>3. QED
    BY <2>1, <2>2
<1>9. QED
  BY <1>5, <1>8 DEF fs, R, RetryAttempts

-------------------------------------------------------------------------------
(* The recorder.                                                            *)

\* The event that _Recorder.record writes.
Entry(source, n, outcome, number, under) ==
  [ sequence |-> sequence + 1, source |-> source, nodeId |-> n, outcome |-> outcome,
    number |-> number, invocation |-> invocation, occurrence |-> count[<<source, n>>] + 1,
    taskId |-> taskId, under |-> under ]

LEMMA Recorded ==
  ASSUME Typed, invocation \in {1, 2},
         NEW source \in Sources, NEW n \in NodeIds,
         NEW outcome \in {"reported", "returned", "passed", "awaiting_approval"},
         NEW number \in Nat, NEW under \in Nodes \cup {NoNode},
         Record(source, n, outcome, number, under)
  PROVE  /\ Entry(source, n, outcome, number, under) \in Event
         /\ events' = Append(events, Entry(source, n, outcome, number, under))
         /\ events' \in Seq(Event)
         /\ sequence' = sequence + 1 /\ sequence' \in Nat
         /\ count' = [count EXCEPT ![<<source, n>>] = @ + 1]
         /\ count' \in [Sources \X NodeIds -> Nat]
<1>1. /\ sequence \in Nat /\ taskId \in Nat /\ events \in Seq(Event)
      /\ count \in [Sources \X NodeIds -> Nat]
  BY DEF Typed
<1>2. sequence' = sequence + 1 /\ count' = [count EXCEPT ![<<source, n>>] = @ + 1]
  BY DEF Record, Counter
<1>3. <<source, n>> \in Sources \X NodeIds
  OBVIOUS
<1>4. count[<<source, n>>] \in Nat /\ count'[<<source, n>>] = count[<<source, n>>] + 1
  BY <1>1, <1>2, <1>3
<1>5. count' \in [Sources \X NodeIds -> Nat]
  BY <1>1, <1>2, <1>4
<1>6. events' = Append(events, Entry(source, n, outcome, number, under))
  BY <1>2, <1>4 DEF Record, Counter, Entry
<1>7. Entry(source, n, outcome, number, under) \in Event
  BY <1>1, <1>4 DEF Entry, Event
<1>8. events' \in Seq(Event)
  BY <1>1, <1>6, <1>7, OneMore
<1>9. QED
  BY <1>1, <1>2, <1>5, <1>6, <1>7, <1>8

\* Recording keeps the counters and the occurrences what they say they are.
LEMMA RecordedCounts ==
  ASSUME Typed, Counted, invocation \in {1, 2},
         NEW source \in Sources, NEW n \in NodeIds,
         NEW outcome \in {"reported", "returned", "passed", "awaiting_approval"},
         NEW number \in Nat, NEW under \in Nodes \cup {NoNode},
         Record(source, n, outcome, number, under)
  PROVE  Counted'
<1> DEFINE e == Entry(source, n, outcome, number, under)
<1> DEFINE c == count[<<source, n>>]
<1>1. /\ e \in Event /\ events' = Append(events, e) /\ sequence' = sequence + 1
      /\ count' = [count EXCEPT ![<<source, n>>] = @ + 1]
      /\ count \in [Sources \X NodeIds -> Nat] /\ events \in Seq(Event)
  <2>1. count \in [Sources \X NodeIds -> Nat] /\ events \in Seq(Event)
    BY DEF Typed
  <2>2. /\ e \in Event /\ events' = Append(events, e) /\ sequence' = sequence + 1
        /\ count' = [count EXCEPT ![<<source, n>>] = @ + 1]
    BY Recorded
  <2>3. QED
    BY <2>1, <2>2
<1>2. /\ e.sequence = sequence + 1 /\ e.occurrence = c + 1
      /\ e.source = source /\ e.nodeId = n
  BY DEF Entry
<1>3. <<source, n>> \in Sources \X NodeIds /\ c \in Nat
  BY <1>1
<1> HIDE DEF e, c
<1>4. /\ Len(events) \in Nat /\ Len(events') = Len(events) + 1
      /\ DOMAIN events = 1 .. Len(events) /\ DOMAIN events' = 1 .. Len(events) + 1
      /\ \A i \in DOMAIN events : events'[i] = events[i]
      /\ events'[Len(events) + 1] = e
  BY <1>1, OneMore
<1>5. sequence' = Len(events') /\ SequencesContiguous(events')
  <2>1. sequence = Len(events) /\ \A i \in DOMAIN events : events[i].sequence = i
    BY DEF Counted, SequencesContiguous
  <2>2. ASSUME NEW i \in DOMAIN events' PROVE events'[i].sequence = i
    <3>1. i \in DOMAIN events \/ i = Len(events) + 1
      BY <1>4
    <3>2. QED
      BY <1>2, <1>4, <2>1, <3>1
  <2>3. QED
    BY <1>1, <1>4, <2>1, <2>2 DEF SequencesContiguous
<1>6. ASSUME NEW s \in Sources, NEW m \in NodeIds
      PROVE  /\ count'[<<s, m>>] = Cardinality(Of(events', s, m))
             /\ Occurrences(events', s, m) = 1 .. count'[<<s, m>>]
  <2> DEFINE d == count[<<s, m>>]
  <2>1. /\ d = Cardinality(Of(events, s, m)) /\ Occurrences(events, s, m) = 1 .. d
        /\ d \in Nat /\ <<s, m>> \in Sources \X NodeIds
    BY <1>1 DEF Counted
  <2>2. Cardinality(Of(events', s, m)) =
          Cardinality(Of(events, s, m)) + (IF source = s /\ n = m THEN 1 ELSE 0)
    BY <1>1, <1>2, OneMoreOf
  <2>3. From(events', {s}) = From(events, {s}) \cup (IF source \in {s} THEN {e} ELSE {})
    BY <1>1, <1>2, OneMoreFrom
  <2>4. CASE source = s /\ n = m
    <3>1. d = c /\ count'[<<s, m>>] = d + 1
      BY <1>1, <1>3, <2>1, <2>4 DEF c
    <3>2. ASSUME NEW o
          PROVE  o \in Occurrences(events', s, m) <=>
                   o \in Occurrences(events, s, m) \/ o = e.occurrence
      BY <1>2, <2>3, <2>4 DEF Occurrences
    <3>3. ASSUME NEW o PROVE o \in Occurrences(events', s, m) <=> o \in 1 .. d + 1
      BY <1>2, <2>1, <3>1, <3>2
    <3>4. Occurrences(events', s, m) = 1 .. d + 1
      BY <3>3
    <3> HIDE DEF d
    <3>5. QED
      BY <2>1, <2>2, <2>4, <3>1, <3>4
  <2>5. CASE ~(source = s /\ n = m)
    <3>1. count'[<<s, m>>] = d
      BY <1>1, <1>3, <2>1, <2>5
    <3>2. ASSUME NEW o
          PROVE  o \in Occurrences(events', s, m) <=> o \in Occurrences(events, s, m)
      BY <1>2, <2>3, <2>5 DEF Occurrences
    <3>3. Occurrences(events', s, m) = Occurrences(events, s, m)
      BY <3>2 DEF Occurrences
    <3> HIDE DEF d
    <3>4. QED
      BY <2>1, <2>2, <2>5, <3>1, <3>3
  <2>6. QED
    BY <2>4, <2>5
<1>7. OccurrencesAreOrdinals(events')
  <2>1. ASSUME NEW i \in DOMAIN events
        PROVE  events'[i].occurrence =
                 Cardinality({j \in Of(events', events'[i].source, events'[i].nodeId) : j <= i})
    <3> DEFINE s == events[i].source
    <3> DEFINE m == events[i].nodeId
    <3>1. events[i].occurrence = Cardinality({j \in Of(events, s, m) : j <= i})
      BY DEF Counted, OccurrencesAreOrdinals
    <3>2. Of(events', s, m) =
            Of(events, s, m) \cup (IF e.source = s /\ e.nodeId = m THEN {Len(events) + 1} ELSE {})
      BY <1>1, OneMoreOf
    <3>3. ~(Len(events) + 1 <= i)
      BY <1>4
    <3>4. {j \in Of(events', s, m) : j <= i} = {j \in Of(events, s, m) : j <= i}
      BY <3>2, <3>3
    <3>5. QED
      BY <1>4, <3>1, <3>4
  <2>2. ASSUME NEW i, i = Len(events) + 1
        PROVE  events'[i].occurrence =
                 Cardinality({j \in Of(events', events'[i].source, events'[i].nodeId) : j <= i})
    <3>1. Of(events', source, n) \subseteq 1 .. Len(events) + 1
      BY <1>4 DEF Of
    <3>2. {j \in Of(events', source, n) : j <= i} = Of(events', source, n)
      BY <1>4, <2>2, <3>1
    <3>3. Cardinality(Of(events', source, n)) = c + 1
      <4>1. count'[<<source, n>>] = c + 1
        BY <1>1, <1>3 DEF c
      <4>2. QED
        BY <1>6, <4>1
    <3>4. QED
      BY <1>2, <1>4, <2>2, <3>2, <3>3
  <2>3. QED
    BY <1>4, <2>1, <2>2 DEF OccurrencesAreOrdinals
<1>8. QED
  BY <1>5, <1>6, <1>7 DEF Counted

\* A recorded event adds to what the replays conclude what it says, and no more.
LEMMA RecordedTells ==
  ASSUME Typed, invocation \in {1, 2},
         NEW source \in Sources, NEW n \in NodeIds,
         NEW outcome \in {"reported", "returned", "passed", "awaiting_approval"},
         NEW number \in Nat, NEW under \in Nodes \cup {NoNode},
         Record(source, n, outcome, number, under)
  PROVE  /\ TaskEventsNeverNested(events) /\ (source = "task" => under = NoNode)
              => TaskEventsNeverNested(events')
         /\ IdentityConfirmed(events') =
              IdentityConfirmed(events) \cup (IF source = "call" THEN {n} ELSE {})
         /\ \A p, m : m \in NestedNodeIds(events', p) <=>
              m \in NestedNodeIds(events, p) \/ (source \in Observer /\ under = p /\ n = m)
         /\ RetryAttempts(events) \in Nat
         /\ RetryAttempts(events') = RetryAttempts(events) +
              (IF source = "attempt" /\ number > 1 THEN 1 ELSE 0)
         /\ GateTaskIds(events') = GateTaskIds(events) \cup
              (IF source = "task" /\ n = Gate THEN {taskId} ELSE {})
<1> DEFINE e == Entry(source, n, outcome, number, under)
<1>1. e \in Event /\ events' = Append(events, e)
  BY Recorded, ZenonT(60)
<1>2. events \in Seq(Event)
  BY DEF Typed
<1>3. /\ e.source = source /\ e.nodeId = n /\ e.number = number
      /\ e.taskId = taskId /\ e.under = under
  BY DEF Entry
<1> HIDE DEF e
<1>4. ASSUME NEW sources
      PROVE  From(events', sources) =
               From(events, sources) \cup (IF source \in sources THEN {e} ELSE {})
  BY <1>1, <1>2, <1>3, OneMoreFrom
<1>5. TaskEventsNeverNested(events) /\ (source = "task" => under = NoNode)
        => TaskEventsNeverNested(events')
  <2>1. From(events', {"task"}) =
          From(events, {"task"}) \cup (IF source \in {"task"} THEN {e} ELSE {})
    BY <1>4
  <2>2. QED
    BY <1>3, <2>1 DEF TaskEventsNeverNested
<1>6. IdentityConfirmed(events') =
        IdentityConfirmed(events) \cup (IF source = "call" THEN {n} ELSE {})
  <2>1. From(events', {"call"}) =
          From(events, {"call"}) \cup (IF source \in {"call"} THEN {e} ELSE {})
    BY <1>4
  <2>2. ASSUME NEW m
        PROVE  m \in IdentityConfirmed(events') <=>
                 m \in IdentityConfirmed(events) \/ (source = "call" /\ m = n)
    BY <1>3, <2>1 DEF IdentityConfirmed
  <2>3. QED
    BY <2>2
<1>7. ASSUME NEW p, NEW m
      PROVE  m \in NestedNodeIds(events', p) <=>
               m \in NestedNodeIds(events, p) \/ (source \in Observer /\ under = p /\ n = m)
  <2>1. From(events', Observer) =
          From(events, Observer) \cup (IF source \in Observer THEN {e} ELSE {})
    BY <1>4
  <2>2. QED
    BY <1>3, <2>1 DEF NestedNodeIds
<1>8. /\ RetryAttempts(events) \in Nat
      /\ RetryAttempts(events') = RetryAttempts(events) +
           (IF source = "attempt" /\ number > 1 THEN 1 ELSE 0)
  BY <1>1, <1>2, <1>3, OneMoreAttempt
<1>9. GateTaskIds(events') = GateTaskIds(events) \cup
        (IF source = "task" /\ n = Gate THEN {taskId} ELSE {})
  <2>1. From(events', {"task"}) =
          From(events, {"task"}) \cup (IF source \in {"task"} THEN {e} ELSE {})
    BY <1>4
  <2>2. ASSUME NEW m
        PROVE  m \in GateTaskIds(events') <=>
                 m \in GateTaskIds(events) \/ (source = "task" /\ n = Gate /\ m = taskId)
    BY <1>3, <2>1 DEF GateTaskIds
  <2>3. QED
    BY <2>2
<1>10. QED
  BY <1>5, <1>6, <1>7, <1>8, <1>9

-------------------------------------------------------------------------------
(* The stage, when an event is recorded.                                    *)

\* While a task is at work, what is not the end of a task leaves the stage as it was.
LEMMA StagedObserved ==
  ASSUME Typed, Staged, phase = "running", task # NoNode, pending = "none",
         NEW source \in Sources, source # "task", NEW n \in NodeIds,
         NEW outcome \in {"reported", "returned", "passed", "awaiting_approval"},
         NEW number \in Nat, NEW under \in Nodes \cup {NoNode},
         Record(source, n, outcome, number, under),
         UNCHANGED <<phase, invocation, task, taskId, pending>>
  PROVE  Staged'
<1> DEFINE e == Entry(source, n, outcome, number, under)
<1>1. invocation \in {1, 2} /\ events \in Seq(Event)
  BY DEF Typed, Staged
<1>2. e \in Event /\ events' = Append(events, e)
  BY <1>1, Recorded, ZenonT(60)
<1>3. e.source # "task" /\ e.invocation = invocation
  BY DEF Entry
<1> HIDE DEF e
<1>4. /\ Len(events) \in Nat /\ Len(events') = Len(events) + 1
      /\ DOMAIN events = 1 .. Len(events) /\ DOMAIN events' = 1 .. Len(events) + 1
      /\ \A i \in DOMAIN events : events'[i] = events[i]
      /\ events'[Len(events) + 1] = e
  BY <1>1, <1>2, OneMore
<1>5. ASSUME NEW k \in DOMAIN events' PROVE k \in DOMAIN events \/ k = Len(events) + 1
  BY <1>4
<1>6. CASE invocation = 1
  <2>1. \A k \in DOMAIN events : events[k].invocation = 1
    BY <1>6 DEF Staged
  <2>2. \A k \in DOMAIN events' : events'[k].invocation = 1
    BY <1>3, <1>4, <1>5, <1>6, <2>1
  <2>3. QED
    BY <1>6, <2>2 DEF Staged
<1>7. CASE invocation = 2
  <2>1. PICK i \in DOMAIN events : PausedAt(events, i) /\ Resumed(i)
    BY <1>7 DEF Staged
  <2>2. i \in DOMAIN events' /\ i < Len(events) + 1
    BY <1>4
  <2>3. PausedAt(events', i)
    <3>1. \A k \in DOMAIN events' : events'[k].invocation = IF k <= i THEN 1 ELSE 2
      <4>1. \A k \in DOMAIN events : events'[k].invocation = IF k <= i THEN 1 ELSE 2
        BY <1>4, <2>1 DEF PausedAt
      <4>2. ~(Len(events) + 1 <= i)
        BY <2>2, <1>4
      <4>3. QED
        BY <1>3, <1>4, <1>5, <1>7, <4>1, <4>2
    <3>2. Asked(events', i)
      BY <1>4, <2>1 DEF PausedAt, Asked, GateEvent
    <3>3. QED
      BY <3>1, <3>2 DEF PausedAt
  <2>4. CASE StillOpen(i)
    <3>1. StillOpen(i)'
      BY <1>3, <1>4, <1>5, <2>4 DEF StillOpen
    <3>2. QED
      BY <1>7, <2>2, <2>3, <3>1 DEF Staged, Resumed
  <2>5. CASE ~StillOpen(i)
    <3>1. PICK j \in DOMAIN events : ReopenedAt(events, i, j)
      BY <2>1, <2>5 DEF Resumed
    <3>2. j \in DOMAIN events' /\ ReopenedAt(events', i, j)
      <4>1. \A k \in i + 1 .. j - 1 : k \in DOMAIN events
        BY <1>4
      <4>2. QED
        BY <1>4, <3>1, <4>1, SMTT(60) DEF ReopenedAt, GateEvent
    <3>3. AsksAgain(events') => AsksAgain(events)
      <4>1. ASSUME NEW l \in DOMAIN events', Asked(events', l),
                   \A k \in DOMAIN events' : k > l => ~GateEvent(events', k)
            PROVE  AsksAgain(events)
        <5>1. l \in DOMAIN events
          BY <1>3, <1>4, <1>5, <4>1 DEF Asked, GateEvent
        <5>2. \A k \in DOMAIN events : k > l => ~GateEvent(events, k)
          BY <1>4, <4>1 DEF GateEvent
        <5>3. QED
          BY <1>4, <4>1, <5>1, <5>2 DEF AsksAgain, Asked, GateEvent
      <4>2. QED
        BY <4>1 DEF AsksAgain
    <3>4. ~AsksAgain(events)
      BY <2>1, <2>5 DEF Resumed
    <3>5. Resumed(i)'
      BY <3>2, <3>3, <3>4 DEF Resumed
    <3>6. QED
      BY <1>7, <2>2, <2>3, <3>5 DEF Staged
  <2>6. QED
    BY <2>4, <2>5
<1>8. QED
  BY <1>1, <1>6, <1>7

\* The end of a task is passed over, or it is the gate's: its question to pause for, or
\* its first end since the run was resumed.
LEMMA StagedFinished ==
  ASSUME Typed, Staged, phase = "running", pending = "none",
         NEW n \in NodeIds, task = n, n # NoNode,
         NEW outcome \in {"reported", "returned", "passed", "awaiting_approval"},
         NEW under \in Nodes \cup {NoNode},
         Record("task", n, outcome, 0, under),
         task' = NoNode, pending' \in {"none", "asked"},
         pending' = "asked" <=> outcome = "awaiting_approval",
         pending' = "asked" => task = Gate,
         UNCHANGED <<phase, invocation, taskId>>
  PROVE  Staged'
<1> DEFINE e == Entry("task", n, outcome, 0, under)
<1>1. invocation \in {1, 2} /\ events \in Seq(Event)
  BY DEF Typed, Staged
<1>2. e \in Event /\ events' = Append(events, e)
  <2>1. "task" \in Sources /\ 0 \in Nat
    BY DEF Sources
  <2>2. QED
    BY <1>1, <2>1, Recorded, ZenonT(60)
<1>3. /\ e.source = "task" /\ e.nodeId = n /\ e.outcome = outcome
      /\ e.invocation = invocation /\ e.taskId = taskId
  BY DEF Entry
<1> HIDE DEF e
<1>4. /\ Len(events) \in Nat /\ Len(events') = Len(events) + 1
      /\ DOMAIN events = 1 .. Len(events) /\ DOMAIN events' = 1 .. Len(events) + 1
      /\ \A i \in DOMAIN events : events'[i] = events[i]
      /\ events'[Len(events) + 1] = e
  BY <1>1, <1>2, OneMore
<1>5. ASSUME NEW k \in DOMAIN events' PROVE k \in DOMAIN events \/ k = Len(events) + 1
  BY <1>4
<1>6. CASE invocation = 1
  <2>1. \A k \in DOMAIN events : events[k].invocation = 1
    BY <1>6 DEF Staged
  <2>2. \A k \in DOMAIN events' : events'[k].invocation = 1
    BY <1>3, <1>4, <1>5, <1>6, <2>1
  <2>3. ASSUME pending' = "asked"
        PROVE  /\ Len(events') > 0 /\ Asked(events', Len(events'))
               /\ events'[Len(events')].taskId = taskId'
    BY <1>3, <1>4, <2>3 DEF Asked, GateEvent
  <2>4. QED
    BY <1>6, <2>2, <2>3 DEF Staged
<1>7. CASE invocation = 2
  <2>1. PICK i \in DOMAIN events : PausedAt(events, i) /\ Resumed(i)
    BY <1>7 DEF Staged
  <2>2. i \in DOMAIN events' /\ i < Len(events) + 1
    BY <1>4
  <2>3. PausedAt(events', i)
    <3>1. \A k \in DOMAIN events' : events'[k].invocation = IF k <= i THEN 1 ELSE 2
      <4>1. \A k \in DOMAIN events : events'[k].invocation = IF k <= i THEN 1 ELSE 2
        BY <1>4, <2>1 DEF PausedAt
      <4>2. ~(Len(events) + 1 <= i)
        BY <2>2, <1>4
      <4>3. QED
        BY <1>3, <1>4, <1>5, <1>7, <4>1, <4>2
    <3>2. Asked(events', i)
      BY <1>4, <2>1 DEF PausedAt, Asked, GateEvent
    <3>3. QED
      BY <3>1, <3>2 DEF PausedAt
  <2>4. \E j \in DOMAIN events' : ReopenedAt(events', i, j)
    <3>1. CASE StillOpen(i)
      <4>1. task = Gate /\ taskId = events[i].taskId
        BY <3>1 DEF StillOpen
      <4>2. \A k \in i + 1 .. (Len(events) + 1) - 1 : k \in DOMAIN events /\ events'[k].source # "task"
        <5>1. \A k \in i + 1 .. (Len(events) + 1) - 1 : k \in DOMAIN events /\ k > i
          BY <1>4
        <5>2. QED
          BY <1>4, <3>1, <5>1 DEF StillOpen
      <4>3. ReopenedAt(events', i, Len(events) + 1)
        BY <1>3, <1>4, <2>2, <4>1, <4>2 DEF ReopenedAt, GateEvent
      <4>4. Len(events) + 1 \in DOMAIN events'
        BY <1>4
      <4>5. QED
        BY <4>3, <4>4
    <3>2. CASE ~StillOpen(i)
      <4>1. PICK j \in DOMAIN events : ReopenedAt(events, i, j)
        BY <2>1, <3>2 DEF Resumed
      <4>2. \A k \in i + 1 .. j - 1 : k \in DOMAIN events
        BY <1>4
      <4>3. j \in DOMAIN events' /\ ReopenedAt(events', i, j)
        BY <1>4, <4>1, <4>2 DEF ReopenedAt, GateEvent
      <4>4. QED
        BY <4>3
    <3>3. QED
      BY <3>1, <3>2
  <2>5. pending' = "asked" <=> AsksAgain(events')
    <3>1. CASE task = Gate
      <4>1. ASSUME pending' = "asked" PROVE AsksAgain(events')
        <5>1. Len(events) + 1 \in DOMAIN events' /\ Asked(events', Len(events) + 1)
          BY <1>3, <1>4, <3>1, <4>1 DEF Asked, GateEvent
        <5>2. \A k \in DOMAIN events' : ~(k > Len(events) + 1)
          BY <1>4
        <5>3. QED
          BY <5>1, <5>2 DEF AsksAgain
      <4>2. ASSUME NEW l \in DOMAIN events', Asked(events', l),
                   \A k \in DOMAIN events' : k > l => ~GateEvent(events', k)
            PROVE  pending' = "asked"
        <5>1. GateEvent(events', Len(events) + 1) /\ Len(events) + 1 \in DOMAIN events'
          BY <1>3, <1>4, <3>1 DEF GateEvent
        <5>2. ~(Len(events) + 1 > l)
          BY <4>2, <5>1
        <5>3. l = Len(events) + 1
          BY <1>4, <5>2
        <5>4. QED
          BY <1>3, <1>4, <4>2, <5>3 DEF Asked
      <4>3. QED
        BY <4>1, <4>2 DEF AsksAgain
    <3>2. CASE task # Gate
      <4>1. pending' # "asked" /\ ~StillOpen(i)
        BY <3>2 DEF StillOpen
      <4>2. ~AsksAgain(events)
        BY <2>1, <4>1 DEF Resumed
      <4>3. ASSUME NEW l \in DOMAIN events', Asked(events', l),
                   \A k \in DOMAIN events' : k > l => ~GateEvent(events', k)
            PROVE  FALSE
        <5>1. l \in DOMAIN events
          BY <1>3, <1>4, <1>5, <3>2, <4>3 DEF Asked, GateEvent
        <5>2. \A k \in DOMAIN events : k > l => ~GateEvent(events, k)
          BY <1>4, <4>3 DEF GateEvent
        <5>3. AsksAgain(events)
          BY <1>4, <4>3, <5>1, <5>2 DEF AsksAgain, Asked, GateEvent
        <5>4. QED
          BY <4>2, <5>3
      <4>4. QED
        BY <4>1, <4>3 DEF AsksAgain
    <3>3. QED
      BY <3>1, <3>2
  <2>6. Resumed(i)'
    BY <2>4, <2>5 DEF Resumed
  <2>7. QED
    BY <1>7, <2>2, <2>3, <2>6 DEF Staged
<1>8. QED
  BY <1>1, <1>6, <1>7

-------------------------------------------------------------------------------
(* What a step leaves alone.                                                *)

LEMMA CountedKept ==
  ASSUME Counted, UNCHANGED <<sequence, count, events>>
  PROVE  Counted'
BY DEF Counted

LEMMA WrittenKept ==
  ASSUME Written, phase = "running", UNCHANGED trace
  PROVE  Written'
BY DEF Written

LEMMA ToldKept ==
  ASSUME Told, UNCHANGED <<events, happened>>,
         (IF task' = Gate THEN {taskId'} ELSE {}) \cup GateTaskIds(events) =
           (IF task = Gate THEN {taskId} ELSE {}) \cup GateTaskIds(events)
  PROVE  Told'
BY DEF Told

LEMMA ResumedKept ==
  ASSUME NEW i \in DOMAIN events, Resumed(i), UNCHANGED <<task, taskId, pending, events>>
  PROVE  Resumed(i)'
BY DEF Resumed, StillOpen

LEMMA StagedKept ==
  ASSUME Staged, phase # "begin", phase' # "begin", phase' = "running" => phase = "running",
         UNCHANGED <<invocation, task, taskId, pending, events>>
  PROVE  Staged'
<1>1. ASSUME invocation = 2
      PROVE  \E i \in DOMAIN events' : PausedAt(events', i) /\ Resumed(i)'
  <2>1. PICK i \in DOMAIN events : PausedAt(events, i) /\ Resumed(i)
    BY <1>1 DEF Staged
  <2>2. Resumed(i)'
    BY <2>1, ResumedKept
  <2>3. QED
    BY <2>1, <2>2
<1>2. QED
  BY <1>1 DEF Staged

\* The node on top of the recorder's stack is the one whose child is running.
LEMMA TopOfStack ==
  ASSUME Typed, Nested
  PROVE  /\ NestedUnder = IF call = NoGraph THEN NoNode ELSE task
         /\ NestedUnder \in Nodes \cup {NoNode}
<1>1. task \in Nodes \cup {NoNode} /\ nesting = IF call = NoGraph THEN << >> ELSE <<task>>
  BY DEF Typed, Nested
<1>2. <<task>> # << >> /\ Last(<<task>>) = task
  BY DEF Last
<1>3. QED
  BY <1>1, <1>2 DEF NestedUnder

\* A child is declared by one node.
LEMMA DeclaredOnce ==
  ASSUME NEW n \in DOMAIN Child
  PROVE  DeclaredFor(Child[n]) = n
<1>1. \A m \in DOMAIN Child : Child[m] = Child[n] => m = n
  BY CapturesAssumption DEF CaptureAssumption
<1>2. QED
  BY <1>1 DEF DeclaredFor

LEMMA Graph ==
  ASSUME Typed, Nested
  PROVE  /\ NoNode \notin NodeIds /\ Nodes \subseteq NodeIds /\ Gate \in Nodes
         /\ Gate \notin DOMAIN Child /\ DOMAIN Child \subseteq Nodes
         /\ \A n \in DOMAIN Child : Child[n] \in Graphs /\ Child[n] # NoGraph
         /\ call # NoGraph =>
              task \in DOMAIN Child /\ call = Child[task] /\ task # NoNode /\ task # Gate
              /\ nesting = <<task>> /\ pending = "none"
<1>1. /\ NoNode \notin NodeIds /\ Gate \in Nodes /\ DOMAIN Child \subseteq Nodes \ {Gate}
      /\ NoGraph \notin Graphs /\ Nodes \subseteq NodeIds
  BY CapturesAssumption DEF CaptureAssumption, NodeIds
<1>2. \A n \in DOMAIN Child : Child[n] \in Graphs
  BY DEF Graphs
<1>3. QED
  BY <1>1, <1>2 DEF Nested

-------------------------------------------------------------------------------
(* The invariant is inductive.                                              *)

LEMMA CapturingInit == Init => Capturing
<1> SUFFICES ASSUME Init PROVE Capturing
  OBVIOUS
<1>1. /\ events = << >> /\ events \in Seq(Event) /\ Len(events) = 0 /\ DOMAIN events = {}
      /\ nesting = << >> /\ nesting \in Seq(Nodes)
  <2>1. events = << >> /\ nesting = << >>
    BY DEF Init
  <2>2. QED
    BY <2>1, EmptySeq
<1>2. ToSet(events) = {}
  BY <1>1 DEF ToSet
<1>3. \A sources : From(events, sources) = {}
  BY <1>2 DEF From
<1>4. \A s, n : Of(events, s, n) = {} /\ Occurrences(events, s, n) = {}
  BY <1>1, <1>3 DEF Of, Occurrences
<1>5. Typed
  BY <1>1, CapturesAssumption DEF Init, Typed, CaptureAssumption
<1>6. Nested
  BY DEF Init, Nested
<1>7. Counted
  <2>1. \A s \in Sources : \A n \in NodeIds : count[<<s, n>>] = 0
    BY DEF Init
  <2>2. Cardinality({}) = 0 /\ 1 .. 0 = {}
    BY FS_EmptySet
  <2>3. sequence = Len(events) /\ SequencesContiguous(events) /\ OccurrencesAreOrdinals(events)
    BY <1>1 DEF Init, SequencesContiguous, OccurrencesAreOrdinals
  <2>4. QED
    BY <1>4, <2>1, <2>2, <2>3 DEF Counted
<1>8. Staged
  BY <1>1 DEF Init, Staged
<1>9. Told
  <2>1. /\ TaskEventsNeverNested(events) /\ IdentityConfirmed(events) = {}
        /\ \A p : NestedNodeIds(events, p) = {}
        /\ GateTaskIds(events) = {}
    BY <1>3 DEF TaskEventsNeverNested, IdentityConfirmed, NestedNodeIds, GateTaskIds
  <2>2. RetryAttempts(events) = 0
    <3>1. {i \in DOMAIN events : events[i].source = "attempt" /\ events[i].number > 1} = {}
      BY <1>1
    <3>2. QED
      BY <3>1, FS_EmptySet DEF RetryAttempts
  <2>3. task # Gate
    <3>1. NoNode \notin NodeIds /\ Gate \in NodeIds
      BY CapturesAssumption DEF CaptureAssumption, NodeIds
    <3>2. QED
      BY <3>1 DEF Init
  <2>4. happened = [returned |-> {}, inside |-> {}, retries |-> 0, gates |-> {}]
    BY DEF Init
  <2>5. QED
    BY <2>1, <2>2, <2>3, <2>4 DEF Told
<1>10. Written
  BY DEF Init, Written
<1>11. QED
  BY <1>5, <1>6, <1>7, <1>8, <1>9, <1>10 DEF Capturing

\* The script: its refusals, and the beginnings and ends of its two invocations.
LEMMA ScriptSteps ==
  ASSUME Capturing,
         RefuseInput \/ BeginRun \/ ResumeRun \/ RefuseUnpaused \/ WriteTrace
  PROVE  Capturing'
<1> USE DEF graph, recorder, script
<1>1. Typed /\ Nested /\ Counted /\ Staged /\ Told /\ Written
  BY DEF Capturing
<1>2. CASE RefuseInput
  <2>1. Typed' /\ Nested' /\ Counted'
    BY <1>1, <1>2 DEF RefuseInput, Typed, Nested, Counted
  <2>2. Staged'
    <3>1. invocation = 0 /\ phase' = "refused"
      BY <1>1, <1>2 DEF RefuseInput, Staged
    <3>2. QED
      BY <1>1, <1>2, <3>1 DEF RefuseInput, Staged
  <2>3. Told'
    BY <1>1, <1>2, ToldKept DEF RefuseInput
  <2>4. Written'
    BY <1>1, <1>2 DEF RefuseInput, Written
  <2>5. QED
    BY <2>1, <2>2, <2>3, <2>4 DEF Capturing
<1>3. CASE BeginRun
  <2>1. Typed' /\ Nested' /\ Counted'
    BY <1>1, <1>3 DEF BeginRun, Typed, Nested, Counted
  <2>2. events = << >> /\ pending = "none" /\ invocation' = 1
    BY <1>1, <1>3 DEF BeginRun, Staged
  <2>3. Staged'
    BY <1>3, <2>2 DEF BeginRun, Staged
  <2>4. Told'
    BY <1>1, <1>3, ToldKept DEF BeginRun
  <2>5. Written'
    BY <1>1, <1>3 DEF BeginRun, Written
  <2>6. QED
    BY <2>1, <2>3, <2>4, <2>5 DEF Capturing
<1>4. CASE ResumeRun
  <2>1. /\ phase = "running" /\ phase' = phase /\ invocation = 1 /\ task = NoNode /\ task' = task
        /\ pending = "asked" /\ pending' = "answered" /\ invocation' = 2
        /\ UNCHANGED <<taskId, call, tries, sequence, count, nesting, events, trace, happened>>
    BY <1>4 DEF ResumeRun, StreamEnds
  <2>2. Typed' /\ Nested'
    BY <1>1, <2>1 DEF Typed, Nested
  <2>3. Staged'
    <3>1. /\ \A k \in DOMAIN events : events[k].invocation = 1
          /\ Len(events) > 0 /\ Asked(events, Len(events)) /\ events[Len(events)].taskId = taskId
      BY <1>1, <2>1 DEF Staged
    <3>2. Len(events) \in Nat /\ DOMAIN events = 1 .. Len(events)
      BY <1>1, LenProperties DEF Typed
    <3>3. Len(events) \in DOMAIN events /\ PausedAt(events, Len(events))
      BY <3>1, <3>2 DEF PausedAt
    <3>4. StillOpen(Len(events))'
      <4>1. \A k \in DOMAIN events : ~(k > Len(events))
        BY <3>2
      <4>2. QED
        BY <2>1, <3>1, <4>1 DEF StillOpen
    <3>5. QED
      BY <2>1, <3>3, <3>4 DEF Staged, Resumed
  <2>5. Counted' /\ Told' /\ Written'
    BY <1>1, <2>1, CountedKept, ToldKept, WrittenKept
  <2>6. QED
    BY <2>2, <2>3, <2>5 DEF Capturing
<1>5. CASE RefuseUnpaused
  <2>1. /\ phase = "running" /\ phase' = "refused"
        /\ UNCHANGED <<invocation, task, taskId, call, pending, tries, sequence, count, nesting,
                       events, trace, happened>>
    BY <1>5 DEF RefuseUnpaused, StreamEnds
  <2>2. Typed' /\ Nested' /\ Counted' /\ Told' /\ Written'
    BY <1>1, <2>1, CountedKept, ToldKept, WrittenKept DEF Typed, Nested
  <2>3. Staged'
    BY <1>1, <2>1, StagedKept
  <2>4. QED
    BY <2>2, <2>3 DEF Capturing
<1>6. CASE WriteTrace
  <2>1. /\ phase = "running" /\ phase' = "written" /\ invocation = 2 /\ task = NoNode
        /\ pending # "answered"
        /\ UNCHANGED <<relationship, invocation, task, taskId, call, pending, tries, sequence,
                       count, nesting, events, happened>>
    BY <1>6 DEF WriteTrace, StreamEnds
  <2>2. Typed' /\ Nested' /\ Counted' /\ Told'
    BY <1>1, <2>1, CountedKept, ToldKept DEF Typed, Nested
  <2>3. Staged'
    BY <1>1, <2>1, StagedKept
  <2>4. Written'
    BY <1>6, <2>1 DEF Written, WriteTrace
  <2>5. QED
    BY <2>2, <2>3, <2>4 DEF Capturing
<1>7. QED
  BY <1>2, <1>3, <1>4, <1>5, <1>6

\* Calls of children and tasks that begin, and whatever ends the script at once.
LEMMA GraphSteps ==
  ASSUME Capturing,
         \/ \E n \in Nodes : StartTask(n)
         \/ RerunGate \/ InvokeChild \/ InvokeUndeclared \/ RaiseInChild \/ FailTask
  PROVE  Capturing'
<1> USE DEF graph, recorder, script
<1>1. Typed /\ Nested /\ Counted /\ Staged /\ Told /\ Written
  BY DEF Capturing
<1>2. /\ NoNode \notin NodeIds /\ Nodes \subseteq NodeIds /\ Gate \in Nodes /\ DOMAIN Child \subseteq Nodes
      /\ \A n \in DOMAIN Child : Child[n] \in Graphs /\ Child[n] # NoGraph
      /\ call # NoGraph => task # NoNode /\ nesting = <<task>>
  BY <1>1, Graph
<1>3. phase = "running" /\ UNCHANGED <<scenario, pinned, relationship, invocation, trace>>
  BY DEF StartTask, RerunGate, InvokeChild, InvokeUndeclared, RaiseInChild, FailTask, Running
<1>4. Written'
  BY <1>1, <1>3, WrittenKept
<1>5. ASSUME NEW n \in Nodes, StartTask(n) PROVE Capturing'
  <2>1. /\ task = NoNode /\ pending = "none" /\ task' = n /\ taskId' = taskId + 1 /\ tries' = 0
        /\ happened' = IF n = Gate THEN [happened EXCEPT !.gates = @ \cup {taskId'}] ELSE happened
        /\ UNCHANGED <<phase, call, pending, sequence, count, nesting, events>>
    BY <1>5 DEF StartTask
  <2>2. call = NoGraph /\ nesting = << >> /\ taskId \in Nat /\ taskId' \in Nat
    BY <1>1, <1>2, <2>1 DEF Nested, Typed
  <2>3. happened' \in [ returned : SUBSET Nodes, inside : SUBSET (Nodes \X NodeIds),
                        retries : Nat, gates : SUBSET Nat ]
    BY <1>1, <2>1, <2>2 DEF Typed
  <2>4. Typed' /\ Nested' /\ Counted'
    BY <1>1, <1>2, <1>3, <2>1, <2>2, <2>3, CountedKept DEF Typed, Nested
  <2>5. Staged'
    <3>1. CASE invocation = 1
      BY <1>1, <1>3, <2>1, <3>1 DEF Staged
    <3>2. CASE invocation = 2
      <4>1. PICK i \in DOMAIN events : PausedAt(events, i) /\ Resumed(i)
        BY <1>1, <3>2 DEF Staged
      <4>2. ~StillOpen(i)
        BY <1>2, <2>1 DEF StillOpen
      <4>3. Resumed(i)'
        BY <2>1, <4>1, <4>2 DEF Resumed
      <4>4. QED
        BY <1>3, <2>1, <3>2, <4>1, <4>3 DEF Staged
    <3>3. QED
      BY <1>1, <1>3, <3>1, <3>2 DEF Staged, Typed
  <2>6. Told'
    <3>1. happened.gates = GateTaskIds(events)
      BY <1>1, <1>2, <2>1 DEF Told
    <3>2. happened'.gates = GateTaskIds(events) \cup (IF n = Gate THEN {taskId'} ELSE {})
      BY <1>1, <2>1, <3>1 DEF Typed
    <3>3. /\ happened'.returned = happened.returned /\ happened'.inside = happened.inside
          /\ happened'.retries = happened.retries
      BY <1>1, <2>1 DEF Typed
    <3>4. QED
      BY <1>1, <2>1, <3>2, <3>3 DEF Told
  <2>7. QED
    BY <1>4, <2>4, <2>5, <2>6 DEF Capturing
<1>6. CASE RerunGate
  <2>1. /\ task = NoNode /\ pending = "answered" /\ task' = Gate /\ pending' = "none" /\ tries' = 0
        /\ UNCHANGED <<phase, taskId, call, sequence, count, nesting, events, happened>>
    BY <1>6 DEF RerunGate
  <2>2. Typed' /\ Nested' /\ Counted'
    BY <1>1, <1>2, <1>3, <2>1, CountedKept DEF Typed, Nested
  <2>3. invocation = 2
    BY <1>1, <1>3, <2>1 DEF Staged, Typed
  <2>4. PICK i \in DOMAIN events : PausedAt(events, i) /\ StillOpen(i)
    BY <1>1, <2>1, <2>3 DEF Staged, Resumed
  <2>5. Staged'
    <3>1. StillOpen(i)'
      BY <1>3, <2>1, <2>4 DEF StillOpen
    <3>2. QED
      BY <1>3, <2>1, <2>3, <2>4, <3>1 DEF Staged, Resumed
  <2>6. taskId \in GateTaskIds(events)
    <3>1. events[i].source = "task" /\ events[i].nodeId = Gate /\ taskId = events[i].taskId
      BY <2>4 DEF PausedAt, Asked, GateEvent, StillOpen
    <3>2. events[i] \in From(events, {"task"})
      BY <3>1 DEF From, ToSet
    <3>3. QED
      BY <3>1, <3>2 DEF GateTaskIds
  <2>7. Told'
    BY <1>1, <1>2, <2>1, <2>6, ToldKept
  <2>8. QED
    BY <1>4, <2>2, <2>5, <2>7 DEF Capturing
<1>7. CASE InvokeChild
  <2>1. /\ call = NoGraph /\ task \in DOMAIN Child /\ call' = Child[task] /\ tries' = 0
        /\ nesting' = Append(nesting, DeclaredFor(Child[task]))
        /\ UNCHANGED <<phase, task, taskId, pending, sequence, count, events, happened>>
    BY <1>7 DEF InvokeChild
  <2>2. nesting = << >> /\ DeclaredFor(Child[task]) = task /\ task \in Nodes
    BY <1>1, <1>2, <2>1, DeclaredOnce DEF Nested
  <2>3. nesting' = <<task>> /\ nesting' \in Seq(Nodes)
    BY <2>1, <2>2
  <2>4. Typed' /\ Nested' /\ Counted'
    BY <1>1, <1>2, <1>3, <2>1, <2>3, CountedKept DEF Typed, Nested
  <2>5. Staged' /\ Told'
    BY <1>1, <1>3, <2>1, StagedKept, ToldKept
  <2>6. QED
    BY <1>4, <2>4, <2>5 DEF Capturing
<1>8. CASE RaiseInChild
  <2>1. /\ call # NoGraph /\ nesting' = Front(nesting) /\ call' = NoGraph /\ tries' = 0
        /\ UNCHANGED <<phase, task, taskId, pending, sequence, count, events, happened>>
    BY <1>8 DEF RaiseInChild
  <2>2. nesting' = << >>
    BY <1>2, <2>1 DEF Front
  <2>3. Typed' /\ Nested' /\ Counted'
    BY <1>1, <1>2, <1>3, <2>1, <2>2, CountedKept, EmptySeq DEF Typed, Nested
  <2>4. Staged' /\ Told'
    BY <1>1, <1>3, <2>1, StagedKept, ToldKept
  <2>5. QED
    BY <1>4, <2>3, <2>4 DEF Capturing
<1>9. CASE InvokeUndeclared \/ FailTask
  <2>1. /\ phase' \in {"refused", "failed"}
        /\ UNCHANGED <<task, taskId, call, pending, tries, sequence, count, nesting, events, happened>>
    BY <1>9 DEF InvokeUndeclared, FailTask
  <2>2. Typed' /\ Nested' /\ Counted'
    BY <1>1, <1>3, <2>1, CountedKept DEF Typed, Nested
  <2>3. Staged' /\ Told'
    BY <1>1, <1>3, <2>1, StagedKept, ToldKept
  <2>4. QED
    BY <1>4, <2>2, <2>3 DEF Capturing
<1>10. QED
  BY <1>5, <1>6, <1>7, <1>8, <1>9

\* What the observer reports within a task.
LEMMA ObserverSteps ==
  ASSUME Capturing, NEW n \in NodeIds, ObserveStep(n) \/ ObserveAttempt(n)
  PROVE  Capturing'
<1> USE DEF graph, recorder, script
<1>1. Typed /\ Nested /\ Counted /\ Staged /\ Told /\ Written
  BY DEF Capturing
<1>2. /\ phase = "running" /\ task # NoNode
      /\ UNCHANGED <<scenario, pinned, relationship, invocation, trace, phase, nesting, task, taskId,
                     call, pending>>
  BY DEF ObserveStep, ObserveAttempt, Observed, Running
<1>3. invocation \in {1, 2} /\ pending = "none" /\ task \in Nodes
  BY <1>1, <1>2 DEF Staged, Typed, Nested
<1>4. PICK u : u = NestedUnder
  OBVIOUS
<1>5. u \in Nodes \cup {NoNode} /\ u = IF call = NoGraph THEN NoNode ELSE task
  BY <1>1, <1>4, TopOfStack
<1>6. PICK r : r = tries
  OBVIOUS
<1>7. r \in Nat
  BY <1>1, <1>6 DEF Typed
<1>8. {"step", "attempt"} \subseteq Sources /\ Observer = {"step", "attempt"}
  BY DEF Sources, Observer
<1>9. NoNode \notin NodeIds /\ Nodes \subseteq NodeIds
  BY <1>1, Graph
<1>10. PICK s \in {"step", "attempt"}, a \in Nat :
         /\ Record(s, n, "reported", a, u)
         /\ tries' \in Nat
         /\ happened' = [ Inside(n) EXCEPT !.retries =
              IF s = "attempt" /\ a > 1 THEN @ + 1 ELSE @ ]
  <2>1. CASE ObserveStep(n)
    <3>1. Record("step", n, "reported", 0, u) /\ tries' = 0 /\ happened' = Inside(n)
      BY <1>4, <2>1 DEF ObserveStep, Record
    <3>2. Inside(n) = [ Inside(n) EXCEPT !.retries = @ ]
      BY <1>1 DEF Inside, Typed
    <3>3. QED
      BY <3>1, <3>2
  <2>2. CASE ObserveAttempt(n)
    <3>1. Record("attempt", n, "reported", r + 1, u) /\ tries' = r + 1
      BY <1>4, <1>6, <2>2 DEF ObserveAttempt, Record
    <3>2. happened' = [ Inside(n) EXCEPT !.retries = IF r = 0 THEN @ ELSE @ + 1 ]
      BY <1>6, <2>2 DEF ObserveAttempt
    <3>3. r + 1 \in Nat /\ (r = 0 <=> ~(r + 1 > 1))
      BY <1>7
    <3>4. happened' = [ Inside(n) EXCEPT !.retries =
            IF "attempt" = "attempt" /\ r + 1 > 1 THEN @ + 1 ELSE @ ]
      BY <3>2, <3>3
    <3>5. QED
      BY <3>1, <3>3, <3>4
  <2>3. QED
    BY <2>1, <2>2
<1>11. s \in Sources /\ s \in Observer /\ s # "task" /\ s # "call"
  BY <1>8
<1>12. events' \in Seq(Event) /\ sequence' \in Nat /\ count' \in [Sources \X NodeIds -> Nat]
  BY <1>1, <1>3, <1>5, <1>10, <1>11, Recorded
<1>13. /\ happened'.returned = happened.returned /\ happened'.gates = happened.gates
       /\ happened'.inside = IF call = NoGraph THEN happened.inside
                             ELSE happened.inside \cup {<<task, n>>}
       /\ happened'.retries = happened.retries + (IF s = "attempt" /\ a > 1 THEN 1 ELSE 0)
       /\ happened' \in [ returned : SUBSET Nodes, inside : SUBSET (Nodes \X NodeIds),
                          retries : Nat, gates : SUBSET Nat ]
  <2>1. happened \in [ returned : SUBSET Nodes, inside : SUBSET (Nodes \X NodeIds),
                       retries : Nat, gates : SUBSET Nat ]
    BY <1>1 DEF Typed
  <2>2. Inside(n) = [happened EXCEPT !.inside = IF call = NoGraph THEN @ ELSE @ \cup {<<task, n>>}]
    BY DEF Inside
  <2>3. <<task, n>> \in Nodes \X NodeIds
    BY <1>3
  <2> DEFINE I == IF call = NoGraph THEN happened.inside ELSE happened.inside \cup {<<task, n>>}
  <2> DEFINE d == IF s = "attempt" /\ a > 1 THEN 1 ELSE 0
  <2>4. I \in SUBSET (Nodes \X NodeIds)
    BY <2>1, <2>3
  <2> DEFINE H(k) == [ returned |-> happened.returned, inside |-> I, retries |-> k,
                       gates |-> happened.gates ]
  <2>5. Inside(n) = H(happened.retries)
    BY <2>1, <2>2
  <2>6. happened.retries \in Nat /\ d \in Nat
    BY <2>1
  <2>7. happened' = H(happened.retries + d)
    <3> DEFINE k == happened.retries
    <3>1. happened' = [ H(k) EXCEPT !.retries = IF s = "attempt" /\ a > 1 THEN @ + 1 ELSE @ ]
      BY <1>10, <2>5
    <3> HIDE DEF I
    <3>2. CASE s = "attempt" /\ a > 1
      <4>1. happened' = [ H(k) EXCEPT !.retries = @ + 1 ]
        BY <3>1, <3>2
      <4>2. d = 1
        BY <3>2
      <4>3. QED
        BY <4>1, <4>2
    <3>3. CASE ~(s = "attempt" /\ a > 1)
      <4>1. happened' = [ H(k) EXCEPT !.retries = @ ]
        BY <3>1, <3>3
      <4>2. k + d = k
        BY <2>6, <3>3
      <4>3. QED
        BY <4>1, <4>2
    <3>4. QED
      BY <3>2, <3>3
  <2>8. /\ happened'.returned = happened.returned /\ happened'.gates = happened.gates
        /\ happened'.inside = I /\ happened'.retries = happened.retries + d
        /\ happened' \in [ returned : SUBSET Nodes, inside : SUBSET (Nodes \X NodeIds),
                            retries : Nat, gates : SUBSET Nat ]
    <3>1. happened.retries + d \in Nat
      BY <2>6
    <3> HIDE DEF I, d
    <3>2. QED
      BY <2>1, <2>4, <2>7, <3>1
  <2>9. QED
    BY <2>8
<1>14. Typed' /\ Nested'
  BY <1>1, <1>2, <1>3, <1>10, <1>12, <1>13 DEF Typed, Nested
<1>15. Counted'
  BY <1>1, <1>3, <1>5, <1>10, <1>11, RecordedCounts
<1>16. Staged'
  BY <1>1, <1>2, <1>3, <1>5, <1>10, <1>11, StagedObserved
<1>17. Told'
  <2>0. /\ TaskEventsNeverNested(events) /\ (s = "task" => u = NoNode)
             => TaskEventsNeverNested(events')
        /\ IdentityConfirmed(events') =
             IdentityConfirmed(events) \cup (IF s = "call" THEN {n} ELSE {})
        /\ \A p, m : m \in NestedNodeIds(events', p) <=>
             m \in NestedNodeIds(events, p) \/ (s \in Observer /\ u = p /\ n = m)
        /\ RetryAttempts(events) \in Nat
        /\ RetryAttempts(events') = RetryAttempts(events) +
             (IF s = "attempt" /\ a > 1 THEN 1 ELSE 0)
        /\ GateTaskIds(events') = GateTaskIds(events) \cup
             (IF s = "task" /\ n = Gate THEN {taskId} ELSE {})
    BY <1>1, <1>3, <1>5, <1>10, <1>11, RecordedTells
  <2>1. /\ TaskEventsNeverNested(events) => TaskEventsNeverNested(events')
        /\ IdentityConfirmed(events') = IdentityConfirmed(events)
        /\ \A p, m : m \in NestedNodeIds(events', p) <=>
             m \in NestedNodeIds(events, p) \/ (u = p /\ n = m)
        /\ RetryAttempts(events) \in Nat
        /\ RetryAttempts(events') = RetryAttempts(events) + (IF s = "attempt" /\ a > 1 THEN 1 ELSE 0)
        /\ GateTaskIds(events') = GateTaskIds(events)
    BY <1>11, <2>0
  <2>2. ASSUME NEW p \in Nodes, NEW m \in NodeIds
        PROVE  m \in NestedNodeIds(events', p) <=> <<p, m>> \in happened'.inside
    <3>1. m \in NestedNodeIds(events, p) <=> <<p, m>> \in happened.inside
      BY <1>1 DEF Told
    <3>2. u = p <=> call # NoGraph /\ task = p
      BY <1>5, <1>9
    <3>3. <<p, m>> \in happened'.inside <=>
            <<p, m>> \in happened.inside \/ (call # NoGraph /\ task = p /\ n = m)
      BY <1>13
    <3>4. QED
      BY <2>1, <3>1, <3>2, <3>3
  <2>3. QED
    BY <1>1, <1>2, <1>13, <2>1, <2>2 DEF Told
<1>18. Written'
  BY <1>1, <1>2, WrittenKept
<1>19. QED
  BY <1>14, <1>15, <1>16, <1>17, <1>18 DEF Capturing

LEMMA ReturnStep ==
  ASSUME Capturing, ReturnChild
  PROVE  Capturing'
<1> USE DEF graph, recorder, script
<1>1. Typed /\ Nested /\ Counted /\ Staged /\ Told /\ Written
  BY DEF Capturing
<1>2. /\ phase = "running" /\ call # NoGraph /\ nesting' = Front(nesting)
      /\ call' = NoGraph /\ tries' = 0
      /\ UNCHANGED <<scenario, pinned, relationship, invocation, trace, phase, task, taskId, pending>>
      /\ happened' = [happened EXCEPT !.returned = @ \cup {task}]
  BY DEF ReturnChild, Running
<1>3. /\ task \in DOMAIN Child /\ call = Child[task] /\ task # NoNode /\ task # Gate
      /\ nesting = <<task>> /\ pending = "none" /\ task \in NodeIds /\ task \in Nodes
  BY <1>1, <1>2, Graph
<1>4. PICK n : n = task
  OBVIOUS
<1>5. Record("call", n, "returned", 0, NoNode)
  <2>1. DeclaredFor(call) = n
    BY <1>3, <1>4, DeclaredOnce
  <2>2. QED
    BY <2>1 DEF ReturnChild, Record
<1>6. invocation \in {1, 2} /\ n \in NodeIds /\ "call" \in Sources /\ "call" \notin Observer
  BY <1>1, <1>2, <1>3, <1>4 DEF Staged, Typed, Sources, Observer
<1>7. /\ events' \in Seq(Event) /\ sequence' \in Nat /\ count' \in [Sources \X NodeIds -> Nat]
  BY <1>1, <1>5, <1>6, Recorded
<1>8. nesting' = << >>
  BY <1>2, <1>3 DEF Front
<1>9. /\ happened'.returned = happened.returned \cup {n} /\ happened'.gates = happened.gates
      /\ happened'.inside = happened.inside /\ happened'.retries = happened.retries
      /\ happened' \in [ returned : SUBSET Nodes, inside : SUBSET (Nodes \X NodeIds),
                         retries : Nat, gates : SUBSET Nat ]
  BY <1>1, <1>2, <1>3, <1>4 DEF Typed
<1>10. Typed' /\ Nested'
  BY <1>1, <1>2, <1>3, <1>7, <1>8, <1>9, EmptySeq, ZenonT(60) DEF Typed, Nested
<1>11. Counted'
  BY <1>1, <1>5, <1>6, RecordedCounts
<1>12. Staged'
  BY <1>1, <1>2, <1>3, <1>5, <1>6, StagedObserved
<1>13. Told'
  <2>0. /\ TaskEventsNeverNested(events) /\ ("call" = "task" => NoNode = NoNode)
             => TaskEventsNeverNested(events')
        /\ IdentityConfirmed(events') =
             IdentityConfirmed(events) \cup (IF "call" = "call" THEN {n} ELSE {})
        /\ \A p, m : m \in NestedNodeIds(events', p) <=>
             m \in NestedNodeIds(events, p) \/ ("call" \in Observer /\ NoNode = p /\ n = m)
        /\ RetryAttempts(events) \in Nat
        /\ RetryAttempts(events') = RetryAttempts(events) +
             (IF "call" = "attempt" /\ 0 > 1 THEN 1 ELSE 0)
        /\ GateTaskIds(events') = GateTaskIds(events) \cup
             (IF "call" = "task" /\ n = Gate THEN {taskId} ELSE {})
    BY <1>1, <1>5, <1>6, RecordedTells
  <2>1. /\ TaskEventsNeverNested(events) => TaskEventsNeverNested(events')
        /\ IdentityConfirmed(events') = IdentityConfirmed(events) \cup {n}
        /\ \A p, m : m \in NestedNodeIds(events', p) <=> m \in NestedNodeIds(events, p)
        /\ RetryAttempts(events) \in Nat
        /\ RetryAttempts(events') = RetryAttempts(events)
        /\ GateTaskIds(events') = GateTaskIds(events)
    BY <1>6, <2>0
  <2>2. QED
    BY <1>1, <1>2, <1>9, <2>1 DEF Told
<1>14. Written'
  BY <1>1, <1>2, WrittenKept
<1>15. QED
  BY <1>10, <1>11, <1>12, <1>13, <1>14 DEF Capturing

LEMMA TaskEndSteps ==
  ASSUME Capturing, FinishTask \/ InterruptTask
  PROVE  Capturing'
<1> USE DEF graph, recorder, script
<1>1. Typed /\ Nested /\ Counted /\ Staged /\ Told /\ Written
  BY DEF Capturing
<1>2. NoNode \notin NodeIds /\ Nodes \subseteq NodeIds /\ Gate \in Nodes
  BY <1>1, Graph
<1>3. /\ phase = "running" /\ task # NoNode /\ call = NoGraph /\ task' = NoNode
      /\ UNCHANGED <<scenario, pinned, relationship, invocation, trace, phase, nesting, taskId, call,
                     tries, happened>>
  BY <1>2 DEF FinishTask, InterruptTask, Running
<1>4. NestedUnder = NoNode
  BY <1>1, <1>3, TopOfStack
<1>5. PICK n : n = task
  OBVIOUS
<1>6. invocation \in {1, 2} /\ n \in NodeIds /\ n \in Nodes /\ pending = "none" /\ "task" \in Sources
      /\ "task" \notin Observer
  BY <1>1, <1>2, <1>3, <1>5 DEF Staged, Typed, Nested, Sources, Observer
<1>7. PICK o \in {"reported", "returned", "passed", "awaiting_approval"} :
        /\ Record("task", n, o, 0, NoNode)
        /\ pending' \in {"none", "asked"} /\ (pending' = "asked" <=> o = "awaiting_approval")
        /\ pending' = "asked" => task = Gate
  <2>1. CASE FinishTask
    BY <1>4, <1>5, <1>6, <2>1 DEF FinishTask, Record
  <2>2. CASE InterruptTask
    BY <1>4, <1>5, <2>2 DEF InterruptTask, Record
  <2>3. QED
    BY <2>1, <2>2
<1>8. /\ events' \in Seq(Event) /\ sequence' \in Nat /\ count' \in [Sources \X NodeIds -> Nat]
  <2>1. o \in {"reported", "returned", "passed", "awaiting_approval"} /\ 0 \in Nat
        /\ NoNode \in Nodes \cup {NoNode}
    BY <1>7
  <2>2. QED
    BY <1>1, <1>6, <1>7, <2>1, Recorded
<1>9. Typed' /\ Nested'
  BY <1>1, <1>3, <1>7, <1>8 DEF Typed, Nested
<1>10. Counted'
  BY <1>1, <1>6, <1>7, RecordedCounts
<1>11. Staged'
  BY <1>1, <1>3, <1>5, <1>6, <1>7, StagedFinished
<1>12. Told'
  <2> PICK s \in Sources, z \in Nat, u \in Nodes \cup {NoNode} :
        s = "task" /\ z = 0 /\ u = NoNode /\ Record(s, n, o, z, u)
    BY <1>6, <1>7
  <2>0. /\ TaskEventsNeverNested(events) /\ (s = "task" => u = NoNode)
             => TaskEventsNeverNested(events')
        /\ IdentityConfirmed(events') =
             IdentityConfirmed(events) \cup (IF s = "call" THEN {n} ELSE {})
        /\ \A p, m : m \in NestedNodeIds(events', p) <=>
             m \in NestedNodeIds(events, p) \/ (s \in Observer /\ u = p /\ n = m)
        /\ RetryAttempts(events) \in Nat
        /\ RetryAttempts(events') = RetryAttempts(events) +
             (IF s = "attempt" /\ z > 1 THEN 1 ELSE 0)
        /\ GateTaskIds(events') = GateTaskIds(events) \cup
             (IF s = "task" /\ n = Gate THEN {taskId} ELSE {})
    <3>1. Typed /\ invocation \in {1, 2} /\ n \in NodeIds
      BY <1>1, <1>6
    <3>2. QED
      BY <3>1, RecordedTells
  <2>1. /\ TaskEventsNeverNested(events) => TaskEventsNeverNested(events')
        /\ IdentityConfirmed(events') = IdentityConfirmed(events)
        /\ \A p, m : m \in NestedNodeIds(events', p) <=> m \in NestedNodeIds(events, p)
        /\ RetryAttempts(events) \in Nat
        /\ RetryAttempts(events') = RetryAttempts(events)
        /\ GateTaskIds(events') = GateTaskIds(events) \cup (IF n = Gate THEN {taskId} ELSE {})
    BY <1>6, <2>0
  <2>2. task' # Gate
    BY <1>2, <1>3
  <2>3. happened'.gates = GateTaskIds(events') \cup (IF task' = Gate THEN {taskId'} ELSE {})
    BY <1>1, <1>3, <1>5, <2>1, <2>2 DEF Told
  <2>4. QED
    BY <1>1, <1>3, <2>1, <2>3 DEF Told
<1>13. Written'
  BY <1>1, <1>3, WrittenKept
<1>14. QED
  BY <1>9, <1>10, <1>11, <1>12, <1>13 DEF Capturing

LEMMA CapturingStep == Capturing /\ [Next]_vars => Capturing'
<1> SUFFICES ASSUME Capturing, [Next]_vars PROVE Capturing'
  OBVIOUS
<1>1. CASE UNCHANGED vars
  BY <1>1 DEF vars, script, graph, recorder, Capturing, Typed, Nested, Counted, Staged, Resumed,
              StillOpen, Told, Written
<1>2. CASE RefuseInput \/ BeginRun \/ ResumeRun \/ RefuseUnpaused \/ WriteTrace
  BY <1>2, ScriptSteps
<1>3. CASE \/ \E n \in Nodes : StartTask(n)
           \/ RerunGate \/ InvokeChild \/ InvokeUndeclared \/ RaiseInChild \/ FailTask
  BY <1>3, GraphSteps
<1>4. CASE \E n \in NodeIds : ObserveStep(n) \/ ObserveAttempt(n)
  BY <1>4, ObserverSteps
<1>5. CASE ReturnChild
  BY <1>5, ReturnStep
<1>6. CASE FinishTask \/ InterruptTask
  BY <1>6, TaskEndSteps
<1>7. QED
  BY <1>1, <1>2, <1>3, <1>4, <1>5, <1>6 DEF Next

\* Every reachable state of the capture is as the invariant says.
THEOREM CapturingAlways == Spec => []Capturing
BY CapturingInit, CapturingStep, PTL DEF Spec

-------------------------------------------------------------------------------
(* The three properties.                                                    *)

\* The events a step adds that are no returned call.
LEMMA OneEventUnder ==
  ASSUME Typed, Staged, phase = "running",
         NEW source \in Sources, NEW n \in NodeIds,
         NEW outcome \in {"reported", "returned", "passed", "awaiting_approval"},
         NEW number \in Nat, NEW under \in Nodes \cup {NoNode},
         Record(source, n, outcome, number, under)
  PROVE  \A i \in DOMAIN events' \ DOMAIN events :
           events'[i].source = source /\ events'[i].under = under
<1> DEFINE e == Entry(source, n, outcome, number, under)
<1>1. invocation \in {1, 2} /\ events \in Seq(Event)
  BY DEF Typed, Staged
<1>2. e \in Event /\ events' = Append(events, e)
  BY <1>1, Recorded, ZenonT(60)
<1>3. e.source = source /\ e.under = under
  BY DEF Entry
<1> HIDE DEF e
<1>4. /\ DOMAIN events = 1 .. Len(events) /\ DOMAIN events' = 1 .. Len(events) + 1
      /\ Len(events) \in Nat /\ events'[Len(events) + 1] = e
  BY <1>1, <1>2, OneMore
<1>5. \A i \in DOMAIN events' \ DOMAIN events : i = Len(events) + 1
  BY <1>4
<1>6. QED
  BY <1>3, <1>4, <1>5

\* Whatever a call of a declared child comes to, each report of the observer is recorded
\* under the node that was calling its child, and under none when none was.
THEOREM NestingAlways == Spec => NestedUnderItsParent
<1> DEFINE A == \A i \in DOMAIN events' \ DOMAIN events :
                  events'[i].source # "call" =>
                    events'[i].under = IF call = NoGraph THEN NoNode ELSE task
<1>1. ASSUME Capturing, [Next]_vars PROVE [A]_vars
  <2> USE DEF graph, recorder, script
  <2>1. Typed /\ Nested /\ Staged
    BY <1>1 DEF Capturing
  <2>2. /\ NestedUnder = IF call = NoGraph THEN NoNode ELSE task
        /\ NestedUnder \in Nodes \cup {NoNode} /\ Nodes \subseteq NodeIds
        /\ NoNode \notin NodeIds
    BY <2>1, TopOfStack, Graph
  <2>3. CASE UNCHANGED events
    BY <2>3
  <2>4. ASSUME NEW n \in NodeIds, ObserveStep(n) \/ ObserveAttempt(n) PROVE A
    <3>1. PICK u, r : u = NestedUnder /\ r = tries
      OBVIOUS
    <3>2. phase = "running" /\ r \in Nat /\ r + 1 \in Nat /\ 0 \in Nat /\ u \in Nodes \cup {NoNode}
      BY <2>1, <2>2, <2>4, <3>1 DEF ObserveStep, ObserveAttempt, Observed, Running, Typed
    <3>3. PICK s \in {"step", "attempt"}, a \in Nat : Record(s, n, "reported", a, u)
      <4>1. CASE ObserveStep(n)
        BY <3>1, <3>2, <4>1 DEF ObserveStep, Record
      <4>2. CASE ObserveAttempt(n)
        BY <3>1, <3>2, <4>2 DEF ObserveAttempt, Record
      <4>3. QED
        BY <2>4, <4>1, <4>2
    <3>4. s \in Sources
      BY DEF Sources
    <3>5. \A i \in DOMAIN events' \ DOMAIN events : events'[i].source = s /\ events'[i].under = u
      BY <2>1, <3>2, <3>3, <3>4, OneEventUnder
    <3>6. QED
      BY <2>2, <3>1, <3>5
  <2>5. CASE ReturnChild
    <3>1. PICK n : n = DeclaredFor(call)
      OBVIOUS
    <3>2. phase = "running" /\ Record("call", n, "returned", 0, NoNode)
      BY <2>5, <3>1 DEF ReturnChild, Record, Running
    <3>3. n \in NodeIds /\ "call" \in Sources
      <4>1. call = Child[task] /\ task \in DOMAIN Child /\ task \in NodeIds
        BY <2>1, <2>2, <2>5, Graph DEF ReturnChild
      <4>2. QED
        BY <3>1, <4>1, DeclaredOnce DEF Sources
    <3>4. \A i \in DOMAIN events' \ DOMAIN events :
            events'[i].source = "call" /\ events'[i].under = NoNode
      BY <2>1, <3>2, <3>3, OneEventUnder
    <3>5. QED
      BY <3>4
  <2>6. CASE FinishTask \/ InterruptTask
    <3>1. PICK n, u : n = task /\ u = NestedUnder
      OBVIOUS
    <3>2. PICK o \in {"reported", "returned", "passed", "awaiting_approval"} :
            Record("task", n, o, 0, u)
      BY <2>6, <3>1 DEF FinishTask, InterruptTask, Record
    <3>3. /\ phase = "running" /\ n \in NodeIds /\ "task" \in Sources /\ 0 \in Nat
          /\ u \in Nodes \cup {NoNode}
      <4>1. phase = "running" /\ (task # NoNode \/ task = Gate)
        BY <2>6 DEF FinishTask, InterruptTask, Running
      <4>2. task \in NodeIds
        BY <2>1, <2>2, <4>1, Graph DEF Typed
      <4>3. QED
        BY <2>2, <3>1, <4>1, <4>2 DEF Sources
    <3>4. \A i \in DOMAIN events' \ DOMAIN events :
            events'[i].source = "task" /\ events'[i].under = u
      <4>1. Typed /\ Staged /\ phase = "running"
        BY <2>1, <3>3
      <4>2. QED
        BY <3>2, <3>3, <4>1, OneEventUnder
    <3>5. QED
      BY <2>2, <3>1, <3>4
  <2>7. CASE Next
    <3>1. ASSUME UNCHANGED events PROVE A
      BY <3>1
    <3> HIDE DEF A
    <3>2. CASE RefuseInput \/ BeginRun \/ ResumeRun \/ RefuseUnpaused \/ WriteTrace
      BY <3>1, <3>2 DEF RefuseInput, BeginRun, ResumeRun, RefuseUnpaused, WriteTrace
    <3>3. CASE \/ \E n \in Nodes : StartTask(n)
               \/ RerunGate \/ InvokeChild \/ InvokeUndeclared \/ RaiseInChild \/ FailTask
      BY <3>1, <3>3 DEF StartTask, RerunGate, InvokeChild, InvokeUndeclared, RaiseInChild, FailTask
    <3>4. QED
      BY <2>4, <2>5, <2>6, <2>7, <3>2, <3>3 DEF Next
  <2>8. QED
    BY <1>1, <2>7
<1>2. QED
  BY <1>1, CapturingAlways, PTL DEF Spec, NestedUnderItsParent

\* A trace is written only of a run that paused at the gate and was resumed there, and it
\* says whether the run paused again.
THEOREM WrittenRunsPaused == Spec => []OnlyAPausedRunIsWritten
<1>1. ASSUME Capturing PROVE OnlyAPausedRunIsWritten
  <2> SUFFICES ASSUME trace # NoTrace PROVE OnlyAPausedRunIsWritten
    BY DEF OnlyAPausedRunIsWritten
  <2>1. /\ invocation = 2 /\ task = NoNode /\ pending # "answered"
        /\ trace.events = events /\ (trace.secondPaused <=> pending = "asked")
    <3>1. /\ invocation = 2 /\ task = NoNode /\ pending # "answered"
          /\ trace = [ events |-> events, matchesStandalone |-> relationship.matches,
                       secondPaused |-> pending = "asked" ]
      BY <1>1 DEF Capturing, Written
    <3>2. trace.events = events /\ trace.secondPaused = (pending = "asked")
      BY <3>1
    <3>3. QED
      BY <3>1, <3>2
  <2>2. task # Gate
    BY <1>1, <2>1, Graph DEF Capturing
  <2>3. PICK i \in DOMAIN events : PausedAt(events, i) /\ Resumed(i)
    BY <1>1, <2>1 DEF Capturing, Staged
  <2>4. ~StillOpen(i)
    BY <2>1, <2>2 DEF StillOpen
  <2>5. PICK j \in DOMAIN events : ReopenedAt(events, i, j)
    BY <2>3, <2>4 DEF Resumed
  <2>6. trace.secondPaused <=> AsksAgain(events)
    BY <2>1, <2>3, <2>4 DEF Resumed
  <2>7. QED
    BY <2>1, <2>3, <2>5, <2>6
    DEF OnlyAPausedRunIsWritten, PausedAt, ReopenedAt, AsksAgain, Asked, GateEvent
<1>2. QED
  BY <1>1, CapturingAlways, PTL

\* A replay that reads nothing but the trace concludes what happened in the run.
THEOREM ReplaysTellTheRun == Spec => []ReplayTellsTheRun
<1>1. ASSUME Capturing PROVE ReplayTellsTheRun
  <2> SUFFICES ASSUME trace # NoTrace PROVE ReplayTellsTheRun
    BY DEF ReplayTellsTheRun
  <2>1. Typed /\ Counted /\ Staged /\ Told /\ Nested
    BY <1>1 DEF Capturing
  <2>2. /\ invocation = 2 /\ task = NoNode /\ pending # "answered"
        /\ trace.events = events
    BY <1>1 DEF Capturing, Written
  <2>3. /\ NoNode \notin NodeIds /\ Nodes \subseteq NodeIds /\ Gate \in Nodes /\ task # Gate
        /\ Target \in Nodes
    BY <2>1, <2>2, Graph, CapturesAssumption DEF CaptureAssumption
  <2>4. events \in Seq(Event) /\ \A i \in DOMAIN events : events[i] \in Event
    BY <2>1, ElementOfSeq DEF Typed
  <2>5. /\ SequencesContiguous(events) /\ OccurrencesAreOrdinals(events)
        /\ TaskEventsNeverNested(events) /\ RetryAttempts(events) = happened.retries
    BY <2>1 DEF Counted, Told
  <2>6. RelationshipConfirmed(trace) <=>
          trace.matchesStandalone /\ Target \in happened.returned /\ <<Target, Evidence>> \in happened.inside
    <3>1. Target \in IdentityConfirmed(events) <=> Target \in happened.returned
      BY <2>1 DEF Told
    <3>2. Evidence \in NestedNodeIds(events, Target) <=> <<Target, Evidence>> \in happened.inside
      <4>1. Evidence \in NodeIds =>
              (Evidence \in NestedNodeIds(events, Target) <=> <<Target, Evidence>> \in happened.inside)
        BY <2>1, <2>3 DEF Told
      <4>2. Evidence \in NestedNodeIds(events, Target) => Evidence \in NodeIds
        BY <2>4, SMTT(60) DEF NestedNodeIds, From, ToSet, Event
      <4>3. <<Target, Evidence>> \in happened.inside => Evidence \in NodeIds
        BY <2>1 DEF Typed
      <4>4. QED
        BY <4>1, <4>2, <4>3
    <3>3. QED
      BY <2>2, <3>1, <3>2 DEF RelationshipConfirmed
  <2>7. OccurrencesAgree(events) <=>
          \A n \in ModelNodes(events) : Cardinality(Of(events, "task", n)) = Cardinality(Of(events, "step", n))
    <3>1. ModelNodes(events) \subseteq NodeIds
      BY <2>4, SMTT(60) DEF ModelNodes, From, ToSet, Event
    <3>2. ASSUME NEW n \in NodeIds
          PROVE  Occurrences(events, "task", n) = Occurrences(events, "step", n) <=>
                   Cardinality(Of(events, "task", n)) = Cardinality(Of(events, "step", n))
      <4>1. {"task", "step"} \subseteq Sources
        BY DEF Sources
      <4>2. PICK a, b : a = count[<<"task", n>>] /\ b = count[<<"step", n>>]
        OBVIOUS
      <4>3. a \in Nat /\ b \in Nat
        BY <2>1, <4>1, <4>2 DEF Typed
      <4>4. /\ Occurrences(events, "task", n) = 1 .. a /\ Occurrences(events, "step", n) = 1 .. b
            /\ Cardinality(Of(events, "task", n)) = a /\ Cardinality(Of(events, "step", n)) = b
        BY <2>1, <4>1, <4>2 DEF Counted
      <4>5. Cardinality(1 .. a) = a /\ Cardinality(1 .. b) = b
        BY <4>3, FS_Interval
      <4>6. QED
        BY <4>4, <4>5
    <3>3. QED
      BY <3>1, <3>2 DEF OccurrencesAgree
  <2>8. PICK i \in DOMAIN events, j \in DOMAIN events : PausedAt(events, i) /\ ReopenedAt(events, i, j)
    <3>1. PICK i \in DOMAIN events : PausedAt(events, i) /\ Resumed(i)
      BY <2>1, <2>2 DEF Staged
    <3>2. ~StillOpen(i)
      BY <2>2, <2>3 DEF StillOpen
    <3>3. QED
      BY <3>1, <3>2 DEF Resumed
  <2>9. ReExecutedOnResume(events)
    <3>1. i < j /\ i \in Nat /\ j \in Nat
      BY <2>4, <2>8, LenProperties DEF ReopenedAt
    <3>2. events[i].nodeId = Gate /\ events[i].invocation = 1
      BY <2>8, <3>1 DEF PausedAt, Asked, GateEvent
    <3>3. events[j].nodeId = Gate /\ events[j].invocation = 2
      BY <2>8, <3>1 DEF PausedAt, ReopenedAt, GateEvent
    <3>4. events[i] \in ToSet(events) /\ events[j] \in ToSet(events)
      BY DEF ToSet
    <3>5. QED
      BY <3>2, <3>3, <3>4 DEF ReExecutedOnResume
  <2>10. SameTaskId(events) <=> \E id \in happened.gates : happened.gates = {id}
    <3>1. happened.gates = GateTaskIds(events)
      BY <2>1, <2>3 DEF Told
    <3>2. IsFiniteSet(GateTaskIds(events))
      <4> DEFINE I == {k \in DOMAIN events : GateEvent(events, k)}
      <4> DEFINE f == [k \in I |-> events[k].taskId]
      <4>1. IsFiniteSet(I)
        BY <2>4, OfType
      <4>2. \A k \in I : events[k].taskId \in GateTaskIds(events)
        BY DEF GateEvent, GateTaskIds, From, ToSet
      <4>3. \A id \in GateTaskIds(events) : \E k \in I : events[k].taskId = id
        BY DEF GateEvent, GateTaskIds, From, ToSet
      <4>4. f \in Surjection(I, GateTaskIds(events))
        BY <4>2, <4>3 DEF Surjection
      <4> HIDE DEF I, f
      <4>5. QED
        BY <4>1, <4>4, FS_Surjection
    <3>3. Cardinality(GateTaskIds(events)) = 1 <=> \E id : GateTaskIds(events) = {id}
      BY <3>2, FS_Singleton
    <3>4. QED
      BY <3>1, <3>3 DEF SameTaskId
  <2>11. QED
    BY <2>2, <2>5, <2>6, <2>7, <2>9, <2>10 DEF ReplayTellsTheRun
<1>2. QED
  BY <1>1, CapturingAlways, PTL
===============================================================================
