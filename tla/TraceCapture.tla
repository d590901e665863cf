----------------------------- MODULE TraceCapture -----------------------------
(***************************************************************************)
(* The captures of campaign-agent: a script that runs a consumer's graph up  *)
(* to its approval gate, resumes it, and records what three sources tell it  *)
(* on one sequence: the framework's debug stream, the nodes' observer and a  *)
(* spy around the calls of declared children.  The script runs in one thread *)
(* with the graph; what the graph's nodes do is up to them.                  *)
(***************************************************************************)
EXTENDS TraceReplay

CONSTANTS
  Nodes,          \* the nodes of the graph
  Child,          \* its declared children, a function of some of the nodes
  Inner,          \* the node ids inside each child
  Unknown,        \* "unknown-attempt-node"
  NoGraph, NoTrace,
  MaxEvents,      \* bound: events recorded
  MaxTasks,       \* bound: tasks the framework starts
  MaxCallbacks    \* bound: calls of the observer in a task

Graphs == {Child[n] : n \in DOMAIN Child}
Sources == {"task", "step", "attempt", "call"}
NodeIds == Nodes \cup {Unknown} \cup UNION {Inner[g] : g \in Graphs}

\* No two nodes declare one object: channel_concept's are three graphs.
CaptureAssumption ==
  /\ Gate \in Nodes /\ Target \in DOMAIN Child /\ DOMAIN Child \subseteq Nodes \ {Gate}
  /\ \A m, n \in DOMAIN Child : Child[m] = Child[n] => m = n
  /\ NoGraph \notin Graphs /\ NoNode \notin NodeIds
  /\ MaxEvents \in Nat /\ MaxTasks \in Nat /\ MaxCallbacks \in Nat

ASSUME CapturesAssumption == CaptureAssumption

Scenarios == {"declared-child", "await-decision"}

\* What a script is given: whether the checkout is at the pinned commit and, for the
\* relationship, whether it is declared and what describe says of it: a known
\* declared-child-call, materialized at its address, alike the standalone child.
Relationships == [declares : BOOLEAN, known : BOOLEAN, placed : BOOLEAN, matches : BOOLEAN]
NoRelationship == [declares |-> FALSE, known |-> FALSE, placed |-> FALSE, matches |-> FALSE]

VARIABLES
  scenario, pinned, relationship,
  phase,          \* "begin", "running", "refused", "failed", "written"
  invocation,     \* which stream() call
  task, taskId,   \* the task the framework runs, and the number of the last one
  call,           \* the declared child that task is in
  pending,        \* the gate's interrupt: "none", "asked", "answered"
  tries,          \* attempts made by the model node at work
  sequence, count, nesting, events,   \* _Recorder
  trace,          \* trace.json
  happened        \* auxiliary: what the graph did, whatever was recorded

script   == <<scenario, pinned, relationship>>
graph    == <<task, taskId, call, pending, tries>>
recorder == <<sequence, count, nesting, events>>
vars     == <<script, phase, invocation, graph, recorder, trace, happened>>

Init ==
  /\ scenario \in Scenarios /\ pinned \in BOOLEAN
  /\ relationship \in IF scenario = "declared-child" THEN Relationships ELSE {NoRelationship}
  /\ phase = "begin" /\ invocation = 0
  /\ task = NoNode /\ taskId = 0 /\ call = NoGraph /\ pending = "none" /\ tries = 0
  /\ sequence = 0 /\ count = [k \in Sources \X NodeIds |-> 0]
  /\ nesting = << >> /\ events = << >>
  /\ trace = NoTrace
  /\ happened = [returned |-> {}, inside |-> {}, retries |-> 0, gates |-> {}]

-------------------------------------------------------------------------------
\* _verify_pinned_commit, the check of the declaration, _static_evidence.
Qualified ==
  /\ pinned
  /\ scenario = "declared-child" => relationship.declares /\ relationship.known /\ relationship.placed

RefuseInput ==
  /\ phase = "begin" /\ ~Qualified
  /\ phase' = "refused"
  /\ UNCHANGED <<script, invocation, graph, recorder, trace, happened>>

BeginRun ==
  /\ phase = "begin" /\ Qualified
  /\ phase' = "running" /\ invocation' = 1
  /\ UNCHANGED <<script, graph, recorder, trace, happened>>

-------------------------------------------------------------------------------
(* The recorder.                                                            *)

\* Mutant: one counter for both callbacks of the observer.
CounterOfObserver(source, n) == IF source \in Observer THEN <<"step", n>> ELSE <<source, n>>

\* The counter for the events of a node from one source.
Counter(source, n) == <<source, n>>

NestedUnder == IF nesting = << >> THEN NoNode ELSE Last(nesting)

Record(source, n, outcome, number, under) ==
  LET k == Counter(source, n) IN
  /\ Len(events) < MaxEvents
  /\ sequence' = sequence + 1
  /\ count' = [count EXCEPT ![k] = @ + 1]
  /\ events' = Append(events,
       [ sequence |-> sequence', source |-> source, nodeId |-> n, outcome |-> outcome,
         number |-> number, invocation |-> invocation, occurrence |-> count'[k],
         taskId |-> taskId, under |-> under ])

-------------------------------------------------------------------------------
(* The graph.                                                               *)

Running == phase = "running" /\ UNCHANGED <<script, invocation, trace>>

StartTask(n) ==
  /\ Running /\ task = NoNode /\ pending = "none"
  /\ taskId < MaxTasks
  /\ task' = n /\ taskId' = taskId + 1 /\ tries' = 0
  /\ happened' = IF n = Gate THEN [happened EXCEPT !.gates = @ \cup {taskId'}] ELSE happened
  /\ UNCHANGED <<phase, call, pending, recorder>>

\* The framework runs an interrupted node again from its start, as the same task.
RerunGate ==
  /\ Running /\ task = NoNode /\ pending = "answered"
  /\ task' = Gate /\ pending' = "none" /\ tries' = 0
  /\ UNCHANGED <<phase, taskId, call, recorder, happened>>

\* The nodes that may be at work.
AtWork == IF task = NoNode THEN {} ELSE IF call = NoGraph THEN {task} ELSE Inner[call]

\* The observer is called back while the task is at work.
Observed ==
  /\ Running /\ task # NoNode
  /\ Cardinality({e \in From(events, Observer) : e.taskId = taskId}) < MaxCallbacks

Inside(n) == [happened EXCEPT !.inside = IF call = NoGraph THEN @ ELSE @ \cup {<<task, n>>}]

ObserveStep(n) ==
  /\ Observed /\ n \in AtWork
  /\ Record("step", n, "reported", 0, NestedUnder)
  /\ tries' = 0
  /\ happened' = Inside(n)
  /\ UNCHANGED <<phase, nesting, task, taskId, call, pending>>

\* The metadata of an attempt may fail to name the node.
AttemptNodes == AtWork \cup {Unknown}

ObserveAttempt(n) ==
  /\ Observed /\ n \in AttemptNodes
  /\ Record("attempt", n, "reported", tries + 1, NestedUnder)
  /\ tries' = tries + 1
  /\ happened' = [Inside(n) EXCEPT !.retries = IF tries = 0 THEN @ ELSE @ + 1]
  /\ UNCHANGED <<phase, nesting, task, taskId, call, pending>>

\* The declared node whose child it is.
DeclaredFor(g) == CHOOSE n \in DOMAIN Child : Child[n] = g

InvokeChild ==
  /\ Running /\ scenario = "declared-child"
  /\ call = NoGraph /\ task \in DOMAIN Child
  /\ call' = Child[task] /\ tries' = 0
  /\ nesting' = Append(nesting, DeclaredFor(Child[task]))
  /\ UNCHANGED <<phase, task, taskId, pending, sequence, count, events, happened>>

\* A graph that is nobody's declared child is invoked.
InvokeUndeclared ==
  /\ Running /\ scenario = "declared-child" /\ task # NoNode
  /\ phase' = "refused"
  /\ UNCHANGED <<graph, recorder, happened>>

ReturnChild ==
  /\ Running /\ call # NoGraph
  /\ Record("call", DeclaredFor(call), "returned", 0, NoNode)
  /\ nesting' = Front(nesting)
  /\ call' = NoGraph /\ tries' = 0
  /\ happened' = [happened EXCEPT !.returned = @ \cup {task}]
  /\ UNCHANGED <<phase, task, taskId, pending>>

\* Mutant: the nesting is only taken back when the child returns.
RaiseInChildUnbalanced ==
  /\ Running /\ call # NoGraph
  /\ call' = NoGraph /\ tries' = 0
  /\ UNCHANGED <<phase, task, taskId, pending, sequence, count, nesting, events, happened>>

\* The child raises; the node that called it may catch that and call again.
RaiseInChild ==
  /\ Running /\ call # NoGraph
  /\ nesting' = Front(nesting)
  /\ call' = NoGraph /\ tries' = 0
  /\ UNCHANGED <<phase, task, taskId, pending, sequence, count, events, happened>>

FinishTask ==
  /\ Running /\ task # NoNode /\ call = NoGraph
  /\ Record("task", task, "passed", 0, NestedUnder)
  /\ task' = NoNode
  /\ UNCHANGED <<phase, nesting, taskId, call, pending, tries, happened>>

InterruptTask ==
  /\ Running /\ task = Gate /\ call = NoGraph
  /\ Record("task", task, "awaiting_approval", 0, NestedUnder)
  /\ task' = NoNode /\ pending' = "asked"
  /\ UNCHANGED <<phase, nesting, taskId, call, tries, happened>>

\* What a node raises ends the stream() call and with it the script.
FailTask ==
  /\ Running /\ task # NoNode /\ call = NoGraph
  /\ phase' = "failed"
  /\ UNCHANGED <<graph, recorder, happened>>

-------------------------------------------------------------------------------
(* The ends of the two stream() calls.                                      *)

StreamEnds(k) == phase = "running" /\ invocation = k /\ task = NoNode

\* Mutant: whether the run paused is not looked at.
ResumeRunUnchecked ==
  /\ StreamEnds(1)
  /\ invocation' = 2 /\ pending' = "answered"
  /\ UNCHANGED <<script, phase, task, taskId, call, tries, recorder, trace, happened>>

ResumeRun ==
  /\ StreamEnds(1) /\ pending = "asked"
  /\ invocation' = 2 /\ pending' = "answered"
  /\ UNCHANGED <<script, phase, task, taskId, call, tries, recorder, trace, happened>>

RefuseUnpaused ==
  /\ StreamEnds(1) /\ pending = "none"
  /\ phase' = "refused"
  /\ UNCHANGED <<script, invocation, graph, recorder, trace, happened>>

WriteTrace ==
  /\ StreamEnds(2) /\ pending # "answered"
  /\ phase' = "written"
  /\ trace' = [ events |-> events, matchesStandalone |-> relationship.matches,
                secondPaused |-> pending = "asked" ]
  /\ UNCHANGED <<script, invocation, graph, recorder, happened>>

Next ==
  \/ RefuseInput \/ BeginRun
  \/ \E n \in Nodes : StartTask(n)
  \/ RerunGate
  \/ \E n \in NodeIds : ObserveStep(n) \/ ObserveAttempt(n)
  \/ InvokeChild \/ InvokeUndeclared \/ ReturnChild \/ RaiseInChild
  \/ FinishTask \/ InterruptTask \/ FailTask
  \/ ResumeRun \/ RefuseUnpaused \/ WriteTrace

Spec == Init /\ [][Next]_vars

-------------------------------------------------------------------------------
(* Properties.                                                              *)

\* Every callback of the observer is recorded under the node whose declared child was
\* running, and under none otherwise, however calls of children end; a task is never
\* nested (the push and pop of the invoke spy, capture.py's _Recorder).
NestedUnderItsParent ==
  [][\A i \in DOMAIN events' \ DOMAIN events :
       events'[i].source # "call" =>
         events'[i].under = IF call = NoGraph THEN NoNode ELSE task]_vars

\* A trace is only written of a run that paused at the gate: the gate's interrupt is the
\* last event of the first invocation, that very task is the first to end in the second,
\* and the run is said to have paused again exactly when the last of the gate's tasks
\* asked for another decision.
OnlyAPausedRunIsWritten ==
  trace # NoTrace =>
    LET es      == trace.events
        gate(i) == es[i].source = "task" /\ es[i].nodeId = Gate
        asked(i) == gate(i) /\ es[i].outcome = "awaiting_approval"
    IN  \E i, j \in DOMAIN es :
          /\ asked(i) /\ \A k \in DOMAIN es : es[k].invocation = IF k <= i THEN 1 ELSE 2
          /\ i < j /\ gate(j) /\ es[j].taskId = es[i].taskId
          /\ \A k \in i + 1 .. j - 1 : es[k].source # "task"
          /\ trace.secondPaused <=>
               \E l \in DOMAIN es : asked(l) /\ \A k \in DOMAIN es : k > l => ~gate(k)

Of(es, source, n) == {i \in DOMAIN es : es[i].source = source /\ es[i].nodeId = n}

\* An event carries how many its node has had from this source since the first
\* invocation: attempts and steps are not counted together, and a resumed run goes on
\* counting where it was interrupted.
OccurrencesAreOrdinals(es) ==
  \A i \in DOMAIN es :
    es[i].occurrence = Cardinality({j \in Of(es, es[i].source, es[i].nodeId) : j <= i})

\* What the replays conclude from a written trace is what happened: the relationship is
\* confirmed exactly when the target's own child was run to its end and its node was
\* seen at work inside, retries are those that were made, the occurrences of a node
\* agree exactly when it reported as many steps as it had tasks, and the gate's task
\* is the same in both invocations unless the graph came to the gate again.
ReplayTellsTheRun ==
  trace # NoTrace =>
    LET es == trace.events IN
    /\ SequencesContiguous(es) /\ OccurrencesAreOrdinals(es) /\ TaskEventsNeverNested(es)
    /\ RelationshipConfirmed(trace) <=>
         trace.matchesStandalone /\ Target \in happened.returned /\ <<Target, Evidence>> \in happened.inside
    /\ RetryAttempts(es) = happened.retries
    /\ OccurrencesAgree(es) <=>
         \A n \in ModelNodes(es) : Cardinality(Of(es, "task", n)) = Cardinality(Of(es, "step", n))
    /\ ReExecutedOnResume(es)
    /\ SameTaskId(es) <=> \E id \in happened.gates : happened.gates = {id}
===============================================================================
