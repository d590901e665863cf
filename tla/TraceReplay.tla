----------------------------- MODULE TraceReplay -----------------------------
(***************************************************************************)
(* What the replays of the campaign-agent captures conclude from a recorded  *)
(* trace, without the program that was traced.  An event tells its source (a *)
(* finished task of the framework, a step or an attempt that a node reported, *)
(* or a returned call of a declared child), its node, the invocation, the    *)
(* how-manieth of its kind it is, and what was in progress around it.        *)
(***************************************************************************)
EXTENDS Integers, FiniteSets, Sequences, SequencesExt

CONSTANTS
  NoNode,
  Gate,         \* await_decision, the node that interrupts
  Target,       \* prepare_brief, whose declared child the capture is about
  Evidence      \* select_evidence, a node of that child

Observer == {"step", "attempt"}

From(events, sources) == {e \in ToSet(events) : e.source \in sources}

SequencesContiguous(events) == \A i \in DOMAIN events : events[i].sequence = i

TaskEventsNeverNested(events) == \A e \in From(events, {"task"}) : e.under = NoNode

\* The spy only records a call of the child it looked up, so each is confirmed.
IdentityConfirmed(events) == {e.nodeId : e \in From(events, {"call"})}

NestedNodeIds(events, parent) == {e.nodeId : e \in {x \in From(events, Observer) : x.under = parent}}

RelationshipConfirmed(trace) ==
  /\ trace.matchesStandalone
  /\ Target \in IdentityConfirmed(trace.events)
  /\ Evidence \in NestedNodeIds(trace.events, Target)

RetryAttempts(events) ==
  Cardinality({i \in DOMAIN events : events[i].source = "attempt" /\ events[i].number > 1})

ModelNodes(events) == {e.nodeId : e \in From(events, Observer)}

\* The occurrences of a node from one source; they ascend, so that the lists the
\* replay compares are equal when these are.
Occurrences(events, source, n) == {e.occurrence : e \in {x \in From(events, {source}) : x.nodeId = n}}

OccurrencesAgree(events) ==
  \A n \in ModelNodes(events) : Occurrences(events, "task", n) = Occurrences(events, "step", n)

ReExecutedOnResume(events) ==
  \A k \in {1, 2} : \E e \in ToSet(events) : e.nodeId = Gate /\ e.invocation = k

GateTaskIds(events) == {e.taskId : e \in {x \in From(events, {"task"}) : x.nodeId = Gate}}

SameTaskId(events) == Cardinality(GateTaskIds(events)) = 1
===============================================================================
