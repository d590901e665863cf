---------------------------- MODULE ExtractContract ----------------------------
(***************************************************************************)
(* What describe() promises, with the order of the work left open: starting *)
(* from one graph, children are given an address and materialized in any    *)
(* order until no child within the depth budget is left, each either         *)
(* materialized or refused because its address is taken.  A step may pass    *)
(* several children of a graph whose addresses are taken before it gets to   *)
(* one it materializes, or to none.  A graph whose structure cannot be read   *)
(* ends the whole call: nothing is returned.                                 *)
(***************************************************************************)
EXTENDS PyStructure

CONSTANTS
  NotAGraph,     \* an argument that is no CompiledStateGraph
  Call,          \* the calls of describe() a program may make
  Declaration,   \* the calls of declare_children() a program may make
  Unreadable     \* the compiled objects whose structure cannot be read

VARIABLES
  world,      \* the compiled objects of the program
  declared,   \* per object, the children declared for its nodes
  phase,      \* "building", "extracting", "returned" or "raised"
  call,       \* the call of describe(), once made
  graphs,     \* graphs with an address: [id, obj, depth]
  refs,       \* nodes given a subgraphId: [graph, node, to]
  refused,    \* nodes whose child was left opaque: [graph, node]
  error       \* the exception raised, or "none"

vars == <<world, declared, phase, call, graphs, refs, refused, error>>

NoCall == [supported |-> TRUE, root |-> NotAGraph, graphId |-> << >>,
           depth |-> 0, strict |-> FALSE]

Ids == {g.id : g \in graphs}

Child(g, n) == MappedCompiledChild(world[g.obj], declared[g.obj], n)

\* A child inside the budget that has neither an address nor a refusal.
Pending(g, n) ==
  /\ g.depth > 0
  /\ n \in world[g.obj].runtime
  /\ Child(g, n) # NoChild
  /\ \A r \in refs : ~(r.graph = g.id /\ r.node = n)
  /\ [graph |-> g.id, node |-> n] \notin refused

\* The children of g whose addresses are taken.
Taken(g) == {n \in NodeId : Pending(g, n) /\ DerivedId(g.id, n) \in Ids}

Refusals(g, nodes) == {[graph |-> g.id, node |-> n] : n \in nodes}

HasGaps == refused # {} \/ \E g \in graphs : UnknownRouters(world[g.obj]) # {}

Init ==
  /\ world \in World
  /\ declared = [g \in Graph |-> [n \in NodeId |-> NoChild]]
  /\ phase = "building"
  /\ call = NoCall
  /\ graphs = {}
  /\ refs = {}
  /\ refused = {}
  /\ error = "none"

\* A later declaration for the same object replaces an earlier one as a whole.
Declare(d) ==
  /\ phase = "building"
  /\ DOMAIN d.children \subseteq world[d.graph].runtime
  /\ declared' = [declared EXCEPT ![d.graph] =
       [n \in NodeId |-> IF n \in DOMAIN d.children THEN d.children[n] ELSE NoChild]]
  /\ UNCHANGED <<world, phase, call, graphs, refs, refused, error>>

Acceptable(c) == c.supported /\ c.root \in Graph /\ c.graphId # << >> /\ c.depth >= 0

Reject(c) ==
  /\ phase = "building"
  /\ ~Acceptable(c)
  /\ phase' = "raised"
  /\ call' = c
  /\ error' \in {"UnsupportedLangGraphVersionError", "TypeError", "ValueError"}
  /\ UNCHANGED <<world, declared, graphs, refs, refused>>

Begin(c) ==
  /\ phase = "building"
  /\ Acceptable(c)
  /\ phase' = "extracting"
  /\ call' = c
  /\ graphs' = {[id |-> c.graphId, obj |-> c.root, depth |-> c.depth]}
  /\ UNCHANGED <<world, declared, refs, refused, error>>

Materialize(g, n, passed) ==
  /\ phase = "extracting"
  /\ passed \subseteq Taken(g)
  /\ Pending(g, n)
  /\ DerivedId(g.id, n) \notin Ids
  /\ graphs' = graphs \cup
       {[id |-> DerivedId(g.id, n), obj |-> Child(g, n), depth |-> g.depth - 1]}
  /\ refs' = refs \cup {[graph |-> g.id, node |-> n, to |-> DerivedId(g.id, n)]}
  /\ refused' = refused \cup Refusals(g, passed)
  /\ UNCHANGED <<world, declared, phase, call, error>>

Refuse(g, passed) ==
  /\ phase = "extracting"
  /\ passed \subseteq Taken(g)
  /\ refused' = refused \cup Refusals(g, passed)
  /\ UNCHANGED <<world, declared, phase, call, graphs, refs, error>>

\* What was refused so far is lost with the result it was on its way to.
Abandon ==
  /\ phase = "extracting"
  /\ phase' = "raised"
  /\ error' = "TypeError"
  /\ \E g \in graphs : world[g.obj] \in Unreadable
  /\ refused' = {}
  /\ UNCHANGED <<world, declared, call, graphs, refs>>

Complete ==
  /\ phase = "extracting"
  /\ \A g \in graphs, n \in NodeId : ~Pending(g, n)
  /\ \A g \in graphs : world[g.obj] \notin Unreadable
  /\ IF call.strict /\ HasGaps
       THEN phase' = "raised" /\ error' = "IncompleteTopologyError"
       ELSE phase' = "returned" /\ UNCHANGED error
  /\ UNCHANGED <<world, declared, call, graphs, refs, refused>>

Next ==
  \/ \E d \in Declaration : Declare(d)
  \/ \E c \in Call : Reject(c)
  \/ \E c \in Call : Begin(c)
  \/ \E g \in graphs : \E passed \in SUBSET Taken(g) :
       Refuse(g, passed) \/ \E n \in NodeId : Materialize(g, n, passed)
  \/ Abandon
  \/ Complete

Spec == Init /\ [][Next]_vars
===============================================================================
