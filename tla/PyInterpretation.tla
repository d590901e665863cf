--------------------------- MODULE PyInterpretation ---------------------------
(***************************************************************************)
(* The facts _describe.py attaches to each node under                       *)
(* x-topology-interpretation, in revision 1 or 2.  c is a compiled graph,   *)
(* decl its declared children, sub the subgraphId of each node (<< >> for    *)
(* none) and depth the budget left for the graph.  A fact is named by its    *)
(* value, its evidence or its reason, whichever tells it apart.              *)
(***************************************************************************)
EXTENDS PyStructure

InterpretationVersion(nodes, sub) ==
  IF \E n \in nodes : sub[n] # << >> THEN "2" ELSE "1"

MappedIdentity(c, n) == Sentinel(n) \/ (RuntimeMapped(c, n) /\ n \in c.drawn)

\* Mutant: branches are only seen through the conditional edges they declare.
DestinationsOnly(c) == {n \in c.nodes : c.ends[n].dict \/ c.ends[n].targets # << >>}

\* Sources whose destinations are chosen by a branch or by the node itself.
Dynamic(c) ==
  {n \in NodeId : c.branches[n] # << >>}
    \cup {n \in c.nodes : c.ends[n].dict \/ c.ends[n].targets # << >>}

Outgoing(edges, n) == {<<e.target, e.kind>> : e \in {x \in edges : x.source = n}}

\* edges are those of the graph document; the builder is read a second time.
BranchFact(c, edges, depth, n) ==
  LET outgoing   == Outgoing(edges, n)
      declared   == Outgoing(EdgeDocuments(c), n)
      mapped     == MappedIdentity(c, n)
      dynamic    == n \in Dynamic(c)
      conditional == \E o \in outgoing : o[2] = "conditional"
      unretained == outgoing # declared \/ \E o \in outgoing : ~MappedIdentity(c, o[1])
  IN  IF ~(Cardinality(outgoing) >= 2 \/ conditional \/ (mapped /\ dynamic))
        THEN "none"
      ELSE IF ~mapped THEN "scope-not-inspected"
      ELSE IF dynamic \/ conditional THEN "selection-not-observable"
      ELSE IF depth > 0 /\ unretained THEN "scope-not-inspected"
      ELSE "all-declared"

SubgraphFact(c, decl, sub, n) ==
  IF Sentinel(n) THEN "none"
  ELSE IF sub[n] # << >> THEN "materialized-child"
  ELSE IF DirectBoundChild(c, n) # NoChild THEN "compiled-child"
  ELSE IF DeclaredChild(c, decl, n) # NoChild THEN "declared-child-call"
  ELSE IF ~RuntimeMapped(c, n) THEN "scope-not-inspected"
  ELSE "identity-unavailable"

\* END's drawable data is None in every graph LangGraph draws.
FrameworkOwned(c, n) ==
  /\ c.rooted
  /\ n \notin c.nodes
  /\ \/ n = START /\ RuntimeMapped(c, n)
     \/ n = END /\ n \notin c.runtime

NodeIdentity(c, depth, n) ==
  IF Sentinel(n)
    THEN IF ~FrameworkOwned(c, n) THEN "identity-unavailable"
         ELSE IF n = START THEN "start" ELSE "end"
  ELSE IF n \in c.nodes /\ RuntimeMapped(c, n) THEN "ordinary"
  ELSE IF depth > 0 THEN "scope-not-inspected"
  ELSE "identity-unavailable"

EntryFact(c, structure, depth, n) ==
  LET identity == NodeIdentity(c, depth, n) IN
  [ observedRoot |-> n \notin Targets(structure.edges, structure.joins),
    value        |->
      CASE identity = "start" -> "confirmed"
        [] identity = "end" -> "not-entry"
        [] identity = "ordinary" \/ (identity \notin {"start", "end"} /\ depth = 0)
             -> "entry-not-established"
        [] OTHER -> "scope-not-inspected" ]

Interpretation(c, decl, structure, sub, depth) ==
  [ version        |-> InterpretationVersion(c.drawn, sub),
    traversalDepth |-> depth,
    branch         |-> [n \in c.drawn |-> BranchFact(c, structure.edges, depth, n)],
    subgraph       |-> [n \in c.drawn |-> SubgraphFact(c, decl, sub, n)],
    sentinel       |-> [n \in c.drawn |-> NodeIdentity(c, depth, n)],
    entry          |-> [n \in c.drawn |-> EntryFact(c, structure, depth, n)] ]
===============================================================================
