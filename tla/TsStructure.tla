------------------------------ MODULE TsStructure ------------------------------
(***************************************************************************)
(* The pure half of the TypeScript producer (internal.ts): what is read     *)
(* from one builder and one drawable view of it.  Written from its own      *)
(* source, not from the Python one; Parity compares the two.                *)
(***************************************************************************)
EXTENDS NodeIds, SequencesExt

CONSTANT NoEnds   \* node.ends is undefined

(***************************************************************************)
(* One compiled graph and its builder.                                     *)
(*   nodes    keys of builder.nodes                                        *)
(*   runnable per node, the compiled graph it runs, if it is one           *)
(*   wrapped  nodes whose drawable data is not their runnable              *)
(*   edges    builder.edges: a Set of arrays, so a repeated pair is kept   *)
(*   branches, ends, joins   builder.branches, node.ends, waitingEdges     *)
(*   before, after           interruptBefore, interruptAfter               *)
(*   rooted   inputChannels === START                                      *)
(***************************************************************************)
Builder ==
  [ nodes    : SUBSET (NodeId \ {START, END}),
    runnable : [NodeId -> ChildOrNone],
    wrapped  : SUBSET NodeId,
    edges    : Seq(NodeId \X NodeId),
    branches : [NodeId -> Seq(Seq(NodeId) \cup {UnknownEnds})],
    ends     : [NodeId -> Seq(NodeId) \cup {NoEnds}],
    joins    : SUBSET (Seq(NodeId) \X NodeId),
    before   : SUBSET (NodeId \cup {STAR}),
    after    : SUBSET (NodeId \cup {STAR}),
    rooted   : BOOLEAN ]

\* What getGraphAsync resolves to: the nodes at the moment it reads them.
Drawable(b) == [ids |-> b.nodes \cup {START, END}, same |-> b.nodes \ b.wrapped]

DerivedId(gid, n) == gid \o <<Colon>> \o n

-------------------------------------------------------------------------------
(* builderStructure                                                        *)

\* A multi-source join must contain at least two sources.
StructureThrows(b) == \E j \in b.joins : Len(j[1]) < 2

UnknownRouters(b) ==
  {s \in NodeId : \E i \in DOMAIN b.branches[s] : b.branches[s][i] = UnknownEnds}

\* A branch without declared targets contributes none.
ConditionalTargets(b, s) ==
  LET Declared(ends) == IF ends \in {NoEnds, UnknownEnds} THEN << >> ELSE ends
  IN  FlattenSeq([i \in DOMAIN b.branches[s] |-> Declared(b.branches[s][i])])
        \o Declared(b.ends[s])

\* Declarations of the edge from s to t.
Declarations(b, s, t, kind) ==
  IF kind = "direct"
    THEN {i \in DOMAIN b.edges : b.edges[i] = <<s, t>>}
    ELSE {i \in DOMAIN ConditionalTargets(b, s) : ConditionalTargets(b, s)[i] = t}

EdgeId(e) ==
  <<"edge", Colon>> \o e.source \o <<Colon>> \o e.target
    \o <<Colon, e.kind, Colon>> \o Numeral(e.occurrence)

\* An edge is kept as what its id is made of.
EdgeDocuments(b) ==
  LET Documents(s, t, kind) ==
        {[source |-> s, target |-> t, kind |-> kind, occurrence |-> k] :
           k \in 1..Cardinality(Declarations(b, s, t, kind))}
  IN  UNION {Documents(s, t, kind) : s \in NodeId, t \in NodeId,
                                     kind \in {"direct", "conditional"}}

SortedSources(sources) == InOrder(sources)

EscapeJoinSource(s) ==
  FlattenSeq([i \in DOMAIN s |->
    IF s[i] \in {Backslash, Plus} THEN <<Backslash, s[i]>> ELSE <<s[i]>>])

JoinId(sorted, target) ==
  <<"join", Colon>>
    \o FlattenSeq([i \in DOMAIN sorted |->
         (IF i = 1 THEN << >> ELSE <<Plus>>) \o EscapeJoinSource(sorted[i])])
    \o <<Colon>> \o target

JoinDocuments(b) ==
  {[id      |-> JoinId(SortedSources(j[1]), j[2]),
    sources |-> SortedSources(j[1]),
    target  |-> j[2]] : j \in b.joins}

-------------------------------------------------------------------------------
(* The structure of a graph document, from the drawable view d and b.       *)

IncludesInterrupt(configured, n) ==
  IF STAR \in configured THEN ~Sentinel(n) ELSE n \in configured

NodeDocument(b, n) ==
  [id |-> n,
   interrupts |-> {w \in {"before", "after"} :
     IncludesInterrupt(IF w = "before" THEN b.before ELSE b.after, n)}]

Targets(edges, joins) ==
  {e.target : e \in edges} \cup {j.target : j \in joins}

Structure(b, d) ==
  LET edges == EdgeDocuments(b)
      joins == JoinDocuments(b)
  IN  [ nodes        |-> {NodeDocument(b, n) : n \in d.ids},
        edges        |-> edges,
        joins        |-> joins,
        entryNodeIds |-> d.ids \ Targets(edges, joins),
        exitNodeIds  |-> d.ids \ (UnknownRouters(b)
                                    \cup {e.source : e \in edges}
                                    \cup UNION {ToSet(j.sources) : j \in joins}) ]

-------------------------------------------------------------------------------
(* Children and facts.                                                      *)

Mapped(b, d, n) == n \in b.nodes /\ n \in d.ids /\ n \in d.same

MappedCompiledChild(b, d, n) == IF Mapped(b, d, n) THEN b.runnable[n] ELSE NoChild

InterpretationVersion(ids, sub) ==
  IF \E n \in ids : sub[n] # << >> THEN "2" ELSE "1"

MappedIdentity(b, d, n) == Sentinel(n) \/ Mapped(b, d, n)

\* Mutant: an empty list of ends counts as none.
DynamicIfNonempty(b) ==
  {n \in NodeId : b.branches[n] # << >>}
    \cup {n \in b.nodes : b.ends[n] \notin {NoEnds, << >>}}

Dynamic(b) ==
  {n \in NodeId : b.branches[n] # << >>} \cup {n \in b.nodes : b.ends[n] # NoEnds}

\* Two lists of edges have the same signature if they agree on how often each
\* target and kind occurs.
Signature(edges) == {<<e.target, e.kind, e.occurrence>> : e \in edges}

\* Mutant: the edges read before the awaits are taken for the builder's.
BranchFactUnchecked(b, d, edges, depth, n) ==
  LET outgoing    == {e \in edges : e.source = n}
      mapped      == MappedIdentity(b, d, n)
      conditional == \E e \in outgoing : e.kind = "conditional"
  IN  IF ~(Cardinality(outgoing) >= 2 \/ conditional \/ (mapped /\ n \in Dynamic(b)))
        THEN "none"
      ELSE IF ~mapped THEN "scope-not-inspected"
      ELSE IF n \in Dynamic(b) \/ conditional THEN "selection-not-observable"
      ELSE "all-declared"

\* edges are those recorded when the document was built, b is read again now.
BranchFact(b, d, edges, depth, n) ==
  LET outgoing    == {e \in edges : e.source = n}
      declared    == {e \in EdgeDocuments(b) : e.source = n}
      mapped      == MappedIdentity(b, d, n)
      dynamic     == n \in Dynamic(b)
      conditional == \E e \in outgoing : e.kind = "conditional"
      unretained  == \/ Signature(outgoing) # Signature(declared)
                     \/ \E e \in outgoing : ~MappedIdentity(b, d, e.target)
  IN  IF ~(Cardinality(outgoing) >= 2 \/ conditional \/ (mapped /\ dynamic))
        THEN "none"
      ELSE IF ~mapped THEN "scope-not-inspected"
      ELSE IF dynamic \/ conditional THEN "selection-not-observable"
      ELSE IF depth > 0 /\ unretained THEN "scope-not-inspected"
      ELSE "all-declared"

SubgraphFact(b, d, sub, n) ==
  IF Sentinel(n) THEN "none"
  ELSE IF sub[n] # << >> THEN "materialized-child"
  ELSE IF ~Mapped(b, d, n) THEN "scope-not-inspected"
  ELSE IF b.runnable[n] # NoChild THEN "compiled-child"
  ELSE "identity-unavailable"

\* Both sentinels are drawn with a schema.
NodeIdentity(b, d, depth, n) ==
  IF Sentinel(n)
    THEN IF ~(b.rooted /\ n \notin b.nodes) THEN "identity-unavailable"
         ELSE IF n = START THEN "start" ELSE "end"
  ELSE IF Mapped(b, d, n) THEN "ordinary"
  ELSE IF depth > 0 THEN "scope-not-inspected"
  ELSE "identity-unavailable"

EntryFact(b, d, structure, depth, n) ==
  LET identity == NodeIdentity(b, d, depth, n) IN
  [ observedRoot |-> n \notin Targets(structure.edges, structure.joins),
    value        |->
      CASE identity = "start" -> "confirmed"
        [] identity = "end" -> "not-entry"
        [] identity = "ordinary" \/ (identity \notin {"start", "end"} /\ depth = 0)
             -> "entry-not-established"
        [] OTHER -> "scope-not-inspected" ]

Interpretation(b, d, structure, sub, depth) ==
  [ version        |-> InterpretationVersion(d.ids, sub),
    traversalDepth |-> depth,
    branch         |-> [n \in d.ids |-> BranchFact(b, d, structure.edges, depth, n)],
    subgraph       |-> [n \in d.ids |-> SubgraphFact(b, d, sub, n)],
    sentinel       |-> [n \in d.ids |-> NodeIdentity(b, d, depth, n)],
    entry          |-> [n \in d.ids |-> EntryFact(b, d, structure, depth, n)] ]
===============================================================================
