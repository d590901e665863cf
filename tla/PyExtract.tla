------------------------------- MODULE PyExtract -------------------------------
(***************************************************************************)
(* describe() of the Python producer: validation of the call, the recursive *)
(* depth-first extraction with its shared set of assigned graph ids, and the *)
(* outcome.  Each frame of the Python recursion is an element of stack; the  *)
(* graph documents are Python dicts passed by reference, here the elements   *)
(* of docs in the order they are created.  The lists the recursion returns   *)
(* are unordered here: finalize_document sorts graphs, and the gaps' order   *)
(* is fixed by the traversal.                                                *)
(***************************************************************************)
EXTENDS PyStructure

CONSTANTS NotAGraph, Call, Declaration

VARIABLES
  world,      \* the compiled objects of the program
  declared,   \* __agent_topology_children__ of each compiled object
  phase,      \* "building", "extracting", "extracted", "returned", "raised"
  call,       \* the arguments of describe()
  docs,       \* the graph documents created so far
  stack,      \* the active calls of _extract_graph, the innermost last
  assigned,   \* assigned_ids
  output,     \* (graphs, gaps) returned by the outermost _extract_graph
  error       \* the exception raised, or "none"

vars == <<world, declared, phase, call, docs, stack, assigned, output, error>>

CallAssumption ==
  /\ NotAGraph \notin Graph
  /\ NoChild \notin Graph
  /\ Call \subseteq [supported : BOOLEAN, root : Graph \cup {NotAGraph},
                     graphId : Seq(Token), depth : Int, strict : BOOLEAN]
  /\ \A d \in Declaration :
       /\ d.graph \in Graph
       /\ DOMAIN d.children \subseteq NodeId
       /\ \A n \in DOMAIN d.children : d.children[n] \in ChildOrNone

ASSUME CallsAssumption == CallAssumption

NoCall == [supported |-> TRUE, root |-> NotAGraph, graphId |-> << >>,
           depth |-> 0, strict |-> FALSE]

NoRef == << >>   \* the node has no subgraphId

Document(gid, g, d) ==
  [id |-> gid, obj |-> g, depth |-> d, sub |-> [n \in NodeId |-> NoRef]]

RouterGaps(gid, g) ==
  {[code |-> "unknown-routing-targets", graph |-> gid, node |-> s] :
     s \in UnknownRouters(world[g])}

\* Mutant: the budget is tested with >= 0.
FrameOneTooDeep(i, gid, g, d) ==
  [ doc         |-> i,
    todo        |-> IF d >= 0 THEN world[g].runtime ELSE {},
    descendants |-> {},
    gaps        |-> RouterGaps(gid, g) ]

\* A call of _extract_graph on the document at index i, before its loop.
Frame(i, gid, g, d) ==
  [ doc         |-> i,
    todo        |-> IF d > 0 THEN world[g].runtime ELSE {},
    descendants |-> {},
    gaps        |-> RouterGaps(gid, g) ]

Init ==
  /\ world \in World
  /\ declared = [g \in Graph |-> [n \in NodeId |-> NoChild]]
  /\ phase = "building"
  /\ call = NoCall
  /\ docs = << >>
  /\ stack = << >>
  /\ assigned = {}
  /\ output = [graphs |-> {}, gaps |-> {}]
  /\ error = "none"

-------------------------------------------------------------------------------
\* Mutant: the new mapping is merged into the recorded one.
DeclareChildrenMerging(d) ==
  /\ phase = "building"
  /\ DOMAIN d.children \subseteq world[d.graph].runtime
  /\ declared' = [declared EXCEPT ![d.graph] =
       [n \in NodeId |-> IF n \in DOMAIN d.children THEN d.children[n] ELSE @[n]]]
  /\ UNCHANGED <<world, phase, call, docs, stack, assigned, output, error>>

\* declare_children: refused when a key is no runtime node, otherwise the whole
\* mapping of the object is replaced.
DeclareChildren(d) ==
  /\ phase = "building"
  /\ DOMAIN d.children \subseteq world[d.graph].runtime
  /\ declared' = [declared EXCEPT ![d.graph] =
       [n \in NodeId |-> IF n \in DOMAIN d.children THEN d.children[n] ELSE NoChild]]
  /\ UNCHANGED <<world, phase, call, docs, stack, assigned, output, error>>

-------------------------------------------------------------------------------
(* describe: the checks, in the order of the code, and the outermost call.  *)

\* Mutant: a negative depth is let through.
ArgumentErrorAnyDepth(c) ==
  IF ~c.supported THEN "UnsupportedLangGraphVersionError"
  ELSE IF c.root \notin Graph THEN "TypeError"
  ELSE IF c.graphId = << >> THEN "ValueError"
  ELSE "none"

ArgumentError(c) ==
  IF ~c.supported THEN "UnsupportedLangGraphVersionError"
  ELSE IF c.root \notin Graph THEN "TypeError"
  ELSE IF c.graphId = << >> \/ c.depth < 0 THEN "ValueError"
  ELSE "none"

RejectCall(c) ==
  /\ phase = "building"
  /\ ArgumentError(c) # "none"
  /\ phase' = "raised"
  /\ call' = c
  /\ error' = ArgumentError(c)
  /\ UNCHANGED <<world, declared, docs, stack, assigned, output>>

EnterRoot(c) ==
  /\ phase = "building"
  /\ ArgumentError(c) = "none"
  /\ phase' = "extracting"
  /\ call' = c
  /\ docs' = <<Document(c.graphId, c.root, c.depth)>>
  /\ stack' = <<Frame(1, c.graphId, c.root, c.depth)>>
  /\ assigned' = {c.graphId}
  /\ UNCHANGED <<world, declared, output, error>>

-------------------------------------------------------------------------------
(* The loop of _extract_graph over sorted(compiled_graph.nodes).            *)

Top == stack[Len(stack)]
TopDoc == docs[Top.doc]

\* n is the node the innermost loop looks at.
Current(n) ==
  /\ phase = "extracting"
  /\ n \in Top.todo
  /\ \A m \in Top.todo : Rank[n] <= Rank[m]

ChildOf(doc, n) == MappedCompiledChild(world[doc.obj], declared[doc.obj], n)

\* Mutants: the loop ends at the first collision or opaque node; the loop looks
\* at the same node again.
AdvanceToEnd(n) == [Top EXCEPT !.todo = {}]
AdvanceNowhere(n) == Top

Advance(n) == [Top EXCEPT !.todo = @ \ {n}]

\* Mutant: each call of _extract_graph knows the ids of its callers only.
TakenByCallers(gid) == \E k \in DOMAIN stack : docs[stack[k].doc].id = gid

\* One set of ids serves the whole extraction.
Taken(gid) == gid \in assigned

SkipNode(n) ==
  /\ Current(n)
  /\ ChildOf(TopDoc, n) = NoChild
  /\ stack' = [stack EXCEPT ![Len(stack)] = Advance(n)]
  /\ UNCHANGED <<world, declared, phase, call, docs, assigned, output, error>>

\* Mutant: the reference is written before the collision is noticed.
RefuseChildReferenced(n) ==
  /\ Current(n)
  /\ ChildOf(TopDoc, n) # NoChild
  /\ Taken(DerivedId(TopDoc.id, n))
  /\ docs' = [docs EXCEPT ![Top.doc].sub[n] = DerivedId(TopDoc.id, n)]
  /\ stack' = [stack EXCEPT ![Len(stack)] =
       [Advance(n) EXCEPT !.gaps = @ \cup
          {[code |-> "child-graph-id-collision", graph |-> TopDoc.id, node |-> n]}]]
  /\ UNCHANGED <<world, declared, phase, call, assigned, output, error>>

RefuseChild(n) ==
  /\ Current(n)
  /\ ChildOf(TopDoc, n) # NoChild
  /\ Taken(DerivedId(TopDoc.id, n))
  /\ stack' = [stack EXCEPT ![Len(stack)] =
       [Advance(n) EXCEPT !.gaps = @ \cup
          {[code |-> "child-graph-id-collision", graph |-> TopDoc.id, node |-> n]}]]
  /\ UNCHANGED <<world, declared, phase, call, docs, assigned, output, error>>

\* The reference and the document it names; an exception in between leaves
\* describe() and discards both.
EnterChild(n) ==
  LET gid   == DerivedId(TopDoc.id, n)
      child == ChildOf(TopDoc, n)
      d     == TopDoc.depth - 1
  IN
  /\ Current(n)
  /\ child # NoChild
  /\ ~Taken(gid)
  /\ assigned' = assigned \cup {gid}
  /\ docs' = Append([docs EXCEPT ![Top.doc].sub[n] = gid], Document(gid, child, d))
  /\ stack' = Append([stack EXCEPT ![Len(stack)] = Advance(n)],
                     Frame(Len(docs) + 1, gid, child, d))
  /\ UNCHANGED <<world, declared, phase, call, output, error>>

-------------------------------------------------------------------------------
(* return [graph_document, *descendants], gaps                              *)

\* Mutants: descendants, or their gaps, stay with the callee.
ReturnedWithoutDescendants == [graphs |-> {Top.doc}, gaps |-> Top.gaps]
ReturnedWithoutGaps ==
  [graphs |-> {Top.doc} \cup Top.descendants, gaps |-> RouterGaps(TopDoc.id, TopDoc.obj)]

Returned == [graphs |-> {Top.doc} \cup Top.descendants, gaps |-> Top.gaps]

\* The caller extends its own descendants and gaps with what was returned.
ReturnToParent ==
  LET k == Len(stack) - 1 IN
  /\ phase = "extracting"
  /\ Top.todo = {}
  /\ k >= 1
  /\ stack' = [SubSeq(stack, 1, k) EXCEPT
                 ![k].descendants = @ \cup Returned.graphs,
                 ![k].gaps        = @ \cup Returned.gaps]
  /\ UNCHANGED <<world, declared, phase, call, docs, assigned, output, error>>

ReturnFromRoot ==
  /\ phase = "extracting"
  /\ Top.todo = {}
  /\ Len(stack) = 1
  /\ stack' = << >>
  /\ output' = Returned
  /\ phase' = "extracted"
  /\ UNCHANGED <<world, declared, call, docs, assigned, error>>

-------------------------------------------------------------------------------
(* The end of describe: the document is finalized; strict refuses gaps.     *)
Finish ==
  /\ phase = "extracted"
  /\ IF call.strict /\ output.gaps # {}
       THEN phase' = "raised" /\ error' = "IncompleteTopologyError"
       ELSE phase' = "returned" /\ UNCHANGED error
  /\ UNCHANGED <<world, declared, call, docs, stack, assigned, output>>

Extract ==
  \/ \E n \in NodeId : SkipNode(n) \/ RefuseChild(n) \/ EnterChild(n)
  \/ ReturnToParent
  \/ ReturnFromRoot
  \/ Finish

Next ==
  \/ \E d \in Declaration : DeclareChildren(d)
  \/ \E c \in Call : RejectCall(c)
  \/ \E c \in Call : EnterRoot(c)
  \/ Extract

\* describe() is one synchronous call: once begun nothing suspends it.
Spec == Init /\ [][Next]_vars
FairSpec == Spec /\ WF_vars(Extract)

-------------------------------------------------------------------------------
(* Properties.                                                              *)

Ended == phase = "returned" \/ error = "IncompleteTopologyError"

Gap(code, gid, n) == [code |-> code, graph |-> gid, node |-> n]

\* The gaps found so far, wherever in the recursion they are held.
AllGaps == output.gaps \cup UNION {stack[k].gaps : k \in DOMAIN stack}

GapCode == {"unknown-routing-targets", "child-graph-id-collision"}

GapType == [code : GapCode, graph : Seq(Token), node : NodeId]

DocumentType ==
  [id : Seq(Token), obj : Graph, depth : Nat, sub : [NodeId -> Seq(Token)]]

FrameType(indices) ==
  [ doc : indices, todo : SUBSET NodeId, descendants : SUBSET indices,
    gaps : SUBSET GapType ]

\* Every variable has its shape; in particular no document is made below
\* budget 0 and frames refer to documents that exist.
TypeOK ==
  /\ world \in World
  /\ declared \in [Graph -> [NodeId -> ChildOrNone]]
  /\ phase \in {"building", "extracting", "extracted", "returned", "raised"}
  /\ call \in Call \cup {NoCall}
  /\ docs \in Seq(DocumentType)
  /\ stack \in Seq(FrameType(DOMAIN docs))
  /\ assigned \subseteq Seq(Token)
  /\ output.graphs \subseteq DOMAIN docs
  /\ output.gaps \subseteq GapType
  /\ error \in {"none", "UnsupportedLangGraphVersionError", "TypeError", "ValueError",
                "IncompleteTopologyError"}

\* No two graph documents of one extraction share an id, whatever ids the
\* nodes have (a duplicate id makes the document invalid), and the ids taken
\* are exactly those of the documents: a refused child leaves none behind.
GraphIdsUnique ==
  /\ \A i, j \in DOMAIN docs : docs[i].id = docs[j].id => i = j
  /\ assigned = {docs[i].id : i \in DOMAIN docs}

\* At every moment of the recursion each subgraphId names a graph document
\* that describes the very child the node holds, one level shallower in budget.
ReferencesResolve ==
  \A i \in DOMAIN docs, n \in NodeId :
    docs[i].sub[n] # NoRef =>
      \E j \in DOMAIN docs :
        /\ docs[j].id = docs[i].sub[n]
        /\ docs[j].obj = ChildOf(docs[i], n)
        /\ docs[j].depth = docs[i].depth - 1

\* The recursion never goes below the requested depth, even through children
\* declared in a cycle: the k-th active call has used k - 1 levels.
DepthBudget ==
  \A k \in DOMAIN stack :
    /\ docs[stack[k].doc].depth = call.depth - (k - 1)
    /\ k <= call.depth + 1

\* What the frames hand upwards arrives: the result holds every document and
\* the gap of every router, and each child within the budget is either
\* materialized or reported as a collision, never both and never neither.
NothingDropped ==
  Ended =>
    /\ output.graphs = DOMAIN docs
    /\ \A i \in DOMAIN docs :
         /\ RouterGaps(docs[i].id, docs[i].obj) \subseteq output.gaps
         /\ \A n \in world[docs[i].obj].runtime :
              (docs[i].sub[n] = NoRef) <=>
                \/ docs[i].depth = 0
                \/ ChildOf(docs[i], n) = NoChild
                \/ Gap("child-graph-id-collision", docs[i].id, n) \in output.gaps

\* When no node id holds ':', addresses cannot collide (test_subgraph.py,
\* test_node_ids_cannot_contain_the_derived_id_delimiter): nothing is refused.
ReservedDelimiterNeverCollides ==
  DelimiterReserved(world) => \A g \in AllGaps : g.code # "child-graph-id-collision"

\* Reference definition: the tree of children below the root, level by level.
Below(g) ==
  IF g.depth = 0 THEN {} ELSE
    {[id |-> DerivedId(g.id, n), obj |-> ChildOf(g, n), depth |-> g.depth - 1] :
       n \in {m \in world[g.obj].runtime : ChildOf(g, m) # NoChild}}

Upto[k \in 0..call.depth] ==
  IF k = 0 THEN {[id |-> call.graphId, obj |-> call.root, depth |-> call.depth]}
           ELSE Upto[k - 1] \cup UNION {Below(g) : g \in Upto[k - 1]}

Unfolding == Upto[call.depth]

\* With the delimiter reserved, the documents are the unfolding of the root to
\* the requested depth: the shared set of assigned ids and the order of the
\* siblings decide nothing.
DocumentsAreTheUnfolding ==
  (Ended /\ DelimiterReserved(world)) =>
    {[id |-> docs[i].id, obj |-> docs[i].obj, depth |-> docs[i].depth] :
       i \in DOMAIN docs} = Unfolding

\* strict=True returns a document exactly when no graph of the unfolding has a
\* router with unknown targets; otherwise it raises, and without strict it
\* never does.
StrictMeansNoUnknownRouter ==
  (Ended /\ DelimiterReserved(world)) =>
    ((phase = "raised") <=>
       /\ call.strict
       /\ \E g \in Unfolding : UnknownRouters(world[g.obj]) # {})

\* A call of describe() that begins ends, even with children declared in a cycle.
Terminates == (phase = "extracting") ~> Ended

\* The depth-first recursion is one order of the work the contract allows.
Contract == INSTANCE ExtractContract WITH
  Unreadable <- {},
  phase   <- IF phase = "extracted" THEN "extracting" ELSE phase,
  graphs  <- {[id |-> docs[i].id, obj |-> docs[i].obj, depth |-> docs[i].depth] :
                i \in DOMAIN docs},
  refs    <- UNION {{[graph |-> docs[i].id, node |-> n, to |-> docs[i].sub[n]] :
                       n \in {m \in NodeId : docs[i].sub[m] # NoRef}} : i \in DOMAIN docs},
  refused <- {[graph |-> g.graph, node |-> g.node] :
                g \in {x \in AllGaps : x.code = "child-graph-id-collision"}}

ImplementsContract == Contract!Spec
===============================================================================
