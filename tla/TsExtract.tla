------------------------------- MODULE TsExtract -------------------------------
(***************************************************************************)
(* describe() of the TypeScript producer: several asynchronous calls of one *)
(* program, and the program itself, interleaved.  An action is one stretch   *)
(* of code between two awaits: extractGraph suspends while getGraphAsync is  *)
(* pending and while the recursion into a child is, and whatever else runs   *)
(* meanwhile may extend a builder (LangGraph only warns about that).         *)
(***************************************************************************)
EXTENDS TsStructure

CONSTANTS
  Caller,      \* concurrent calls of describe()
  Observed,    \* the caller the refinement below is stated of
  NotAGraph,   \* an argument that is no CompiledStateGraph
  Call,        \* the arguments a call may have
  Built,       \* the builders a program may have compiled
  Edit,        \* what a program may add to a builder afterwards
  MaxEdits     \* how often it does

VARIABLES
  builders,    \* the builder of each compiled graph
  edits,       \* edits made so far
  phase,       \* per caller: "idle", "extracting", "extracted", "returned", "raised"
  call,        \* per caller, its arguments
  docs,        \* per caller, the graphs with an id, in the order they got it
  stack,       \* per caller, the suspended calls of extractGraph
  assigned,    \* per caller, assignedIds
  output       \* per caller, what the outermost extractGraph resolved to

vars == <<builders, edits, phase, call, docs, stack, assigned, output>>

CallerAssumption ==
  /\ NotAGraph \notin Graph
  /\ NoChild \notin Graph
  /\ Observed \in Caller
  /\ MaxEdits \in Nat
  /\ Built \subseteq [Graph -> Builder]
  /\ Call \subseteq [supported : BOOLEAN, root : Graph \cup {NotAGraph},
                     graphId : Seq(Token), depth : Int]
  /\ Edit \subseteq [kind : {"edge", "router", "join", "node"}, graph : Graph,
                     source : NodeId, target : NodeId, child : ChildOrNone]
  /\ \A e \in Edit : e.kind = "node" => ~Sentinel(e.source)

ASSUME CallersAssumption == CallerAssumption

NoCall == [supported |-> TRUE, root |-> NotAGraph, graphId |-> << >>, depth |-> 0]
NoResult == [graphs |-> {}, gaps |-> {}]
NoRef == << >>

\* A graph with an id; its edges and nodes are known once it is built, its
\* facts once it is closed.
Document(gid, g, d) ==
  [ id |-> gid, obj |-> g, depth |-> d, state |-> "drawing",
    drawable |-> [ids |-> {}, same |-> {}], edges |-> {}, routers |-> {},
    sub |-> [n \in NodeId |-> NoRef], branch |-> [n \in NodeId |-> "none"],
    subgraph |-> [n \in NodeId |-> "none"] ]

Frame(i) == [doc |-> i, pc |-> "drawing", todo |-> {}, result |-> NoResult,
             descendants |-> {}, gaps |-> {}]

Init ==
  /\ builders \in Built
  /\ edits = 0
  /\ phase = [c \in Caller |-> "idle"]
  /\ call = [c \in Caller |-> NoCall]
  /\ docs = [c \in Caller |-> << >>]
  /\ stack = [c \in Caller |-> << >>]
  /\ assigned = [c \in Caller |-> {}]
  /\ output = [c \in Caller |-> NoResult]

-------------------------------------------------------------------------------
(* The program: addNode, addEdge and addConditionalEdges on a builder that   *)
(* has been compiled.  addEdge given a list of sources adds a join; here the *)
(* list has one element, and the builder cannot be read from then on.        *)
Extended(b, e) ==
  IF e.kind = "edge" THEN [b EXCEPT !.edges = Append(@, <<e.source, e.target>>)]
  ELSE IF e.kind = "router"
    THEN [b EXCEPT !.branches[e.source] = Append(@, UnknownEnds)]
  ELSE IF e.kind = "join" THEN [b EXCEPT !.joins = @ \cup {<<<<e.source>>, e.target>>}]
  ELSE [b EXCEPT !.nodes = @ \cup {e.source}, !.runnable[e.source] = e.child]

EditBuilder(e) ==
  /\ edits < MaxEdits
  /\ e.kind = "node" => e.source \notin builders[e.graph].nodes
  /\ edits' = edits + 1
  /\ builders' = [builders EXCEPT ![e.graph] = Extended(@, e)]
  /\ UNCHANGED <<phase, call, docs, stack, assigned, output>>

-------------------------------------------------------------------------------
(* describeWithVersion up to the first await.                               *)

\* Mutant: a negative depth is let through.
AcceptableAnyDepth(a) == a.supported /\ a.root \in Graph /\ a.graphId # << >>

Acceptable(a) == a.supported /\ a.root \in Graph /\ a.depth >= 0 /\ a.graphId # << >>

RejectCall(c, a) ==
  /\ phase[c] = "idle"
  /\ ~Acceptable(a)
  /\ phase' = [phase EXCEPT ![c] = "raised"]
  /\ call' = [call EXCEPT ![c] = a]
  /\ UNCHANGED <<builders, edits, docs, stack, assigned, output>>

Begin(c, a) ==
  /\ phase[c] = "idle"
  /\ Acceptable(a)
  /\ phase' = [phase EXCEPT ![c] = "extracting"]
  /\ call' = [call EXCEPT ![c] = a]
  /\ docs' = [docs EXCEPT ![c] = <<Document(a.graphId, a.root, a.depth)>>]
  /\ stack' = [stack EXCEPT ![c] = <<Frame(1)>>]
  /\ assigned' = [assigned EXCEPT ![c] = {a.graphId}]
  /\ UNCHANGED <<builders, edits, output>>

-------------------------------------------------------------------------------
(* extractGraph.                                                            *)

Top(c) == stack[c][Len(stack[c])]
TopDoc(c) == docs[c][Top(c).doc]

Running(c, pc) == phase[c] = "extracting" /\ Top(c).pc = pc

\* getGraphAsync reads the builder some time before the caller goes on.
Draw(c) ==
  /\ Running(c, "drawing")
  /\ docs' = [docs EXCEPT ![c][Top(c).doc].drawable = Drawable(builders[TopDoc(c).obj])]
  /\ stack' = [stack EXCEPT ![c][Len(stack[c])].pc = "drawn"]
  /\ UNCHANGED <<builders, edits, phase, call, assigned, output>>

\* Mutants: one set of ids for all calls; each extractGraph knows the ids of the
\* calls that await it only.
TakenByAnyCall(c, gid) == \E e \in Caller : gid \in assigned[e]
TakenByCallers(c, gid) ==
  \E k \in DOMAIN stack[c] : docs[c][stack[c][k].doc].id = gid

Taken(c, gid) == gid \in assigned[c]

\* Mutant: a child is mapped by its node's name, wrapped or not.
ChildByName(doc, n) ==
  IF n \in doc.drawable.ids THEN builders[doc.obj].runnable[n] ELSE NoChild

Child(doc, n) == MappedCompiledChild(builders[doc.obj], doc.drawable, n)

Collision(gid, n) == [code |-> "child-graph-id-collision", graph |-> gid, node |-> n]

\* The nodes the loop finds a child at and whose address is free.
Open(c, doc, todo) ==
  {n \in todo : Child(doc, n) # NoChild /\ ~Taken(c, DerivedId(doc.id, n))}

\* Mutant: a collision leaves the child opaque without a gap.
RefusedSilently(c, doc, todo) == {}

Refused(c, doc, todo) ==
  {Collision(doc.id, n) : n \in {m \in todo :
     Child(doc, m) # NoChild /\ Taken(c, DerivedId(doc.id, m))}}

\* The loop goes on to the first open node n and calls extractGraph there.
Descend(c, doc, frame, n) ==
  LET gid    == DerivedId(doc.id, n)
      passed == {m \in frame.todo : Rank[m] < Rank[n]}
  IN
  /\ docs' = [docs EXCEPT ![c] =
       Append([@ EXCEPT ![frame.doc] = [doc EXCEPT !.sub[n] = gid]],
              Document(gid, Child(doc, n), doc.depth - 1))]
  /\ stack' = [stack EXCEPT ![c] =
       Append([@ EXCEPT ![Len(@)] =
                 [frame EXCEPT !.pc = "awaiting",
                               !.todo = @ \ (passed \cup {n}),
                               !.gaps = @ \cup Refused(c, doc, passed)]],
              Frame(Len(docs[c]) + 1))]
  /\ assigned' = [assigned EXCEPT ![c] = @ \cup {gid}]
  /\ UNCHANGED <<builders, edits, phase, call, output>>

\* Nothing is left to descend into: the facts are written, from the builder as
\* it is now, and the caller's promise is resolved.
Close(c, doc, frame) ==
  LET b       == builders[doc.obj]
      result  == [graphs |-> {frame.doc} \cup frame.descendants,
                  gaps   |-> frame.gaps \cup Refused(c, doc, frame.todo)]
      below   == Len(stack[c]) - 1
      resumed == [stack[c][below] EXCEPT !.pc = "resuming", !.result = result]
      closed  == [doc EXCEPT
        !.state    = "closed",
        !.branch   = [n \in NodeId |-> IF n \in doc.drawable.ids
                        THEN BranchFact(b, doc.drawable, doc.edges, doc.depth, n) ELSE @[n]],
        !.subgraph = [n \in NodeId |-> IF n \in doc.drawable.ids
                        THEN SubgraphFact(b, doc.drawable, doc.sub, n) ELSE @[n]]]
  IN
  /\ docs' = [docs EXCEPT ![c][frame.doc] = closed]
  /\ IF below = 0
       THEN /\ phase' = [phase EXCEPT ![c] = "extracted"]
            /\ stack' = [stack EXCEPT ![c] = << >>]
            /\ output' = [output EXCEPT ![c] = result]
       ELSE /\ stack' = [stack EXCEPT ![c] =
                 [SubSeq(@, 1, below) EXCEPT ![below] = resumed]]
            /\ UNCHANGED <<phase, output>>
  /\ UNCHANGED <<builders, edits, call, assigned>>

\* An exception rejects the whole chain of awaiting callers.
Throw(c) ==
  /\ phase' = [phase EXCEPT ![c] = "raised"]
  /\ stack' = [stack EXCEPT ![c] = << >>]
  /\ UNCHANGED <<builders, edits, call, docs, assigned, output>>

\* The loop over sorted builder.nodes up to its next await, or to the end.
Proceed(c, doc, frame) ==
  \/ \E n \in Open(c, doc, frame.todo) :
       /\ \A m \in Open(c, doc, frame.todo) : Rank[n] <= Rank[m]
       /\ Descend(c, doc, frame, n)
  \/ /\ Open(c, doc, frame.todo) = {}
     /\ IF StructureThrows(builders[doc.obj]) THEN Throw(c) ELSE Close(c, doc, frame)

\* getGraphAsync has resolved: builderStructure reads the builder.
Build(c) ==
  LET doc   == TopDoc(c)
      b     == builders[doc.obj]
      built == [doc EXCEPT !.state = "built", !.edges = EdgeDocuments(b),
                           !.routers = UnknownRouters(b)]
      frame == [Top(c) EXCEPT
                  !.pc   = "looping",
                  !.todo = IF doc.depth > 0 THEN b.nodes ELSE {},
                  !.gaps = {[code |-> "unknown-routing-targets", graph |-> doc.id,
                             node |-> s] : s \in UnknownRouters(b)}]
  IN  /\ Running(c, "drawn")
      /\ IF StructureThrows(b) THEN Throw(c) ELSE Proceed(c, built, frame)

\* The child's promise has resolved.
Resume(c) ==
  LET frame == [Top(c) EXCEPT !.pc          = "looping",
                              !.descendants = @ \cup Top(c).result.graphs,
                              !.gaps        = @ \cup Top(c).result.gaps,
                              !.result      = NoResult]
  IN  /\ Running(c, "resuming")
      /\ Proceed(c, TopDoc(c), frame)

\* describeWithVersion after its await.
Finish(c) ==
  /\ phase[c] = "extracted"
  /\ phase' = [phase EXCEPT ![c] = "returned"]
  /\ UNCHANGED <<builders, edits, call, docs, stack, assigned, output>>

\* Mutant: nobody awaits the child's promise.
ExtractUnawaited(c) == Draw(c) \/ Build(c) \/ Finish(c)

Extract(c) == Draw(c) \/ Build(c) \/ Resume(c) \/ Finish(c)

Next ==
  \/ \E e \in Edit : EditBuilder(e)
  \/ \E c \in Caller, a \in Call : RejectCall(c, a)
  \/ \E c \in Caller, a \in Call : Begin(c, a)
  \/ \E c \in Caller : Extract(c)

\* The event loop runs every continuation that is ready; getGraphAsync resolves.
Spec == Init /\ [][Next]_vars
FairSpec == Spec /\ \A c \in Caller : WF_vars(Extract(c))

-------------------------------------------------------------------------------
(* Properties.                                                              *)

DocumentType ==
  [ id : Seq(Token), obj : Graph, depth : Nat, state : {"drawing", "built", "closed"},
    drawable : [ids : SUBSET NodeId, same : SUBSET NodeId],
    edges : SUBSET [source : NodeId, target : NodeId, kind : {"direct", "conditional"},
                    occurrence : Nat],
    routers : SUBSET NodeId, sub : [NodeId -> Seq(Token)],
    branch : [NodeId -> {"none", "scope-not-inspected", "selection-not-observable",
                         "all-declared"}],
    subgraph : [NodeId -> {"none", "materialized-child", "scope-not-inspected",
                           "compiled-child", "identity-unavailable"}] ]

GapType == [code : {"unknown-routing-targets", "child-graph-id-collision"},
            graph : Seq(Token), node : NodeId]

ResultType(indices) == [graphs : SUBSET indices, gaps : SUBSET GapType]

FrameType(indices) ==
  [ doc : indices, pc : {"drawing", "drawn", "awaiting", "resuming"},
    todo : SUBSET NodeId, result : ResultType(indices),
    descendants : SUBSET indices, gaps : SUBSET GapType ]

\* Every variable has its shape; a suspended call waits at one of its awaits.
TypeOK ==
  /\ builders \in [Graph -> Builder]
  /\ edits \in 0..MaxEdits
  /\ call \in [Caller -> Call \cup {NoCall}]
  /\ \A c \in Caller :
       /\ phase[c] \in {"idle", "extracting", "extracted", "returned", "raised"}
       /\ docs[c] \in Seq(DocumentType)
       /\ stack[c] \in Seq(FrameType(DOMAIN docs[c]))
       /\ assigned[c] = {docs[c][i].id : i \in DOMAIN docs[c]}
       /\ output[c] \in ResultType(DOMAIN docs[c])

\* A fan-out is called "all-declared" only if, at the moment it is written, the
\* builder has exactly the edges recorded for the node and no branch there:
\* what was read before an await is compared with what is read after it.
ClaimsAreCurrent ==
  [][\A c \in Caller : \A i \in DOMAIN docs[c] :
       LET new == docs'[c][i]
           b   == builders[new.obj]
       IN  (docs[c][i].state # "closed" /\ new.state = "closed") =>
             \A n \in NodeId : new.branch[n] = "all-declared" =>
               /\ {e \in new.edges : e.source = n} = {e \in EdgeDocuments(b) : e.source = n}
               /\ n \notin Dynamic(b)]_vars

\* Whatever the program does to the builders meanwhile, a subgraphId names the
\* one graph of its call that describes the graph the node runs.
ReferencesResolve ==
  \A c \in Caller : \A i \in DOMAIN docs[c], n \in NodeId :
    docs[c][i].sub[n] # NoRef =>
      \E j \in DOMAIN docs[c] :
        /\ \A k \in DOMAIN docs[c] : docs[c][k].id = docs[c][i].sub[n] <=> k = j
        /\ docs[c][j].obj = builders[docs[c][i].obj].runnable[n]
        /\ docs[c][j].depth = docs[c][i].depth - 1

\* The gaps found so far, those on their way to an awaiting caller included.
AllGaps(c) ==
  output[c].gaps
    \cup UNION {stack[c][k].gaps \cup stack[c][k].result.gaps : k \in DOMAIN stack[c]}

\* Concurrent calls share nothing: an address one call finds taken was given
\* out by that very call, even when all calls use the same graphId.
CollisionsAreOnesOwn ==
  \A c \in Caller : \A g \in AllGaps(c) : g.code = "child-graph-id-collision" =>
    \E i \in DOMAIN docs[c] : docs[c][i].id = DerivedId(g.graph, g.node)

\* A result holds every graph given an id, closed, every router those graphs
\* were built with, and for each child drawn within the budget either its graph
\* or its collision, never neither; the facts say the same.
NothingDropped ==
  \A c \in Caller : phase[c] = "returned" =>
    /\ output[c].graphs = DOMAIN docs[c]
    /\ \A i \in DOMAIN docs[c] :
         LET doc == docs[c][i] IN
         /\ doc.state = "closed"
         /\ \A s \in doc.routers :
              [code |-> "unknown-routing-targets", graph |-> doc.id, node |-> s]
                \in output[c].gaps
         /\ \A n \in doc.drawable.ids : Child(doc, n) # NoChild =>
              /\ doc.sub[n] # NoRef <=> doc.subgraph[n] = "materialized-child"
              /\ doc.sub[n] = NoRef <=>
                   (doc.depth = 0 \/ Collision(doc.id, n) \in output[c].gaps)

\* Every call settles, provided getGraphAsync does.
Settles ==
  \A c \in Caller : phase[c] = "extracting" ~> phase[c] \in {"returned", "raised"}

\* Without edits each call, here the observed one, keeps the contract the Python
\* producer keeps.  What the contract sees of it:
AsCompiled(b) ==
  [ runtime |-> b.nodes \cup {START}, same |-> b.nodes \ b.wrapped,
    bound |-> b.runnable, branches |-> b.branches, joins |-> b.joins ]

\* The compiled graphs of the programs that builderStructure rejects.
Rejected ==
  {AsCompiled(b) : b \in {x \in UNION {{w[g] : g \in Graph} : w \in Built} : StructureThrows(x)}}

CompiledFrom(bs) == [g \in Graph |-> AsCompiled(bs[g])]

AsCall(a) == [supported |-> a.supported, root |-> a.root, graphId |-> a.graphId,
              depth |-> a.depth, strict |-> FALSE]

GraphOf(doc) == [id |-> doc.id, obj |-> doc.obj, depth |-> doc.depth]

GraphsOf(ds) == {GraphOf(ds[j]) : j \in DOMAIN ds}

RefsOf(ds) ==
  UNION {{[graph |-> ds[j].id, node |-> n, to |-> ds[j].sub[n]] :
            n \in {m \in NodeId : ds[j].sub[m] # NoRef}} : j \in DOMAIN ds}

RefusedOf(gaps) ==
  {[graph |-> g.graph, node |-> g.node] :
     g \in {x \in gaps : x.code = "child-graph-id-collision"}}

SeenWorld == CompiledFrom(builders)
SeenDeclared == [g \in Graph |-> [n \in NodeId |-> NoChild]]
SeenPhase == IF phase[Observed] = "idle" THEN "building"
             ELSE IF phase[Observed] = "extracted" THEN "extracting"
             ELSE phase[Observed]
SeenCall == AsCall(call[Observed])
SeenGraphs == GraphsOf(docs[Observed])
SeenRefs == RefsOf(docs[Observed])
SeenRefused == RefusedOf(AllGaps(Observed))
SeenError == IF phase[Observed] = "raised" THEN "TypeError" ELSE "none"

Contract == INSTANCE ExtractContract WITH
  World       <- {CompiledFrom(w) : w \in Built},
  Declaration <- {},
  Unreadable  <- Rejected,
  Call        <- {AsCall(a) : a \in Call},
  world       <- SeenWorld,
  declared    <- SeenDeclared,
  phase       <- SeenPhase,
  call        <- SeenCall,
  graphs      <- SeenGraphs,
  refs        <- SeenRefs,
  refused     <- SeenRefused,
  error       <- SeenError

ImplementsContract == Contract!Spec
===============================================================================
