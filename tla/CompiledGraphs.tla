---------------------------- MODULE CompiledGraphs ----------------------------
(***************************************************************************)
(* What the Python producer sees of LangGraph: compiled state graphs, the  *)
(* builder each was compiled from, its drawable view.  LangGraph itself    *)
(* is not in the repository; everything here is taken from the attributes  *)
(* that packages/python/langgraph reads.                                   *)
(***************************************************************************)
EXTENDS NodeIds

CONSTANT World    \* the compiled object graphs a program may have built

(***************************************************************************)
(* One compiled graph.                                                     *)
(*   drawn    ids of get_graph(xray=0).nodes                               *)
(*   runtime  keys of compiled.nodes                                       *)
(*   nodes    keys of builder.nodes                                        *)
(*   same     ids whose drawable data is the very runnable bound at runtime*)
(*   bound    the compiled graph bound at a runtime node, if it is one     *)
(*   edges    builder.edges, a set of pairs                                *)
(*   branches per source, the branches of builder.branches: the values of  *)
(*            branch.ends, or UnknownEnds                                  *)
(*   ends     per node, node.ends: whether it is a dict, and its targets   *)
(*   joins    builder.waiting_edges: pairs of a tuple of sources and a     *)
(*            target                                                       *)
(*   before, after   interrupt_before_nodes, interrupt_after_nodes         *)
(*   rooted   input_channels == START                                      *)
(***************************************************************************)
CompiledGraph ==
  [ drawn    : SUBSET NodeId,
    runtime  : SUBSET NodeId,
    nodes    : SUBSET NodeId,
    same     : SUBSET NodeId,
    bound    : [NodeId -> ChildOrNone],
    edges    : SUBSET (NodeId \X NodeId),
    branches : [NodeId -> Seq(Seq(NodeId) \cup {UnknownEnds})],
    ends     : [NodeId -> [dict : BOOLEAN, targets : Seq(NodeId)]],
    joins    : SUBSET (Seq(NodeId) \X NodeId),
    before   : SUBSET (NodeId \cup {STAR}),
    after    : SUBSET (NodeId \cup {STAR}),
    rooted   : BOOLEAN ]

\* compile() refuses a builder whose edges, routers, destinations or joins lead
\* from or to something that is no node of the graph.
Closed(c) ==
  /\ \A e \in c.edges : {e[1], e[2]} \subseteq c.drawn
  /\ \A j \in c.joins : j[2] \in c.drawn /\ \A i \in DOMAIN j[1] : j[1][i] \in c.drawn
  /\ \A s \in NodeId : \A i \in DOMAIN c.branches[s] :
       /\ s \in c.drawn
       /\ c.branches[s][i] # UnknownEnds =>
            \A k \in DOMAIN c.branches[s][i] : c.branches[s][i][k] \in c.drawn
  /\ \A n \in NodeId : \A k \in DOMAIN c.ends[n].targets :
       n \in c.drawn /\ c.ends[n].targets[k] \in c.drawn

(***************************************************************************)
(* What compile() guarantees and the extraction leans on: a runtime node   *)
(* is drawn (otherwise drawable.nodes[node_id] would raise KeyError), and  *)
(* START is a runtime node but END is not.  Only a node of the builder has *)
(* ends, and builder.edges is a finite set.                                *)
(***************************************************************************)
WellFormed(c) ==
  /\ c.runtime = c.nodes \cup {START}
  /\ c.runtime \subseteq c.drawn
  /\ c.same \subseteq c.runtime
  /\ {START, END} \cap c.nodes = {}
  /\ c.bound[START] = NoChild
  /\ \A n \in NodeId \ c.nodes : ~c.ends[n].dict /\ c.ends[n].targets = << >>
  /\ IsFiniteSet(c.edges)
  /\ Closed(c)

WorldAssumption ==
  /\ World \subseteq [Graph -> CompiledGraph]
  /\ \A w \in World, g \in Graph : WellFormed(w[g])

ASSUME ObjectsAssumption == WorldAssumption

\* No node of any graph of w has a name with ':' in it.
DelimiterReserved(w) == \A g \in Graph : \A n \in w[g].runtime : ColonFree(n)
===============================================================================
