-------------------------------- MODULE Parity --------------------------------
(***************************************************************************)
(* The same program described by both producers.  The conformance suite     *)
(* compares their documents on a fixed list of programs; here the two        *)
(* translations, each written from its own source, are compared.            *)
(***************************************************************************)
EXTENDS PyDescribe

CONSTANT NoEnds

Ts == INSTANCE TsStructure

(***************************************************************************)
(* Where the two libraries are taken to be alike: both draw the nodes of   *)
(* the builder and the sentinels, START with the runnable it has, and both  *)
(* refuse an interrupt at a sentinel.  No node is called "*", which Python   *)
(* alone would take for the configuration of that name.                     *)
(***************************************************************************)
Alike(c) ==
  /\ c.drawn = c.nodes \cup {START, END}
  /\ START \in c.same
  /\ {START, END} \cap (c.before \cup c.after) = {}

ParityAssumption ==
  /\ STAR \notin NodeId
  /\ {NoEnds, UnknownEnds} \cap Seq(NodeId) = {}
  /\ \A w \in World, g \in Graph : Alike(w[g])

ASSUME ProgramsAlike == ParityAssumption

\* The builder the TypeScript LangGraph has for the program of c.  Python keeps
\* its edges in a set, so only programs that declare each edge once have both.
TsBuilder(c) ==
  [ nodes    |-> c.nodes,
    runnable |-> c.bound,
    wrapped  |-> c.nodes \ c.same,
    edges    |-> SetToSeq(c.edges),
    branches |-> c.branches,
    ends     |-> [n \in NodeId |->
                    IF ~c.ends[n].dict /\ c.ends[n].targets = << >>
                      THEN NoEnds ELSE c.ends[n].targets],
    joins    |-> c.joins,
    before   |-> c.before,
    after    |-> c.after,
    rooted   |-> c.rooted ]

TsEdges(structure) ==
  {[id |-> Ts!EdgeId(e), source |-> e.source, target |-> e.target, kind |-> e.kind] :
     e \in structure.edges}

\* For a program without declared children, which only Python has, both producers
\* record the same nodes, edges, joins, entries and exits and the same facts about
\* every node: a revision of one implementation that forgets the other shows here.
ProducersAgree ==
  Ended => \A i \in output.graphs :
    LET c  == Contents(docs[i])
        b  == TsBuilder(c)
        d  == Ts!Drawable(b)
        py == Structure(c)
        ts == Ts!Structure(b, d)
    IN  (\A n \in NodeId : declared[docs[i].obj][n] = NoChild) =>
          /\ py.edges = TsEdges(ts)
          /\ \A field \in {"nodes", "joins", "entryNodeIds", "exitNodeIds"} :
               py[field] = ts[field]
          /\ Facts(docs[i]) = Ts!Interpretation(b, d, ts, docs[i].sub, docs[i].depth)
===============================================================================
