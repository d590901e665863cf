--------------------------------- MODULE MCTs ---------------------------------
(***************************************************************************)
(* Two concurrent calls of the TypeScript describe() over four compiled      *)
(* graphs, each of which may run later ones, and a program that extends      *)
(* their builders while the calls are suspended.                             *)
(***************************************************************************)
EXTENDS TsExtract

CONSTANTS g1, g2, g3, g4, c1, c2

start == <<"__start__">>
end   == <<"__end__">>
a     == <<"a">>
ab    == <<"a", ":", "b">>
b     == <<"b">>

MCToken  == {"__start__", "__end__", "a", "b", "m", ":", "+", "B"}
MCNodeId == {start, end, a, ab, b}
MCGraph  == {g1, g2, g3, g4}
MCCaller == {c1, c2}
MCStar   == <<"*">>

MCRank == [n \in MCNodeId |->
  CASE n = end -> 0 [] n = start -> 1 [] n = a -> 2 [] n = ab -> 3 [] n = b -> 4]

Empty(nodes) ==
  [ nodes    |-> nodes,
    runnable |-> [n \in MCNodeId |-> NoChild],
    wrapped  |-> {},
    edges    |-> << >>,
    branches |-> [n \in MCNodeId |-> << >>],
    ends     |-> [n \in MCNodeId |-> NoEnds],
    joins    |-> {},
    before   |-> {},
    after    |-> {},
    rooted   |-> TRUE ]

\* g1 fans out from START to its two nodes: a runs g2, second, whose name may
\* hold ':', runs y, and b of g2 runs z.
Program(y, z, second, wrapped) ==
  [g \in MCGraph |->
    CASE g = g1 -> [Empty({a, second}) EXCEPT
                      !.runnable[a] = g2, !.runnable[second] = y, !.wrapped = wrapped,
                      !.edges = <<<<start, a>>, <<start, second>>>>,
                      !.branches[second] = <<UnknownEnds>>]
      [] g = g2 -> [Empty({b}) EXCEPT !.runnable[b] = z]
      [] g = g3 -> Empty({b})
      [] g = g4 -> Empty({})]

\* Node "a:b" of g1 and node b of the graph at a have one address.
Colliding == Program(g3, g3, ab, {})

\* The loop passes the collision and goes on to an open node.
Passing ==
  [Colliding EXCEPT ![g1].nodes = {a, ab, b}, ![g1].runnable[b] = g3]

\* The collision is found by a graph that is itself a child, and handed up.
Nested ==
  [g \in MCGraph |->
    CASE g = g1 -> [Empty({b}) EXCEPT !.runnable[b] = g2]
      [] g = g2 -> [Empty({a, ab}) EXCEPT !.runnable[a] = g3, !.runnable[ab] = g4]
      [] g = g3 -> [Empty({b}) EXCEPT !.runnable[b] = g4]
      [] g = g4 -> Empty({b})]

\* The child at a has a join of one source, which builderStructure rejects.
DegenerateJoin ==
  [Program(NoChild, NoChild, b, {}) EXCEPT ![g2].joins = {<<<<b>>, end>>}]

MCBuilt ==
  {Program(g3, NoChild, s, w) : s \in {ab, b}, w \in {{}, {a}}}
    \cup {Program(NoChild, NoChild, b, {}), Colliding, Passing, Nested,
          DegenerateJoin}

MCBuiltEdited ==
  {Program(y, NoChild, b, {}) : y \in {NoChild, g3}} \cup {Colliding, DegenerateJoin}

MCEdit ==
  { [kind |-> "edge", graph |-> g1, source |-> start, target |-> b, child |-> NoChild],
    [kind |-> "router", graph |-> g1, source |-> start, target |-> b, child |-> NoChild],
    [kind |-> "join", graph |-> g1, source |-> b, target |-> end, child |-> NoChild],
    [kind |-> "node", graph |-> g2, source |-> a, target |-> a, child |-> g3] }

Describe(d) == [supported |-> TRUE, root |-> g1, graphId |-> <<"m">>, depth |-> d]

MCCall ==
  {Describe(-1), Describe(0), Describe(2), Describe(3), [Describe(1) EXCEPT !.supported = FALSE],
   [Describe(1) EXCEPT !.graphId = << >>]}

MCCallEdited == {Describe(-1), Describe(0), Describe(2)}
===============================================================================
