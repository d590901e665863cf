------------------------------ MODULE MCDescribe ------------------------------
(***************************************************************************)
(* Programs whose builders vary: unconditional and conditional edges,        *)
(* routers with and without declared targets, node-level destinations, nodes *)
(* hidden behind wrappers, and joins whose sources contain '+' and '\'.       *)
(***************************************************************************)
EXTENDS Parity

CONSTANTS g1, g2

start == <<"__start__">>
end   == <<"__end__">>
a     == <<"a">>
aPlus == <<"a", "+", "b">>
aBack == <<"a", "B">>
b     == <<"b">>
bPlus == <<"b", "+", "c">>
c     == <<"c">>

MCToken  == {"__start__", "__end__", "a", "b", "c", "m", ":", "+", "B"}
MCNodeId == {start, end, a, aPlus, aBack, b, bPlus, c}
MCGraph  == {g1, g2}
MCStar   == <<"*">>

\* Code point order, "B" standing for the backslash.
MCRank == [n \in MCNodeId |->
  CASE n = end -> 0 [] n = start -> 1 [] n = a -> 2 [] n = aPlus -> 3
    [] n = aBack -> 4 [] n = b -> 5 [] n = bPlus -> 6 [] n = c -> 7]

NoBranches  == [n \in MCNodeId |-> << >>]
EndsNowhere == [n \in MCNodeId |-> [dict |-> FALSE, targets |-> << >>]]

Compiled(nodes) ==
  [ drawn    |-> nodes \cup {start, end},
    runtime  |-> nodes \cup {start},
    nodes    |-> nodes,
    same     |-> nodes \cup {start},
    bound    |-> [n \in MCNodeId |-> NoChild],
    edges    |-> {},
    branches |-> NoBranches,
    ends     |-> EndsNowhere,
    joins    |-> {},
    before   |-> {MCStar},
    after    |-> {b},
    rooted   |-> TRUE ]

\* g1 with nodes a, b and, bound at a, g2, whose only node is a.
Routed(edges, atA, atStart, endsB, same) ==
  [g \in MCGraph |->
    IF g = g1
      THEN [Compiled({a, b}) EXCEPT
              !.same = same,
              !.bound[a] = g2,
              !.edges = edges,
              !.branches[a] = atA,
              !.branches[start] = atStart,
              !.ends[b] = endsB]
      ELSE [Compiled({a}) EXCEPT !.edges = {<<start, a>>}, !.branches[a] = atStart]]

RoutedWorlds ==
  {Routed(edges, atA, atStart, endsB, same) :
     edges   \in SUBSET {<<start, a>>, <<start, b>>, <<a, b>>, <<a, end>>},
     atA     \in {<< >>, <<UnknownEnds>>, << <<b>> >>, << <<b, b>>, UnknownEnds>>},
     atStart \in {<< >>, <<UnknownEnds>>},
     endsB   \in {[dict |-> FALSE, targets |-> << >>], [dict |-> TRUE, targets |-> << >>],
                  [dict |-> FALSE, targets |-> <<a>>]},
     same    \in {{start, a, b}, {start, a}}}

Joined(joins) ==
  [g \in MCGraph |->
    [Compiled({a, aPlus, aBack, b, bPlus, c}) EXCEPT
       !.joins = IF g = g1 THEN joins ELSE {}]]

\* Groupings of sources that an unescaped '+' or '\' would confuse, and one
\* barrier declared in two orders.
Barriers ==
  { <<<<aPlus, c>>, end>>, <<<<c, aPlus>>, end>>, <<<<a, bPlus>>, end>>,
    <<<<aBack, b, c>>, end>>, <<<<a, b>>, end>> }

\* LangGraph names a barrier's channel by joining its sources with '+' and
\* refuses a second barrier whose channel has that name.
OneChannelEach(joins) == ~ {<<<<aPlus, c>>, end>>, <<<<a, bPlus>>, end>>} \subseteq joins

MCWorld ==
  RoutedWorlds \cup {Joined(joins) : joins \in {j \in SUBSET Barriers : OneChannelEach(j)}}

\* add_edge accepts a list with one source, or with the same source twice.
DegenerateWorld ==
  {Joined(joins) : joins \in SUBSET {<<<<a>>, end>>, <<<<a, b, a>>, end>>, <<<<a, b>>, end>>}}

MCDeclaration == {}

MCCall == {[supported |-> TRUE, root |-> g1, graphId |-> <<"m">>,
            depth |-> d, strict |-> FALSE] : d \in {0, 1}}
===============================================================================
