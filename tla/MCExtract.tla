------------------------------- MODULE MCExtract -------------------------------
(***************************************************************************)
(* A small family of programs for PyExtract: three compiled graphs, the     *)
(* first able to bind the others directly, every way of binding a child,    *)
(* hiding it behind a wrapper or declaring it (also in a cycle), node ids    *)
(* with and without ':', and routers with unknown targets.                   *)
(***************************************************************************)
EXTENDS PyDescribe

CONSTANTS g1, g2, g3

start == <<"__start__">>
end   == <<"__end__">>
a     == <<"a">>
ab    == <<"a", ":", "b">>
b     == <<"b">>
bStart == <<"b", ":", "__start__">>

MCToken  == {"__start__", "__end__", "a", "b", "m", ":", "+", "B"}
MCNodeId == {start, end, a, ab, b, bStart}
MCGraph  == {g1, g2, g3}

\* Code point order: "__end__" < "__start__" < "a" < "a:b" < "b" < "b:__start__".
MCRank == [n \in MCNodeId |->
  CASE n = end -> 0 [] n = start -> 1 [] n = a -> 2 [] n = ab -> 3 [] n = b -> 4
    [] n = bStart -> 5]

MCStar == <<"*">>

Compiled(nodes, same, bound, routers) ==
  [ drawn    |-> nodes \cup {start, end},
    runtime  |-> nodes \cup {start},
    nodes    |-> nodes,
    same     |-> same \cup {start},
    bound    |-> [n \in MCNodeId |-> IF n \in DOMAIN bound THEN bound[n] ELSE NoChild],
    edges    |-> {<<start, a>>} \cap (nodes \cup {start}) \X nodes,
    branches |-> [n \in MCNodeId |-> IF n \in routers THEN <<UnknownEnds>> ELSE << >>],
    ends     |-> [n \in MCNodeId |-> [dict |-> FALSE, targets |-> << >>]],
    joins    |-> {},
    before   |-> {},
    after    |-> {},
    rooted   |-> TRUE ]

\* x, y are the children g1 binds at its nodes, z the one g2 binds at b.
Programs ==
  {p \in {[x |-> x, y |-> y, z |-> z, second |-> s, hidden |-> h, router |-> r] :
     x \in {NoChild, g2, g3}, y \in {NoChild, g2, g3}, z \in {NoChild, g3},
     s \in {ab, b}, h \in BOOLEAN, r \in {NoChild, g1, g3}} :
     p.hidden => p.router = NoChild}

Built(p) ==
  LET nodes1  == {a, p.second}
      Rout(g) == IF p.router = g THEN {a} ELSE {}
  IN  [g \in MCGraph |->
        CASE g = g1 -> Compiled(nodes1, IF p.hidden THEN {p.second} ELSE nodes1,
                                [n \in nodes1 |-> IF n = a THEN p.x ELSE p.y], Rout(g1))
          [] g = g2 -> Compiled({a, b}, {a, b}, [n \in {b} |-> p.z], {})
          [] g = g3 -> Compiled({a}, {a}, [n \in {} |-> NoChild], Rout(g3))]

\* The node ab of g1 holds g3, whose START wants the address that g2, held by a,
\* has given to its node b:__start__.
StartTaken ==
  [g \in MCGraph |->
    CASE g = g1 -> Compiled({a, ab}, {a, ab}, [n \in {a, ab} |-> IF n = a THEN g2 ELSE g3], {})
      [] g = g2 -> Compiled({bStart}, {bStart}, [n \in {bStart} |-> g3], {})
      [] g = g3 -> Compiled({a}, {a}, [n \in {} |-> NoChild], {})]

MCWorld == {Built(p) : p \in Programs} \cup {StartTaken}

\* Children declared in a cycle (g2 in g3, g1 in itself), where a direct
\* bind may override them, ones that replace an earlier one for another node, of
\* which one is START, and one whose key is no node of the graph.
MCDeclaration ==
  { [graph |-> g1, children |-> [n \in {a} |-> g1]],
    [graph |-> g1, children |-> [n \in {b} |-> g3]],
    [graph |-> g1, children |-> [n \in {end} |-> g2]],
    [graph |-> g3, children |-> [n \in {a} |-> g2]],
    [graph |-> g3, children |-> [n \in {start} |-> g2]] }

Describe(d, s) == [supported |-> TRUE, root |-> g1, graphId |-> <<"m">>,
                   depth |-> d, strict |-> s]

MCCall ==
  {Describe(d, s) : d \in {-1, 0, 2}, s \in BOOLEAN} \cup {Describe(3, FALSE)}
    \cup {[Describe(1, FALSE) EXCEPT !.supported = FALSE, !.root = NotAGraph],
          [Describe(1, FALSE) EXCEPT !.root = NotAGraph, !.graphId = << >>],
          [Describe(1, FALSE) EXCEPT !.graphId = << >>]}
===============================================================================
