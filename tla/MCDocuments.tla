------------------------------ MODULE MCDocuments ------------------------------
(***************************************************************************)
(* Well-formed and malformed documents of two graphs, numbers at the        *)
(* boundaries of the spelling rules, and short traces.                      *)
(***************************************************************************)
EXTENDS HashedDocument

a  == <<97>>
a1 == <<97, 33>>        \* "a!", whose '!' sorts before the quote that ends "a"
b  == <<98>>
c  == <<99>>
g  == <<103>>
h  == <<104>>
direct == <<100>>
conditional == <<99>>
before == <<98>>
after  == <<97>>

Num(neg, digits, n) == [neg |-> neg, digits |-> digits, n |-> n]

Node(id) == [id |-> id]
Edge(id, source, target, kind) == [id |-> id, source |-> source, target |-> target, kind |-> kind]
AndJoin(id, sources, target) == [id |-> id, sources |-> sources, target |-> target]

NodeA == [id |-> a, interrupts |-> <<before, after>>, subgraphId |-> h]

Main ==
  [ nodes |-> <<NodeA, Node(b), [id |-> a1, x |-> Num(FALSE, <<1>>, 17)]>>,
    edges |-> <<Edge(<<1>>, b, a, direct)>>,
    joins |-> <<AndJoin(<<5>>, <<a, a1>>, b)>>,
    entryNodeIds |-> <<a, a1>>,
    exitNodeIds  |-> <<b>> ]

Small == [nodes |-> <<Node(a)>>, edges |-> << >>, joins |-> << >>,
          entryNodeIds |-> <<a>>, exitNodeIds |-> <<a>>]

Doc(main, small, gaps) ==
  [ graphs |-> <<[id |-> g, structure |-> main], [id |-> h, structure |-> small]>>,
    status |-> IF gaps = << >> THEN "complete" ELSE "incomplete",
    gaps   |-> gaps ]

Gap(graphId, kind, id) == [graphId |-> graphId, kind |-> kind, id |-> id]

\* Documents that differ in what they say.
Structures ==
  { Main,
    [Main EXCEPT !.joins = << >>],
    [Main EXCEPT !.joins = << >>, !.edges = @ \o <<Edge(<<2>>, a, b, direct), Edge(<<3>>, a1, b, direct)>>],
    [Main EXCEPT !.joins = @ \o <<AndJoin(<<6>>, <<b, a>>, a1)>>],
    [Main EXCEPT !.joins[1].sources = <<a, a1, b>>],
    [Main EXCEPT !.edges[1].kind = conditional],
    [Main EXCEPT !.nodes[1] = Node(a)],
    [Main EXCEPT !.nodes[1].interrupts = <<after>>],
    [Main EXCEPT !.nodes[2] = [id |-> b, type |-> a]],
    [Main EXCEPT !.entryNodeIds = <<a1>>],
    [Main EXCEPT !.exitNodeIds = << >>],
    [Main EXCEPT !.nodes[3].x = Num(FALSE, <<1>>, 310)] }

\* Structures and gaps that the validators must find wrong.
Malformed ==
  { Doc([Main EXCEPT !.nodes[2] = [id |-> a]], Small, << >>),
    Doc([Main EXCEPT !.nodes[3] = Node(b)], Small, << >>),
    Doc([Main EXCEPT !.edges = @ \o @], Small, << >>),
    Doc([Main EXCEPT !.nodes = <<[id |-> a, x |-> Num(FALSE, <<1, 5>>, 1)],
                                 [id |-> a, x |-> Num(FALSE, <<1>>, 17)], Node(b)>>,
                     !.joins = << >>, !.entryNodeIds = << >>], Small, << >>),
    Doc([Main EXCEPT !.edges[1].target = c], Small, << >>),
    Doc([Main EXCEPT !.joins[1].sources = <<a>>], Small, << >>),
    Doc([Main EXCEPT !.joins[1].sources = <<a, a>>], Small, << >>),
    Doc([Main EXCEPT !.joins[1].target = c, !.exitNodeIds = <<c>>], Small, << >>),
    Doc([Main EXCEPT !.nodes[1].subgraphId = c], Small, << >>),
    [Doc(Main, Small, << >>) EXCEPT !.status = "incomplete"],
    [Doc(Main, Small, <<Gap(h, "node", a)>>) EXCEPT !.status = "complete"],
    Doc(Main, Small, <<Gap(c, "node", a)>>),
    Doc(Main, Small, <<Gap(g, "edge", a)>>),
    [Doc(Main, Small, <<Gap(h, "node", a)>>) EXCEPT !.graphs[2].id = g],
    [Doc(Small, Main, <<Gap(g, "join", <<5>>)>>) EXCEPT !.graphs[2].id = g] }

Boundary == {-8, -7, -6, -5, -4, -3, -2, 0, 1, 2, 3, 15, 16, 17, 18, 20, 21, 22, 23, 309, 310}
Digits == {<<1>>, <<1, 5>>, <<1, 0, 2>>, <<9, 0, 0, 7, 1, 9, 9, 2, 5, 4, 7, 4, 0, 9, 9>>}

\* The smallest double, 2^53, the largest double, and what is next beyond it.
Extremes == {Num(FALSE, <<5>>, -323),
             Num(FALSE, <<9, 0, 0, 7, 1, 9, 9, 2, 5, 4, 7, 4, 0, 9, 9, 2>>, 16),
             Num(FALSE, LargestDigits, 309), Num(FALSE, <<1, 8>>, 309)}

Numeric ==
  {Doc([Small EXCEPT !.nodes[1] = [id |-> a, x |-> x]], Small, << >>) :
     x \in {Num(neg, d, n) : neg \in BOOLEAN, d \in Digits, n \in Boundary}
             \cup {Num(neg, << >>, 0) : neg \in BOOLEAN} \cup Extremes}

MCTraced == {Doc(Main, Small, << >>), Doc(Main, Small, <<Gap(g, "graph", g)>>),
             Doc(Main, Small, <<Gap(h, "node", a)>>)}

MCDocuments ==
  {Doc(s, Small, << >>) : s \in Structures} \cup MCTraced
    \cup Malformed \cup Numeric

MCAnnotations == {Num(FALSE, <<1, 5>>, 1)}

MCEvents ==
  {[graphId |-> gid, nodeId |-> n] : gid \in {Missing, g, h}, n \in {Missing, a, b, c}}
===============================================================================
