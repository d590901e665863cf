------------------------------ MODULE TsCanonical ------------------------------
(***************************************************************************)
(* The TypeScript spec package: canonical form, hash, derived joins and      *)
(* validation, over the documents of Canonical.                             *)
(***************************************************************************)
EXTENDS JsonText, Functions, TLC

\* compareText: the first difference decides, then the length.
CompareText(left, right) ==
  LET short == IF Len(left) < Len(right) THEN Len(left) ELSE Len(right)
      differ == {i \in 1 .. short : left[i] # right[i]}
  IN  IF differ = {} THEN Len(left) - Len(right)
      ELSE LET i == CHOOSE j \in differ : \A k \in differ : j <= k IN left[i] - right[i]

\* How many precede each in array.sort(), which is stable, by the order of the keys.
ByCompare(keys) ==
  Once([k \in DOMAIN keys |->
    Cardinality({j \in DOMAIN keys :
      LET order == CompareText(keys[j], keys[k]) IN order < 0 \/ (order = 0 /\ j < k)})])

SortText(texts) == Ordered(texts, ByCompare(texts))

\* JSON.stringify of a number: ECMA-262's Number::toString.
StringifyNumber(x) ==
  IF x.digits = << >> THEN <<48>>
                      ELSE (IF x.neg THEN <<Minus>> ELSE << >>) \o Body(x.digits, x.n)

\* serializeCanonical of a text, a number or an array of texts, of an element of a
\* structure, a structure, a graph and all graphs.
SerializeValue(key, value) ==
  IF key = "x" THEN StringifyNumber(value)
  ELSE IF key \in {"interrupts", "sources", "entryNodeIds", "exitNodeIds"}
         THEN ArrayText([i \in DOMAIN value |-> JsonText(value[i])])
  ELSE JsonText(value)

SerializeElement(r) == ObjectText([k \in DOMAIN r |-> SerializeValue(k, r[k])])

SerializeStructure(s) ==
  ObjectText([k \in DOMAIN s |->
    IF k \in {"nodes", "edges", "joins"}
      THEN ArrayText([i \in DOMAIN s[k] |-> SerializeElement(s[k][i])])
      ELSE SerializeValue(k, s[k])])

SerializeGraph(graph) ==
  ObjectText([k \in DOMAIN graph |->
    IF k = "structure" THEN SerializeStructure(graph[k]) ELSE SerializeValue(k, graph[k])])

SerializeGraphs(graphs) == ArrayText([g \in DOMAIN graphs |-> SerializeGraph(graphs[g])])

\* Mutant: a record's extension comes first.
SortKeyTextExtensionFirst(r) ==
  (IF "x" \in DOMAIN r THEN StringifyNumber(r.x) ELSE << >>) \o SerializeElement(r)

\* The key of an element of a structure.
SortKeyText(r) == SerializeElement(r)

\* array.sort(compareCanonical).
SortCanonical(records) ==
  Ordered(records, ByCompare(Once([i \in DOMAIN records |-> SortKeyText(records[i])])))

SortGraphs(graphs) ==
  Ordered(graphs, ByCompare(Once([g \in DOMAIN graphs |-> SerializeGraph(graphs[g])])))

-------------------------------------------------------------------------------
CanonicalGraph(graph) ==
  LET s == graph.structure
      sortedInterrupts(n) == IF "interrupts" \in DOMAIN n THEN [n EXCEPT !.interrupts = SortText(@)] ELSE n
  IN  [graph EXCEPT !.structure =
        [ nodes |-> SortCanonical([i \in DOMAIN s.nodes |-> sortedInterrupts(s.nodes[i])]),
          edges |-> SortCanonical(s.edges),
          joins |-> SortCanonical([i \in DOMAIN s.joins |-> [s.joins[i] EXCEPT !.sources = SortText(@)]]),
          entryNodeIds |-> SortText(s.entryNodeIds),
          exitNodeIds  |-> SortText(s.exitNodeIds) ]]

CanonicalizeDocument(doc) ==
  [doc EXCEPT !.graphs = SortGraphs(Once([g \in DOMAIN @ |-> CanonicalGraph(@[g])]))]

\* ordered: JSON.parse has made Infinity of a number out of range.
NotFinite(r) ==
  /\ "x" \in DOMAIN r /\ r.x.digits # << >>
  /\ \/ r.x.n > 309
     \/ r.x.n = 309 /\ CompareText(r.x.digits, LargestDigits) > 0

Refused(doc) ==
  \E g \in DOMAIN doc.graphs :
    \/ NotFinite(doc.graphs[g])
    \/ \E f \in {"nodes", "edges", "joins"} :
         \E i \in DOMAIN doc.graphs[g].structure[f] :
           NotFinite(doc.graphs[g].structure[f][i])

CanonicalStringify(doc) ==
  IF Refused(doc) THEN <<"TypeError">>
  ELSE <<SerializeGraphs(CanonicalizeDocument(doc).graphs),
         doc.status, doc.gaps>>

SelectFields(value, fields) == [f \in fields \cap DOMAIN value |-> value[f]]

ProjectStructureV1(graph) ==
  LET s == graph.structure
      select(records, fields) == [i \in DOMAIN records |-> SelectFields(records[i], fields)]
  IN  [ id |-> graph.id,
        structure |-> [ nodes |-> select(s.nodes, {"id", "type", "subgraphId", "interrupts"}),
                        edges |-> select(s.edges, {"id", "source", "target", "kind"}),
                        joins |-> select(s.joins, {"id", "sources", "target"}),
                        entryNodeIds |-> s.entryNodeIds,
                        exitNodeIds  |-> s.exitNodeIds ] ]

ComputeStructureHash(doc) ==
  LET graphs == CanonicalizeDocument(doc).graphs
  IN  IF Refused(doc) THEN <<"TypeError">>
      ELSE SerializeGraphs([g \in DOMAIN graphs |-> ProjectStructureV1(graphs[g])])

FinalizeDocument(doc) == <<ComputeStructureHash(doc), CanonicalStringify(doc)>>

JoinLinks(s) ==
  FlattenSeq([j \in DOMAIN s.joins |->
    LET join == s.joins[j]
    IN  [i \in DOMAIN join.sources |->
          [joinId |-> join.id, source |-> join.sources[i], target |-> join.target]]])

DerivedJoinEdges(s) ==
  LET links == JoinLinks(s) IN
  Ordered(links, [k \in DOMAIN links |->
    Cardinality({j \in DOMAIN links :
      LET byJoin == CompareText(links[j].joinId, links[k].joinId)
          order  == IF byJoin # 0 THEN byJoin ELSE CompareText(links[j].source, links[k].source)
      IN  order < 0 \/ (order = 0 /\ j < k)})])
===============================================================================
