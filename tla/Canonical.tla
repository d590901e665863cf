------------------------------- MODULE Canonical -------------------------------
(***************************************************************************)
(* The Python spec package: canonical form, structure hash, derived joins.  *)
(*                                                                         *)
(* A document is its arrays: [graphs, status, gaps], a graph [id, structure] *)
(* and possibly "name" and "x", a structure [nodes, edges, joins,            *)
(* entryNodeIds, exitNodeIds], and the elements records whose optional       *)
(* fields may be missing.  "x" stands for every extension and holds a        *)
(* number.  A text is its sequence of code points, none of which JSON        *)
(* escapes.  sha256 is taken to be injective: a hash is its payload.         *)
(***************************************************************************)
EXTENDS JsonText, Functions, TLC

TextLists   == {"entryNodeIds", "exitNodeIds", "interrupts", "sources"}
ObjectLists == {"edges", "joins", "nodes"}

\* Python's order on str.
Before(a, b) ==
  LET both   == IF Len(a) < Len(b) THEN Len(a) ELSE Len(b)
      differ == {i \in 1 .. both : a[i] # b[i]}
      first  == CHOOSE i \in differ : \A j \in differ : i <= j
  IN  IF differ = {} THEN Len(a) < Len(b) ELSE a[first] < b[first]

\* How many keys precede each of them in sorted(), which is stable.
ByText(keys) ==
  Once([k \in DOMAIN keys |->
    Cardinality({j \in DOMAIN keys :
      Before(keys[j], keys[k]) \/ (keys[j] = keys[k] /\ j < k)})])

Sorted(texts) == Ordered(texts, ByText(texts))

-------------------------------------------------------------------------------
\* JSON text with sorted keys; spelling is Repr or FormatNumber.
\* A text, a number or a list of texts.
EncodeValue(spelling, key, value) ==
  IF key = "x" THEN IF spelling = "repr" THEN Repr(value) ELSE FormatNumber(value)
  ELSE IF key \in TextLists THEN ArrayText([i \in DOMAIN value |-> JsonText(value[i])])
  ELSE JsonText(value)

EncodeElement(spelling, r) ==
  ObjectText([k \in DOMAIN r |-> EncodeValue(spelling, k, r[k])])

EncodeStructure(spelling, s) ==
  ObjectText([k \in DOMAIN s |->
    IF k \in ObjectLists
      THEN ArrayText([i \in DOMAIN s[k] |-> EncodeElement(spelling, s[k][i])])
      ELSE EncodeValue(spelling, k, s[k])])

EncodeGraph(spelling, graph) ==
  ObjectText([k \in DOMAIN graph |->
    IF k = "structure" THEN EncodeStructure(spelling, graph[k])
                       ELSE EncodeValue(spelling, k, graph[k])])

EncodeGraphs(spelling, graphs) ==
  ArrayText([g \in DOMAIN graphs |-> EncodeGraph(spelling, graphs[g])])

\* Mutant: elements are compared without their id.
SortKeyWithoutId(r) == EncodeElement("repr", Restrict(r, DOMAIN r \ {"id"}))

\* The key of an element of a structure.
SortKey(r) == EncodeElement("repr", r)

\* sorted(records, key=_sort_key).
ByKey(records) ==
  Ordered(records, ByText(Once([i \in DOMAIN records |-> SortKey(records[i])])))

GraphsByKey(graphs) ==
  Ordered(graphs, ByText(Once([g \in DOMAIN graphs |-> EncodeGraph("repr", graphs[g])])))

-------------------------------------------------------------------------------
\* The binary64 range.
OutOfRange(x) ==
  /\ x.digits # << >>
  /\ \/ x.n > 309
     \/ x.n = 309 /\ Before(LargestDigits, x.digits)

NumbersOf(doc) ==
  UNION {{r.x : r \in {s \in {doc.graphs[g]}
                              \cup UNION {ToSet(doc.graphs[g].structure[f]) :
                                            f \in {"nodes", "edges", "joins"}} :
                         "x" \in DOMAIN s}} : g \in DOMAIN doc.graphs}

\* Mutant: the sources of a join keep the order they were declared in.
CanonicalStructureSourcesKept(s) ==
  [ nodes |-> ByKey([i \in DOMAIN s.nodes |->
                IF "interrupts" \in DOMAIN s.nodes[i]
                  THEN [s.nodes[i] EXCEPT !.interrupts = Sorted(@)] ELSE s.nodes[i]]),
    edges |-> ByKey(s.edges),
    joins |-> ByKey(s.joins),
    entryNodeIds |-> Sorted(s.entryNodeIds),
    exitNodeIds  |-> Sorted(s.exitNodeIds) ]

CanonicalStructure(s) ==
  [ nodes |-> ByKey([i \in DOMAIN s.nodes |->
                IF "interrupts" \in DOMAIN s.nodes[i]
                  THEN [s.nodes[i] EXCEPT !.interrupts = Sorted(@)] ELSE s.nodes[i]]),
    edges |-> ByKey(s.edges),
    joins |-> ByKey([i \in DOMAIN s.joins |-> [s.joins[i] EXCEPT !.sources = Sorted(@)]]),
    entryNodeIds |-> Sorted(s.entryNodeIds),
    exitNodeIds  |-> Sorted(s.exitNodeIds) ]

\* canonicalize_document for a document whose numbers are in range.
Canonicalize(doc) ==
  LET graphs == [g \in DOMAIN doc.graphs |->
                   [doc.graphs[g] EXCEPT !.structure = CanonicalStructure(@)]]
  IN  [doc EXCEPT !.graphs = GraphsByKey(Once(graphs))]

NumberDomainError == <<"ValueError">>

CanonicalJson(doc) ==
  IF \E x \in NumbersOf(doc) : OutOfRange(x) THEN NumberDomainError
  ELSE <<EncodeGraphs("canonical", Canonicalize(doc).graphs), doc.status, doc.gaps>>

-------------------------------------------------------------------------------
SelectedFields(value, fields) == Restrict(value, fields \cap DOMAIN value)

StructureProjection(s) ==
  [ nodes |-> [i \in DOMAIN s.nodes |->
                 SelectedFields(s.nodes[i], {"id", "type", "subgraphId", "interrupts"})],
    edges |-> [i \in DOMAIN s.edges |->
                 SelectedFields(s.edges[i], {"id", "source", "target", "kind"})],
    joins |-> [i \in DOMAIN s.joins |-> SelectedFields(s.joins[i], {"id", "sources", "target"})],
    entryNodeIds |-> s.entryNodeIds,
    exitNodeIds  |-> s.exitNodeIds ]

\* compute_structure_hash of a document, at the one supported version.
ComputeStructureHash(doc) ==
  LET project(graph) == [id |-> graph.id, structure |-> StructureProjection(graph.structure)]
      graphs == Canonicalize(doc).graphs
  IN  IF \E x \in NumbersOf(doc) : OutOfRange(x) THEN NumberDomainError
      ELSE EncodeGraphs("repr", [g \in DOMAIN graphs |-> project(graphs[g])])

\* finalize_document: the hash and the canonical text it is stored in.
FinalizeDocument(doc) == <<ComputeStructureHash(doc), CanonicalJson(doc)>>

-------------------------------------------------------------------------------
JoinLinks(s) ==
  FlattenSeq([j \in DOMAIN s.joins |->
    [i \in DOMAIN s.joins[j].sources |->
       [joinId |-> s.joins[j].id, source |-> s.joins[j].sources[i], target |-> s.joins[j].target]]])

DerivedJoinEdges(s) ==
  LET links == JoinLinks(s) IN
  Ordered(links, [k \in DOMAIN links |->
    Cardinality({j \in DOMAIN links :
      LET l == links[j]
          r == links[k] IN
      \/ Before(l.joinId, r.joinId)
      \/ /\ l.joinId = r.joinId
         /\ Before(l.source, r.source) \/ (l.source = r.source /\ j < k)})])
===============================================================================
