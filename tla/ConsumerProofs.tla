----------------------------- MODULE ConsumerProofs -----------------------------
(***************************************************************************)
(* Proofs about Consumer and HashedDocument, for every document of the       *)
(* schema's shape, every rewriting and every trace: the validators of both   *)
(* packages agree, so do their canonical texts, hashes and derived joins,    *)
(* and the trace correlation concludes nothing without evidence.             *)
(***************************************************************************)
EXTENDS HashedDocument, Lemmas

-------------------------------------------------------------------------------
(* Documents keep their shape.                                              *)

LEMMA ArrayDomain ==
  ASSUME NEW s, Array(s)
  PROVE  Len(s) \in Nat /\ DOMAIN s = 1..Len(s)
BY LenProperties DEF Array

LEMMA MadeArray ==
  ASSUME NEW n \in Nat, NEW f, f = [i \in 1..n |-> f[i]]
  PROVE  Array(f)
<1>1. f \in [1..n -> ToSet(f)]
  BY DEF ToSet
<1>2. QED
  BY <1>1 DEF Array

LEMMA SwapKeepsArray ==
  ASSUME NEW s, Array(s), NEW i \in 1..Len(s) - 1
  PROVE  Array(Swapped(s, i)) /\ ToSet(Swapped(s, i)) \subseteq ToSet(s)
<1>1. /\ Len(s) \in Nat /\ DOMAIN s = 1..Len(s) /\ i \in DOMAIN s /\ i + 1 \in DOMAIN s
      /\ s = [j \in 1..Len(s) |-> s[j]]
  <2>1. s \in [1..Len(s) -> ToSet(s)]
    BY DEF Array
  <2>2. QED
    BY <2>1, ArrayDomain
<1>2. PICK t : t = Swapped(s, i)
  OBVIOUS
<1>3. /\ t = [j \in 1..Len(s) |-> t[j]]
      /\ \A j \in 1..Len(s) : t[j] \in {s[i], s[i + 1], s[j]}
  BY <1>1, <1>2 DEF Swapped
<1>4. Array(t)
  BY <1>1, <1>3, MadeArray
<1>5. ToSet(t) \subseteq ToSet(s)
  BY <1>1, <1>3 DEF ToSet
<1>6. QED
  BY <1>2, <1>4, <1>5

LEMMA ReplaceKeepsArray ==
  ASSUME NEW s, Array(s), NEW i \in DOMAIN s, NEW v
  PROVE  Array([s EXCEPT ![i] = v]) /\ ToSet([s EXCEPT ![i] = v]) \subseteq ToSet(s) \cup {v}
<1>1. Len(s) \in Nat /\ DOMAIN s = 1..Len(s) /\ s = [j \in 1..Len(s) |-> s[j]]
  <2>1. s \in [1..Len(s) -> ToSet(s)]
    BY DEF Array
  <2>2. QED
    BY <2>1, ArrayDomain
<1>2. PICK t : t = [s EXCEPT ![i] = v]
  OBVIOUS
<1>3. t = [j \in 1..Len(s) |-> t[j]] /\ \A j \in 1..Len(s) : t[j] \in {v, s[j]}
  BY <1>1, <1>2
<1>4. Array(t)
  BY <1>1, <1>3, MadeArray
<1>5. ToSet(t) \subseteq ToSet(s) \cup {v}
  BY <1>1, <1>3 DEF ToSet
<1>6. QED
  BY <1>2, <1>4, <1>5

\* What the shape demands of the members of a collection.
NodeOK(n) ==
  /\ "id" \in DOMAIN n /\ n.id \in Text
  /\ "subgraphId" \in DOMAIN n => n.subgraphId \in Text
  /\ "interrupts" \in DOMAIN n => Array(n.interrupts)

JoinOK(j) == {"id", "sources", "target"} \subseteq DOMAIN j /\ Array(j.sources)

\* A collection is replaced by one of the same kind.
LEMMA StructureWith ==
  ASSUME NEW s, IsStructure(s), NEW f \in Collections, NEW v, Array(v),
         f = "nodes" => \A n \in ToSet(v) : NodeOK(n),
         f = "edges" => \A e \in ToSet(v) : e \in ToSet(s.edges),
         f = "joins" => \A j \in ToSet(v) : JoinOK(j)
  PROVE  IsStructure([s EXCEPT ![f] = v])
<1>1. PICK t : t = [s EXCEPT ![f] = v]
  OBVIOUS
<1>2. DOMAIN t = DOMAIN s /\ \A k \in DOMAIN s : t[k] = IF k = f THEN v ELSE s[k]
  BY <1>1
<1>3. Collections \subseteq DOMAIN t /\ \A k \in Collections : Array(t[k])
  BY <1>2 DEF IsStructure
<1>4. \A n \in ToSet(t.nodes) : NodeOK(n)
  <2>1. t.nodes = v \/ t.nodes = s.nodes
    BY <1>2 DEF IsStructure, Collections
  <2>2. f # "nodes" => t.nodes = s.nodes
    BY <1>2 DEF IsStructure, Collections
  <2>3. QED
    BY <2>1, <2>2 DEF IsStructure, NodeOK
<1>5. \A e \in ToSet(t.edges) : e \in ToSet(s.edges)
  BY <1>2 DEF IsStructure, Collections
<1>6. \A j \in ToSet(t.joins) : JoinOK(j)
  <2>1. t.joins = v \/ t.joins = s.joins
    BY <1>2 DEF IsStructure, Collections
  <2>2. f # "joins" => t.joins = s.joins
    BY <1>2 DEF IsStructure, Collections
  <2>3. QED
    BY <2>1, <2>2 DEF IsStructure, JoinOK
<1>7. IsStructure(t)
  BY <1>3, <1>4, <1>5, <1>6 DEF IsStructure, NodeOK, JoinOK
<1>8. QED
  BY <1>1, <1>7

\* A structure is replaced by another.
LEMMA DocumentWith ==
  ASSUME NEW d, IsDocument(d), NEW g \in DOMAIN d.graphs, NEW s, IsStructure(s)
  PROVE  IsDocument([d EXCEPT !.graphs[g].structure = s])
<1>1. PICK graph : graph = [d.graphs[g] EXCEPT !.structure = s]
  OBVIOUS
<1>2. PICK graphs : graphs = [d.graphs EXCEPT ![g] = graph]
  OBVIOUS
<1>3. PICK t : t = [d EXCEPT !.graphs = graphs]
  OBVIOUS
<1>4. [d EXCEPT !.graphs[g].structure = s] = t
  BY <1>1, <1>2, <1>3
<1>5. d.graphs[g] \in ToSet(d.graphs) /\ Array(d.graphs)
  BY DEF ToSet, IsDocument
<1>6. {"id", "structure"} \subseteq DOMAIN graph /\ graph.id \in Text /\ graph.structure = s
  BY <1>1, <1>5 DEF IsDocument
<1>7. Array(graphs) /\ ToSet(graphs) \subseteq ToSet(d.graphs) \cup {graph}
  BY <1>2, <1>5, ReplaceKeepsArray
<1>8. /\ {"graphs", "status", "gaps"} \subseteq DOMAIN t
      /\ t.graphs = graphs /\ t.gaps = d.gaps
  BY <1>3 DEF IsDocument
<1>9. \A x \in ToSet(graphs) :
        {"id", "structure"} \subseteq DOMAIN x /\ x.id \in Text /\ IsStructure(x.structure)
  BY <1>6, <1>7 DEF IsDocument
<1>10. IsDocument(t)
  BY <1>7, <1>8, <1>9 DEF IsDocument
<1>11. QED
  BY <1>4, <1>10

LEMMA StructureOf ==
  ASSUME NEW d, IsDocument(d), NEW g \in DOMAIN d.graphs
  PROVE  IsStructure(d.graphs[g].structure)
BY DEF IsDocument, ToSet

LEMMA RestructureKeeps ==
  ASSUME IsDocument(document), NEW g \in DOMAIN document.graphs, NEW s, IsStructure(s),
         Restructure(g, s)
  PROVE  IsDocument(document)'
BY DocumentWith DEF Restructure

LEMMA SwapGraphsKeeps ==
  ASSUME IsDocument(document), SwapGraphs
  PROVE  IsDocument(document)'
<1>1. PICK i \in 1 .. Len(document.graphs) - 1 :
        document' = [document EXCEPT !.graphs = Swapped(document.graphs, i)]
  BY DEF SwapGraphs
<1>2. PICK graphs : graphs = Swapped(document.graphs, i)
  OBVIOUS
<1>3. Array(graphs) /\ ToSet(graphs) \subseteq ToSet(document.graphs)
  BY <1>2, SwapKeepsArray DEF IsDocument
<1>4. document' = [document EXCEPT !.graphs = graphs]
  BY <1>1, <1>2
<1>5. /\ {"graphs", "status", "gaps"} \subseteq DOMAIN document'
      /\ document'.graphs = graphs /\ document'.gaps = document.gaps
  BY <1>4 DEF IsDocument
<1>6. QED
  BY <1>3, <1>5 DEF IsDocument

LEMMA SwapMembersKeeps ==
  ASSUME IsDocument(document), SwapMembers
  PROVE  IsDocument(document)'
<1>1. PICK g \in DOMAIN document.graphs, f \in Collections :
        LET s == document.graphs[g].structure IN
        \E i \in 1 .. Len(s[f]) - 1 : Restructure(g, [s EXCEPT ![f] = Swapped(s[f], i)])
  BY DEF SwapMembers
<1>2. PICK s : s = document.graphs[g].structure
  OBVIOUS
<1>3. PICK i \in 1 .. Len(s[f]) - 1 : Restructure(g, [s EXCEPT ![f] = Swapped(s[f], i)])
  BY <1>1, <1>2
<1>4. IsStructure(s) /\ Array(s[f])
  BY <1>2, StructureOf DEF IsStructure
<1>5. PICK v : v = Swapped(s[f], i)
  OBVIOUS
<1>6. Array(v) /\ ToSet(v) \subseteq ToSet(s[f])
  BY <1>4, <1>5, SwapKeepsArray
<1>7. /\ f = "nodes" => \A n \in ToSet(v) : NodeOK(n)
      /\ f = "edges" => \A e \in ToSet(v) : e \in ToSet(s.edges)
      /\ f = "joins" => \A j \in ToSet(v) : JoinOK(j)
  BY <1>4, <1>6 DEF IsStructure, NodeOK, JoinOK
<1>8. IsStructure([s EXCEPT ![f] = v])
  BY <1>4, <1>6, <1>7, StructureWith
<1>9. QED
  BY <1>3, <1>5, <1>8, RestructureKeeps

LEMMA SwapSourcesKeeps ==
  ASSUME IsDocument(document), SwapSources
  PROVE  IsDocument(document)'
<1>1. PICK g \in DOMAIN document.graphs :
        LET s == document.graphs[g].structure IN
        \E j \in DOMAIN s.joins : \E i \in 1 .. Len(s.joins[j].sources) - 1 :
          Restructure(g, [s EXCEPT !.joins[j].sources = Swapped(@, i)])
  BY DEF SwapSources
<1>2. PICK s : s = document.graphs[g].structure
  OBVIOUS
<1>3. PICK j \in DOMAIN s.joins : \E i \in 1 .. Len(s.joins[j].sources) - 1 :
        Restructure(g, [s EXCEPT !.joins[j].sources = Swapped(s.joins[j].sources, i)])
  BY <1>1, <1>2
<1>4. PICK i \in 1 .. Len(s.joins[j].sources) - 1 :
        Restructure(g, [s EXCEPT !.joins[j].sources = Swapped(s.joins[j].sources, i)])
  BY <1>3
<1>5. IsStructure(s) /\ Array(s.joins) /\ s.joins[j] \in ToSet(s.joins) /\ "joins" \in Collections
  BY <1>2, StructureOf DEF IsStructure, ToSet, Collections
<1>6. JoinOK(s.joins[j])
  BY <1>5 DEF IsStructure, JoinOK
<1>7. PICK sources : sources = Swapped(s.joins[j].sources, i)
  OBVIOUS
<1>8. Array(sources)
  BY <1>6, <1>7, SwapKeepsArray DEF JoinOK
<1>9. PICK join : join = [s.joins[j] EXCEPT !.sources = sources]
  OBVIOUS
<1>10. JoinOK(join)
  BY <1>6, <1>8, <1>9 DEF JoinOK
<1>11. PICK joins : joins = [s.joins EXCEPT ![j] = join]
  OBVIOUS
<1>12. Array(joins) /\ \A x \in ToSet(joins) : JoinOK(x)
  BY <1>5, <1>10, <1>11, ReplaceKeepsArray DEF IsStructure, JoinOK
<1>13. IsStructure([s EXCEPT !["joins"] = joins])
  BY <1>5, <1>12, StructureWith
<1>14. Restructure(g, [s EXCEPT !["joins"] = joins])
  BY <1>4, <1>7, <1>9, <1>11
<1>15. QED
  BY <1>13, <1>14, RestructureKeeps, SMTT(60)

\* One node of a structure is replaced.
LEMMA NodeReplaced ==
  ASSUME NEW s, IsStructure(s), NEW n \in DOMAIN s.nodes, NEW v, NodeOK(v)
  PROVE  IsStructure([s EXCEPT !.nodes[n] = v])
<1>1. PICK nodes : nodes = [s.nodes EXCEPT ![n] = v]
  OBVIOUS
<1>2. Array(s.nodes) /\ "nodes" \in Collections
  BY DEF IsStructure, Collections
<1>3. Array(nodes) /\ \A x \in ToSet(nodes) : NodeOK(x)
  BY <1>1, <1>2, ReplaceKeepsArray DEF IsStructure, NodeOK
<1>4. IsStructure([s EXCEPT !["nodes"] = nodes])
  BY <1>2, <1>3, StructureWith
<1>5. QED
  BY <1>1, <1>4

LEMMA SwapInterruptsKeeps ==
  ASSUME IsDocument(document), SwapInterrupts
  PROVE  IsDocument(document)'
<1>1. PICK g \in DOMAIN document.graphs :
        LET s == document.graphs[g].structure IN
        \E n \in DOMAIN s.nodes :
          /\ "interrupts" \in DOMAIN s.nodes[n]
          /\ Len(s.nodes[n].interrupts) = 2
          /\ Restructure(g, [s EXCEPT !.nodes[n].interrupts = Swapped(@, 1)])
  BY DEF SwapInterrupts
<1>2. PICK s : s = document.graphs[g].structure
  OBVIOUS
<1>3. PICK n \in DOMAIN s.nodes :
        /\ "interrupts" \in DOMAIN s.nodes[n]
        /\ Len(s.nodes[n].interrupts) = 2
        /\ Restructure(g, [s EXCEPT !.nodes[n].interrupts = Swapped(s.nodes[n].interrupts, 1)])
  BY <1>1, <1>2
<1>4. IsStructure(s) /\ s.nodes[n] \in ToSet(s.nodes)
  BY <1>2, StructureOf DEF ToSet
<1>5. NodeOK(s.nodes[n])
  BY <1>4 DEF IsStructure, NodeOK
<1>6. PICK interrupts : interrupts = Swapped(s.nodes[n].interrupts, 1)
  OBVIOUS
<1>7. Array(interrupts)
  <2>1. 1 \in 1..Len(s.nodes[n].interrupts) - 1
    BY <1>3
  <2>2. QED
    BY <2>1, <1>3, <1>5, <1>6, SwapKeepsArray DEF NodeOK
<1>8. PICK v : v = [s.nodes[n] EXCEPT !.interrupts = interrupts]
  OBVIOUS
<1>9. NodeOK(v)
  BY <1>5, <1>7, <1>8 DEF NodeOK
<1>10. Restructure(g, [s EXCEPT !.nodes[n] = v])
  BY <1>3, <1>6, <1>8
<1>11. QED
  BY <1>4, <1>9, <1>10, NodeReplaced, RestructureKeeps, SMTT(60)

LEMMA AnnotateKeeps ==
  ASSUME IsDocument(document), Annotate
  PROVE  IsDocument(document)'
<1>1. PICK x \in Annotations, g \in DOMAIN document.graphs :
        LET s == document.graphs[g].structure IN
        \E n \in DOMAIN s.nodes : Restructure(g, [s EXCEPT !.nodes[n] = Annotated(@, x)])
  BY DEF Annotate
<1>2. PICK s : s = document.graphs[g].structure
  OBVIOUS
<1>3. PICK n \in DOMAIN s.nodes : Restructure(g, [s EXCEPT !.nodes[n] = Annotated(s.nodes[n], x)])
  BY <1>1, <1>2
<1>4. IsStructure(s) /\ s.nodes[n] \in ToSet(s.nodes)
  BY <1>2, StructureOf DEF ToSet
<1>5. NodeOK(s.nodes[n])
  BY <1>4 DEF IsStructure, NodeOK
<1>6. NodeOK(Annotated(s.nodes[n], x))
  BY <1>5 DEF NodeOK, Annotated
<1>7. QED
  BY <1>3, <1>4, <1>6, NodeReplaced, RestructureKeeps

LEMMA ShapeAlways == Spec => []IsDocument(document)
<1>1. Init => IsDocument(document)
  BY DocumentsAssumption DEF Init, ConsumerAssumption
<1>2. IsDocument(document) /\ [Next]_vars => IsDocument(document)'
  <2>1. IsDocument(document) /\ Observe => IsDocument(document)'
    BY DEF Observe
  <2>2. IsDocument(document) /\ UNCHANGED vars => IsDocument(document)'
    BY DEF vars
  <2>3. QED
    BY <2>1, <2>2, SwapGraphsKeeps, SwapMembersKeeps, SwapSourcesKeeps, SwapInterruptsKeeps,
       AnnotateKeeps DEF Next, Reorder
<1>3. QED
  BY <1>1, <1>2, PTL DEF Spec

-------------------------------------------------------------------------------
(* Validation reads an array as the set of its placed records.              *)

At(records, i) == [k \in DOMAIN records[i] \cup {"at"} |-> IF k = "at" THEN i ELSE records[i][k]]

LEMMA PlacedIs ==
  ASSUME NEW records
  PROVE  Placed(records) = {At(records, i) : i \in DOMAIN records}
BY DEF Placed, At

LEMMA AtFields ==
  ASSUME NEW records, NEW i \in DOMAIN records
  PROVE  /\ At(records, i).at = i
         /\ \A k \in DOMAIN records[i] : k # "at" => At(records, i)[k] = records[i][k]
BY DEF At

\* A field of placed records has the values it has in the array.
LEMMA SameIds ==
  ASSUME NEW records, \A r \in ToSet(records) : "id" \in DOMAIN r
  PROVE  {x.id : x \in Placed(records)} = ToSet(TsValidator!Ids(records))
<1>1. \A i \in DOMAIN records : At(records, i).id = records[i].id
  BY AtFields DEF ToSet
<1>2. DOMAIN TsValidator!Ids(records) = DOMAIN records
      /\ \A i \in DOMAIN records : TsValidator!Ids(records)[i] = records[i].id
  BY DEF TsValidator!Ids
<1>3. QED
  BY <1>1, <1>2, PlacedIs DEF ToSet

\* An id that occurs at two places is met again at the second.
LEMMA SameDuplicates ==
  ASSUME NEW records, Array(records), \A r \in ToSet(records) : "id" \in DOMAIN r
  PROVE  Py!Duplicates(Placed(records)) = TsValidator!DuplicateValues(TsValidator!Ids(records))
<1>1. \A i \in DOMAIN records : At(records, i).id = records[i].id /\ At(records, i).at = i
  BY AtFields DEF ToSet
<1>2. PICK ids : ids = TsValidator!Ids(records)
  OBVIOUS
<1>3. DOMAIN ids = DOMAIN records /\ \A i \in DOMAIN records : ids[i] = records[i].id
  BY <1>2 DEF TsValidator!Ids
<1>4. DOMAIN records = 1..Len(records) /\ Len(records) \in Nat
  BY ArrayDomain
<1>5. ASSUME NEW v \in Py!Duplicates(Placed(records))
      PROVE  v \in TsValidator!DuplicateValues(ids)
  <2>1. PICK y \in Placed(records), z \in Placed(records) : z # y /\ z.id = y.id /\ v = y.id
    BY DEF Py!Duplicates
  <2>2. PICK i \in DOMAIN records, j \in DOMAIN records : y = At(records, i) /\ z = At(records, j)
    BY <2>1, PlacedIs
  <2>3. i # j /\ records[i].id = v /\ records[j].id = v
    BY <1>1, <2>1, <2>2
  <2>4. i < j \/ j < i
    BY <1>4, <2>3
  <2>5. \E p \in DOMAIN ids : v = ids[p] /\ \E k \in 1..p - 1 : ids[k] = ids[p]
    BY <1>3, <1>4, <2>3, <2>4
  <2>6. QED
    BY <2>5 DEF TsValidator!DuplicateValues
<1>6. ASSUME NEW v \in TsValidator!DuplicateValues(ids)
      PROVE  v \in Py!Duplicates(Placed(records))
  <2>1. PICK j \in DOMAIN ids : v = ids[j] /\ \E k \in 1..j - 1 : ids[k] = ids[j]
    BY DEF TsValidator!DuplicateValues
  <2>2. PICK k \in DOMAIN ids : k # j /\ ids[k] = ids[j]
    BY <1>3, <1>4, <2>1
  <2>3. PICK y, z : y = At(records, j) /\ z = At(records, k)
    OBVIOUS
  <2>4. y \in Placed(records) /\ z \in Placed(records) /\ z # y /\ z.id = y.id /\ y.id = v
    BY <1>1, <1>3, <2>1, <2>2, <2>3, PlacedIs
  <2>5. QED
    BY <2>4 DEF Py!Duplicates
<1>7. QED
  BY <1>2, <1>5, <1>6

LEMMA SameEdgeEnds ==
  ASSUME NEW edges, \A e \in ToSet(edges) : {"id", "source", "target"} \subseteq DOMAIN e
  PROVE  /\ {e.source : e \in Placed(edges)} = {e.source : e \in ToSet(edges)}
         /\ {e.target : e \in Placed(edges)} = {e.target : e \in ToSet(edges)}
<1>1. \A i \in DOMAIN edges :
        At(edges, i).source = edges[i].source /\ At(edges, i).target = edges[i].target
  BY AtFields DEF ToSet
<1>2. QED
  BY <1>1, PlacedIs DEF ToSet

LEMMA SameJoinEnds ==
  ASSUME NEW joins, \A j \in ToSet(joins) : JoinOK(j)
  PROVE  /\ {j.target : j \in Placed(joins)} = {j.target : j \in ToSet(joins)}
         /\ {j.sources : j \in Placed(joins)} = {j.sources : j \in ToSet(joins)}
         /\ {<<j.id, j.sources>> : j \in Placed(joins)} = {<<j.id, j.sources>> : j \in ToSet(joins)}
<1>1. \A i \in DOMAIN joins : /\ At(joins, i).target = joins[i].target
                              /\ At(joins, i).sources = joins[i].sources
                              /\ At(joins, i).id = joins[i].id
  BY AtFields, SMTT(60) DEF ToSet, JoinOK
<1>2. QED
  BY <1>1, PlacedIs DEF ToSet

\* The structure of a graph as Validation reads it.
Read(s) ==
  [ nodes |-> Placed(s.nodes), edges |-> Placed(s.edges), joins |-> Placed(s.joins),
    entryNodeIds |-> ToSet(s.entryNodeIds), exitNodeIds |-> ToSet(s.exitNodeIds) ]

SubOf(s) == [n \in DOMAIN s.nodes |->
               IF "subgraphId" \in DOMAIN s.nodes[n] THEN s.nodes[n].subgraphId ELSE << >>]

LEMMA ReadFields ==
  ASSUME NEW d
  PROVE  /\ DOMAIN AsValidated(d).graphs = DOMAIN d.graphs
         /\ \A g \in DOMAIN d.graphs :
              /\ AsValidated(d).graphs[g].id = d.graphs[g].id
              /\ AsValidated(d).graphs[g].structure = Read(d.graphs[g].structure)
              /\ AsValidated(d).graphs[g].sub = SubOf(d.graphs[g].structure)
         /\ AsValidated(d).status = d.status
         /\ AsValidated(d).gaps = ToSet(d.gaps)
BY ZenonT(60) DEF AsValidated, Read, SubOf

LEMMA SameReferences ==
  ASSUME NEW s, IsStructure(s)
  PROVE  Py!NodeReferences(Read(s))
           = ToSet(s.entryNodeIds) \cup ToSet(s.exitNodeIds)
               \cup (UNION {{e.source, e.target} : e \in ToSet(s.edges)})
               \cup UNION {ToSet(j.sources) \cup {j.target} : j \in ToSet(s.joins)}
<1> DEFINE edges == Placed(s.edges)
           joins == Placed(s.joins)
<1>1. /\ {e.source : e \in edges} = {e.source : e \in ToSet(s.edges)}
      /\ {e.target : e \in edges} = {e.target : e \in ToSet(s.edges)}
  BY SameEdgeEnds DEF IsStructure
<1>2. /\ {j.target : j \in joins} = {j.target : j \in ToSet(s.joins)}
      /\ {j.sources : j \in joins} = {j.sources : j \in ToSet(s.joins)}
  BY SameJoinEnds DEF IsStructure, JoinOK
<1>3. Py!NodeReferences(Read(s))
        = {e.source : e \in edges} \cup {e.target : e \in edges} \cup {j.target : j \in joins}
            \cup ToSet(s.entryNodeIds) \cup ToSet(s.exitNodeIds)
            \cup UNION {ToSet(j.sources) : j \in joins}
  BY DEF Py!NodeReferences, Read, ToSet
<1> HIDE DEF edges, joins
<1>4. UNION {ToSet(j.sources) : j \in joins} = UNION {ToSet(j.sources) : j \in ToSet(s.joins)}
  <2>1. \A S : UNION {ToSet(j.sources) : j \in S} = UNION {ToSet(x) : x \in {j.sources : j \in S}}
    OBVIOUS
  <2>2. QED
    BY <2>1, <1>2
<1>5. \A E : {e.source : e \in E} \cup {e.target : e \in E} = UNION {{e.source, e.target} : e \in E}
  OBVIOUS
<1>6. \A J : {j.target : j \in J} \cup UNION {ToSet(j.sources) : j \in J}
               = UNION {ToSet(j.sources) \cup {j.target} : j \in J}
  OBVIOUS
<1>7. QED
  BY <1>1, <1>2, <1>3, <1>4, <1>5, <1>6

LEMMA SameGraphErrors ==
  ASSUME NEW d, IsDocument(d), NEW g \in DOMAIN d.graphs
  PROVE  Py!GraphErrors(AsValidated(d).graphs[g], ToSet(TsValidator!Ids(d.graphs)))
           = TsValidator!GraphIssues(d, d.graphs[g])
<1> DEFINE s == d.graphs[g].structure
           ids == ToSet(TsValidator!Ids(d.graphs))
<1>2. IsStructure(s)
  BY StructureOf
<1>3. /\ Py!Duplicates(Placed(s.nodes)) = TsValidator!DuplicateValues(TsValidator!Ids(s.nodes))
      /\ Py!Duplicates(Placed(s.edges)) = TsValidator!DuplicateValues(TsValidator!Ids(s.edges))
      /\ Py!Duplicates(Placed(s.joins)) = TsValidator!DuplicateValues(TsValidator!Ids(s.joins))
  BY <1>2, SameDuplicates DEF IsStructure, Collections
<1>4. Py!NodeIdsOf(Read(s)) = ToSet(TsValidator!Ids(s.nodes))
  BY <1>2, SameIds DEF IsStructure, Py!NodeIdsOf, Read
<1>5. {<<"unknown graph id", SubOf(s)[n]>> :
         n \in {m \in DOMAIN SubOf(s) : SubOf(s)[m] \notin ids \cup {<< >>}}}
        = {<<"unknown graph id", n.subgraphId>> :
             n \in {m \in ToSet(s.nodes) : "subgraphId" \in DOMAIN m /\ m.subgraphId \notin ids}}
  <2>1. DOMAIN SubOf(s) = DOMAIN s.nodes
    BY DEF SubOf
  <2>2. \A n \in DOMAIN s.nodes :
          IF "subgraphId" \in DOMAIN s.nodes[n]
            THEN SubOf(s)[n] = s.nodes[n].subgraphId /\ SubOf(s)[n] # << >>
            ELSE SubOf(s)[n] = << >>
    BY <1>2 DEF SubOf, IsStructure, ToSet, Text
  <2>3. QED
    BY <2>1, <2>2, ZenonT(60) DEF ToSet
<1>6. /\ AsValidated(d).graphs[g].structure = Read(s)
      /\ AsValidated(d).graphs[g].sub = SubOf(s)
  BY ReadFields
<1>7. Py!GraphErrors(AsValidated(d).graphs[g], ids)
        = {<<"duplicate", x>> : x \in Py!Duplicates(Placed(s.nodes))
              \cup Py!Duplicates(Placed(s.edges)) \cup Py!Duplicates(Placed(s.joins))}
            \cup {<<"unknown node id", n>> : n \in Py!NodeReferences(Read(s)) \ Py!NodeIdsOf(Read(s))}
            \cup {<<"unknown graph id", SubOf(s)[n]>> :
                    n \in {m \in DOMAIN SubOf(s) : SubOf(s)[m] \notin ids \cup {<< >>}}}
  BY <1>6 DEF Py!GraphErrors, Read
<1> DEFINE required == ToSet(s.entryNodeIds) \cup ToSet(s.exitNodeIds)
                         \cup (UNION {{e.source, e.target} : e \in ToSet(s.edges)})
                         \cup UNION {ToSet(j.sources) \cup {j.target} : j \in ToSet(s.joins)}
<1>8. TsValidator!GraphIssues(d, d.graphs[g])
        = {<<"duplicate", x>> : x \in TsValidator!DuplicateValues(TsValidator!Ids(s.nodes))
              \cup TsValidator!DuplicateValues(TsValidator!Ids(s.edges))
              \cup TsValidator!DuplicateValues(TsValidator!Ids(s.joins))}
            \cup {<<"unknown graph id", n.subgraphId>> :
                    n \in {m \in ToSet(s.nodes) :
                             "subgraphId" \in DOMAIN m /\ m.subgraphId \notin ids}}
            \cup {<<"unknown node id", r>> : r \in required \ ToSet(TsValidator!Ids(s.nodes))}
  BY DEF TsValidator!GraphIssues, TsValidator!ToSet, ToSet
<1>9. Py!NodeReferences(Read(s)) = required
  BY <1>2, SameReferences
<1>10. PICK left, right :
         /\ left = Py!GraphErrors(AsValidated(d).graphs[g], ids)
         /\ right = TsValidator!GraphIssues(d, d.graphs[g])
  OBVIOUS
<1> HIDE DEF required, s, ids
<1>11. left = right
  BY <1>3, <1>4, <1>5, <1>7, <1>8, <1>9, <1>10, ZenonT(60)
<1>12. QED
  BY <1>10, <1>11 DEF ids

\* The ids of the elements of one kind.
Elements(graph, kind) ==
  [ graph |-> {graph.id},
    node  |-> ToSet(TsValidator!Ids(graph.structure.nodes)),
    edge  |-> ToSet(TsValidator!Ids(graph.structure.edges)),
    join  |-> ToSet(TsValidator!Ids(graph.structure.joins)) ][kind]

\* Of graphs with one id the last one listed is looked up.
LEMMA LastOneListed ==
  ASSUME NEW d, IsDocument(d), NEW gid, gid \in ToSet(TsValidator!Ids(d.graphs))
  PROVE  \E i \in DOMAIN d.graphs :
           /\ d.graphs[i].id = gid
           /\ \A k \in DOMAIN d.graphs : d.graphs[k].id = gid => k <= i
           /\ \A kind : TsValidator!ElementIdsOf(d, gid, kind) = Elements(d.graphs[i], kind)
<1> DEFINE I == {k \in 1..Len(d.graphs) : d.graphs[k].id = gid}
<1>1. Len(d.graphs) \in Nat /\ DOMAIN d.graphs = 1..Len(d.graphs)
  BY ArrayDomain DEF IsDocument
<1>2. I # {}
  BY <1>1 DEF ToSet, TsValidator!Ids
<1>3. ASSUME NEW kind
      PROVE  TsValidator!ElementIdsOf(d, gid, kind)
               = Elements(d.graphs[IF I # {} THEN Max(I) ELSE 0], kind)
  BY DEF TsValidator!ElementIdsOf, TsValidator!SelectLastInSeq, TsValidator!Max, Max, Elements,
         TsValidator!ToSet, ToSet
<1>4. \E x \in I : \A y \in I : x >= y
  <2>1. I \in SUBSET (1..Len(d.graphs))
    OBVIOUS
  <2> HIDE DEF I
  <2>2. QED
    BY <1>1, <1>2, <2>1, GreatestElement
<1>5. Max(I) \in I /\ \A y \in I : Max(I) >= y
  <2> HIDE DEF I
  <2>1. QED
    BY <1>4 DEF Max
<1>6. PICK i : i = Max(I)
  OBVIOUS
<1>7. \A kind : TsValidator!ElementIdsOf(d, gid, kind) = Elements(d.graphs[i], kind)
  BY <1>2, <1>3, <1>6
<1>8. i \in DOMAIN d.graphs /\ d.graphs[i].id = gid
  BY <1>1, <1>5, <1>6
<1>9. \A k \in DOMAIN d.graphs : d.graphs[k].id = gid => k <= i
  BY <1>1, <1>5, <1>6
<1>10. QED
  BY <1>7, <1>8, <1>9

LEMMA SameElements ==
  ASSUME NEW d, IsDocument(d), NEW i \in DOMAIN d.graphs, NEW kind
  PROVE  Py!ElementIds(AsValidated(d).graphs[i], kind) = Elements(d.graphs[i], kind)
<1> DEFINE s == d.graphs[i].structure
<1>1. IsStructure(s)
  BY StructureOf
<1>2. /\ {x.id : x \in Placed(s.nodes)} = ToSet(TsValidator!Ids(s.nodes))
      /\ {x.id : x \in Placed(s.edges)} = ToSet(TsValidator!Ids(s.edges))
      /\ {x.id : x \in Placed(s.joins)} = ToSet(TsValidator!Ids(s.joins))
  BY <1>1, SameIds DEF IsStructure
<1>3. /\ AsValidated(d).graphs[i].id = d.graphs[i].id
      /\ AsValidated(d).graphs[i].structure = Read(s)
  BY ReadFields
<1>4. Py!ElementIds(AsValidated(d).graphs[i], kind)
        = [ graph |-> {d.graphs[i].id},
            node  |-> {x.id : x \in Placed(s.nodes)},
            edge  |-> {x.id : x \in Placed(s.edges)},
            join  |-> {x.id : x \in Placed(s.joins)} ][kind]
  BY <1>3 DEF Py!ElementIds, Py!NodeIdsOf, Read
<1>5. QED
  BY <1>2, <1>4 DEF Elements

LEMMA SameGapErrors ==
  ASSUME NEW d, IsDocument(d)
  PROVE  Py!GapErrors(AsValidated(d)) = TsValidator!GapIssues(d)
<1> DEFINE graphIds == ToSet(TsValidator!Ids(d.graphs))
           Lost(x) == ~\E i \in DOMAIN d.graphs :
                         /\ d.graphs[i].id = x.graphId
                         /\ \A k \in DOMAIN d.graphs : d.graphs[k].id = x.graphId => k <= i
                         /\ x.id \in Elements(d.graphs[i], x.kind)
           Missed(x) == \/ x.graphId \notin graphIds
                        \/ x.id \notin TsValidator!ElementIdsOf(d, x.graphId, x.kind)
<1>1. Py!GapErrors(AsValidated(d)) = {<<"unknown element", x>> : x \in {y \in ToSet(d.gaps) : Lost(y)}}
  <2> DEFINE graphs == AsValidated(d).graphs
             PyLost(x) == ~\E i \in DOMAIN graphs :
                             /\ graphs[i].id = x.graphId
                             /\ \A k \in DOMAIN graphs : graphs[k].id = x.graphId => k <= i
                             /\ x.id \in Py!ElementIds(graphs[i], x.kind)
  <2>1. Py!GapErrors(AsValidated(d))
          = {<<"unknown element", x>> : x \in {y \in AsValidated(d).gaps : PyLost(y)}}
    BY DEF Py!GapErrors
  <2>2. /\ DOMAIN graphs = DOMAIN d.graphs
        /\ \A i \in DOMAIN d.graphs : graphs[i].id = d.graphs[i].id
        /\ \A i \in DOMAIN d.graphs : \A kind :
              Py!ElementIds(graphs[i], kind) = Elements(d.graphs[i], kind)
    BY ReadFields, SameElements
  <2>3. AsValidated(d).gaps = ToSet(d.gaps)
    BY ReadFields
  <2> HIDE DEF graphs
  <2>4. ASSUME NEW x PROVE PyLost(x) <=> Lost(x)
    BY <2>2
  <2> HIDE DEF PyLost, Lost
  <2>5. QED
    BY <2>1, <2>3, <2>4, ZenonT(60)
<1>2. TsValidator!GapIssues(d) = {<<"unknown element", x>> : x \in {y \in ToSet(d.gaps) : Missed(y)}}
  BY DEF TsValidator!GapIssues, TsValidator!ToSet, ToSet
<1>3. ASSUME NEW x PROVE Lost(x) <=> Missed(x)
  <2>1. CASE x.graphId \notin graphIds
    BY <2>1 DEF ToSet, TsValidator!Ids
  <2>2. CASE x.graphId \in graphIds
    <3>1. PICK i \in DOMAIN d.graphs :
            /\ d.graphs[i].id = x.graphId
            /\ \A k \in DOMAIN d.graphs : d.graphs[k].id = x.graphId => k <= i
            /\ \A kind : TsValidator!ElementIdsOf(d, x.graphId, kind) = Elements(d.graphs[i], kind)
      BY <2>2, LastOneListed
    <3>2. Len(d.graphs) \in Nat /\ DOMAIN d.graphs = 1..Len(d.graphs)
      BY ArrayDomain DEF IsDocument
    <3>3. ASSUME NEW j \in DOMAIN d.graphs, d.graphs[j].id = x.graphId,
                 \A k \in DOMAIN d.graphs : d.graphs[k].id = x.graphId => k <= j
          PROVE  j = i
      BY <3>1, <3>2, <3>3
    <3> HIDE DEF graphIds
    <3>4. QED
      BY <2>2, <3>1, <3>3
  <2>3. QED
    BY <2>1, <2>2
<1> HIDE DEF Lost, Missed
<1>4. QED
  BY <1>1, <1>2, <1>3, ZenonT(60)

LEMMA SameGraphIds ==
  ASSUME NEW d, IsDocument(d)
  PROVE  /\ {AsValidated(d).graphs[i].id : i \in DOMAIN AsValidated(d).graphs}
             = ToSet(TsValidator!Ids(d.graphs))
         /\ Py!DuplicateGraphIds(AsValidated(d).graphs)
             = TsValidator!DuplicateValues(TsValidator!Ids(d.graphs))
<1>1. PICK ids : ids = TsValidator!Ids(d.graphs)
  OBVIOUS
<1>2. DOMAIN ids = DOMAIN d.graphs /\ \A i \in DOMAIN d.graphs : ids[i] = d.graphs[i].id
  BY <1>1 DEF TsValidator!Ids
<1>3. {AsValidated(d).graphs[i].id : i \in DOMAIN AsValidated(d).graphs} = ToSet(ids)
  BY <1>2, ReadFields DEF ToSet
<1>4. DOMAIN ids = 1..Len(d.graphs) /\ Len(d.graphs) \in Nat
  BY <1>2, ArrayDomain DEF IsDocument
<1>5. Py!DuplicateGraphIds(AsValidated(d).graphs)
        = {ids[i] : i \in {j \in DOMAIN ids : \E k \in DOMAIN ids : k # j /\ ids[k] = ids[j]}}
  BY <1>2, ReadFields DEF Py!DuplicateGraphIds
<1>6. ASSUME NEW j \in DOMAIN ids, NEW k \in DOMAIN ids, k # j, ids[k] = ids[j]
      PROVE  ids[j] \in TsValidator!DuplicateValues(ids)
  <2>1. k < j \/ j < k
    BY <1>4, <1>6
  <2>2. \E p \in DOMAIN ids : ids[j] = ids[p] /\ \E q \in 1..p - 1 : ids[q] = ids[p]
    BY <1>4, <1>6, <2>1
  <2>3. QED
    BY <2>2 DEF TsValidator!DuplicateValues
<1>7. ASSUME NEW v \in TsValidator!DuplicateValues(ids)
      PROVE  \E j \in DOMAIN ids : v = ids[j] /\ \E k \in DOMAIN ids : k # j /\ ids[k] = ids[j]
  <2>1. PICK j \in DOMAIN ids : v = ids[j] /\ \E k \in 1..j - 1 : ids[k] = ids[j]
    BY DEF TsValidator!DuplicateValues
  <2>2. QED
    BY <1>4, <2>1
<1>8. QED
  BY <1>1, <1>3, <1>5, <1>6, <1>7

LEMMA SameReferenceErrors ==
  ASSUME NEW d, IsDocument(d)
  PROVE  Py!ReferenceErrors(AsValidated(d)) = TsValidator!ReferenceIssues(d)
<1> DEFINE graphs == AsValidated(d).graphs
           ids == {graphs[i].id : i \in DOMAIN graphs}
           byPython == {Py!GraphErrors(graphs[i], ids) : i \in DOMAIN graphs}
           byTypeScript == {TsValidator!GraphIssues(d, d.graphs[g]) : g \in DOMAIN d.graphs}
           duplicated == TsValidator!DuplicateValues(TsValidator!Ids(d.graphs))
           expected == IF d.gaps = << >> THEN "complete" ELSE "incomplete"
           status == IF d.status = expected THEN {} ELSE {<<"status", d.status>>}
<1>1. byPython = byTypeScript
  <2>1. ids = ToSet(TsValidator!Ids(d.graphs)) /\ DOMAIN graphs = DOMAIN d.graphs
    BY SameGraphIds, ReadFields
  <2>2. \A g \in DOMAIN d.graphs :
          Py!GraphErrors(graphs[g], ids) = TsValidator!GraphIssues(d, d.graphs[g])
    BY <2>1, SameGraphErrors
  <2> HIDE DEF ids, graphs
  <2>3. QED
    BY <2>1, <2>2
<1>2. Py!StatusErrors(AsValidated(d)) = status
  <2>1. (ToSet(d.gaps) = {}) <=> (d.gaps = << >>)
    <3>1. Len(d.gaps) \in Nat /\ DOMAIN d.gaps = 1..Len(d.gaps) /\ d.gaps \in Seq(ToSet(d.gaps))
      BY ArrayDomain DEF IsDocument, Array
    <3>2. (d.gaps = << >>) <=> (Len(d.gaps) = 0)
      BY <3>1, EmptySeq
    <3>3. (Len(d.gaps) = 0) <=> (DOMAIN d.gaps = {})
      <4>1. \A n \in Nat : n # 0 => 1 \in 1..n
        OBVIOUS
      <4>2. 1..0 = {}
        OBVIOUS
      <4>3. QED
        BY <3>1, <4>1, <4>2
    <3>4. (DOMAIN d.gaps = {}) <=> (ToSet(d.gaps) = {})
      BY DEF ToSet
    <3>5. QED
      BY <3>2, <3>3, <3>4
  <2>2. QED
    BY <2>1, ReadFields DEF Py!StatusErrors
<1>3. Py!ReferenceErrors(AsValidated(d))
        = {<<"duplicate graph id", x>> : x \in Py!DuplicateGraphIds(graphs)}
            \cup Py!StatusErrors(AsValidated(d)) \cup Py!GapErrors(AsValidated(d))
            \cup UNION byPython
  BY DEF Py!ReferenceErrors
<1>4. TsValidator!ReferenceIssues(d)
        = {<<"duplicate graph id", x>> : x \in duplicated}
            \cup (UNION byTypeScript) \cup status \cup TsValidator!GapIssues(d)
  BY DEF TsValidator!ReferenceIssues
<1>5. Py!DuplicateGraphIds(graphs) = duplicated
  BY SameGraphIds
<1> HIDE DEF graphs, ids, byPython, byTypeScript, duplicated, expected, status
<1>6. QED
  BY <1>1, <1>2, <1>3, <1>4, <1>5, SameGapErrors, ZenonT(60)

LEMMA SameSchemaErrors ==
  ASSUME NEW d, IsDocument(d)
  PROVE  Py!JoinSchemaErrors(AsValidated(d)) = TsValidator!SchemaIssues(d)
<1> DEFINE Bad(sources) == \/ Len(sources) < 2
                           \/ \E p, q \in DOMAIN sources : p # q /\ sources[p] = sources[q]
           Wrong(pairs) == {<<"sources", x[1]>> : x \in {y \in pairs : Bad(y[2])}}
           PyPairs(g) == {<<j.id, j.sources>> : j \in AsValidated(d).graphs[g].structure.joins}
           TsPairs(g) == {<<j.id, j.sources>> : j \in ToSet(d.graphs[g].structure.joins)}
<1>1. ASSUME NEW joins
      PROVE  {<<"sources", j.id>> : j \in {x \in joins : Bad(x.sources)}}
               = Wrong({<<j.id, j.sources>> : j \in joins})
  <2>1. \A x, y : <<x, y>>[1] = x /\ <<x, y>>[2] = y
    OBVIOUS
  <2> HIDE DEF Bad
  <2>2. ASSUME NEW j \in joins, Bad(j.sources)
        PROVE  <<"sources", j.id>> \in Wrong({<<x.id, x.sources>> : x \in joins})
    <3>1. PICK pair : pair = <<j.id, j.sources>>
      OBVIOUS
    <3>2. pair[1] = j.id /\ Bad(pair[2]) /\ pair \in {<<x.id, x.sources>> : x \in joins}
      BY <2>1, <2>2, <3>1
    <3>3. QED
      BY <3>2
  <2>3. ASSUME NEW e \in Wrong({<<x.id, x.sources>> : x \in joins})
        PROVE  \E j \in joins : Bad(j.sources) /\ e = <<"sources", j.id>>
    <3>1. PICK pair \in {<<x.id, x.sources>> : x \in joins} :
            Bad(pair[2]) /\ e = <<"sources", pair[1]>>
      BY <2>3
    <3>2. PICK j \in joins : pair = <<j.id, j.sources>>
      BY <3>1
    <3>3. QED
      BY <3>1, <3>2, <2>1
  <2> HIDE DEF Wrong
  <2>4. QED
    BY <2>2, <2>3
<1>2. Py!JoinSchemaErrors(AsValidated(d))
        = UNION {Wrong(PyPairs(g)) : g \in DOMAIN AsValidated(d).graphs}
  <2>1. Py!JoinSchemaErrors(AsValidated(d))
          = UNION {{<<"sources", j.id>> :
                      j \in {x \in AsValidated(d).graphs[g].structure.joins : Bad(x.sources)}} :
                   g \in DOMAIN AsValidated(d).graphs}
    BY DEF Py!JoinSchemaErrors
  <2> HIDE DEF Bad, Wrong
  <2>2. QED
    BY <2>1, <1>1
<1>3. TsValidator!SchemaIssues(d) = UNION {Wrong(TsPairs(g)) : g \in DOMAIN d.graphs}
  <2>1. \A sources : (Len(sources) < 2 \/ ~TsValidator!IsInjective(sources)) <=> Bad(sources)
    BY DEF TsValidator!IsInjective
  <2>2. TsValidator!SchemaIssues(d)
          = UNION {{<<"sources", j.id>> :
                      j \in {x \in ToSet(d.graphs[g].structure.joins) :
                               Len(x.sources) < 2 \/ ~TsValidator!IsInjective(x.sources)}} :
                   g \in DOMAIN d.graphs}
    BY DEF TsValidator!SchemaIssues, TsValidator!ToSet, ToSet
  <2> HIDE DEF Bad, Wrong
  <2>3. ASSUME NEW joins
        PROVE  {<<"sources", j.id>> :
                  j \in {x \in joins : Len(x.sources) < 2 \/ ~TsValidator!IsInjective(x.sources)}}
                 = Wrong({<<j.id, j.sources>> : j \in joins})
    <3>1. {x \in joins : Len(x.sources) < 2 \/ ~TsValidator!IsInjective(x.sources)}
            = {x \in joins : Bad(x.sources)}
      BY <2>1
    <3>2. QED
      BY <3>1, <1>1
  <2>4. QED
    BY <2>2, <2>3
<1>4. ASSUME NEW g \in DOMAIN d.graphs PROVE PyPairs(g) = TsPairs(g)
  <2>1. IsStructure(d.graphs[g].structure)
    BY StructureOf
  <2>2. AsValidated(d).graphs[g].structure.joins = Placed(d.graphs[g].structure.joins)
    <3>1. AsValidated(d).graphs[g].structure = Read(d.graphs[g].structure)
      BY ReadFields
    <3>2. QED
      BY <3>1 DEF Read
  <2>3. QED
    BY <2>1, <2>2, SameJoinEnds DEF IsStructure, JoinOK
<1>5. DOMAIN AsValidated(d).graphs = DOMAIN d.graphs
  BY ReadFields
<1> HIDE DEF Wrong, PyPairs, TsPairs
<1>6. QED
  BY <1>2, <1>3, <1>4, <1>5

\* For every document of the schema's shape, however it was rewritten, the two
\* validators find the same things wrong.
THEOREM SameVerdict == Spec => []ValidatorsAgree
<1>1. IsDocument(document) => ValidatorsAgree
  BY SameSchemaErrors, SameReferenceErrors
     DEF ValidatorsAgree, Py!ValidateDocument, TsValidator!ValidateDocument
<1>2. QED
  BY <1>1, ShapeAlways, PTL

-------------------------------------------------------------------------------
(* Traces.                                                                  *)

\* In a document that the validator accepts a reference stands at one place.
LEMMA ReferencesAreUnique ==
  ASSUME NEW d, IsDocument(d), Accepted(d),
         NEW p \in Places(d), NEW q \in Places(d), Reference(d, p) = Reference(d, q)
  PROVE  p = q
<1> DEFINE graphs == AsValidated(d).graphs
           ids == {graphs[i].id : i \in DOMAIN graphs}
<1>1. Py!ReferenceErrors(AsValidated(d)) = {}
  BY DEF Accepted, Py!ValidateDocument
<1>2. Py!DuplicateGraphIds(graphs) = {} /\ \A i \in DOMAIN graphs : Py!GraphErrors(graphs[i], ids) = {}
  BY <1>1, ZenonT(60) DEF Py!ReferenceErrors
<1>3. PICK g, n, h, m : /\ p = <<g, n>> /\ g \in DOMAIN d.graphs
                        /\ n \in DOMAIN d.graphs[g].structure.nodes
                        /\ q = <<h, m>> /\ h \in DOMAIN d.graphs
                        /\ m \in DOMAIN d.graphs[h].structure.nodes
  BY DEF Places
<1>4. /\ d.graphs[g].id = d.graphs[h].id
      /\ d.graphs[g].structure.nodes[n].id = d.graphs[h].structure.nodes[m].id
  BY <1>3 DEF Reference
<1>5. g = h
  <2>1. DOMAIN graphs = DOMAIN d.graphs /\ graphs[g].id = graphs[h].id
    BY <1>3, <1>4, ReadFields
  <2> HIDE DEF graphs
  <2>2. QED
    BY <1>2, <1>3, <2>1 DEF Py!DuplicateGraphIds
<1>6. n = m
  <2> DEFINE nodes == d.graphs[g].structure.nodes
  <2>1. graphs[g].structure = Read(d.graphs[g].structure) /\ DOMAIN graphs = DOMAIN d.graphs
    BY <1>3, ReadFields
  <2>2. graphs[g].structure.nodes = Placed(nodes)
    BY <2>1 DEF Read
  <2>3. Py!Duplicates(graphs[g].structure.nodes) = {}
    <3> HIDE DEF graphs, ids
    <3>1. Py!GraphErrors(graphs[g], ids) = {}
      BY <1>2, <1>3, <2>1
    <3>2. QED
      BY <3>1, ZenonT(60) DEF Py!GraphErrors
  <2>4. \A i \in DOMAIN nodes : At(nodes, i).id = nodes[i].id /\ At(nodes, i).at = i
    BY <1>3, StructureOf, AtFields DEF IsStructure, ToSet
  <2>5. PICK y, z : y = At(nodes, n) /\ z = At(nodes, m)
    OBVIOUS
  <2>6. /\ n \in DOMAIN nodes /\ m \in DOMAIN nodes /\ nodes[n].id = nodes[m].id
    BY <1>3, <1>4, <1>5
  <2>7. y \in Placed(nodes) /\ z \in Placed(nodes) /\ y.id = z.id /\ y.at = n /\ z.at = m
    BY <2>4, <2>5, <2>6, PlacedIs
  <2> HIDE DEF graphs, nodes
  <2>8. y = z
    BY <2>2, <2>3, <2>7 DEF Py!Duplicates
  <2>9. QED
    BY <2>7, <2>8
<1>7. QED
  BY <1>3, <1>5, <1>6

LEMMA ReferenceFields ==
  ASSUME NEW d, IsDocument(d), NEW p \in Places(d)
  PROVE  /\ Reference(d, p) = <<Reference(d, p)[1], Reference(d, p)[2]>>
         /\ Reference(d, p)[1] # Missing /\ Reference(d, p)[2] # Missing
<1>1. PICK g, n : p = <<g, n>> /\ g \in DOMAIN d.graphs /\ n \in DOMAIN d.graphs[g].structure.nodes
  BY DEF Places
<1>2. Reference(d, p) = <<d.graphs[g].id, d.graphs[g].structure.nodes[n].id>>
  BY <1>1 DEF Reference
<1>3. d.graphs[g].id \in Text
  BY <1>1 DEF IsDocument, ToSet
<1>4. d.graphs[g].structure.nodes[n].id \in Text
  BY <1>1, StructureOf DEF IsStructure, ToSet
<1>5. QED
  BY <1>2, <1>3, <1>4, DocumentsAssumption DEF ConsumerAssumption

\* What one event says: it is matched with the only reference it could be about, and
\* otherwise all it could be about are in doubt.
LEMMA Correlated ==
  ASSUME NEW d, IsDocument(d), Accepted(d), NEW e, NEW r \in References(d)
  PROVE  LET x == CorrelateEvent(d, e)
             isMatched == x.status = "matched" /\ x.match = r
         IN  /\ isMatched <=> \A q \in References(d) : CouldBe(e, q) <=> q = r
             /\ CouldBe(e, r) <=> isMatched \/ r \in x.candidates
<1> DEFINE x == CorrelateEvent(d, e)
           candidates == ByNodeId(d, e.nodeId)
           exact == <<e.graphId, e.nodeId>>
           isMatched == x.status = "matched" /\ x.match = r
           Only == \A q \in References(d) : CouldBe(e, q) <=> q = r
<1>1. \A q \in References(d) : q = <<q[1], q[2]>> /\ q[1] # Missing /\ q[2] # Missing
  BY ReferenceFields DEF References
<1>2. CASE e.nodeId = Missing
  <2>1. x = [status |-> "insufficient", match |-> Missing, candidates |-> {}]
    BY <1>2 DEF CorrelateEvent, Unmatched
  <2>2. \A q \in References(d) : ~CouldBe(e, q)
    BY <1>1, <1>2 DEF CouldBe
  <2> HIDE DEF x
  <2>3. QED
    BY <2>1, <2>2 DEF x
<1>3. CASE e.nodeId # Missing /\ e.graphId # Missing
  <2>1. x = IF exact \in References(d) THEN Matched(exact) ELSE Unmatched("unmatched")
    BY <1>3 DEF CorrelateEvent
  <2>2. \A q \in References(d) : CouldBe(e, q) <=> q = exact
    BY <1>1, <1>3 DEF CouldBe
  <2>3. x.candidates = {} /\ (isMatched <=> exact \in References(d) /\ exact = r)
    <3> HIDE DEF exact
    <3>1. QED
      BY <2>1 DEF Matched, Unmatched
  <2> HIDE DEF x, isMatched, exact
  <2>4. QED
    BY <2>2, <2>3 DEF x, isMatched
<1>4. CASE e.nodeId # Missing /\ e.graphId = Missing
  <2>1. x = IF candidates = {} THEN Unmatched("unmatched")
            ELSE IF \E p \in candidates : candidates = {p}
                   THEN Matched(Reference(d, CHOOSE p \in candidates : TRUE))
            ELSE [status |-> "ambiguous", match |-> Missing,
                  candidates |-> {Reference(d, p) : p \in candidates}]
    BY <1>4 DEF CorrelateEvent
  <2>2. \A q \in References(d) : CouldBe(e, q) <=> q[2] = e.nodeId
    BY <1>4 DEF CouldBe
  <2>3. candidates = {p \in Places(d) : Reference(d, p)[2] = e.nodeId}
    BY DEF ByNodeId
  <2>4. PICK place \in Places(d) : r = Reference(d, place)
    BY DEF References
  <2> HIDE DEF x, candidates
  <2>5. CASE candidates = {}
    <3>1. x.candidates = {} /\ x.status # "matched"
      BY <2>1, <2>5 DEF Unmatched
    <3>2. ~CouldBe(e, r)
      BY <2>2, <2>3, <2>4, <2>5
    <3>3. QED
      BY <3>1, <3>2 DEF x
  <2>6. ASSUME NEW p \in candidates, candidates = {p}
        PROVE  /\ isMatched <=> Only
               /\ CouldBe(e, r) <=> isMatched \/ r \in x.candidates
    <3>1. (CHOOSE y \in candidates : TRUE) = p
      BY <2>6
    <3>2. x = Matched(Reference(d, p))
      BY <2>1, <2>6, <3>1
    <3>3. x.candidates = {} /\ (isMatched <=> r = Reference(d, p))
      BY <3>2 DEF Matched
    <3>4. \A q \in References(d) : CouldBe(e, q) <=> q = Reference(d, p)
      BY <2>2, <2>3, <2>6 DEF References
    <3> HIDE DEF isMatched
    <3>5. QED
      BY <3>3, <3>4
  <2>7. CASE candidates # {} /\ ~\E p \in candidates : candidates = {p}
    <3>1. x = [status |-> "ambiguous", match |-> Missing,
               candidates |-> {Reference(d, p) : p \in candidates}]
      BY <2>1, <2>7
    <3>2. ~isMatched /\ x.candidates = {Reference(d, p) : p \in candidates}
      BY <3>1
    <3>3. CouldBe(e, r) <=> r \in {Reference(d, p) : p \in candidates}
      BY <2>2, <2>3, <2>4
    <3>4. ~Only
      <4> SUFFICES ASSUME Only PROVE FALSE
        OBVIOUS
      <4>1. place \in candidates
        BY <2>2, <2>3, <2>4
      <4>2. ASSUME NEW p \in candidates PROVE p = place
        <5>1. p \in Places(d) /\ Reference(d, p) \in References(d) /\ Reference(d, p)[2] = e.nodeId
          BY <2>3 DEF References
        <5>2. Reference(d, p) = r
          BY <2>2, <5>1
        <5>3. QED
          BY <2>4, <5>1, <5>2, ReferencesAreUnique
      <4>3. candidates = {place}
        BY <4>1, <4>2
      <4>4. QED
        BY <2>7, <4>1, <4>3
    <3> HIDE DEF isMatched, Only
    <3>5. QED
      BY <3>2, <3>3, <3>4 DEF x, isMatched, Only
  <2>8. QED
    BY <2>5, <2>6, <2>7 DEF x
<1>5. QED
  BY <1>2, <1>3, <1>4

\* For every document the validator accepts and every trace: a node is absent only
\* when no event could be about it and its graph has no gap, and observed only by an
\* event that could be about no other.
THEOREM AbsenceIsEarned == Spec => []AbsenceNeedsEvidence
<1>1. IsDocument(document) => AbsenceNeedsEvidence
  <2> SUFFICES ASSUME IsDocument(document), Accepted(document), NEW r \in References(document)
               PROVE  LET elements == TopologyElements(document, trace) IN
                      /\ elements[r].confidence = "absent" <=>
                           /\ \A e \in ToSet(trace) : ~CouldBe(e, r)
                           /\ \A gap \in ToSet(document.gaps) : gap.graphId # r[1]
                      /\ elements[r].status = "observed" <=>
                           \E e \in ToSet(trace) :
                             \A q \in DOMAIN elements : CouldBe(e, q) <=> q = r
    BY DEF AbsenceNeedsEvidence, TopologyElements
  <2> DEFINE elements == TopologyElements(document, trace)
             Event(e) == CorrelateEvent(document, e)
             matched == {x.match : x \in {y \in {Event(trace[e]) : e \in DOMAIN trace} :
                                            y.status = "matched"}}
             doubtful == UNION {x.candidates : x \in {Event(trace[e]) : e \in DOMAIN trace}}
             gapped == {gap.graphId : gap \in ToSet(document.gaps)}
  <2>1. /\ DOMAIN elements = References(document)
        /\ elements[r].status = IF r \in matched THEN "observed" ELSE "unobserved"
        /\ elements[r].confidence =
             IF r \in doubtful \/ (r \notin matched /\ r[1] \in gapped) THEN "insufficient"
             ELSE IF r \notin matched THEN "absent" ELSE "none"
    BY DEF TopologyElements
  <2>2. r \in matched <=> \E e \in ToSet(trace) : Event(e).status = "matched" /\ Event(e).match = r
    BY DEF ToSet
  <2>3. r \in doubtful <=> \E e \in ToSet(trace) : r \in Event(e).candidates
    BY DEF ToSet
  <2> HIDE DEF elements, matched, doubtful
  <2>4. \A e : /\ (Event(e).status = "matched" /\ Event(e).match = r)
                    <=> \A q \in References(document) : CouldBe(e, q) <=> q = r
               /\ CouldBe(e, r) <=> \/ Event(e).status = "matched" /\ Event(e).match = r
                                    \/ r \in Event(e).candidates
    BY Correlated
  <2> HIDE DEF Event
  <2>5. (r \in matched \/ r \in doubtful) <=> \E e \in ToSet(trace) : CouldBe(e, r)
    BY <2>2, <2>3, <2>4
  <2>6. elements[r].confidence = "absent" <=>
          r \notin doubtful /\ r \notin matched /\ r[1] \notin gapped
    BY <2>1
  <2>7. elements[r].status = "observed" <=>
          \E e \in ToSet(trace) : \A q \in DOMAIN elements : CouldBe(e, q) <=> q = r
    BY <2>1, <2>2, <2>4
  <2>8. elements[r].confidence = "absent" <=>
          /\ \A e \in ToSet(trace) : ~CouldBe(e, r)
          /\ \A gap \in ToSet(document.gaps) : gap.graphId # r[1]
    BY <2>5, <2>6
  <2>9. QED
    BY <2>7, <2>8 DEF elements
<1>2. QED
  BY <1>1, ShapeAlways, PTL

-------------------------------------------------------------------------------
(* The order of texts.                                                       *)

\* a is before b at position i, and nowhere earlier do they differ.
LessAt(a, b, i) ==
  /\ i \in 1..Len(b) /\ i - 1 <= Len(a)
  /\ \A j \in 1..i - 1 : a[j] = b[j]
  /\ i <= Len(a) => a[i] < b[i]

Less(a, b) == \E i \in Nat : LessAt(a, b, i)

\* The positions both texts have, those where they differ, and the first of these.
Shared(a, b) == IF Len(a) < Len(b) THEN Len(a) ELSE Len(b)
Differ(a, b) == {i \in 1..Shared(a, b) : a[i] # b[i]}
FirstOf(I)   == CHOOSE i \in I : \A j \in I : i <= j

LEMMA FirstDifference ==
  ASSUME NEW a \in Seq(Nat), NEW b \in Seq(Nat)
  PROVE  LET n == Shared(a, b)
             m == FirstOf(Differ(a, b))
         IN  /\ n \in Nat /\ n <= Len(a) /\ n <= Len(b) /\ (n = Len(a) \/ n = Len(b))
             /\ Len(a) \in Nat /\ Len(b) \in Nat
             /\ Differ(a, b) = {} => \A i \in 1..n : a[i] = b[i]
             /\ Differ(a, b) # {} => /\ m \in 1..n /\ a[m] # b[m]
                                     /\ a[m] \in Nat /\ b[m] \in Nat
                                     /\ \A j \in 1..m - 1 : a[j] = b[j]
<1> DEFINE n == Shared(a, b)
           differ == Differ(a, b)
           m == FirstOf(differ)
<1>1. Len(a) \in Nat /\ Len(b) \in Nat
  OBVIOUS
<1>2. n \in Nat /\ n <= Len(a) /\ n <= Len(b) /\ (n = Len(a) \/ n = Len(b))
  BY <1>1 DEF Shared
<1>3. differ = {i \in 1..n : a[i] # b[i]}
  BY DEF Differ
<1> HIDE DEF n, differ
<1>4. ASSUME differ # {} PROVE m \in differ /\ \A j \in differ : m <= j
  <2>1. differ \in SUBSET Nat
    BY <1>2, <1>3
  <2>2. \E i \in differ : \A j \in differ : i <= j
    BY <1>4, <2>1, LeastElement
  <2>3. QED
    BY <2>2 DEF FirstOf
<1> HIDE DEF m
<1>5. ASSUME differ # {} PROVE m \in 1..n /\ a[m] # b[m] /\ a[m] \in Nat /\ b[m] \in Nat
  <2>1. m \in 1..n /\ a[m] # b[m]
    BY <1>3, <1>4, <1>5
  <2>2. m \in 1..Len(a) /\ m \in 1..Len(b)
    BY <1>1, <1>2, <2>1
  <2>3. QED
    BY <2>1, <2>2
<1>6. ASSUME differ # {}, NEW j \in 1..m - 1 PROVE a[j] = b[j]
  <2>1. m \in 1..n
    BY <1>5, <1>6
  <2>2. j \in 1..n /\ ~(m <= j)
    BY <1>2, <2>1, <1>6
  <2>3. j \notin differ
    BY <1>4, <1>6, <2>2
  <2>4. QED
    BY <1>3, <2>2, <2>3
<1>7. differ = {} => \A i \in 1..n : a[i] = b[i]
  BY <1>3
<1>8. QED
  BY <1>1, <1>2, <1>5, <1>6, <1>7 DEF n, m, differ

\* Python's order.
LEMMA BeforeIsLess ==
  ASSUME NEW a \in Seq(Nat), NEW b \in Seq(Nat)
  PROVE  Before(a, b) <=> Less(a, b)
<1> DEFINE n == Shared(a, b)
           differ == Differ(a, b)
           m == FirstOf(differ)
<1>1. Before(a, b) <=> IF differ = {} THEN Len(a) < Len(b) ELSE a[m] < b[m]
  BY DEF Before, Shared, Differ, FirstOf
<1>2. /\ n \in Nat /\ n <= Len(a) /\ n <= Len(b) /\ (n = Len(a) \/ n = Len(b))
      /\ Len(a) \in Nat /\ Len(b) \in Nat
      /\ differ = {} => \A i \in 1..n : a[i] = b[i]
      /\ differ # {} => /\ m \in 1..n /\ a[m] # b[m] /\ a[m] \in Nat /\ b[m] \in Nat
                        /\ \A j \in 1..m - 1 : a[j] = b[j]
  BY FirstDifference
<1> HIDE DEF n, differ, m
<1>3. CASE differ = {}
  <2>1. ASSUME Len(a) < Len(b) PROVE Less(a, b)
    <3>1. LessAt(a, b, Len(a) + 1)
      BY <1>2, <1>3, <2>1 DEF LessAt
    <3>2. QED
      BY <1>2, <3>1 DEF Less
  <2>2. ASSUME NEW i \in Nat, LessAt(a, b, i) PROVE Len(a) < Len(b)
    <3>1. i <= Len(a) /\ i <= Len(b) => a[i] = b[i] /\ a[i] \in Nat
      BY <1>2, <1>3, <2>2 DEF LessAt
    <3>2. i > Len(a) /\ i <= Len(b)
      BY <1>2, <2>2, <3>1 DEF LessAt
    <3>3. QED
      BY <1>2, <3>2
  <2>3. QED
    BY <1>1, <1>3, <2>1, <2>2 DEF Less
<1>4. CASE differ # {}
  <2>1. ASSUME a[m] < b[m] PROVE Less(a, b)
    <3>1. LessAt(a, b, m)
      BY <1>2, <1>4, <2>1, SMTT(60) DEF LessAt
    <3>2. QED
      BY <1>2, <1>4, <3>1 DEF Less
  <2>2. ASSUME NEW i \in Nat, LessAt(a, b, i) PROVE a[m] < b[m]
    <3>1. i >= m
      <4>1. m \in 1..n /\ n \in Nat /\ n <= Len(a) /\ n <= Len(b) /\ i \in 1..Len(b)
        BY <1>2, <1>4, <2>2 DEF LessAt
      <4>2. SUFFICES ASSUME i < m PROVE FALSE
        BY <4>1
      <4>3. i \in 1..m - 1 /\ i <= Len(a)
        BY <1>2, <4>1, <4>2
      <4>4. a[i] = b[i] /\ a[i] < b[i]
        BY <1>2, <1>4, <2>2, <4>3 DEF LessAt
      <4>5. b[i] \in Nat
        BY <4>1
      <4>6. QED
        BY <4>4, <4>5
    <3>2. ~(i > m)
      BY <1>2, <1>4, <2>2, SMTT(60) DEF LessAt
    <3>3. i = m /\ i <= Len(a)
      BY <1>2, <1>4, <2>2, <3>1, <3>2
    <3>4. QED
      BY <2>2, <3>3 DEF LessAt
  <2>3. QED
    BY <1>1, <1>4, <2>1, <2>2 DEF Less
<1>5. QED
  BY <1>3, <1>4

LEMMA LessTransitive ==
  ASSUME NEW a \in Seq(Nat), NEW b \in Seq(Nat), NEW c \in Seq(Nat), Less(a, b), Less(b, c)
  PROVE  Less(a, c)
<1>1. PICK i \in Nat : LessAt(a, b, i)
  BY DEF Less
<1>2. PICK k \in Nat : LessAt(b, c, k)
  BY DEF Less
<1>3. Len(a) \in Nat /\ Len(b) \in Nat /\ Len(c) \in Nat
  OBVIOUS
<1>4. CASE i <= k
  <2>1. i \in 1..Len(c) /\ i - 1 <= Len(a)
    BY <1>1, <1>2, <1>3, <1>4 DEF LessAt
  <2>2. \A j \in 1..i - 1 : a[j] = c[j]
    BY <1>1, <1>2, <1>3, <1>4 DEF LessAt
  <2>3. ASSUME i <= Len(a) PROVE a[i] < c[i]
    <3>1. i \in 1..Len(a) /\ i \in 1..Len(b) /\ i \in 1..Len(c)
      BY <1>1, <1>3, <2>1, <2>3 DEF LessAt
    <3>2. a[i] \in Nat /\ b[i] \in Nat /\ c[i] \in Nat
      BY <3>1, SMTT(60)
    <3>3. a[i] < b[i]
      BY <1>1, <2>3 DEF LessAt
    <3>4. b[i] = c[i] \/ b[i] < c[i]
      BY <1>2, <1>3, <1>4, <3>1 DEF LessAt
    <3>5. QED
      BY <3>2, <3>3, <3>4
  <2>4. QED
    BY <2>1, <2>2, <2>3 DEF Less, LessAt
<1>5. CASE k < i
  <2>1. k \in 1..Len(c) /\ k - 1 <= Len(a)
    BY <1>1, <1>2, <1>3, <1>5 DEF LessAt
  <2>2. \A j \in 1..k - 1 : a[j] = c[j]
    BY <1>1, <1>2, <1>3, <1>5 DEF LessAt
  <2>3. ASSUME k <= Len(a) PROVE a[k] < c[k]
    <3>1. k \in 1..i - 1 /\ k <= Len(b)
      BY <1>1, <1>2, <1>3, <1>5, <2>1 DEF LessAt
    <3>2. QED
      BY <1>1, <1>2, <3>1 DEF LessAt
  <2>4. QED
    BY <2>1, <2>2, <2>3 DEF Less, LessAt
<1>6. QED
  BY <1>3, <1>4, <1>5

LEMMA LessTotal ==
  ASSUME NEW a \in Seq(Nat), NEW b \in Seq(Nat)
  PROVE  /\ ~Less(a, a)
         /\ Less(a, b) \/ Less(b, a) \/ a = b
<1>1. ~Less(a, a)
  <2> SUFFICES ASSUME NEW i \in Nat, LessAt(a, a, i) PROVE FALSE
    BY DEF Less
  <2>1. i \in 1..Len(a) /\ a[i] < a[i]
    BY DEF LessAt
  <2>2. QED
    BY <2>1
<1>2. Less(a, b) \/ Less(b, a) \/ a = b
  <2> DEFINE n == Shared(a, b)
             differ == Differ(a, b)
             m == FirstOf(differ)
  <2>1. /\ n \in Nat /\ n <= Len(a) /\ n <= Len(b) /\ (n = Len(a) \/ n = Len(b))
        /\ Len(a) \in Nat /\ Len(b) \in Nat
        /\ differ = {} => \A i \in 1..n : a[i] = b[i]
        /\ differ # {} => /\ m \in 1..n /\ a[m] # b[m] /\ a[m] \in Nat /\ b[m] \in Nat
                          /\ \A j \in 1..m - 1 : a[j] = b[j]
    BY FirstDifference
  <2> HIDE DEF n, differ, m
  <2>2. CASE differ # {}
    <3>1. \A j \in 1..m - 1 : b[j] = a[j]
      BY <2>1, <2>2
    <3>2. a[m] < b[m] \/ b[m] < a[m]
      BY <2>1, <2>2
    <3>3. LessAt(a, b, m) \/ LessAt(b, a, m)
      BY <2>1, <2>2, <3>1, <3>2, SMTT(60) DEF LessAt
    <3>4. QED
      BY <2>1, <2>2, <3>3 DEF Less
  <2>3. CASE differ = {} /\ Len(a) = Len(b)
    <3>1. a = b
      BY <2>1, <2>3
    <3>2. QED
      BY <3>1
  <2>4. CASE differ = {} /\ Len(a) # Len(b)
    <3>1. LessAt(a, b, Len(a) + 1) \/ LessAt(b, a, Len(b) + 1)
      BY <2>1, <2>4 DEF LessAt
    <3>2. QED
      BY <2>1, <3>1 DEF Less
  <2>5. QED
    BY <2>2, <2>3, <2>4
<1>3. QED
  BY <1>1, <1>2

\* TypeScript's order.
LEMMA CompareIsLess ==
  ASSUME NEW a \in Seq(Nat), NEW b \in Seq(Nat)
  PROVE  /\ Ts!CompareText(a, b) < 0 <=> Less(a, b)
         /\ Ts!CompareText(a, b) = 0 <=> a = b
         /\ Ts!CompareText(a, b) > 0 <=> Less(b, a)
<1> DEFINE n == Shared(a, b)
           differ == Differ(a, b)
           m == FirstOf(differ)
           x == Ts!CompareText(a, b)
<1>1. x = IF differ = {} THEN Len(a) - Len(b) ELSE a[m] - b[m]
  BY DEF Ts!CompareText, Shared, Differ, FirstOf
<1>2. /\ n \in Nat /\ n <= Len(a) /\ n <= Len(b) /\ (n = Len(a) \/ n = Len(b))
      /\ Len(a) \in Nat /\ Len(b) \in Nat
      /\ differ = {} => \A i \in 1..n : a[i] = b[i]
      /\ differ # {} => /\ m \in 1..n /\ a[m] # b[m] /\ a[m] \in Nat /\ b[m] \in Nat
                        /\ \A j \in 1..m - 1 : a[j] = b[j]
  BY FirstDifference
<1> HIDE DEF n, differ, m, x
<1>3. x < 0 => Less(a, b)
  <2>1. CASE differ = {} /\ x < 0
    <3>1. LessAt(a, b, Len(a) + 1)
      BY <1>1, <1>2, <2>1 DEF LessAt
    <3>2. QED
      BY <1>2, <3>1 DEF Less
  <2>2. CASE differ # {} /\ x < 0
    <3>1. a[m] < b[m]
      <4>1. a[m] \in Nat /\ b[m] \in Nat /\ a[m] - b[m] < 0
        BY <1>1, <1>2, <2>2, Zenon
      <4>2. QED
        BY ONLY <4>1
    <3>2. LessAt(a, b, m)
      BY <1>2, <2>2, <3>1, SMTT(60) DEF LessAt
    <3>3. QED
      BY <1>2, <2>2, <3>2 DEF Less
  <2>3. QED
    BY <2>1, <2>2
<1>4. x > 0 => Less(b, a)
  <2>1. CASE differ = {} /\ x > 0
    <3>1. LessAt(b, a, Len(b) + 1)
      BY <1>1, <1>2, <2>1, SMTT(60) DEF LessAt
    <3>2. QED
      BY <1>2, <3>1 DEF Less
  <2>2. CASE differ # {} /\ x > 0
    <3>1. \A j \in 1..m - 1 : b[j] = a[j]
      BY <1>2, <2>2
    <3>2. b[m] < a[m]
      <4>1. a[m] \in Nat /\ b[m] \in Nat /\ a[m] - b[m] > 0
        BY <1>1, <1>2, <2>2, ZenonT(60)
      <4>2. QED
        BY ONLY <4>1
    <3>3. LessAt(b, a, m)
      BY <1>2, <2>2, <3>1, <3>2, SMTT(60) DEF LessAt
    <3>4. QED
      BY <1>2, <2>2, <3>3 DEF Less
  <2>3. QED
    BY <2>1, <2>2
<1>5. x = 0 => a = b
  <2> SUFFICES ASSUME x = 0 PROVE a = b
    OBVIOUS
  <2>1. differ = {} /\ Len(a) = Len(b)
    BY <1>1, <1>2, SMTT(60)
  <2>2. QED
    BY <1>2, <2>1
<1>6. x \in Int
  BY <1>1, <1>2
<1>7. /\ ~Less(a, a) /\ ~Less(b, b)
      /\ ~(Less(a, b) /\ Less(b, a))
  BY LessTotal, LessTransitive
<1>8. x < 0 \/ x = 0 \/ x > 0
  BY <1>6
<1>9. ~(x < 0 /\ x = 0) /\ ~(x < 0 /\ x > 0) /\ ~(x = 0 /\ x > 0)
  BY <1>6
<1>10. /\ x < 0 <=> Less(a, b)
       /\ x = 0 <=> a = b
       /\ x > 0 <=> Less(b, a)
  BY <1>3, <1>4, <1>5, <1>7, <1>8, <1>9
<1>11. QED
  BY <1>10 DEF x

-------------------------------------------------------------------------------
(* Sorting by counting what precedes.                                        *)

\* P is a strict total order of the positions D.
Orders(P, D) ==
  /\ \A k \in D : <<k, k>> \notin P
  /\ \A j, k \in D : j # k => <<j, k>> \in P \/ <<k, j>> \in P
  /\ \A i, j, k \in D : <<i, j>> \in P /\ <<j, k>> \in P => <<i, k>> \in P

Placing(P, D) == [k \in D |-> Cardinality({j \in D : <<j, k>> \in P})]

\* As many places as positions, and each is taken.
LEMMA EveryPlaceTaken ==
  ASSUME NEW D, IsFiniteSet(D), NEW P, Orders(P, D)
  PROVE  /\ Cardinality(D) \in Nat
         /\ Placing(P, D) \in [D -> 0..Cardinality(D) - 1]
         /\ \A i \in 1..Cardinality(D) : \E k \in D : Placing(P, D)[k] = i - 1
<1> DEFINE Upto(k) == {j \in D : <<j, k>> \in P}
           n == Cardinality(D)
           places == Placing(P, D)
<1>1. n \in Nat
  BY FS_CardinalityType
<1> HIDE DEF n
<1>2. IsFiniteSet(0..n - 1) /\ Cardinality(0..n - 1) = n
  BY <1>1, FS_Interval
<1>3. \A k \in D : places[k] = Cardinality(Upto(k)) /\ IsFiniteSet(Upto(k))
  BY FS_Subset DEF Placing
<1>4. ASSUME NEW j \in D, NEW k \in D, <<j, k>> \in P
      PROVE  Cardinality(Upto(j)) < Cardinality(Upto(k))
  <2>1. Upto(j) \subseteq Upto(k)
    BY <1>4 DEF Orders
  <2>2. j \in Upto(k) /\ j \notin Upto(j)
    BY <1>4 DEF Orders
  <2>3. /\ Cardinality(Upto(j)) <= Cardinality(Upto(k))
        /\ Cardinality(Upto(j)) # Cardinality(Upto(k))
    <3>1. Upto(j) \in SUBSET Upto(k) /\ Upto(j) # Upto(k) /\ IsFiniteSet(Upto(k))
      BY <1>3, <2>1, <2>2
    <3> HIDE DEF Upto
    <3>2. QED
      BY <3>1, FS_Subset
  <2>4. Cardinality(Upto(j)) \in Nat /\ Cardinality(Upto(k)) \in Nat
    BY <1>3, FS_CardinalityType
  <2> HIDE DEF Upto
  <2>5. QED
    BY <2>3, <2>4
<1>5. ASSUME NEW k \in D PROVE Cardinality(Upto(k)) \in 0..n - 1
  <2>1. Upto(k) \subseteq D /\ k \notin Upto(k)
    BY DEF Orders
  <2>2. Upto(k) \in SUBSET D /\ Upto(k) # D
    BY <2>1
  <2>3. Cardinality(Upto(k)) \in Nat
    BY <1>3, FS_CardinalityType
  <2> HIDE DEF Upto
  <2>4. Cardinality(Upto(k)) <= n /\ Cardinality(Upto(k)) # n
    BY <2>2, FS_Subset DEF n
  <2>5. QED
    BY <1>1, <2>3, <2>4
<1> HIDE DEF Upto
<1>6. places \in [D -> 0..n - 1]
  <2>1. DOMAIN places = D /\ places = [k \in D |-> places[k]]
    BY DEF Placing
  <2>2. QED
    BY <1>3, <1>5, <2>1
<1> HIDE DEF places
<1>7. ASSUME NEW j \in D, NEW k \in D, places[j] = places[k] PROVE j = k
  <2>1. Cardinality(Upto(j)) = Cardinality(Upto(k)) /\ Cardinality(Upto(j)) \in Nat
    BY <1>3, <1>5, <1>7
  <2>2. <<j, k>> \notin P /\ <<k, j>> \notin P
    BY <1>4, <2>1
  <2>3. QED
    BY <2>2 DEF Orders
<1>8. places \in Injection(D, 0..n - 1)
  BY <1>6, <1>7 DEF Injection, IsInjective
<1>9. places \in Surjection(D, 0..n - 1)
  BY <1>2, <1>8, FS_Injection DEF n
<1>10. \A i \in 0..n - 1 : \E k \in D : places[k] = i
  BY <1>9 DEF Surjection
<1>11. \A i \in 1..n : i - 1 \in 0..n - 1
  BY <1>1
<1>12. QED
  BY <1>1, <1>6, <1>10, <1>11 DEF places, n

\* The array s of n members, and one that has only members of another.
IsList(s, n) == n \in Nat /\ s = [i \in 1..n |-> s[i]]

Rearranges(s, items, n) == IsList(s, n) /\ \A i \in 1..n : \E k \in 1..n : s[i] = items[k]

LEMMA ArrayOf ==
  ASSUME NEW n \in Nat, NEW f, f = [i \in 1..n |-> f[i]]
  PROVE  /\ f \in Seq(ToSet(f)) /\ Len(f) = n /\ DOMAIN f = 1..n
         /\ ToSet(f) = {f[i] : i \in 1..n}
<1>1. f \in [1..n -> ToSet(f)]
  BY DEF ToSet
<1>2. f \in Seq(ToSet(f))
  BY <1>1
<1>3. DOMAIN f = 1..n
  OBVIOUS
<1>4. Len(f) = n
  BY <1>2, <1>3
<1>5. QED
  BY <1>2, <1>3, <1>4 DEF ToSet

LEMMA OnceIsItself ==
  ASSUME NEW n \in Nat, NEW f, f = [i \in 1..n |-> f[i]]
  PROVE  Once(f) = f
BY ArrayOf, ConcatEmptySeq DEF Once

\* The order of positions by their keys, equal ones in the order they have.
KeyedOrder(keys, n) ==
  {p \in (1..n) \X (1..n) :
     Less(keys[p[1]], keys[p[2]]) \/ (keys[p[1]] = keys[p[2]] /\ p[1] < p[2])}

LEMMA KeysOrder ==
  ASSUME NEW n \in Nat, NEW keys, \A k \in 1..n : keys[k] \in Seq(Nat)
  PROVE  Orders(KeyedOrder(keys, n), 1..n)
<1> DEFINE P == KeyedOrder(keys, n)
<1>1. \A j, k \in 1..n : <<j, k>> \in P <=>
        Less(keys[j], keys[k]) \/ (keys[j] = keys[k] /\ j < k)
  BY DEF KeyedOrder
<1> HIDE DEF P
<1>2. \A k \in 1..n : <<k, k>> \notin P
  BY <1>1, LessTotal
<1>3. ASSUME NEW j \in 1..n, NEW k \in 1..n, j # k PROVE <<j, k>> \in P \/ <<k, j>> \in P
  <2>1. j < k \/ k < j
    BY <1>3
  <2>2. Less(keys[j], keys[k]) \/ Less(keys[k], keys[j]) \/ keys[j] = keys[k]
    BY LessTotal
  <2>3. QED
    BY <1>1, <2>1, <2>2
<1>4. ASSUME NEW i \in 1..n, NEW j \in 1..n, NEW k \in 1..n, <<i, j>> \in P, <<j, k>> \in P
      PROVE  <<i, k>> \in P
  <2>1. Less(keys[i], keys[j]) \/ (keys[i] = keys[j] /\ i < j)
    BY <1>1, <1>4
  <2>2. Less(keys[j], keys[k]) \/ (keys[j] = keys[k] /\ j < k)
    BY <1>1, <1>4
  <2>3. i < j /\ j < k => i < k
    OBVIOUS
  <2>4. Less(keys[i], keys[j]) /\ Less(keys[j], keys[k]) => Less(keys[i], keys[k])
    BY LessTransitive
  <2>5. Less(keys[i], keys[k]) \/ (keys[i] = keys[k] /\ i < k)
    BY <2>1, <2>2, <2>3, <2>4
  <2>6. QED
    BY <1>1, <2>5
<1>5. QED
  BY <1>2, <1>3, <1>4 DEF Orders, P

LEMMA SameCardinality == \A S : Ts!Cardinality(S) = Cardinality(S)
BY DEF Ts!Cardinality, Cardinality

\* Both languages count by that order.
LEMMA CountedByText ==
  ASSUME NEW n \in Nat, NEW keys, keys = [k \in 1..n |-> keys[k]],
         \A k \in 1..n : keys[k] \in Seq(Nat)
  PROVE  /\ ByText(keys) = Placing(KeyedOrder(keys, n), 1..n)
         /\ Ts!ByCompare(keys) = Placing(KeyedOrder(keys, n), 1..n)
<1> DEFINE P == KeyedOrder(keys, n)
           py == [k \in DOMAIN keys |->
                    Cardinality({j \in DOMAIN keys :
                      Before(keys[j], keys[k]) \/ (keys[j] = keys[k] /\ j < k)})]
           ts == [k \in DOMAIN keys |->
                    Cardinality({j \in DOMAIN keys :
                      LET order == Ts!CompareText(keys[j], keys[k])
                      IN  order < 0 \/ (order = 0 /\ j < k)})]
<1>1. DOMAIN keys = 1..n
  OBVIOUS
<1>2. \A j, k \in 1..n : <<j, k>> \in P <=>
        Less(keys[j], keys[k]) \/ (keys[j] = keys[k] /\ j < k)
  BY DEF KeyedOrder
<1> HIDE DEF P
<1>3. \A j, k \in 1..n :
        Before(keys[j], keys[k]) \/ (keys[j] = keys[k] /\ j < k) <=> <<j, k>> \in P
  BY <1>2, BeforeIsLess, ZenonT(60)
<1>4. \A j, k \in 1..n :
        LET order == Ts!CompareText(keys[j], keys[k])
        IN  order < 0 \/ (order = 0 /\ j < k) <=> <<j, k>> \in P
  BY <1>2, CompareIsLess, ZenonT(60)
<1>5. \A k \in 1..n :
        {j \in DOMAIN keys : Before(keys[j], keys[k]) \/ (keys[j] = keys[k] /\ j < k)}
          = {j \in 1..n : <<j, k>> \in P}
  BY <1>1, <1>3
<1>6. \A k \in 1..n :
        {j \in DOMAIN keys : LET order == Ts!CompareText(keys[j], keys[k])
                             IN  order < 0 \/ (order = 0 /\ j < k)}
          = {j \in 1..n : <<j, k>> \in P}
  BY <1>1, <1>4
<1>7. py = Placing(P, 1..n) /\ py = [k \in 1..n |-> py[k]]
  BY <1>1, <1>5 DEF Placing
<1>8. ts = Placing(P, 1..n) /\ ts = [k \in 1..n |-> ts[k]]
  BY <1>1, <1>6 DEF Placing
<1>9. ByText(keys) = py
  <2>1. ByText(keys) = Once(py)
    BY DEF ByText
  <2> HIDE DEF py
  <2>2. QED
    BY <1>7, <2>1, OnceIsItself
<1>10. Ts!ByCompare(keys) = ts
  <2>1. Ts!ByCompare(keys) = Once(ts)
    <3>1. Ts!ByCompare(keys) = Ts!Once(ts)
      BY Zenon, SameCardinality DEF Ts!ByCompare
    <3>2. \A x : Ts!Once(x) = Once(x)
      BY DEF Ts!Once, Once
    <3>3. QED
      BY Zenon, <3>1, <3>2
  <2> HIDE DEF ts
  <2>2. QED
    BY <1>8, <2>1, OnceIsItself
<1>11. QED
  BY <1>7, <1>8, <1>9, <1>10 DEF P

\* What is put in order is a rearrangement.
LEMMA Rearranged ==
  ASSUME NEW n, NEW items, IsList(items, n), NEW P, Orders(P, 1..n)
  PROVE  Rearranges(Ordered(items, Placing(P, 1..n)), items, n)
<1> DEFINE places == Placing(P, 1..n)
           f == [i \in DOMAIN items |-> items[CHOOSE k \in DOMAIN items : places[k] = i - 1]]
<1>1. DOMAIN items = 1..n /\ n \in Nat
  BY DEF IsList
<1>2. f = [i \in 1..n |-> f[i]]
  BY <1>1
<1>3. Ordered(items, places) = Once(f)
  BY DEF Ordered
<1>4. ASSUME NEW i \in 1..n PROVE \E k \in 1..n : f[i] = items[k]
  <2>1. \E k \in 1..n : places[k] = i - 1
    <3>1. IsFiniteSet(1..n) /\ Cardinality(1..n) = n
      BY <1>1, FS_Interval
    <3>2. \A j \in 1..Cardinality(1..n) : \E k \in 1..n : places[k] = j - 1
      BY <3>1, EveryPlaceTaken
    <3> HIDE DEF places
    <3>3. QED
      BY <3>1, <3>2
  <2> DEFINE c == CHOOSE k \in DOMAIN items : places[k] = i - 1
  <2>2. c \in 1..n
    BY <1>1, <2>1
  <2>3. f[i] = items[c]
    BY <1>1
  <2>4. QED
    BY <2>2, <2>3
<1> HIDE DEF f
<1>5. Ordered(items, places) = f
  BY <1>1, <1>2, <1>3, OnceIsItself
<1>6. Rearranges(f, items, n)
  BY <1>1, <1>2, <1>4 DEF Rearranges, IsList
<1>7. QED
  BY <1>5, <1>6

LEMMA SameOrdered ==
  ASSUME NEW items, NEW places
  PROVE  Ts!Ordered(items, places) = Ordered(items, places)
BY DEF Ts!Ordered, Ordered, Ts!Once, Once

-------------------------------------------------------------------------------
(* The texts of values.                                                      *)

LEMMA CommasType ==
  ASSUME NEW n \in Nat, NEW items, items = [i \in 1..n |-> items[i]],
         \A i \in 1..n : items[i] \in Seq(Nat)
  PROVE  /\ Commas(items) \in Seq(Nat)
         /\ n >= 1 => Opens(items[1], Commas(items))
<1> DEFINE f == [i \in DOMAIN items |-> IF i = 1 THEN items[i] ELSE <<44>> \o items[i]]
<1>1. DOMAIN items = 1..n
  OBVIOUS
<1>2. /\ f = [i \in 1..n |-> f[i]]
      /\ \A i \in 1..n : f[i] \in Seq(Nat)
      /\ n >= 1 => f[1] = items[1]
  BY <1>1
<1>3. Commas(items) = FlattenSeq(Once(f))
  BY DEF Commas
<1> HIDE DEF f
<1>4. Commas(items) = FlattenSeq(f)
  BY <1>2, <1>3, OnceIsItself
<1>5. f \in Seq(Seq(Nat)) /\ Len(f) = n
  BY <1>2
<1>6. ASSUME n >= 1 PROVE Opens(items[1], Commas(items))
  <2>1. PICK P : /\ Flattens(P, f)
                 /\ \A i \in 0..Len(f) : P[i] \in Seq(Nat)
                 /\ FlattenSeq(f) = P[Len(f)]
    BY <1>5, FlattenSteps
  <2>2. Flattening(Nat, P, f)
    BY <1>2, <1>5, <2>1 DEF Flattening
  <2>3. Opens(P[1], P[Len(f)])
    <3>1. 1 \in 0..Len(f)
      BY <1>5, <1>6
    <3>2. QED
      BY <2>2, <3>1, FlattenPrefix
  <2>4. P[1] = items[1]
    <3>1. P[1] = << >> \o f[1]
      <4>1. 1 \in 1..Len(f) /\ 1 - 1 = 0
        BY <1>5, <1>6
      <4>2. P[1] = P[1 - 1] \o f[1] /\ P[0] = << >>
        BY <2>1, <4>1 DEF Flattens
      <4>3. QED
        BY <4>1, <4>2
    <3>2. f[1] = items[1] /\ items[1] \in Seq(Nat)
      BY <1>2, <1>6
    <3>3. QED
      BY <3>1, <3>2, ConcatEmptySeq
  <2>5. QED
    BY <1>4, <2>1, <2>3, <2>4
<1>7. QED
  BY <1>4, <1>5, <1>6, FlattenType

LEMMA TextTypes ==
  /\ \A s \in Seq(Nat) : JsonText(s) \in Seq(Nat)
  /\ \A n \in Nat : \A items : items = [i \in 1..n |-> items[i]] /\ (\A i \in 1..n : items[i] \in Seq(Nat))
                              => ArrayText(items) \in Seq(Nat)
<1>1. \A s \in Seq(Nat) : JsonText(s) \in Seq(Nat)
  BY DEF JsonText
<1>2. ASSUME NEW n \in Nat, NEW items, items = [i \in 1..n |-> items[i]],
             \A i \in 1..n : items[i] \in Seq(Nat)
      PROVE  ArrayText(items) \in Seq(Nat)
  <2>1. Commas(items) \in Seq(Nat)
    BY <1>2, CommasType
  <2>2. QED
    BY <2>1 DEF ArrayText
<1>3. QED
  BY <1>1, <1>2

-------------------------------------------------------------------------------
(* Objects: their keys in order.                                             *)

Present(keys) == {i \in DOMAIN KeyOrder : KeyOrder[i] \in keys}

LEMMA KeyPositions == DOMAIN KeyOrder = 1..17
BY DEF KeyOrder

LEMMA KeysAreFinite ==
  ASSUME NEW D \in SUBSET (1..17)
  PROVE  IsFiniteSet(D)
<1>1. 1 \in Int /\ 17 \in Int
  OBVIOUS
<1>2. IsFiniteSet(1..17)
  BY Zenon, <1>1, FS_Interval
<1>3. QED
  BY <1>2, FS_Subset

LEMMA PresentPositions == \A keys : Present(keys) \in SUBSET (1..17)
BY KeyPositions DEF Present

LEMMA RanksOf ==
  ASSUME NEW keys
  PROVE  LET ranks == Ranks(keys)
             n == Cardinality(Present(keys))
         IN  /\ n \in Nat /\ ranks = [k \in 1..n |-> ranks[k]]
             /\ \A k \in 1..n : /\ ranks[k] \in Present(keys) /\ ranks[k] \in Nat
                                /\ Cardinality({j \in Present(keys) : j < ranks[k]}) = k - 1
<1> DEFINE D == Present(keys)
           n == Cardinality(D)
           P == {p \in D \X D : p[1] < p[2]}
           ranks == Ranks(keys)
<1>1. D \in SUBSET (1..17)
  BY PresentPositions
<1>2. IsFiniteSet(D)
  BY <1>1, KeysAreFinite
<1>3. ranks = [k \in 1..n |-> CHOOSE i \in D : Cardinality({j \in D : j < i}) = k - 1]
  BY DEF Ranks, Present
<1> HIDE DEF D
<1>4. \A j, k \in D : <<j, k>> \in P <=> j < k
  OBVIOUS
<1> HIDE DEF P
<1>5. Orders(P, D)
  <2>1. \A j \in D : j \in Nat
    BY <1>1
  <2>2. QED
    BY <1>4, <2>1 DEF Orders
<1>6. \A k \in D : Placing(P, D)[k] = Cardinality({j \in D : j < k})
  <2>1. \A k \in D : {j \in D : <<j, k>> \in P} = {j \in D : j < k}
    BY <1>4
  <2>2. QED
    BY <2>1 DEF Placing
<1>7. n \in Nat /\ \A k \in 1..n : \E i \in D : Cardinality({j \in D : j < i}) = k - 1
  BY <1>2, <1>5, <1>6, EveryPlaceTaken
<1> HIDE DEF n
<1>8. \A k \in 1..n : ranks[k] \in D /\ Cardinality({j \in D : j < ranks[k]}) = k - 1
  <2> SUFFICES ASSUME NEW k \in 1..n
               PROVE  ranks[k] \in D /\ Cardinality({j \in D : j < ranks[k]}) = k - 1
    OBVIOUS
  <2>1. ranks[k] = CHOOSE i \in D : Cardinality({j \in D : j < i}) = k - 1
    BY <1>3
  <2> HIDE DEF ranks
  <2>2. \E i \in D : Cardinality({j \in D : j < i}) = k - 1
    BY <1>7
  <2>3. QED
    BY <2>1, <2>2
<1>9. ranks = [k \in 1..n |-> ranks[k]]
  BY <1>3
<1> HIDE DEF ranks
<1>10. \A k \in 1..n : ranks[k] \in Nat
  <2>1. \A i \in D : i \in Nat
    BY <1>1
  <2>2. QED
    BY <1>8, <2>1
<1>11. QED
  BY <1>7, <1>8, <1>9, <1>10 DEF D, n, ranks

LEMMA Enclosed ==
  ASSUME NEW u \in Seq(Nat), NEW w \in Seq(Nat), Opens(u, w)
  PROVE  Opens(<<123>> \o u, (<<123>> \o w) \o <<125>>)
<1> DEFINE x == <<123>> \o u
           y == <<123>> \o w
           z == y \o <<125>>
<1>1. /\ Len(u) \in Nat /\ Len(w) \in Nat /\ Len(u) <= Len(w)
      /\ \A k \in 1..Len(u) : u[k] = w[k]
  BY DEF Opens
<1>2. /\ Len(x) = 1 + Len(u) /\ x[1] = 123
      /\ \A k \in 1..Len(u) : x[1 + k] = u[k]
  BY <1>1
<1>3. /\ y \in Seq(Nat) /\ Len(y) = 1 + Len(w) /\ y[1] = 123
      /\ \A k \in 1..Len(w) : y[1 + k] = w[k]
  BY <1>1
<1> HIDE DEF x, y
<1>4. Len(z) = Len(y) + 1 /\ \A k \in 1..Len(y) : z[k] = y[k]
  BY <1>3
<1> HIDE DEF z
<1>5. ASSUME NEW k \in 1..Len(x) PROVE x[k] = z[k]
  <2>1. CASE k = 1
    BY <1>1, <1>2, <1>3, <1>4, <2>1
  <2>2. CASE k # 1
    <3>1. k - 1 \in 1..Len(u) /\ k - 1 \in 1..Len(w) /\ k = 1 + (k - 1) /\ k \in 1..Len(y)
      BY <1>1, <1>2, <1>3, <2>2
    <3>2. x[k] = u[k - 1] /\ y[k] = w[k - 1]
      BY <1>2, <1>3, <3>1, ZenonT(60)
    <3>3. QED
      BY <1>1, <1>4, <3>1, <3>2
  <2>3. QED
    BY <2>1, <2>2
<1>6. Len(x) <= Len(z)
  BY <1>1, <1>2, <1>3, <1>4
<1>7. QED
  BY <1>5, <1>6 DEF Opens, x, y, z

LEMMA ObjectType ==
  ASSUME NEW fields, \A k \in DOMAIN fields : fields[k] \in Seq(Nat)
  PROVE  /\ ObjectText(fields) \in Seq(Nat)
         /\ "id" \in DOMAIN fields /\ DOMAIN fields \cap {"edges", "entryNodeIds", "exitNodeIds", "graphs"} = {}
              => Opens(<<123>> \o (<<34, 5, 34, 58>> \o fields["id"]), ObjectText(fields))
<1> DEFINE D == Present(DOMAIN fields)
           n == Cardinality(D)
           ranks == Ranks(DOMAIN fields)
           members == [k \in DOMAIN ranks |-> <<34, ranks[k], 34, 58>> \o fields[KeyOrder[ranks[k]]]]
<1>1. /\ n \in Nat /\ ranks = [k \in 1..n |-> ranks[k]]
      /\ \A k \in 1..n : /\ ranks[k] \in D /\ ranks[k] \in Nat
                         /\ Cardinality({j \in D : j < ranks[k]}) = k - 1
  BY RanksOf
<1>2. ObjectText(fields) = <<123>> \o Commas(members) \o <<125>>
  BY DEF ObjectText
<1> HIDE DEF n, ranks
<1>3. DOMAIN ranks = 1..n
  BY <1>1
<1>4. members = [k \in 1..n |-> members[k]]
  BY <1>3
<1>5. ASSUME NEW k \in 1..n PROVE members[k] \in Seq(Nat)
  <2>1. KeyOrder[ranks[k]] \in DOMAIN fields
    BY <1>1 DEF Present
  <2>2. fields[KeyOrder[ranks[k]]] \in Seq(Nat)
    BY <2>1
  <2>3. ranks[k] \in Nat
    BY <1>1
  <2>4. <<34, ranks[k], 34, 58>> \in Seq(Nat)
    BY <2>3
  <2>5. QED
    BY <1>3, <2>2, <2>4
<1>6. Commas(members) \in Seq(Nat) /\ (n >= 1 => Opens(members[1], Commas(members)))
  <2> HIDE DEF members
  <2>1. QED
    BY <1>1, <1>4, <1>5, CommasType
<1>7. ObjectText(fields) \in Seq(Nat)
  <2> HIDE DEF members
  <2>1. QED
    BY <1>2, <1>6
<1>8. ASSUME "id" \in DOMAIN fields,
             DOMAIN fields \cap {"edges", "entryNodeIds", "exitNodeIds", "graphs"} = {}
      PROVE  Opens(<<123>> \o (<<34, 5, 34, 58>> \o fields["id"]), ObjectText(fields))
  <2>1. 5 \in D /\ \A i \in D : i \in Nat /\ i >= 5
    BY <1>8, KeyPositions DEF Present, KeyOrder
  <2>2. n >= 1
    <3>2. IsFiniteSet(D)
      BY PresentPositions, KeysAreFinite
    <3>3. n # 0
      BY <2>1, <3>2, FS_EmptySet DEF n
    <3>4. QED
      BY <1>1, <3>3
  <2>3. ranks[1] = 5
    <3>1. ranks[1] \in D /\ Cardinality({j \in D : j < ranks[1]}) = 0
      BY <1>1, <2>2
    <3>2. IsFiniteSet({j \in D : j < ranks[1]})
      <4>1. D \in SUBSET (1..17)
        BY PresentPositions
      <4>2. {j \in D : j < ranks[1]} \in SUBSET (1..17)
        BY <4>1
      <4>3. QED
        BY <4>2, KeysAreFinite
    <3>3. {j \in D : j < ranks[1]} = {}
      BY <3>1, <3>2, FS_EmptySet
    <3>4. ~(5 < ranks[1])
      BY <2>1, <3>3
    <3>5. QED
      BY <2>1, <3>1, <3>4
  <2>4. KeyOrder[5] = "id"
    BY DEF KeyOrder
  <2>5. members[1] = <<34, 5, 34, 58>> \o fields["id"] /\ members[1] \in Seq(Nat)
    <3>1. 1 \in 1..n /\ 1 \in DOMAIN ranks
      BY <1>1, <1>3, <2>2
    <3>2. members[1] = <<34, ranks[1], 34, 58>> \o fields[KeyOrder[ranks[1]]]
      BY <3>1
    <3>3. members[1] \in Seq(Nat)
      BY <1>5, <3>1
    <3> HIDE DEF members
    <3>4. QED
      BY <2>3, <2>4, <3>2, <3>3
  <2> DEFINE text == <<123>> \o Commas(members) \o <<125>>
             c == Commas(members)
  <2>6. Opens(members[1], c) /\ c \in Seq(Nat)
    BY <1>6, <2>2
  <2> HIDE DEF members, c
  <2>7. Opens(<<123>> \o members[1], (<<123>> \o c) \o <<125>>)
    BY <2>5, <2>6, Enclosed
  <2>8. QED
    BY <1>2, <2>5, <2>7 DEF c
<1>9. QED
  BY <1>7, <1>8

-------------------------------------------------------------------------------
(* Numbers.                                                                  *)

Digits == Seq(0..9)

LEMMA DecimalType == \A m \in Nat : Decimal(m) \in Digits \/ m >= 1000
<1> SUFFICES ASSUME NEW m \in Nat, m < 1000 PROVE Decimal(m) \in Digits
  OBVIOUS
<1>1. CASE m < 10
  BY <1>1 DEF Decimal, Digits
<1>2. CASE m >= 10 /\ m < 100
  <2>1. m \div 10 \in 0..9 /\ m % 10 \in 0..9
    BY <1>2
  <2>2. PICK a, b \in 0..9 : Decimal(m) = <<a, b>>
    BY <1>2, <2>1 DEF Decimal
  <2>3. <<a, b>> \in Digits
    BY DEF Digits
  <2>4. QED
    BY <2>2, <2>3
<1>3. CASE m >= 100
  <2>1. m \div 100 \in 0..9 /\ (m \div 10) % 10 \in 0..9 /\ m % 10 \in 0..9
    BY <1>3
  <2>2. PICK a, b, c \in 0..9 : Decimal(m) = <<a, b, c>>
    <3>1. Decimal(m) = <<m \div 100, (m \div 10) % 10, m % 10>>
      BY <1>3 DEF Decimal
    <3>2. QED
      BY <2>1, <3>1, ZenonT(60)
  <2>3. <<a, b, c>> \in Digits
    BY DEF Digits
  <2>4. QED
    BY <2>2, <2>3
<1>4. QED
  BY <1>1, <1>2, <1>3

LEMMA DecimalText == \A m \in Nat : Decimal(m) \in Seq(Nat)
<1> SUFFICES ASSUME NEW m \in Nat PROVE Decimal(m) \in Seq(Nat)
  OBVIOUS
<1>1. m \div 10 \in Nat /\ m \div 100 \in Nat /\ m % 10 \in Nat
  OBVIOUS
<1>2. (m \div 10) % 10 \in Nat
  BY <1>1
<1>3. QED
  BY <1>1, <1>2 DEF Decimal

LEMMA AsciiType ==
  ASSUME NEW s \in Seq(Nat)
  PROVE  /\ Ascii(s) \in Seq(Nat) /\ Len(Ascii(s)) = Len(s)
         /\ \A i \in 1..Len(s) : Ascii(s)[i] = 48 + s[i]
<1>1. DOMAIN s = 1..Len(s) /\ Len(s) \in Nat /\ \A i \in 1..Len(s) : s[i] \in Nat
  OBVIOUS
<1>2. Ascii(s) = [i \in 1..Len(s) |-> 48 + s[i]]
  BY <1>1 DEF Ascii
<1>3. QED
  BY <1>1, <1>2

LEMMA ZerosType ==
  ASSUME NEW m \in Nat
  PROVE  Zeros(m) \in Digits /\ Len(Zeros(m)) = m /\ \A i \in 1..m : Zeros(m)[i] = 0
BY DEF Zeros, Digits

LEMMA DigitsAreNumbers == Digits \subseteq Seq(Nat)
BY DEF Digits

LEMMA MagnitudeType == \A m \in Int : Magnitude(m) \in Nat
BY DEF Magnitude

\* What follows the first digit in a text with an exponent.
LEMMA MantissaType ==
  ASSUME NEW digits \in Digits, digits # << >>
  PROVE  Ascii(<<digits[1]>>) \o
           (IF Len(digits) > 1 THEN <<Dot>> \o Ascii(Tail(digits)) ELSE << >>) \in Seq(Nat)
<1>1. <<digits[1]>> \in Seq(Nat) /\ Tail(digits) \in Seq(Nat)
  BY DEF Digits
<1>2. Ascii(<<digits[1]>>) \in Seq(Nat) /\ Ascii(Tail(digits)) \in Seq(Nat)
  BY <1>1, AsciiType
<1>3. <<Dot>> \in Seq(Nat)
  BY DEF Dot
<1>4. QED
  BY <1>2, <1>3

LEMMA BodyType ==
  ASSUME NEW digits \in Digits, digits # << >>, NEW n \in Int
  PROVE  Body(digits, n) \in Seq(Nat)
<1> DEFINE k == Len(digits)
           mantissa == Ascii(<<digits[1]>>) \o
                         (IF k > 1 THEN <<Dot>> \o Ascii(Tail(digits)) ELSE << >>)
           sign == <<ExpE, IF n > 0 THEN Plus ELSE Minus>>
           exponent == Ascii(Decimal(Magnitude(n - 1)))
<1>1. k \in Nat /\ <<Dot>> \in Seq(Nat) /\ <<48, Dot>> \in Seq(Nat) /\ sign \in Seq(Nat)
  BY DEF Dot, ExpE, Plus, Minus, Digits
<1>2. mantissa \in Seq(Nat)
  BY MantissaType
<1>3. exponent \in Seq(Nat)
  BY AsciiType, DecimalText, MagnitudeType
<1>4. CASE n \in k..21
  <2>1. n - k \in Nat
    BY <1>1, <1>4
  <2>2. digits \o Zeros(n - k) \in Seq(Nat)
    BY <2>1, ZerosType, DigitsAreNumbers
  <2>3. Ascii(digits \o Zeros(n - k)) \in Seq(Nat)
    BY <2>2, AsciiType
  <2>4. QED
    BY <1>4, <2>3 DEF Body
<1>5. CASE n \notin k..21 /\ n \in 1..21
  <2>1. SubSeq(digits, 1, n) \in Seq(Nat) /\ SubSeq(digits, n + 1, k) \in Seq(Nat)
    <3>1. digits \in Seq(Nat) /\ n <= k /\ n + 1 >= 1
      BY <1>1, <1>5, DigitsAreNumbers
    <3>2. QED
      BY <1>1, <1>5, <3>1, SMTT(60)
  <2>2. Ascii(SubSeq(digits, 1, n)) \in Seq(Nat) /\ Ascii(SubSeq(digits, n + 1, k)) \in Seq(Nat)
    BY <2>1, AsciiType
  <2>3. QED
    BY <1>1, <1>5, <2>2 DEF Body
<1>6. CASE n \in -5..0
  <2>1. n \notin k..21 /\ n \notin 1..21
    <3>1. k # 0
      BY DEF Digits
    <3>2. QED
      BY <1>1, <1>6, <3>1
  <2>2. -n \in Nat
    BY <1>6
  <2>3. Zeros(-n) \o digits \in Seq(Nat)
    BY <2>2, ZerosType, DigitsAreNumbers
  <2>4. Ascii(Zeros(-n) \o digits) \in Seq(Nat)
    BY <2>3, AsciiType
  <2>5. QED
    BY <1>1, <1>6, <2>1, <2>4 DEF Body
<1>7. CASE n \notin k..21 /\ n \notin 1..21 /\ n \notin -5..0
  <2>1. Body(digits, n) = mantissa \o sign \o exponent
    BY <1>7 DEF Body
  <2> HIDE DEF mantissa, sign, exponent
  <2>2. QED
    BY <1>1, <1>2, <1>3, <2>1
<1>8. QED
  BY <1>4, <1>5, <1>6, <1>7

LEMMA SameBody == \A digits, n : Ts!Body(digits, n) = Body(digits, n)
BY DEF Ts!Body, Body, Ts!Ascii, Ascii, Ts!Zeros, Zeros, Ts!Dot, Dot, Ts!ExpE, ExpE, Ts!Plus, Plus,
       Ts!Minus, Minus, Ts!Decimal, Decimal, Ts!Magnitude, Magnitude

\* What repr pads with zeros is stripped of them again.
LEMMA StrippedBack ==
  ASSUME NEW x, x.digits \in Digits, x.digits # << >>, x.digits[Len(x.digits)] # 0, x.n \in Int
  PROVE  /\ Stripped(ReprTuple(x)).digits = x.digits
         /\ Stripped(ReprTuple(x)).exponent + Len(x.digits) = x.n
<1> DEFINE k == Len(x.digits)
           t == ReprTuple(x)
           last == CHOOSE i \in DOMAIN t.digits :
                     /\ t.digits[i] # 0
                     /\ \A j \in DOMAIN t.digits : j > i => t.digits[j] = 0
<1>1. k \in Nat /\ k >= 1 /\ DOMAIN x.digits = 1..k
  BY DEF Digits
<1>2. /\ Stripped(t).exponent = t.exponent + Len(t.digits) - last
      /\ Stripped(t).digits = SubSeq(t.digits, 1, last)
  BY DEF Stripped
<1> DEFINE Padded(m) == /\ t.digits \in Digits /\ Len(t.digits) = k + m
                        /\ \A i \in 1..k : t.digits[i] = x.digits[i]
                        /\ \A i \in k + 1..k + m : t.digits[i] = 0
                        /\ t.exponent \in Int /\ t.exponent + m + k = x.n
<1>3. PICK m \in Nat : Padded(m)
  <2>1. CASE x.n \in k..16
    <3> DEFINE m == x.n - k + 1
    <3>1. m \in Nat
      BY <1>1, <2>1
    <3> HIDE DEF m
    <3>2. PICK z : z = Zeros(m) /\ z \in Seq(0..9) /\ Len(z) = m /\ \A i \in 1..m : z[i] = 0
      BY <3>1, ZerosType DEF Digits
    <3>3. t.digits = x.digits \o z /\ t.exponent = -1
      BY <2>1, <3>2 DEF ReprTuple, m
    <3>4. t.digits \in Digits /\ Len(t.digits) = k + m
      BY <3>2, <3>3 DEF Digits
    <3>5. \A i \in 1..k : t.digits[i] = x.digits[i]
      BY <1>1, <3>2, <3>3 DEF Digits
    <3>6. \A i \in k + 1..k + m : t.digits[i] = 0
      <4> SUFFICES ASSUME NEW i \in k + 1..k + m PROVE t.digits[i] = 0
        OBVIOUS
      <4>1. i - k \in 1..m /\ i \in 1..k + m /\ ~(i <= k)
        BY <1>1, <3>1
      <4>2. t.digits[i] = z[i - k]
        BY <1>1, <3>1, <3>2, <3>3, <4>1 DEF Digits
      <4>3. QED
        BY <3>2, <4>1, <4>2
    <3>7. t.exponent \in Int /\ t.exponent + m + k = x.n
      BY <1>1, <3>3 DEF m
    <3> HIDE DEF t
    <3>8. QED
      BY <3>1, <3>4, <3>5, <3>6, <3>7
  <2>2. CASE x.n \notin k..16
    <3>1. t.digits = x.digits /\ t.exponent = x.n - k
      BY <2>2 DEF ReprTuple
    <3> HIDE DEF t
    <3>2. t.exponent \in Int /\ t.exponent + 0 + k = x.n /\ k + 0 = k
      BY <1>1, <3>1
    <3>3. \A i \in k + 1..k + 0 : FALSE
      BY <1>1
    <3>4. QED
      BY <1>1, <3>1, <3>2, <3>3 DEF Digits
  <2>3. QED
    BY <2>1, <2>2
<1> HIDE DEF t
<1>4. DOMAIN t.digits = 1..k + m
  BY <1>3 DEF Digits
<1>5. last = k
  <2>1. k \in DOMAIN t.digits /\ t.digits[k] # 0
    BY <1>1, <1>3, <1>4, SMTT(60)
  <2>2. \A j \in DOMAIN t.digits : j > k => t.digits[j] = 0
    BY <1>1, <1>3, <1>4
  <2>3. /\ last \in DOMAIN t.digits /\ t.digits[last] # 0
        /\ \A j \in DOMAIN t.digits : j > last => t.digits[j] = 0
    BY <2>1, <2>2
  <2> HIDE DEF last
  <2>4. ~(last > k) /\ ~(k > last)
    BY <2>1, <2>2, <2>3
  <2>5. QED
    BY <1>1, <1>4, <2>3, <2>4
<1>6. SubSeq(t.digits, 1, k) = x.digits
  <2>1. /\ t.digits \in Seq(0..9) /\ x.digits \in Seq(0..9) /\ k <= Len(t.digits) /\ 1 <= k
    BY <1>1, <1>3 DEF Digits
  <2>2. SubSeq(t.digits, 1, k) = [i \in 1..k |-> t.digits[i]]
    BY <1>1, <2>1
  <2>3. x.digits = [i \in 1..k |-> x.digits[i]]
    BY <2>1
  <2>4. QED
    BY <1>3, <2>2, <2>3
<1>7. Stripped(t).digits = x.digits /\ Stripped(t).exponent = t.exponent + (k + m) - k
  <2> HIDE DEF last
  <2>1. QED
    BY <1>2, <1>3, <1>5, <1>6
<1>8. Stripped(t).exponent + k = x.n
  <2> HIDE DEF last, k
  <2>1. QED
    BY <1>1, <1>3, <1>7
<1>9. QED
  BY <1>7, <1>8 DEF t

\* Both packages spell a number alike, and repr spells it somehow.
LEMMA NumberTexts ==
  ASSUME NEW x, IsNumber(x)
  PROVE  /\ Repr(x) \in Seq(Nat) /\ FormatNumber(x) \in Seq(Nat)
         /\ Ts!StringifyNumber(x) = FormatNumber(x)
         /\ x.digits # << >> =>
              FormatNumber(x) = (IF x.neg THEN <<Minus>> ELSE << >>) \o Body(x.digits, x.n)
<1> DEFINE sign == IF x.neg THEN <<Minus>> ELSE << >>
           k == Len(x.digits)
<1>1. sign \in Seq(Nat)
  BY DEF Minus
<1>2. x.digits \in Digits /\ x.n \in Int /\ k \in Nat
  BY DEF IsNumber, Digits
<1>3. ASSUME x.digits # << >>
      PROVE  /\ FormatNumber(x) = sign \o Body(x.digits, x.n)
             /\ Ts!StringifyNumber(x) = sign \o Body(x.digits, x.n)
             /\ Body(x.digits, x.n) \in Seq(Nat)
  <2>1. x.digits[Len(x.digits)] # 0
    BY <1>3 DEF IsNumber
  <2>2. /\ Stripped(ReprTuple(x)).digits = x.digits
        /\ Stripped(ReprTuple(x)).exponent + Len(x.digits) = x.n
    BY <1>2, <1>3, <2>1, StrippedBack
  <2>3. FormatNumber(x) = sign \o Body(x.digits, x.n)
    BY <1>3, <2>2 DEF FormatNumber
  <2>4. Ts!StringifyNumber(x) = sign \o Body(x.digits, x.n)
    BY <1>3, SameBody DEF Ts!StringifyNumber, Ts!Minus, Minus
  <2>5. QED
    BY <1>2, <1>3, <2>3, <2>4, BodyType
<1>4. ASSUME x.digits = << >> PROVE FormatNumber(x) = <<48>> /\ Ts!StringifyNumber(x) = <<48>>
  BY <1>4 DEF FormatNumber, Ts!StringifyNumber
<1>5. Repr(x) \in Seq(Nat)
  <2> DEFINE pad(s) == IF Len(s) < 2 THEN <<0>> \o s ELSE s
             body == IF k = 0 THEN <<48, Dot, 48>>
                     ELSE IF x.n \in k..16 THEN Ascii(x.digits \o Zeros(x.n - k)) \o <<Dot, 48>>
                     ELSE IF x.n \in 1..16 THEN Body(x.digits, x.n)
                     ELSE IF x.n \in -3..0 THEN <<48, Dot>> \o Ascii(Zeros(-x.n) \o x.digits)
                     ELSE Ascii(<<x.digits[1]>>)
                            \o (IF k > 1 THEN <<Dot>> \o Ascii(Tail(x.digits)) ELSE << >>)
                            \o <<ExpE, IF x.n > 0 THEN Plus ELSE Minus>>
                            \o Ascii(pad(Decimal(Magnitude(x.n - 1))))
             mantissa == Ascii(<<x.digits[1]>>) \o
                           (IF k > 1 THEN <<Dot>> \o Ascii(Tail(x.digits)) ELSE << >>)
             ending == <<ExpE, IF x.n > 0 THEN Plus ELSE Minus>>
             exponent == Ascii(pad(Decimal(Magnitude(x.n - 1))))
  <2>1. Repr(x) = sign \o body
    BY DEF Repr
  <2>2. k # 0 <=> x.digits # << >>
    BY <1>2 DEF Digits
  <2>3. /\ <<48, Dot, 48>> \in Seq(Nat) /\ <<Dot, 48>> \in Seq(Nat) /\ <<48, Dot>> \in Seq(Nat)
        /\ ending \in Seq(Nat)
    BY DEF Dot, ExpE, Plus, Minus
  <2>4. k # 0 /\ x.n \in k..16 => Ascii(x.digits \o Zeros(x.n - k)) \in Seq(Nat)
    <3> SUFFICES ASSUME k # 0, x.n \in k..16 PROVE Ascii(x.digits \o Zeros(x.n - k)) \in Seq(Nat)
      OBVIOUS
    <3>1. x.n - k \in Nat
      BY <1>2
    <3>2. x.digits \o Zeros(x.n - k) \in Seq(Nat)
      BY <1>2, <3>1, ZerosType, DigitsAreNumbers
    <3>3. QED
      BY <3>2, AsciiType
  <2>5. x.n \in -3..0 => Ascii(Zeros(-x.n) \o x.digits) \in Seq(Nat)
    <3> SUFFICES ASSUME x.n \in -3..0 PROVE Ascii(Zeros(-x.n) \o x.digits) \in Seq(Nat)
      OBVIOUS
    <3>1. -x.n \in Nat
      BY <1>2
    <3>2. Zeros(-x.n) \o x.digits \in Seq(Nat)
      BY <1>2, <3>1, ZerosType, DigitsAreNumbers
    <3>3. QED
      BY <3>2, AsciiType
  <2>6. k # 0 => mantissa \in Seq(Nat)
    BY <1>2, <2>2, MantissaType
  <2>7. exponent \in Seq(Nat)
    <3>0. x.n - 1 \in Int
      BY <1>2
    <3>1. Decimal(Magnitude(x.n - 1)) \in Seq(Nat)
      BY <3>0, DecimalText, MagnitudeType
    <3>2. pad(Decimal(Magnitude(x.n - 1))) \in Seq(Nat)
      BY <3>1
    <3>3. QED
      BY <3>2, AsciiType
  <2>8. k # 0 => Body(x.digits, x.n) \in Seq(Nat)
    BY <1>2, <2>2, BodyType
  <2>9. body \in Seq(Nat)
    <3>1. CASE k = 0
      BY <2>3, <3>1
    <3>2. CASE k # 0 /\ x.n \in k..16
      BY <2>3, <2>4, <3>2
    <3>3. CASE k # 0 /\ x.n \notin k..16 /\ x.n \in 1..16
      BY <2>8, <3>3
    <3>4. CASE k # 0 /\ x.n \notin k..16 /\ x.n \notin 1..16 /\ x.n \in -3..0
      BY <2>3, <2>5, <3>4
    <3>5. CASE k # 0 /\ x.n \notin k..16 /\ x.n \notin 1..16 /\ x.n \notin -3..0
      <4>1. body = mantissa \o ending \o exponent
        BY <3>5
      <4> HIDE DEF mantissa, ending, exponent, body
      <4>2. QED
        BY <2>3, <2>6, <2>7, <3>5, <4>1
    <3>6. QED
      BY <3>1, <3>2, <3>3, <3>4, <3>5
  <2> HIDE DEF body
  <2>10. QED
    BY <1>1, <2>1, <2>9
<1>6. FormatNumber(x) \in Seq(Nat) /\ Ts!StringifyNumber(x) = FormatNumber(x)
  <2>1. CASE x.digits = << >>
    <3>1. <<48>> \in Seq(Nat)
      OBVIOUS
    <3>2. FormatNumber(x) = <<48>> /\ Ts!StringifyNumber(x) = <<48>>
      BY <1>4, <2>1
    <3>3. QED
      BY <3>1, <3>2, Zenon
  <2>2. CASE x.digits # << >>
    <3>1. sign \o Body(x.digits, x.n) \in Seq(Nat)
      BY <1>1, <1>3, <2>2
    <3>2. FormatNumber(x) = sign \o Body(x.digits, x.n) /\ Ts!StringifyNumber(x) = sign \o Body(x.digits, x.n)
      BY <1>3, <2>2
    <3>3. QED
      BY <3>1, <3>2, Zenon
  <2>3. QED
    BY <2>1, <2>2
<1>7. QED
  BY <1>3, <1>5, <1>6

-------------------------------------------------------------------------------
(* The two packages write the same JSON.                                     *)

LEMMA SameCommas == \A items : Ts!Commas(items) = Commas(items)
BY DEF Ts!Commas, Commas, Ts!Once, Once, Ts!FlattenSeq, FlattenSeq

LEMMA SameRanks == \A keys : Ts!Ranks(keys) = Ranks(keys)
BY DEF Ts!Ranks, Ranks, Ts!KeyOrder, KeyOrder, Ts!Cardinality, Cardinality

LEMMA SameTexts ==
  /\ \A s : Ts!JsonText(s) = JsonText(s)
  /\ \A items : Ts!ArrayText(items) = ArrayText(items)
  /\ \A fields : Ts!ObjectText(fields) = ObjectText(fields)
<1>1. \A s : Ts!JsonText(s) = JsonText(s)
  BY DEF Ts!JsonText, JsonText
<1>2. \A items : Ts!ArrayText(items) = ArrayText(items)
  BY Zenon, SameCommas DEF Ts!ArrayText, ArrayText
<1>3. \A fields : Ts!ObjectText(fields) = ObjectText(fields)
  <2>1. Ts!KeyOrder = KeyOrder
    BY DEF Ts!KeyOrder, KeyOrder
  <2>2. QED
    BY Zenon, <2>1, SameCommas, SameRanks DEF Ts!ObjectText, ObjectText
<1>4. QED
  BY <1>1, <1>2, <1>3

\* A value as a document has it.
IsValue(key, v) ==
  IF key = "x" THEN IsNumber(v)
  ELSE IF key \in TextLists THEN v \in Seq(Codepoints) ELSE v \in Codepoints

LEMMA CodepointsAreTexts == Codepoints \subseteq Seq(Nat)
BY DEF Codepoints

LEMMA ListText ==
  ASSUME NEW v \in Seq(Codepoints)
  PROVE  ArrayText([i \in DOMAIN v |-> JsonText(v[i])]) \in Seq(Nat)
<1>1. Len(v) \in Nat /\ DOMAIN v = 1..Len(v) /\ \A i \in 1..Len(v) : v[i] \in Seq(Nat)
  BY CodepointsAreTexts
<1> DEFINE items == [i \in DOMAIN v |-> JsonText(v[i])]
<1>2. items = [i \in 1..Len(v) |-> items[i]] /\ \A i \in 1..Len(v) : items[i] \in Seq(Nat)
  BY <1>1, TextTypes
<1> HIDE DEF items
<1>3. ArrayText(items) \in Seq(Nat)
  BY <1>1, <1>2, TextTypes
<1>4. QED
  BY <1>3 DEF items

LEMMA ValueText ==
  ASSUME NEW key, NEW v, IsValue(key, v)
  PROVE  /\ EncodeValue("canonical", key, v) \in Seq(Nat)
         /\ EncodeValue("repr", key, v) \in Seq(Nat)
         /\ Ts!SerializeValue(key, v) = EncodeValue("canonical", key, v)
         /\ key # "x" => EncodeValue("repr", key, v) = EncodeValue("canonical", key, v)
<1>1. CASE key = "x"
  <2>1. IsNumber(v)
    BY <1>1 DEF IsValue
  <2>2. /\ EncodeValue("canonical", key, v) = FormatNumber(v)
        /\ EncodeValue("repr", key, v) = Repr(v)
        /\ Ts!SerializeValue(key, v) = Ts!StringifyNumber(v)
    BY <1>1 DEF EncodeValue, Ts!SerializeValue
  <2>3. QED
    BY Zenon, <1>1, <2>1, <2>2, NumberTexts
<1>2. CASE key # "x" /\ key \in TextLists
  <2>1. v \in Seq(Codepoints)
    BY <1>2 DEF IsValue
  <2> DEFINE text == ArrayText([i \in DOMAIN v |-> JsonText(v[i])])
  <2>2. EncodeValue("canonical", key, v) = text /\ EncodeValue("repr", key, v) = text
    BY <1>2 DEF EncodeValue
  <2>3. Ts!SerializeValue(key, v) = text
    <3>1. Ts!SerializeValue(key, v) = Ts!ArrayText([i \in DOMAIN v |-> Ts!JsonText(v[i])])
      BY <1>2 DEF Ts!SerializeValue, TextLists
    <3>2. QED
      BY Zenon, <3>1, SameTexts
  <2>4. text \in Seq(Nat)
    BY <2>1, ListText
  <2>5. QED
    BY Zenon, <2>2, <2>3, <2>4
<1>3. CASE key # "x" /\ key \notin TextLists
  <2>1. v \in Codepoints
    BY <1>3 DEF IsValue
  <2>2. /\ EncodeValue("canonical", key, v) = JsonText(v)
        /\ EncodeValue("repr", key, v) = JsonText(v)
        /\ Ts!SerializeValue(key, v) = Ts!JsonText(v)
    BY <1>3 DEF EncodeValue, Ts!SerializeValue, TextLists
  <2>3. JsonText(v) \in Seq(Nat)
    BY <2>1, TextTypes, CodepointsAreTexts
  <2>4. QED
    BY Zenon, <2>2, <2>3, SameTexts
<1>4. QED
  BY <1>1, <1>2, <1>3

\* A record of a document other than a graph.
IsElement(r) == \A key \in DOMAIN r : IsValue(key, r[key])

\* The two spellings of one object, and the one of TypeScript.
LEMMA ElementText ==
  ASSUME NEW r, IsElement(r)
  PROVE  /\ EncodeElement("canonical", r) \in Seq(Nat)
         /\ EncodeElement("repr", r) \in Seq(Nat)
         /\ Ts!SerializeElement(r) = EncodeElement("canonical", r)
         /\ "x" \notin DOMAIN r => EncodeElement("repr", r) = EncodeElement("canonical", r)
<1> DEFINE canonical == [k \in DOMAIN r |-> EncodeValue("canonical", k, r[k])]
           repr == [k \in DOMAIN r |-> EncodeValue("repr", k, r[k])]
           ts == [k \in DOMAIN r |-> Ts!SerializeValue(k, r[k])]
<1>1. \A k \in DOMAIN r : /\ canonical[k] \in Seq(Nat) /\ repr[k] \in Seq(Nat)
                          /\ ts[k] = canonical[k] /\ (k # "x" => repr[k] = canonical[k])
  BY ValueText DEF IsElement
<1>2. DOMAIN canonical = DOMAIN r /\ DOMAIN repr = DOMAIN r
  OBVIOUS
<1>3. ts = canonical /\ ("x" \notin DOMAIN r => repr = canonical)
  BY <1>1
<1>4. /\ EncodeElement("canonical", r) = ObjectText(canonical)
      /\ EncodeElement("repr", r) = ObjectText(repr)
      /\ Ts!SerializeElement(r) = Ts!ObjectText(ts)
  BY DEF EncodeElement, Ts!SerializeElement
<1> HIDE DEF canonical, repr, ts
<1>5. ObjectText(canonical) \in Seq(Nat) /\ ObjectText(repr) \in Seq(Nat)
  BY <1>1, <1>2, ObjectType
<1>6. QED
  BY Zenon, <1>3, <1>4, <1>5, SameTexts

-------------------------------------------------------------------------------
(* Records are put in order by their ids.                                    *)

LEMMA OpeningDecides ==
  ASSUME NEW p \in Seq(Nat), NEW q \in Seq(Nat), NEW a \in Seq(Nat), NEW b \in Seq(Nat),
         Opens(p, a), Opens(q, b), ~Opens(p, q), Less(p, q)
  PROVE  Less(a, b)
<1>1. PICK i \in Nat : LessAt(p, q, i)
  BY DEF Less
<1>2. Len(p) \in Nat /\ Len(q) \in Nat /\ Len(a) \in Nat /\ Len(b) \in Nat
  OBVIOUS
<1>3. i <= Len(p)
  <2> SUFFICES ASSUME ~(i <= Len(p)) PROVE FALSE
    OBVIOUS
  <2>1. i = Len(p) + 1 /\ Len(p) <= Len(q)
    BY <1>1, <1>2 DEF LessAt
  <2>2. \A j \in 1..Len(p) : p[j] = q[j]
    BY <1>1, <1>2, <2>1 DEF LessAt
  <2>3. QED
    BY <2>1, <2>2 DEF Opens
<1>4. /\ i \in 1..Len(q) /\ Len(p) <= Len(a) /\ Len(q) <= Len(b)
      /\ \A k \in 1..Len(p) : p[k] = a[k]
      /\ \A k \in 1..Len(q) : q[k] = b[k]
  BY <1>1 DEF LessAt, Opens
<1>5. \A j \in 1..i - 1 : a[j] = b[j]
  <2> SUFFICES ASSUME NEW j \in 1..i - 1 PROVE a[j] = b[j]
    OBVIOUS
  <2>1. j \in 1..Len(p) /\ j \in 1..Len(q)
    <3>1. i <= Len(q)
      BY <1>4
    <3>2. j \in Int /\ 1 <= j /\ j <= i - 1
      OBVIOUS
    <3>3. QED
      BY <1>2, <1>3, <3>1, <3>2
  <2>2. p[j] = q[j]
    BY <1>1 DEF LessAt
  <2>3. QED
    BY <1>4, <2>1, <2>2
<1>6. a[i] < b[i]
  <2>1. i \in 1..Len(p)
    BY <1>2, <1>3, <1>4
  <2>2. p[i] < q[i]
    BY <1>1, <1>3 DEF LessAt
  <2>3. QED
    BY <1>4, <2>1, <2>2
<1>7. LessAt(a, b, i)
  <2>1. i <= Len(q) /\ 1 <= i /\ Len(p) <= Len(a) /\ Len(q) <= Len(b)
    BY <1>4
  <2>2. i \in 1..Len(b) /\ i - 1 <= Len(a)
    BY <1>2, <1>3, <2>1, SMTT(60)
  <2>3. QED
    BY <1>5, <1>6, <2>2 DEF LessAt
<1>8. QED
  BY <1>7 DEF Less

\* How the text of a record with this id begins.
Opening(id) == <<123>> \o (<<34, 5, 34, 58>> \o JsonText(id))

LEMMA OpeningIs ==
  ASSUME NEW u \in Codepoints
  PROVE  /\ Opening(u) \in Seq(Nat) /\ Len(u) \in Nat /\ Len(Opening(u)) = 7 + Len(u)
         /\ \A k \in 1..Len(u) : Opening(u)[6 + k] = u[k]
         /\ Opening(u)[7 + Len(u)] = 34
<1>1. u \in Seq(Nat) /\ Len(u) \in Nat
  BY CodepointsAreTexts
<1>2. PICK t : t = JsonText(u)
  OBVIOUS
<1>3. /\ t \in Seq(Nat) /\ Len(t) = 2 + Len(u) /\ t[2 + Len(u)] = 34
      /\ \A k \in 1..Len(u) : t[1 + k] = u[k]
  BY <1>1, <1>2 DEF JsonText
<1>4. PICK w : w = <<34, 5, 34, 58>> \o t
  OBVIOUS
<1>5. w \in Seq(Nat) /\ Len(w) = 4 + Len(t) /\ \A k \in 1..Len(t) : w[4 + k] = t[k]
  BY <1>3, <1>4
<1>6. PICK z : z = <<123>> \o w
  OBVIOUS
<1>7. z \in Seq(Nat) /\ Len(z) = 1 + Len(w) /\ \A k \in 1..Len(w) : z[1 + k] = w[k]
  BY <1>5, <1>6
<1>8. Opening(u) = z
  BY <1>2, <1>4, <1>6 DEF Opening
<1>9. \A k \in 1..Len(t) : z[5 + k] = t[k]
  <2> SUFFICES ASSUME NEW k \in 1..Len(t) PROVE z[5 + k] = t[k]
    OBVIOUS
  <2>1. 4 + k \in 1..Len(w) /\ 1 + (4 + k) = 5 + k
    BY <1>1, <1>3, <1>5
  <2>2. z[1 + (4 + k)] = w[4 + k] /\ w[4 + k] = t[k]
    BY <1>5, <1>7, <2>1
  <2>3. QED
    BY <2>1, <2>2
<1>10. \A k \in 1..Len(u) : z[6 + k] = u[k]
  <2> SUFFICES ASSUME NEW k \in 1..Len(u) PROVE z[6 + k] = u[k]
    OBVIOUS
  <2>1. 1 + k \in 1..Len(t) /\ 5 + (1 + k) = 6 + k
    BY <1>1, <1>3
  <2>2. z[5 + (1 + k)] = t[1 + k] /\ t[1 + k] = u[k]
    BY <1>3, <1>9, <2>1
  <2>3. QED
    BY <2>1, <2>2
<1>11. z[7 + Len(u)] = 34
  <2>1. 2 + Len(u) \in 1..Len(t) /\ 5 + (2 + Len(u)) = 7 + Len(u)
    BY <1>1, <1>3
  <2>2. z[5 + (2 + Len(u))] = t[2 + Len(u)]
    BY <1>9, <2>1
  <2>3. QED
    BY <1>3, <2>1, <2>2
<1>12. Len(z) = 7 + Len(u)
  BY <1>1, <1>3, <1>5, <1>7
<1>13. QED
  BY <1>1, <1>7, <1>8, <1>10, <1>11, <1>12

LEMMA IdsPart ==
  ASSUME NEW u \in Codepoints, NEW v \in Codepoints, u # v
  PROVE  ~Opens(Opening(u), Opening(v))
<1> SUFFICES ASSUME Opens(Opening(u), Opening(v)) PROVE FALSE
  OBVIOUS
<1>1. PICK a, b : a = Opening(u) /\ b = Opening(v)
  OBVIOUS
<1>2. /\ Len(u) \in Nat /\ Len(a) = 7 + Len(u)
      /\ \A k \in 1..Len(u) : a[6 + k] = u[k]
      /\ a[7 + Len(u)] = 34
  BY <1>1, OpeningIs
<1>3. /\ Len(v) \in Nat /\ Len(b) = 7 + Len(v)
      /\ \A k \in 1..Len(v) : b[6 + k] = v[k]
  BY <1>1, OpeningIs
<1>4. Len(a) <= Len(b) /\ \A k \in 1..Len(a) : a[k] = b[k]
  BY <1>1 DEF Opens
<1>5. Len(u) <= Len(v)
  BY <1>2, <1>3, <1>4
<1>6. \A k \in 1..Len(u) : u[k] = v[k]
  <2> SUFFICES ASSUME NEW k \in 1..Len(u) PROVE u[k] = v[k]
    OBVIOUS
  <2>1. 6 + k \in 1..Len(a) /\ k \in 1..Len(v)
    BY <1>2, <1>3, <1>5
  <2>2. QED
    BY <1>2, <1>3, <1>4, <2>1
<1>7. u \in Seq(Nat) /\ v \in Seq(Nat)
  BY CodepointsAreTexts
<1>8. CASE Len(u) = Len(v)
  <2>1. u = v
    BY <1>6, <1>7, <1>8, SMTT(60)
  <2>2. QED
    BY <2>1
<1>9. CASE Len(u) # Len(v)
  <2>1. Len(u) + 1 \in 1..Len(v) /\ 6 + (Len(u) + 1) = 7 + Len(u) /\ 7 + Len(u) \in 1..Len(a)
    BY <1>2, <1>3, <1>5, <1>9
  <2>2. v[Len(u) + 1] = b[7 + Len(u)] /\ b[7 + Len(u)] = 34
    BY <1>2, <1>3, <1>4, <2>1
  <2>3. v[Len(u) + 1] # 34
    BY <2>1 DEF Codepoints
  <2>4. QED
    BY <2>2, <2>3
<1>10. QED
  BY <1>8, <1>9

IdOrder(ids, n) == {p \in (1..n) \X (1..n) : Less(Opening(ids[p[1]]), Opening(ids[p[2]]))}

\* Ids of which no two are the same, and texts that begin with them.
Distinct(ids, n) ==
  /\ \A i \in 1..n : ids[i] \in Codepoints
  /\ \A i, j \in 1..n : ids[i] = ids[j] => i = j

OpenedBy(a, ids, n) ==
  IsList(a, n) /\ \A i \in 1..n : a[i] \in Seq(Nat) /\ Opens(Opening(ids[i]), a[i])

\* Texts that begin with different ids are in the order of these.
LEMMA OrderOfIds ==
  ASSUME NEW n, NEW ids, Distinct(ids, n), NEW a, OpenedBy(a, ids, n)
  PROVE  KeyedOrder(a, n) = IdOrder(ids, n)
<1> SUFFICES ASSUME NEW j \in 1..n, NEW k \in 1..n
             PROVE  Less(a[j], a[k]) \/ (a[j] = a[k] /\ j < k)
                      <=> Less(Opening(ids[j]), Opening(ids[k]))
  BY DEF KeyedOrder, IdOrder
<1>1. /\ a[j] \in Seq(Nat) /\ a[k] \in Seq(Nat) /\ n \in Nat
      /\ ids[j] \in Codepoints /\ ids[k] \in Codepoints
      /\ ids[j] = ids[k] => j = k
      /\ Opens(Opening(ids[j]), a[j]) /\ Opens(Opening(ids[k]), a[k])
  BY DEF OpenedBy, Distinct, IsList
<1>2. PICK p, q : p = Opening(ids[j]) /\ q = Opening(ids[k])
  OBVIOUS
<1>3. p \in Seq(Nat) /\ q \in Seq(Nat) /\ Opens(p, a[j]) /\ Opens(q, a[k])
  BY <1>1, <1>2, OpeningIs
<1>4. CASE j = k
  <2>1. ~Less(a[j], a[k]) /\ ~Less(p, q)
    BY <1>1, <1>2, <1>3, <1>4, LessTotal
  <2>2. QED
    BY <1>2, <1>4, <2>1
<1>5. CASE j # k
  <2>1. ~Opens(p, q) /\ ~Opens(q, p)
    BY <1>1, <1>2, <1>5, IdsPart
  <2>2. p # q
    <3>1. Opens(p, p)
      BY <1>3 DEF Opens
    <3>2. QED
      BY <2>1, <3>1
  <2>3. Less(p, q) \/ Less(q, p)
    BY <1>3, <2>2, LessTotal
  <2>4. Less(p, q) => Less(a[j], a[k])
    BY <1>1, <1>3, <2>1, OpeningDecides
  <2>5. Less(q, p) => Less(a[k], a[j])
    BY <1>1, <1>3, <2>1, OpeningDecides
  <2>6. Less(a[k], a[j]) => ~Less(a[j], a[k]) /\ a[j] # a[k]
    BY <1>1, LessTotal, LessTransitive
  <2>7. QED
    BY <1>2, <2>3, <2>4, <2>5, <2>6
<1>6. QED
  BY <1>4, <1>5

\* Whatever texts two languages sort by, when those begin with different ids.
LEMMA SortedAlike ==
  ASSUME NEW n, NEW items, IsList(items, n), NEW ids, Distinct(ids, n),
         NEW a, OpenedBy(a, ids, n), NEW b, OpenedBy(b, ids, n)
  PROVE  /\ Ts!Ordered(items, Ts!ByCompare(Ts!Once(b))) = Ordered(items, ByText(Once(a)))
         /\ Rearranges(Ordered(items, ByText(Once(a))), items, n)
<1> DEFINE P == KeyedOrder(a, n)
<1>1. KeyedOrder(b, n) = P
  BY OrderOfIds
<1>2. n \in Nat /\ a = [i \in 1..n |-> a[i]] /\ b = [i \in 1..n |-> b[i]]
  BY DEF OpenedBy, IsList
<1>3. (\A i \in 1..n : a[i] \in Seq(Nat)) /\ (\A i \in 1..n : b[i] \in Seq(Nat))
  BY DEF OpenedBy
<1>4. ByText(a) = Placing(P, 1..n) /\ Orders(P, 1..n)
  BY <1>2, <1>3, CountedByText, KeysOrder
<1>5. Ts!ByCompare(b) = Placing(P, 1..n)
  <2>1. Ts!ByCompare(b) = Placing(KeyedOrder(b, n), 1..n)
    BY <1>2, <1>3, CountedByText
  <2>2. QED
    BY <1>1, <2>1
<1> HIDE DEF P
<1>6. Once(a) = a /\ Ts!Once(b) = b
  <2>1. Once(a) = a /\ Once(b) = b
    BY <1>2, OnceIsItself
  <2>2. Ts!Once(b) = Once(b)
    BY DEF Ts!Once, Once
  <2>3. QED
    BY <2>1, <2>2
<1>7. Rearranges(Ordered(items, Placing(P, 1..n)), items, n)
  BY <1>4, Rearranged
<1>8. QED
  BY <1>4, <1>5, <1>6, <1>7, SameOrdered

\* Lists of texts.
LEMMA TextsAlike ==
  ASSUME NEW texts \in Seq(Codepoints)
  PROVE  Ts!SortText(texts) = Sorted(texts) /\ Sorted(texts) \in Seq(Codepoints)
<1> DEFINE n == Len(texts)
           P == KeyedOrder(texts, n)
           s == Ordered(texts, Placing(P, 1..n))
<1>1. n \in Nat /\ texts = [i \in 1..n |-> texts[i]] /\ \A i \in 1..n : texts[i] \in Codepoints
  OBVIOUS
<1>2. \A i \in 1..n : texts[i] \in Seq(Nat)
  BY <1>1, CodepointsAreTexts
<1> HIDE DEF n
<1>3. ByText(texts) = Placing(P, 1..n) /\ Ts!ByCompare(texts) = Placing(P, 1..n) /\ Orders(P, 1..n)
  BY <1>1, <1>2, CountedByText, KeysOrder
<1> HIDE DEF P
<1>4. Rearranges(s, texts, n)
  <2>1. IsList(texts, n)
    BY <1>1 DEF IsList
  <2>2. QED
    BY <1>3, <2>1, Rearranged
<1>5. Sorted(texts) = s /\ Ts!SortText(texts) = s
  BY <1>3, SameOrdered DEF Sorted, Ts!SortText
<1> HIDE DEF s
<1>6. s \in Seq(Codepoints)
  <2>1. s = [i \in 1..n |-> s[i]] /\ \A i \in 1..n : s[i] \in Codepoints
    BY <1>1, <1>4 DEF Rearranges, IsList
  <2>2. QED
    BY <1>1, <2>1
<1>7. QED
  BY <1>5, <1>6

-------------------------------------------------------------------------------
(* Records.                                                                  *)

\* A record with an id, and no key that is written before it.
Identified(r) ==
  /\ IsElement(r)
  /\ "id" \in DOMAIN r
  /\ DOMAIN r \cap {"edges", "entryNodeIds", "exitNodeIds", "graphs"} = {}

LEMMA RecordIs ==
  ASSUME NEW f \in ObjectLists, NEW r, IsRecord(r, Named(f))
  PROVE  Identified(r)
<1>1. DOMAIN r \subseteq {"id", "x", "type", "subgraphId", "interrupts", "source", "target", "kind", "sources"}
  BY DEF IsRecord, Named, ObjectLists
<1>2. ASSUME NEW key \in DOMAIN r PROVE IsValue(key, r[key])
  <2>1. key # "structure"
    BY <1>1
  <2>2. IF key = "x" THEN IsNumber(r[key])
        ELSE IF key \in TextLists THEN r[key] \in Seq(Codepoints)
        ELSE key = "structure" \/ r[key] \in Codepoints
    BY DEF IsRecord
  <2>3. QED
    BY <2>1, <2>2 DEF IsValue
<1>3. "id" \in DOMAIN r
  BY DEF IsRecord
<1>4. QED
  BY <1>1, <1>2, <1>3 DEF Identified, IsElement

LEMMA ElementOpening ==
  ASSUME NEW r, Identified(r)
  PROVE  /\ r.id \in Codepoints
         /\ Opens(Opening(r.id), EncodeElement("canonical", r))
         /\ Opens(Opening(r.id), EncodeElement("repr", r))
<1>1. r.id \in Codepoints
  BY DEF Identified, IsElement, IsValue, TextLists
<1>2. ASSUME NEW spelling \in {"canonical", "repr"}
      PROVE  Opens(Opening(r.id), EncodeElement(spelling, r))
  <2> DEFINE fields == [k \in DOMAIN r |-> EncodeValue(spelling, k, r[k])]
  <2>1. \A k \in DOMAIN fields : fields[k] \in Seq(Nat)
    BY ValueText DEF Identified, IsElement
  <2>2. /\ "id" \in DOMAIN fields
        /\ DOMAIN fields \cap {"edges", "entryNodeIds", "exitNodeIds", "graphs"} = {}
        /\ fields["id"] = JsonText(r.id)
    BY DEF Identified, EncodeValue, TextLists
  <2>3. EncodeElement(spelling, r) = ObjectText(fields)
    BY DEF EncodeElement
  <2> HIDE DEF fields
  <2>4. Opens(<<123>> \o (<<34, 5, 34, 58>> \o fields["id"]), ObjectText(fields))
    BY <2>1, <2>2, ObjectType
  <2>5. QED
    BY <2>2, <2>3, <2>4 DEF Opening
<1>3. QED
  BY <1>1, <1>2

\* Records with different ids.
Listed(records, n) ==
  /\ IsList(records, n)
  /\ \A i \in 1..n : Identified(records[i])
  /\ \A i, j \in 1..n : records[i].id = records[j].id => i = j

LEMMA RecordsAlike ==
  ASSUME NEW records, NEW n, Listed(records, n)
  PROVE  /\ Ts!SortCanonical(records) = ByKey(records)
         /\ Rearranges(ByKey(records), records, n)
<1> DEFINE ids == [i \in 1..n |-> records[i].id]
           a == [i \in DOMAIN records |-> SortKey(records[i])]
           b == [i \in DOMAIN records |-> Ts!SortKeyText(records[i])]
<1>1. n \in Nat /\ IsList(records, n) /\ DOMAIN records = 1..n
      /\ \A i \in 1..n : Identified(records[i])
  BY DEF Listed, IsList
<1>2. \A i \in 1..n : /\ EncodeElement("canonical", records[i]) \in Seq(Nat)
                      /\ EncodeElement("repr", records[i]) \in Seq(Nat)
                      /\ Ts!SerializeElement(records[i]) = EncodeElement("canonical", records[i])
  BY <1>1, ElementText DEF Identified
<1>3. Distinct(ids, n)
  BY <1>1, ElementOpening DEF Distinct, Listed
<1>4. OpenedBy(a, ids, n)
  BY <1>1, <1>2, ElementOpening DEF OpenedBy, IsList, SortKey
<1>5. OpenedBy(b, ids, n)
  BY <1>1, <1>2, ElementOpening DEF OpenedBy, IsList, Ts!SortKeyText
<1>6. /\ ByKey(records) = Ordered(records, ByText(Once(a)))
      /\ Ts!SortCanonical(records) = Ts!Ordered(records, Ts!ByCompare(Ts!Once(b)))
  BY DEF ByKey, Ts!SortCanonical
<1> HIDE DEF ids, a, b
<1>7. QED
  BY <1>1, <1>3, <1>4, <1>5, <1>6, SortedAlike

-------------------------------------------------------------------------------
(* Structures.                                                               *)

\* A structure whose text both packages can write.
IsTexted(s) ==
  /\ DOMAIN s = Collections
  /\ s.entryNodeIds \in Seq(Codepoints) /\ s.exitNodeIds \in Seq(Codepoints)
  /\ \A f \in ObjectLists : \E n : IsList(s[f], n) /\ \A i \in 1..n : IsElement(s[f][i])

\* None of its elements has an extension.
IsPlain(s) == \A f \in ObjectLists : \A i \in DOMAIN s[f] : "x" \notin DOMAIN s[f][i]

LEMMA ElementsText ==
  ASSUME NEW l, NEW n, IsList(l, n), \A i \in 1..n : IsElement(l[i])
  PROVE  LET canonical == ArrayText([i \in DOMAIN l |-> EncodeElement("canonical", l[i])])
             repr == ArrayText([i \in DOMAIN l |-> EncodeElement("repr", l[i])])
         IN  /\ canonical \in Seq(Nat) /\ repr \in Seq(Nat)
             /\ Ts!ArrayText([i \in DOMAIN l |-> Ts!SerializeElement(l[i])]) = canonical
             /\ (\A i \in DOMAIN l : "x" \notin DOMAIN l[i]) => repr = canonical
<1> DEFINE a == [i \in DOMAIN l |-> EncodeElement("canonical", l[i])]
           b == [i \in DOMAIN l |-> EncodeElement("repr", l[i])]
           c == [i \in DOMAIN l |-> Ts!SerializeElement(l[i])]
<1>1. n \in Nat /\ DOMAIN l = 1..n
  BY DEF IsList
<1>2. \A i \in 1..n : /\ a[i] \in Seq(Nat) /\ b[i] \in Seq(Nat) /\ c[i] = a[i]
                      /\ "x" \notin DOMAIN l[i] => b[i] = a[i]
  BY <1>1, ElementText
<1>3. a = [i \in 1..n |-> a[i]] /\ b = [i \in 1..n |-> b[i]]
  BY <1>1
<1>4. c = a /\ ((\A i \in DOMAIN l : "x" \notin DOMAIN l[i]) => b = a)
  BY <1>1, <1>2
<1> HIDE DEF a, b, c
<1>5. ArrayText(a) \in Seq(Nat) /\ ArrayText(b) \in Seq(Nat)
  BY <1>1, <1>2, <1>3, TextTypes
<1>6. Ts!ArrayText(c) = ArrayText(a)
  BY Zenon, <1>4, SameTexts
<1>7. QED
  BY <1>4, <1>5, <1>6 DEF a, b, c

LEMMA StructureText ==
  ASSUME NEW s, IsTexted(s)
  PROVE  /\ EncodeStructure("canonical", s) \in Seq(Nat)
         /\ EncodeStructure("repr", s) \in Seq(Nat)
         /\ Ts!SerializeStructure(s) = EncodeStructure("canonical", s)
         /\ IsPlain(s) => EncodeStructure("repr", s) = EncodeStructure("canonical", s)
<1> DEFINE Fields(spelling) ==
             [k \in DOMAIN s |->
                IF k \in ObjectLists
                  THEN ArrayText([i \in DOMAIN s[k] |-> EncodeElement(spelling, s[k][i])])
                  ELSE EncodeValue(spelling, k, s[k])]
           a == Fields("canonical")
           b == Fields("repr")
           c == [k \in DOMAIN s |->
                   IF k \in ObjectLists
                     THEN Ts!ArrayText([i \in DOMAIN s[k] |-> Ts!SerializeElement(s[k][i])])
                     ELSE Ts!SerializeValue(k, s[k])]
<1>1. \A k \in DOMAIN s : /\ a[k] \in Seq(Nat) /\ b[k] \in Seq(Nat) /\ c[k] = a[k]
                          /\ IsPlain(s) => b[k] = a[k]
  <2> SUFFICES ASSUME NEW k \in DOMAIN s
               PROVE  /\ a[k] \in Seq(Nat) /\ b[k] \in Seq(Nat) /\ c[k] = a[k]
                      /\ IsPlain(s) => b[k] = a[k]
    OBVIOUS
  <2>1. CASE k \in ObjectLists
    <3>1. PICK n : IsList(s[k], n) /\ \A i \in 1..n : IsElement(s[k][i])
      BY <2>1 DEF IsTexted
    <3>2. IsPlain(s) => \A i \in DOMAIN s[k] : "x" \notin DOMAIN s[k][i]
      BY <2>1 DEF IsPlain
    <3>3. /\ a[k] = ArrayText([i \in DOMAIN s[k] |-> EncodeElement("canonical", s[k][i])])
          /\ b[k] = ArrayText([i \in DOMAIN s[k] |-> EncodeElement("repr", s[k][i])])
          /\ c[k] = Ts!ArrayText([i \in DOMAIN s[k] |-> Ts!SerializeElement(s[k][i])])
      BY <2>1
    <3> HIDE DEF a, b, c
    <3>4. QED
      BY <3>1, <3>2, <3>3, ElementsText
  <2>2. CASE k \notin ObjectLists
    <3>1. k \in {"entryNodeIds", "exitNodeIds"}
      BY <2>2 DEF IsTexted, Collections, ObjectLists
    <3>2. IsValue(k, s[k]) /\ k # "x"
      BY <3>1 DEF IsTexted, IsValue, TextLists
    <3>3. /\ a[k] = EncodeValue("canonical", k, s[k]) /\ b[k] = EncodeValue("repr", k, s[k])
          /\ c[k] = Ts!SerializeValue(k, s[k])
      BY <2>2
    <3> HIDE DEF a, b, c
    <3>4. QED
      BY <3>2, <3>3, ValueText
  <2>3. QED
    BY <2>1, <2>2
<1>2. DOMAIN a = DOMAIN s /\ DOMAIN b = DOMAIN s
  OBVIOUS
<1>3. c = a /\ (IsPlain(s) => b = a)
  BY <1>1
<1>4. /\ EncodeStructure("canonical", s) = ObjectText(a)
      /\ EncodeStructure("repr", s) = ObjectText(b)
      /\ Ts!SerializeStructure(s) = Ts!ObjectText(c)
  BY DEF EncodeStructure, Ts!SerializeStructure, ObjectLists
<1> HIDE DEF a, b, c
<1>5. ObjectText(a) \in Seq(Nat) /\ ObjectText(b) \in Seq(Nat)
  BY <1>1, <1>2, ObjectType
<1>6. QED
  BY Zenon, <1>3, <1>4, <1>5, SameTexts

-------------------------------------------------------------------------------
(* Graphs.                                                                   *)

IsTextedGraph(graph) ==
  /\ {"id", "structure"} \subseteq DOMAIN graph /\ DOMAIN graph \subseteq {"id", "x", "name", "structure"}
  /\ \A key \in DOMAIN graph \ {"structure"} : IsValue(key, graph[key])
  /\ IsTexted(graph.structure)

LEMMA GraphText ==
  ASSUME NEW graph, IsTextedGraph(graph)
  PROVE  /\ EncodeGraph("canonical", graph) \in Seq(Nat)
         /\ EncodeGraph("repr", graph) \in Seq(Nat)
         /\ Ts!SerializeGraph(graph) = EncodeGraph("canonical", graph)
         /\ "x" \notin DOMAIN graph /\ IsPlain(graph.structure)
              => EncodeGraph("repr", graph) = EncodeGraph("canonical", graph)
         /\ graph.id \in Codepoints
         /\ Opens(Opening(graph.id), EncodeGraph("canonical", graph))
         /\ Opens(Opening(graph.id), EncodeGraph("repr", graph))
<1> DEFINE Fields(spelling) ==
             [k \in DOMAIN graph |->
                IF k = "structure" THEN EncodeStructure(spelling, graph[k])
                                   ELSE EncodeValue(spelling, k, graph[k])]
           a == Fields("canonical")
           b == Fields("repr")
           c == [k \in DOMAIN graph |->
                   IF k = "structure" THEN Ts!SerializeStructure(graph[k])
                                      ELSE Ts!SerializeValue(k, graph[k])]
           plain == "x" \notin DOMAIN graph /\ IsPlain(graph.structure)
<1>1. \A k \in DOMAIN graph : /\ a[k] \in Seq(Nat) /\ b[k] \in Seq(Nat) /\ c[k] = a[k]
                              /\ plain => b[k] = a[k]
  <2> SUFFICES ASSUME NEW k \in DOMAIN graph
               PROVE  /\ a[k] \in Seq(Nat) /\ b[k] \in Seq(Nat) /\ c[k] = a[k]
                      /\ plain => b[k] = a[k]
    OBVIOUS
  <2>1. CASE k = "structure"
    <3>1. /\ a[k] = EncodeStructure("canonical", graph.structure)
          /\ b[k] = EncodeStructure("repr", graph.structure)
          /\ c[k] = Ts!SerializeStructure(graph.structure)
      BY <2>1
    <3> HIDE DEF a, b, c
    <3>2. QED
      BY <3>1, StructureText DEF IsTextedGraph
  <2>2. CASE k # "structure"
    <3>1. IsValue(k, graph[k]) /\ (plain => k # "x")
      BY <2>2 DEF IsTextedGraph
    <3>2. /\ a[k] = EncodeValue("canonical", k, graph[k]) /\ b[k] = EncodeValue("repr", k, graph[k])
          /\ c[k] = Ts!SerializeValue(k, graph[k])
      BY <2>2
    <3> HIDE DEF a, b, c, plain
    <3>3. QED
      BY <3>1, <3>2, ValueText
  <2>3. QED
    BY <2>1, <2>2
<1>2. DOMAIN a = DOMAIN graph /\ DOMAIN b = DOMAIN graph
  OBVIOUS
<1>3. c = a /\ (plain => b = a)
  BY <1>1
<1>4. /\ EncodeGraph("canonical", graph) = ObjectText(a)
      /\ EncodeGraph("repr", graph) = ObjectText(b)
      /\ Ts!SerializeGraph(graph) = Ts!ObjectText(c)
  BY DEF EncodeGraph, Ts!SerializeGraph
<1>5. graph.id \in Codepoints
  BY DEF IsTextedGraph, IsValue, TextLists
<1>6. a["id"] = JsonText(graph.id) /\ b["id"] = JsonText(graph.id)
  BY DEF IsTextedGraph, EncodeValue, TextLists
<1>7. "id" \in DOMAIN graph /\ DOMAIN graph \cap {"edges", "entryNodeIds", "exitNodeIds", "graphs"} = {}
  BY DEF IsTextedGraph
<1> HIDE DEF a, b, c, plain
<1>8. ObjectText(a) \in Seq(Nat) /\ ObjectText(b) \in Seq(Nat)
  BY <1>1, <1>2, ObjectType
<1>9. /\ Opens(<<123>> \o (<<34, 5, 34, 58>> \o a["id"]), ObjectText(a))
      /\ Opens(<<123>> \o (<<34, 5, 34, 58>> \o b["id"]), ObjectText(b))
  BY <1>1, <1>2, <1>7, ObjectType
<1>10. /\ Opens(Opening(graph.id), ObjectText(a))
       /\ Opens(Opening(graph.id), ObjectText(b))
  BY <1>6, <1>9 DEF Opening
<1>11. Ts!ObjectText(c) = ObjectText(a)
  BY Zenon, <1>3, SameTexts
<1>12. QED
  BY <1>3, <1>4, <1>5, <1>8, <1>10, <1>11 DEF plain

-------------------------------------------------------------------------------
(* The canonical form.                                                       *)

\* A structure whose elements can be told apart by their ids.
IsRegular(s) ==
  /\ DOMAIN s = Collections
  /\ s.entryNodeIds \in Seq(Codepoints) /\ s.exitNodeIds \in Seq(Codepoints)
  /\ \A f \in ObjectLists : \E n : Listed(s[f], n)
  /\ \A i \in DOMAIN s.joins : "sources" \in DOMAIN s.joins[i]

WithSorted(r, key) == IF key \in DOMAIN r THEN [r EXCEPT ![key] = Sorted(r[key])] ELSE r

LEMMA ListSorted ==
  ASSUME NEW r, Identified(r), NEW key \in {"interrupts", "sources"}
  PROVE  /\ Identified(WithSorted(r, key)) /\ WithSorted(r, key).id = r.id
         /\ key \in DOMAIN r => Ts!SortText(r[key]) = Sorted(r[key])
<1>1. CASE key \notin DOMAIN r
  BY <1>1 DEF WithSorted
<1>2. CASE key \in DOMAIN r
  <2>1. r[key] \in Seq(Codepoints)
    BY <1>2 DEF Identified, IsElement, IsValue, TextLists
  <2>2. PICK v : v = Sorted(r[key])
    OBVIOUS
  <2>3. v \in Seq(Codepoints) /\ Ts!SortText(r[key]) = v
    BY <2>1, <2>2, TextsAlike
  <2>4. PICK q : q = [r EXCEPT ![key] = v]
    OBVIOUS
  <2>5. DOMAIN q = DOMAIN r /\ \A k \in DOMAIN r : q[k] = IF k = key THEN v ELSE r[k]
    BY <2>4
  <2>6. IsValue(key, v)
    BY <2>3 DEF IsValue, TextLists
  <2>7. Identified(q) /\ q.id = r.id
    BY <2>5, <2>6 DEF Identified, IsElement
  <2>8. WithSorted(r, key) = q
    BY <1>2, <2>2, <2>4 DEF WithSorted
  <2>9. QED
    BY <2>2, <2>3, <2>7, <2>8
<1>3. QED
  BY <1>1, <1>2

\* The records of a list with one of their lists of texts sorted.
LEMMA ListedSorted ==
  ASSUME NEW l, NEW n, Listed(l, n), NEW key \in {"interrupts", "sources"}
  PROVE  Listed([i \in DOMAIN l |-> WithSorted(l[i], key)], n)
<1> DEFINE t == [i \in DOMAIN l |-> WithSorted(l[i], key)]
<1>1. n \in Nat /\ DOMAIN l = 1..n /\ \A i \in 1..n : Identified(l[i])
  BY DEF Listed, IsList
<1>2. \A i \in 1..n : t[i] = WithSorted(l[i], key)
  BY <1>1
<1>3. t = [i \in 1..n |-> t[i]]
  BY <1>1
<1> HIDE DEF t
<1>4. \A i \in 1..n : Identified(t[i]) /\ t[i].id = l[i].id
  BY <1>1, <1>2, ListSorted
<1>5. \A i, j \in 1..n : t[i].id = t[j].id => i = j
  BY <1>4 DEF Listed
<1>6. QED
  BY <1>1, <1>3, <1>4, <1>5 DEF Listed, IsList, t

\* Both packages give it the same canonical form, which they can write.
LEMMA StructureAlike ==
  ASSUME NEW graph, "structure" \in DOMAIN graph, IsRegular(graph.structure)
  PROVE  /\ Ts!CanonicalGraph(graph) = [graph EXCEPT !.structure = CanonicalStructure(graph.structure)]
         /\ IsTexted(CanonicalStructure(graph.structure))
<1> DEFINE s == graph.structure
           nodes == [i \in DOMAIN s.nodes |-> WithSorted(s.nodes[i], "interrupts")]
           joins == [i \in DOMAIN s.joins |-> WithSorted(s.joins[i], "sources")]
           canonical == [ nodes |-> ByKey(nodes), edges |-> ByKey(s.edges), joins |-> ByKey(joins),
                          entryNodeIds |-> Sorted(s.entryNodeIds), exitNodeIds |-> Sorted(s.exitNodeIds) ]
<1>1. PICK n, e, j : Listed(s.nodes, n) /\ Listed(s.edges, e) /\ Listed(s.joins, j)
  BY DEF IsRegular, ObjectLists
<1>2. Listed(nodes, n) /\ Listed(joins, j)
  BY <1>1, ListedSorted
<1>3. /\ Ts!SortCanonical(nodes) = ByKey(nodes) /\ Rearranges(ByKey(nodes), nodes, n)
      /\ Ts!SortCanonical(s.edges) = ByKey(s.edges) /\ Rearranges(ByKey(s.edges), s.edges, e)
      /\ Ts!SortCanonical(joins) = ByKey(joins) /\ Rearranges(ByKey(joins), joins, j)
  <2> HIDE DEF nodes, joins
  <2>1. QED
    BY <1>1, <1>2, RecordsAlike
<1>4. /\ Ts!SortText(s.entryNodeIds) = Sorted(s.entryNodeIds) /\ Sorted(s.entryNodeIds) \in Seq(Codepoints)
      /\ Ts!SortText(s.exitNodeIds) = Sorted(s.exitNodeIds) /\ Sorted(s.exitNodeIds) \in Seq(Codepoints)
  BY TextsAlike DEF IsRegular
<1>5. CanonicalStructure(s) = canonical
  <2>1. [i \in DOMAIN s.nodes |-> IF "interrupts" \in DOMAIN s.nodes[i]
                                   THEN [s.nodes[i] EXCEPT !.interrupts = Sorted(@)] ELSE s.nodes[i]] = nodes
    BY DEF WithSorted
  <2>2. [i \in DOMAIN s.joins |-> [s.joins[i] EXCEPT !.sources = Sorted(@)]] = joins
    BY DEF WithSorted, IsRegular
  <2> HIDE DEF nodes, joins
  <2>3. QED
    BY <2>1, <2>2 DEF CanonicalStructure
<1>6. Ts!CanonicalGraph(graph) = [graph EXCEPT !.structure = canonical]
  <2> DEFINE tsNodes == [i \in DOMAIN s.nodes |-> IF "interrupts" \in DOMAIN s.nodes[i]
                                   THEN [s.nodes[i] EXCEPT !.interrupts = Ts!SortText(@)] ELSE s.nodes[i]]
             tsJoins == [i \in DOMAIN s.joins |-> [s.joins[i] EXCEPT !.sources = Ts!SortText(@)]]
  <2>1. tsNodes = nodes
    <3>1. DOMAIN s.nodes = 1..n /\ \A i \in 1..n : Identified(s.nodes[i])
      BY <1>1 DEF Listed, IsList
    <3>2. \A i \in DOMAIN s.nodes : "interrupts" \in DOMAIN s.nodes[i] =>
            Ts!SortText(s.nodes[i].interrupts) = Sorted(s.nodes[i].interrupts)
      BY <3>1, ListSorted
    <3>3. QED
      BY <3>2 DEF WithSorted
  <2>2. tsJoins = joins
    <3>1. DOMAIN s.joins = 1..j /\ \A i \in 1..j : Identified(s.joins[i])
      BY <1>1 DEF Listed, IsList
    <3>2. \A i \in DOMAIN s.joins : /\ "sources" \in DOMAIN s.joins[i]
                                  /\ Ts!SortText(s.joins[i].sources) = Sorted(s.joins[i].sources)
      BY <3>1, ListSorted DEF IsRegular
    <3>3. QED
      BY <3>2 DEF WithSorted
  <2>3. Ts!CanonicalGraph(graph) =
          [graph EXCEPT !.structure =
            [ nodes |-> Ts!SortCanonical(tsNodes), edges |-> Ts!SortCanonical(s.edges),
              joins |-> Ts!SortCanonical(tsJoins),
              entryNodeIds |-> Ts!SortText(s.entryNodeIds), exitNodeIds |-> Ts!SortText(s.exitNodeIds) ]]
    BY DEF Ts!CanonicalGraph
  <2> HIDE DEF tsNodes, tsJoins, nodes, joins, s
  <2>4. QED
    BY Zenon, <1>3, <1>4, <2>1, <2>2, <2>3
<1>7. IsTexted(canonical)
  <2> DEFINE Fine(l) == \E m : IsList(l, m) /\ \A i \in 1..m : IsElement(l[i])
  <2>1. ASSUME NEW l, NEW t, NEW m, Listed(t, m), Rearranges(l, t, m) PROVE Fine(l)
    BY <2>1 DEF Listed, Rearranges, Identified
  <2>2. Fine(ByKey(nodes)) /\ Fine(ByKey(s.edges)) /\ Fine(ByKey(joins))
    <3> HIDE DEF Fine, nodes, joins
    <3>1. QED
      BY <1>1, <1>2, <1>3, <2>1
  <2>3. /\ canonical.nodes = ByKey(nodes) /\ canonical.edges = ByKey(s.edges) /\ canonical.joins = ByKey(joins)
        /\ canonical.entryNodeIds = Sorted(s.entryNodeIds) /\ canonical.exitNodeIds = Sorted(s.exitNodeIds)
        /\ DOMAIN canonical = {"nodes", "edges", "joins", "entryNodeIds", "exitNodeIds"}
    OBVIOUS
  <2> HIDE DEF canonical
  <2>4. \A f \in ObjectLists : Fine(canonical[f])
    <3> HIDE DEF Fine
    <3>1. QED
      BY <2>2, <2>3 DEF ObjectLists
  <2>5. DOMAIN canonical = Collections
    BY <2>3 DEF Collections
  <2>6. QED
    BY <1>4, <2>3, <2>4, <2>5 DEF IsTexted
<1>8. QED
  BY <1>5, <1>6, <1>7

\* A graph, and the graphs of a document, that can be told apart.
IsRegularGraph(graph) ==
  /\ {"id", "structure"} \subseteq DOMAIN graph /\ DOMAIN graph \subseteq {"id", "x", "name", "structure"}
  /\ \A key \in DOMAIN graph \ {"structure"} : IsValue(key, graph[key])
  /\ IsRegular(graph.structure)

IsRegularList(graphs, n) ==
  /\ IsList(graphs, n)
  /\ \A g \in 1..n : IsRegularGraph(graphs[g])
  /\ \A g, h \in 1..n : graphs[g].id = graphs[h].id => g = h

LEMMA GraphsAlike ==
  ASSUME NEW graphs, NEW n, IsList(graphs, n), \A g \in 1..n : IsTextedGraph(graphs[g]),
         \A g, h \in 1..n : graphs[g].id = graphs[h].id => g = h
  PROVE  /\ Ts!SortGraphs(graphs) = GraphsByKey(graphs)
         /\ Rearranges(GraphsByKey(graphs), graphs, n)
<1> DEFINE ids == [g \in 1..n |-> graphs[g].id]
           a == [g \in DOMAIN graphs |-> EncodeGraph("repr", graphs[g])]
           b == [g \in DOMAIN graphs |-> Ts!SerializeGraph(graphs[g])]
<1>1. n \in Nat /\ DOMAIN graphs = 1..n
  BY DEF IsList
<1>2. Distinct(ids, n)
  BY GraphText DEF Distinct
<1>3. OpenedBy(a, ids, n)
  BY <1>1, GraphText DEF OpenedBy, IsList
<1>4. OpenedBy(b, ids, n)
  BY <1>1, GraphText DEF OpenedBy, IsList
<1>5. /\ GraphsByKey(graphs) = Ordered(graphs, ByText(Once(a)))
      /\ Ts!SortGraphs(graphs) = Ts!Ordered(graphs, Ts!ByCompare(Ts!Once(b)))
  BY DEF GraphsByKey, Ts!SortGraphs
<1> HIDE DEF ids, a, b
<1>6. QED
  BY <1>2, <1>3, <1>4, <1>5, SortedAlike

LEMMA CanonicalizedAlike ==
  ASSUME NEW d, {"graphs", "status", "gaps"} \subseteq DOMAIN d, NEW n, IsRegularList(d.graphs, n)
  PROVE  /\ Ts!CanonicalizeDocument(d) = Canonicalize(d)
         /\ IsList(Canonicalize(d).graphs, n)
         /\ \A g \in 1..n : IsTextedGraph(Canonicalize(d).graphs[g])
         /\ Canonicalize(d).status = d.status /\ Canonicalize(d).gaps = d.gaps
<1> DEFINE graphs == d.graphs
           inner == [g \in DOMAIN graphs |->
                       [graphs[g] EXCEPT !.structure = CanonicalStructure(graphs[g].structure)]]
           tsInner == [g \in DOMAIN graphs |-> Ts!CanonicalGraph(graphs[g])]
<1>1. n \in Nat /\ DOMAIN graphs = 1..n /\ \A g \in 1..n : IsRegularGraph(graphs[g])
  BY DEF IsRegularList, IsList
<1>2. /\ Canonicalize(d) = [d EXCEPT !.graphs = GraphsByKey(Once(inner))]
      /\ Ts!CanonicalizeDocument(d) = [d EXCEPT !.graphs = Ts!SortGraphs(Ts!Once(tsInner))]
  <2>1. inner = [g \in DOMAIN graphs |-> [graphs[g] EXCEPT !.structure = CanonicalStructure(@)]]
    OBVIOUS
  <2>2. Canonicalize(d) = [d EXCEPT !.graphs = GraphsByKey(Once(inner))]
    BY Zenon, <2>1 DEF Canonicalize
  <2>3. Ts!CanonicalizeDocument(d) = [d EXCEPT !.graphs = Ts!SortGraphs(Ts!Once(tsInner))]
    BY Zenon DEF Ts!CanonicalizeDocument
  <2>4. QED
    BY <2>2, <2>3
<1>3. \A g \in 1..n : /\ tsInner[g] = inner[g]
                      /\ IsTextedGraph(inner[g]) /\ inner[g].id = graphs[g].id
  <2> SUFFICES ASSUME NEW g \in 1..n
               PROVE  /\ tsInner[g] = inner[g]
                      /\ IsTextedGraph(inner[g]) /\ inner[g].id = graphs[g].id
    OBVIOUS
  <2>1. PICK graph : graph = graphs[g]
    OBVIOUS
  <2>2. PICK s : s = CanonicalStructure(graph.structure)
    OBVIOUS
  <2>3. IsRegularGraph(graph) /\ "structure" \in DOMAIN graph
    BY <1>1, <2>1 DEF IsRegularGraph
  <2>4. Ts!CanonicalGraph(graph) = [graph EXCEPT !.structure = s] /\ IsTexted(s)
    BY <2>2, <2>3, StructureAlike DEF IsRegularGraph
  <2>5. inner[g] = [graph EXCEPT !.structure = s] /\ tsInner[g] = Ts!CanonicalGraph(graph)
    BY <1>1, <2>1, <2>2
  <2>6. PICK q : q = [graph EXCEPT !.structure = s]
    OBVIOUS
  <2>7. DOMAIN q = DOMAIN graph /\ \A k \in DOMAIN graph : q[k] = IF k = "structure" THEN s ELSE graph[k]
    BY <2>6
  <2>8. IsTextedGraph(q) /\ q.id = graph.id
    BY <2>3, <2>4, <2>7 DEF IsTextedGraph, IsRegularGraph
  <2>9. QED
    BY <2>1, <2>4, <2>5, <2>6, <2>8
<1>4. tsInner = inner
  BY <1>1, <1>3
<1>5. IsList(inner, n)
  BY <1>1 DEF IsList
<1>6. \A g, h \in 1..n : inner[g].id = inner[h].id => g = h
  BY <1>3 DEF IsRegularList
<1> HIDE DEF inner, tsInner
<1>7. Once(inner) = inner /\ Ts!Once(tsInner) = inner
  <2>1. Once(inner) = inner
    BY <1>5, OnceIsItself DEF IsList
  <2>2. Ts!Once(tsInner) = Once(inner)
    BY <1>4 DEF Ts!Once, Once
  <2>3. QED
    BY <2>1, <2>2
<1>8. PICK t : t = GraphsByKey(inner)
  OBVIOUS
<1>9. Ts!SortGraphs(inner) = t /\ Rearranges(t, inner, n)
  BY <1>3, <1>5, <1>6, <1>8, GraphsAlike
<1>10. IsList(t, n) /\ \A g \in 1..n : IsTextedGraph(t[g])
  BY <1>3, <1>9 DEF Rearranges
<1>11. Canonicalize(d) = [d EXCEPT !.graphs = t] /\ Ts!CanonicalizeDocument(d) = [d EXCEPT !.graphs = t]
  BY <1>2, <1>7, <1>8, <1>9
<1>12. PICK c : c = [d EXCEPT !.graphs = t]
  OBVIOUS
<1>13. c.graphs = t
  BY <1>12
<1>14. QED
  BY <1>10, <1>11, <1>12, <1>13

-------------------------------------------------------------------------------
(* The text and the hash of a document.                                      *)

LEMMA GraphsText ==
  ASSUME NEW graphs, NEW n, IsList(graphs, n), \A g \in 1..n : IsTextedGraph(graphs[g])
  PROVE  /\ Ts!SerializeGraphs(graphs) = EncodeGraphs("canonical", graphs)
         /\ (\A g \in 1..n : "x" \notin DOMAIN graphs[g] /\ IsPlain(graphs[g].structure))
              => EncodeGraphs("repr", graphs) = EncodeGraphs("canonical", graphs)
<1> DEFINE a == [g \in DOMAIN graphs |-> EncodeGraph("canonical", graphs[g])]
           b == [g \in DOMAIN graphs |-> EncodeGraph("repr", graphs[g])]
           c == [g \in DOMAIN graphs |-> Ts!SerializeGraph(graphs[g])]
<1>1. DOMAIN graphs = 1..n
  BY DEF IsList
<1>2. c = a /\ ((\A g \in 1..n : "x" \notin DOMAIN graphs[g] /\ IsPlain(graphs[g].structure)) => b = a)
  BY <1>1, GraphText
<1>3. /\ EncodeGraphs("canonical", graphs) = ArrayText(a)
      /\ EncodeGraphs("repr", graphs) = ArrayText(b)
      /\ Ts!SerializeGraphs(graphs) = Ts!ArrayText(c)
  BY DEF EncodeGraphs, Ts!SerializeGraphs
<1> HIDE DEF a, b, c
<1>4. Ts!ArrayText(c) = ArrayText(c)
  BY SameTexts, Zenon
<1>5. QED
  BY <1>2, <1>3, <1>4

LEMMA SelectedElement ==
  ASSUME NEW r, IsElement(r), NEW fields, "x" \notin fields
  PROVE  IsElement(SelectedFields(r, fields)) /\ "x" \notin DOMAIN SelectedFields(r, fields)
BY DEF SelectedFields, Restrict, IsElement

LEMMA SameSelection == \A r, fields : Ts!SelectFields(r, fields) = SelectedFields(r, fields)
BY DEF SelectedFields, Restrict, Ts!SelectFields

\* The records of a list with some of their fields.
Selected(l, fields) == [i \in DOMAIN l |-> SelectedFields(l[i], fields)]

LEMMA SelectedList ==
  ASSUME NEW l, NEW n, IsList(l, n), \A i \in 1..n : IsElement(l[i]), NEW fields, "x" \notin fields
  PROVE  /\ IsList(Selected(l, fields), n)
         /\ \A i \in 1..n : IsElement(Selected(l, fields)[i]) /\ "x" \notin DOMAIN Selected(l, fields)[i]
BY SelectedElement DEF IsList, Selected

Projected(graph) == [id |-> graph.id, structure |-> StructureProjection(graph.structure)]

LEMMA Projection ==
  ASSUME NEW graph, IsTextedGraph(graph)
  PROVE  /\ Ts!ProjectStructureV1(graph) = Projected(graph)
         /\ IsTextedGraph(Projected(graph))
         /\ "x" \notin DOMAIN Projected(graph) /\ IsPlain(Projected(graph).structure)
<1> DEFINE s == graph.structure
           nodes == Selected(s.nodes, {"id", "type", "subgraphId", "interrupts"})
           edges == Selected(s.edges, {"id", "source", "target", "kind"})
           joins == Selected(s.joins, {"id", "sources", "target"})
           p == [ nodes |-> nodes, edges |-> edges, joins |-> joins,
                  entryNodeIds |-> s.entryNodeIds, exitNodeIds |-> s.exitNodeIds ]
<1>1. IsTexted(s)
  BY DEF IsTextedGraph
<1>2. StructureProjection(s) = p
  BY DEF StructureProjection, Selected
<1>3. Ts!ProjectStructureV1(graph) = [id |-> graph.id, structure |-> p]
  BY Zenon, SameSelection DEF Ts!ProjectStructureV1, Selected
<1> DEFINE Fine(l) == \E m : /\ IsList(l, m)
                             /\ \A i \in 1..m : IsElement(l[i]) /\ "x" \notin DOMAIN l[i]
<1>4. Fine(nodes) /\ Fine(edges) /\ Fine(joins)
  <2>1. ASSUME NEW f \in ObjectLists, NEW fields, "x" \notin fields PROVE Fine(Selected(s[f], fields))
    BY <1>1, <2>1, SelectedList DEF IsTexted
  <2> HIDE DEF Fine
  <2>2. QED
    BY <2>1 DEF ObjectLists
<1>5. /\ DOMAIN p = Collections
      /\ p.nodes = nodes /\ p.edges = edges /\ p.joins = joins
      /\ p.entryNodeIds = s.entryNodeIds /\ p.exitNodeIds = s.exitNodeIds
  BY DEF Collections
<1> HIDE DEF p, nodes, edges, joins
<1>6. \A f \in ObjectLists : Fine(p[f])
  <2> HIDE DEF Fine
  <2>1. QED
    BY <1>4, <1>5 DEF ObjectLists
<1>7. IsTexted(p) /\ IsPlain(p)
  BY <1>1, <1>5, <1>6 DEF IsTexted, IsPlain, IsList
<1>8. Projected(graph) = [id |-> graph.id, structure |-> p]
  BY <1>2 DEF Projected
<1>9. PICK q : q = [id |-> graph.id, structure |-> p]
  OBVIOUS
<1>10. DOMAIN q = {"id", "structure"} /\ q.id = graph.id /\ q.structure = p
  BY <1>9
<1>11. IsValue("id", graph.id)
  BY DEF IsTextedGraph
<1>12. IsTextedGraph(q) /\ "x" \notin DOMAIN q /\ IsPlain(q.structure)
  BY <1>7, <1>10, <1>11 DEF IsTextedGraph
<1>13. QED
  BY <1>3, <1>8, <1>9, <1>12

LEMMA HashAlike ==
  ASSUME NEW graphs, NEW n, IsList(graphs, n), \A g \in 1..n : IsTextedGraph(graphs[g])
  PROVE  Ts!SerializeGraphs([g \in DOMAIN graphs |-> Ts!ProjectStructureV1(graphs[g])])
           = EncodeGraphs("repr", [g \in DOMAIN graphs |-> Projected(graphs[g])])
<1> DEFINE a == [g \in DOMAIN graphs |-> Projected(graphs[g])]
           b == [g \in DOMAIN graphs |-> Ts!ProjectStructureV1(graphs[g])]
<1>1. n \in Nat /\ DOMAIN graphs = 1..n
  BY DEF IsList
<1>2. b = a /\ IsList(a, n)
  BY <1>1, Projection DEF IsList
<1>3. \A g \in 1..n : /\ IsTextedGraph(a[g])
                      /\ "x" \notin DOMAIN a[g] /\ IsPlain(a[g].structure)
  BY <1>1, Projection
<1> HIDE DEF a, b
<1>4. Ts!SerializeGraphs(a) = EncodeGraphs("canonical", a) /\ EncodeGraphs("repr", a) = EncodeGraphs("canonical", a)
  BY <1>2, <1>3, GraphsText
<1>5. QED
  BY <1>2, <1>4 DEF a, b

-------------------------------------------------------------------------------
(* Refusals.                                                                 *)

LEMMA RefusedAlike ==
  ASSUME NEW d, NEW n, IsRegularList(d.graphs, n)
  PROVE  InRange(d) <=> ~Ts!Refused(d)
<1> DEFINE Holders(g) == {d.graphs[g]} \cup UNION {ToSet(d.graphs[g].structure[f]) :
                                                     f \in {"nodes", "edges", "joins"}}
<1>1. DOMAIN d.graphs = 1..n /\ \A g \in 1..n : IsRegularGraph(d.graphs[g])
  BY DEF IsRegularList, IsList
<1>2. ASSUME NEW x, IsNumber(x)
      PROVE  OutOfRange(x) <=>
               x.digits # << >> /\ (x.n > 309 \/ (x.n = 309 /\ Ts!CompareText(x.digits, LargestDigits) > 0))
  <2>1. x.digits \in Seq(Nat) /\ LargestDigits \in Seq(Nat)
    BY <1>2 DEF IsNumber, LargestDigits
  <2>2. Before(LargestDigits, x.digits) <=> Ts!CompareText(x.digits, LargestDigits) > 0
    BY <2>1, BeforeIsLess, CompareIsLess
  <2>3. QED
    BY <2>2 DEF OutOfRange
<1>3. Ts!LargestDigits = LargestDigits
  BY DEF Ts!LargestDigits, LargestDigits
<1>4. ASSUME NEW r, "x" \in DOMAIN r => IsNumber(r.x)
      PROVE  Ts!NotFinite(r) <=> "x" \in DOMAIN r /\ OutOfRange(r.x)
  BY <1>2, <1>3, <1>4 DEF Ts!NotFinite
<1>5. \A g \in DOMAIN d.graphs : "x" \in DOMAIN d.graphs[g] => IsNumber(d.graphs[g].x)
  BY <1>1 DEF IsRegularGraph, IsValue
<1>6. ASSUME NEW g \in DOMAIN d.graphs, NEW f \in {"nodes", "edges", "joins"},
             NEW i \in DOMAIN d.graphs[g].structure[f], "x" \in DOMAIN d.graphs[g].structure[f][i]
      PROVE  IsNumber(d.graphs[g].structure[f][i].x)
  <2>1. PICK m : Listed(d.graphs[g].structure[f], m)
    BY <1>1 DEF IsRegularGraph, IsRegular, ObjectLists
  <2>2. Identified(d.graphs[g].structure[f][i])
    BY <2>1 DEF Listed, IsList
  <2>3. QED
    BY <1>6, <2>2 DEF Identified, IsElement, IsValue
<1>7. NumbersOf(d) = {r.x : r \in {q \in UNION {Holders(g) : g \in DOMAIN d.graphs} : "x" \in DOMAIN q}}
  BY DEF NumbersOf
<1>8. (\E x \in NumbersOf(d) : OutOfRange(x)) <=>
        \E g \in DOMAIN d.graphs : \E r \in Holders(g) : "x" \in DOMAIN r /\ OutOfRange(r.x)
  <2> HIDE DEF Holders
  <2>1. QED
    BY <1>7
<1>9. \A g \in DOMAIN d.graphs :
        (\E r \in Holders(g) : "x" \in DOMAIN r /\ OutOfRange(r.x)) <=>
          \/ Ts!NotFinite(d.graphs[g])
          \/ \E f \in {"nodes", "edges", "joins"} : \E i \in DOMAIN d.graphs[g].structure[f] :
               Ts!NotFinite(d.graphs[g].structure[f][i])
  <2> SUFFICES ASSUME NEW g \in DOMAIN d.graphs
               PROVE  (\E r \in Holders(g) : "x" \in DOMAIN r /\ OutOfRange(r.x)) <=>
                        \/ Ts!NotFinite(d.graphs[g])
                        \/ \E f \in {"nodes", "edges", "joins"} : \E i \in DOMAIN d.graphs[g].structure[f] :
                             Ts!NotFinite(d.graphs[g].structure[f][i])
    OBVIOUS
  <2>1. Ts!NotFinite(d.graphs[g]) <=> "x" \in DOMAIN d.graphs[g] /\ OutOfRange(d.graphs[g].x)
    BY <1>4, <1>5
  <2>2. \A f \in {"nodes", "edges", "joins"} : \A i \in DOMAIN d.graphs[g].structure[f] :
          Ts!NotFinite(d.graphs[g].structure[f][i]) <=>
            "x" \in DOMAIN d.graphs[g].structure[f][i] /\ OutOfRange(d.graphs[g].structure[f][i].x)
    BY <1>4, <1>6
  <2>3. \A r : r \in Holders(g) <=>
          \/ r = d.graphs[g]
          \/ \E f \in {"nodes", "edges", "joins"} : \E i \in DOMAIN d.graphs[g].structure[f] :
               r = d.graphs[g].structure[f][i]
    BY DEF ToSet
  <2> HIDE DEF Holders
  <2>4. QED
    BY <2>1, <2>2, <2>3
<1>10. QED
  BY <1>8, <1>9 DEF InRange, Ts!Refused

-------------------------------------------------------------------------------
(* Derived join edges.                                                       *)

Links == [joinId : Codepoints, source : Codepoints, target : Codepoints]

LEMMA LinksOf ==
  ASSUME NEW s, IsStructure(s), IsRegular(s)
  PROVE  Ts!JoinLinks(s) = JoinLinks(s) /\ JoinLinks(s) \in Seq(Links)
<1> DEFINE Of(j) == [i \in DOMAIN s.joins[j].sources |->
                       [joinId |-> s.joins[j].id, source |-> s.joins[j].sources[i], target |-> s.joins[j].target]]
           lists == [j \in DOMAIN s.joins |-> Of(j)]
<1>1. PICK n : Listed(s.joins, n)
  BY DEF IsRegular, ObjectLists
<1>2. n \in Nat /\ DOMAIN s.joins = 1..n
  BY <1>1 DEF Listed, IsList
<1>3. ASSUME NEW j \in 1..n PROVE Of(j) \in Seq(Links)
  <2>1. PICK r : r = s.joins[j]
    OBVIOUS
  <2>2. Identified(r)
    BY <1>1, <2>1 DEF Listed
  <2>3. {"id", "sources", "target"} \subseteq DOMAIN r
    <3>1. r \in ToSet(s.joins)
      BY <1>2, <2>1 DEF ToSet
    <3>2. QED
      BY <3>1 DEF IsStructure
  <2>4. r.id \in Codepoints /\ r.sources \in Seq(Codepoints) /\ r.target \in Codepoints
    BY <2>2, <2>3 DEF Identified, IsElement, IsValue, TextLists
  <2>5. PICK sources : sources = r.sources
    OBVIOUS
  <2>6. Len(sources) \in Nat /\ DOMAIN sources = 1..Len(sources)
        /\ \A i \in 1..Len(sources) : sources[i] \in Codepoints
    BY <2>4, <2>5
  <2>7. [i \in 1..Len(sources) |-> [joinId |-> r.id, source |-> sources[i], target |-> r.target]]
          \in [1..Len(sources) -> Links]
    BY <2>4, <2>6 DEF Links
  <2>8. Of(j) = [i \in 1..Len(sources) |-> [joinId |-> r.id, source |-> sources[i], target |-> r.target]]
    BY <2>1, <2>5, <2>6
  <2> HIDE DEF Of
  <2>9. QED
    BY <2>6, <2>7, <2>8
<1>4. JoinLinks(s) = FlattenSeq(lists)
  BY DEF JoinLinks
<1>5. Ts!JoinLinks(s) = FlattenSeq(lists)
  BY DEF Ts!JoinLinks, Ts!FlattenSeq, FlattenSeq
<1>6. lists \in Seq(Seq(Links))
  <2>1. lists \in [1..n -> Seq(Links)]
    <3> HIDE DEF Of
    <3>1. QED
      BY <1>2, <1>3
  <2> HIDE DEF lists
  <2>2. QED
    BY <1>2, <2>1
<1> HIDE DEF lists
<1>7. QED
  BY <1>4, <1>5, <1>6, FlattenType

LEMMA DerivedAlike ==
  ASSUME NEW s, IsStructure(s), IsRegular(s)
  PROVE  DerivedJoinEdges(s) = Ts!DerivedJoinEdges(s)
<1> DEFINE links == JoinLinks(s)
           After(k) == {j \in DOMAIN links :
                          \/ Before(links[j].joinId, links[k].joinId)
                          \/ /\ links[j].joinId = links[k].joinId
                             /\ Before(links[j].source, links[k].source)
                                \/ (links[j].source = links[k].source /\ j < k)}
           Order(j, k) == IF Ts!CompareText(links[j].joinId, links[k].joinId) # 0
                            THEN Ts!CompareText(links[j].joinId, links[k].joinId)
                            ELSE Ts!CompareText(links[j].source, links[k].source)
           TsAfter(k) == {j \in DOMAIN links : Order(j, k) < 0 \/ (Order(j, k) = 0 /\ j < k)}
<1>1. Ts!JoinLinks(s) = links /\ links \in Seq(Links)
  BY LinksOf
<1>2. DerivedJoinEdges(s) = Ordered(links, [k \in DOMAIN links |-> Cardinality(After(k))])
  BY DEF DerivedJoinEdges
<1>3. Ts!DerivedJoinEdges(s) = Ts!Ordered(links, [k \in DOMAIN links |-> Ts!Cardinality(TsAfter(k))])
  BY <1>1, Zenon DEF Ts!DerivedJoinEdges
<1> HIDE DEF links
<1>4. \A k \in DOMAIN links : links[k].joinId \in Seq(Nat) /\ links[k].source \in Seq(Nat)
  <2>1. \A k \in DOMAIN links : links[k] \in Links
    BY <1>1
  <2>2. QED
    BY <2>1, CodepointsAreTexts DEF Links
<1>5. \A k \in DOMAIN links : TsAfter(k) = After(k)
  <2> SUFFICES ASSUME NEW j \in DOMAIN links, NEW k \in DOMAIN links
               PROVE  j \in TsAfter(k) <=> j \in After(k)
    OBVIOUS
  <2>1. PICK a, b, u, v : a = links[j].joinId /\ b = links[k].joinId
                          /\ u = links[j].source /\ v = links[k].source
    OBVIOUS
  <2>2. a \in Seq(Nat) /\ b \in Seq(Nat) /\ u \in Seq(Nat) /\ v \in Seq(Nat)
    BY <1>4, <2>1
  <2>3. /\ Ts!CompareText(a, b) < 0 <=> Before(a, b)
        /\ Ts!CompareText(a, b) = 0 <=> a = b
        /\ Ts!CompareText(u, v) < 0 <=> Before(u, v)
        /\ Ts!CompareText(u, v) = 0 <=> u = v
    BY <2>2, CompareIsLess, BeforeIsLess
  <2>4. a = b => ~Before(a, b)
    BY <2>2, BeforeIsLess, LessTotal
  <2>5. j \in After(k) <=> Before(a, b) \/ (a = b /\ (Before(u, v) \/ (u = v /\ j < k)))
    BY <2>1
  <2>6. j \in TsAfter(k) <=> Order(j, k) < 0 \/ (Order(j, k) = 0 /\ j < k)
    OBVIOUS
  <2>7. Order(j, k) = IF Ts!CompareText(a, b) # 0 THEN Ts!CompareText(a, b) ELSE Ts!CompareText(u, v)
    BY <2>1
  <2> HIDE DEF Order, After, TsAfter
  <2>8. CASE a = b
    <3>1. Order(j, k) = Ts!CompareText(u, v)
      BY <2>3, <2>7, <2>8
    <3>2. QED
      BY <2>3, <2>4, <2>5, <2>6, <2>8, <3>1, Zenon
  <2>9. CASE a # b
    <3>1. Order(j, k) = Ts!CompareText(a, b) /\ Order(j, k) # 0
      BY <2>3, <2>7, <2>9
    <3>2. QED
      BY <2>3, <2>5, <2>6, <2>9, <3>1, Zenon
  <2>10. QED
    BY <2>8, <2>9
<1> HIDE DEF After, TsAfter
<1>6. [k \in DOMAIN links |-> Ts!Cardinality(TsAfter(k))] = [k \in DOMAIN links |-> Cardinality(After(k))]
  BY <1>5, SameCardinality
<1>7. QED
  BY <1>2, <1>3, <1>6, SameOrdered

-------------------------------------------------------------------------------
(* An accepted document can be told apart everywhere.                        *)

LEMMA NoDuplicates ==
  ASSUME NEW l, \A r \in ToSet(l) : "id" \in DOMAIN r, Py!Duplicates(Placed(l)) = {},
         NEW i \in DOMAIN l, NEW j \in DOMAIN l, l[i].id = l[j].id
  PROVE  i = j
<1>1. \A k \in DOMAIN l : At(l, k).id = l[k].id /\ At(l, k).at = k
  BY AtFields DEF ToSet
<1>2. PICK y, z : y = At(l, i) /\ z = At(l, j)
  OBVIOUS
<1>3. y \in Placed(l) /\ z \in Placed(l) /\ y.id = z.id /\ y.at = i /\ z.at = j
  BY <1>1, <1>2, PlacedIs
<1>4. y = z
  BY <1>3 DEF Py!Duplicates
<1>5. QED
  BY <1>3, <1>4

LEMMA UniqueIds ==
  ASSUME NEW d, IsDocument(d), Accepted(d)
  PROVE  /\ \A g, h \in DOMAIN d.graphs : d.graphs[g].id = d.graphs[h].id => g = h
         /\ \A g \in DOMAIN d.graphs : \A f \in ObjectLists :
              Py!Duplicates(Placed(d.graphs[g].structure[f])) = {}
<1> DEFINE graphs == AsValidated(d).graphs
           ids == {graphs[i].id : i \in DOMAIN graphs}
<1>1. Py!ReferenceErrors(AsValidated(d)) = {}
  BY DEF Accepted, Py!ValidateDocument
<1>2. Py!DuplicateGraphIds(graphs) = {} /\ \A i \in DOMAIN graphs : Py!GraphErrors(graphs[i], ids) = {}
  BY <1>1, ZenonT(60) DEF Py!ReferenceErrors
<1>3. DOMAIN graphs = DOMAIN d.graphs
      /\ \A g \in DOMAIN d.graphs : graphs[g].id = d.graphs[g].id
                                    /\ graphs[g].structure = Read(d.graphs[g].structure)
  BY ReadFields
<1> HIDE DEF graphs, ids
<1>4. \A g, h \in DOMAIN d.graphs : d.graphs[g].id = d.graphs[h].id => g = h
  BY <1>2, <1>3 DEF Py!DuplicateGraphIds
<1>5. ASSUME NEW g \in DOMAIN d.graphs, NEW f \in ObjectLists
      PROVE  Py!Duplicates(Placed(d.graphs[g].structure[f])) = {}
  <2>1. Py!GraphErrors(graphs[g], ids) = {}
    BY <1>2, <1>3
  <2>2. /\ Py!Duplicates(graphs[g].structure.nodes) = {}
        /\ Py!Duplicates(graphs[g].structure.edges) = {}
        /\ Py!Duplicates(graphs[g].structure.joins) = {}
    BY <2>1, ZenonT(60) DEF Py!GraphErrors
  <2>3. /\ graphs[g].structure.nodes = Placed(d.graphs[g].structure.nodes)
        /\ graphs[g].structure.edges = Placed(d.graphs[g].structure.edges)
        /\ graphs[g].structure.joins = Placed(d.graphs[g].structure.joins)
    <3>1. PICK s : s = d.graphs[g].structure
      OBVIOUS
    <3>2. graphs[g].structure = Read(s)
      BY <1>3, <3>1
    <3>3. Read(s).nodes = Placed(s.nodes) /\ Read(s).edges = Placed(s.edges) /\ Read(s).joins = Placed(s.joins)
      BY DEF Read
    <3>4. QED
      BY <3>1, <3>2, <3>3
  <2>4. QED
    BY <2>2, <2>3 DEF ObjectLists
<1>6. QED
  BY <1>4, <1>5

LEMMA AcceptedIsRegular ==
  ASSUME NEW d, IsDocument(d), IsWritten(d), Accepted(d)
  PROVE  /\ IsRegularList(d.graphs, Len(d.graphs)) /\ DOMAIN d.graphs = 1..Len(d.graphs)
         /\ \A g \in DOMAIN d.graphs : IsRegular(d.graphs[g].structure)
<1>1. Array(d.graphs)
  BY DEF IsDocument
<1>2. PICK n : n = Len(d.graphs) /\ n \in Nat /\ DOMAIN d.graphs = 1..n
  BY <1>1, ArrayDomain
<1>3. ASSUME NEW l, Array(l) PROVE IsList(l, Len(l))
  <2>1. Len(l) \in Nat /\ l \in Seq(ToSet(l))
    BY <1>3 DEF Array
  <2>2. l = [i \in 1..Len(l) |-> l[i]]
    BY <2>1
  <2>3. QED
    BY <2>1, <2>2 DEF IsList
<1>4. ASSUME NEW g \in DOMAIN d.graphs PROVE IsRegular(d.graphs[g].structure)
  <2>1. PICK s : s = d.graphs[g].structure
    OBVIOUS
  <2>2. IsStructure(s)
    BY <2>1, StructureOf
  <2>3. /\ DOMAIN s = Collections
        /\ s.entryNodeIds \in Seq(Codepoints) /\ s.exitNodeIds \in Seq(Codepoints)
        /\ \A f \in ObjectLists : \A i \in DOMAIN s[f] : IsRecord(s[f][i], Named(f))
    BY <2>1 DEF IsWritten
  <2>4. ASSUME NEW f \in ObjectLists PROVE Listed(s[f], Len(s[f]))
    <3>1. Array(s[f])
      BY <2>2 DEF IsStructure, Collections, ObjectLists
    <3>2. IsList(s[f], Len(s[f])) /\ DOMAIN s[f] = 1..Len(s[f])
      BY <1>3, <3>1, ArrayDomain
    <3>3. \A i \in DOMAIN s[f] : Identified(s[f][i])
      BY <2>3, RecordIs
    <3>4. \A r \in ToSet(s[f]) : "id" \in DOMAIN r
      BY <3>3 DEF ToSet, Identified
    <3>5. Py!Duplicates(Placed(s[f])) = {}
      BY <2>1, UniqueIds
    <3>6. \A i, j \in DOMAIN s[f] : s[f][i].id = s[f][j].id => i = j
      BY <3>4, <3>5, NoDuplicates
    <3>7. QED
      BY <3>2, <3>3, <3>6 DEF Listed
  <2>5. \A i \in DOMAIN s.joins : "sources" \in DOMAIN s.joins[i]
    BY <2>2 DEF IsStructure, ToSet
  <2>6. QED
    BY <2>1, <2>3, <2>4, <2>5 DEF IsRegular
<1>5. ASSUME NEW g \in DOMAIN d.graphs PROVE IsRegularGraph(d.graphs[g])
  <2>1. PICK graph : graph = d.graphs[g]
    OBVIOUS
  <2>2. IsRecord(graph, {"name", "structure"})
    BY <2>1 DEF IsWritten
  <2>3. {"id", "structure"} \subseteq DOMAIN graph
    BY <2>1 DEF IsDocument, ToSet
  <2>4. DOMAIN graph \subseteq {"id", "x", "name", "structure"}
    BY <2>2 DEF IsRecord
  <2>5. \A key \in DOMAIN graph \ {"structure"} : IsValue(key, graph[key])
    BY <2>2 DEF IsRecord, IsValue
  <2>6. QED
    BY <1>4, <2>1, <2>3, <2>4, <2>5 DEF IsRegularGraph
<1>6. \A g, h \in 1..n : d.graphs[g].id = d.graphs[h].id => g = h
  BY <1>2, UniqueIds
<1>7. IsList(d.graphs, n)
  BY <1>1, <1>2, <1>3
<1>8. QED
  BY <1>2, <1>4, <1>5, <1>6, <1>7 DEF IsRegularList

LEMMA WrittenAlike ==
  ASSUME IsDocument(document), IsWritten(document)
  PROVE  LanguagesAgree
<1> SUFFICES ASSUME Accepted(document)
             PROVE  /\ IF InRange(document) THEN FinalizeDocument(document) = Ts!FinalizeDocument(document)
                       ELSE /\ FinalizeDocument(document)    = <<NumberDomainError, NumberDomainError>>
                            /\ Ts!FinalizeDocument(document) = <<<<"TypeError">>, <<"TypeError">>>>
                    /\ \A g \in DOMAIN document.graphs :
                         DerivedJoinEdges(document.graphs[g].structure)
                           = Ts!DerivedJoinEdges(document.graphs[g].structure)
  BY DEF LanguagesAgree
<1> DEFINE n == Len(document.graphs)
<1>1. /\ IsRegularList(document.graphs, n)
      /\ \A g \in DOMAIN document.graphs : IsRegular(document.graphs[g].structure)
  BY AcceptedIsRegular
<1> HIDE DEF n
<1>2. \A g \in DOMAIN document.graphs :
        DerivedJoinEdges(document.graphs[g].structure) = Ts!DerivedJoinEdges(document.graphs[g].structure)
  BY <1>1, DerivedAlike, StructureOf
<1>3. InRange(document) <=> ~Ts!Refused(document)
  BY <1>1, RefusedAlike
<1>4. InRange(document) <=> ~\E x \in NumbersOf(document) : OutOfRange(x)
  BY DEF InRange
<1>5. CASE ~InRange(document)
  <2>1. ComputeStructureHash(document) = NumberDomainError /\ CanonicalJson(document) = NumberDomainError
    BY <1>4, <1>5 DEF ComputeStructureHash, CanonicalJson
  <2>2. Ts!ComputeStructureHash(document) = <<"TypeError">> /\ Ts!CanonicalStringify(document) = <<"TypeError">>
    BY <1>3, <1>5 DEF Ts!ComputeStructureHash, Ts!CanonicalStringify
  <2>3. QED
    BY <1>2, <1>5, <2>1, <2>2 DEF FinalizeDocument, Ts!FinalizeDocument
<1>6. CASE InRange(document)
  <2>1. PICK c : c = Canonicalize(document)
    OBVIOUS
  <2>2. /\ Ts!CanonicalizeDocument(document) = c
        /\ IsList(c.graphs, n) /\ \A g \in 1..n : IsTextedGraph(c.graphs[g])
    BY <1>1, <2>1, CanonicalizedAlike DEF IsDocument
  <2>3. Ts!SerializeGraphs(c.graphs) = EncodeGraphs("canonical", c.graphs)
    BY <2>2, GraphsText
  <2>4. CanonicalJson(document) = Ts!CanonicalStringify(document)
    BY <1>3, <1>4, <1>6, <2>1, <2>2, <2>3 DEF CanonicalJson, Ts!CanonicalStringify
  <2>5. ComputeStructureHash(document) = EncodeGraphs("repr", [g \in DOMAIN c.graphs |-> Projected(c.graphs[g])])
    BY <1>4, <1>6, <2>1 DEF ComputeStructureHash, Projected
  <2>6. Ts!ComputeStructureHash(document)
          = Ts!SerializeGraphs([g \in DOMAIN c.graphs |-> Ts!ProjectStructureV1(c.graphs[g])])
    BY <1>3, <1>6, <2>2 DEF Ts!ComputeStructureHash
  <2>7. ComputeStructureHash(document) = Ts!ComputeStructureHash(document)
    BY <2>2, <2>5, <2>6, HashAlike
  <2>8. FinalizeDocument(document) = Ts!FinalizeDocument(document)
    BY <2>4, <2>7 DEF FinalizeDocument, Ts!FinalizeDocument
  <2>9. QED
    BY <1>2, <1>6, <2>8
<1>7. QED
  BY <1>5, <1>6

-------------------------------------------------------------------------------
(* Texts and numbers stay what they are.                                     *)

WrittenStructure(s) ==
  /\ DOMAIN s = Collections
  /\ s.entryNodeIds \in Seq(Codepoints) /\ s.exitNodeIds \in Seq(Codepoints)
  /\ \A f \in ObjectLists : \A i \in DOMAIN s[f] : IsRecord(s[f][i], Named(f))

WrittenGraph(graph) == IsRecord(graph, {"name", "structure"}) /\ WrittenStructure(graph.structure)

LEMMA WrittenIs == \A d : IsWritten(d) <=> \A g \in DOMAIN d.graphs : WrittenGraph(d.graphs[g])
BY DEF IsWritten, WrittenGraph, WrittenStructure

LEMMA RecordWith ==
  ASSUME NEW r, NEW named, IsRecord(r, named), NEW key \in TextLists, NEW v \in Seq(Codepoints)
  PROVE  IsRecord([r EXCEPT ![key] = v], named)
<1>1. PICK q : q = [r EXCEPT ![key] = v]
  OBVIOUS
<1>2. DOMAIN q = DOMAIN r /\ \A k \in DOMAIN r : q[k] = IF k = key THEN v ELSE r[k]
  BY <1>1
<1>3. key # "x"
  BY DEF TextLists
<1>4. QED
  BY <1>1, <1>2, <1>3 DEF IsRecord

LEMMA TextsSwapped ==
  ASSUME NEW s \in Seq(Codepoints), NEW i \in 1..Len(s) - 1
  PROVE  Swapped(s, i) \in Seq(Codepoints)
<1>1. Array(s)
  <2>1. s \in [1..Len(s) -> ToSet(s)] /\ Len(s) \in Nat
    BY DEF ToSet
  <2>2. QED
    BY <2>1 DEF Array
<1>2. PICK t : t = Swapped(s, i)
  OBVIOUS
<1>3. Array(t) /\ ToSet(t) \subseteq ToSet(s)
  BY <1>1, <1>2, SwapKeepsArray
<1>4. Len(t) \in Nat /\ DOMAIN t = 1..Len(t)
  BY <1>3, ArrayDomain
<1>5. t \in [1..Len(t) -> Codepoints]
  <2>1. \A k \in DOMAIN s : s[k] \in Codepoints
    OBVIOUS
  <2>2. \A k \in 1..Len(t) : t[k] \in Codepoints
    BY <1>3, <1>4, <2>1 DEF ToSet
  <2>3. t = [k \in 1..Len(t) |-> t[k]]
    BY <1>3, <1>4 DEF Array
  <2>4. QED
    BY <2>2, <2>3
<1>6. QED
  BY <1>2, <1>4, <1>5

\* The elements of a collection are replaced by others of the same kind.
LEMMA WrittenWith ==
  ASSUME NEW s, WrittenStructure(s), NEW f \in ObjectLists, NEW v,
         \A i \in DOMAIN v : IsRecord(v[i], Named(f))
  PROVE  WrittenStructure([s EXCEPT ![f] = v])
<1>1. PICK t : t = [s EXCEPT ![f] = v]
  OBVIOUS
<1>2. DOMAIN t = DOMAIN s /\ \A k \in DOMAIN s : t[k] = IF k = f THEN v ELSE s[k]
  BY <1>1
<1>3. DOMAIN t = Collections /\ t.entryNodeIds = s.entryNodeIds /\ t.exitNodeIds = s.exitNodeIds
  BY <1>2 DEF WrittenStructure, Collections, ObjectLists
<1>4. \A k \in ObjectLists : t[k] = IF k = f THEN v ELSE s[k]
  BY <1>2 DEF WrittenStructure, Collections, ObjectLists
<1>5. QED
  BY <1>1, <1>3, <1>4 DEF WrittenStructure

LEMMA ElementReplaced ==
  ASSUME NEW s, WrittenStructure(s), NEW f \in ObjectLists, NEW i \in DOMAIN s[f],
         NEW v, IsRecord(v, Named(f))
  PROVE  WrittenStructure([s EXCEPT ![f] = [s[f] EXCEPT ![i] = v]])
<1>1. PICK l : l = [s[f] EXCEPT ![i] = v]
  OBVIOUS
<1>2. DOMAIN l = DOMAIN s[f] /\ \A k \in DOMAIN l : l[k] = v \/ l[k] = s[f][k]
  BY <1>1
<1>3. \A k \in DOMAIN l : IsRecord(l[k], Named(f))
  BY <1>2 DEF WrittenStructure
<1>4. QED
  BY <1>1, <1>3, WrittenWith

LEMMA RestructureWritten ==
  ASSUME IsDocument(document), IsWritten(document), NEW g \in DOMAIN document.graphs,
         NEW s, WrittenStructure(s), Restructure(g, s)
  PROVE  IsWritten(document)'
<1>1. PICK graph : graph = [document.graphs[g] EXCEPT !.structure = s]
  OBVIOUS
<1>2. PICK graphs : graphs = [document.graphs EXCEPT ![g] = graph]
  OBVIOUS
<1>3. document' = [document EXCEPT !.graphs = graphs]
  BY <1>1, <1>2 DEF Restructure
<1>4. WrittenGraph(document.graphs[g]) /\ {"id", "structure"} \subseteq DOMAIN document.graphs[g]
  BY WrittenIs DEF IsDocument, ToSet
<1>5. /\ DOMAIN graph = DOMAIN document.graphs[g] /\ graph.structure = s
      /\ \A k \in DOMAIN graph : k # "structure" => graph[k] = document.graphs[g][k]
  BY <1>1, <1>4
<1>6. WrittenGraph(graph)
  BY <1>4, <1>5 DEF WrittenGraph, IsRecord, TextLists
<1>7. document'.graphs = graphs
  BY <1>3 DEF IsDocument
<1>8. \A h \in DOMAIN graphs : WrittenGraph(graphs[h])
  BY <1>2, <1>6, WrittenIs
<1>9. QED
  BY <1>7, <1>8, WrittenIs

LEMMA WrittenStructureOf ==
  ASSUME IsDocument(document), IsWritten(document), NEW g \in DOMAIN document.graphs
  PROVE  WrittenStructure(document.graphs[g].structure) /\ IsStructure(document.graphs[g].structure)
BY WrittenIs, StructureOf DEF WrittenGraph

LEMMA SwapGraphsWritten ==
  ASSUME IsDocument(document), IsWritten(document), SwapGraphs
  PROVE  IsWritten(document)'
<1>1. PICK i \in 1 .. Len(document.graphs) - 1 :
        document' = [document EXCEPT !.graphs = Swapped(document.graphs, i)]
  BY DEF SwapGraphs
<1>2. PICK graphs : graphs = Swapped(document.graphs, i)
  OBVIOUS
<1>3. ToSet(graphs) \subseteq ToSet(document.graphs)
  BY <1>2, SwapKeepsArray DEF IsDocument
<1>4. document'.graphs = graphs
  BY <1>1, <1>2 DEF IsDocument
<1>5. \A g \in DOMAIN graphs : WrittenGraph(graphs[g])
  BY <1>3, WrittenIs DEF ToSet
<1>6. QED
  BY <1>4, <1>5, WrittenIs

LEMMA SwapMembersWritten ==
  ASSUME IsDocument(document), IsWritten(document), SwapMembers
  PROVE  IsWritten(document)'
<1>1. PICK g \in DOMAIN document.graphs, f \in Collections :
        LET s == document.graphs[g].structure IN
        \E i \in 1 .. Len(s[f]) - 1 : Restructure(g, [s EXCEPT ![f] = Swapped(s[f], i)])
  BY DEF SwapMembers
<1>2. PICK s : s = document.graphs[g].structure
  OBVIOUS
<1>3. PICK i \in 1 .. Len(s[f]) - 1 : Restructure(g, [s EXCEPT ![f] = Swapped(s[f], i)])
  BY <1>1, <1>2
<1>4. WrittenStructure(s) /\ IsStructure(s)
  BY <1>2, WrittenStructureOf
<1>5. PICK v : v = Swapped(s[f], i)
  OBVIOUS
<1>6. WrittenStructure([s EXCEPT ![f] = v])
  <2>1. CASE f \in ObjectLists
    <3>1. ToSet(v) \subseteq ToSet(s[f])
      BY <1>4, <1>5, SwapKeepsArray DEF IsStructure
    <3>2. \A k \in DOMAIN v : IsRecord(v[k], Named(f))
      BY <1>4, <2>1, <3>1 DEF ToSet, WrittenStructure
    <3>3. QED
      BY <1>4, <2>1, <3>2, WrittenWith
  <2>2. CASE f \in {"entryNodeIds", "exitNodeIds"}
    <3>1. v \in Seq(Codepoints)
      BY <1>4, <1>5, <2>2, TextsSwapped DEF WrittenStructure
    <3>2. PICK t : t = [s EXCEPT ![f] = v]
      OBVIOUS
    <3>3. DOMAIN t = DOMAIN s /\ \A k \in DOMAIN s : t[k] = IF k = f THEN v ELSE s[k]
      BY <3>2
    <3>4. \A k \in Collections : t[k] = IF k = f THEN v ELSE s[k]
      BY <1>4, <3>3 DEF WrittenStructure
    <3>5. \A k \in ObjectLists : t[k] = s[k]
      BY <2>2, <3>4 DEF Collections, ObjectLists
    <3>6. t.entryNodeIds \in Seq(Codepoints) /\ t.exitNodeIds \in Seq(Codepoints)
      BY <1>4, <3>1, <3>4 DEF Collections, WrittenStructure
    <3>7. QED
      BY <1>4, <3>2, <3>3, <3>5, <3>6 DEF WrittenStructure
  <2>3. QED
    BY <2>1, <2>2 DEF Collections, ObjectLists
<1>7. QED
  BY <1>3, <1>5, <1>6, RestructureWritten

LEMMA SwapSourcesWritten ==
  ASSUME IsDocument(document), IsWritten(document), SwapSources
  PROVE  IsWritten(document)'
<1>1. PICK g \in DOMAIN document.graphs :
        LET s == document.graphs[g].structure IN
        \E j \in DOMAIN s.joins : \E i \in 1 .. Len(s.joins[j].sources) - 1 :
          Restructure(g, [s EXCEPT !.joins[j].sources = Swapped(@, i)])
  BY DEF SwapSources
<1>2. PICK s : s = document.graphs[g].structure
  OBVIOUS
<1>3. PICK j \in DOMAIN s.joins : \E i \in 1 .. Len(s.joins[j].sources) - 1 :
        Restructure(g, [s EXCEPT !.joins[j].sources = Swapped(s.joins[j].sources, i)])
  BY <1>1, <1>2
<1>4. PICK i \in 1 .. Len(s.joins[j].sources) - 1 :
        Restructure(g, [s EXCEPT !.joins[j].sources = Swapped(s.joins[j].sources, i)])
  BY <1>3
<1>5. WrittenStructure(s) /\ IsStructure(s) /\ "joins" \in ObjectLists
  BY <1>2, WrittenStructureOf DEF ObjectLists
<1>6. PICK r : r = s.joins[j]
  OBVIOUS
<1>7. IsRecord(r, Named("joins")) /\ "sources" \in DOMAIN r
  BY <1>5, <1>6 DEF WrittenStructure, IsStructure, ToSet
<1>8. r.sources \in Seq(Codepoints)
  BY <1>7 DEF IsRecord, TextLists
<1>9. PICK v : v = Swapped(r.sources, i)
  OBVIOUS
<1>10. v \in Seq(Codepoints)
  BY <1>6, <1>8, <1>9, TextsSwapped
<1>11. PICK q : q = [r EXCEPT !["sources"] = v]
  OBVIOUS
<1>12. IsRecord(q, Named("joins"))
  BY <1>7, <1>10, <1>11, RecordWith DEF TextLists
<1>13. WrittenStructure([s EXCEPT !["joins"] = [s["joins"] EXCEPT ![j] = q]])
  BY <1>5, <1>12, ElementReplaced
<1>14. Restructure(g, [s EXCEPT !["joins"] = [s["joins"] EXCEPT ![j] = q]])
  BY <1>4, <1>6, <1>9, <1>11
<1>15. QED
  BY <1>13, <1>14, RestructureWritten, SMTT(60)

LEMMA SwapInterruptsWritten ==
  ASSUME IsDocument(document), IsWritten(document), SwapInterrupts
  PROVE  IsWritten(document)'
<1>1. PICK g \in DOMAIN document.graphs :
        LET s == document.graphs[g].structure IN
        \E n \in DOMAIN s.nodes :
          /\ "interrupts" \in DOMAIN s.nodes[n]
          /\ Len(s.nodes[n].interrupts) = 2
          /\ Restructure(g, [s EXCEPT !.nodes[n].interrupts = Swapped(@, 1)])
  BY DEF SwapInterrupts
<1>2. PICK s : s = document.graphs[g].structure
  OBVIOUS
<1>3. PICK n \in DOMAIN s.nodes :
        /\ "interrupts" \in DOMAIN s.nodes[n]
        /\ Len(s.nodes[n].interrupts) = 2
        /\ Restructure(g, [s EXCEPT !.nodes[n].interrupts = Swapped(s.nodes[n].interrupts, 1)])
  BY <1>1, <1>2
<1>4. WrittenStructure(s) /\ "nodes" \in ObjectLists
  BY <1>2, WrittenStructureOf DEF ObjectLists
<1>5. PICK r : r = s.nodes[n]
  OBVIOUS
<1>6. IsRecord(r, Named("nodes")) /\ "interrupts" \in DOMAIN r
  BY <1>3, <1>4, <1>5 DEF WrittenStructure
<1>7. r.interrupts \in Seq(Codepoints)
  BY <1>6 DEF IsRecord, TextLists
<1>8. PICK v : v = Swapped(r.interrupts, 1)
  OBVIOUS
<1>9. v \in Seq(Codepoints)
  <2>1. 1 \in 1..Len(r.interrupts) - 1
    BY <1>3, <1>5
  <2>2. QED
    BY <1>7, <1>8, <2>1, TextsSwapped
<1>10. PICK q : q = [r EXCEPT !["interrupts"] = v]
  OBVIOUS
<1>11. IsRecord(q, Named("nodes"))
  BY <1>6, <1>9, <1>10, RecordWith DEF TextLists
<1>12. WrittenStructure([s EXCEPT !["nodes"] = [s["nodes"] EXCEPT ![n] = q]])
  BY <1>4, <1>11, ElementReplaced
<1>13. Restructure(g, [s EXCEPT !["nodes"] = [s["nodes"] EXCEPT ![n] = q]])
  BY <1>3, <1>5, <1>8, <1>10
<1>14. QED
  BY <1>12, <1>13, RestructureWritten, SMTT(60)

LEMMA AnnotateWritten ==
  ASSUME IsDocument(document), IsWritten(document), Annotate
  PROVE  IsWritten(document)'
<1>1. PICK x \in Annotations, g \in DOMAIN document.graphs :
        LET s == document.graphs[g].structure IN
        \E n \in DOMAIN s.nodes : Restructure(g, [s EXCEPT !.nodes[n] = Annotated(@, x)])
  BY DEF Annotate
<1>2. PICK s : s = document.graphs[g].structure
  OBVIOUS
<1>3. PICK n \in DOMAIN s.nodes : Restructure(g, [s EXCEPT !.nodes[n] = Annotated(s.nodes[n], x)])
  BY <1>1, <1>2
<1>4. WrittenStructure(s) /\ "nodes" \in ObjectLists
  BY <1>2, WrittenStructureOf DEF ObjectLists
<1>5. IsRecord(s.nodes[n], Named("nodes"))
  BY <1>4 DEF WrittenStructure
<1>6. PICK q : q = Annotated(s.nodes[n], x)
  OBVIOUS
<1>7. IsNumber(x)
  BY WrittenAssumption DEF HashedAssumption
<1>8. IsRecord(q, Named("nodes"))
  BY <1>5, <1>6, <1>7 DEF IsRecord, Annotated
<1>9. WrittenStructure([s EXCEPT !["nodes"] = [s["nodes"] EXCEPT ![n] = q]])
  BY <1>4, <1>8, ElementReplaced
<1>10. Restructure(g, [s EXCEPT !["nodes"] = [s["nodes"] EXCEPT ![n] = q]])
  BY <1>3, <1>6
<1>11. QED
  BY <1>9, <1>10, RestructureWritten

LEMMA WrittenAlways == Spec => []IsWritten(document)
<1>1. Init => IsWritten(document)
  BY WrittenAssumption DEF Init, HashedAssumption
<1>2. IsDocument(document) /\ IsWritten(document) /\ [Next]_vars => IsWritten(document)'
  <2>1. IsWritten(document) /\ Observe => IsWritten(document)'
    BY DEF Observe
  <2>2. IsWritten(document) /\ UNCHANGED vars => IsWritten(document)'
    BY DEF vars
  <2>3. QED
    BY <2>1, <2>2, SwapGraphsWritten, SwapMembersWritten, SwapSourcesWritten, SwapInterruptsWritten,
       AnnotateWritten DEF Next, Reorder
<1>3. QED
  BY <1>1, <1>2, ShapeAlways, PTL DEF Spec

\* The two packages agree on the canonical text, the hash and the derived join
\* edges of every accepted document.
THEOREM SameHash == Spec => []LanguagesAgree
<1>1. IsDocument(document) /\ IsWritten(document) => LanguagesAgree
  BY WrittenAlike
<1>2. QED
  BY <1>1, ShapeAlways, WrittenAlways, PTL

-------------------------------------------------------------------------------
(* Numbers are read back.                                                    *)

\* The text t has the digits p, after a point the digits q, and after an e the
\* sign and the digits w.
Layout(t, p, dot, q, e, sign, w) ==
  /\ t \in Seq(Nat) /\ p \in Digits /\ q \in Digits /\ w \in Digits /\ Len(p) >= 1
  /\ dot \in BOOLEAN /\ e \in BOOLEAN /\ sign \in {Plus, Minus}
  /\ \A i \in 1..Len(p) : t[i] = 48 + p[i]
  /\ IF dot THEN /\ t[Len(p) + 1] = Dot
                 /\ \A i \in 1..Len(q) : t[Len(p) + 1 + i] = 48 + q[i]
            ELSE Len(q) = 0
  /\ LET m == IF dot THEN Len(p) + 1 + Len(q) ELSE Len(p)
     IN  IF e THEN /\ Len(t) = m + 2 + Len(w) /\ t[m + 1] = ExpE /\ t[m + 2] = sign
                   /\ \A i \in 1..Len(w) : t[m + 2 + i] = 48 + w[i]
              ELSE Len(t) = m

Mantissa(p, dot, q) == IF dot THEN Len(p) + 1 + Len(q) ELSE Len(p)

LEMMA LayoutMarks ==
  ASSUME NEW t, NEW p, NEW dot, NEW q, NEW e, NEW sign, NEW w, Layout(t, p, dot, q, e, sign, w)
  PROVE  /\ Len(p) \in Nat /\ Len(q) \in Nat /\ Len(w) \in Nat /\ Len(t) \in Nat
         /\ Mantissa(p, dot, q) \in Nat /\ Len(p) <= Mantissa(p, dot, q)
         /\ Mantissa(p, dot, q) <= Len(t)
         /\ \A i \in 1..Len(t) : t[i] = ExpE <=> e /\ i = Mantissa(p, dot, q) + 1
         /\ \A i \in 1..Len(t) : t[i] = Dot <=> dot /\ i = Len(p) + 1
         /\ t[1] # Minus
<1> DEFINE m == Mantissa(p, dot, q)
<1>0. /\ t \in Seq(Nat) /\ p \in Seq(0..9) /\ q \in Seq(0..9) /\ w \in Seq(0..9) /\ Len(p) >= 1
      /\ dot \in BOOLEAN /\ e \in BOOLEAN /\ sign \in {Plus, Minus}
  BY Zenon DEF Layout, Digits
<1>1. /\ Len(p) \in Nat /\ Len(q) \in Nat /\ Len(w) \in Nat /\ Len(t) \in Nat
      /\ dot \in BOOLEAN /\ e \in BOOLEAN /\ Len(p) >= 1
  BY <1>0
<1>2. /\ \A i \in 1..Len(p) : p[i] \in 0..9
      /\ \A i \in 1..Len(q) : q[i] \in 0..9
      /\ \A i \in 1..Len(w) : w[i] \in 0..9
  BY <1>0
<1>3. /\ m \in Nat /\ Len(p) <= m
      /\ dot => m = Len(p) + 1 + Len(q)
      /\ ~dot => m = Len(p)
  BY <1>1 DEF Mantissa
<1>4. /\ \A i \in 1..Len(p) : t[i] = 48 + p[i]
      /\ dot => t[Len(p) + 1] = Dot
      /\ dot => \A i \in 1..Len(q) : t[Len(p) + 1 + i] = 48 + q[i]
      /\ e => /\ Len(t) = m + 2 + Len(w) /\ t[m + 1] = ExpE /\ t[m + 2] \in {Plus, Minus}
              /\ \A i \in 1..Len(w) : t[m + 2 + i] = 48 + w[i]
      /\ ~e => Len(t) = m
  BY DEF Layout, Mantissa
<1> HIDE DEF m
<1>5. ASSUME NEW i \in 1..Len(t)
      PROVE  \/ i <= Len(p) /\ t[i] \in 48..57
             \/ dot /\ i = Len(p) + 1 /\ t[i] = 46 /\ i <= m
             \/ dot /\ i > Len(p) + 1 /\ i <= m /\ t[i] \in 48..57
             \/ e /\ i = m + 1 /\ t[i] = 101
             \/ e /\ i = m + 2 /\ t[i] \in {43, 45}
             \/ e /\ i > m + 2 /\ t[i] \in 48..57
  <2>1. CASE i <= Len(p)
    <3>1. i \in 1..Len(p)
      BY <1>1, <2>1
    <3>2. t[i] = 48 + p[i] /\ p[i] \in 0..9
      BY <1>2, <1>4, <3>1
    <3>3. QED
      BY <2>1, <3>2, SMTT(60)
  <2>2. CASE i > Len(p) /\ i <= m
    <3>1. dot /\ m = Len(p) + 1 + Len(q)
      BY <1>1, <1>3, <2>2
    <3>2. CASE i = Len(p) + 1
      BY <1>4, <2>2, <3>1, <3>2 DEF Dot
    <3>3. CASE i # Len(p) + 1
      <4>1. PICK j : j = i - (Len(p) + 1)
        OBVIOUS
      <4>2. j \in 1..Len(q) /\ i = Len(p) + 1 + j
        BY <1>1, <2>2, <3>1, <3>3, <4>1
      <4>3. t[i] = 48 + q[j] /\ q[j] \in 0..9
        BY <1>2, <1>4, <3>1, <4>2
      <4>4. i > Len(p) + 1
        BY <1>1, <2>2, <3>3
      <4>5. t[i] \in 48..57
        BY <4>3, SMTT(60)
      <4>6. QED
        BY <2>2, <3>1, <4>4, <4>5
    <3>4. QED
      BY <3>2, <3>3
  <2>3. CASE i > m
    <3>1. e /\ Len(t) = m + 2 + Len(w)
      BY <1>1, <1>3, <1>4, <2>3
    <3>2. CASE i = m + 1
      BY <1>4, <3>1, <3>2 DEF ExpE
    <3>3. CASE i = m + 2
      BY <1>4, <3>1, <3>3 DEF Plus, Minus
    <3>4. CASE i # m + 1 /\ i # m + 2
      <4>1. PICK j : j = i - (m + 2)
        OBVIOUS
      <4>2. j \in 1..Len(w) /\ i = m + 2 + j /\ i > m + 2
        BY <1>1, <1>3, <2>3, <3>1, <3>4, <4>1
      <4>3. t[i] = 48 + w[j] /\ w[j] \in 0..9
        BY <1>2, <1>4, <3>1, <4>2
      <4>4. t[i] \in 48..57
        BY <4>3, SMTT(60)
      <4>5. QED
        BY <3>1, <4>2, <4>4
    <3>5. QED
      BY <3>2, <3>3, <3>4
  <2>4. QED
    BY <1>1, <1>3, <2>1, <2>2, <2>3
<1>10. /\ \A v \in 48..57 : v # 46 /\ v # 101
       /\ \A v \in {43, 45} : v # 46 /\ v # 101
       /\ 46 # 101 /\ 101 # 46
  OBVIOUS
<1>6. ASSUME NEW i \in 1..Len(t) PROVE t[i] = ExpE <=> e /\ i = m + 1
  <2>1. e => t[m + 1] = 101
    BY <1>4 DEF ExpE
  <2>2. t[i] = 101 => e /\ i = m + 1
    BY <1>5, <1>10, ZenonT(60)
  <2>3. QED
    BY <2>1, <2>2 DEF ExpE
<1>7. ASSUME NEW i \in 1..Len(t) PROVE t[i] = Dot <=> dot /\ i = Len(p) + 1
  <2>1. dot => t[Len(p) + 1] = 46
    BY <1>4 DEF Dot
  <2>2. t[i] = 46 => dot /\ i = Len(p) + 1
    BY <1>5, <1>10, ZenonT(60)
  <2>3. QED
    BY <2>1, <2>2 DEF Dot
<1>8. t[1] # Minus
  <2>1. 1 \in 1..Len(p)
    BY <1>1
  <2>2. t[1] = 48 + p[1] /\ p[1] \in 0..9
    BY <1>2, <1>4, <2>1
  <2>3. QED
    BY <2>2 DEF Minus
<1>9. m <= Len(t)
  BY <1>1, <1>3, <1>4
<1>11. QED
  BY <1>1, <1>3, <1>6, <1>7, <1>8, <1>9 DEF m

LEMMA CodesOf ==
  ASSUME NEW t, NEW lo \in Nat, NEW hi \in Nat, NEW s \in Digits, hi = lo + Len(s) - 1,
         \A i \in 1..Len(s) : t[lo + i - 1] = 48 + s[i]
  PROVE  Codes(t, lo, hi) = s
<1>1. Len(s) \in Nat /\ \A i \in 1..Len(s) : s[i] \in 0..9
  BY DEF Digits
<1>2. hi - lo + 1 = Len(s)
  BY <1>1
<1>3. Codes(t, lo, hi) = [i \in 1..Len(s) |-> t[lo + i - 1] - 48]
  BY <1>2 DEF Codes
<1>4. ASSUME NEW i \in 1..Len(s) PROVE t[lo + i - 1] - 48 = s[i]
  <2>1. t[lo + i - 1] = 48 + s[i] /\ s[i] \in 0..9
    BY <1>1
  <2>2. QED
    BY <2>1
<1>5. s = [i \in 1..Len(s) |-> s[i]]
  BY DEF Digits
<1>6. [i \in 1..Len(s) |-> t[lo + i - 1] - 48] = [i \in 1..Len(s) |-> s[i]]
  BY <1>4
<1>7. QED
  BY <1>3, <1>5, <1>6

\* The first position of c in the text t, or the one after the text.
LEMMA LayoutParts ==
  ASSUME NEW t, NEW p, NEW dot, NEW q, NEW e, NEW sign, NEW w, Layout(t, p, dot, q, e, sign, w)
  PROVE  /\ Contains(t, ExpE) <=> e
         /\ e => (CHOOSE i \in DOMAIN t : t[i] = ExpE) = Mantissa(p, dot, q) + 1
         /\ Contains(t, Dot) <=> dot
         /\ dot => (CHOOSE i \in DOMAIN t : t[i] = Dot) = Len(p) + 1
         /\ Codes(t, 1, Len(p)) = p
         /\ dot => Codes(t, Len(p) + 2, Mantissa(p, dot, q)) = q
         /\ e => /\ Codes(t, Mantissa(p, dot, q) + 3, Len(t)) = w
                 /\ t[Mantissa(p, dot, q) + 2] = sign
                 /\ Len(t) = Mantissa(p, dot, q) + 2 + Len(w)
         /\ ~e => Len(t) = Mantissa(p, dot, q)
         /\ dot => Mantissa(p, dot, q) = Len(p) + 1 + Len(q)
         /\ ~dot => Mantissa(p, dot, q) = Len(p) /\ q = << >>
<1> DEFINE m == Mantissa(p, dot, q)
<1>0. /\ t \in Seq(Nat) /\ p \in Digits /\ q \in Digits /\ w \in Digits
      /\ dot \in BOOLEAN /\ e \in BOOLEAN
  BY Zenon DEF Layout
<1>1. /\ \A i \in 1..Len(p) : t[i] = 48 + p[i]
      /\ dot => \A i \in 1..Len(q) : t[Len(p) + 1 + i] = 48 + q[i]
      /\ e => /\ Len(t) = m + 2 + Len(w) /\ t[m + 2] = sign
              /\ \A i \in 1..Len(w) : t[m + 2 + i] = 48 + w[i]
      /\ ~e => Len(t) = m
      /\ ~dot => Len(q) = 0
  BY DEF Layout, Mantissa
<1>2. /\ dot => m = Len(p) + 1 + Len(q)
      /\ ~dot => m = Len(p)
  BY DEF Mantissa
<1>3. /\ Len(p) \in Nat /\ Len(q) \in Nat /\ Len(w) \in Nat /\ Len(t) \in Nat
      /\ m \in Nat /\ Len(p) <= m /\ m <= Len(t)
      /\ \A i \in 1..Len(t) : t[i] = ExpE <=> e /\ i = m + 1
      /\ \A i \in 1..Len(t) : t[i] = Dot <=> dot /\ i = Len(p) + 1
  BY LayoutMarks
<1>4. DOMAIN t = 1..Len(t)
  BY <1>0
<1> HIDE DEF m
<1>5. e => m + 1 \in 1..Len(t)
  BY <1>1, <1>3
<1>6. dot => Len(p) + 1 \in 1..Len(t)
  BY <1>2, <1>3
<1>7. (Contains(t, ExpE) <=> e) /\ (Contains(t, Dot) <=> dot)
  BY <1>0, <1>3, <1>5, <1>6, Zenon DEF Contains
<1>8. e => (CHOOSE i \in DOMAIN t : t[i] = ExpE) = m + 1
  BY <1>3, <1>4, <1>5
<1>9. dot => (CHOOSE i \in DOMAIN t : t[i] = Dot) = Len(p) + 1
  BY <1>3, <1>4, <1>6
<1>10. Codes(t, 1, Len(p)) = p
  <2>1. \A i \in 1..Len(p) : t[1 + i - 1] = 48 + p[i]
    <3> SUFFICES ASSUME NEW i \in 1..Len(p) PROVE t[1 + i - 1] = 48 + p[i]
      OBVIOUS
    <3>1. 1 + i - 1 = i
      BY <1>3
    <3>2. QED
      BY <1>1, <3>1
  <2>2. Len(p) = 1 + Len(p) - 1 /\ 1 \in Nat
    BY <1>3
  <2>3. QED
    BY <1>0, <1>3, <2>1, <2>2, CodesOf
<1>11. ASSUME dot PROVE Codes(t, Len(p) + 2, m) = q
  <2> DEFINE lo == Len(p) + 2
  <2>1. \A i \in 1..Len(q) : t[lo + i - 1] = 48 + q[i]
    <3> SUFFICES ASSUME NEW i \in 1..Len(q) PROVE t[lo + i - 1] = 48 + q[i]
      OBVIOUS
    <3>1. lo + i - 1 = Len(p) + 1 + i
      BY <1>3
    <3>2. QED
      BY <1>1, <1>11, <3>1
  <2>2. m = lo + Len(q) - 1 /\ lo \in Nat
    BY <1>2, <1>3, <1>11
  <2> HIDE DEF lo
  <2>3. Codes(t, lo, m) = q
    BY <1>0, <1>3, <2>1, <2>2, CodesOf
  <2>4. QED
    BY <2>3 DEF lo
<1>12. ASSUME e PROVE Codes(t, m + 3, Len(t)) = w
  <2> DEFINE lo == m + 3
  <2>1. \A i \in 1..Len(w) : t[lo + i - 1] = 48 + w[i]
    <3> SUFFICES ASSUME NEW i \in 1..Len(w) PROVE t[lo + i - 1] = 48 + w[i]
      OBVIOUS
    <3>1. lo + i - 1 = m + 2 + i
      BY <1>3
    <3>2. QED
      BY <1>1, <1>12, <3>1
  <2>2. Len(t) = lo + Len(w) - 1 /\ lo \in Nat
    <3>1. Len(t) = m + 2 + Len(w)
      BY <1>1, <1>12, Zenon
    <3>2. QED
      BY <1>3, <3>1
  <2> HIDE DEF lo
  <2>3. Codes(t, lo, Len(t)) = w
    BY <1>0, <1>3, <2>1, <2>2, CodesOf
  <2>4. QED
    BY <2>3 DEF lo
<1>13. ~dot => q = << >>
  BY <1>0, <1>1 DEF Digits
<1>14. QED
  BY <1>1, <1>2, <1>7, <1>8, <1>9, <1>10, <1>11, <1>12, <1>13 DEF m

\* The number whose digits are all, its point after the first d - 1 of them.
Value(neg, all, d, exp) ==
  LET some == {i \in DOMAIN all : all[i] # 0}
      lo   == CHOOSE i \in some : \A j \in some : i <= j
      hi   == CHOOSE i \in some : \A j \in some : i >= j
  IN  IF some = {} THEN [neg |-> neg, digits |-> << >>, n |-> 0]
      ELSE [neg |-> neg, digits |-> SubSeq(all, lo, hi), n |-> d - lo + exp]

\* The text t of a number after its sign.
Signed(neg, t) == (IF neg THEN <<Minus>> ELSE << >>) \o t

\* What the part after an e says.
Exponent(e, sign, w) == IF e THEN (IF sign = Minus THEN -Natural(w) ELSE Natural(w)) ELSE 0

LEMMA SignedText ==
  ASSUME NEW t \in Seq(Nat), Len(t) >= 1, t[1] # Minus, NEW neg \in BOOLEAN,
         NEW text, text = Signed(neg, t)
  PROVE  /\ text[1] = Minus <=> neg
         /\ (IF text[1] = Minus THEN Tail(text) ELSE text) = t
         /\ Contains(text, ExpE) <=> Contains(t, ExpE)
<1>1. CASE neg
  <2>1. text = <<Minus>> \o t /\ <<Minus>> \in Seq(Nat)
    BY <1>1 DEF Minus, Signed
  <2>2. text[1] = Minus /\ Len(text) = Len(t) + 1 /\ text \in Seq(Nat)
    BY <2>1 DEF Minus
  <2>3. \A i \in 1..Len(t) : text[i + 1] = t[i]
    BY <2>1
  <2>4. Tail(text) = t
    <3>1. /\ Tail(text) \in Seq(Nat) /\ Len(Tail(text)) = Len(t)
          /\ \A i \in 1..Len(t) : Tail(text)[i] = text[i + 1]
      <4>1. text \in Seq(Nat) /\ text # << >> /\ Len(text) - 1 = Len(t) /\ Len(t) \in Nat
        BY <2>2
      <4>2. QED
        BY ONLY <4>1, HeadTailProperties
    <3>2. \A i \in 1..Len(t) : Tail(text)[i] = t[i]
      BY <2>3, <3>1
    <3>3. QED
      BY <3>1, <3>2, SeqEqual
  <2>5. Contains(t, ExpE) => Contains(text, ExpE)
    <3> SUFFICES ASSUME NEW i \in 1..Len(t), t[i] = ExpE PROVE Contains(text, ExpE)
      BY DEF Contains
    <3>1. i + 1 \in 1..Len(text) /\ text[i + 1] = ExpE
      BY <2>2, <2>3
    <3>2. QED
      BY <3>1 DEF Contains
  <2>6. Contains(text, ExpE) => Contains(t, ExpE)
    <3> SUFFICES ASSUME NEW i \in 1..Len(text), text[i] = ExpE PROVE Contains(t, ExpE)
      BY DEF Contains
    <3>1. i # 1
      BY <2>2 DEF Minus, ExpE
    <3>2. PICK j : j = i - 1
      OBVIOUS
    <3>3. j \in 1..Len(t) /\ i = j + 1
      BY <2>2, <3>1, <3>2
    <3>4. t[j] = ExpE
      BY <2>3, <3>3
    <3>5. QED
      BY <3>3, <3>4 DEF Contains
  <2>7. QED
    BY <1>1, <2>2, <2>4, <2>5, <2>6
<1>2. CASE ~neg
  <2>1. text = t
    BY <1>2 DEF Signed
  <2>2. QED
    BY <1>2, <2>1
<1>3. QED
  BY <1>1, <1>2

\* A parser reads the digits before and after the point as one sequence.
LEMMA ReadsLayout ==
  ASSUME NEW t, NEW p, NEW dot, NEW q, NEW e, NEW sign, NEW w, Layout(t, p, dot, q, e, sign, w),
         NEW neg \in BOOLEAN
  PROVE  /\ ReadNumber(Signed(neg, t)) = Value(neg, p \o q, Len(p) + 1, Exponent(e, sign, w))
         /\ Contains(Signed(neg, t), ExpE) <=> e
<1> DEFINE text == Signed(neg, t)
           m == Mantissa(p, dot, q)
           neg1 == text[1] = Minus
           t1 == IF neg1 THEN Tail(text) ELSE text
           e1 == IF Contains(t1, ExpE) THEN CHOOSE i \in DOMAIN t1 : t1[i] = ExpE ELSE Len(t1) + 1
           d1 == IF Contains(t1, Dot) THEN CHOOSE i \in DOMAIN t1 : t1[i] = Dot ELSE e1
           all1 == Codes(t1, 1, d1 - 1) \o (IF d1 < e1 THEN Codes(t1, d1 + 1, e1 - 1) ELSE << >>)
           exp1 == IF e1 > Len(t1) THEN 0
                   ELSE LET n == Natural(Codes(t1, e1 + 2, Len(t1)))
                        IN  IF t1[e1 + 1] = Minus THEN -n ELSE n
<1>1. ReadNumber(text) = Value(neg1, all1, d1, exp1)
  BY Zenon DEF ReadNumber, Value
<1>2. /\ t \in Seq(Nat) /\ p \in Seq(0..9) /\ q \in Seq(0..9) /\ e \in BOOLEAN /\ dot \in BOOLEAN
      /\ Len(p) >= 1
  BY Zenon DEF Layout, Digits
<1>3. /\ Len(p) \in Nat /\ Len(q) \in Nat /\ Len(w) \in Nat /\ Len(t) \in Nat
      /\ m \in Nat /\ Len(p) <= m /\ m <= Len(t) /\ t[1] # Minus
  BY LayoutMarks
<1>4. Len(t) >= 1
  BY <1>2, <1>3
<1>5. neg1 = neg /\ t1 = t /\ (Contains(text, ExpE) <=> Contains(t, ExpE))
  BY <1>2, <1>3, <1>4, SignedText
<1>6. /\ Contains(t, ExpE) <=> e
      /\ e => (CHOOSE i \in DOMAIN t : t[i] = ExpE) = m + 1
      /\ Contains(t, Dot) <=> dot
      /\ dot => (CHOOSE i \in DOMAIN t : t[i] = Dot) = Len(p) + 1
      /\ Codes(t, 1, Len(p)) = p
      /\ dot => Codes(t, Len(p) + 2, m) = q
      /\ e => /\ Codes(t, m + 3, Len(t)) = w /\ t[m + 2] = sign
              /\ Len(t) = m + 2 + Len(w)
      /\ ~e => Len(t) = m
      /\ dot => m = Len(p) + 1 + Len(q)
      /\ ~dot => m = Len(p) /\ q = << >>
  BY LayoutParts, SMTT(30)
<1> HIDE DEF m, neg1, t1, text
<1>7. e1 = m + 1
  <2>1. CASE e
    BY <1>5, <1>6, <2>1
  <2>2. CASE ~e
    BY <1>5, <1>6, <2>2
  <2>3. QED
    BY <2>1, <2>2
<1> HIDE DEF e1
<1>8. d1 = Len(p) + 1
  <2>1. CASE dot
    BY <1>5, <1>6, <2>1
  <2>2. CASE ~dot
    BY <1>5, <1>6, <1>7, <2>2
  <2>3. QED
    BY <2>1, <2>2
<1> HIDE DEF d1
<1>9. all1 = p \o q
  <2>1. d1 - 1 = Len(p) /\ d1 + 1 = Len(p) + 2 /\ e1 - 1 = m
    BY <1>3, <1>7, <1>8
  <2>2. d1 < e1 <=> dot
    BY <1>2, <1>3, <1>6, <1>7, <1>8
  <2>3. all1 = p \o (IF dot THEN q ELSE << >>)
    BY <1>5, <1>6, <2>1, <2>2
  <2>4. QED
    BY <1>6, <2>3
<1> HIDE DEF all1
<1>10. exp1 = Exponent(e, sign, w)
  <2>1. e1 + 1 = m + 2 /\ e1 + 2 = m + 3
    BY <1>3, <1>7
  <2>2. e1 > Len(t) <=> ~e
    BY <1>2, <1>3, <1>6, <1>7
  <2>3. QED
    BY <1>5, <1>6, <2>1, <2>2 DEF Exponent
<1> HIDE DEF exp1
<1>11. QED
  BY <1>1, <1>5, <1>6, <1>8, <1>9, <1>10 DEF text

\* all are the digits s with a zeros before them and only zeros after them.
AmongZeros(all, s, a) ==
  /\ all \in Digits /\ a + Len(s) <= Len(all)
  /\ \A i \in 1..a : all[i] = 0
  /\ \A i \in 1..Len(s) : all[a + i] = s[i]
  /\ \A i \in a + Len(s) + 1..Len(all) : all[i] = 0

\* The zeros around the digits are not read.
LEMMA ValueOf ==
  ASSUME NEW s \in Digits, s # << >>, s[1] # 0, s[Len(s)] # 0,
         NEW a \in Nat, NEW all, AmongZeros(all, s, a),
         NEW neg, NEW d, NEW exp
  PROVE  Value(neg, all, d, exp) = [neg |-> neg, digits |-> s, n |-> d - (a + 1) + exp]
<1> DEFINE k == Len(s)
           some == {i \in DOMAIN all : all[i] # 0}
           lo == CHOOSE i \in some : \A j \in some : i <= j
           hi == CHOOSE i \in some : \A j \in some : i >= j
<1>0. /\ all \in Digits /\ a + k <= Len(all)
      /\ \A i \in 1..a : all[i] = 0
      /\ \A i \in 1..k : all[a + i] = s[i]
      /\ \A i \in a + k + 1..Len(all) : all[i] = 0
  BY Zenon DEF AmongZeros
<1>1. /\ k \in Nat /\ k >= 1 /\ Len(all) \in Nat /\ DOMAIN all = 1..Len(all)
      /\ \A i \in 1..Len(all) : all[i] \in 0..9
  BY <1>0 DEF Digits
<1>2. a + 1 \in some /\ a + k \in some
  <2>1. 1 \in 1..k /\ k \in 1..k
    BY <1>1
  <2>2. all[a + 1] # 0 /\ all[a + k] # 0
    BY <1>0, <2>1
  <2>3. a + 1 \in 1..Len(all) /\ a + k \in 1..Len(all)
    BY <1>0, <1>1
  <2>4. QED
    BY <1>1, <2>2, <2>3
<1>3. \A j \in some : j \in Nat /\ a + 1 <= j /\ j <= a + k
  <2> SUFFICES ASSUME NEW j \in some PROVE j \in Nat /\ a + 1 <= j /\ j <= a + k
    OBVIOUS
  <2>1. j \in 1..Len(all) /\ all[j] # 0
    BY <1>1
  <2>2. j \notin 1..a
    BY <1>0, <2>1
  <2>3. j \notin a + k + 1..Len(all)
    BY <1>0, <2>1
  <2> HIDE DEF k
  <2>4. QED
    BY <1>1, <2>1, <2>2, <2>3
<1> HIDE DEF some, k
<1>4. lo = a + 1
  <2>1. lo \in some /\ \A j \in some : lo <= j
    BY <1>2, <1>3
  <2> HIDE DEF lo
  <2>2. QED
    BY <1>2, <1>3, <2>1
<1>5. hi = a + k
  <2>1. hi \in some /\ \A j \in some : hi >= j
    BY <1>1, <1>2, <1>3
  <2> HIDE DEF hi
  <2>2. QED
    BY <1>1, <1>2, <1>3, <2>1
<1>6. SubSeq(all, a + 1, a + k) = s
  <2>1. all \in Seq(0..9) /\ s \in Seq(0..9) /\ a + 1 \in Int /\ a + k \in Int
    BY <1>0, <1>1 DEF Digits
  <2>2. SubSeq(all, a + 1, a + k) = [i \in 1..a + k - (a + 1) + 1 |-> all[a + 1 + i - 1]]
    <3>1. a + k <= Len(all) /\ 1 <= a + 1
      BY <1>0
    <3>2. QED
      BY <1>1, <2>1, <3>1
  <2>3. a + k - (a + 1) + 1 = k
    BY <1>1
  <2>4. \A i \in 1..k : all[a + 1 + i - 1] = s[i]
    <3> SUFFICES ASSUME NEW i \in 1..k PROVE all[a + 1 + i - 1] = s[i]
      OBVIOUS
    <3>1. a + 1 + i - 1 = a + i
      OBVIOUS
    <3>2. QED
      BY <1>0, <3>1
  <2>5. s = [i \in 1..k |-> s[i]]
    BY <2>1 DEF k
  <2>6. [i \in 1..k |-> all[a + 1 + i - 1]] = [i \in 1..k |-> s[i]]
    BY <2>4
  <2>7. QED
    BY <2>2, <2>3, <2>5, <2>6
<1>7. some # {}
  BY <1>2
<1> HIDE DEF lo, hi
<1>8. Value(neg, all, d, exp) =
        IF some = {} THEN [neg |-> neg, digits |-> << >>, n |-> 0]
        ELSE [neg |-> neg, digits |-> SubSeq(all, lo, hi), n |-> d - lo + exp]
  BY Zenon DEF Value, some, lo, hi
<1>9. QED
  BY <1>4, <1>5, <1>6, <1>7, <1>8

\* An exponent is read back.
LEMMA NaturalOf ==
  ASSUME NEW m \in 0..999
  PROVE  Decimal(m) \in Digits /\ Natural(Decimal(m)) = m
<1>1. Decimal(m) \in Digits
  BY DecimalType
<1>2. CASE m < 10
  <2>1. Decimal(m) = <<m>>
    BY <1>2 DEF Decimal
  <2>2. Natural(<<m>>) = m
    BY DEF Natural
  <2>3. QED
    BY <1>1, <2>1, <2>2
<1>3. CASE m >= 10 /\ m < 100
  <2>1. PICK a, b \in 0..9 : a = m \div 10 /\ b = m % 10 /\ m = 10 * a + b
    BY <1>3
  <2>2. Decimal(m) = <<a, b>>
    BY <1>3, <2>1 DEF Decimal
  <2>3. Natural(<<a, b>>) = b + 10 * a
    BY DEF Natural
  <2>4. QED
    BY <1>1, <2>1, <2>2, <2>3
<1>4. CASE m >= 100
  <2>1. PICK a, b, c \in 0..9 : /\ a = m \div 100 /\ b = (m \div 10) % 10 /\ c = m % 10
                                /\ m = 100 * a + 10 * b + c
    BY <1>4
  <2>2. Decimal(m) = <<a, b, c>>
    BY <1>4, <2>1 DEF Decimal
  <2>3. Natural(<<a, b, c>>) = c + 10 * b + 100 * a
    BY DEF Natural
  <2>4. QED
    BY <1>1, <2>1, <2>2, <2>3, SMTT(60)
<1>5. QED
  BY <1>2, <1>3, <1>4

LEMMA TwoParts ==
  ASSUME NEW a \in Seq(Nat), NEW b \in Seq(Nat)
  PROVE  /\ a \o b \in Seq(Nat) /\ Len(a \o b) = Len(a) + Len(b)
         /\ Len(a) \in Nat /\ Len(b) \in Nat
         /\ \A i \in 1..Len(a) : (a \o b)[i] = a[i]
         /\ \A i \in 1..Len(b) : (a \o b)[Len(a) + i] = b[i]
OBVIOUS

LEMMA ThreeParts ==
  ASSUME NEW a \in Seq(Nat), NEW b \in Seq(Nat), NEW c \in Seq(Nat)
  PROVE  /\ a \o b \o c \in Seq(Nat) /\ Len(a \o b \o c) = Len(a) + Len(b) + Len(c)
         /\ \A i \in 1..Len(a) : (a \o b \o c)[i] = a[i]
         /\ \A i \in 1..Len(b) : (a \o b \o c)[Len(a) + i] = b[i]
         /\ \A i \in 1..Len(c) : (a \o b \o c)[Len(a) + Len(b) + i] = c[i]
<1>1. PICK ab : ab = a \o b
  OBVIOUS
<1>2. /\ ab \in Seq(Nat) /\ Len(ab) = Len(a) + Len(b) /\ Len(a) \in Nat /\ Len(b) \in Nat
      /\ \A i \in 1..Len(a) : ab[i] = a[i]
      /\ \A i \in 1..Len(b) : ab[Len(a) + i] = b[i]
  BY <1>1, TwoParts
<1>3. /\ ab \o c \in Seq(Nat) /\ Len(ab \o c) = Len(ab) + Len(c)
      /\ \A i \in 1..Len(ab) : (ab \o c)[i] = ab[i]
      /\ \A i \in 1..Len(c) : (ab \o c)[Len(ab) + i] = c[i]
  <2>1. ab \in Seq(Nat)
    BY <1>2
  <2>2. QED
    BY <2>1, TwoParts
<1>4. ASSUME NEW i \in 1..Len(b) PROVE (ab \o c)[Len(a) + i] = b[i]
  <2>1. Len(a) + i \in 1..Len(ab)
    BY <1>2
  <2>2. QED
    BY <1>2, <1>3, <2>1
<1>5. ASSUME NEW i \in 1..Len(a) PROVE (ab \o c)[i] = a[i]
  <2>1. i \in 1..Len(ab)
    BY <1>2
  <2>2. QED
    BY <1>2, <1>3, <2>1
<1>6. ASSUME NEW i \in 1..Len(c) PROVE (ab \o c)[Len(a) + Len(b) + i] = c[i]
  <2>1. Len(ab) = Len(a) + Len(b)
    BY <1>2
  <2>2. (ab \o c)[Len(ab) + i] = c[i]
    BY <1>3
  <2>3. QED
    BY <2>1, <2>2, Zenon
<1>7. ab \o c \in Seq(Nat) /\ Len(ab \o c) = Len(a) + Len(b) + Len(c)
  <2>1. Len(ab) = Len(a) + Len(b)
    BY <1>2
  <2>2. ab \o c \in Seq(Nat) /\ Len(ab \o c) = Len(ab) + Len(c)
    BY <1>3
  <2>3. QED
    BY <2>1, <2>2, Zenon
<1>8. QED
  BY <1>1, <1>4, <1>5, <1>6, <1>7, Zenon

LEMMA SpelledDigits ==
  ASSUME NEW s \in Digits
  PROVE  /\ Ascii(s) \in Seq(Nat) /\ Len(Ascii(s)) = Len(s) /\ Len(s) \in Nat
         /\ \A i \in 1..Len(s) : Ascii(s)[i] = 48 + s[i]
<1>1. s \in Seq(Nat) /\ Len(s) \in Nat
  BY DigitsAreNumbers DEF Digits
<1>2. QED
  BY <1>1, AsciiType

\* A mark before the digits s.
LEMMA MarkedDigits ==
  ASSUME NEW s \in Digits, NEW c \in Nat
  PROVE  /\ <<c>> \o Ascii(s) \in Seq(Nat) /\ Len(<<c>> \o Ascii(s)) = 1 + Len(s)
         /\ (<<c>> \o Ascii(s))[1] = c
         /\ \A i \in 1..Len(s) : (<<c>> \o Ascii(s))[1 + i] = 48 + s[i]
<1>1. PICK z : z = Ascii(s) /\ z \in Seq(Nat) /\ Len(z) = Len(s) /\ Len(s) \in Nat
               /\ \A i \in 1..Len(s) : z[i] = 48 + s[i]
  BY SpelledDigits
<1>2. /\ <<c>> \o z \in Seq(Nat) /\ Len(<<c>> \o z) = 1 + Len(z) /\ (<<c>> \o z)[1] = c
      /\ \A i \in 1..Len(z) : (<<c>> \o z)[1 + i] = z[i]
  <2>1. z \in Seq(Nat)
    BY <1>1
  <2>2. QED
    BY <2>1
<1>3. QED
  BY <1>1, <1>2

\* Two marks before them.
LEMMA TwiceMarkedDigits ==
  ASSUME NEW s \in Digits, NEW c \in Nat, NEW d \in Nat
  PROVE  /\ <<c, d>> \o Ascii(s) \in Seq(Nat) /\ Len(<<c, d>> \o Ascii(s)) = 2 + Len(s)
         /\ (<<c, d>> \o Ascii(s))[1] = c /\ (<<c, d>> \o Ascii(s))[2] = d
         /\ \A i \in 1..Len(s) : (<<c, d>> \o Ascii(s))[2 + i] = 48 + s[i]
<1>1. PICK z : z = Ascii(s) /\ z \in Seq(Nat) /\ Len(z) = Len(s) /\ Len(s) \in Nat
               /\ \A i \in 1..Len(s) : z[i] = 48 + s[i]
  BY SpelledDigits
<1>2. /\ <<c, d>> \o z \in Seq(Nat) /\ Len(<<c, d>> \o z) = 2 + Len(z)
      /\ (<<c, d>> \o z)[1] = c /\ (<<c, d>> \o z)[2] = d
      /\ \A i \in 1..Len(z) : (<<c, d>> \o z)[2 + i] = z[i]
  <2>1. z \in Seq(Nat)
    BY <1>1
  <2>2. QED
    BY <2>1, SMTT(60)
<1>3. QED
  BY <1>1, <1>2

LEMMA LayoutOf ==
  ASSUME NEW p \in Digits, Len(p) >= 1, NEW q \in Digits, NEW w \in Digits,
         NEW dot \in BOOLEAN, NEW e \in BOOLEAN, ~dot => q = << >>, NEW sign \in {Plus, Minus},
         NEW t, t = Ascii(p) \o (IF dot THEN <<Dot>> \o Ascii(q) ELSE << >>)
                             \o (IF e THEN <<ExpE, sign>> \o Ascii(w) ELSE << >>)
  PROVE  Layout(t, p, dot, q, e, sign, w)
<1>0. Dot \in Nat /\ ExpE \in Nat /\ sign \in Nat
  BY DEF Dot, ExpE, Plus, Minus
<1> DEFINE a == Ascii(p)
           b == IF dot THEN <<Dot>> \o Ascii(q) ELSE << >>
           c == IF e THEN <<ExpE, sign>> \o Ascii(w) ELSE << >>
<1>1. /\ a \in Seq(Nat) /\ Len(a) = Len(p) /\ Len(p) \in Nat
      /\ \A i \in 1..Len(p) : a[i] = 48 + p[i]
  BY SpelledDigits
<1>2. /\ b \in Seq(Nat)
      /\ dot => /\ Len(b) = 1 + Len(q) /\ b[1] = Dot
                /\ \A i \in 1..Len(q) : b[1 + i] = 48 + q[i]
      /\ ~dot => Len(b) = 0
  <2>1. CASE dot
    <3>1. /\ <<Dot>> \o Ascii(q) \in Seq(Nat)
          /\ Len(<<Dot>> \o Ascii(q)) = 1 + Len(q) /\ (<<Dot>> \o Ascii(q))[1] = Dot
          /\ \A i \in 1..Len(q) : (<<Dot>> \o Ascii(q))[1 + i] = 48 + q[i]
      BY <1>0, MarkedDigits
    <3>2. b = <<Dot>> \o Ascii(q)
      BY <2>1
    <3> HIDE DEF b
    <3>3. QED
      BY <2>1, <3>1, <3>2, Zenon
  <2>2. CASE ~dot
    BY <2>2
  <2>3. QED
    BY <2>1, <2>2
<1>3. /\ c \in Seq(Nat)
      /\ e => /\ Len(c) = 2 + Len(w) /\ c[1] = ExpE /\ c[2] = sign
              /\ \A i \in 1..Len(w) : c[2 + i] = 48 + w[i]
      /\ ~e => Len(c) = 0
  <2>1. CASE e
    <3>1. /\ <<ExpE, sign>> \o Ascii(w) \in Seq(Nat)
          /\ Len(<<ExpE, sign>> \o Ascii(w)) = 2 + Len(w)
          /\ (<<ExpE, sign>> \o Ascii(w))[1] = ExpE /\ (<<ExpE, sign>> \o Ascii(w))[2] = sign
          /\ \A i \in 1..Len(w) : (<<ExpE, sign>> \o Ascii(w))[2 + i] = 48 + w[i]
      <4>1. w \in Digits /\ ExpE \in Nat /\ sign \in Nat
        BY <1>0
      <4>2. QED
        BY ONLY <4>1, TwiceMarkedDigits, SMTT(30)
    <3>2. c = <<ExpE, sign>> \o Ascii(w)
      BY <2>1
    <3> HIDE DEF c
    <3>3. QED
      BY <2>1, <3>1, <3>2, Zenon
  <2>2. CASE ~e
    BY <2>2
  <2>3. QED
    BY <2>1, <2>2
<1>4. t = a \o b \o c
  OBVIOUS
<1> HIDE DEF a, b, c
<1>5. /\ t \in Seq(Nat) /\ Len(t) = Len(a) + Len(b) + Len(c)
      /\ \A i \in 1..Len(a) : t[i] = a[i]
      /\ \A i \in 1..Len(b) : t[Len(a) + i] = b[i]
      /\ \A i \in 1..Len(c) : t[Len(a) + Len(b) + i] = c[i]
  <2>1. a \in Seq(Nat) /\ b \in Seq(Nat) /\ c \in Seq(Nat)
    BY <1>1, <1>2, <1>3
  <2>2. QED
    BY ONLY <1>4, <2>1, ThreeParts, SMTT(30)
<1>6. Len(q) \in Nat /\ Len(w) \in Nat /\ (~dot => Len(q) = 0)
  BY DEF Digits
<1> DEFINE m == IF dot THEN Len(p) + 1 + Len(q) ELSE Len(p)
<1>7. m = Len(a) + Len(b) /\ m \in Nat
  <2>1. CASE dot
    <3>1. Len(a) = Len(p) /\ Len(p) \in Nat /\ Len(b) = 1 + Len(q)
      BY <1>1, <1>2, <2>1, Zenon
    <3>2. QED
      BY <1>6, <2>1, <3>1
  <2>2. CASE ~dot
    <3>1. Len(a) = Len(p) /\ Len(p) \in Nat /\ Len(b) = 0
      BY <1>1, <1>2, <2>2, Zenon
    <3>2. QED
      BY <2>2, <3>1
  <2>3. QED
    BY <2>1, <2>2
<1> HIDE DEF m
<1>8. \A i \in 1..Len(p) : t[i] = 48 + p[i]
  BY <1>1, <1>5
<1>9. ASSUME dot PROVE /\ t[Len(p) + 1] = Dot
                       /\ \A i \in 1..Len(q) : t[Len(p) + 1 + i] = 48 + q[i]
  <2>0. Len(b) = 1 + Len(q) /\ b[1] = Dot
    BY <1>2, <1>9, Zenon
  <2>1. 1 \in 1..Len(b) /\ t[Len(a) + 1] = b[1]
    <3>1. 1 \in 1..Len(b)
      BY <1>6, <2>0
    <3>2. QED
      BY <1>5, <3>1, Zenon
  <2>2. ASSUME NEW i \in 1..Len(q) PROVE t[Len(p) + 1 + i] = 48 + q[i]
    <3>1. 1 + i \in 1..Len(b) /\ Len(a) + (1 + i) = Len(p) + 1 + i
      BY <1>1, <1>2, <1>6, <1>9
    <3>2. t[Len(a) + (1 + i)] = b[1 + i] /\ b[1 + i] = 48 + q[i]
      BY <1>2, <1>5, <1>9, <3>1
    <3>3. QED
      BY <3>1, <3>2
  <2>3. QED
    BY <1>1, <1>2, <1>9, <2>1, <2>2
<1>10. ASSUME e PROVE /\ Len(t) = m + 2 + Len(w) /\ t[m + 1] = ExpE /\ t[m + 2] = sign
                      /\ \A i \in 1..Len(w) : t[m + 2 + i] = 48 + w[i]
  <2>1. /\ Len(c) = 2 + Len(w) /\ c[1] = ExpE /\ c[2] = sign
        /\ \A i \in 1..Len(w) : c[2 + i] = 48 + w[i]
    BY <1>3, <1>10
  <2>2. \A i \in 1..Len(c) : t[m + i] = c[i]
    BY <1>5, <1>7
  <2>3. 1 \in 1..Len(c) /\ 2 \in 1..Len(c)
    BY <1>6, <2>1
  <2>4. ASSUME NEW i \in 1..Len(w) PROVE t[m + 2 + i] = 48 + w[i]
    <3>1. 2 + i \in 1..Len(c) /\ m + (2 + i) = m + 2 + i
      BY <1>6, <1>7, <2>1
    <3>2. t[m + (2 + i)] = c[2 + i] /\ c[2 + i] = 48 + w[i]
      BY <2>1, <2>2, <3>1
    <3>3. QED
      BY <3>1, <3>2
  <2>5. t[m + 1] = ExpE /\ t[m + 2] = sign
    BY <2>1, <2>2, <2>3
  <2>6. Len(t) = m + 2 + Len(w)
    <3>1. Len(t) = Len(a) + Len(b) + Len(c) /\ Len(c) = 2 + Len(w)
      BY <1>5, <2>1, Zenon
    <3>2. m = Len(a) + Len(b) /\ m \in Nat /\ Len(w) \in Nat
      BY <1>6, <1>7
    <3>3. PICK y : y = Len(w)
      OBVIOUS
    <3>4. Len(t) = m + (2 + y) /\ y \in Nat
      BY <3>1, <3>2, <3>3, Zenon
    <3>5. m + (2 + y) = m + 2 + y
      BY <3>2, <3>4
    <3>6. QED
      BY <3>3, <3>4, <3>5, Zenon
  <2>7. QED
    BY <2>4, <2>5, <2>6
<1>11. ASSUME ~e PROVE Len(t) = m
  BY <1>3, <1>5, <1>7, <1>11
<1>12. QED
  BY <1>5, <1>6, <1>8, <1>9, <1>10, <1>11, Zenon DEF Layout, m

LEMMA JoinedDigits ==
  ASSUME NEW p \in Seq(0..9), NEW q \in Seq(0..9)
  PROVE  /\ p \o q \in Seq(0..9) /\ Len(p \o q) = Len(p) + Len(q)
         /\ \A i \in 1..Len(p) : (p \o q)[i] = p[i]
         /\ \A i \in 1..Len(q) : (p \o q)[Len(p) + i] = q[i]
OBVIOUS

LEMMA MagnitudeOf ==
  ASSUME NEW n \in -323..309
  PROVE  /\ Magnitude(n - 1) \in 0..999
         /\ n > 0 => Magnitude(n - 1) = n - 1
         /\ n <= 0 => Magnitude(n - 1) = 1 - n
<1>1. CASE n - 1 < 0
  BY <1>1 DEF Magnitude
<1>2. CASE n - 1 >= 0
  <2>1. Magnitude(n - 1) = n - 1
    BY <1>2 DEF Magnitude
  <2>2. QED
    BY <1>2, <2>1
<1>3. QED
  BY <1>1, <1>2

\* The text t is read as the digits s, a zeros before them and others after, with
\* the point after n of them.
Reads(t, s, n, p, q, w, dot, e, sign, a) ==
  /\ Layout(t, p, dot, q, e, sign, w)
  /\ AmongZeros(p \o q, s, a)
  /\ e <=> n \notin -5..21
  /\ Len(p) + 1 - (a + 1) + Exponent(e, sign, w) = n

\* What Body spells, by where the point falls.
LEMMA BodyLayout ==
  ASSUME NEW s \in Digits, s # << >>, NEW n \in -323..309
  PROVE  \E p, q, w \in Digits, dot, e \in BOOLEAN, sign \in {Plus, Minus}, a \in Nat :
           Reads(Body(s, n), s, n, p, q, w, dot, e, sign, a)
<1> DEFINE k == Len(s)
           Goal(p, q, w, dot, e, sign, a) == Reads(Body(s, n), s, n, p, q, w, dot, e, sign, a)
<1>1. k \in Nat /\ k >= 1 /\ s \in Seq(0..9) /\ \A i \in 1..k : s[i] \in 0..9
  BY DEF Digits
<1>2. << >> \in Digits /\ Plus \in {Plus, Minus} /\ Minus \in {Plus, Minus} /\ Len(<< >>) = 0
  BY DEF Digits
<1>3. CASE n \in k..21
  <2>1. n - k \in Nat
    BY <1>1, <1>3
  <2>2. PICK z : /\ z = Zeros(n - k) /\ z \in Seq(0..9) /\ Len(z) = n - k
                 /\ \A i \in 1..n - k : z[i] = 0
    BY <2>1, ZerosType DEF Digits
  <2>3. PICK p : p = s \o z
    OBVIOUS
  <2>4. /\ p \in Seq(0..9) /\ Len(p) = k + (n - k)
        /\ \A i \in 1..k : p[i] = s[i]
        /\ \A i \in 1..n - k : p[k + i] = z[i]
    BY <1>1, <2>2, <2>3
  <2>5. p \in Digits /\ Len(p) = n /\ Len(p) >= 1 /\ k <= n /\ n \in 1..21
    <3>1. p \in Digits
      BY <2>4 DEF Digits
    <3>2. k + (n - k) = n /\ n >= 1 /\ k <= n /\ n \in 1..21
      BY <1>1, <1>3
    <3>3. Len(p) = n
      BY <2>4, <3>2, Zenon
    <3>4. QED
      BY <3>1, <3>2, <3>3
  <2>6. Body(s, n) = Ascii(p)
    BY <1>3, <2>2, <2>3, Zenon DEF Body
  <2>7. Ascii(p) = Ascii(p) \o << >> \o << >>
    <3>1. Ascii(p) \in Seq(Nat)
      BY <2>5, SpelledDigits
    <3>2. QED
      BY <3>1
  <2>8. Layout(Body(s, n), p, FALSE, << >>, FALSE, Plus, << >>)
    BY <1>2, <2>5, <2>6, <2>7, LayoutOf
  <2>9. p \o << >> = p
    BY <2>4
  <2>10. \A i \in 0 + k + 1..Len(p \o << >>) : (p \o << >>)[i] = 0
    <3> SUFFICES ASSUME NEW i \in 0 + k + 1..Len(p) PROVE p[i] = 0
      BY <2>9
    <3>1. PICK j : j = i - k
      OBVIOUS
    <3>2. j \in 1..n - k /\ i = k + j
      BY <1>1, <2>5, <3>1
    <3>3. QED
      BY <2>2, <2>4, <3>2, ZenonT(60)
  <2>11. \A i \in 1..k : (p \o << >>)[0 + i] = s[i]
    <3> SUFFICES ASSUME NEW i \in 1..k PROVE p[0 + i] = s[i]
      BY <2>9
    <3>1. 0 + i = i
      OBVIOUS
    <3>2. QED
      BY <2>4, <3>1
  <2>12. /\ n \in -5..21 /\ Len(p) + 1 - (0 + 1) + 0 = n /\ 0 + k <= Len(p \o << >>)
         /\ p \o << >> \in Digits /\ 1..0 = {}
    BY <1>1, <2>5, <2>9
  <2>13. Goal(p, << >>, << >>, FALSE, FALSE, Plus, 0)
    BY <2>8, <2>10, <2>11, <2>12 DEF Reads, AmongZeros, Exponent
  <2> HIDE DEF Goal
  <2>14. \E pp, q, w \in Digits, dot, e \in BOOLEAN, sign \in {Plus, Minus}, a \in Nat :
           Goal(pp, q, w, dot, e, sign, a)
    <3>1. 0 \in Nat /\ FALSE \in BOOLEAN
      OBVIOUS
    <3>2. QED
      BY <1>2, <2>5, <2>13, <3>1, Zenon
  <2>15. QED
    BY <2>14 DEF Goal
<1>4. CASE n \in 1..21 /\ n < k
  <2>1. PICK p, q : p = SubSeq(s, 1, n) /\ q = SubSeq(s, n + 1, k)
    OBVIOUS
  <2>2. /\ p \in Seq(0..9) /\ Len(p) = n /\ n >= 1
        /\ \A i \in 1..n : p[i] = s[i]
    BY <1>1, <1>4, <2>1
  <2>3. /\ q \in Seq(0..9) /\ Len(q) = k - n
        /\ \A i \in 1..k - n : q[i] = s[n + i]
    <3>1. SubSeq(s, n + 1, k) = [i \in 1..k - (n + 1) + 1 |-> s[n + 1 + i - 1]]
      BY <1>1, <1>4
    <3>2. k - (n + 1) + 1 = k - n /\ k - n \in Nat
      BY <1>1, <1>4
    <3>3. q = [i \in 1..k - n |-> s[n + 1 + i - 1]]
      BY <2>1, <3>1, <3>2, Zenon
    <3>4. ASSUME NEW i \in 1..k - n PROVE s[n + 1 + i - 1] = s[n + i] /\ s[n + i] \in 0..9
      <4>1. n + 1 + i - 1 = n + i /\ n + i \in 1..k
        BY <1>1, <1>4, SMTT(60)
      <4>2. QED
        BY <1>1, <4>1
    <3>5. PICK j \in Nat : j = k - n
      BY <3>2, ZenonT(60)
    <3>6. /\ q = [i \in 1..j |-> s[n + 1 + i - 1]]
          /\ \A i \in 1..j : s[n + 1 + i - 1] = s[n + i] /\ s[n + i] \in 0..9
      BY <3>3, <3>4, <3>5, Zenon
    <3>7. q = [i \in 1..j |-> s[n + i]]
      BY <3>6
    <3>8. q \in Seq(0..9) /\ Len(q) = j /\ \A i \in 1..j : q[i] = s[n + i]
      BY <3>6, <3>7
    <3>9. QED
      BY <3>5, <3>8, Zenon
  <2>4. p \in Digits /\ q \in Digits /\ Len(p) >= 1
    BY <2>2, <2>3 DEF Digits
  <2>5. Body(s, n) = Ascii(p) \o <<Dot>> \o Ascii(q)
    <3>1. n \notin k..21
      BY <1>1, <1>4
    <3>2. QED
      BY <1>4, <2>1, <3>1, ZenonT(60) DEF Body
  <2>6. Ascii(p) \o <<Dot>> \o Ascii(q) = Ascii(p) \o (<<Dot>> \o Ascii(q)) \o << >>
    <3>1. Ascii(p) \in Seq(Nat) /\ Ascii(q) \in Seq(Nat) /\ <<Dot>> \in Seq(Nat)
      BY <2>4, SpelledDigits DEF Dot
    <3>2. QED
      BY <3>1
  <2>7. Layout(Body(s, n), p, TRUE, q, FALSE, Plus, << >>)
    BY <1>2, <2>4, <2>5, <2>6, LayoutOf
  <2>8. /\ p \o q \in Seq(0..9) /\ Len(p \o q) = n + (k - n)
        /\ \A i \in 1..n : (p \o q)[i] = s[i]
        /\ \A i \in 1..k - n : (p \o q)[n + i] = q[i]
    <3>1. /\ p \o q \in Seq(0..9) /\ Len(p \o q) = Len(p) + Len(q)
          /\ \A i \in 1..Len(p) : (p \o q)[i] = p[i]
          /\ \A i \in 1..Len(q) : (p \o q)[Len(p) + i] = q[i]
      BY <2>2, <2>3, JoinedDigits, Zenon
    <3>2. QED
      BY <2>2, <2>3, <3>1, Zenon
  <2>9. p \o q \in Digits /\ Len(p \o q) = k
    BY <1>1, <1>4, <2>8 DEF Digits
  <2>10. \A i \in 1..k : (p \o q)[0 + i] = s[i]
    <3>1. \A i \in 1..k : 0 + i = i
      OBVIOUS
    <3> SUFFICES ASSUME NEW i \in 1..k PROVE (p \o q)[i] = s[i]
      BY <3>1
    <3>2. CASE i <= n
      <4>1. i \in 1..n
        BY <1>4, <3>2
      <4>2. QED
        BY <2>8, <4>1, Zenon
    <3>3. CASE i > n
      <4>1. PICK j : j = i - n
        OBVIOUS
      <4>2. j \in 1..k - n /\ i = n + j
        BY <1>1, <1>4, <3>3, <4>1
      <4>3. QED
        BY <2>3, <2>8, <4>2
    <3>4. i <= n \/ i > n
      BY <1>4
    <3>5. QED
      BY <3>2, <3>3, <3>4, Zenon
  <2>11. /\ n \in -5..21 /\ Len(p) + 1 - (0 + 1) + 0 = n /\ 0 + k <= Len(p \o q)
         /\ 0 + k + 1..Len(p \o q) = {} /\ 1..0 = {}
    BY <1>1, <1>4, <2>2, <2>9
  <2>12. Goal(p, q, << >>, TRUE, FALSE, Plus, 0)
    BY <2>7, <2>9, <2>10, <2>11 DEF Reads, AmongZeros, Exponent
  <2> HIDE DEF Goal
  <2>13. \E pp, qq, w \in Digits, dot, e \in BOOLEAN, sign \in {Plus, Minus}, a \in Nat :
           Goal(pp, qq, w, dot, e, sign, a)
    <3>1. 0 \in Nat /\ FALSE \in BOOLEAN /\ TRUE \in BOOLEAN
      OBVIOUS
    <3>2. QED
      BY <1>2, <2>4, <2>12, <3>1, Zenon
  <2>14. QED
    BY <2>13 DEF Goal
<1>5. CASE n \in -5..0
  <2>1. -n \in Nat /\ n \notin k..21 /\ n \notin 1..21
    BY <1>1, <1>5
  <2>2. PICK z : /\ z = Zeros(-n) /\ z \in Seq(0..9) /\ Len(z) = -n
                 /\ \A i \in 1..-n : z[i] = 0
    BY <2>1, ZerosType, SMTT(60) DEF Digits
  <2>3. PICK p, q : p = <<0>> /\ q = z \o s
    OBVIOUS
  <2>4. p \in Seq(0..9) /\ Len(p) = 1 /\ p[1] = 0
    BY <2>3
  <2>5. /\ q \in Seq(0..9) /\ Len(q) = -n + k
        /\ \A i \in 1..-n : q[i] = 0
        /\ \A i \in 1..k : q[-n + i] = s[i]
    BY <1>1, <2>1, <2>2, <2>3, SMTT(60)
  <2>6. p \in Digits /\ q \in Digits /\ Len(p) >= 1
    BY <2>4, <2>5 DEF Digits
  <2>7. Body(s, n) = <<48, Dot>> \o Ascii(q)
    BY <1>5, <2>1, <2>2, <2>3, ZenonT(60) DEF Body
  <2>8. Ascii(p) = <<48>>
    <3>1. Ascii(p) \in Seq(Nat) /\ Len(Ascii(p)) = 1 /\ Ascii(p)[1] = 48
      <4>1. 1 \in 1..Len(p) /\ 48 + p[1] = 48
        BY <2>4
      <4>2. QED
        BY <2>4, <2>6, <4>1, SpelledDigits
    <3>2. QED
      BY <3>1
  <2>9. <<48, Dot>> \o Ascii(q) = <<48>> \o (<<Dot>> \o Ascii(q)) \o << >>
    <3>1. PICK y : y = Ascii(q) /\ y \in Seq(Nat)
      BY <2>6, SpelledDigits
    <3>2. PICK d \in Nat : d = Dot
      BY DEF Dot
    <3>3. <<48, d>> \o y = <<48>> \o (<<d>> \o y) \o << >>
      BY <3>1
    <3>4. QED
      BY <3>1, <3>2, <3>3, Zenon
  <2>10. Layout(Body(s, n), p, TRUE, q, FALSE, Plus, << >>)
    BY <1>2, <2>6, <2>7, <2>8, <2>9, LayoutOf
  <2> DEFINE a == 1 - n
  <2>11. /\ p \o q \in Seq(0..9) /\ Len(p \o q) = 1 + (-n + k) /\ (p \o q)[1] = 0
         /\ \A i \in 1..-n + k : (p \o q)[1 + i] = q[i]
    <3>1. /\ p \o q \in Seq(0..9) /\ Len(p \o q) = Len(p) + Len(q)
          /\ \A i \in 1..Len(p) : (p \o q)[i] = p[i]
          /\ \A i \in 1..Len(q) : (p \o q)[Len(p) + i] = q[i]
      BY <2>4, <2>5, JoinedDigits, Zenon
    <3>2. 1 \in 1..1
      OBVIOUS
    <3>3. QED
      BY <2>4, <2>5, <3>1, <3>2, Zenon
  <2>12. p \o q \in Digits /\ Len(p \o q) = a + k /\ a \in Nat /\ a >= 1
    BY <1>1, <1>5, <2>11 DEF Digits
  <2>13. \A i \in 1..a : (p \o q)[i] = 0
    <3> SUFFICES ASSUME NEW i \in 1..a PROVE (p \o q)[i] = 0
      OBVIOUS
    <3>1. CASE i = 1
      BY <2>11, <3>1
    <3>2. CASE i # 1
      <4>1. PICK j : j = i - 1
        OBVIOUS
      <4>2. j \in 1..-n /\ j \in 1..-n + k /\ i = 1 + j
        BY <1>1, <2>1, <3>2, <4>1
      <4>3. QED
        BY <2>5, <2>11, <4>2
    <3>3. QED
      BY <3>1, <3>2
  <2>14. \A i \in 1..k : (p \o q)[a + i] = s[i]
    <3> SUFFICES ASSUME NEW i \in 1..k PROVE (p \o q)[a + i] = s[i]
      OBVIOUS
    <3>1. PICK j : j = -n + i
      OBVIOUS
    <3>2. j \in 1..-n + k /\ a + i = 1 + j
      BY <1>1, <2>1, <3>1
    <3>3. (p \o q)[1 + j] = q[j] /\ q[j] = s[i]
      BY <2>5, <2>11, <3>1, <3>2
    <3>4. QED
      BY <3>2, <3>3
  <2>15. /\ n \in -5..21 /\ Len(p) + 1 - (a + 1) + 0 = n /\ a + k <= Len(p \o q)
         /\ a + k + 1..Len(p \o q) = {}
    BY <1>1, <1>5, <2>4, <2>12
  <2> HIDE DEF a
  <2>16. Goal(p, q, << >>, TRUE, FALSE, Plus, a)
    BY <2>10, <2>12, <2>13, <2>14, <2>15 DEF Reads, AmongZeros, Exponent
  <2> HIDE DEF Goal
  <2>17. \E pp, qq, w \in Digits, dot, e \in BOOLEAN, sign \in {Plus, Minus}, aa \in Nat :
           Goal(pp, qq, w, dot, e, sign, aa)
    <3>1. FALSE \in BOOLEAN /\ TRUE \in BOOLEAN
      OBVIOUS
    <3>2. QED
      BY <1>2, <2>6, <2>12, <2>16, <3>1, Zenon
  <2>18. QED
    BY <2>17 DEF Goal
<1>6. CASE n \notin -5..21
  <2>1. n \notin k..21 /\ n \notin 1..21 /\ n \notin -5..0
    BY <1>1, <1>6, SMTT(60)
  <2>2. PICK m : m = Magnitude(n - 1) /\ m \in 0..999 /\ (n > 0 => m = n - 1) /\ (n <= 0 => m = 1 - n)
    BY MagnitudeOf, ZenonT(60)
  <2>3. PICK w : w = Decimal(m) /\ w \in Digits /\ Natural(w) = m
    BY <2>2, NaturalOf, ZenonT(60)
  <2>4. PICK dot \in BOOLEAN : dot <=> k > 1
    OBVIOUS
  <2>5. PICK sign \in {Plus, Minus} : sign = IF n > 0 THEN Plus ELSE Minus
    OBVIOUS
  <2>6. PICK p, q : p = <<s[1]>> /\ q = Tail(s)
    OBVIOUS
  <2>7. p \in Seq(0..9) /\ Len(p) = 1 /\ p[1] = s[1]
    <3>1. s[1] \in 0..9
      BY <1>1
    <3>2. QED
      BY <2>6, <3>1
  <2>8. q \in Seq(0..9) /\ Len(q) = k - 1 /\ \A i \in 1..k - 1 : q[i] = s[i + 1]
    BY <1>1, <2>6
  <2>9. p \in Digits /\ q \in Digits /\ Len(p) >= 1 /\ (~dot => q = << >>)
    <3>1. ~dot => Len(q) = 0
      BY <1>1, <2>4, <2>8
    <3>2. QED
      BY <2>7, <2>8, <3>1 DEF Digits
  <2> DEFINE b == IF dot THEN <<Dot>> \o Ascii(q) ELSE << >>
             c == <<ExpE, sign>>
             y == Ascii(w)
  <2>10. Body(s, n) = Ascii(p) \o b \o c \o y
    <3>1. Body(s, n) = Ascii(<<s[1]>>) \o (IF k > 1 THEN <<Dot>> \o Ascii(Tail(s)) ELSE << >>)
                         \o <<ExpE, IF n > 0 THEN Plus ELSE Minus>> \o Ascii(Decimal(Magnitude(n - 1)))
      BY <2>1, ZenonT(60) DEF Body
    <3>2. b = IF k > 1 THEN <<Dot>> \o Ascii(Tail(s)) ELSE << >>
      BY <2>4, <2>6, Zenon
    <3>3. c = <<ExpE, IF n > 0 THEN Plus ELSE Minus>> /\ y = Ascii(Decimal(Magnitude(n - 1)))
      BY <2>2, <2>3, <2>5, Zenon
    <3> HIDE DEF b, c, y
    <3>4. QED
      BY <2>6, <3>1, <3>2, <3>3, Zenon
  <2>11. Ascii(p) \in Seq(Nat) /\ b \in Seq(Nat) /\ c \in Seq(Nat) /\ y \in Seq(Nat)
    <3>1. Ascii(p) \in Seq(Nat) /\ Ascii(q) \in Seq(Nat) /\ y \in Seq(Nat)
      BY <2>3, <2>9, SpelledDigits
    <3>2. <<Dot>> \in Seq(Nat) /\ c \in Seq(Nat)
      BY DEF Dot, ExpE, Plus, Minus
    <3>3. QED
      BY <3>1, <3>2
  <2>12. Ascii(p) \o b \o c \o y = Ascii(p) \o b \o (c \o y)
    <3> HIDE DEF b, c, y
    <3>1. PICK ab : ab = Ascii(p) \o b
      OBVIOUS
    <3>2. ab \in Seq(Nat)
      BY <2>11, <3>1
    <3>3. ab \o c \o y = ab \o (c \o y)
      <4>1. c \in Seq(Nat) /\ y \in Seq(Nat)
        BY <2>11
      <4>2. \A u, v, x \in Seq(Nat) : (u \o v) \o x = u \o (v \o x)
        BY ConcatAssociative, SMTT(60)
      <4>3. QED
        BY <3>2, <4>1, <4>2, Zenon
    <3>4. QED
      BY <3>1, <3>3, Zenon
  <2>13. Layout(Body(s, n), p, dot, q, TRUE, sign, w)
    BY <2>3, <2>9, <2>10, <2>12, LayoutOf, ZenonT(60)
  <2>14. /\ p \o q \in Seq(0..9) /\ Len(p \o q) = 1 + (k - 1) /\ (p \o q)[1] = s[1]
         /\ \A i \in 1..k - 1 : (p \o q)[1 + i] = q[i]
    <3>1. /\ p \o q \in Seq(0..9) /\ Len(p \o q) = Len(p) + Len(q)
          /\ \A i \in 1..Len(p) : (p \o q)[i] = p[i]
          /\ \A i \in 1..Len(q) : (p \o q)[Len(p) + i] = q[i]
      BY <2>7, <2>8, JoinedDigits, Zenon
    <3>2. 1 \in 1..1
      OBVIOUS
    <3>3. QED
      BY <2>7, <2>8, <3>1, <3>2, Zenon
  <2>15. p \o q \in Digits /\ Len(p \o q) = k
    BY <1>1, <2>14 DEF Digits
  <2>16. \A i \in 1..k : (p \o q)[0 + i] = s[i]
    <3> SUFFICES ASSUME NEW i \in 1..k PROVE (p \o q)[0 + i] = s[i]
      OBVIOUS
    <3>1. 0 + i = i
      OBVIOUS
    <3>2. CASE i = 1
      BY <2>14, <3>1, <3>2
    <3>3. CASE i # 1
      <4>1. PICK j : j = i - 1
        OBVIOUS
      <4>2. j \in 1..k - 1 /\ i = 1 + j /\ i = j + 1
        BY <1>1, <3>3, <4>1
      <4>3. (p \o q)[1 + j] = q[j] /\ q[j] = s[j + 1]
        BY <2>8, <2>14, <4>2
      <4>4. QED
        BY <3>1, <4>2, <4>3
    <3>4. QED
      BY <3>2, <3>3
  <2>17. Len(p) + 1 - (0 + 1) + (IF sign = Minus THEN -Natural(w) ELSE Natural(w)) = n
    <3>1. CASE n > 0
      <4>1. sign # Minus
        BY <2>5, <3>1 DEF Plus, Minus
      <4>2. QED
        BY <2>2, <2>3, <2>7, <3>1, <4>1
    <3>2. CASE n <= 0
      <4>1. sign = Minus
        BY <2>5, <3>2
      <4>2. QED
        BY <2>2, <2>3, <2>7, <3>2, <4>1
    <3>3. QED
      BY <3>1, <3>2
  <2>18. 0 + k <= Len(p \o q) /\ 0 + k + 1..Len(p \o q) = {} /\ 1..0 = {}
    BY <1>1, <2>15
  <2>19. Goal(p, q, w, dot, TRUE, sign, 0)
    BY <1>6, <2>13, <2>15, <2>16, <2>17, <2>18 DEF Reads, AmongZeros, Exponent
  <2> HIDE DEF Goal
  <2>20. \E pp, qq, ww \in Digits, dd, e \in BOOLEAN, ss \in {Plus, Minus}, a \in Nat :
           Goal(pp, qq, ww, dd, e, ss, a)
    <3>1. 0 \in Nat /\ TRUE \in BOOLEAN
      OBVIOUS
    <3>2. QED
      BY <2>3, <2>9, <2>19, <3>1, ZenonT(60)
  <2>21. QED
    BY <2>20 DEF Goal
<1>7. QED
  <2>1. n \in k..21 \/ (n \in 1..21 /\ n < k) \/ n \in -5..0 \/ n \notin -5..21
    BY <1>1
  <2>2. QED
    BY <1>3, <1>4, <1>5, <1>6, <2>1

\* The digits of a number other than zero, and where its point is.
HasDigits(s, n) == s \in Digits /\ s # << >> /\ s[1] # 0 /\ s[Len(s)] # 0 /\ n \in -323..309

\* The text of a number that has digits is read back.
LEMMA SpellingRead ==
  ASSUME NEW s, NEW n, HasDigits(s, n), NEW neg \in BOOLEAN
  PROVE  /\ ReadNumber(Signed(neg, Body(s, n))) = [neg |-> neg, digits |-> s, n |-> n]
         /\ Contains(Signed(neg, Body(s, n)), ExpE) <=> n \notin -5..21
<1>0. s \in Digits /\ s # << >> /\ s[1] # 0 /\ s[Len(s)] # 0 /\ n \in -323..309
  BY DEF HasDigits
<1>1. PICK p, q, w \in Digits, dot, e \in BOOLEAN, sign \in {Plus, Minus}, a \in Nat :
        Reads(Body(s, n), s, n, p, q, w, dot, e, sign, a)
  BY <1>0, BodyLayout
<1>2. /\ Layout(Body(s, n), p, dot, q, e, sign, w)
      /\ AmongZeros(p \o q, s, a)
      /\ e <=> n \notin -5..21
      /\ Len(p) + 1 - (a + 1) + Exponent(e, sign, w) = n
  BY <1>1, Zenon DEF Reads
<1>3. /\ ReadNumber(Signed(neg, Body(s, n))) = Value(neg, p \o q, Len(p) + 1, Exponent(e, sign, w))
      /\ Contains(Signed(neg, Body(s, n)), ExpE) <=> e
  <2>1. Layout(Body(s, n), p, dot, q, e, sign, w) /\ neg \in BOOLEAN
    BY <1>2, Zenon
  <2>2. QED
    BY ONLY <2>1, ReadsLayout, SMTT(30)
<1>4. Value(neg, p \o q, Len(p) + 1, Exponent(e, sign, w)) =
        [neg |-> neg, digits |-> s, n |-> Len(p) + 1 - (a + 1) + Exponent(e, sign, w)]
  <2>1. /\ AmongZeros(p \o q, s, a) /\ a \in Nat
        /\ s \in Digits /\ s # << >> /\ s[1] # 0 /\ s[Len(s)] # 0
    BY <1>0, <1>2, Zenon
  <2>2. QED
    BY ONLY <2>1, ValueOf, SMTT(60)
<1>5. QED
  BY <1>2, <1>3, <1>4, Zenon

\* A number that is not refused is read back, with an exponent outside [1e-6, 1e21).
LEMMA NumberRead ==
  ASSUME NEW x, IsNumber(x), ~OutOfRange(x)
  PROVE  /\ ReadNumber(FormatNumber(x)) =
              IF x.digits = << >> THEN [neg |-> FALSE, digits |-> << >>, n |-> 0] ELSE x
         /\ Contains(FormatNumber(x), ExpE) <=> x.digits # << >> /\ x.n \notin -5..21
<1>1. x \in [neg : BOOLEAN, digits : Seq(0..9), n : Int] /\ x.n >= -323
  BY Zenon DEF IsNumber
<1>2. CASE x.digits = << >>
  <2>1. FormatNumber(x) = <<48>> /\ x.n = 0
    BY <1>2 DEF FormatNumber, IsNumber
  <2> DEFINE p == <<0>>
  <2>2. /\ p \in Seq(0..9) /\ Len(p) = 1 /\ p[1] = 0 /\ << >> \in Seq(0..9) /\ Len(<< >>) = 0
        /\ <<48>> \in Seq(Nat) /\ Len(<<48>>) = 1 /\ <<48>>[1] = 48 + p[1]
    OBVIOUS
  <2>3. p \in Digits /\ Len(p) >= 1 /\ << >> \in Digits
    BY <2>2 DEF Digits
  <2> HIDE DEF p
  <2>4. \A i \in 1..Len(p) : <<48>>[i] = 48 + p[i]
    <3> SUFFICES ASSUME NEW i \in 1..Len(p) PROVE <<48>>[i] = 48 + p[i]
      OBVIOUS
    <3>1. i = 1
      BY <2>2
    <3>2. QED
      BY <2>2, <3>1, Zenon
  <2>5. Layout(<<48>>, p, FALSE, << >>, FALSE, Plus, << >>)
    <3>1. Plus \in {Plus, Minus} /\ FALSE \in BOOLEAN
      OBVIOUS
    <3>2. Len(<<48>>) = Len(p)
      BY <2>2
    <3>3. QED
      BY <2>2, <2>3, <2>4, <3>1, <3>2, Zenon DEF Layout
  <2>6. /\ ReadNumber(<<48>>) = Value(FALSE, p \o << >>, Len(p) + 1, 0)
        /\ Contains(<<48>>, ExpE) <=> FALSE
    <3>1. Signed(FALSE, <<48>>) = <<48>>
      BY <2>2 DEF Signed
    <3>2. Exponent(FALSE, Plus, << >>) = 0
      BY DEF Exponent
    <3>3. FALSE \in BOOLEAN
      OBVIOUS
    <3>4. /\ ReadNumber(Signed(FALSE, <<48>>)) =
               Value(FALSE, p \o << >>, Len(p) + 1, Exponent(FALSE, Plus, << >>))
          /\ Contains(Signed(FALSE, <<48>>), ExpE) <=> FALSE
      BY <2>5, <3>3, ReadsLayout, Zenon
    <3>5. QED
      BY <3>1, <3>2, <3>4, Zenon
  <2>7. p \o << >> = p
    BY <2>2
  <2>8. Value(FALSE, p, Len(p) + 1, 0) = [neg |-> FALSE, digits |-> << >>, n |-> 0]
    <3>1. \A i \in DOMAIN p : p[i] = 0
      <4>1. \A i \in DOMAIN p : i = 1
        BY <2>2
      <4>2. QED
        BY <2>2, <4>1
    <3>2. {i \in DOMAIN p : p[i] # 0} = {}
      BY <3>1
    <3>3. QED
      BY <3>2, Zenon DEF Value
  <2>9. QED
    BY <1>2, <2>1, <2>6, <2>7, <2>8, Zenon
<1>3. CASE x.digits # << >>
  <2>1. PICK s, n, neg : s = x.digits /\ n = x.n /\ neg = x.neg
    OBVIOUS
  <2>2. /\ s \in Digits /\ s # << >> /\ s[1] # 0 /\ s[Len(s)] # 0 /\ neg \in BOOLEAN
        /\ x = [neg |-> neg, digits |-> s, n |-> n]
    <3>1. Head(x.digits) # 0 /\ x.digits[Len(x.digits)] # 0
      BY <1>3 DEF IsNumber
    <3>2. x.digits \in Seq(0..9) /\ x.neg \in BOOLEAN
      BY <1>1
    <3>3. x = [neg |-> x.neg, digits |-> x.digits, n |-> x.n]
      BY <1>1
    <3>4. Head(x.digits) = x.digits[1]
      BY <1>3, <3>2
    <3>5. QED
      BY <1>3, <2>1, <3>1, <3>2, <3>3, <3>4, Zenon DEF Digits
  <2>3. n \in -323..309
    <3>1. ~(n > 309)
      BY <1>3, <2>1, Zenon DEF OutOfRange
    <3>2. n \in Int /\ n >= -323
      BY <1>1, <2>1
    <3>3. QED
      BY <3>1, <3>2
  <2>4. FormatNumber(x) = Signed(neg, Body(s, n))
    BY <1>3, <2>1, NumberTexts, Zenon DEF Signed
  <2>5. /\ ReadNumber(Signed(neg, Body(s, n))) = [neg |-> neg, digits |-> s, n |-> n]
        /\ Contains(Signed(neg, Body(s, n)), ExpE) <=> n \notin -5..21
    <3>1. HasDigits(s, n) /\ neg \in BOOLEAN
      BY <2>2, <2>3 DEF HasDigits
    <3>2. QED
      BY ONLY <3>1, SpellingRead, SMTT(30)
  <2>6. QED
    BY <1>3, <2>1, <2>2, <2>4, <2>5, Zenon
<1>4. QED
  BY <1>2, <1>3

\* The numbers of a document are those of its graphs, nodes, edges and joins.
LEMMA NumbersAreWritten ==
  ASSUME NEW d, IsWritten(d), NEW x \in NumbersOf(d)
  PROVE  IsNumber(x)
<1>1. PICK g \in DOMAIN d.graphs :
        x \in {r.x : r \in {s \in {d.graphs[g]}
                              \cup UNION {ToSet(d.graphs[g].structure[f]) :
                                            f \in {"nodes", "edges", "joins"}} :
                         "x" \in DOMAIN s}}
  BY Zenon DEF NumbersOf
<1>2. PICK r : /\ x = r.x /\ "x" \in DOMAIN r
               /\ \/ r = d.graphs[g]
                  \/ \E f \in {"nodes", "edges", "joins"} : r \in ToSet(d.graphs[g].structure[f])
  BY <1>1, Zenon
<1>3. \E named : IsRecord(r, named)
  <2>1. CASE r = d.graphs[g]
    BY <2>1, Zenon DEF IsWritten
  <2>2. CASE \E f \in {"nodes", "edges", "joins"} : r \in ToSet(d.graphs[g].structure[f])
    <3>1. PICK f \in {"nodes", "edges", "joins"} : r \in ToSet(d.graphs[g].structure[f])
      BY <2>2
    <3>2. PICK i \in DOMAIN d.graphs[g].structure[f] : r = d.graphs[g].structure[f][i]
      BY <3>1, Zenon DEF ToSet
    <3>3. f \in ObjectLists
      BY DEF ObjectLists
    <3>4. IsRecord(d.graphs[g].structure[f][i], Named(f))
      BY <3>3, Zenon DEF IsWritten
    <3>5. QED
      BY <3>2, <3>4, Zenon
  <2>3. QED
    BY <1>2, <2>1, <2>2, Zenon
<1>4. QED
  BY <1>2, <1>3, Zenon DEF IsRecord

\* In every document that can be reached each number that is not refused is
\* spelled so that it reads back as itself, and as ADR 0009 lays it out.
THEOREM NumbersSurvive == Spec => []NumbersReadBack
<1>1. IsWritten(document) => NumbersReadBack
  <2> SUFFICES ASSUME IsWritten(document), NEW x \in NumbersOf(document), ~OutOfRange(x)
               PROVE  /\ ReadNumber(FormatNumber(x)) =
                           IF x.digits = << >> THEN [neg |-> FALSE, digits |-> << >>, n |-> 0] ELSE x
                      /\ Contains(FormatNumber(x), ExpE) <=> x.digits # << >> /\ x.n \notin -5..21
    BY Zenon DEF NumbersReadBack
  <2>1. IsNumber(x)
    BY NumbersAreWritten
  <2>2. QED
    BY <2>1, NumberRead, Zenon
<1>2. QED
  BY <1>1, WrittenAlways, PTL
===============================================================================
