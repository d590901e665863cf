------------------------------ MODULE Validation ------------------------------
(***************************************************************************)
(* validate_document of the spec package: the reference checks, and of the  *)
(* JSON schema the constraints on collections that a schema-conformant shape *)
(* alone does not give.                                                      *)
(*                                                                         *)
(* A document is [graphs, status, gaps].  graphs is a function from          *)
(* positions to graph records, because two entries may be equal; a graph is  *)
(* [id, structure, sub], sub giving the subgraphId of a node, << >> if none. *)
(***************************************************************************)
EXTENDS Integers, Sequences, FiniteSets

\* Ids used by more than one member of a set of identified records.
Duplicates(S) == {x.id : x \in {y \in S : \E z \in S : z # y /\ z.id = y.id}}

DuplicateGraphIds(graphs) ==
  {graphs[i].id : i \in {j \in DOMAIN graphs :
     \E k \in DOMAIN graphs : k # j /\ graphs[k].id = graphs[j].id}}

NodeIdsOf(structure) == {n.id : n \in structure.nodes}

\* Every place of a structure that must name one of its nodes.
NodeReferences(structure) ==
  {e.source : e \in structure.edges} \cup {e.target : e \in structure.edges}
    \cup {j.target : j \in structure.joins}
    \cup structure.entryNodeIds \cup structure.exitNodeIds
    \cup UNION {{j.sources[i] : i \in DOMAIN j.sources} : j \in structure.joins}

GraphErrors(graph, ids) ==
  LET s == graph.structure IN
  {<<"duplicate", x>> : x \in Duplicates(s.nodes) \cup Duplicates(s.edges)
                                \cup Duplicates(s.joins)}
    \cup {<<"unknown node id", n>> : n \in NodeReferences(s) \ NodeIdsOf(s)}
    \cup {<<"unknown graph id", graph.sub[n]>> :
            n \in {m \in DOMAIN graph.sub : graph.sub[m] \notin ids \cup {<< >>}}}

ElementIds(graph, kind) ==
  [ graph |-> {graph.id},
    node  |-> NodeIdsOf(graph.structure),
    edge  |-> {e.id : e \in graph.structure.edges},
    join  |-> {j.id : j \in graph.structure.joins} ][kind]

\* Of two graphs with one id, the one listed last is looked up.
GapErrors(doc) ==
  {<<"unknown element", g>> : g \in {x \in doc.gaps :
     ~\E i \in DOMAIN doc.graphs :
        /\ doc.graphs[i].id = x.graphId
        /\ \A k \in DOMAIN doc.graphs : doc.graphs[k].id = x.graphId => k <= i
        /\ x.id \in ElementIds(doc.graphs[i], x.kind)}}

StatusErrors(doc) ==
  IF doc.status = (IF doc.gaps = {} THEN "complete" ELSE "incomplete")
    THEN {} ELSE {<<"status", doc.status>>}

ReferenceErrors(doc) ==
  LET graphs == doc.graphs
      ids    == {graphs[i].id : i \in DOMAIN graphs}
  IN  {<<"duplicate graph id", x>> : x \in DuplicateGraphIds(graphs)}
        \cup StatusErrors(doc)
        \cup GapErrors(doc)
        \cup UNION {GraphErrors(graphs[i], ids) : i \in DOMAIN graphs}

\* joins[].sources: minItems 2, uniqueItems.  The schema's other uniqueItems are
\* left to the schema library, in both languages.
JoinSchemaErrors(doc) ==
  UNION {{<<"sources", j.id>> : j \in {x \in doc.graphs[i].structure.joins :
            \/ Len(x.sources) < 2
            \/ \E p, q \in DOMAIN x.sources : p # q /\ x.sources[p] = x.sources[q]}} :
         i \in DOMAIN doc.graphs}

\* Reference checks run only when the schema is satisfied.
ValidateDocument(doc) ==
  IF JoinSchemaErrors(doc) # {} THEN JoinSchemaErrors(doc)
                                     ELSE ReferenceErrors(doc)
===============================================================================
