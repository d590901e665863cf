----------------------------- MODULE TsValidation -----------------------------
(***************************************************************************)
(* validateDocument of the TypeScript spec package, over the documents of   *)
(* Canonical.  Issues are named as in Validation; paths are left out.       *)
(***************************************************************************)
EXTENDS Integers, Sequences, SequencesExt

\* duplicates: the values met again on the way through an array.
DuplicateValues(values) == {values[i] : i \in {j \in DOMAIN values : \E k \in 1 .. j - 1 : values[k] = values[j]}}

Ids(records) == [i \in DOMAIN records |-> records[i].id]

\* The loop over the graphs, for one of them.
GraphIssues(doc, graph) ==
  LET s == graph.structure
      knownNodes == ToSet(Ids(s.nodes))
      graphIds == ToSet(Ids(doc.graphs))
      required == ToSet(s.entryNodeIds) \cup ToSet(s.exitNodeIds)
                    \cup (UNION {{e.source, e.target} : e \in ToSet(s.edges)})
                    \cup UNION {ToSet(j.sources) \cup {j.target} : j \in ToSet(s.joins)}
  IN  {<<"duplicate", x>> : x \in DuplicateValues(Ids(s.nodes)) \cup DuplicateValues(Ids(s.edges))
                                    \cup DuplicateValues(Ids(s.joins))}
        \cup {<<"unknown graph id", n.subgraphId>> :
                n \in {m \in ToSet(s.nodes) : "subgraphId" \in DOMAIN m /\ m.subgraphId \notin graphIds}}
        \cup {<<"unknown node id", r>> : r \in required \ knownNodes}

\* elementIds: a later graph takes the place of an earlier one with its id.
ElementIdsOf(doc, graphId, kind) ==
  LET graph == doc.graphs[SelectLastInSeq(doc.graphs, LAMBDA g : g.id = graphId)]
  IN  [ graph |-> {graph.id},
        node  |-> ToSet(Ids(graph.structure.nodes)),
        edge  |-> ToSet(Ids(graph.structure.edges)),
        join  |-> ToSet(Ids(graph.structure.joins)) ][kind]

\* Mutant: the kind of the element a gap names is not looked at.
GapIssuesAnyKind(doc) ==
  {<<"unknown element", g>> : g \in {x \in ToSet(doc.gaps) :
     \/ x.graphId \notin ToSet(Ids(doc.graphs))
     \/ \A kind \in {"graph", "node", "edge", "join"} :
          x.id \notin ElementIdsOf(doc, x.graphId, kind)}}

GapIssues(doc) ==
  {<<"unknown element", g>> : g \in {x \in ToSet(doc.gaps) :
     \/ x.graphId \notin ToSet(Ids(doc.graphs))
     \/ x.id \notin ElementIdsOf(doc, x.graphId, x.kind)}}

ReferenceIssues(doc) ==
  LET expectedStatus == IF doc.gaps = << >> THEN "complete" ELSE "incomplete"
  IN  {<<"duplicate graph id", x>> : x \in DuplicateValues(Ids(doc.graphs))}
        \cup (UNION {GraphIssues(doc, doc.graphs[g]) : g \in DOMAIN doc.graphs})
        \cup (IF doc.status = expectedStatus THEN {} ELSE {<<"status", doc.status>>})
        \cup GapIssues(doc)

\* The schema's minItems and uniqueItems, which Ajv checks.
SchemaIssues(doc) ==
  UNION {LET s == doc.graphs[g].structure IN
         {<<"sources", j.id>> : j \in {x \in ToSet(s.joins) :
            Len(x.sources) < 2 \/ ~IsInjective(x.sources)}} :
         g \in DOMAIN doc.graphs}

ValidateDocument(doc) ==
  IF SchemaIssues(doc) # {} THEN SchemaIssues(doc) ELSE ReferenceIssues(doc)
===============================================================================
