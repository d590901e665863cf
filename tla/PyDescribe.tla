------------------------------ MODULE PyDescribe ------------------------------
(***************************************************************************)
(* The document describe() produces: the traversal of PyExtract with the     *)
(* contents of each graph document, judged by the spec package's validator.  *)
(***************************************************************************)
EXTENDS PyExtract, PyInterpretation, Validation

Contents(doc) == world[doc.obj]

GraphDocument(doc) ==
  [ id        |-> doc.id,
    structure |-> Structure(Contents(doc)),
    sub       |-> doc.sub ]

Facts(doc) ==
  Interpretation(Contents(doc), declared[doc.obj], Structure(Contents(doc)),
                 doc.sub, doc.depth)

TopologyDocument ==
  [ graphs |-> [i \in output.graphs |-> GraphDocument(docs[i])],
    status |-> IF output.gaps = {} THEN "complete" ELSE "incomplete",
    gaps   |-> {[graphId |-> g.graph, kind |-> "node", id |-> g.node] :
                  g \in output.gaps} ]

-------------------------------------------------------------------------------
(* Properties.                                                              *)

\* Joins whose declaration names at least two sources, each once.
JoinsAreBarriers ==
  \A g \in Graph : \A j \in world[g].joins :
    Len(j[1]) >= 2 /\ \A p, q \in DOMAIN j[1] : j[1][p] = j[1][q] => p = q

\* The document of any extraction passes the validator of the spec package,
\* for every graph whose joins are real barriers: ids made by concatenation
\* (edges, joins with '+' in a source, graphs) stay distinct and every
\* reference resolves.
OutputPassesValidation ==
  (Ended /\ JoinsAreBarriers /\ DelimiterReserved(world)) =>
    ValidateDocument(TopologyDocument) = {}

\* A router with unknown targets is never presented as understood: it has a
\* gap in its own graph, is no exit, and its selection is not claimed known.
UnknownRoutersAreNeverHidden ==
  Ended => \A i \in output.graphs : \A s \in UnknownRouters(Contents(docs[i])) :
    /\ Gap("unknown-routing-targets", docs[i].id, s) \in output.gaps
    /\ s \notin Structure(Contents(docs[i])).exitNodeIds
    /\ s \in Contents(docs[i]).drawn =>
         IF MappedIdentity(Contents(docs[i]), s)
           THEN Facts(docs[i]).branch[s] = "selection-not-observable"
           ELSE Facts(docs[i]).branch[s] \in {"none", "scope-not-inspected"}

\* "all-declared" is claimed only for a node LangGraph itself runs, all of
\* whose ways out, joins apart, are at least two unconditional edges.
AllDeclaredIsUnconditional ==
  Ended => \A i \in output.graphs : \A n \in Contents(docs[i]).drawn :
    LET c == Contents(docs[i]) IN
    Facts(docs[i]).branch[n] = "all-declared" =>
      /\ MappedIdentity(c, n)
      /\ Cardinality({e \in c.edges : e[1] = n}) >= 2
      /\ c.branches[n] = << >>
      /\ c.ends[n].targets = << >>

\* Within the depth budget a compiled child is left opaque only where a
\* collision gap says so; a materialized one moves its graph to revision 2.
\* A child declared at START is refused like any other, without a fact.
OpaqueWithinBudgetIsACollision ==
  Ended => \A i \in output.graphs : \A n \in Contents(docs[i]).drawn :
    LET fact == Facts(docs[i]).subgraph[n] IN
    /\ (docs[i].depth > 0 /\ fact \in {"compiled-child", "declared-child-call"}) <=>
         (~Sentinel(n) /\ Gap("child-graph-id-collision", docs[i].id, n) \in output.gaps)
    /\ fact = "materialized-child" => Facts(docs[i]).version = "2"

\* ADR 0012: "A producer's own output is therefore always valid and never
\* ambiguous."
ProducerOutputAlwaysValid ==
  Ended => ValidateDocument(TopologyDocument) = {}
===============================================================================
