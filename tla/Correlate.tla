------------------------------- MODULE Correlate -------------------------------
(***************************************************************************)
(* The trace correlation example: nodes of a topology document against the  *)
(* events of a trace.  An event is [graphId, nodeId], Missing where the      *)
(* trace does not say.  A document is its arrays, as in Canonical.           *)
(***************************************************************************)
EXTENDS Integers, FiniteSets, Sequences, SequencesExt

CONSTANT Missing

\* _node_index: the places of a document where a node is listed, and the identity
\* of the node at a place.
Places(topology) ==
  UNION {{<<g, n>> : n \in DOMAIN topology.graphs[g].structure.nodes} :
           g \in DOMAIN topology.graphs}

Reference(topology, p) ==
  <<topology.graphs[p[1]].id, topology.graphs[p[1]].structure.nodes[p[2]].id>>

References(topology) == {Reference(topology, p) : p \in Places(topology)}

ByNodeId(topology, nodeId) == {p \in Places(topology) : Reference(topology, p)[2] = nodeId}

Unmatched(status) == [status |-> status, match |-> Missing, candidates |-> {}]
Matched(reference) == [status |-> "matched", match |-> reference, candidates |-> {}]

\* Mutant: the first node of that name is taken when several have it.
CorrelateEventFirst(topology, event) ==
  LET candidates == ByNodeId(topology, event.nodeId)
      first == CHOOSE p \in candidates :
                 \A q \in candidates : p[1] < q[1] \/ (p[1] = q[1] /\ p[2] <= q[2])
      exact == <<event.graphId, event.nodeId>>
  IN  IF event.nodeId = Missing THEN Unmatched("insufficient")
      ELSE IF event.graphId # Missing
             THEN IF exact \in References(topology) THEN Matched(exact) ELSE Unmatched("unmatched")
      ELSE IF candidates = {} THEN Unmatched("unmatched") ELSE Matched(Reference(topology, first))

\* _correlate_event: by qualified identity when the event has one, else by a node
\* id that is listed once.
CorrelateEvent(topology, event) ==
  LET candidates == ByNodeId(topology, event.nodeId)
      exact == <<event.graphId, event.nodeId>>
  IN  IF event.nodeId = Missing THEN Unmatched("insufficient")
      ELSE IF event.graphId # Missing
             THEN IF exact \in References(topology) THEN Matched(exact) ELSE Unmatched("unmatched")
      ELSE IF candidates = {} THEN Unmatched("unmatched")
      ELSE IF \E p \in candidates : candidates = {p}
             THEN Matched(Reference(topology, CHOOSE p \in candidates : TRUE))
      ELSE [status |-> "ambiguous", match |-> Missing,
            candidates |-> {Reference(topology, p) : p \in candidates}]

\* correlate: the class of each node of the topology.
TopologyElements(topology, trace) ==
  LET results  == {CorrelateEvent(topology, trace[e]) : e \in DOMAIN trace}
      matched  == {x.match : x \in {y \in results : y.status = "matched"}}
      doubtful == UNION {x.candidates : x \in results}
      gapped   == {gap.graphId : gap \in ToSet(topology.gaps)}
      confidence(r) == IF r \in doubtful \/ (r \notin matched /\ r[1] \in gapped) THEN "insufficient"
                       ELSE IF r \notin matched THEN "absent" ELSE "none"
  IN  [r \in References(topology) |->
        [status |-> IF r \in matched THEN "observed" ELSE "unobserved", confidence |-> confidence(r)]]

Summary(topology, trace) ==
  LET count(status) == Cardinality({e \in DOMAIN trace :
                                      CorrelateEvent(topology, trace[e]).status = status})
      elements == TopologyElements(topology, trace)
  IN  [ matched |-> count("matched"), unmatched |-> count("unmatched"),
        ambiguous |-> count("ambiguous"), insufficient |-> count("insufficient"),
        unobserved |-> Cardinality({p \in Places(topology) :
                                      elements[Reference(topology, p)].status = "unobserved"}) ]
===============================================================================
