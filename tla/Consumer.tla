------------------------------- MODULE Consumer -------------------------------
(***************************************************************************)
(* A document in the hands of a consumer: other tools list its collections   *)
(* in another order or add to its descriptions, then a trace of the system   *)
(* is correlated with it, event by event.  Either package may be asked for   *)
(* its verdict.                                                              *)
(***************************************************************************)
EXTENDS Correlate

CONSTANTS
  Documents,      \* the documents met, well-formed or not
  Annotations,    \* numbers an extension may be given
  MaxRewrites,    \* bound: changes made to a document before it is traced
  Traced,         \* the documents a trace is correlated with
  Events,         \* the events of a trace
  MaxEvents       \* bound: the length of a trace

\* Ids are never empty (schema: minLength 1).
Text == Seq(Nat) \ {<< >>}

Array(s) == s \in Seq(ToSet(s))

Collections == {"nodes", "edges", "joins", "entryNodeIds", "exitNodeIds"}

\* The shape that the JSON schema demands, as far as the checks after it read it.
IsStructure(s) ==
  /\ Collections \subseteq DOMAIN s
  /\ \A f \in Collections : Array(s[f])
  /\ \A n \in ToSet(s.nodes) :
       /\ "id" \in DOMAIN n /\ n.id \in Text
       /\ "subgraphId" \in DOMAIN n => n.subgraphId \in Text
       /\ "interrupts" \in DOMAIN n => Array(n.interrupts)
  /\ \A e \in ToSet(s.edges) : {"id", "source", "target"} \subseteq DOMAIN e
  /\ \A j \in ToSet(s.joins) : {"id", "sources", "target"} \subseteq DOMAIN j /\ Array(j.sources)

IsDocument(d) ==
  /\ {"graphs", "status", "gaps"} \subseteq DOMAIN d
  /\ Array(d.graphs) /\ Array(d.gaps)
  /\ \A graph \in ToSet(d.graphs) :
       {"id", "structure"} \subseteq DOMAIN graph /\ graph.id \in Text /\ IsStructure(graph.structure)
  /\ \A gap \in ToSet(d.gaps) : gap.kind \in {"graph", "node", "edge", "join"}

ConsumerAssumption ==
  /\ Missing \notin Text
  /\ \A d \in Documents : IsDocument(d)

ASSUME DocumentsAssumption == ConsumerAssumption

VARIABLES
  document,       \* the document as it is now
  rewrites,       \* how often it was changed
  trace           \* the events seen so far

vars == <<document, rewrites, trace>>

TsValidator == INSTANCE TsValidation
Py == INSTANCE Validation

Init == document \in Documents /\ rewrites = 0 /\ trace = << >>

Rewrite ==
  /\ trace = << >>
  /\ rewrites < MaxRewrites
  /\ rewrites' = rewrites + 1
  /\ UNCHANGED trace

\* The structure of graph g becomes s.
Restructure(g, s) == document' = [document EXCEPT !.graphs[g].structure = s]

-------------------------------------------------------------------------------
Swapped(s, i) == [s EXCEPT ![i] = s[i + 1], ![i + 1] = s[i]]

SwapGraphs ==
  /\ Rewrite
  /\ \E i \in 1 .. Len(document.graphs) - 1 :
       document' = [document EXCEPT !.graphs = Swapped(@, i)]

\* Two neighbours in one collection of a structure change places.
SwapMembers ==
  /\ Rewrite
  /\ \E g \in DOMAIN document.graphs, f \in Collections :
       LET s == document.graphs[g].structure IN
       \E i \in 1 .. Len(s[f]) - 1 : Restructure(g, [s EXCEPT ![f] = Swapped(@, i)])

SwapSources ==
  /\ Rewrite
  /\ \E g \in DOMAIN document.graphs :
       LET s == document.graphs[g].structure IN
       \E j \in DOMAIN s.joins : \E i \in 1 .. Len(s.joins[j].sources) - 1 :
         Restructure(g, [s EXCEPT !.joins[j].sources = Swapped(@, i)])

SwapInterrupts ==
  /\ Rewrite
  /\ \E g \in DOMAIN document.graphs :
       LET s == document.graphs[g].structure IN
       \E n \in DOMAIN s.nodes :
         /\ "interrupts" \in DOMAIN s.nodes[n]
         /\ Len(s.nodes[n].interrupts) = 2
         /\ Restructure(g, [s EXCEPT !.nodes[n].interrupts = Swapped(@, 1)])

\* An extension of a node is set.
Annotated(n, x) == [k \in DOMAIN n \cup {"x"} |-> IF k = "x" THEN x ELSE n[k]]

Annotate ==
  /\ Rewrite
  /\ \E x \in Annotations, g \in DOMAIN document.graphs :
       LET s == document.graphs[g].structure IN
       \E n \in DOMAIN s.nodes : Restructure(g, [s EXCEPT !.nodes[n] = Annotated(@, x)])

Observe ==
  /\ document \in Traced
  /\ Len(trace) < MaxEvents
  /\ \E e \in Events : trace' = Append(trace, e)
  /\ UNCHANGED <<document, rewrites>>

Reorder == SwapGraphs \/ SwapMembers \/ SwapSources \/ SwapInterrupts
Next == Reorder \/ Annotate \/ Observe
Spec == Init /\ [][Next]_vars

-------------------------------------------------------------------------------
\* The document as Validation reads it: records of an array are told apart by
\* their position.
Placed(records) == {[k \in DOMAIN records[i] \cup {"at"} |-> IF k = "at" THEN i ELSE records[i][k]] :
                      i \in DOMAIN records}

AsValidated(d) ==
  [ graphs |-> [g \in DOMAIN d.graphs |->
      LET s == d.graphs[g].structure IN
      [ id |-> d.graphs[g].id,
        structure |-> [ nodes |-> Placed(s.nodes), edges |-> Placed(s.edges), joins |-> Placed(s.joins),
                        entryNodeIds |-> ToSet(s.entryNodeIds), exitNodeIds |-> ToSet(s.exitNodeIds) ],
        sub |-> [n \in DOMAIN s.nodes |->
                   IF "subgraphId" \in DOMAIN s.nodes[n] THEN s.nodes[n].subgraphId ELSE << >>] ]],
    status |-> d.status,
    gaps   |-> ToSet(d.gaps) ]

Accepted(d) == Py!ValidateDocument(AsValidated(d)) = {}

\* Both validators find the same things wrong with a document.
ValidatorsAgree ==
  Py!ValidateDocument(AsValidated(document)) = TsValidator!ValidateDocument(document)

\* An event could be about a node of an accepted document.
CouldBe(event, r) == event.nodeId = r[2] /\ event.graphId \in {Missing, r[1]}

\* "absent" is said of a node exactly when no event of the trace could be about it
\* and its graph has no gap; a node is "observed" only by an event that could be
\* about no other (correlate's "without inferring execution from absence").
AbsenceNeedsEvidence ==
  Accepted(document) =>
    LET elements == TopologyElements(document, trace) IN
    \A r \in DOMAIN elements :
      /\ elements[r].confidence = "absent" <=>
           /\ \A e \in ToSet(trace) : ~CouldBe(e, r)
           /\ \A gap \in ToSet(document.gaps) : gap.graphId # r[1]
      /\ elements[r].status = "observed" <=>
           \E e \in ToSet(trace) : \A q \in DOMAIN elements : CouldBe(e, q) <=> q = r
===============================================================================
