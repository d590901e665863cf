------------------------------ MODULE PyStructure ------------------------------
(***************************************************************************)
(* The pure half of the Python producer (_describe.py): what is read from  *)
(* one compiled graph and its builder.                                     *)
(***************************************************************************)
EXTENDS CompiledGraphs, SequencesExt

\* Mutant: addressing a child by its node id alone.
NodeIdAsAddress(gid, n) == n

\* The address of a materialized child: f"{graph_id}:{node_id}".
DerivedId(gid, n) == gid \o <<Colon>> \o n

-------------------------------------------------------------------------------
(* Which compiled child a node holds.                                      *)

RuntimeMapped(c, n) == n \in c.runtime /\ n \in c.same

DirectBoundChild(c, n) == IF RuntimeMapped(c, n) THEN c.bound[n] ELSE NoChild

DeclaredChild(c, decl, n) == IF RuntimeMapped(c, n) THEN decl[n] ELSE NoChild

\* Mutant: declarations are read for the facts but not for the traversal.
DirectBindsOnly(c, decl, n) == DirectBoundChild(c, n)

\* A direct bind is looked at first, a declaration only when there is none.
MappedCompiledChild(c, decl, n) ==
  IF DirectBoundChild(c, n) # NoChild
    THEN DirectBoundChild(c, n)
    ELSE DeclaredChild(c, decl, n)

-------------------------------------------------------------------------------
(* Edges, joins and routers of the builder.                                *)

UnknownRouters(c) ==
  {s \in NodeId : \E i \in DOMAIN c.branches[s] : c.branches[s][i] = UnknownEnds}

\* Targets of every declared conditional edge of s, one entry per declaration.
ConditionalTargets(c, s) ==
  LET Declared(ends) == IF ends = UnknownEnds THEN << >> ELSE ends
  IN  FlattenSeq([i \in DOMAIN c.branches[s] |-> Declared(c.branches[s][i])])
        \o c.ends[s].targets

EdgeDocument(s, t, kind, occurrence) ==
  [ id     |-> <<"edge", Colon>> \o s \o <<Colon>> \o t
                 \o <<Colon, kind, Colon>> \o Numeral(occurrence),
    source |-> s,
    target |-> t,
    kind   |-> kind ]

\* Edges declared more than once are numbered; builder.edges is a set, so only
\* conditional edges can be.
EdgeDocuments(c) ==
  LET Declared(s, t) ==
        LET targets == ConditionalTargets(c, s)
        IN  1..Cardinality({i \in DOMAIN targets : targets[i] = t})
  IN  {EdgeDocument(e[1], e[2], "direct", 1) : e \in c.edges}
        \cup UNION {{EdgeDocument(s, t, "conditional", k) : k \in Declared(s, t)} :
                      s \in NodeId, t \in NodeId}

\* Mutant: a backslash before a genuine delimiter looks like an escaped '+'.
EscapePlusOnly(s) ==
  FlattenSeq([i \in DOMAIN s |-> IF s[i] = Plus THEN <<Backslash, Plus>> ELSE <<s[i]>>])

\* '\' and '+' inside a source are escaped, so that an unescaped '+' is a
\* boundary between two sources.
EscapeJoinSource(s) ==
  FlattenSeq([i \in DOMAIN s |->
    IF s[i] \in {Backslash, Plus} THEN <<Backslash, s[i]>> ELSE <<s[i]>>])

SortedSources(sources) == InOrder(sources)

JoinId(sorted, target) ==
  <<"join", Colon>>
    \o FlattenSeq([i \in DOMAIN sorted |->
         (IF i = 1 THEN << >> ELSE <<Plus>>) \o EscapeJoinSource(sorted[i])])
    \o <<Colon>> \o target

\* Declarations with the same sorted sources and target give one record.
JoinDocuments(c) ==
  {[id      |-> JoinId(SortedSources(j[1]), j[2]),
    sources |-> SortedSources(j[1]),
    target  |-> j[2]] : j \in c.joins}

-------------------------------------------------------------------------------
(* The structure of one graph document.                                    *)

Interrupts(c, n) ==
  {location \in {"before", "after"} :
     LET configured == IF location = "before" THEN c.before ELSE c.after
     IN  n \in configured \/ (STAR \in configured /\ ~Sentinel(n))}

NodeDocument(c, n) == [id |-> n, interrupts |-> Interrupts(c, n)]

Targets(edges, joins) ==
  {e.target : e \in edges} \cup {j.target : j \in joins}

\* Mutant: a router without declared targets looks like a node nothing leaves.
DeclaredSources(edges, joins, routers) ==
  {e.source : e \in edges} \cup UNION {ToSet(j.sources) : j \in joins}

Sources(edges, joins, routers) ==
  routers \cup {e.source : e \in edges} \cup UNION {ToSet(j.sources) : j \in joins}

Structure(c) ==
  LET edges == EdgeDocuments(c)
      joins == JoinDocuments(c)
  IN  [ nodes        |-> {NodeDocument(c, n) : n \in c.drawn},
        edges        |-> edges,
        joins        |-> joins,
        entryNodeIds |-> c.drawn \ Targets(edges, joins),
        exitNodeIds  |-> c.drawn \ Sources(edges, joins, UnknownRouters(c)) ]
===============================================================================
