---------------------------- MODULE TsExtractProofs ----------------------------
(***************************************************************************)
(* Proofs about TsExtract, for every program, every interleaving of its      *)
(* calls and every extension of its builders while they are suspended.       *)
(***************************************************************************)
EXTENDS TsExtract, Lemmas

-------------------------------------------------------------------------------
(* What is read from a builder has its type.                                *)

EdgeType == [source : NodeId, target : NodeId, kind : {"direct", "conditional"},
             occurrence : Nat]

LEMMA ConditionalTargetsType ==
  ASSUME NEW b \in Builder, NEW s \in NodeId
  PROVE  ConditionalTargets(b, s) \in Seq(NodeId)
<1> DEFINE Declared(ends) == IF ends \in {NoEnds, UnknownEnds} THEN << >> ELSE ends
           lists == [i \in DOMAIN b.branches[s] |-> Declared(b.branches[s][i])]
<1>1. /\ b.branches[s] \in Seq(Seq(NodeId) \cup {UnknownEnds})
      /\ b.ends[s] \in Seq(NodeId) \cup {NoEnds}
  BY DEF Builder
<1>2. << >> \in Seq(NodeId)
  OBVIOUS
<1>3. \A e \in Seq(NodeId) \cup {NoEnds, UnknownEnds} : Declared(e) \in Seq(NodeId)
  BY <1>2
<1>4. Declared(b.ends[s]) \in Seq(NodeId)
  BY <1>1, <1>3
<1>5. lists \in Seq(Seq(NodeId))
  <2>1. /\ DOMAIN b.branches[s] = 1..Len(b.branches[s]) /\ Len(b.branches[s]) \in Nat
        /\ \A i \in DOMAIN b.branches[s] : b.branches[s][i] \in Seq(NodeId) \cup {UnknownEnds}
    BY <1>1, LenProperties, ElementOfSeq
  <2>2. \A i \in DOMAIN b.branches[s] : Declared(b.branches[s][i]) \in Seq(NodeId)
    BY <2>1, <1>3
  <2> HIDE DEF Declared
  <2>3. lists \in [1..Len(b.branches[s]) -> Seq(NodeId)]
    BY <2>1, <2>2
  <2>4. QED
    BY <2>1, <2>3, SeqDef
<1>6. FlattenSeq(lists) \in Seq(NodeId)
  <2> HIDE DEF lists
  <2> QED BY <1>5, FlattenType
<1>7. ConditionalTargets(b, s) = FlattenSeq(lists) \o Declared(b.ends[s])
  BY DEF ConditionalTargets
<1> HIDE DEF lists, Declared
<1>8. QED
  BY <1>4, <1>6, <1>7, ConcatProperties

LEMMA EdgeDocumentsType ==
  ASSUME NEW b \in Builder
  PROVE  EdgeDocuments(b) \subseteq EdgeType
<1>1. ASSUME NEW s \in NodeId, NEW t \in NodeId, NEW kind \in {"direct", "conditional"}
      PROVE  Cardinality(Declarations(b, s, t, kind)) \in Nat
  <2>1. CASE kind = "direct"
    <3>1. b.edges \in Seq(NodeId \X NodeId)
      BY DEF Builder
    <3>2. /\ Declarations(b, s, t, kind) = {i \in DOMAIN b.edges : b.edges[i] = <<s, t>>}
          /\ {i \in DOMAIN b.edges : b.edges[i] = <<s, t>>} \in SUBSET DOMAIN b.edges
      BY <2>1 DEF Declarations
    <3>3. QED
      BY <3>1, <3>2, PositionsCount
  <2>2. CASE kind # "direct"
    <3> DEFINE targets == ConditionalTargets(b, s)
    <3>1. targets \in Seq(NodeId)
      BY ConditionalTargetsType
    <3>2. /\ Declarations(b, s, t, kind) = {i \in DOMAIN targets : targets[i] = t}
          /\ {i \in DOMAIN targets : targets[i] = t} \in SUBSET DOMAIN targets
      BY <2>2 DEF Declarations
    <3> HIDE DEF targets
    <3>3. QED
      BY <3>1, <3>2, PositionsCount
  <2>3. QED
    BY <2>1, <2>2
<1>2. ASSUME NEW s \in NodeId, NEW t \in NodeId, NEW kind \in {"direct", "conditional"},
             NEW k \in 1..Cardinality(Declarations(b, s, t, kind))
      PROVE  [source |-> s, target |-> t, kind |-> kind, occurrence |-> k] \in EdgeType
  BY <1>1 DEF EdgeType
<1>3. QED
  BY <1>2 DEF EdgeDocuments

BranchFacts == {"none", "scope-not-inspected", "selection-not-observable", "all-declared"}

SubgraphFacts ==
  {"none", "materialized-child", "scope-not-inspected", "compiled-child",
   "identity-unavailable"}

LEMMA FactsType ==
  ASSUME NEW b, NEW d, NEW edges, NEW depth, NEW sub, NEW n
  PROVE  /\ BranchFact(b, d, edges, depth, n) \in BranchFacts
         /\ SubgraphFact(b, d, sub, n) \in SubgraphFacts
BY DEF BranchFact, SubgraphFact, BranchFacts, SubgraphFacts

\* A fan-out below the root's budget is called all-declared only when the edges
\* recorded for the node are those of the builder as it is.
LEMMA AllDeclaredIsCurrent ==
  ASSUME NEW b \in Builder, NEW d, NEW edges \in SUBSET EdgeType, NEW depth, NEW n,
         depth > 0 \/ edges = EdgeDocuments(b),
         BranchFact(b, d, edges, depth, n) = "all-declared"
  PROVE  /\ {e \in edges : e.source = n} = {e \in EdgeDocuments(b) : e.source = n}
         /\ n \notin Dynamic(b)
<1> DEFINE outgoing == {e \in edges : e.source = n}
           declared == {e \in EdgeDocuments(b) : e.source = n}
<1>1. n \notin Dynamic(b) /\ (depth > 0 => Signature(outgoing) = Signature(declared))
  BY DEF BranchFact
<1>2. CASE edges = EdgeDocuments(b)
  BY <1>1, <1>2
<1>3. CASE depth > 0
  <2>1. EdgeDocuments(b) \subseteq EdgeType
    BY EdgeDocumentsType
  <2>2. \A e, f \in EdgeType :
          e.source = f.source /\ e.target = f.target /\ e.kind = f.kind
            /\ e.occurrence = f.occurrence => e = f
    BY DEF EdgeType
  <2>3. ASSUME NEW A \in SUBSET EdgeType, NEW C \in SUBSET EdgeType,
               \A e \in A \cup C : e.source = n, Signature(A) = Signature(C), NEW e \in A
        PROVE  e \in C
    <3>1. <<e.target, e.kind, e.occurrence>> \in Signature(C)
      BY <2>3 DEF Signature
    <3>2. PICK f \in C : <<e.target, e.kind, e.occurrence>> = <<f.target, f.kind, f.occurrence>>
      BY <3>1 DEF Signature
    <3>3. e = f
      BY <3>2, <2>2, <2>3
    <3>4. QED
      BY <3>3
  <2>4. /\ outgoing \in SUBSET EdgeType /\ declared \in SUBSET EdgeType
        /\ \A e \in outgoing \cup declared : e.source = n
        /\ Signature(outgoing) = Signature(declared)
    BY <1>1, <1>3, <2>1
  <2> HIDE DEF outgoing, declared
  <2>5. outgoing = declared
    BY <2>3, <2>4
  <2>6. QED
    BY <2>5, <1>1 DEF outgoing, declared
<1>4. QED
  BY <1>2, <1>3

-------------------------------------------------------------------------------
(* The inductive invariant of one caller, as a predicate of the builders B and *)
(* of its phase ph, graphs ds, suspended calls st and output out: its loops   *)
(* run from one await to the next, so that a step goes through states nobody  *)
(* else sees (pc "looping"), of which the invariant must speak too.            *)

\* The gaps found so far, those a resolved promise carries included.
Found(st, out) == out.gaps \cup UNION {st[k].gaps \cup st[k].result.gaps : k \in DOMAIN st}

LoopFrame(I) ==
  [ doc : I, pc : {"drawing", "drawn", "looping", "awaiting", "resuming"},
    todo : SUBSET NodeId, result : ResultType(I), descendants : SUBSET I,
    gaps : SUBSET GapType ]

Shapes(ds, st, out) ==
  /\ ds \in Seq(DocumentType)
  /\ st \in Seq(LoopFrame(DOMAIN ds))
  /\ out \in ResultType(DOMAIN ds)

\* All calls but the innermost one await the one they made.
Suspended(st, pcs) ==
  \A k \in DOMAIN st : IF k = Len(st) THEN st[k].pc \in pcs ELSE st[k].pc = "awaiting"

OneEach(st) == \A j, k \in DOMAIN st : st[j].doc = st[k].doc => j = k

FrameInv(ds, f) ==
  /\ f.pc \in {"drawing", "drawn"} =>
       /\ ds[f.doc].state = "drawing"
       /\ f.todo = {} /\ f.gaps = {} /\ f.descendants = {}
  /\ f.pc \in {"looping", "awaiting", "resuming"} => ds[f.doc].state = "built"
  /\ f.todo # {} => ds[f.doc].depth > 0
  /\ f.pc \in {"awaiting", "resuming"} => ds[f.doc].depth > 0
  /\ f.pc # "resuming" => f.result = NoResult

Unique(ds) == \A i, j \in DOMAIN ds : ds[i].id = ds[j].id => i = j

\* A reference was made at a node that was drawn with its own runnable, and names
\* a graph of that runnable; the facts agree with it.
DocInv(B, ds, doc) ==
  /\ doc.state = "drawing" => doc.routers = {} /\ \A n \in NodeId : doc.sub[n] = NoRef
  /\ doc.state # "closed" => \A n \in NodeId : doc.branch[n] = "none"
  /\ doc.drawable.same \subseteq B[doc.obj].nodes \cap doc.drawable.ids
  /\ \A n \in NodeId : doc.sub[n] # NoRef =>
       /\ n \in doc.drawable.same
       /\ \E j \in DOMAIN ds : /\ ds[j].id = doc.sub[n]
                               /\ ds[j].obj = B[doc.obj].runnable[n]
                               /\ ds[j].depth = doc.depth - 1
  /\ doc.state = "closed" => \A n \in doc.drawable.same :
       doc.sub[n] # NoRef <=> doc.subgraph[n] = "materialized-child"

DocsInv(B, ds) == Unique(ds) /\ \A i \in DOMAIN ds : DocInv(B, ds, ds[i])

Ahead(st, i, n) == \E k \in DOMAIN st : st[k].doc = i /\ n \in st[k].todo

\* Nothing is lost on its way up.
Kept(ds, st, out) ==
  \A i \in DOMAIN ds :
    \/ i \in out.graphs
    \/ \E k \in DOMAIN st :
         i = st[k].doc \/ i \in st[k].descendants \/ i \in st[k].result.graphs

Active(ds, st) ==
  \A i \in DOMAIN ds : (\A k \in DOMAIN st : st[k].doc # i) => ds[i].state = "closed"

RouterGap(gid, s) == [code |-> "unknown-routing-targets", graph |-> gid, node |-> s]

FoundInv(ds, st, out) ==
  /\ \A i \in DOMAIN ds : \A s \in ds[i].routers : RouterGap(ds[i].id, s) \in Found(st, out)
  /\ \A g \in Found(st, out) : \E i \in DOMAIN ds : ds[i].id = g.graph /\ ds[i].state # "drawing"
  /\ \A g \in Found(st, out) : g.code = "child-graph-id-collision" =>
       \E i \in DOMAIN ds : ds[i].id = DerivedId(g.graph, g.node)
  /\ \A i \in DOMAIN ds, n \in NodeId :
       Collision(ds[i].id, n) \in Found(st, out) => ~Ahead(st, i, n)

Opaque(ds, st, out, i, n) ==
  \/ ds[i].depth = 0
  \/ Collision(ds[i].id, n) \in Found(st, out)
  \/ Ahead(st, i, n)

Accounted(B, ds, st, out) ==
  \A i \in DOMAIN ds : ds[i].state # "drawing" =>
    \A n \in ds[i].drawable.same : B[ds[i].obj].runnable[n] # NoChild =>
      (ds[i].sub[n] = NoRef <=> Opaque(ds, st, out, i, n))

LoopInv(B, ds, st, out, pcs) ==
  /\ Shapes(ds, st, out) /\ DocsInv(B, ds)
  /\ Suspended(st, pcs) /\ OneEach(st)
  /\ \A k \in DOMAIN st : FrameInv(ds, st[k])
  /\ Kept(ds, st, out) /\ Active(ds, st) /\ FoundInv(ds, st, out) /\ Accounted(B, ds, st, out)

AwaitPoint == {"drawing", "drawn", "resuming"}

CallerInv(B, ph, ds, st, out) ==
  /\ ph = "extracting" <=> st # << >>
  /\ ph = "idle" => ds = << >>
  /\ ph \in {"idle", "extracting", "raised"} => out = NoResult
  /\ IF ph = "raised" THEN Shapes(ds, st, out) /\ DocsInv(B, ds)
                      ELSE LoopInv(B, ds, st, out, AwaitPoint)

-------------------------------------------------------------------------------
(* The loop descends into a child.                                          *)

Ids(ds) == {ds[i].id : i \in DOMAIN ds}

Holds(B, doc, n) == MappedCompiledChild(B[doc.obj], doc.drawable, n)

OpenIn(B, ds, doc, todo) ==
  {n \in todo : Holds(B, doc, n) # NoChild /\ DerivedId(doc.id, n) \notin Ids(ds)}

RefusedIn(B, ds, doc, todo) ==
  {Collision(doc.id, n) : n \in {m \in todo :
     Holds(B, doc, m) # NoChild /\ DerivedId(doc.id, m) \in Ids(ds)}}

\* The elements of the graphs and of the suspended calls.
LEMMA Elements ==
  ASSUME NEW ds, NEW st, NEW out, Shapes(ds, st, out)
  PROVE  /\ Len(ds) \in Nat /\ DOMAIN ds = 1..Len(ds)
         /\ Len(st) \in Nat /\ DOMAIN st = 1..Len(st)
         /\ \A i \in DOMAIN ds : ds[i] \in DocumentType
         /\ \A k \in DOMAIN st : st[k] \in LoopFrame(DOMAIN ds) /\ st[k].doc \in DOMAIN ds
         /\ st # << >> => Len(st) \in DOMAIN st
<1>1. /\ Len(ds) \in Nat /\ DOMAIN ds = 1..Len(ds)
      /\ Len(st) \in Nat /\ DOMAIN st = 1..Len(st)
  BY LenProperties DEF Shapes
<1>2. \A i \in DOMAIN ds : ds[i] \in DocumentType
  BY <1>1, ElementOfSeq DEF Shapes
<1>3. \A k \in DOMAIN st : st[k] \in LoopFrame(DOMAIN ds)
  BY <1>1, ElementOfSeq DEF Shapes
<1>4. \A k \in DOMAIN st : st[k].doc \in DOMAIN ds
  BY <1>3 DEF LoopFrame
<1>5. st # << >> => Len(st) \in DOMAIN st
  BY <1>1, EmptySeq DEF Shapes
<1>6. QED
  BY <1>1, <1>2, <1>3, <1>4, <1>5

\* What a drawn node with its own runnable holds is that runnable.
LEMMA HoldsRunnable ==
  ASSUME NEW B, NEW ds, NEW doc, DocInv(B, ds, doc), NEW n
  PROVE  /\ n \in doc.drawable.same => Holds(B, doc, n) = B[doc.obj].runnable[n]
         /\ Holds(B, doc, n) # NoChild =>
              n \in doc.drawable.same /\ Holds(B, doc, n) = B[doc.obj].runnable[n]
BY DEF DocInv, Holds, MappedCompiledChild, Mapped

Marked(doc, n, gid) == [doc EXCEPT !.sub[n] = gid]

Suspend(f, rest, refused) ==
  [f EXCEPT !.pc = "awaiting", !.todo = rest, !.gaps = @ \cup refused]

LEMMA MarkedFields ==
  ASSUME NEW doc \in DocumentType, NEW n \in NodeId, NEW gid \in Seq(Token)
  PROVE  /\ Marked(doc, n, gid) \in DocumentType
         /\ Marked(doc, n, gid).id = doc.id /\ Marked(doc, n, gid).obj = doc.obj
         /\ Marked(doc, n, gid).depth = doc.depth /\ Marked(doc, n, gid).state = doc.state
         /\ Marked(doc, n, gid).drawable = doc.drawable
         /\ Marked(doc, n, gid).routers = doc.routers
         /\ Marked(doc, n, gid).branch = doc.branch
         /\ Marked(doc, n, gid).subgraph = doc.subgraph
         /\ \A m \in NodeId : Marked(doc, n, gid).sub[m] = IF m = n THEN gid ELSE doc.sub[m]
BY DEF Marked, DocumentType

LEMMA FreshTypes ==
  ASSUME NEW gid \in Seq(Token), NEW g \in Graph, NEW d \in Nat, NEW I, NEW i \in I
  PROVE  Document(gid, g, d) \in DocumentType /\ Frame(i) \in LoopFrame(I)
<1>1. << >> \in Seq(Token)
  OBVIOUS
<1>2. Document(gid, g, d) \in DocumentType
  BY <1>1 DEF Document, DocumentType, NoRef
<1>3. Frame(i) \in LoopFrame(I)
  BY DEF Frame, LoopFrame, NoResult, ResultType
<1>4. QED
  BY <1>2, <1>3

LEMMA LoopFrameMonotonic ==
  ASSUME NEW I, NEW J, I \subseteq J
  PROVE  /\ \A s \in Seq(LoopFrame(I)) : s \in Seq(LoopFrame(J))
         /\ ResultType(I) \subseteq ResultType(J)
         /\ LoopFrame(I) \subseteq LoopFrame(J)
<1>1. ResultType(I) \subseteq ResultType(J)
  BY DEF ResultType
<1>2. LoopFrame(I) \subseteq LoopFrame(J)
  BY <1>1 DEF LoopFrame
<1>3. QED
  BY <1>1, <1>2, SeqMonotonic

\* Replacing the graph and the suspended call of the innermost loop.
LEMMA ReplaceElements ==
  ASSUME NEW S, NEW s \in Seq(S), NEW i \in DOMAIN s, NEW e \in S
  PROVE  /\ [s EXCEPT ![i] = e] \in Seq(S)
         /\ Len([s EXCEPT ![i] = e]) = Len(s)
         /\ DOMAIN [s EXCEPT ![i] = e] = DOMAIN s
         /\ \A j \in DOMAIN s : [s EXCEPT ![i] = e][j] = IF j = i THEN e ELSE s[j]
<1>1. DOMAIN s = 1..Len(s)
  BY LenProperties
<1>2. QED
  BY <1>1, ExceptSeq

\* The sequences after a descent, as they are computed and field by field.
Extends(ds, st, N, L, i, n, gid, child, d, rest, R, ds2, st2) ==
  /\ N = Len(ds) /\ L = Len(st) /\ i = st[L].doc
  /\ ds2 = Append([ds EXCEPT ![i] = Marked(ds[i], n, gid)], Document(gid, child, d))
  /\ st2 = Append([st EXCEPT ![L] = Suspend(st[L], rest, R)], Frame(N + 1))

FieldsAfter(ds, st, out, N, L, i, n, gid, child, d, rest, R, ds2, st2) ==
  /\ L \in Nat \ {0} /\ DOMAIN ds2 = 1..(N + 1)
  /\ DOMAIN st2 = 1..(L + 1) /\ Len(st2) = L + 1
  /\ Shapes(ds2, st2, out)
  /\ \A j \in DOMAIN ds :
       /\ ds2[j].id = ds[j].id /\ ds2[j].obj = ds[j].obj
       /\ ds2[j].depth = ds[j].depth /\ ds2[j].state = ds[j].state
       /\ ds2[j].drawable = ds[j].drawable /\ ds2[j].routers = ds[j].routers
       /\ ds2[j].branch = ds[j].branch /\ ds2[j].subgraph = ds[j].subgraph
       /\ \A m \in NodeId :
            ds2[j].sub[m] = IF j = i /\ m = n THEN gid ELSE ds[j].sub[m]
  /\ ds2[N + 1] = Document(gid, child, d)
  /\ \A k \in 1..(L - 1) : st2[k] = st[k]
  /\ st2[L].doc = i /\ st2[L].pc = "awaiting" /\ st2[L].todo = rest
  /\ st2[L].result = st[L].result /\ st2[L].descendants = st[L].descendants
  /\ st2[L].gaps = st[L].gaps \cup R
  /\ st2[L + 1] = Frame(N + 1)

LEMMA DescendEffect ==
  ASSUME NEW ds, NEW st, NEW out, Shapes(ds, st, out), st # << >>,
         NEW N, NEW L, NEW i,
         NEW n \in NodeId, NEW gid \in Seq(Token), NEW child \in Graph, NEW d \in Nat,
         NEW rest \in SUBSET NodeId, NEW R \in SUBSET GapType, NEW ds2, NEW st2,
         Extends(ds, st, N, L, i, n, gid, child, d, rest, R, ds2, st2)
  PROVE  FieldsAfter(ds, st, out, N, L, i, n, gid, child, d, rest, R, ds2, st2)
<1> DEFINE marked == Marked(ds[i], n, gid)
           moved == Suspend(st[L], rest, R)
           ds1 == [ds EXCEPT ![i] = marked]
           st1 == [st EXCEPT ![L] = moved]
           new == Document(gid, child, d)
           top == Frame(N + 1)
<1>1. /\ N \in Nat /\ DOMAIN ds = 1..N /\ L \in Nat /\ DOMAIN st = 1..L
      /\ L \in DOMAIN st /\ i \in DOMAIN ds
      /\ ds[i] \in DocumentType /\ st[L] \in LoopFrame(DOMAIN ds) /\ i = st[L].doc
      /\ N = Len(ds) /\ L = Len(st)
  BY Elements DEF Extends
<1>2. L \in Nat \ {0}
  BY <1>1
<1>3. /\ marked \in DocumentType
      /\ marked.id = ds[i].id /\ marked.obj = ds[i].obj
      /\ marked.depth = ds[i].depth /\ marked.state = ds[i].state
      /\ marked.drawable = ds[i].drawable /\ marked.routers = ds[i].routers
      /\ marked.branch = ds[i].branch /\ marked.subgraph = ds[i].subgraph
      /\ \A m \in NodeId : marked.sub[m] = IF m = n THEN gid ELSE ds[i].sub[m]
  BY <1>1, MarkedFields
<1>4. /\ moved \in LoopFrame(DOMAIN ds)
      /\ moved.doc = i /\ moved.pc = "awaiting" /\ moved.todo = rest
      /\ moved.result = st[L].result /\ moved.descendants = st[L].descendants
      /\ moved.gaps = st[L].gaps \cup R
  <2>1. PICK f : f = st[L]
    OBVIOUS
  <2>2. f \in LoopFrame(DOMAIN ds) /\ moved = Suspend(f, rest, R)
    BY <2>1, <1>1
  <2> HIDE DEF moved
  <2>3. /\ Suspend(f, rest, R) \in LoopFrame(DOMAIN ds)
        /\ Suspend(f, rest, R).doc = f.doc /\ Suspend(f, rest, R).pc = "awaiting"
        /\ Suspend(f, rest, R).todo = rest /\ Suspend(f, rest, R).result = f.result
        /\ Suspend(f, rest, R).descendants = f.descendants
        /\ Suspend(f, rest, R).gaps = f.gaps \cup R
    BY <2>2 DEF Suspend, LoopFrame
  <2>4. QED
    BY <2>1, <2>2, <2>3, <1>1
<1>5. new \in DocumentType
  BY FreshTypes
<1>6. ds2 = Append(ds1, new) /\ st2 = Append(st1, top)
  BY DEF Extends
<1> HIDE DEF marked, moved, new, top
<1>7. /\ ds1 \in Seq(DocumentType) /\ Len(ds1) = N /\ DOMAIN ds1 = DOMAIN ds
      /\ \A j \in DOMAIN ds : ds1[j] = IF j = i THEN marked ELSE ds[j]
  BY <1>1, <1>3, ReplaceElements DEF Shapes
<1>8. /\ st1 \in Seq(LoopFrame(DOMAIN ds)) /\ Len(st1) = L /\ DOMAIN st1 = DOMAIN st
      /\ \A k \in DOMAIN st : st1[k] = IF k = L THEN moved ELSE st[k]
  BY <1>1, <1>4, ReplaceElements DEF Shapes
<1> HIDE DEF ds1, st1
<1>9. /\ ds2 \in Seq(DocumentType) /\ DOMAIN ds2 = 1..(N + 1) /\ ds2[N + 1] = new
      /\ \A j \in DOMAIN ds : ds2[j] = ds1[j]
  <2>1. \A j \in DOMAIN ds : j \in 1..N
    BY <1>1
  <2>2. /\ Append(ds1, new) \in Seq(DocumentType) /\ Len(Append(ds1, new)) = N + 1
        /\ \A j \in 1..N : Append(ds1, new)[j] = ds1[j]
        /\ Append(ds1, new)[N + 1] = new
    BY <1>5, <1>7, AppendProperties
  <2>3. QED
    BY <2>1, <2>2, <1>6, LenProperties
<1>10. DOMAIN ds \subseteq DOMAIN ds2 /\ N + 1 \in DOMAIN ds2
  BY <1>1, <1>9
<1>11. top \in LoopFrame(DOMAIN ds2)
  BY <1>10, FreshTypes DEF top
<1>12. st1 \in Seq(LoopFrame(DOMAIN ds2)) /\ out \in ResultType(DOMAIN ds2)
  BY <1>8, <1>10, LoopFrameMonotonic DEF Shapes
<1>13. /\ st2 \in Seq(LoopFrame(DOMAIN ds2)) /\ DOMAIN st2 = 1..(L + 1) /\ Len(st2) = L + 1
       /\ st2[L + 1] = top /\ \A k \in DOMAIN st : st2[k] = st1[k]
  <2>1. \A k \in DOMAIN st : k \in 1..L
    BY <1>1
  <2>2. /\ Append(st1, top) \in Seq(LoopFrame(DOMAIN ds2)) /\ Len(Append(st1, top)) = L + 1
        /\ \A k \in 1..L : Append(st1, top)[k] = st1[k]
        /\ Append(st1, top)[L + 1] = top
    BY <1>11, <1>12, <1>8, AppendProperties
  <2>3. QED
    BY <2>1, <2>2, <1>6, LenProperties
<1>14. Shapes(ds2, st2, out)
  BY <1>9, <1>12, <1>13 DEF Shapes
<1>15. ASSUME NEW j \in DOMAIN ds
       PROVE  /\ ds2[j].id = ds[j].id /\ ds2[j].obj = ds[j].obj
              /\ ds2[j].depth = ds[j].depth /\ ds2[j].state = ds[j].state
              /\ ds2[j].drawable = ds[j].drawable /\ ds2[j].routers = ds[j].routers
              /\ ds2[j].branch = ds[j].branch /\ ds2[j].subgraph = ds[j].subgraph
              /\ \A m \in NodeId :
                   ds2[j].sub[m] = IF j = i /\ m = n THEN gid ELSE ds[j].sub[m]
  <2>1. ds2[j] = IF j = i THEN marked ELSE ds[j]
    BY <1>7, <1>9
  <2>2. CASE j = i
    BY <2>1, <2>2, <1>3
  <2>3. CASE j # i
    BY <2>1, <2>3
  <2>4. QED
    BY <2>2, <2>3
<1>16. st2[L] = moved /\ \A k \in 1..(L - 1) : st2[k] = st[k]
  BY <1>1, <1>2, <1>8, <1>13, SMTT(60)
<1>17. QED
  BY <1>1, <1>2, <1>4, <1>9, <1>13, <1>14, <1>15, <1>16 DEF new, top, FieldsAfter

\* A descent into the first open node n; passed are the nodes before it.
Descent(B, ds, st, N, L, i, todo, n, passed, gid, child, R, ds2, st2) ==
  /\ N = Len(ds) /\ L = Len(st) /\ i = st[L].doc /\ todo = st[L].todo
  /\ n \in OpenIn(B, ds, ds[i], todo)
  /\ passed \subseteq todo /\ n \notin passed /\ OpenIn(B, ds, ds[i], passed) = {}
  /\ gid = DerivedId(ds[i].id, n) /\ child = Holds(B, ds[i], n)
  /\ R = RefusedIn(B, ds, ds[i], passed)
  /\ ds2 = Append([ds EXCEPT ![i] = Marked(ds[i], n, gid)],
                  Document(gid, child, ds[i].depth - 1))
  /\ st2 = Append([st EXCEPT ![L] = Suspend(st[L], todo \ (passed \cup {n}), R)],
                  Frame(N + 1))

\* What that leads to.
Reached(ds, st, out, N, L, i, n, gid, child, R, ds2, st2) ==
  /\ n \in NodeId /\ gid # NoRef /\ i \in DOMAIN ds /\ N \in Nat /\ DOMAIN ds = 1..N
  /\ \E d, rest : d = ds[i].depth - 1
                   /\ FieldsAfter(ds, st, out, N, L, i, n, gid, child, d, rest, R, ds2, st2)
  /\ Found(st2, out) = Found(st, out) \cup R

LEMMA DescendLoop ==
  ASSUME NEW B, B \in [Graph -> Builder], NEW ds, NEW st, NEW out,
         LoopInv(B, ds, st, out, {"looping"}), st # << >>,
         NEW N, NEW L, NEW i, NEW todo, NEW n, NEW passed, NEW gid, NEW child, NEW R,
         NEW ds2, NEW st2,
         Descent(B, ds, st, N, L, i, todo, n, passed, gid, child, R, ds2, st2)
  PROVE  /\ LoopInv(B, ds2, st2, out, AwaitPoint) /\ st2 # << >>
         /\ Ids(ds2) = Ids(ds) \cup {gid}
         /\ \A j \in DOMAIN ds : ds2[j].state = ds[j].state
         /\ Reached(ds, st, out, N, L, i, n, gid, child, R, ds2, st2)
<1> DEFINE rest == todo \ (passed \cup {n})
<1>1. PICK d : d = ds[i].depth - 1
  OBVIOUS
<1>2. Shapes(ds, st, out) /\ DocsInv(B, ds) /\ Unique(ds) /\ OneEach(st)
  BY DEF LoopInv, DocsInv
<1>3. /\ N \in Nat /\ DOMAIN ds = 1..N /\ L \in Nat /\ DOMAIN st = 1..L
      /\ L \in DOMAIN st /\ i \in DOMAIN ds
      /\ ds[i] \in DocumentType /\ st[L] \in LoopFrame(DOMAIN ds)
      /\ \A k \in DOMAIN st : st[k].doc \in DOMAIN ds
  <2>1. N = Len(ds) /\ L = Len(st) /\ i = st[L].doc
    BY DEF Descent
  <2>2. QED
    BY <2>1, <1>2, Elements
<1>0. /\ st[L].doc = i /\ st[L].todo = todo /\ L = Len(st)
      /\ passed \subseteq todo /\ n \notin passed /\ OpenIn(B, ds, ds[i], passed) = {}
      /\ R = RefusedIn(B, ds, ds[i], passed)
      /\ gid = DerivedId(ds[i].id, n)
  BY DEF Descent
<1>4. /\ ds[i].id \in Seq(Token) /\ ds[i].obj \in Graph /\ ds[i].depth \in Nat
      /\ todo \subseteq NodeId
  BY <1>0, <1>3 DEF DocumentType, LoopFrame
<1>5. /\ n \in todo /\ n \in NodeId /\ child # NoChild /\ gid \notin Ids(ds)
      /\ child = Holds(B, ds[i], n)
  BY <1>4 DEF Descent, OpenIn
<1>6. /\ ds[i].state = "built" /\ ds[i].depth > 0 /\ st[L].result = NoResult
      /\ st[L].pc = "looping"
  <2>1. st[L].pc = "looping"
    BY <1>0, <1>3 DEF LoopInv, Suspended
  <2>2. FrameInv(ds, st[L])
    BY <1>3 DEF LoopInv
  <2>3. QED
    BY <2>1, <2>2, <1>0, <1>5 DEF FrameInv
<1>7. d \in Nat
  BY <1>1, <1>4, <1>6
<1>8. DocInv(B, ds, ds[i])
  BY <1>2, <1>3 DEF DocsInv
<1>9. n \in ds[i].drawable.same /\ child = B[ds[i].obj].runnable[n] /\ child \in Graph
  <2>1. n \in ds[i].drawable.same /\ child = B[ds[i].obj].runnable[n]
    BY <1>5, <1>8, HoldsRunnable
  <2>2. B[ds[i].obj].runnable[n] \in ChildOrNone
    <3>1. B[ds[i].obj] \in Builder
      BY <1>4
    <3>2. QED
      BY <1>5, <3>1 DEF Builder
  <2>3. QED
    BY <2>1, <2>2, <1>5 DEF ChildOrNone
<1>10. gid \in Seq(Token) /\ gid # NoRef
  <2>1. n \in Seq(Token) /\ n # << >> /\ Colon \in Token
    BY <1>5, IdsAssumption DEF NodeIdAssumption
  <2>2. gid = DerivedId(ds[i].id, n)
    BY <1>0
  <2>3. QED
    BY <1>4, <2>1, <2>2 DEF DerivedId, NoRef
<1>11. R \subseteq GapType /\ rest \subseteq NodeId
  <2>1. \A m \in NodeId : Collision(ds[i].id, m) \in GapType
    BY <1>4 DEF Collision, GapType
  <2>2. QED
    BY <1>0, <1>4, <2>1 DEF RefusedIn
<1> HIDE DEF rest
<1>f. FieldsAfter(ds, st, out, N, L, i, n, gid, child, d, rest, R, ds2, st2)
  <2>1. Extends(ds, st, N, L, i, n, gid, child, d, rest, R, ds2, st2)
    BY <1>1 DEF Descent, Extends, rest
  <2>2. n \in NodeId /\ gid \in Seq(Token) /\ child \in Graph /\ d \in Nat
        /\ rest \in SUBSET NodeId /\ R \in SUBSET GapType
    BY <1>5, <1>7, <1>9, <1>10, <1>11
  <2>3. QED
    BY <2>1, <2>2, <1>2, DescendEffect, SMTT(60)
<1>12. /\ L \in Nat \ {0} /\ DOMAIN ds2 = 1..(N + 1)
       /\ DOMAIN st2 = 1..(L + 1) /\ Len(st2) = L + 1
       /\ Shapes(ds2, st2, out)
       /\ \A j \in DOMAIN ds :
            /\ ds2[j].id = ds[j].id /\ ds2[j].obj = ds[j].obj
            /\ ds2[j].depth = ds[j].depth /\ ds2[j].state = ds[j].state
            /\ ds2[j].drawable = ds[j].drawable /\ ds2[j].routers = ds[j].routers
            /\ ds2[j].branch = ds[j].branch /\ ds2[j].subgraph = ds[j].subgraph
            /\ \A m \in NodeId :
                 ds2[j].sub[m] = IF j = i /\ m = n THEN gid ELSE ds[j].sub[m]
       /\ ds2[N + 1] = Document(gid, child, d)
       /\ \A k \in 1..(L - 1) : st2[k] = st[k]
       /\ st2[L].doc = i /\ st2[L].pc = "awaiting" /\ st2[L].todo = rest
       /\ st2[L].result = st[L].result /\ st2[L].descendants = st[L].descendants
       /\ st2[L].gaps = st[L].gaps \cup R
       /\ st2[L + 1] = Frame(N + 1)
  BY <1>f DEF FieldsAfter
<1>13. /\ ds2[N + 1].id = gid /\ ds2[N + 1].obj = child /\ ds2[N + 1].depth = d
       /\ ds2[N + 1].state = "drawing" /\ ds2[N + 1].drawable.same = {}
       /\ ds2[N + 1].routers = {} /\ \A m \in NodeId : ds2[N + 1].sub[m] = NoRef
       /\ \A m \in NodeId : ds2[N + 1].branch[m] = "none"
  BY <1>12 DEF Document
<1>14. /\ st2[L + 1].doc = N + 1 /\ st2[L + 1].pc = "drawing" /\ st2[L + 1].todo = {}
       /\ st2[L + 1].result = NoResult /\ st2[L + 1].gaps = {}
       /\ st2[L + 1].descendants = {}
  BY <1>12 DEF Frame
<1>15. /\ \A j \in DOMAIN ds : j \in DOMAIN ds2 /\ j # N + 1
       /\ N + 1 \in DOMAIN ds2 /\ \A j \in DOMAIN ds2 : j \in DOMAIN ds \/ j = N + 1
       /\ \A k \in DOMAIN st : k \in DOMAIN st2 /\ k # L + 1 /\ (k = L \/ k \in 1..(L - 1))
       /\ L + 1 \in DOMAIN st2 /\ \A k \in DOMAIN st2 : k \in DOMAIN st \/ k = L + 1
  BY <1>3, <1>12
<1>16. \A k \in DOMAIN st : k # L => st2[k] = st[k]
  BY <1>12, <1>15
\* Nobody else works on the graph.
<1>17. \A k \in DOMAIN st : st[k].doc = i => k = L
  BY <1>0, <1>2, <1>3 DEF OneEach
<1>18. Suspended(st2, AwaitPoint)
  <2>1. \A k \in DOMAIN st : k # L => st[k].pc = "awaiting"
    BY <1>0 DEF LoopInv, Suspended
  <2>2. QED
    BY <2>1, <1>12, <1>14, <1>15, <1>16 DEF Suspended, AwaitPoint
<1>19. OneEach(st2)
  <2>1. \A k \in DOMAIN st : st2[k].doc = st[k].doc /\ st2[k].doc # N + 1
    BY <1>0, <1>3, <1>12, <1>15, <1>16
  <2>2. QED
    BY <2>1, <1>2, <1>14, <1>15 DEF OneEach
<1>20. ASSUME NEW k \in DOMAIN st2 PROVE FrameInv(ds2, st2[k])
  <2>1. CASE k = L + 1
    BY <2>1, <1>13, <1>14 DEF FrameInv
  <2>2. CASE k = L
    BY <2>2, <1>3, <1>6, <1>12 DEF FrameInv
  <2>3. CASE k \in DOMAIN st /\ k # L
    <3>1. st2[k] = st[k] /\ st[k].doc \in DOMAIN ds /\ FrameInv(ds, st[k])
      BY <2>3, <1>3, <1>16 DEF LoopInv
    <3>2. ds2[st[k].doc].state = ds[st[k].doc].state /\ ds2[st[k].doc].depth = ds[st[k].doc].depth
      BY <3>1, <1>12
    <3>3. QED
      BY <3>1, <3>2 DEF FrameInv
  <2>4. QED
    BY <2>1, <2>2, <2>3, <1>15
<1>21. Unique(ds2)
  <2>1. \A j \in DOMAIN ds : ds2[j].id = ds[j].id /\ ds2[j].id # gid
    BY <1>5, <1>12 DEF Ids
  <2>2. QED
    BY <2>1, <1>2, <1>13, <1>15 DEF Unique
<1>22. ASSUME NEW j \in DOMAIN ds2 PROVE DocInv(B, ds2, ds2[j])
  <2>1. CASE j = N + 1
    BY <2>1, <1>13 DEF DocInv
  <2>2. CASE j \in DOMAIN ds
    <3>1. DocInv(B, ds, ds[j])
      BY <2>2, <1>2 DEF DocsInv
    <3>2. ASSUME NEW m \in NodeId, ds2[j].sub[m] # NoRef
          PROVE  /\ m \in ds2[j].drawable.same
                 /\ \E h \in DOMAIN ds2 : /\ ds2[h].id = ds2[j].sub[m]
                                          /\ ds2[h].obj = B[ds2[j].obj].runnable[m]
                                          /\ ds2[h].depth = ds2[j].depth - 1
      <4>1. CASE j = i /\ m = n
        <5>1. /\ ds2[N + 1].id = ds2[j].sub[m] /\ m \in ds2[j].drawable.same
              /\ ds2[N + 1].obj = B[ds2[j].obj].runnable[m]
              /\ ds2[N + 1].depth = ds2[j].depth - 1
          BY <4>1, <2>2, <1>1, <1>9, <1>12, <1>13, ZenonT(60)
        <5>2. QED
          BY <5>1, <1>15, SMTT(60)
      <4>2. CASE ~(j = i /\ m = n)
        <5>1. /\ ds2[j].sub[m] = ds[j].sub[m] /\ ds2[j].drawable = ds[j].drawable
              /\ ds2[j].obj = ds[j].obj /\ ds2[j].depth = ds[j].depth
          BY <4>2, <2>2, <1>12
        <5>2. /\ m \in ds[j].drawable.same
              /\ \E h \in DOMAIN ds : /\ ds[h].id = ds[j].sub[m]
                                      /\ ds[h].obj = B[ds[j].obj].runnable[m]
                                      /\ ds[h].depth = ds[j].depth - 1
          BY <3>1, <3>2, <5>1 DEF DocInv
        <5>3. QED
          BY <5>1, <5>2, <1>12, <1>15
      <4>3. QED
        BY <4>1, <4>2
    <3>3. /\ ds2[j].state = "drawing" =>
               ds2[j].routers = {} /\ \A m \in NodeId : ds2[j].sub[m] = NoRef
          /\ ds2[j].state # "closed" => \A m \in NodeId : ds2[j].branch[m] = "none"
          /\ ds2[j].drawable.same \subseteq B[ds2[j].obj].nodes \cap ds2[j].drawable.ids
      BY <3>1, <2>2, <1>6, <1>12 DEF DocInv
    <3>4. ds2[j].state = "closed" => \A m \in ds2[j].drawable.same :
            ds2[j].sub[m] # NoRef <=> ds2[j].subgraph[m] = "materialized-child"
      <4>1. ds2[j].state = "closed" => j # i
        BY <2>2, <1>6, <1>12
      <4>2. ds[j].drawable.same \subseteq NodeId
        BY <2>2, <1>2, Elements DEF DocumentType
      <4>3. QED
        BY <4>1, <4>2, <3>1, <2>2, <1>12 DEF DocInv
    <3>5. QED
      BY <3>2, <3>3, <3>4 DEF DocInv
  <2>3. QED
    BY <2>1, <2>2, <1>15
<1>23. Kept(ds2, st2, out)
  <2>1. ASSUME NEW j \in DOMAIN ds, j \notin out.graphs
        PROVE  \E k \in DOMAIN st2 :
                 j = st2[k].doc \/ j \in st2[k].descendants \/ j \in st2[k].result.graphs
    <3>1. PICK k \in DOMAIN st :
            j = st[k].doc \/ j \in st[k].descendants \/ j \in st[k].result.graphs
      BY <2>1 DEF LoopInv, Kept
    <3>2. k \in DOMAIN st2
      BY <1>15
    <3>3. j = st2[k].doc \/ j \in st2[k].descendants \/ j \in st2[k].result.graphs
      BY <3>1, <1>0, <1>12, <1>16
    <3>4. QED
      BY <3>2, <3>3
  <2>2. QED
    BY <2>1, <1>14, <1>15 DEF Kept
<1>24. Active(ds2, st2)
  <2>1. \A k \in DOMAIN st : k \in DOMAIN st2 /\ st2[k].doc = st[k].doc
    BY <1>0, <1>12, <1>15, <1>16
  <2>2. \A j \in DOMAIN ds : (\A k \in DOMAIN st2 : st2[k].doc # j) => ds[j].state = "closed"
    BY <2>1 DEF LoopInv, Active
  <2>3. QED
    BY <2>2, <1>12, <1>14, <1>15 DEF Active
<1>25. Found(st2, out) = Found(st, out) \cup R
  <2>1. \A k \in DOMAIN st : st[k].gaps \cup st[k].result.gaps \subseteq
                               st2[k].gaps \cup st2[k].result.gaps
    BY <1>12, <1>16
  <2>2. \A k \in DOMAIN st : st2[k].gaps \cup st2[k].result.gaps \subseteq
                               st[k].gaps \cup st[k].result.gaps \cup R
    BY <1>12, <1>16
  <2>3. st2[L + 1].gaps \cup st2[L + 1].result.gaps = {}
    BY <1>14 DEF NoResult
  <2>4. R \subseteq st2[L].gaps
    BY <1>12
  <2>5. Found(st, out) \cup R \subseteq Found(st2, out)
    BY <2>1, <2>4, <1>3, <1>15, SMTT(60) DEF Found
  <2>6. Found(st2, out) \subseteq Found(st, out) \cup R
    BY <2>2, <2>3, <1>15 DEF Found
  <2>7. QED
    BY <2>5, <2>6
<1>26. /\ Ahead(st, i, n) /\ ~Ahead(st2, i, n)
       /\ \A m \in passed : Ahead(st, i, m) /\ ~Ahead(st2, i, m)
       /\ \A j \in DOMAIN ds, m \in NodeId :
            ~(j = i /\ m \in passed \cup {n}) => (Ahead(st2, j, m) <=> Ahead(st, j, m))
       /\ \A m \in NodeId : ~Ahead(st2, N + 1, m)
  <2>1. \A m : Ahead(st2, i, m) <=> m \in rest
    BY <1>3, <1>12, <1>14, <1>15, <1>16, <1>17, SMTT(60) DEF Ahead
  <2>2. \A m : Ahead(st, i, m) <=> m \in todo
    BY <1>0, <1>3, <1>17 DEF Ahead
  <2>3. ASSUME NEW j \in DOMAIN ds, NEW m, j # i
        PROVE  Ahead(st2, j, m) <=> Ahead(st, j, m)
    <3>1. j # N + 1
      BY <1>15
    <3>2. \A k \in DOMAIN st2 : st2[k].doc = j => k \in DOMAIN st /\ k # L
      BY <2>3, <3>1, <1>12, <1>14, <1>15
    <3>3. \A k \in DOMAIN st : st[k].doc = j => k # L /\ k \in DOMAIN st2
      BY <2>3, <1>0, <1>15
    <3>4. QED
      BY <3>2, <3>3, <1>16 DEF Ahead
  <2>4. \A m : ~Ahead(st2, N + 1, m)
    BY <1>3, <1>12, <1>14, <1>15, <1>16 DEF Ahead
  <2>5. QED
    BY <2>1, <2>2, <2>3, <2>4, <1>0, <1>5 DEF rest
<1>27. /\ \A j \in DOMAIN ds, m \in NodeId : Collision(ds[j].id, m) \in R => j = i /\ m \in passed
       /\ \A g \in R : g.graph = ds[i].id
       /\ \A g \in R : \E h \in DOMAIN ds : ds[h].id = DerivedId(g.graph, g.node)
  <2>1. \A g \in R : \E m \in passed : /\ g = Collision(ds[i].id, m)
                                      /\ DerivedId(ds[i].id, m) \in Ids(ds)
    BY <1>0 DEF RefusedIn
  <2>2. \A g \in R : g.graph = ds[i].id /\ g.node \in passed
                     /\ DerivedId(g.graph, g.node) \in Ids(ds)
    BY <2>1 DEF Collision
  <2>3. \A j, m : Collision(ds[j].id, m).graph = ds[j].id /\ Collision(ds[j].id, m).node = m
    BY DEF Collision
  <2>4. \A j \in DOMAIN ds : ds[j].id = ds[i].id => j = i
    BY <1>2, <1>3 DEF Unique
  <2>5. \A j \in DOMAIN ds, m \in NodeId : Collision(ds[j].id, m) \in R => j = i /\ m \in passed
    BY <2>2, <2>3, <2>4
  <2>6. QED
    BY <2>2, <2>5 DEF Ids
<1>28. FoundInv(ds2, st2, out)
  <2>1. FoundInv(ds, st, out)
    BY DEF LoopInv
  <2>2. \A j \in DOMAIN ds2 : \A s \in ds2[j].routers : RouterGap(ds2[j].id, s) \in Found(st2, out)
    BY <2>1, <1>12, <1>13, <1>15, <1>25, ZenonT(60) DEF FoundInv
  <2>3. ASSUME NEW g \in Found(st2, out)
        PROVE  \E j \in DOMAIN ds : ds[j].id = g.graph /\ ds[j].state # "drawing"
    BY <2>1, <1>3, <1>6, <1>25, <1>27 DEF FoundInv
  <2>4. ASSUME NEW g \in Found(st2, out), g.code = "child-graph-id-collision"
        PROVE  \E j \in DOMAIN ds : ds[j].id = DerivedId(g.graph, g.node)
    BY <2>1, <2>4, <1>25, <1>27 DEF FoundInv
  <2>5. ASSUME NEW j \in DOMAIN ds2, NEW m \in NodeId, Collision(ds2[j].id, m) \in Found(st2, out)
        PROVE  ~Ahead(st2, j, m)
    <3>1. CASE j = N + 1
      BY <3>1, <1>26
    <3>2. CASE j \in DOMAIN ds
      <4>1. ds2[j].id = ds[j].id
        BY <3>2, <1>12
      <4>2. CASE Collision(ds[j].id, m) \in R
        BY <4>2, <3>2, <1>26, <1>27
      <4>3. CASE Collision(ds[j].id, m) \in Found(st, out)
        <5>1. ~Ahead(st, j, m)
          BY <4>3, <3>2, <2>1 DEF FoundInv
        <5>2. QED
          BY <5>1, <3>2, <1>26
      <4>4. QED
        BY <4>1, <4>2, <4>3, <2>5, <1>25
    <3>3. QED
      BY <3>1, <3>2, <1>15
  <2>6. QED
    BY <2>2, <2>3, <2>4, <2>5, <1>12, <1>15 DEF FoundInv
<1>29. Accounted(B, ds2, st2, out)
  <2> SUFFICES ASSUME NEW j \in DOMAIN ds2, ds2[j].state # "drawing",
                      NEW m \in ds2[j].drawable.same, B[ds2[j].obj].runnable[m] # NoChild
               PROVE  ds2[j].sub[m] = NoRef <=> Opaque(ds2, st2, out, j, m)
    BY DEF Accounted
  <2>1. j \in DOMAIN ds
    BY <1>13, <1>15
  <2>2. /\ ds2[j].id = ds[j].id /\ ds2[j].depth = ds[j].depth /\ ds[j].state # "drawing"
        /\ m \in ds[j].drawable.same /\ B[ds[j].obj].runnable[m] # NoChild
    BY <2>1, <1>12
  <2>3. m \in NodeId
    BY <2>1, <2>2, <1>2, Elements DEF DocumentType
  <2>4. ds[j].sub[m] = NoRef <=> Opaque(ds, st, out, j, m)
    BY <2>1, <2>2 DEF LoopInv, Accounted
  <2>5. Collision(ds[j].id, m) \in Found(st, out) => ~Ahead(st, j, m)
    BY <2>1, <2>3 DEF LoopInv, FoundInv
  <2>6. CASE j = i /\ m = n
    <3>1. ds2[j].sub[m] # NoRef
      BY <2>6, <1>3, <1>5, <1>10, <1>12
    <3>2. Collision(ds[j].id, m) \notin Found(st2, out)
      <4>1. Collision(ds[j].id, m) \notin Found(st, out)
        BY <2>5, <2>6, <1>26
      <4>2. Collision(ds[j].id, m) \notin R
        BY <2>1, <2>3, <2>6, <1>0, <1>27
      <4>3. QED
        BY <4>1, <4>2, <1>25
    <3>3. QED
      BY <3>1, <3>2, <2>2, <2>6, <1>6, <1>26 DEF Opaque
  <2>7. CASE j = i /\ m \in passed
    <3>1. Holds(B, ds[i], m) # NoChild
      BY <2>2, <2>7, <1>8, HoldsRunnable
    <3>2. Collision(ds[i].id, m) \in R
      <4>1. DerivedId(ds[i].id, m) \in Ids(ds)
        BY <3>1, <2>7, <1>0 DEF OpenIn
      <4>2. QED
        BY <4>1, <3>1, <2>7, <1>0 DEF RefusedIn
    <3>3. ds[j].sub[m] = NoRef /\ ds2[j].sub[m] = NoRef
      <4>1. Ahead(st, j, m) /\ m # n
        BY <2>7, <1>0, <1>26
      <4>2. QED
        BY <4>1, <2>1, <2>3, <2>4, <1>12 DEF Opaque
    <3>4. QED
      BY <3>2, <3>3, <2>2, <2>7, <1>25 DEF Opaque
  <2>8. CASE ~(j = i /\ m \in passed \cup {n})
    <3>1. Ahead(st2, j, m) <=> Ahead(st, j, m)
      BY <2>1, <2>3, <2>8, <1>26
    <3>2. Collision(ds[j].id, m) \notin R
      BY <2>1, <2>3, <2>8, <1>27
    <3>3. ds2[j].sub[m] = ds[j].sub[m]
      BY <2>1, <2>3, <2>8, <1>12
    <3>4. QED
      BY <3>1, <3>2, <3>3, <2>2, <2>4, <1>25 DEF Opaque
  <2>9. QED
    BY <2>6, <2>7, <2>8
<1>30. st2 # << >> /\ \A j \in DOMAIN ds : ds2[j].state = ds[j].state
  BY <1>12
<1>31. Ids(ds2) = Ids(ds) \cup {gid}
  <2>1. \A j \in DOMAIN ds : ds2[j].id = ds[j].id
    BY <1>12
  <2>2. QED
    BY <2>1, <1>13, <1>15 DEF Ids
<1>32. Reached(ds, st, out, N, L, i, n, gid, child, R, ds2, st2)
  BY <1>f, <1>1, <1>3, <1>5, <1>10, <1>25 DEF Reached
<1>33. LoopInv(B, ds2, st2, out, AwaitPoint)
  BY <1>12, <1>18, <1>19, <1>20, <1>21, <1>22, <1>23, <1>24, <1>28, <1>29 DEF LoopInv, DocsInv
<1>34. QED
  BY <1>30, <1>31, <1>32, <1>33

-------------------------------------------------------------------------------
(* The loop is through: the facts are written.                              *)

\* The collisions found on the way.
LEMMA RefusedFacts ==
  ASSUME NEW B, NEW ds, Unique(ds), NEW i \in DOMAIN ds, NEW todo
  PROVE  /\ \A j \in DOMAIN ds, m \in NodeId :
              Collision(ds[j].id, m) \in RefusedIn(B, ds, ds[i], todo) => j = i /\ m \in todo
         /\ \A g \in RefusedIn(B, ds, ds[i], todo) :
              g.graph = ds[i].id /\ \E h \in DOMAIN ds : ds[h].id = DerivedId(g.graph, g.node)
<1> DEFINE R == RefusedIn(B, ds, ds[i], todo)
<1>1. \A g \in R : \E m \in todo : /\ g = Collision(ds[i].id, m)
                                   /\ DerivedId(ds[i].id, m) \in Ids(ds)
  BY DEF RefusedIn
<1> HIDE DEF R
<1>2. \A g \in R : g.graph = ds[i].id /\ g.node \in todo
                   /\ DerivedId(g.graph, g.node) \in Ids(ds)
  BY <1>1 DEF Collision
<1>3. \A j, m : Collision(ds[j].id, m).graph = ds[j].id /\ Collision(ds[j].id, m).node = m
  BY DEF Collision
<1>4. \A j \in DOMAIN ds : ds[j].id = ds[i].id => j = i
  BY DEF Unique
<1>5. \A j \in DOMAIN ds, m \in NodeId : Collision(ds[j].id, m) \in R => j = i /\ m \in todo
  BY <1>2, <1>3, <1>4
<1>6. QED
  BY <1>2, <1>5 DEF Ids, R

ClosedDoc(B, doc) ==
  [doc EXCEPT
    !.state    = "closed",
    !.branch   = [n \in NodeId |-> IF n \in doc.drawable.ids
                    THEN BranchFact(B[doc.obj], doc.drawable, doc.edges, doc.depth, n)
                    ELSE @[n]],
    !.subgraph = [n \in NodeId |-> IF n \in doc.drawable.ids
                    THEN SubgraphFact(B[doc.obj], doc.drawable, doc.sub, n) ELSE @[n]]]

LEMMA ClosedFields ==
  ASSUME NEW B, NEW doc \in DocumentType
  PROVE  /\ ClosedDoc(B, doc) \in DocumentType
         /\ ClosedDoc(B, doc).id = doc.id /\ ClosedDoc(B, doc).obj = doc.obj
         /\ ClosedDoc(B, doc).depth = doc.depth /\ ClosedDoc(B, doc).edges = doc.edges
         /\ ClosedDoc(B, doc).drawable = doc.drawable
         /\ ClosedDoc(B, doc).routers = doc.routers /\ ClosedDoc(B, doc).sub = doc.sub
         /\ ClosedDoc(B, doc).state = "closed"
         /\ \A n \in NodeId : /\ n \in doc.drawable.ids => ClosedDoc(B, doc).branch[n] =
                                   BranchFact(B[doc.obj], doc.drawable, doc.edges, doc.depth, n)
                              /\ n \notin doc.drawable.ids =>
                                   ClosedDoc(B, doc).branch[n] = doc.branch[n]
                              /\ n \in doc.drawable.ids => ClosedDoc(B, doc).subgraph[n] =
                                   SubgraphFact(B[doc.obj], doc.drawable, doc.sub, n)
<1> DEFINE branches == [n \in NodeId |-> IF n \in doc.drawable.ids
                    THEN BranchFact(B[doc.obj], doc.drawable, doc.edges, doc.depth, n)
                    ELSE doc.branch[n]]
           subgraphs == [n \in NodeId |-> IF n \in doc.drawable.ids
                    THEN SubgraphFact(B[doc.obj], doc.drawable, doc.sub, n)
                    ELSE doc.subgraph[n]]
<1>1. branches \in [NodeId -> BranchFacts] /\ subgraphs \in [NodeId -> SubgraphFacts]
  <2>1. doc.branch \in [NodeId -> BranchFacts] /\ doc.subgraph \in [NodeId -> SubgraphFacts]
    BY DEF DocumentType, BranchFacts, SubgraphFacts
  <2>2. \A n \in NodeId : branches[n] \in BranchFacts /\ subgraphs[n] \in SubgraphFacts
    BY <2>1, FactsType
  <2>3. QED
    BY <2>2
<1>2. ClosedDoc(B, doc) = [doc EXCEPT !.state = "closed", !.branch = branches,
                                      !.subgraph = subgraphs]
  BY DEF ClosedDoc
<1>3. /\ \A n \in NodeId : n \in doc.drawable.ids =>
           branches[n] = BranchFact(B[doc.obj], doc.drawable, doc.edges, doc.depth, n)
      /\ \A n \in NodeId : n \notin doc.drawable.ids => branches[n] = doc.branch[n]
      /\ \A n \in NodeId : n \in doc.drawable.ids =>
           subgraphs[n] = SubgraphFact(B[doc.obj], doc.drawable, doc.sub, n)
  OBVIOUS
<1> HIDE DEF branches, subgraphs
<1>4. /\ ClosedDoc(B, doc) \in DocumentType
      /\ ClosedDoc(B, doc).id = doc.id /\ ClosedDoc(B, doc).obj = doc.obj
      /\ ClosedDoc(B, doc).depth = doc.depth /\ ClosedDoc(B, doc).edges = doc.edges
      /\ ClosedDoc(B, doc).drawable = doc.drawable
      /\ ClosedDoc(B, doc).routers = doc.routers /\ ClosedDoc(B, doc).sub = doc.sub
      /\ ClosedDoc(B, doc).state = "closed"
      /\ ClosedDoc(B, doc).branch = branches /\ ClosedDoc(B, doc).subgraph = subgraphs
  <2>1. PICK p \in [NodeId -> BranchFacts] : p = branches
    BY <1>1
  <2>2. PICK q \in [NodeId -> SubgraphFacts] : q = subgraphs
    BY <1>1
  <2>3. PICK x : x = [doc EXCEPT !.state = "closed", !.branch = p, !.subgraph = q]
    OBVIOUS
  <2>4. ClosedDoc(B, doc) = x
    BY <1>2, <2>1, <2>2, <2>3
  <2>5. /\ x \in DocumentType
        /\ x.id = doc.id /\ x.obj = doc.obj
        /\ x.depth = doc.depth /\ x.edges = doc.edges
        /\ x.drawable = doc.drawable
        /\ x.routers = doc.routers /\ x.sub = doc.sub
        /\ x.state = "closed" /\ x.branch = p /\ x.subgraph = q
    BY <2>3 DEF DocumentType, BranchFacts, SubgraphFacts
  <2>6. QED
    BY <2>1, <2>2, <2>4, <2>5
<1>5. QED
  BY <1>3, <1>4

\* Graph i is closed, the others are as they were.
ClosedIn(ds, i, ds2) ==
  /\ ds2 \in Seq(DocumentType) /\ DOMAIN ds2 = DOMAIN ds
  /\ \A j \in DOMAIN ds :
       /\ ds2[j].id = ds[j].id /\ ds2[j].obj = ds[j].obj /\ ds2[j].depth = ds[j].depth
       /\ ds2[j].drawable = ds[j].drawable /\ ds2[j].routers = ds[j].routers
       /\ ds2[j].sub = ds[j].sub
  /\ \A j \in DOMAIN ds : j # i => ds2[j] = ds[j]
  /\ ds2[i].state = "closed"
  /\ \A n \in ds[i].drawable.same :
       ds[i].sub[n] # NoRef <=> ds2[i].subgraph[n] = "materialized-child"

LEMMA CloseEffect ==
  ASSUME NEW B, B \in [Graph -> Builder], NEW ds, ds \in Seq(DocumentType), DocsInv(B, ds),
         NEW i \in DOMAIN ds, NEW ds2, ds2 = [ds EXCEPT ![i] = ClosedDoc(B, ds[i])]
  PROVE  ClosedIn(ds, i, ds2)
<1> DEFINE closed == ClosedDoc(B, ds[i])
<1>1. DOMAIN ds = 1..Len(ds) /\ ds[i] \in DocumentType
  BY LenProperties, ElementOfSeq
<1>2. closed \in DocumentType
  BY <1>1, ClosedFields
<1>3. /\ ds2 \in Seq(DocumentType) /\ DOMAIN ds2 = DOMAIN ds
      /\ \A j \in DOMAIN ds : ds2[j] = IF j = i THEN closed ELSE ds[j]
  <2> HIDE DEF closed
  <2>1. ds2 = [ds EXCEPT ![i] = closed]
    BY DEF closed
  <2>2. QED
    BY <2>1, <1>2, ReplaceElements
<1>4. ASSUME NEW n \in ds[i].drawable.same
      PROVE  ds[i].sub[n] # NoRef <=> closed.subgraph[n] = "materialized-child"
  <2>1. n \in B[ds[i].obj].nodes /\ n \in ds[i].drawable.ids
    BY <1>4 DEF DocsInv, DocInv
  <2>2. n \in NodeId /\ ~Sentinel(n)
    BY <1>1, <2>1 DEF DocumentType, Builder, Sentinel
  <2>3. closed.subgraph[n] = SubgraphFact(B[ds[i].obj], ds[i].drawable, ds[i].sub, n)
    BY <1>1, <2>1, <2>2, ClosedFields
  <2>4. QED
    BY <2>2, <2>3 DEF SubgraphFact, NoRef
<1>5. /\ closed.id = ds[i].id /\ closed.obj = ds[i].obj /\ closed.depth = ds[i].depth
      /\ closed.drawable = ds[i].drawable /\ closed.routers = ds[i].routers
      /\ closed.sub = ds[i].sub /\ closed.state = "closed"
  BY <1>1, ClosedFields
<1> HIDE DEF closed
<1>6. \A j \in DOMAIN ds :
       /\ ds2[j].id = ds[j].id /\ ds2[j].obj = ds[j].obj /\ ds2[j].depth = ds[j].depth
       /\ ds2[j].drawable = ds[j].drawable /\ ds2[j].routers = ds[j].routers
       /\ ds2[j].sub = ds[j].sub
  BY <1>3, <1>5
<1>7. QED
  BY <1>3, <1>4, <1>5, <1>6 DEF ClosedIn

\* The gaps of graph i are in, and no node of it is ahead any more.
Settled(B, ds, st, out, i, st2, out2) ==
  /\ Found(st2, out2) = Found(st, out) \cup RefusedIn(B, ds, ds[i], st[Len(st)].todo)
  /\ \A j \in DOMAIN ds, m \in NodeId : Ahead(st2, j, m) => j # i
  /\ \A j \in DOMAIN ds, m \in NodeId : j # i => (Ahead(st2, j, m) <=> Ahead(st, j, m))

LEMMA CloseDocs ==
  ASSUME NEW B, B \in [Graph -> Builder], NEW ds, NEW st, NEW out,
         LoopInv(B, ds, st, out, {"looping"}), st # << >>,
         NEW i, i = st[Len(st)].doc, OpenIn(B, ds, ds[i], st[Len(st)].todo) = {},
         NEW ds2, ClosedIn(ds, i, ds2), NEW st2, NEW out2,
         Settled(B, ds, st, out, i, st2, out2)
  PROVE  /\ DocsInv(B, ds2) /\ FoundInv(ds2, st2, out2) /\ Accounted(B, ds2, st2, out2)
<1>1. Shapes(ds, st, out) /\ DocsInv(B, ds) /\ Unique(ds) /\ OneEach(st) /\ FoundInv(ds, st, out)
  BY DEF LoopInv, DocsInv
<1>2. PICK L : L = Len(st)
  OBVIOUS
<1>3. PICK todo : todo = st[L].todo
  OBVIOUS
<1>4. PICK R : R = RefusedIn(B, ds, ds[i], todo)
  OBVIOUS
<1>5. /\ L \in DOMAIN st /\ i \in DOMAIN ds /\ st[L].doc = i /\ st[L] \in LoopFrame(DOMAIN ds)
      /\ \A j \in DOMAIN ds : ds[j] \in DocumentType
  BY <1>1, <1>2, Elements
<1>6. todo \subseteq NodeId /\ \A j \in DOMAIN ds : ds[j].drawable.same \subseteq NodeId
  BY <1>3, <1>5 DEF LoopFrame, DocumentType
<1>7. OpenIn(B, ds, ds[i], todo) = {}
  BY <1>2, <1>3
<1>8. ds[i].state = "built"
  <2>1. st[L].pc = "looping" /\ FrameInv(ds, st[L])
    BY <1>2, <1>5 DEF LoopInv, Suspended
  <2>2. QED
    BY <2>1, <1>5 DEF FrameInv
<1>9. \A m : Ahead(st, i, m) <=> m \in todo
  BY <1>1, <1>3, <1>5 DEF Ahead, OneEach
<1>10. /\ DOMAIN ds2 = DOMAIN ds /\ ds2[i].state = "closed"
       /\ \A j \in DOMAIN ds :
            /\ ds2[j].id = ds[j].id /\ ds2[j].obj = ds[j].obj /\ ds2[j].depth = ds[j].depth
            /\ ds2[j].drawable = ds[j].drawable /\ ds2[j].routers = ds[j].routers
            /\ ds2[j].sub = ds[j].sub
       /\ \A j \in DOMAIN ds : j # i => ds2[j] = ds[j]
       /\ \A n \in ds[i].drawable.same :
            ds[i].sub[n] # NoRef <=> ds2[i].subgraph[n] = "materialized-child"
  BY DEF ClosedIn
<1>11. /\ Found(st2, out2) = Found(st, out) \cup R
       /\ \A j \in DOMAIN ds, m \in NodeId : Ahead(st2, j, m) => j # i
       /\ \A j \in DOMAIN ds, m \in NodeId : j # i => (Ahead(st2, j, m) <=> Ahead(st, j, m))
  BY <1>2, <1>3, <1>4 DEF Settled
<1>12. /\ \A j \in DOMAIN ds, m \in NodeId : Collision(ds[j].id, m) \in R => j = i /\ m \in todo
       /\ \A g \in R :
            g.graph = ds[i].id /\ \E h \in DOMAIN ds : ds[h].id = DerivedId(g.graph, g.node)
  BY <1>1, <1>4, <1>5, RefusedFacts
<1>13. \A j \in DOMAIN ds : ds2[j].state # "drawing" <=> ds[j].state # "drawing"
  BY <1>8, <1>10
<1>14. DocsInv(B, ds2)
  <2>1. Unique(ds2)
    BY <1>1, <1>10 DEF Unique
  <2>2. ASSUME NEW j \in DOMAIN ds2 PROVE DocInv(B, ds2, ds2[j])
    <3>1. DocInv(B, ds, ds[j])
      BY <1>1, <1>10 DEF DocsInv
    <3>2. ASSUME NEW m \in NodeId, ds2[j].sub[m] # NoRef
          PROVE  /\ m \in ds2[j].drawable.same
                 /\ \E h \in DOMAIN ds2 : /\ ds2[h].id = ds2[j].sub[m]
                                          /\ ds2[h].obj = B[ds2[j].obj].runnable[m]
                                          /\ ds2[h].depth = ds2[j].depth - 1
      <4>1. /\ ds2[j].sub = ds[j].sub /\ ds2[j].obj = ds[j].obj /\ ds2[j].depth = ds[j].depth
            /\ ds2[j].drawable = ds[j].drawable
        BY <1>10
      <4>2. /\ m \in ds[j].drawable.same
            /\ \E h \in DOMAIN ds : /\ ds[h].id = ds[j].sub[m]
                                    /\ ds[h].obj = B[ds[j].obj].runnable[m]
                                    /\ ds[h].depth = ds[j].depth - 1
        BY <3>1, <3>2, <4>1, SMTT(60) DEF DocInv
      <4>3. QED
        BY <4>1, <4>2, <1>10
    <3>3. CASE j = i
      <4>1. ds2[j].drawable.same \subseteq B[ds2[j].obj].nodes \cap ds2[j].drawable.ids
        BY <3>1, <1>10 DEF DocInv
      <4>2. QED
        BY <3>2, <3>3, <4>1, <1>5, <1>10 DEF DocInv
    <3>4. CASE j # i
      <4>1. ds2[j] = ds[j]
        BY <3>4, <1>10
      <4>2. QED
        BY <3>1, <3>2, <4>1 DEF DocInv
    <3>5. QED
      BY <3>3, <3>4
  <2>3. QED
    BY <2>1, <2>2 DEF DocsInv
<1>15. FoundInv(ds2, st2, out2)
  <2>1. \A j \in DOMAIN ds2 : \A s \in ds2[j].routers : RouterGap(ds2[j].id, s) \in Found(st2, out2)
    BY <1>1, <1>10, <1>11 DEF FoundInv
  <2>2. ASSUME NEW g \in Found(st2, out2)
        PROVE  \E j \in DOMAIN ds2 : ds2[j].id = g.graph /\ ds2[j].state # "drawing"
    <3>1. CASE g \in R
      BY <3>1, <1>5, <1>10, <1>12
    <3>2. CASE g \in Found(st, out)
      <4>1. PICK j \in DOMAIN ds : ds[j].id = g.graph /\ ds[j].state # "drawing"
        BY <3>2, <1>1 DEF FoundInv
      <4>2. QED
        BY <4>1, <1>10, <1>13
    <3>3. QED
      BY <2>2, <3>1, <3>2, <1>11
  <2>3. ASSUME NEW g \in Found(st2, out2), g.code = "child-graph-id-collision"
        PROVE  \E j \in DOMAIN ds2 : ds2[j].id = DerivedId(g.graph, g.node)
    <3>1. PICK j \in DOMAIN ds : ds[j].id = DerivedId(g.graph, g.node)
      BY <2>3, <1>1, <1>11, <1>12 DEF FoundInv
    <3>2. QED
      BY <3>1, <1>10
  <2>4. ASSUME NEW j \in DOMAIN ds2, NEW m \in NodeId, Collision(ds2[j].id, m) \in Found(st2, out2)
        PROVE  ~Ahead(st2, j, m)
    <3>1. j \in DOMAIN ds /\ ds2[j].id = ds[j].id
      BY <1>10
    <3>2. CASE j = i
      BY <3>1, <3>2, <1>11
    <3>3. CASE j # i
      <4>1. Collision(ds[j].id, m) \in Found(st, out)
        BY <2>4, <3>1, <3>3, <1>11, <1>12
      <4>2. ~Ahead(st, j, m)
        BY <3>1, <4>1, <1>1 DEF FoundInv
      <4>3. QED
        BY <3>1, <3>3, <4>2, <1>11
    <3>4. QED
      BY <3>2, <3>3
  <2>5. QED
    BY <2>1, <2>2, <2>3, <2>4 DEF FoundInv
<1>16. Accounted(B, ds2, st2, out2)
  <2> SUFFICES ASSUME NEW j \in DOMAIN ds2, ds2[j].state # "drawing",
                      NEW m \in ds2[j].drawable.same, B[ds2[j].obj].runnable[m] # NoChild
               PROVE  ds2[j].sub[m] = NoRef <=> Opaque(ds2, st2, out2, j, m)
    BY DEF Accounted
  <2>1. /\ j \in DOMAIN ds /\ ds2[j].id = ds[j].id /\ ds2[j].depth = ds[j].depth
        /\ ds[j].state # "drawing" /\ m \in ds[j].drawable.same
        /\ B[ds[j].obj].runnable[m] # NoChild /\ ds2[j].sub[m] = ds[j].sub[m]
    BY <1>10, <1>13
  <2>2. m \in NodeId
    BY <2>1, <1>6
  <2>3. ds[j].sub[m] = NoRef <=> Opaque(ds, st, out, j, m)
    BY <2>1 DEF LoopInv, Accounted
  <2>4. CASE j = i
    <3>1. Collision(ds[j].id, m) \in R <=> Ahead(st, j, m)
      <4>1. DocInv(B, ds, ds[i])
        BY <1>1, <1>5 DEF DocsInv
      <4>2. Holds(B, ds[i], m) # NoChild
        BY <2>1, <2>4, <4>1, HoldsRunnable
      <4>3. ASSUME m \in todo PROVE Collision(ds[i].id, m) \in R
        <5>1. DerivedId(ds[i].id, m) \in Ids(ds)
          BY <4>2, <4>3, <1>7 DEF OpenIn
        <5>2. QED
          BY <4>2, <4>3, <5>1, <1>4 DEF RefusedIn
      <4>4. QED
        BY <2>1, <2>2, <2>4, <4>3, <1>9, <1>12
    <3>2. ~Ahead(st2, j, m)
      BY <2>1, <2>2, <2>4, <1>11
    <3>3. Collision(ds[j].id, m) \in Found(st2, out2) <=>
            Collision(ds[j].id, m) \in Found(st, out) \/ Ahead(st, j, m)
      BY <3>1, <1>11
    <3>4. QED
      BY <3>2, <3>3, <2>1, <2>3 DEF Opaque
  <2>5. CASE j # i
    <3>1. Collision(ds[j].id, m) \notin R
      BY <2>1, <2>2, <2>5, <1>12
    <3>2. Ahead(st2, j, m) <=> Ahead(st, j, m)
      BY <2>1, <2>2, <2>5, <1>11
    <3>3. Collision(ds[j].id, m) \in Found(st2, out2) <=> Collision(ds[j].id, m) \in Found(st, out)
      BY <3>1, <1>11
    <3>4. QED
      BY <3>2, <3>3, <2>1, <2>3 DEF Opaque
  <2>6. QED
    BY <2>4, <2>5
<1>17. QED
  BY <1>14, <1>15, <1>16

\* What the innermost call resolves to.
Closing(B, ds, st, out, i, L, ds2, res) ==
  /\ LoopInv(B, ds, st, out, {"looping"}) /\ out = NoResult
  /\ L = Len(st) /\ L > 0 /\ i = st[L].doc
  /\ OpenIn(B, ds, ds[i], st[L].todo) = {}
  /\ ds2 = [ds EXCEPT ![i] = ClosedDoc(B, ds[i])]
  /\ res = [graphs |-> {i} \cup st[L].descendants,
            gaps   |-> st[L].gaps \cup RefusedIn(B, ds, ds[i], st[L].todo)]

Closed(B, ds, st, out, i, L, ds2, res) ==
  /\ Shapes(ds, st, out) /\ L \in DOMAIN st /\ i \in DOMAIN ds
  /\ L \in Nat /\ DOMAIN st = 1..L /\ Len(st) = L /\ st[L].doc = i /\ st # << >>
  /\ out = NoResult /\ OpenIn(B, ds, ds[i], st[L].todo) = {}
  /\ ClosedIn(ds, i, ds2) /\ DOMAIN ds2 = DOMAIN ds
  /\ ds[i].depth \in Nat /\ (st[L].todo # {} => ds[i].depth > 0)
  /\ res \in ResultType(DOMAIN ds) /\ res.graphs = {i} \cup st[L].descendants
  /\ res.gaps = st[L].gaps \cup RefusedIn(B, ds, ds[i], st[L].todo)
  /\ st[L].result = NoResult
  /\ \A k \in DOMAIN st : k # L => st[k].pc = "awaiting" /\ st[k].result = NoResult

LEMMA ClosingFacts ==
  ASSUME NEW B, B \in [Graph -> Builder], NEW ds, NEW st, NEW out, NEW i, NEW L,
         NEW ds2, NEW res, Closing(B, ds, st, out, i, L, ds2, res)
  PROVE  Closed(B, ds, st, out, i, L, ds2, res)
<1>1. /\ LoopInv(B, ds, st, out, {"looping"}) /\ out = NoResult
      /\ L = Len(st) /\ L > 0 /\ i = st[L].doc /\ OpenIn(B, ds, ds[i], st[L].todo) = {}
  BY DEF Closing
<1>2. Shapes(ds, st, out) /\ DocsInv(B, ds) /\ Suspended(st, {"looping"})
  BY <1>1 DEF LoopInv
<1>3. /\ L \in Nat /\ DOMAIN st = 1..L /\ L \in DOMAIN st /\ i \in DOMAIN ds /\ st # << >>
      /\ st[L] \in LoopFrame(DOMAIN ds) /\ ds[i] \in DocumentType
  <2>1. L \in Nat /\ DOMAIN st = 1..L
    BY <1>1, <1>2, Elements
  <2>2. L \in DOMAIN st /\ st # << >>
    BY <1>1, <2>1
  <2>3. QED
    BY <1>1, <1>2, <2>1, <2>2, Elements
<1>4. ClosedIn(ds, i, ds2) /\ DOMAIN ds2 = DOMAIN ds
  <2>1. ds \in Seq(DocumentType) /\ ds2 = [ds EXCEPT ![i] = ClosedDoc(B, ds[i])]
    BY <1>2 DEF Closing, Shapes
  <2>2. ClosedIn(ds, i, ds2)
    BY <2>1, <1>2, <1>3, CloseEffect
  <2>3. QED
    BY <2>2 DEF ClosedIn
<1>5. \A k \in DOMAIN st : FrameInv(ds, st[k])
  BY <1>1 DEF LoopInv
<1>6. st[L].pc = "looping" /\ \A k \in DOMAIN st : k # L => st[k].pc = "awaiting"
  BY <1>1, <1>2, <1>3 DEF Suspended
<1>7. \A k \in DOMAIN st : st[k].result = NoResult
  <2>1. \A k \in DOMAIN st : st[k].pc # "resuming"
    BY <1>6
  <2>2. QED
    BY <2>1, <1>5 DEF FrameInv
<1>8. ds[i].depth \in Nat /\ (st[L].todo # {} => ds[i].depth > 0)
  <2>1. FrameInv(ds, st[L])
    BY <1>3, <1>5
  <2>2. QED
    BY <2>1, <1>1, <1>3 DEF FrameInv, DocumentType
<1>9. /\ res.graphs = {i} \cup st[L].descendants
      /\ res.gaps = st[L].gaps \cup RefusedIn(B, ds, ds[i], st[L].todo)
      /\ res = [graphs |-> res.graphs, gaps |-> res.gaps]
  BY DEF Closing
<1>10. res \in ResultType(DOMAIN ds)
  <2>1. /\ st[L].todo \subseteq NodeId /\ st[L].gaps \subseteq GapType
        /\ st[L].descendants \subseteq DOMAIN ds /\ ds[i].id \in Seq(Token)
    BY <1>3 DEF LoopFrame, DocumentType
  <2>2. \A m \in NodeId : Collision(ds[i].id, m) \in GapType
    BY <2>1 DEF Collision, GapType
  <2>3. RefusedIn(B, ds, ds[i], st[L].todo) \subseteq GapType
    BY <2>1, <2>2 DEF RefusedIn
  <2>4. res.graphs \subseteq DOMAIN ds /\ res.gaps \subseteq GapType
    BY <1>3, <1>9, <2>1, <2>3
  <2>5. QED
    BY <1>9, <2>4 DEF ResultType
<1>11. QED
  BY <1>1, <1>2, <1>3, <1>4, <1>6, <1>7, <1>8, <1>9, <1>10 DEF Closed

\* The outermost call resolves.
LEMMA CloseOuter ==
  ASSUME NEW B, B \in [Graph -> Builder], NEW ds, NEW st, NEW out, NEW i, NEW L,
         NEW ds2, NEW res, Closing(B, ds, st, out, i, L, ds2, res), L = 1
  PROVE  /\ LoopInv(B, ds2, << >>, res, AwaitPoint)
         /\ Found(<< >>, res) = Found(st, out) \cup RefusedIn(B, ds, ds[i], st[L].todo)
<1>1. /\ Shapes(ds, st, out) /\ i \in DOMAIN ds /\ DOMAIN st = 1..L /\ Len(st) = L
      /\ st[L].doc = i /\ st # << >> /\ out = NoResult
      /\ OpenIn(B, ds, ds[i], st[L].todo) = {}
      /\ ClosedIn(ds, i, ds2) /\ DOMAIN ds2 = DOMAIN ds
      /\ res \in ResultType(DOMAIN ds) /\ res.graphs = {i} \cup st[L].descendants
      /\ res.gaps = st[L].gaps \cup RefusedIn(B, ds, ds[i], st[L].todo)
      /\ st[L].result = NoResult
  <2>1. Closed(B, ds, st, out, i, L, ds2, res)
    BY ClosingFacts
  <2>2. QED
    BY <2>1 DEF Closed
<1>2. \A k : k \in DOMAIN st <=> k = L
  BY <1>1
<1>3. DOMAIN << >> = {} /\ Len(<< >>) = 0 /\ << >> \in Seq(LoopFrame(DOMAIN ds2))
  BY EmptySeq
<1>4. LoopInv(B, ds, st, out, {"looping"})
  BY DEF Closing
<1>5. Settled(B, ds, st, out, i, << >>, res)
  <2>1. Found(<< >>, res) = res.gaps
    BY <1>3 DEF Found
  <2>2. Found(st, out) = st[L].gaps
    BY <1>1, <1>2 DEF Found, NoResult
  <2>3. \A j, m : ~Ahead(<< >>, j, m)
    BY <1>3 DEF Ahead
  <2>4. \A j, m : Ahead(st, j, m) => j = i
    BY <1>1, <1>2 DEF Ahead
  <2>5. QED
    BY <1>1, <2>1, <2>2, <2>3, <2>4 DEF Settled
<1>6. DocsInv(B, ds2) /\ FoundInv(ds2, << >>, res) /\ Accounted(B, ds2, << >>, res)
  <2>1. i = st[Len(st)].doc /\ OpenIn(B, ds, ds[i], st[Len(st)].todo) = {}
    BY <1>1
  <2>2. QED
    BY <2>1, <1>1, <1>4, <1>5, CloseDocs
<1>7. Shapes(ds2, << >>, res)
  BY <1>1, <1>3 DEF Shapes, ClosedIn
<1>8. Suspended(<< >>, AwaitPoint) /\ OneEach(<< >>)
  BY <1>3 DEF Suspended, OneEach
<1>9. Kept(ds2, << >>, res)
  <2>1. \A j \in DOMAIN ds : j = i \/ j \in st[L].descendants
    BY <1>1, <1>2, <1>4 DEF LoopInv, Kept, NoResult
  <2>2. QED
    BY <2>1, <1>1 DEF Kept
<1>10. Active(ds2, << >>)
  <2>1. \A j \in DOMAIN ds : j # i => ds[j].state = "closed"
    BY <1>1, <1>2, <1>4 DEF LoopInv, Active
  <2>2. QED
    BY <2>1, <1>1 DEF Active, ClosedIn
<1>11. LoopInv(B, ds2, << >>, res, AwaitPoint)
  BY <1>3, <1>6, <1>7, <1>8, <1>9, <1>10 DEF LoopInv
<1>12. QED
  BY <1>1, <1>5, <1>11 DEF Settled

\* The call below the innermost one has its result.
Resolve(f, res) == [f EXCEPT !.pc = "resuming", !.result = res]

LEMMA ResolveFields ==
  ASSUME NEW I, NEW f \in LoopFrame(I), NEW res \in ResultType(I)
  PROVE  /\ Resolve(f, res) \in LoopFrame(I)
         /\ Resolve(f, res).doc = f.doc /\ Resolve(f, res).pc = "resuming"
         /\ Resolve(f, res).todo = f.todo /\ Resolve(f, res).result = res
         /\ Resolve(f, res).descendants = f.descendants /\ Resolve(f, res).gaps = f.gaps
BY DEF Resolve, LoopFrame

Popped(st, L, res, st2) ==
  /\ DOMAIN st2 = 1..(L - 1) /\ Len(st2) = L - 1
  /\ \A k \in 1..(L - 1) : k # L - 1 => st2[k] = st[k]
  /\ st2[L - 1].doc = st[L - 1].doc /\ st2[L - 1].pc = "resuming"
  /\ st2[L - 1].todo = st[L - 1].todo /\ st2[L - 1].result = res
  /\ st2[L - 1].descendants = st[L - 1].descendants /\ st2[L - 1].gaps = st[L - 1].gaps

LEMMA PopEffect ==
  ASSUME NEW I, NEW st \in Seq(LoopFrame(I)), NEW L, L = Len(st), L > 1,
         NEW res \in ResultType(I),
         NEW st2, st2 = [SubSeq(st, 1, L - 1) EXCEPT ![L - 1] = Resolve(st[L - 1], res)]
  PROVE  st2 \in Seq(LoopFrame(I)) /\ Popped(st, L, res, st2)
<1>1. L \in Nat /\ L - 1 \in 1..L /\ DOMAIN st = 1..L /\ L - 1 \in 1..(L - 1) /\ L - 1 \in Nat
  BY LenProperties
<1>2. PICK s : s = SubSeq(st, 1, L - 1)
  OBVIOUS
<1>3. /\ s \in Seq(LoopFrame(I)) /\ Len(s) = L - 1
      /\ \A k \in 1..(L - 1) : s[k] = st[k]
  <2>1. 1 \in 1..Len(st) + 1 /\ L - 1 \in 0..Len(st) /\ 1 <= L - 1 + 1
    BY <1>1
  <2>2. /\ SubSeq(st, 1, L - 1) \in Seq(LoopFrame(I))
        /\ Len(SubSeq(st, 1, L - 1)) = IF 1 <= L - 1 THEN (L - 1) - 1 + 1 ELSE 0
        /\ \A k \in 1..((L - 1) - 1 + 1) : SubSeq(st, 1, L - 1)[k] = st[1 + k - 1]
    BY <2>1, SubSeqProperties
  <2>3. 1 <= L - 1 /\ (L - 1) - 1 + 1 = L - 1 /\ \A k \in 1..(L - 1) : 1 + k - 1 = k
    BY <1>1
  <2>4. QED
    BY <2>2, <2>3, <1>2
<1>4. DOMAIN s = 1..(L - 1) /\ L - 1 \in DOMAIN s
  BY <1>1, <1>3, LenProperties
<1>5. PICK e : e = Resolve(st[L - 1], res)
  OBVIOUS
<1>6. /\ e \in LoopFrame(I)
      /\ e.doc = st[L - 1].doc /\ e.pc = "resuming" /\ e.todo = st[L - 1].todo
      /\ e.result = res /\ e.descendants = st[L - 1].descendants /\ e.gaps = st[L - 1].gaps
  <2>1. st[L - 1] \in LoopFrame(I)
    BY <1>1, ElementOfSeq
  <2>2. QED
    BY <2>1, <1>5, ResolveFields
<1>7. st2 = [s EXCEPT ![L - 1] = e]
  BY <1>2, <1>5
<1>8. /\ st2 \in Seq(LoopFrame(I)) /\ Len(st2) = Len(s) /\ DOMAIN st2 = DOMAIN s
      /\ \A k \in DOMAIN s : st2[k] = IF k = L - 1 THEN e ELSE s[k]
  BY <1>3, <1>4, <1>6, <1>7, ReplaceElements
<1>9. \A k \in 1..(L - 1) : st2[k] = IF k = L - 1 THEN e ELSE st[k]
  BY <1>3, <1>4, <1>8
<1>10. st2[L - 1] = e /\ \A k \in 1..(L - 1) : k # L - 1 => st2[k] = st[k]
  BY <1>1, <1>9
<1>11. QED
  BY <1>3, <1>4, <1>6, <1>8, <1>10 DEF Popped

Pops(st, L, res, st2) ==
  st2 = [SubSeq(st, 1, L - 1) EXCEPT ![L - 1] = Resolve(st[L - 1], res)]

\* An inner call resolves, and the one that awaits it may go on.
LEMMA CloseInner ==
  ASSUME NEW B, B \in [Graph -> Builder], NEW ds, NEW st, NEW out, NEW i, NEW L,
         NEW ds2, NEW res, Closing(B, ds, st, out, i, L, ds2, res), L > 1,
         NEW st2, Pops(st, L, res, st2)
  PROVE  /\ LoopInv(B, ds2, st2, out, AwaitPoint) /\ st2 # << >>
         /\ Found(st2, out) = Found(st, out) \cup RefusedIn(B, ds, ds[i], st[L].todo)
         /\ \A k \in DOMAIN st2 : st2[k].pc # "drawing"
<1>0. Closed(B, ds, st, out, i, L, ds2, res)
  BY ClosingFacts
<1>1. /\ Shapes(ds, st, out) /\ L \in DOMAIN st /\ i \in DOMAIN ds
      /\ L \in Nat /\ DOMAIN st = 1..L /\ Len(st) = L /\ st[L].doc = i /\ st # << >>
      /\ out = NoResult /\ OpenIn(B, ds, ds[i], st[L].todo) = {}
      /\ ClosedIn(ds, i, ds2) /\ DOMAIN ds2 = DOMAIN ds
      /\ res \in ResultType(DOMAIN ds) /\ res.graphs = {i} \cup st[L].descendants
      /\ res.gaps = st[L].gaps \cup RefusedIn(B, ds, ds[i], st[L].todo)
      /\ st[L].result = NoResult
      /\ \A k \in DOMAIN st : k # L => st[k].pc = "awaiting" /\ st[k].result = NoResult
  BY <1>0 DEF Closed
<1>2. LoopInv(B, ds, st, out, {"looping"}) /\ OneEach(st)
  BY DEF Closing, LoopInv
<1>3. st2 \in Seq(LoopFrame(DOMAIN ds)) /\ Popped(st, L, res, st2)
  BY <1>1, PopEffect DEF Shapes, Pops
<1>4. PICK M : M = L - 1
  OBVIOUS
<1>5. /\ DOMAIN st2 = 1..M /\ Len(st2) = M
      /\ \A k \in 1..M : k # M => st2[k] = st[k]
      /\ st2[M].doc = st[M].doc /\ st2[M].pc = "resuming"
      /\ st2[M].todo = st[M].todo /\ st2[M].result = res
      /\ st2[M].descendants = st[M].descendants /\ st2[M].gaps = st[M].gaps
  BY <1>3, <1>4 DEF Popped
<1>6. /\ M \in DOMAIN st2 /\ M # L
      /\ \A k \in DOMAIN st2 : k \in DOMAIN st /\ k # L
      /\ \A k \in DOMAIN st : k \in DOMAIN st2 \/ k = L
  BY <1>1, <1>4, <1>5
<1>7. \A k \in DOMAIN st2 : /\ st2[k].doc = st[k].doc /\ st2[k].todo = st[k].todo
                            /\ st2[k].descendants = st[k].descendants
                            /\ st2[k].gaps = st[k].gaps
                            /\ k # M => st2[k] = st[k]
  BY <1>5
<1>8. \A k \in DOMAIN st : k # L => st[k].doc # i
  BY <1>1, <1>2 DEF OneEach
<1> HIDE <1>4
<1>9. Settled(B, ds, st, out, i, st2, out)
  <2>1. Found(st2, out) = Found(st, out) \cup RefusedIn(B, ds, ds[i], st[L].todo)
    <3>1. Found(st2, out) \subseteq Found(st, out) \cup RefusedIn(B, ds, ds[i], st[L].todo)
      <4>1. ASSUME NEW g, NEW k \in DOMAIN st2, g \in st2[k].gaps \cup st2[k].result.gaps
            PROVE  g \in Found(st, out) \cup RefusedIn(B, ds, ds[i], st[L].todo)
        <5>1. CASE g \in st2[k].gaps
          BY <5>1, <1>6, <1>7 DEF Found
        <5>2. CASE g \in st2[k].result.gaps /\ k # M
          BY <5>2, <1>6, <1>7 DEF Found
        <5>3. CASE g \in st2[k].result.gaps /\ k = M
          <6>1. g \in st[L].gaps \cup RefusedIn(B, ds, ds[i], st[L].todo)
            BY <5>3, <1>1, <1>5
          <6>2. QED
            BY <6>1, <1>1 DEF Found
        <5>4. QED
          BY <4>1, <5>1, <5>2, <5>3
      <4>2. \A g \in Found(st2, out) :
              g \in out.gaps \/ \E k \in DOMAIN st2 : g \in st2[k].gaps \cup st2[k].result.gaps
        BY DEF Found
      <4>3. out.gaps \subseteq Found(st, out)
        BY DEF Found
      <4>4. QED
        BY <4>1, <4>2, <4>3
    <3>2. RefusedIn(B, ds, ds[i], st[L].todo) \subseteq Found(st2, out)
      BY <1>1, <1>5, <1>6 DEF Found
    <3>3. Found(st, out) \subseteq Found(st2, out)
      <4>1. ASSUME NEW g, NEW k \in DOMAIN st, g \in st[k].gaps \cup st[k].result.gaps
            PROVE  g \in Found(st2, out)
        <5>1. g \in st[k].gaps
          BY <4>1, <1>1 DEF NoResult
        <5>2. CASE k = L
          <6>1. g \in st2[M].result.gaps
            BY <5>1, <5>2, <1>1, <1>5
          <6>2. QED
            BY <6>1, <1>6 DEF Found
        <5>3. CASE k # L
          BY <5>1, <5>3, <1>6, <1>7 DEF Found
        <5>4. QED
          BY <5>2, <5>3
      <4>2. QED
        BY <4>1 DEF Found
    <3>4. QED
      BY <3>1, <3>2, <3>3
  <2>2. \A j \in DOMAIN ds, m \in NodeId : Ahead(st2, j, m) => j # i
    BY <1>6, <1>7, <1>8 DEF Ahead
  <2>3. \A j \in DOMAIN ds, m \in NodeId : j # i => (Ahead(st2, j, m) <=> Ahead(st, j, m))
    BY <1>1, <1>6, <1>7 DEF Ahead
  <2>4. QED
    BY <1>1, <2>1, <2>2, <2>3 DEF Settled
<1>10. DocsInv(B, ds2) /\ FoundInv(ds2, st2, out) /\ Accounted(B, ds2, st2, out)
  <2>1. i = st[Len(st)].doc /\ OpenIn(B, ds, ds[i], st[Len(st)].todo) = {}
    BY <1>1
  <2>2. QED
    BY <2>1, <1>1, <1>2, <1>9, CloseDocs
<1>11. Shapes(ds2, st2, out)
  BY <1>1, <1>3 DEF Shapes, ClosedIn
<1>12. Suspended(st2, AwaitPoint) /\ OneEach(st2)
  <2>1. OneEach(st2)
    BY <1>2, <1>6, <1>7 DEF OneEach
  <2>2. Suspended(st2, AwaitPoint)
    BY <1>1, <1>5, <1>6, <1>7 DEF Suspended, AwaitPoint
  <2>3. QED
    BY <2>1, <2>2
<1>13. ASSUME NEW k \in DOMAIN st2 PROVE FrameInv(ds2, st2[k])
  <2>1. k \in DOMAIN st /\ k # L /\ st[k].doc \in DOMAIN ds /\ st[k].doc # i
    BY <1>1, <1>6, <1>8, Elements
  <2>2. ds2[st[k].doc] = ds[st[k].doc]
    BY <2>1, <1>1 DEF ClosedIn
  <2>3. FrameInv(ds, st[k]) /\ st[k].pc = "awaiting"
    BY <2>1, <1>1, <1>2 DEF LoopInv
  <2>4. CASE k # M
    <3>1. st2[k] = st[k]
      BY <2>4, <1>7
    <3>2. QED
      BY <3>1, <2>2, <2>3 DEF FrameInv
  <2>5. CASE k = M
    <3>1. st2[k].pc = "resuming" /\ st2[k].doc = st[k].doc /\ st2[k].todo = st[k].todo
      BY <2>5, <1>5
    <3>2. QED
      BY <3>1, <2>2, <2>3 DEF FrameInv
  <2>6. QED
    BY <2>4, <2>5
<1>14. Kept(ds2, st2, out)
  <2>1. ASSUME NEW j \in DOMAIN ds
        PROVE  \E k \in DOMAIN st2 :
                 j = st2[k].doc \/ j \in st2[k].descendants \/ j \in st2[k].result.graphs
    <3>1. PICK k \in DOMAIN st : j = st[k].doc \/ j \in st[k].descendants
      BY <1>1, <1>2 DEF LoopInv, Kept, NoResult
    <3>2. CASE k = L
      <4>1. j \in st2[M].result.graphs
        BY <3>1, <3>2, <1>1, <1>5
      <4>2. QED
        BY <4>1, <1>6
    <3>3. CASE k # L
      BY <3>1, <3>3, <1>6, <1>7
    <3>4. QED
      BY <3>2, <3>3
  <2>2. QED
    BY <2>1, <1>1 DEF Kept
<1>15. Active(ds2, st2)
  <2>1. ASSUME NEW j \in DOMAIN ds, \A k \in DOMAIN st2 : st2[k].doc # j
        PROVE  ds2[j].state = "closed"
    <3>1. CASE j = i
      BY <3>1, <1>1 DEF ClosedIn
    <3>2. CASE j # i
      <4>1. \A k \in DOMAIN st : st[k].doc # j
        BY <2>1, <3>2, <1>1, <1>6, <1>7
      <4>2. ds[j].state = "closed"
        BY <4>1, <1>2 DEF LoopInv, Active
      <4>3. QED
        BY <4>2, <3>2, <1>1 DEF ClosedIn
    <3>3. QED
      BY <3>1, <3>2
  <2>2. QED
    BY <2>1, <1>1 DEF Active
<1>16. st2 # << >>
  BY <1>6
<1>17. LoopInv(B, ds2, st2, out, AwaitPoint)
  BY <1>10, <1>11, <1>12, <1>13, <1>14, <1>15 DEF LoopInv
<1>18. Found(st2, out) = Found(st, out) \cup RefusedIn(B, ds, ds[i], st[L].todo)
  BY <1>1, <1>9 DEF Settled
<1>19. \A k \in DOMAIN st2 : st2[k].pc # "drawing"
  BY <1>1, <1>5, <1>6, <1>7
<1>20. QED
  BY <1>16, <1>17, <1>18, <1>19

-------------------------------------------------------------------------------
(* A call goes on: its graph becomes x and its frame f.                     *)

LEMMA DocInvMoves ==
  ASSUME NEW B, NEW ds, NEW ds1, NEW doc, DocInv(B, ds, doc),
         \A j \in DOMAIN ds : /\ j \in DOMAIN ds1 /\ ds1[j].id = ds[j].id
                              /\ ds1[j].obj = ds[j].obj /\ ds1[j].depth = ds[j].depth
  PROVE  DocInv(B, ds1, doc)
<1>1. ASSUME NEW n \in NodeId, doc.sub[n] # NoRef
      PROVE  \E j \in DOMAIN ds1 : /\ ds1[j].id = doc.sub[n]
                                   /\ ds1[j].obj = B[doc.obj].runnable[n]
                                   /\ ds1[j].depth = doc.depth - 1
  <2>1. PICK j \in DOMAIN ds : /\ ds[j].id = doc.sub[n]
                               /\ ds[j].obj = B[doc.obj].runnable[n]
                               /\ ds[j].depth = doc.depth - 1
    BY <1>1 DEF DocInv
  <2>2. QED
    BY <2>1
<1>2. QED
  BY <1>1 DEF DocInv

Moving(B, ds, st, out, L, i, x, f, ds1, st1) ==
  /\ LoopInv(B, ds, st, out, AwaitPoint)
  /\ L = Len(st) /\ L > 0 /\ i = st[L].doc
  /\ x \in DocumentType /\ f \in LoopFrame(DOMAIN ds)
  /\ x.id = ds[i].id /\ x.obj = ds[i].obj /\ x.depth = ds[i].depth
  /\ DocInv(B, ds, x) /\ f.doc = i
  /\ st[L].descendants \cup st[L].result.graphs \subseteq f.descendants \cup f.result.graphs
  /\ st[L].gaps \cup st[L].result.gaps \subseteq f.gaps \cup f.result.gaps
  /\ ds1 = [ds EXCEPT ![i] = x] /\ st1 = [st EXCEPT ![L] = f]

Moved(B, ds, st, out, L, i, x, f, ds1, st1) ==
  /\ DOMAIN ds1 = DOMAIN ds /\ ds1[i] = x /\ i \in DOMAIN ds
  /\ \A j \in DOMAIN ds : j # i => ds1[j] = ds[j]
  /\ \A j \in DOMAIN ds : ds1[j].id = ds[j].id /\ ds1[j].obj = ds[j].obj
                          /\ ds1[j].depth = ds[j].depth
  /\ DOMAIN st1 = DOMAIN st /\ st1[L] = f /\ L \in DOMAIN st /\ Len(st1) = L
  /\ \A k \in DOMAIN st : k # L => st1[k] = st[k]
  /\ Shapes(ds1, st1, out) /\ DocsInv(B, ds1) /\ OneEach(st1)
  /\ \A k \in DOMAIN st1 : k # L => st1[k].pc = "awaiting" /\ FrameInv(ds1, st1[k])
  /\ Kept(ds1, st1, out) /\ Active(ds1, st1)
  /\ Found(st1, out) = Found(st, out) \cup f.gaps \cup f.result.gaps
  /\ \A m : Ahead(st1, i, m) <=> m \in f.todo
  /\ \A j, m : j # i => (Ahead(st1, j, m) <=> Ahead(st, j, m))

LEMMA MoveEffect ==
  ASSUME NEW B, NEW ds, NEW st, NEW out, NEW L, NEW i, NEW x, NEW f, NEW ds1, NEW st1,
         Moving(B, ds, st, out, L, i, x, f, ds1, st1)
  PROVE  Moved(B, ds, st, out, L, i, x, f, ds1, st1)
<1>1. /\ LoopInv(B, ds, st, out, AwaitPoint)
      /\ L = Len(st) /\ L > 0 /\ i = st[L].doc
      /\ x \in DocumentType /\ f \in LoopFrame(DOMAIN ds)
      /\ x.id = ds[i].id /\ x.obj = ds[i].obj /\ x.depth = ds[i].depth
      /\ DocInv(B, ds, x) /\ f.doc = i
      /\ st[L].descendants \cup st[L].result.graphs \subseteq f.descendants \cup f.result.graphs
      /\ st[L].gaps \cup st[L].result.gaps \subseteq f.gaps \cup f.result.gaps
  BY DEF Moving
<1>2. /\ Shapes(ds, st, out) /\ DocsInv(B, ds) /\ Suspended(st, AwaitPoint) /\ OneEach(st)
      /\ \A k \in DOMAIN st : FrameInv(ds, st[k])
      /\ Kept(ds, st, out) /\ Active(ds, st)
  BY <1>1 DEF LoopInv
<1>3. /\ L \in DOMAIN st /\ i \in DOMAIN ds /\ \A k \in DOMAIN st : st[k].doc \in DOMAIN ds
  <2>1. DOMAIN st = 1..L /\ L \in Nat
    BY <1>1, <1>2, Elements
  <2>2. L \in DOMAIN st
    BY <1>1, <2>1
  <2>3. QED
    BY <1>1, <1>2, <2>2, Elements
<1>4. /\ ds1 \in Seq(DocumentType) /\ DOMAIN ds1 = DOMAIN ds
      /\ \A j \in DOMAIN ds : ds1[j] = IF j = i THEN x ELSE ds[j]
  <2>1. ds1 = [ds EXCEPT ![i] = x] /\ ds \in Seq(DocumentType) /\ x \in DocumentType
    BY <1>2 DEF Moving, Shapes
  <2>2. QED
    BY <2>1, <1>3, ReplaceElements
<1>5. /\ st1 \in Seq(LoopFrame(DOMAIN ds)) /\ DOMAIN st1 = DOMAIN st /\ Len(st1) = L
      /\ \A k \in DOMAIN st : st1[k] = IF k = L THEN f ELSE st[k]
  <2>1. st1 = [st EXCEPT ![L] = f] /\ st \in Seq(LoopFrame(DOMAIN ds))
        /\ f \in LoopFrame(DOMAIN ds) /\ L = Len(st)
    BY <1>2 DEF Moving, Shapes
  <2>2. QED
    BY <2>1, <1>3, ReplaceElements
<1>6. /\ ds1[i] = x /\ \A j \in DOMAIN ds : j # i => ds1[j] = ds[j]
      /\ st1[L] = f /\ \A k \in DOMAIN st : k # L => st1[k] = st[k]
  BY <1>3, <1>4, <1>5
<1>7. \A j \in DOMAIN ds : ds1[j].id = ds[j].id /\ ds1[j].obj = ds[j].obj
                           /\ ds1[j].depth = ds[j].depth
  BY <1>1, <1>6
<1>8. \A k \in DOMAIN st : st1[k].doc = st[k].doc
  BY <1>1, <1>6
<1>9. Shapes(ds1, st1, out)
  BY <1>2, <1>4, <1>5 DEF Shapes
<1>10. DocsInv(B, ds1)
  <2>1. Unique(ds1)
    BY <1>2, <1>4, <1>7 DEF DocsInv, Unique
  <2>2. \A j \in DOMAIN ds : DocInv(B, ds, ds1[j])
    BY <1>1, <1>2, <1>6 DEF DocsInv
  <2>3. \A j \in DOMAIN ds1 : DocInv(B, ds1, ds1[j])
    <3>1. \A j \in DOMAIN ds : /\ j \in DOMAIN ds1 /\ ds1[j].id = ds[j].id
                              /\ ds1[j].obj = ds[j].obj /\ ds1[j].depth = ds[j].depth
      BY <1>4, <1>7
    <3>2. QED
      BY <2>2, <3>1, <1>4, DocInvMoves
  <2>4. QED
    BY <2>1, <2>3 DEF DocsInv
<1>11. OneEach(st1)
  BY <1>2, <1>5, <1>8 DEF OneEach
<1>12. \A k \in DOMAIN st : st[k].doc = i => k = L
  BY <1>1, <1>2, <1>3 DEF OneEach
<1>13. ASSUME NEW k \in DOMAIN st1, k # L
       PROVE  st1[k].pc = "awaiting" /\ FrameInv(ds1, st1[k])
  <2>1. st1[k] = st[k] /\ st[k].doc # i /\ st[k].doc \in DOMAIN ds
    BY <1>13, <1>3, <1>5, <1>6, <1>12
  <2>2. ds1[st[k].doc] = ds[st[k].doc]
    BY <2>1, <1>6
  <2>3. FrameInv(ds, st[k]) /\ st[k].pc = "awaiting"
    BY <1>1, <1>2, <1>5, <1>13 DEF Suspended
  <2>4. QED
    BY <2>1, <2>2, <2>3 DEF FrameInv
<1>14. Kept(ds1, st1, out)
  <2>1. ASSUME NEW j \in DOMAIN ds, j \notin out.graphs
        PROVE  \E k \in DOMAIN st1 :
                 j = st1[k].doc \/ j \in st1[k].descendants \/ j \in st1[k].result.graphs
    <3>1. PICK k \in DOMAIN st :
            j = st[k].doc \/ j \in st[k].descendants \/ j \in st[k].result.graphs
      BY <2>1, <1>2 DEF Kept
    <3>2. j = st1[k].doc \/ j \in st1[k].descendants \/ j \in st1[k].result.graphs
      <4>1. CASE k = L
        BY <3>1, <4>1, <1>1, <1>6
      <4>2. CASE k # L
        BY <3>1, <4>2, <1>6
      <4>3. QED
        BY <4>1, <4>2
    <3>3. QED
      BY <3>2, <1>5
  <2>2. QED
    BY <2>1, <1>4 DEF Kept
<1>15. Active(ds1, st1)
  <2>1. ASSUME NEW j \in DOMAIN ds, \A k \in DOMAIN st1 : st1[k].doc # j
        PROVE  ds1[j].state = "closed"
    <3>1. (\A k \in DOMAIN st : st[k].doc # j) /\ j # i
      BY <2>1, <1>1, <1>3, <1>5, <1>8
    <3>2. QED
      BY <3>1, <1>2, <1>6 DEF Active
  <2>2. QED
    BY <2>1, <1>4 DEF Active
<1>16. Found(st1, out) = Found(st, out) \cup f.gaps \cup f.result.gaps
  <2>1. \A g : g \in Found(st1, out) <=> g \in out.gaps \/
                 \E k \in DOMAIN st : g \in st1[k].gaps \cup st1[k].result.gaps
    BY <1>5 DEF Found
  <2>2. \A g : g \in Found(st, out) <=> g \in out.gaps \/
                 \E k \in DOMAIN st : g \in st[k].gaps \cup st[k].result.gaps
    BY DEF Found
  <2>3. ASSUME NEW g, g \in Found(st1, out)
        PROVE  g \in Found(st, out) \cup f.gaps \cup f.result.gaps
    <3>1. CASE g \in out.gaps
      BY <3>1, <2>2
    <3>2. CASE \E k \in DOMAIN st : g \in st1[k].gaps \cup st1[k].result.gaps
      <4>1. PICK k \in DOMAIN st : g \in st1[k].gaps \cup st1[k].result.gaps
        BY <3>2
      <4>2. CASE k = L
        BY <4>1, <4>2, <1>6
      <4>3. CASE k # L
        BY <4>1, <4>3, <1>6, <2>2
      <4>4. QED
        BY <4>2, <4>3
    <3>3. QED
      BY <2>1, <2>3, <3>1, <3>2
  <2>4. ASSUME NEW g, g \in Found(st, out)
        PROVE  g \in Found(st1, out)
    <3>1. CASE g \in out.gaps
      BY <3>1, <2>1
    <3>2. CASE \E k \in DOMAIN st : g \in st[k].gaps \cup st[k].result.gaps
      <4>1. PICK k \in DOMAIN st : g \in st[k].gaps \cup st[k].result.gaps
        BY <3>2
      <4>2. CASE k = L
        <5>1. g \in st1[k].gaps \cup st1[k].result.gaps
          BY <4>1, <4>2, <1>1, <1>6
        <5>2. QED
          BY <5>1, <2>1
      <4>3. CASE k # L
        <5>1. g \in st1[k].gaps \cup st1[k].result.gaps
          BY <4>1, <4>3, <1>6
        <5>2. QED
          BY <5>1, <2>1
      <4>4. QED
        BY <4>2, <4>3
    <3>3. QED
      BY <2>2, <2>4, <3>1, <3>2
  <2>5. f.gaps \cup f.result.gaps \subseteq Found(st1, out)
    BY <2>1, <1>3, <1>6
  <2>6. QED
    BY <2>3, <2>4, <2>5
<1>17. \A m : Ahead(st1, i, m) <=> m \in f.todo
  BY <1>1, <1>3, <1>5, <1>6, <1>8, <1>12 DEF Ahead
<1>18. ASSUME NEW j, NEW m, j # i
       PROVE  Ahead(st1, j, m) <=> Ahead(st, j, m)
  <2>1. \A k \in DOMAIN st : st[k].doc = j => k # L
    BY <1>1, <1>18
  <2>2. QED
    BY <2>1, <1>5, <1>6, <1>8 DEF Ahead
<1>19. QED
  BY <1>3, <1>4, <1>5, <1>6, <1>7, <1>9, <1>10, <1>11, <1>13, <1>14, <1>15, <1>16,
     <1>17, <1>18 DEF Moved

-------------------------------------------------------------------------------
(* The three ways it goes on: drawn, built, resumed.                        *)

DrawnDoc(B, doc) == [doc EXCEPT !.drawable = Drawable(B[doc.obj])]
Drawn(f) == [f EXCEPT !.pc = "drawn"]

BuiltDoc(B, doc) ==
  [doc EXCEPT !.state = "built", !.edges = EdgeDocuments(B[doc.obj]),
              !.routers = UnknownRouters(B[doc.obj])]
Started(B, doc, f) ==
  [f EXCEPT !.pc   = "looping",
            !.todo = IF doc.depth > 0 THEN B[doc.obj].nodes ELSE {},
            !.gaps = {RouterGap(doc.id, s) : s \in UnknownRouters(B[doc.obj])}]

Resumed(f) ==
  [f EXCEPT !.pc          = "looping",
            !.descendants = @ \cup f.result.graphs,
            !.gaps        = @ \cup f.result.gaps,
            !.result      = NoResult]

LEMMA DrawnFields ==
  ASSUME NEW B, B \in [Graph -> Builder], NEW doc \in DocumentType, NEW I,
         NEW f \in LoopFrame(I), NEW x, x = DrawnDoc(B, doc), NEW h, h = Drawn(f)
  PROVE  /\ x \in DocumentType
         /\ x.id = doc.id /\ x.obj = doc.obj /\ x.depth = doc.depth /\ x.state = doc.state
         /\ x.routers = doc.routers /\ x.sub = doc.sub /\ x.branch = doc.branch
         /\ x.subgraph = doc.subgraph /\ x.drawable = Drawable(B[doc.obj])
         /\ h \in LoopFrame(I)
         /\ h.doc = f.doc /\ h.pc = "drawn" /\ h.todo = f.todo /\ h.result = f.result
         /\ h.descendants = f.descendants /\ h.gaps = f.gaps
<1>1. B[doc.obj] \in Builder
  BY DEF DocumentType
<1>2. PICK d : d = Drawable(B[doc.obj])
  OBVIOUS
<1>3. d \in [ids : SUBSET NodeId, same : SUBSET NodeId]
  <2>1. START \in NodeId /\ END \in NodeId
    BY IdsAssumption DEF NodeIdAssumption
  <2>2. QED
    BY <1>1, <1>2, <2>1 DEF Drawable, Builder
<1>4. x = [doc EXCEPT !.drawable = d]
  BY <1>2 DEF DrawnDoc
<1>5. /\ x \in DocumentType
      /\ x.id = doc.id /\ x.obj = doc.obj /\ x.depth = doc.depth /\ x.state = doc.state
      /\ x.routers = doc.routers /\ x.sub = doc.sub /\ x.branch = doc.branch
      /\ x.subgraph = doc.subgraph /\ x.drawable = d
  BY <1>3, <1>4 DEF DocumentType
<1>6. /\ h \in LoopFrame(I)
      /\ h.doc = f.doc /\ h.pc = "drawn" /\ h.todo = f.todo /\ h.result = f.result
      /\ h.descendants = f.descendants /\ h.gaps = f.gaps
  BY DEF Drawn, LoopFrame
<1>7. QED
  BY <1>2, <1>5, <1>6

LEMMA BuiltFields ==
  ASSUME NEW B, B \in [Graph -> Builder], NEW doc \in DocumentType, NEW I,
         NEW f \in LoopFrame(I), NEW x, x = BuiltDoc(B, doc), NEW h, h = Started(B, doc, f)
  PROVE  /\ x \in DocumentType
         /\ x.id = doc.id /\ x.obj = doc.obj /\ x.depth = doc.depth /\ x.state = "built"
         /\ x.routers = UnknownRouters(B[doc.obj]) /\ x.edges = EdgeDocuments(B[doc.obj])
         /\ x.sub = doc.sub /\ x.branch = doc.branch
         /\ x.subgraph = doc.subgraph /\ x.drawable = doc.drawable
         /\ h \in LoopFrame(I)
         /\ h.doc = f.doc /\ h.pc = "looping" /\ h.result = f.result
         /\ h.todo = (IF doc.depth > 0 THEN B[doc.obj].nodes ELSE {})
         /\ h.descendants = f.descendants
         /\ h.gaps = {RouterGap(doc.id, s) : s \in x.routers}
<1>1. B[doc.obj] \in Builder /\ doc.id \in Seq(Token)
  BY DEF DocumentType
<1>2. PICK e \in SUBSET EdgeType : e = EdgeDocuments(B[doc.obj])
  BY <1>1, EdgeDocumentsType
<1>3. PICK r \in SUBSET NodeId : r = UnknownRouters(B[doc.obj])
  BY DEF UnknownRouters
<1>4. PICK t \in SUBSET NodeId : t = IF doc.depth > 0 THEN B[doc.obj].nodes ELSE {}
  BY <1>1 DEF Builder
<1>5. PICK g \in SUBSET GapType : g = {RouterGap(doc.id, s) : s \in r}
  <2>1. \A s \in NodeId : RouterGap(doc.id, s) \in GapType
    BY <1>1 DEF RouterGap, GapType
  <2>2. {RouterGap(doc.id, s) : s \in r} \subseteq GapType
    BY <2>1
  <2>3. QED
    BY <2>2
<1>6. x = [doc EXCEPT !.state = "built", !.edges = e, !.routers = r]
  BY <1>2, <1>3 DEF BuiltDoc
<1>7. h = [f EXCEPT !.pc = "looping", !.todo = t, !.gaps = g]
  BY <1>3, <1>4, <1>5 DEF Started
<1>8. /\ x \in DocumentType
      /\ x.id = doc.id /\ x.obj = doc.obj /\ x.depth = doc.depth /\ x.state = "built"
      /\ x.routers = r /\ x.edges = e /\ x.sub = doc.sub /\ x.branch = doc.branch
      /\ x.subgraph = doc.subgraph /\ x.drawable = doc.drawable
  <2> HIDE <1>2, <1>3, <1>4, <1>5
  <2> QED BY <1>6, ZenonT(60) DEF DocumentType, EdgeType
<1>9. /\ h \in LoopFrame(I)
      /\ h.doc = f.doc /\ h.pc = "looping" /\ h.result = f.result
      /\ h.todo = t /\ h.descendants = f.descendants /\ h.gaps = g
  BY <1>7 DEF LoopFrame
<1>10. QED
  BY <1>2, <1>3, <1>4, <1>5, <1>8, <1>9

LEMMA ResumedFields ==
  ASSUME NEW I, NEW f \in LoopFrame(I), NEW h, h = Resumed(f)
  PROVE  /\ h \in LoopFrame(I)
         /\ h.doc = f.doc /\ h.pc = "looping" /\ h.todo = f.todo /\ h.result = NoResult
         /\ h.descendants = f.descendants \cup f.result.graphs
         /\ h.gaps = f.gaps \cup f.result.gaps
<1>1. f.result \in ResultType(I)
  BY DEF LoopFrame
<1>2. f.result.graphs \subseteq I /\ f.result.gaps \subseteq GapType
  BY <1>1 DEF ResultType
<1>3. NoResult \in ResultType(I)
  BY DEF NoResult, ResultType
<1>4. PICK p : p = f.descendants \cup f.result.graphs
  OBVIOUS
<1>5. PICK q : q = f.gaps \cup f.result.gaps
  OBVIOUS
<1>6. PICK r : r = NoResult
  OBVIOUS
<1>7. p \subseteq I /\ q \subseteq GapType /\ r \in ResultType(I)
  BY <1>2, <1>3, <1>4, <1>5, <1>6 DEF LoopFrame
<1>8. h = [f EXCEPT !.pc = "looping", !.descendants = p, !.gaps = q, !.result = r]
  BY <1>4, <1>5, <1>6 DEF Resumed
<1>9. /\ h \in LoopFrame(I)
      /\ h.doc = f.doc /\ h.pc = "looping" /\ h.todo = f.todo /\ h.result = r
      /\ h.descendants = p /\ h.gaps = q
  BY <1>7, <1>8, ZenonT(60) DEF LoopFrame
<1>10. QED
  BY <1>4, <1>5, <1>6, <1>9

\* The innermost call is at pc, and its graph becomes x and its frame f.
GoesOn(B, ds, st, out, L, i, pc, x, f, ds1, st1) ==
  /\ LoopInv(B, ds, st, out, AwaitPoint) /\ L = Len(st) /\ L > 0
  /\ i = st[L].doc /\ st[L].pc = pc
  /\ ds1 = [ds EXCEPT ![i] = x] /\ st1 = [st EXCEPT ![L] = f]

AtAwait(B, ds, st, out, L, i, pc) ==
  /\ Shapes(ds, st, out) /\ DocsInv(B, ds) /\ FoundInv(ds, st, out) /\ Accounted(B, ds, st, out)
  /\ OneEach(st)
  /\ L \in DOMAIN st /\ i \in DOMAIN ds /\ DOMAIN ds = 1..Len(ds)
  /\ ds[i] \in DocumentType /\ st[L] \in LoopFrame(DOMAIN ds)
  /\ st[L].doc = i /\ st[L].pc = pc /\ FrameInv(ds, st[L]) /\ DocInv(B, ds, ds[i])

LEMMA GoesOnFacts ==
  ASSUME NEW B, NEW ds, NEW st, NEW out, NEW L, NEW i, NEW pc, NEW x, NEW f, NEW ds1, NEW st1,
         GoesOn(B, ds, st, out, L, i, pc, x, f, ds1, st1)
  PROVE  AtAwait(B, ds, st, out, L, i, pc)
<1>1. /\ Shapes(ds, st, out) /\ DocsInv(B, ds) /\ FoundInv(ds, st, out) /\ Accounted(B, ds, st, out)
      /\ OneEach(st) /\ \A k \in DOMAIN st : FrameInv(ds, st[k])
  BY DEF LoopInv, GoesOn
<1>2. L = Len(st) /\ L > 0 /\ i = st[L].doc /\ st[L].pc = pc
  BY DEF GoesOn
<1>3. /\ L \in DOMAIN st /\ i \in DOMAIN ds /\ DOMAIN ds = 1..Len(ds)
      /\ ds[i] \in DocumentType /\ st[L] \in LoopFrame(DOMAIN ds)
  <2>1. DOMAIN st = 1..L /\ L \in Nat
    BY <1>1, <1>2, Elements
  <2>2. L \in DOMAIN st
    BY <2>1, <1>2
  <2>3. QED
    BY <1>1, <1>2, <2>2, Elements
<1>4. DocInv(B, ds, ds[i])
  BY <1>1, <1>3 DEF DocsInv
<1>5. QED
  BY <1>1, <1>2, <1>3, <1>4 DEF AtAwait

\* getGraphAsync resolves.
\* A step after which the call's own document is at a later await, and what that keeps.
Draws(B, ds, st, out, L, i, x, f, ds1, st1) ==
  /\ B \in [Graph -> Builder] /\ x = DrawnDoc(B, ds[i]) /\ f = Drawn(st[L])
  /\ GoesOn(B, ds, st, out, L, i, "drawing", x, f, ds1, st1)

Onward(B, ds, ds1, st1, out) ==
  /\ LoopInv(B, ds1, st1, out, AwaitPoint) /\ st1 # << >>
  /\ Ids(ds1) = Ids(ds) /\ \A j \in DOMAIN ds : ds1[j].state = ds[j].state

LEMMA DrawLoop ==
  ASSUME NEW B, NEW ds, NEW st, NEW out, NEW L, NEW i, NEW x, NEW f, NEW ds1, NEW st1,
         Draws(B, ds, st, out, L, i, x, f, ds1, st1)
  PROVE  Onward(B, ds, ds1, st1, out)
<1>1. x = DrawnDoc(B, ds[i]) /\ f = Drawn(st[L])
  BY DEF Draws
<1>2. B \in [Graph -> Builder] /\ GoesOn(B, ds, st, out, L, i, "drawing", x, f, ds1, st1)
  BY DEF Draws
<1>3. AtAwait(B, ds, st, out, L, i, "drawing")
  BY <1>2, GoesOnFacts
<1>4. /\ FoundInv(ds, st, out) /\ Accounted(B, ds, st, out)
      /\ L \in DOMAIN st /\ i \in DOMAIN ds
      /\ ds[i] \in DocumentType /\ st[L] \in LoopFrame(DOMAIN ds)
      /\ st[L].doc = i /\ st[L].pc = "drawing" /\ FrameInv(ds, st[L]) /\ DocInv(B, ds, ds[i])
  BY <1>3 DEF AtAwait
<1>5. /\ x \in DocumentType
      /\ x.id = ds[i].id /\ x.obj = ds[i].obj /\ x.depth = ds[i].depth /\ x.state = ds[i].state
      /\ x.routers = ds[i].routers /\ x.sub = ds[i].sub /\ x.branch = ds[i].branch
      /\ x.subgraph = ds[i].subgraph /\ x.drawable = Drawable(B[ds[i].obj])
      /\ f \in LoopFrame(DOMAIN ds)
      /\ f.doc = st[L].doc /\ f.pc = "drawn" /\ f.todo = st[L].todo /\ f.result = st[L].result
      /\ f.descendants = st[L].descendants /\ f.gaps = st[L].gaps
  BY <1>1, <1>2, <1>4, DrawnFields
<1>6. /\ ds[i].state = "drawing" /\ st[L].result = NoResult
      /\ st[L].todo = {} /\ st[L].gaps = {} /\ st[L].descendants = {}
  BY <1>4 DEF FrameInv
<1>7. DocInv(B, ds, x)
  <2>1. DocInv(B, ds, ds[i])
    BY <1>4
  <2>2. x.drawable.same \subseteq B[x.obj].nodes \cap x.drawable.ids
    BY <1>2, <1>5 DEF Drawable
  <2>3. x.state = "drawing" /\ x.routers = {} /\ \A n \in NodeId : x.sub[n] = NoRef
    BY <2>1, <1>5, <1>6 DEF DocInv
  <2>4. \A n \in NodeId : x.branch[n] = "none"
    BY <2>1, <1>5, <1>6 DEF DocInv
  <2>5. QED
    BY <2>2, <2>3, <2>4 DEF DocInv
<1>8. Moving(B, ds, st, out, L, i, x, f, ds1, st1)
  BY <1>2, <1>4, <1>5, <1>7 DEF Moving, GoesOn
<1>9. Moved(B, ds, st, out, L, i, x, f, ds1, st1)
  BY <1>8, MoveEffect
<1>10. /\ DOMAIN ds1 = DOMAIN ds /\ ds1[i] = x
       /\ \A j \in DOMAIN ds : j # i => ds1[j] = ds[j]
       /\ DOMAIN st1 = DOMAIN st /\ st1[L] = f /\ L \in DOMAIN st /\ Len(st1) = L
       /\ Shapes(ds1, st1, out) /\ DocsInv(B, ds1) /\ OneEach(st1)
       /\ \A k \in DOMAIN st1 : k # L => st1[k].pc = "awaiting" /\ FrameInv(ds1, st1[k])
       /\ Kept(ds1, st1, out) /\ Active(ds1, st1)
       /\ Found(st1, out) = Found(st, out) \cup f.gaps \cup f.result.gaps
       /\ \A m : Ahead(st1, i, m) <=> m \in f.todo
       /\ \A j, m : j # i => (Ahead(st1, j, m) <=> Ahead(st, j, m))
  BY <1>9 DEF Moved
<1>11. Found(st1, out) = Found(st, out)
  BY <1>5, <1>6, <1>10 DEF NoResult
<1>12. /\ \A j \in DOMAIN ds : /\ ds1[j].id = ds[j].id /\ ds1[j].routers = ds[j].routers
                               /\ ds1[j].state = ds[j].state
       /\ \A m : \A j \in DOMAIN ds : Ahead(st1, j, m) => Ahead(st, j, m)
  BY <1>5, <1>6, <1>10
<1>13. FoundInv(ds1, st1, out)
  BY <1>4, <1>10, <1>11, <1>12 DEF FoundInv
<1>14. Accounted(B, ds1, st1, out)
  <2>1. ASSUME NEW j \in DOMAIN ds, ds1[j].state # "drawing" PROVE j # i
    BY <2>1, <1>5, <1>6, <1>10
  <2>2. ASSUME NEW j \in DOMAIN ds, j # i, NEW m
        PROVE  Opaque(ds1, st1, out, j, m) <=> Opaque(ds, st, out, j, m)
    BY <2>2, <1>10, <1>11 DEF Opaque
  <2>3. QED
    BY <2>1, <2>2, <1>4, <1>10 DEF Accounted
<1>15. \A k \in DOMAIN st1 : FrameInv(ds1, st1[k])
  <2>1. FrameInv(ds1, st1[L])
    <3>1. ds1[st1[L].doc] = x
      BY <1>4, <1>5, <1>10
    <3>2. QED
      BY <3>1, <1>5, <1>6, <1>10 DEF FrameInv
  <2>2. QED
    BY <2>1, <1>10
<1>16. Suspended(st1, AwaitPoint) /\ st1 # << >>
  BY <1>5, <1>10 DEF Suspended, AwaitPoint
<1>17. Ids(ds1) = Ids(ds)
  BY <1>10, <1>12 DEF Ids
<1>18. QED
  BY <1>10, <1>12, <1>13, <1>14, <1>15, <1>16, <1>17 DEF LoopInv, Onward

\* A child's promise resolves.
LEMMA ResumeLoop ==
  ASSUME NEW B, NEW ds, NEW st, NEW out, NEW L, NEW i, NEW x, x = ds[i],
         NEW f, f = Resumed(st[L]), NEW ds1, NEW st1,
         GoesOn(B, ds, st, out, L, i, "resuming", x, f, ds1, st1)
  PROVE  LoopInv(B, ds1, st1, out, {"looping"}) /\ st1 # << >> /\ ds1 = ds
<1>3. AtAwait(B, ds, st, out, L, i, "resuming")
  BY GoesOnFacts
<1>4. /\ FoundInv(ds, st, out) /\ Accounted(B, ds, st, out) /\ DocsInv(B, ds) /\ OneEach(st)
      /\ L \in DOMAIN st /\ i \in DOMAIN ds /\ DOMAIN ds = 1..Len(ds)
      /\ ds[i] \in DocumentType /\ st[L] \in LoopFrame(DOMAIN ds)
      /\ st[L].doc = i /\ st[L].pc = "resuming" /\ FrameInv(ds, st[L]) /\ DocInv(B, ds, ds[i])
  BY <1>3 DEF AtAwait
<1>5. /\ f \in LoopFrame(DOMAIN ds)
      /\ f.doc = st[L].doc /\ f.pc = "looping" /\ f.todo = st[L].todo /\ f.result = NoResult
      /\ f.descendants = st[L].descendants \cup st[L].result.graphs
      /\ f.gaps = st[L].gaps \cup st[L].result.gaps
  BY <1>4, ResumedFields
<1>6. ds[i].state = "built" /\ (st[L].todo # {} => ds[i].depth > 0)
  BY <1>4 DEF FrameInv
<1>7. ds1 = ds
  <2>1. ds1 = [ds EXCEPT ![i] = ds[i]]
    BY DEF GoesOn
  <2>2. ds \in Seq(DocumentType)
    BY <1>3 DEF AtAwait, Shapes
  <2>3. QED
    BY <2>1, <2>2, <1>4
<1>8. Moving(B, ds, st, out, L, i, x, f, ds1, st1)
  BY <1>4, <1>5 DEF Moving, GoesOn
<1>9. Moved(B, ds, st, out, L, i, x, f, ds1, st1)
  BY <1>8, MoveEffect
<1>10. /\ DOMAIN st1 = DOMAIN st /\ st1[L] = f /\ Len(st1) = L
       /\ Shapes(ds, st1, out) /\ OneEach(st1)
       /\ \A k \in DOMAIN st1 : k # L => st1[k].pc = "awaiting" /\ FrameInv(ds, st1[k])
       /\ Kept(ds, st1, out) /\ Active(ds, st1)
       /\ Found(st1, out) = Found(st, out) \cup f.gaps \cup f.result.gaps
       /\ \A m : Ahead(st1, i, m) <=> m \in f.todo
       /\ \A j, m : j # i => (Ahead(st1, j, m) <=> Ahead(st, j, m))
  BY <1>7, <1>9 DEF Moved
<1>11. Found(st1, out) = Found(st, out)
  <2>1. st[L].gaps \cup st[L].result.gaps \subseteq Found(st, out)
    BY <1>4 DEF Found
  <2>2. QED
    BY <2>1, <1>5, <1>10, <1>4 DEF NoResult
<1>12. \A j, m : Ahead(st1, j, m) <=> Ahead(st, j, m)
  <2>1. \A m : Ahead(st, i, m) <=> m \in st[L].todo
    BY <1>4 DEF Ahead, OneEach
  <2>2. QED
    BY <2>1, <1>5, <1>10
<1>13. FoundInv(ds, st1, out)
  BY <1>4, <1>11, <1>12 DEF FoundInv
<1>14. Accounted(B, ds, st1, out)
  <2>1. \A j, m : Opaque(ds, st1, out, j, m) <=> Opaque(ds, st, out, j, m)
    BY <1>11, <1>12 DEF Opaque
  <2>2. QED
    BY <2>1, <1>4 DEF Accounted
<1>15. \A k \in DOMAIN st1 : FrameInv(ds, st1[k])
  <2>1. FrameInv(ds, st1[L])
    BY <1>4, <1>5, <1>6, <1>10 DEF FrameInv
  <2>2. QED
    BY <2>1, <1>10
<1>16. Suspended(st1, {"looping"}) /\ st1 # << >>
  BY <1>4, <1>5, <1>10 DEF Suspended
<1>17. QED
  BY <1>4, <1>7, <1>10, <1>13, <1>14, <1>15, <1>16 DEF LoopInv

\* builderStructure has read the builder.
LEMMA BuildLoop ==
  ASSUME NEW B, B \in [Graph -> Builder], NEW ds, NEW st, NEW out, NEW L, NEW i,
         NEW x, x = BuiltDoc(B, ds[i]), NEW f, f = Started(B, ds[i], st[L]),
         NEW ds1, NEW st1,
         GoesOn(B, ds, st, out, L, i, "drawn", x, f, ds1, st1)
  PROVE  LoopInv(B, ds1, st1, out, {"looping"}) /\ st1 # << >> /\ Ids(ds1) = Ids(ds)
<1>3. AtAwait(B, ds, st, out, L, i, "drawn")
  BY GoesOnFacts
<1>4. /\ FoundInv(ds, st, out) /\ Accounted(B, ds, st, out) /\ Unique(ds)
      /\ L \in DOMAIN st /\ i \in DOMAIN ds
      /\ ds[i] \in DocumentType /\ st[L] \in LoopFrame(DOMAIN ds)
      /\ st[L].doc = i /\ st[L].pc = "drawn" /\ FrameInv(ds, st[L]) /\ DocInv(B, ds, ds[i])
  BY <1>3 DEF AtAwait, DocsInv
<1>5. /\ x \in DocumentType
      /\ x.id = ds[i].id /\ x.obj = ds[i].obj /\ x.depth = ds[i].depth /\ x.state = "built"
      /\ x.routers = UnknownRouters(B[ds[i].obj])
      /\ x.sub = ds[i].sub /\ x.branch = ds[i].branch
      /\ x.subgraph = ds[i].subgraph /\ x.drawable = ds[i].drawable
      /\ f \in LoopFrame(DOMAIN ds)
      /\ f.doc = st[L].doc /\ f.pc = "looping" /\ f.result = st[L].result
      /\ f.todo = (IF ds[i].depth > 0 THEN B[ds[i].obj].nodes ELSE {})
      /\ f.descendants = st[L].descendants
      /\ f.gaps = {RouterGap(ds[i].id, s) : s \in x.routers}
  BY <1>4, BuiltFields
<1>6. /\ ds[i].state = "drawing" /\ st[L].result = NoResult
      /\ st[L].todo = {} /\ st[L].gaps = {} /\ st[L].descendants = {}
  BY <1>4 DEF FrameInv
<1>7. DocInv(B, ds, x)
  BY <1>4, <1>5, <1>6 DEF DocInv
<1>8. Moving(B, ds, st, out, L, i, x, f, ds1, st1)
  BY <1>4, <1>5, <1>6, <1>7 DEF Moving, GoesOn, NoResult
<1>9. Moved(B, ds, st, out, L, i, x, f, ds1, st1)
  BY <1>8, MoveEffect
<1>10. /\ DOMAIN ds1 = DOMAIN ds /\ ds1[i] = x
       /\ \A j \in DOMAIN ds : j # i => ds1[j] = ds[j]
       /\ DOMAIN st1 = DOMAIN st /\ st1[L] = f /\ Len(st1) = L
       /\ Shapes(ds1, st1, out) /\ DocsInv(B, ds1) /\ OneEach(st1)
       /\ \A k \in DOMAIN st1 : k # L => st1[k].pc = "awaiting" /\ FrameInv(ds1, st1[k])
       /\ Kept(ds1, st1, out) /\ Active(ds1, st1)
       /\ Found(st1, out) = Found(st, out) \cup f.gaps \cup f.result.gaps
       /\ \A m : Ahead(st1, i, m) <=> m \in f.todo
       /\ \A j, m : j # i => (Ahead(st1, j, m) <=> Ahead(st, j, m))
  BY <1>9 DEF Moved
<1>11. Found(st1, out) = Found(st, out) \cup f.gaps
  BY <1>5, <1>6, <1>10 DEF NoResult
<1>12. \A j \in DOMAIN ds : ds1[j].id = ds[j].id
  BY <1>5, <1>10
<1>13. /\ \A g \in f.gaps : g.code # "child-graph-id-collision" /\ g.graph = ds[i].id
       /\ \A j, m : Collision(ds[j].id, m) \notin f.gaps
  <2>1. \A g \in f.gaps : g.code = "unknown-routing-targets" /\ g.graph = ds[i].id
    BY <1>5 DEF RouterGap
  <2>2. \A j, m : Collision(ds[j].id, m).code = "child-graph-id-collision"
    BY DEF Collision
  <2>3. QED
    BY <2>1, <2>2
\* No gap speaks of a graph that is not built.
<1>14. \A m : Collision(ds[i].id, m) \notin Found(st, out)
  <2>1. ASSUME NEW m, Collision(ds[i].id, m) \in Found(st, out) PROVE FALSE
    <3>1. PICK j \in DOMAIN ds : ds[j].id = Collision(ds[i].id, m).graph /\ ds[j].state # "drawing"
      BY <2>1, <1>4 DEF FoundInv
    <3>2. ds[j].id = ds[i].id
      BY <3>1 DEF Collision
    <3>3. j = i
      BY <3>2, <1>4 DEF Unique
    <3>4. QED
      BY <3>1, <3>3, <1>6
  <2>2. QED
    BY <2>1
<1>15. FoundInv(ds1, st1, out)
  <2>1. ASSUME NEW j \in DOMAIN ds, NEW s \in ds1[j].routers
        PROVE  RouterGap(ds1[j].id, s) \in Found(st1, out)
    <3>1. CASE j = i
      <4>1. RouterGap(ds[i].id, s) \in f.gaps
        BY <2>1, <3>1, <1>5, <1>10
      <4>2. QED
        BY <4>1, <3>1, <1>11, <1>12
    <3>2. CASE j # i
      BY <2>1, <3>2, <1>4, <1>10, <1>11 DEF FoundInv
    <3>3. QED
      BY <3>1, <3>2
  <2>2. ASSUME NEW g \in Found(st1, out)
        PROVE  \E j \in DOMAIN ds : ds1[j].id = g.graph /\ ds1[j].state # "drawing"
    <3>1. CASE g \in f.gaps
      BY <3>1, <1>4, <1>5, <1>10, <1>13
    <3>2. CASE g \in Found(st, out)
      <4>1. PICK j \in DOMAIN ds : ds[j].id = g.graph /\ ds[j].state # "drawing"
        BY <3>2, <1>4 DEF FoundInv
      <4>2. j # i
        BY <4>1, <1>6
      <4>3. QED
        BY <4>1, <4>2, <1>10
    <3>3. QED
      BY <2>2, <3>1, <3>2, <1>11
  <2>3. ASSUME NEW g \in Found(st1, out), g.code = "child-graph-id-collision"
        PROVE  \E j \in DOMAIN ds : ds1[j].id = DerivedId(g.graph, g.node)
    <3>1. g \in Found(st, out)
      BY <2>3, <1>11, <1>13
    <3>2. PICK j \in DOMAIN ds : ds[j].id = DerivedId(g.graph, g.node)
      BY <2>3, <3>1, <1>4 DEF FoundInv
    <3>3. QED
      BY <3>2, <1>12
  <2>4. ASSUME NEW j \in DOMAIN ds, NEW m \in NodeId, Collision(ds1[j].id, m) \in Found(st1, out)
        PROVE  ~Ahead(st1, j, m)
    <3>1. Collision(ds[j].id, m) \in Found(st, out)
      BY <2>4, <1>11, <1>12, <1>13
    <3>2. j # i
      BY <3>1, <1>14
    <3>3. ~Ahead(st, j, m)
      BY <3>1, <1>4 DEF FoundInv
    <3>4. QED
      BY <3>2, <3>3, <1>10
  <2>5. QED
    BY <2>1, <2>2, <2>3, <2>4, <1>10 DEF FoundInv
<1>16. Accounted(B, ds1, st1, out)
  <2> SUFFICES ASSUME NEW j \in DOMAIN ds, ds1[j].state # "drawing",
                      NEW m \in ds1[j].drawable.same, B[ds1[j].obj].runnable[m] # NoChild
               PROVE  ds1[j].sub[m] = NoRef <=> Opaque(ds1, st1, out, j, m)
    BY <1>10 DEF Accounted
  <2>1. CASE j = i
    <3>1. m \in B[ds[i].obj].nodes /\ ds[i].depth \in Nat /\ m \in NodeId
      <4>1. m \in ds[i].drawable.same
        BY <2>1, <1>5, <1>10
      <4>2. QED
        BY <4>1, <1>4 DEF DocInv, DocumentType
    <3>2. ds1[j].sub[m] = NoRef
      <4>1. ds[i].sub[m] = NoRef
        BY <3>1, <1>4, <1>6 DEF DocInv
      <4>2. QED
        BY <4>1, <2>1, <1>5, <1>10
    <3>3. ds1[j].depth = ds[i].depth
      BY <2>1, <1>5, <1>10
    <3>4. ds[i].depth > 0 => Ahead(st1, j, m)
      BY <3>1, <2>1, <1>5, <1>10
    <3>5. ds[i].depth > 0 \/ ds[i].depth = 0
      BY <3>1
    <3>6. QED
      BY <3>2, <3>3, <3>4, <3>5 DEF Opaque
  <2>2. CASE j # i
    <3>1. ds1[j] = ds[j]
      BY <2>2, <1>10
    <3>2. Opaque(ds1, st1, out, j, m) <=> Opaque(ds, st, out, j, m)
      BY <2>2, <3>1, <1>10, <1>11, <1>13 DEF Opaque
    <3>3. QED
      BY <3>1, <3>2, <1>4 DEF Accounted
  <2>3. QED
    BY <2>1, <2>2
<1>17. \A k \in DOMAIN st1 : FrameInv(ds1, st1[k])
  <2>1. FrameInv(ds1, st1[L])
    <3>1. st1[L] = f /\ ds1[f.doc] = x
      BY <1>4, <1>5, <1>10
    <3>2. QED
      BY <3>1, <1>5, <1>6 DEF FrameInv
  <2>2. QED
    BY <2>1, <1>10
<1>18. Suspended(st1, {"looping"}) /\ st1 # << >>
  BY <1>4, <1>5, <1>10 DEF Suspended
<1>19. Ids(ds1) = Ids(ds)
  BY <1>10, <1>12 DEF Ids
<1>20. QED
  BY <1>10, <1>15, <1>16, <1>17, <1>18, <1>19 DEF LoopInv

-------------------------------------------------------------------------------
(* Claims about what is closed, and what an extension of a builder leaves.  *)

LEMMA ClosedIds ==
  ASSUME NEW ds, NEW i, NEW ds2, ClosedIn(ds, i, ds2)
  PROVE  Ids(ds2) = Ids(ds)
BY DEF ClosedIn, Ids

\* The property ClaimsAreCurrent, of one caller's graphs before and after a step.
ClaimsIn(B, ds, ds2) ==
  \A i \in DOMAIN ds : (ds[i].state # "closed" /\ ds2[i].state = "closed") =>
    \A n \in NodeId : ds2[i].branch[n] = "all-declared" =>
      /\ {e \in ds2[i].edges : e.source = n}
           = {e \in EdgeDocuments(B[ds2[i].obj]) : e.source = n}
      /\ n \notin Dynamic(B[ds2[i].obj])

LEMMA ClosedClaims ==
  ASSUME NEW B, B \in [Graph -> Builder], NEW ds, NEW doc \in DocumentType,
         DocInv(B, ds, doc), doc.state = "built",
         doc.depth > 0 \/ doc.edges = EdgeDocuments(B[doc.obj]),
         NEW x, x = ClosedDoc(B, doc), NEW n \in NodeId, x.branch[n] = "all-declared"
  PROVE  /\ {e \in x.edges : e.source = n} = {e \in EdgeDocuments(B[x.obj]) : e.source = n}
         /\ n \notin Dynamic(B[x.obj])
<1>1. /\ x.edges = doc.edges /\ x.obj = doc.obj
      /\ n \in doc.drawable.ids =>
           x.branch[n] = BranchFact(B[doc.obj], doc.drawable, doc.edges, doc.depth, n)
      /\ n \notin doc.drawable.ids => x.branch[n] = doc.branch[n]
  BY ClosedFields
<1>2. doc.branch[n] = "none"
  BY DEF DocInv
<1>3. BranchFact(B[doc.obj], doc.drawable, doc.edges, doc.depth, n) = "all-declared"
  BY <1>1, <1>2
<1>4. B[doc.obj] \in Builder /\ doc.edges \in SUBSET EdgeType
  BY DEF DocumentType, EdgeType
<1>5. QED
  BY <1>1, <1>3, <1>4, AllDeclaredIsCurrent

\* A builder may get edges, branches and nodes, but keeps the runnables it has.
Grows(B, B2) ==
  \A g \in Graph : /\ B[g].nodes \subseteq B2[g].nodes
                   /\ \A n \in B[g].nodes : B2[g].runnable[n] = B[g].runnable[n]

LEMMA DocsInvGrows ==
  ASSUME NEW B, NEW B2, Grows(B, B2), NEW ds, ds \in Seq(DocumentType), DocsInv(B, ds)
  PROVE  DocsInv(B2, ds)
<1>1. ASSUME NEW i \in DOMAIN ds PROVE DocInv(B2, ds, ds[i])
  <2>1. DocInv(B, ds, ds[i]) /\ ds[i].obj \in Graph
    <3>1. ds[i] \in DocumentType
      BY <1>1, LenProperties, ElementOfSeq
    <3>2. QED
      BY <1>1, <3>1 DEF DocsInv, DocumentType
  <2>2. \A n \in ds[i].drawable.same :
          n \in B2[ds[i].obj].nodes /\ B2[ds[i].obj].runnable[n] = B[ds[i].obj].runnable[n]
    BY <2>1 DEF DocInv, Grows
  <2>3. QED
    BY <2>1, <2>2 DEF DocInv
<1>2. QED
  BY <1>1 DEF DocsInv

LEMMA LoopInvGrows ==
  ASSUME NEW B, NEW B2, Grows(B, B2), NEW ds, NEW st, NEW out, NEW pcs,
         LoopInv(B, ds, st, out, pcs)
  PROVE  LoopInv(B2, ds, st, out, pcs)
<1>1. Shapes(ds, st, out) /\ DocsInv(B, ds) /\ Accounted(B, ds, st, out)
  BY DEF LoopInv
<1>2. DocsInv(B2, ds)
  BY <1>1, DocsInvGrows DEF Shapes
<1>3. Accounted(B2, ds, st, out)
  <2>1. ASSUME NEW i \in DOMAIN ds, NEW n \in ds[i].drawable.same
        PROVE  B2[ds[i].obj].runnable[n] = B[ds[i].obj].runnable[n]
    <3>1. DocInv(B, ds, ds[i]) /\ ds[i].obj \in Graph
      BY <1>1, Elements DEF DocsInv, DocumentType
    <3>2. QED
      BY <2>1, <3>1 DEF DocInv, Grows
  <2>2. QED
    BY <2>1, <1>1 DEF Accounted
<1>4. QED
  BY <1>2, <1>3 DEF LoopInv

LEMMA CallerInvGrows ==
  ASSUME NEW B, NEW B2, Grows(B, B2), NEW ph, NEW ds, NEW st, NEW out,
         CallerInv(B, ph, ds, st, out)
  PROVE  CallerInv(B2, ph, ds, st, out)
<1>1. CASE ph = "raised"
  BY <1>1, DocsInvGrows DEF CallerInv, Shapes
<1>2. CASE ph # "raised"
  BY <1>2, LoopInvGrows DEF CallerInv
<1>3. QED
  BY <1>1, <1>2

-------------------------------------------------------------------------------
(* The rest of the step, from the loop to the next await.                   *)

\* The graphs ds and the suspended calls st, and what a step has made of the
\* innermost call when it enters the loop.
Entered(B, ds, st, L, i, doc, frame, ds1, st1) ==
  /\ Shapes(ds, st, NoResult) /\ L = Len(st) /\ L > 0 /\ i = st[L].doc /\ i = frame.doc
  /\ ds1 = [ds EXCEPT ![i] = doc] /\ st1 = [st EXCEPT ![L] = frame]
  /\ LoopInv(B, ds1, st1, NoResult, {"looping"}) /\ Ids(ds1) = Ids(ds)
  /\ doc.depth > 0 \/ doc.edges = EdgeDocuments(B[doc.obj])

InLoop(B, ds, st, L, i, doc, frame, ds1, st1) ==
  /\ L \in Nat /\ L > 0 /\ i \in DOMAIN ds /\ L \in DOMAIN st
  /\ DOMAIN ds1 = DOMAIN ds /\ Len(ds1) = Len(ds) /\ Len(st1) = L /\ st1 # << >>
  /\ ds1[i] = doc /\ st1[L] = frame /\ frame.doc = i
  /\ \A j \in DOMAIN ds : j # i => ds1[j] = ds[j]
  /\ \A k \in DOMAIN st : k # L => st1[k] = st[k]
  /\ doc \in DocumentType /\ frame \in LoopFrame(DOMAIN ds)
  /\ doc.state = "built" /\ DocInv(B, ds1, doc)

LEMMA EnteredFacts ==
  ASSUME NEW B, NEW ds, NEW st, NEW L, NEW i, NEW doc, NEW frame, NEW ds1, NEW st1,
         Entered(B, ds, st, L, i, doc, frame, ds1, st1)
  PROVE  InLoop(B, ds, st, L, i, doc, frame, ds1, st1)
<1>1. Shapes(ds, st, NoResult) /\ L = Len(st) /\ L > 0 /\ i = st[L].doc /\ frame.doc = i
  BY DEF Entered
<1>2. /\ L \in Nat /\ L \in DOMAIN st /\ i \in DOMAIN ds /\ DOMAIN ds = 1..Len(ds)
      /\ DOMAIN st = 1..L /\ Len(ds) \in Nat
  <2>1. DOMAIN st = 1..L /\ L \in Nat
    BY <1>1, Elements
  <2>2. L \in DOMAIN st
    BY <2>1, <1>1
  <2>3. QED
    BY <1>1, <2>1, <2>2, Elements
<1>3. DOMAIN ds1 = DOMAIN ds /\ ds1[i] = doc /\ \A j \in DOMAIN ds : j # i => ds1[j] = ds[j]
  <2>1. ds1 = [ds EXCEPT ![i] = doc] /\ ds \in Seq(DocumentType)
    BY <1>1 DEF Entered, Shapes
  <2>2. QED
    BY <2>1, <1>2
<1>4. DOMAIN st1 = DOMAIN st /\ st1[L] = frame /\ \A k \in DOMAIN st : k # L => st1[k] = st[k]
  <2>1. st1 = [st EXCEPT ![L] = frame] /\ st \in Seq(LoopFrame(DOMAIN ds))
    BY <1>1 DEF Entered, Shapes
  <2>2. QED
    BY <2>1, <1>2
<1>5. LoopInv(B, ds1, st1, NoResult, {"looping"}) /\ Shapes(ds1, st1, NoResult)
  BY ZenonT(60) DEF Entered, LoopInv
<1>6. /\ Len(ds1) \in Nat /\ DOMAIN ds1 = 1..Len(ds1) /\ Len(st1) \in Nat
      /\ DOMAIN st1 = 1..Len(st1)
      /\ \A j \in DOMAIN ds1 : ds1[j] \in DocumentType
      /\ \A k \in DOMAIN st1 : st1[k] \in LoopFrame(DOMAIN ds1)
  BY <1>5, Elements
<1>7. Len(ds1) = Len(ds)
  <2>1. 1..Len(ds1) = 1..Len(ds)
    BY <1>2, <1>3, <1>6, SMTT(60)
  <2>2. QED
    BY <2>1, <1>2, <1>6, SameInterval, ZenonT(60)
<1>8. Len(st1) = L
  <2>1. 1..Len(st1) = 1..L
    BY <1>2, <1>4, <1>6
  <2>2. QED
    BY <2>1, <1>2, <1>6, SameInterval, ZenonT(60)
<1>9. st1 # << >>
  BY <1>2, <1>4
<1>10. doc \in DocumentType /\ frame \in LoopFrame(DOMAIN ds)
  BY <1>2, <1>3, <1>4, <1>6
<1>11. doc.state = "built" /\ DocInv(B, ds1, doc)
  <2>1. FrameInv(ds1, st1[L]) /\ st1[L].pc = "looping" /\ DocInv(B, ds1, ds1[i])
    BY <1>2, <1>3, <1>4, <1>5, <1>8 DEF LoopInv, Suspended, DocsInv
  <2>2. QED
    BY <2>1, <1>1, <1>3, <1>4 DEF FrameInv
<1>12. QED
  BY <1>1, <1>2, <1>3, <1>4, <1>7, <1>8, <1>9, <1>10, <1>11 DEF InLoop

\* Two replacements at one position.
LEMMA ReplacedTwice ==
  ASSUME NEW s, NEW s1, NEW i, NEW e, s1 = [s EXCEPT ![i] = e], NEW e2
  PROVE  [s1 EXCEPT ![i] = e2] = [s EXCEPT ![i] = e2]
OBVIOUS

\* What Descend makes of ds and st.
Descended(B, ds, st, L, i, doc, frame, ds1, n, gid, ds2, st2) ==
  LET passed == {m \in frame.todo : Rank[m] < Rank[n]} IN
  /\ n \in OpenIn(B, ds1, doc, frame.todo)
  /\ \A m \in OpenIn(B, ds1, doc, frame.todo) : Rank[n] <= Rank[m]
  /\ gid = DerivedId(doc.id, n)
  /\ ds2 = Append([ds EXCEPT ![i] = Marked(doc, n, gid)],
                  Document(gid, Holds(B, doc, n), doc.depth - 1))
  /\ st2 = Append([st EXCEPT ![L] = Suspend(frame, frame.todo \ (passed \cup {n}),
                                            RefusedIn(B, ds1, doc, passed))],
                  Frame(Len(ds) + 1))

\* The node whose child got an address, and the nodes the loop passed to get there.
Materializes(B, ds1, st1, doc, frame, ds2, st2) ==
  \E N, L, i, n, passed, gid, child, R :
    /\ Reached(ds1, st1, NoResult, N, L, i, n, gid, child, R, ds2, st2)
    /\ L = Len(st1) /\ i = frame.doc
    /\ n \in OpenIn(B, ds1, doc, frame.todo) /\ passed \subseteq frame.todo
    /\ gid = DerivedId(doc.id, n) /\ child = Holds(B, doc, n)
    /\ R = RefusedIn(B, ds1, doc, passed)

LEMMA ProceedDescend ==
  ASSUME NEW B, B \in [Graph -> Builder], NEW ds, NEW st, NEW L, NEW i, NEW doc, NEW frame,
         NEW ds1, NEW st1, Entered(B, ds, st, L, i, doc, frame, ds1, st1),
         NEW n, NEW gid, NEW ds2, NEW st2,
         Descended(B, ds, st, L, i, doc, frame, ds1, n, gid, ds2, st2)
  PROVE  /\ LoopInv(B, ds2, st2, NoResult, AwaitPoint) /\ st2 # << >>
         /\ Ids(ds2) = Ids(ds) \cup {gid} /\ ClaimsIn(B, ds, ds2)
         /\ Materializes(B, ds1, st1, doc, frame, ds2, st2)
<1>0. InLoop(B, ds, st, L, i, doc, frame, ds1, st1)
  BY EnteredFacts
<1>1. /\ DOMAIN ds1 = DOMAIN ds /\ Len(ds1) = Len(ds) /\ Len(st1) = L /\ st1 # << >>
      /\ ds1[i] = doc /\ st1[L] = frame /\ frame.doc = i
      /\ \A j \in DOMAIN ds : j # i => ds1[j] = ds[j]
      /\ doc \in DocumentType /\ frame \in LoopFrame(DOMAIN ds) /\ doc.state = "built"
  BY <1>0 DEF InLoop
<1>2. ds1 = [ds EXCEPT ![i] = doc] /\ st1 = [st EXCEPT ![L] = frame]
      /\ LoopInv(B, ds1, st1, NoResult, {"looping"}) /\ Ids(ds1) = Ids(ds)
  BY DEF Entered
<1> DEFINE passed == {m \in frame.todo : Rank[m] < Rank[n]}
<1>3. /\ ds2 = Append([ds1 EXCEPT ![i] = Marked(ds1[i], n, gid)],
                      Document(gid, Holds(B, ds1[i], n), ds1[i].depth - 1))
      /\ st2 = Append([st1 EXCEPT ![L] = Suspend(st1[L], frame.todo \ (passed \cup {n}),
                                                 RefusedIn(B, ds1, ds1[i], passed))],
                      Frame(Len(ds1) + 1))
  BY <1>1, <1>2, ReplacedTwice DEF Descended
<1>4. passed \subseteq frame.todo /\ n \notin passed /\ OpenIn(B, ds1, doc, passed) = {}
  <2>1. frame.todo \subseteq NodeId /\ n \in frame.todo
    BY <1>1 DEF Descended, LoopFrame, OpenIn
  <2>2. \A m \in NodeId : Rank[m] \in Int
    BY IdsAssumption DEF NodeIdAssumption
  <2>3. ASSUME NEW m \in OpenIn(B, ds1, doc, passed) PROVE FALSE
    <3>1. m \in OpenIn(B, ds1, doc, frame.todo) /\ m \in passed
      BY <2>3 DEF OpenIn
    <3>2. Rank[n] <= Rank[m] /\ Rank[m] < Rank[n] /\ m \in NodeId
      BY <3>1, <2>1 DEF Descended
    <3>3. QED
      BY <3>2, <2>1, <2>2
  <2>4. n \notin passed
    BY <2>1, <2>2
  <2>5. QED
    BY <2>3, <2>4
<1>5. PICK N, todo, child, R : Descent(B, ds1, st1, N, L, i, todo, n, passed, gid, child, R,
                                      ds2, st2)
                               /\ child = Holds(B, doc, n) /\ R = RefusedIn(B, ds1, doc, passed)
  <2>1. Descent(B, ds1, st1, Len(ds1), L, i, frame.todo, n, passed, gid, Holds(B, doc, n),
                RefusedIn(B, ds1, doc, passed), ds2, st2)
    BY <1>1, <1>3, <1>4 DEF Descent, Descended
  <2>2. QED
    BY <2>1
<1> HIDE DEF passed
<1>6. /\ LoopInv(B, ds2, st2, NoResult, AwaitPoint) /\ st2 # << >>
      /\ Ids(ds2) = Ids(ds1) \cup {gid}
      /\ \A j \in DOMAIN ds1 : ds2[j].state = ds1[j].state
      /\ Reached(ds1, st1, NoResult, N, L, i, n, gid, child, R, ds2, st2)
  <2>1. LoopInv(B, ds1, st1, NoResult, {"looping"}) /\ st1 # << >>
    BY <1>1, <1>2
  <2>2. QED
    BY <2>1, <1>5, DescendLoop
<1>7. ClaimsIn(B, ds, ds2)
  <2>1. ASSUME NEW j \in DOMAIN ds, ds2[j].state = "closed" PROVE ds[j].state = "closed"
    <3>1. ds1[j].state = "closed"
      BY <2>1, <1>1, <1>6
    <3>2. j # i
      BY <3>1, <1>1
    <3>3. QED
      BY <3>1, <3>2, <1>1
  <2>2. QED
    BY <2>1 DEF ClaimsIn
<1>8. Materializes(B, ds1, st1, doc, frame, ds2, st2)
  <2>1. Len(st1) = L /\ frame.doc = i /\ passed \subseteq frame.todo
        /\ n \in OpenIn(B, ds1, doc, frame.todo) /\ gid = DerivedId(doc.id, n)
    BY <1>1, <1>4 DEF Descended
  <2>2. QED
    BY <2>1, <1>5, <1>6 DEF Materializes
<1>9. QED
  BY <1>2, <1>6, <1>7, <1>8

\* What Close makes of ds, and the result it resolves to.
Closes(B, ds, i, doc, frame, ds1, ds2, res) ==
  /\ OpenIn(B, ds1, doc, frame.todo) = {}
  /\ ds2 = [ds EXCEPT ![i] = ClosedDoc(B, doc)]
  /\ res = [graphs |-> {i} \cup frame.descendants,
            gaps   |-> frame.gaps \cup RefusedIn(B, ds1, doc, frame.todo)]

LEMMA ProceedClose ==
  ASSUME NEW B, B \in [Graph -> Builder], NEW ds, NEW st, NEW L, NEW i, NEW doc, NEW frame,
         NEW ds1, NEW st1, Entered(B, ds, st, L, i, doc, frame, ds1, st1),
         NEW ds2, NEW res, Closes(B, ds, i, doc, frame, ds1, ds2, res)
  PROVE  /\ Closing(B, ds1, st1, NoResult, i, L, ds2, res)
         /\ Ids(ds2) = Ids(ds) /\ ClaimsIn(B, ds, ds2)
         /\ ClosedIn(ds1, i, ds2) /\ ds1[i] = doc /\ st1[L] = frame
<1>0. InLoop(B, ds, st, L, i, doc, frame, ds1, st1)
  BY EnteredFacts
<1>1. /\ DOMAIN ds1 = DOMAIN ds /\ i \in DOMAIN ds /\ Len(st1) = L /\ L > 0
      /\ ds1[i] = doc /\ st1[L] = frame /\ frame.doc = i
      /\ \A j \in DOMAIN ds : j # i => ds1[j] = ds[j]
      /\ doc \in DocumentType /\ doc.state = "built" /\ DocInv(B, ds1, doc)
  BY <1>0 DEF InLoop
<1>2. ds1 = [ds EXCEPT ![i] = doc]
      /\ LoopInv(B, ds1, st1, NoResult, {"looping"}) /\ Ids(ds1) = Ids(ds)
      /\ (doc.depth > 0 \/ doc.edges = EdgeDocuments(B[doc.obj]))
  BY SMTT(60) DEF Entered
<1>3. ds2 = [ds1 EXCEPT ![i] = ClosedDoc(B, ds1[i])]
  BY <1>1, <1>2, ReplacedTwice, ZenonT(60) DEF Closes
<1>4. Closing(B, ds1, st1, NoResult, i, L, ds2, res)
  BY <1>1, <1>2, <1>3 DEF Closing, Closes
<1>5. ClosedIn(ds1, i, ds2)
  <2>1. Closed(B, ds1, st1, NoResult, i, L, ds2, res)
    BY <1>4, ClosingFacts
  <2>2. QED
    BY <2>1 DEF Closed
<1>6. Ids(ds2) = Ids(ds)
  BY <1>2, <1>5, ClosedIds
<1>7. ClaimsIn(B, ds, ds2)
  <2>1. ASSUME NEW j \in DOMAIN ds, j # i PROVE ds2[j] = ds[j]
    BY <2>1, <1>1, <1>5 DEF ClosedIn
  <2>2. PICK x : x = ClosedDoc(B, doc)
    OBVIOUS
  <2>3. ds2[i] = x
    <3>1. ds1 \in Seq(DocumentType)
      BY <1>2 DEF LoopInv, Shapes
    <3>2. QED
      BY <3>1, <2>2, <1>1, <1>3
  <2>4. ASSUME NEW n \in NodeId, x.branch[n] = "all-declared"
        PROVE  /\ {e \in x.edges : e.source = n} = {e \in EdgeDocuments(B[x.obj]) : e.source = n}
               /\ n \notin Dynamic(B[x.obj])
    BY <2>2, <2>4, <1>1, <1>2, ClosedClaims
  <2>5. QED
    BY <2>1, <2>3, <2>4 DEF ClaimsIn
<1>8. QED
  BY <1>1, <1>4, <1>5, <1>6, <1>7

\* The calls below the innermost one are those the step found.
LEMMA BelowUntouched ==
  ASSUME NEW S, NEW st, st \in Seq(S), NEW L, L = Len(st), L > 1, NEW e \in S,
         NEW st1, st1 = [st EXCEPT ![L] = e]
  PROVE  SubSeq(st1, 1, L - 1) = SubSeq(st, 1, L - 1) /\ st1[L - 1] = st[L - 1]
<1>1. L \in Nat /\ DOMAIN st = 1..L /\ L \in DOMAIN st /\ L - 1 \in DOMAIN st
  BY LenProperties
<1>2. st1 \in Seq(S) /\ Len(st1) = L /\ \A j \in DOMAIN st : st1[j] = IF j = L THEN e ELSE st[j]
  BY <1>1, ReplaceElements
<1>3. \A j \in 1..(L - 1) : st1[j] = st[j]
  BY <1>1, <1>2
<1>4. SubSeq(st, 1, L - 1) = [j \in 1..(L - 1) |-> st[j]]
      /\ SubSeq(st1, 1, L - 1) = [j \in 1..(L - 1) |-> st1[j]]
  <2>1. ASSUME NEW s, s \in Seq(S), Len(s) = L
        PROVE  SubSeq(s, 1, L - 1) = [j \in 1..(L - 1) |-> s[j]]
    <3>1. 1 \in 1..Len(s) + 1 /\ L - 1 \in 0..Len(s) /\ 1 <= L - 1 + 1
      BY <2>1, <1>1
    <3>2. /\ SubSeq(s, 1, L - 1) \in Seq(S)
          /\ Len(SubSeq(s, 1, L - 1)) = IF 1 <= L - 1 THEN (L - 1) - 1 + 1 ELSE 0
          /\ \A k \in 1..((L - 1) - 1 + 1) : SubSeq(s, 1, L - 1)[k] = s[1 + k - 1]
      BY <2>1, <3>1, SubSeqProperties
    <3>3. 1 <= L - 1 /\ (L - 1) - 1 + 1 = L - 1 /\ \A k \in 1..(L - 1) : 1 + k - 1 = k
      BY <1>1
    <3>4. /\ Len(SubSeq(s, 1, L - 1)) = L - 1
          /\ \A k \in 1..(L - 1) : SubSeq(s, 1, L - 1)[k] = s[k]
      BY <3>2, <3>3
    <3>5. PICK p : p = SubSeq(s, 1, L - 1)
      OBVIOUS
    <3>6. p \in Seq(S) /\ Len(p) = L - 1
      BY <3>2, <3>4, <3>5
    <3>7. p \in [1..(L - 1) -> S]
      BY <3>6, LenProperties
    <3>8. \A k \in 1..(L - 1) : p[k] = s[k]
      BY <3>4, <3>5
    <3>9. p = [j \in 1..(L - 1) |-> s[j]]
      BY <3>7, <3>8
    <3>10. QED
      BY <3>5, <3>9
  <2>2. QED
    BY <2>1, <1>2
<1>5. QED
  BY <1>1, <1>3, <1>4

-------------------------------------------------------------------------------
(* What the contract sees of one caller: its graphs, the references between   *)
(* them and the children it refused.                                          *)

SameView(ds, st, out, ds1, st1, out1) ==
  /\ GraphsOf(ds1) = GraphsOf(ds) /\ RefsOf(ds1) = RefsOf(ds)
  /\ RefusedOf(Found(st1, out1)) = RefusedOf(Found(st, out))

LEMMA RefusedUnion ==
  /\ \A G, H : RefusedOf(G \cup H) = RefusedOf(G) \cup RefusedOf(H)
  /\ \A st, out, r : r \in RefusedOf(Found(st, out)) <=>
       \/ r \in RefusedOf(out.gaps)
       \/ \E k \in DOMAIN st : r \in RefusedOf(st[k].gaps \cup st[k].result.gaps)
<1>1. \A G, r : r \in RefusedOf(G) <=>
        \E g \in G : g.code = "child-graph-id-collision" /\ r = [graph |-> g.graph, node |-> g.node]
  BY DEF RefusedOf
<1>2. \A G, H : RefusedOf(G \cup H) = RefusedOf(G) \cup RefusedOf(H)
  <2> SUFFICES ASSUME NEW G, NEW H, NEW r
               PROVE  r \in RefusedOf(G \cup H) <=> r \in RefusedOf(G) \/ r \in RefusedOf(H)
    BY <1>1 DEF RefusedOf
  <2> QED BY <1>1
<1>3. ASSUME NEW st, NEW out, NEW r
      PROVE  r \in RefusedOf(Found(st, out)) <=>
               \/ r \in RefusedOf(out.gaps)
               \/ \E k \in DOMAIN st : r \in RefusedOf(st[k].gaps \cup st[k].result.gaps)
  <2>1. \A g : g \in Found(st, out) <=>
          g \in out.gaps \/ \E k \in DOMAIN st : g \in st[k].gaps \cup st[k].result.gaps
    BY DEF Found
  <2>2. PICK F, O, P : /\ F = Found(st, out) /\ O = out.gaps
                       /\ P = [k \in DOMAIN st |-> st[k].gaps \cup st[k].result.gaps]
    OBVIOUS
  <2>3. \A g : g \in F <=> g \in O \/ \E k \in DOMAIN st : g \in P[k]
    BY <2>1, <2>2
  <2>4. r \in RefusedOf(F) <=>
          r \in RefusedOf(O) \/ \E k \in DOMAIN st : r \in RefusedOf(P[k])
    BY <1>1, <2>3
  <2>5. QED
    BY <2>2, <2>4
<1>4. QED
  BY <1>2, <1>3

\* A graph or a call that keeps what the contract sees of it.
LEMMA SameGraphs ==
  ASSUME NEW ds, NEW ds1, DOMAIN ds1 = DOMAIN ds,
         \A j \in DOMAIN ds :
           /\ ds1[j].id = ds[j].id /\ ds1[j].obj = ds[j].obj /\ ds1[j].depth = ds[j].depth
           /\ ds1[j].sub = ds[j].sub
  PROVE  GraphsOf(ds1) = GraphsOf(ds) /\ RefsOf(ds1) = RefsOf(ds)
<1>1. \A j \in DOMAIN ds : GraphOf(ds1[j]) = GraphOf(ds[j])
  BY DEF GraphOf
<1>2. GraphsOf(ds1) = GraphsOf(ds)
  BY <1>1 DEF GraphsOf
<1>3. QED
  BY <1>2 DEF RefsOf

LEMMA SameViewAt ==
  ASSUME NEW ds, NEW st, NEW out, ds \in Seq(DocumentType), NEW I, st \in Seq(LoopFrame(I)),
         NEW i \in DOMAIN ds, NEW L \in DOMAIN st, NEW x, NEW f,
         x.id = ds[i].id /\ x.obj = ds[i].obj /\ x.depth = ds[i].depth /\ x.sub = ds[i].sub,
         RefusedOf(f.gaps \cup f.result.gaps) = RefusedOf(st[L].gaps \cup st[L].result.gaps),
         NEW ds1, ds1 = [ds EXCEPT ![i] = x], NEW st1, st1 = [st EXCEPT ![L] = f]
  PROVE  SameView(ds, st, out, ds1, st1, out)
<1>1. DOMAIN ds1 = DOMAIN ds /\ \A j \in DOMAIN ds : ds1[j] = IF j = i THEN x ELSE ds[j]
  OBVIOUS
<1>2. DOMAIN st1 = DOMAIN st /\ \A k \in DOMAIN st : st1[k] = IF k = L THEN f ELSE st[k]
  OBVIOUS
<1>3. GraphsOf(ds1) = GraphsOf(ds) /\ RefsOf(ds1) = RefsOf(ds)
  BY <1>1, SameGraphs
<1>4. \A k \in DOMAIN st : RefusedOf(st1[k].gaps \cup st1[k].result.gaps)
                             = RefusedOf(st[k].gaps \cup st[k].result.gaps)
  BY <1>2
<1>5. \A r : r \in RefusedOf(Found(st1, out)) <=> r \in RefusedOf(Found(st, out))
  BY <1>2, <1>4, RefusedUnion, ZenonT(60)
<1>6. RefusedOf(Found(st1, out)) = RefusedOf(Found(st, out))
  BY <1>5 DEF RefusedOf
<1>7. QED
  BY <1>3, <1>6 DEF SameView

-------------------------------------------------------------------------------
(* The steps.                                                               *)

Arrays ==
  /\ DOMAIN phase = Caller /\ DOMAIN docs = Caller /\ DOMAIN stack = Caller
  /\ DOMAIN assigned = Caller /\ DOMAIN output = Caller

\* A caller after its step.
Stepped(c) ==
  /\ CallerInv(builders, phase'[c], docs'[c], stack'[c], output'[c])
  /\ assigned'[c] = Ids(docs'[c]) /\ ClaimsIn(builders, docs[c], docs'[c])

\* A caller whose step has got its graph doc and its frame to the loop.
Looping(c, L, i, doc, frame, ds1, st1) ==
  /\ Arrays /\ builders \in [Graph -> Builder]
  /\ phase[c] = "extracting" /\ output[c] = NoResult /\ assigned[c] = Ids(docs[c])
  /\ DocsInv(builders, docs[c])
  /\ Entered(builders, docs[c], stack[c], L, i, doc, frame, ds1, st1)

LEMMA LoopReads ==
  ASSUME NEW c \in Caller, NEW ds1, assigned[c] = Ids(ds1), NEW doc, NEW todo
  PROVE  /\ Open(c, doc, todo) = OpenIn(builders, ds1, doc, todo)
         /\ Refused(c, doc, todo) = RefusedIn(builders, ds1, doc, todo)
         /\ \A n : Child(doc, n) = Holds(builders, doc, n)
BY DEF Open, OpenIn, Refused, RefusedIn, Child, Holds, Taken

LEMMA DescendStep ==
  ASSUME NEW c \in Caller, NEW L, NEW i, NEW doc, NEW frame, NEW ds1, NEW st1,
         Looping(c, L, i, doc, frame, ds1, st1),
         NEW n, n \in Open(c, doc, frame.todo),
         \A m \in Open(c, doc, frame.todo) : Rank[n] <= Rank[m],
         Descend(c, doc, frame, n)
  PROVE  /\ Stepped(c)
         /\ Materializes(builders, ds1, st1, doc, frame, docs'[c], stack'[c])
         /\ phase'[c] = "extracting" /\ output'[c] = NoResult
<1>1. PICK B, ds, st, ds2, st2, gid :
        /\ B = builders /\ ds = docs[c] /\ st = stack[c]
        /\ ds2 = docs'[c] /\ st2 = stack'[c] /\ gid = DerivedId(doc.id, n)
  OBVIOUS
<1>2. /\ B \in [Graph -> Builder] /\ Entered(B, ds, st, L, i, doc, frame, ds1, st1)
      /\ Arrays /\ phase[c] = "extracting" /\ output[c] = NoResult /\ assigned[c] = Ids(ds)
  BY <1>1 DEF Looping
<1>3. L = Len(st) /\ i = frame.doc /\ Ids(ds1) = Ids(ds)
  BY <1>2 DEF Entered
<1>4. /\ Open(c, doc, frame.todo) = OpenIn(B, ds1, doc, frame.todo)
      /\ \A todo : Refused(c, doc, todo) = RefusedIn(B, ds1, doc, todo)
      /\ Child(doc, n) = Holds(B, doc, n)
  BY <1>1, <1>2, <1>3, LoopReads, SMTT(60)
<1>5. docs'[c] = Append([docs[c] EXCEPT ![frame.doc] = [doc EXCEPT !.sub[n] = gid]],
                        Document(gid, Child(doc, n), doc.depth - 1))
  BY <1>1, <1>2, ZenonT(60) DEF Descend, Arrays
<1>6. stack'[c] = Append([stack[c] EXCEPT ![Len(stack[c])] =
          [frame EXCEPT !.pc = "awaiting",
             !.todo = @ \ ({m \in frame.todo : Rank[m] < Rank[n]} \cup {n}),
             !.gaps = @ \cup Refused(c, doc, {m \in frame.todo : Rank[m] < Rank[n]})]],
          Frame(Len(docs[c]) + 1))
  BY <1>2, ZenonT(60) DEF Descend, Arrays
<1>7. Descended(B, ds, st, L, i, doc, frame, ds1, n, gid, ds2, st2)
  <2>1. n \in OpenIn(B, ds1, doc, frame.todo)
        /\ \A m \in OpenIn(B, ds1, doc, frame.todo) : Rank[n] <= Rank[m]
    BY <1>4
  <2>2. ds2 = Append([ds EXCEPT ![i] = Marked(doc, n, gid)],
                     Document(gid, Holds(B, doc, n), doc.depth - 1))
    BY <1>1, <1>3, <1>4, <1>5, SMTT(60) DEF Marked
  <2>3. st2 = Append([st EXCEPT ![L] =
                Suspend(frame, frame.todo \ ({m \in frame.todo : Rank[m] < Rank[n]} \cup {n}),
                        RefusedIn(B, ds1, doc, {m \in frame.todo : Rank[m] < Rank[n]}))],
              Frame(Len(ds) + 1))
    BY <1>1, <1>3, <1>4, <1>6, ZenonT(60) DEF Suspend
  <2>4. gid = DerivedId(doc.id, n)
    BY <1>1
  <2>5. QED
    BY <2>1, <2>2, <2>3, <2>4 DEF Descended
<1>8. /\ LoopInv(B, ds2, st2, NoResult, AwaitPoint) /\ st2 # << >>
      /\ Ids(ds2) = Ids(ds) \cup {gid} /\ ClaimsIn(B, ds, ds2)
      /\ Materializes(B, ds1, st1, doc, frame, ds2, st2)
  BY <1>2, <1>7, ProceedDescend, SMTT(60)
<1>9. /\ phase'[c] = "extracting" /\ output'[c] = NoResult
      /\ assigned'[c] = assigned[c] \cup {gid}
  BY <1>1, <1>2, ZenonT(60) DEF Descend, Arrays
<1>10. CallerInv(B, "extracting", ds2, st2, NoResult)
  BY <1>8 DEF CallerInv
<1>11. Stepped(c)
  BY <1>1, <1>2, <1>8, <1>9, <1>10 DEF Stepped
<1>12. QED
  BY <1>1, <1>8, <1>9, <1>11

\* The nodes a loop passed to its end.
Refuses(B, ds1, st1, doc, frame, ds2, st2, out2) ==
  /\ ClosedIn(ds1, frame.doc, ds2)
  /\ Found(st2, out2) = Found(st1, NoResult) \cup RefusedIn(B, ds1, doc, frame.todo)
  /\ \A k \in DOMAIN st2 : st2[k].pc # "drawing"

LEMMA CloseStep ==
  ASSUME NEW c \in Caller, NEW L, NEW i, NEW doc, NEW frame, NEW ds1, NEW st1,
         Looping(c, L, i, doc, frame, ds1, st1),
         Open(c, doc, frame.todo) = {}, Close(c, doc, frame)
  PROVE  /\ Stepped(c)
         /\ Refuses(builders, ds1, st1, doc, frame, docs'[c], stack'[c], output'[c])
         /\ phase'[c] \in {"extracting", "extracted"}
<1>1. PICK B, ds, st, ds2, res :
        /\ B = builders /\ ds = docs[c] /\ st = stack[c] /\ ds2 = docs'[c]
        /\ res = [graphs |-> {frame.doc} \cup frame.descendants,
                  gaps   |-> frame.gaps \cup Refused(c, doc, frame.todo)]
  OBVIOUS
<1>2. /\ B \in [Graph -> Builder] /\ Entered(B, ds, st, L, i, doc, frame, ds1, st1)
      /\ Arrays /\ phase[c] = "extracting" /\ output[c] = NoResult /\ assigned[c] = Ids(ds)
  BY <1>1 DEF Looping
<1>3. L = Len(st) /\ L > 0 /\ i = frame.doc /\ Ids(ds1) = Ids(ds) /\ Shapes(ds, st, NoResult)
  BY <1>2 DEF Entered
<1>4. /\ Open(c, doc, frame.todo) = OpenIn(B, ds1, doc, frame.todo)
      /\ Refused(c, doc, frame.todo) = RefusedIn(B, ds1, doc, frame.todo)
  BY <1>1, <1>2, <1>3, LoopReads
<1>5. docs'[c] = [docs[c] EXCEPT ![frame.doc] = ClosedDoc(builders, doc)]
  BY <1>2 DEF Close, Arrays, ClosedDoc
<1>6. Closes(B, ds, i, doc, frame, ds1, ds2, res)
  BY <1>1, <1>3, <1>4, <1>5 DEF Closes
<1>7. /\ Closing(B, ds1, st1, NoResult, i, L, ds2, res)
      /\ Ids(ds2) = Ids(ds) /\ ClaimsIn(B, ds, ds2)
      /\ ClosedIn(ds1, i, ds2) /\ ds1[i] = doc /\ st1[L] = frame
  BY <1>2, <1>6, ProceedClose
<1>0. L \in Nat
  <2>1. InLoop(B, ds, st, L, i, doc, frame, ds1, st1)
    BY <1>2, EnteredFacts
  <2>2. QED
    BY <2>1 DEF InLoop
<1>8. assigned'[c] = assigned[c]
  BY DEF Close
<1>9. CASE L = 1
  <2>1. phase'[c] = "extracted" /\ stack'[c] = << >> /\ output'[c] = res
    BY <1>1, <1>2, <1>3, <1>9 DEF Close, Arrays
  <2>2. /\ LoopInv(B, ds2, << >>, res, AwaitPoint)
        /\ Found(<< >>, res) = Found(st1, NoResult) \cup RefusedIn(B, ds1, ds1[i], st1[L].todo)
    BY <1>2, <1>7, <1>9, CloseOuter
  <2>3. CallerInv(B, "extracted", ds2, << >>, res)
    BY <2>2 DEF CallerInv
  <2>4. Stepped(c)
    BY <1>1, <1>2, <1>7, <1>8, <2>1, <2>3 DEF Stepped
  <2>5. Refuses(B, ds1, st1, doc, frame, ds2, << >>, res)
    BY <1>3, <1>7, <2>2, EmptySeq DEF Refuses
  <2>6. QED
    BY <1>1, <2>1, <2>4, <2>5
<1>10. CASE L > 1
  <2>1. PICK st2 : st2 = stack'[c]
    OBVIOUS
  <2>0. Len(stack[c]) - 1 # 0
    <3>1. L - 1 # 0
      BY <1>0, <1>10
    <3>2. Len(stack[c]) = L
      BY <1>1, <1>3
    <3>3. QED
      BY <3>1, <3>2
  <2>2. phase'[c] = "extracting" /\ output'[c] = NoResult
    BY <2>0, <1>2 DEF Close
  <2>3. stack'[c] = [SubSeq(stack[c], 1, Len(stack[c]) - 1) EXCEPT
          ![Len(stack[c]) - 1] = Resolve(stack[c][Len(stack[c]) - 1], res)]
    <3>1. stack' = [stack EXCEPT ![c] = [SubSeq(@, 1, Len(stack[c]) - 1) EXCEPT
            ![Len(stack[c]) - 1] = Resolve(stack[c][Len(stack[c]) - 1],
              [graphs |-> {frame.doc} \cup frame.descendants,
               gaps   |-> frame.gaps \cup Refused(c, doc, frame.todo)])]]
      BY <2>0 DEF Close, Resolve
    <3>2. stack' = [stack EXCEPT ![c] = [SubSeq(@, 1, Len(stack[c]) - 1) EXCEPT
            ![Len(stack[c]) - 1] = Resolve(stack[c][Len(stack[c]) - 1], res)]]
      BY <3>1, <1>1
    <3>3. QED
      BY <3>2, <1>2 DEF Arrays
  <2>4. L \in Nat /\ st \in Seq(LoopFrame(DOMAIN ds)) /\ frame \in LoopFrame(DOMAIN ds)
        /\ st1 = [st EXCEPT ![L] = frame]
    <3>1. InLoop(B, ds, st, L, i, doc, frame, ds1, st1)
      BY <1>2, EnteredFacts
    <3>2. QED
      BY <3>1, <1>2, <1>3 DEF InLoop, Shapes, Entered
  <2>5. /\ SubSeq(st1, 1, L - 1) = SubSeq(st, 1, L - 1) /\ st1[L - 1] = st[L - 1]
    BY <2>4, <1>3, <1>10, BelowUntouched
  <2>7. Pops(st1, L, res, st2)
    <3>1. st2 = [SubSeq(st, 1, L - 1) EXCEPT ![L - 1] = Resolve(st[L - 1], res)]
      BY <1>1, <1>3, <2>1, <2>3
    <3>2. QED
      BY <3>1, <2>5 DEF Pops
  <2>8. /\ LoopInv(B, ds2, st2, NoResult, AwaitPoint) /\ st2 # << >>
        /\ Found(st2, NoResult) = Found(st1, NoResult) \cup RefusedIn(B, ds1, ds1[i], st1[L].todo)
        /\ \A k \in DOMAIN st2 : st2[k].pc # "drawing"
    <3>1. /\ B \in [Graph -> Builder] /\ Closing(B, ds1, st1, NoResult, i, L, ds2, res)
          /\ L > 1 /\ Pops(st1, L, res, st2)
      BY <1>2, <1>7, <1>10, <2>7
    <3>2. QED
      BY <3>1, CloseInner
  <2>9. CallerInv(B, "extracting", ds2, st2, NoResult)
    BY <2>8 DEF CallerInv
  <2>10. Stepped(c)
    BY <1>1, <1>2, <1>7, <1>8, <2>1, <2>2, <2>9 DEF Stepped
  <2>11. Refuses(B, ds1, st1, doc, frame, ds2, st2, NoResult)
    BY <1>3, <1>7, <2>8 DEF Refuses
  <2>12. QED
    BY <1>1, <2>1, <2>2, <2>10, <2>11
<1>11. QED
  BY <1>3, <1>9, <1>10, <1>0

\* A caller whose innermost call has reached its await.
Awaiting(c) ==
  /\ Arrays /\ builders \in [Graph -> Builder]
  /\ phase[c] = "extracting" /\ assigned[c] = Ids(docs[c])
  /\ CallerInv(builders, phase[c], docs[c], stack[c], output[c])

LEMMA AwaitingFacts ==
  ASSUME NEW c \in Caller, Awaiting(c)
  PROVE  /\ LoopInv(builders, docs[c], stack[c], NoResult, AwaitPoint) /\ output[c] = NoResult
         /\ Shapes(docs[c], stack[c], NoResult) /\ DocsInv(builders, docs[c])
         /\ Len(stack[c]) \in Nat /\ Len(stack[c]) > 0
         /\ Len(stack[c]) \in DOMAIN stack[c]
         /\ Top(c).doc \in DOMAIN docs[c]
         /\ TopDoc(c) \in DocumentType /\ Top(c) \in LoopFrame(DOMAIN docs[c])
<1>1. /\ LoopInv(builders, docs[c], stack[c], NoResult, AwaitPoint) /\ output[c] = NoResult
      /\ stack[c] # << >>
  BY DEF Awaiting, CallerInv
<1>2. Shapes(docs[c], stack[c], NoResult) /\ DocsInv(builders, docs[c])
  BY <1>1 DEF LoopInv
<1>3. /\ Len(stack[c]) \in Nat /\ Len(stack[c]) \in DOMAIN stack[c]
      /\ DOMAIN stack[c] = 1..Len(stack[c])
      /\ Top(c).doc \in DOMAIN docs[c]
      /\ TopDoc(c) \in DocumentType /\ Top(c) \in LoopFrame(DOMAIN docs[c])
  BY <1>1, <1>2, Elements DEF Top, TopDoc
<1>4. Len(stack[c]) > 0
  BY <1>3
<1>5. QED
  BY <1>1, <1>2, <1>3, <1>4

LEMMA ThrowStep ==
  ASSUME NEW c \in Caller, Awaiting(c), Throw(c)
  PROVE  Stepped(c)
<1>1. /\ Shapes(docs[c], stack[c], NoResult) /\ DocsInv(builders, docs[c])
      /\ output[c] = NoResult /\ assigned[c] = Ids(docs[c])
  BY AwaitingFacts DEF Awaiting
<1>2. /\ phase'[c] = "raised" /\ stack'[c] = << >> /\ docs'[c] = docs[c]
      /\ assigned'[c] = assigned[c] /\ output'[c] = output[c]
  BY DEF Throw, Awaiting, Arrays
<1>3. Shapes(docs[c], << >>, NoResult)
  BY <1>1, EmptySeq DEF Shapes
<1>4. CallerInv(builders, "raised", docs[c], << >>, NoResult)
  BY <1>1, <1>3 DEF CallerInv
<1>5. ClaimsIn(builders, docs[c], docs[c])
  BY DEF ClaimsIn
<1>6. QED
  BY <1>1, <1>2, <1>4, <1>5 DEF Stepped

LEMMA ProceedStep ==
  ASSUME NEW c \in Caller, Awaiting(c),
         NEW L, NEW i, NEW doc, NEW frame, NEW ds1, NEW st1,
         Looping(c, L, i, doc, frame, ds1, st1), Proceed(c, doc, frame)
  PROVE  Stepped(c)
<1>1. CASE \E n \in Open(c, doc, frame.todo) :
             /\ \A m \in Open(c, doc, frame.todo) : Rank[n] <= Rank[m]
             /\ Descend(c, doc, frame, n)
  BY <1>1, DescendStep
<1>2. CASE Open(c, doc, frame.todo) = {} /\ Close(c, doc, frame)
  BY <1>2, CloseStep
<1>3. CASE Throw(c)
  BY <1>3, ThrowStep
<1>4. QED
  BY <1>1, <1>2, <1>3 DEF Proceed

LEMMA DrawStep ==
  ASSUME NEW c \in Caller, Awaiting(c), Draw(c)
  PROVE  Stepped(c)
<1>1. PICK B, ds, st, L, i, x, f, ds1, st1 :
        /\ B = builders /\ ds = docs[c] /\ st = stack[c] /\ L = Len(stack[c])
        /\ i = Top(c).doc /\ x = DrawnDoc(builders, TopDoc(c)) /\ f = Drawn(Top(c))
        /\ ds1 = docs'[c] /\ st1 = stack'[c]
  BY ZenonT(60)
<1>2. /\ LoopInv(B, ds, st, NoResult, AwaitPoint) /\ L > 0 /\ output[c] = NoResult
      /\ i \in DOMAIN ds /\ L \in DOMAIN st
      /\ Arrays /\ B \in [Graph -> Builder] /\ assigned[c] = Ids(ds)
  BY <1>1, AwaitingFacts DEF Awaiting
<1>3. Top(c) = st[L] /\ TopDoc(c) = ds[i] /\ st[L].pc = "drawing"
  BY <1>1, ZenonT(60) DEF Top, TopDoc, Draw, Running
<1>4. ds1 = [ds EXCEPT ![i] = x]
  <2>1. docs' = [docs EXCEPT ![c] = [docs[c] EXCEPT ![Top(c).doc] =
                   [docs[c][Top(c).doc] EXCEPT !.drawable = Drawable(builders[TopDoc(c).obj])]]]
    BY DEF Draw
  <2>2. x = [docs[c][Top(c).doc] EXCEPT !.drawable = Drawable(builders[TopDoc(c).obj])]
    BY <1>1 DEF DrawnDoc, TopDoc
  <2>3. docs' = [docs EXCEPT ![c] = [docs[c] EXCEPT ![Top(c).doc] = x]]
    BY <2>1, <2>2
  <2>4. QED
    BY <2>3, <1>1, <1>2 DEF Arrays
<1>5. st1 = [st EXCEPT ![L] = f]
  <2>1. stack' = [stack EXCEPT ![c] = [stack[c] EXCEPT ![Len(stack[c])] =
                   [stack[c][Len(stack[c])] EXCEPT !.pc = "drawn"]]]
    BY DEF Draw
  <2>2. f = [stack[c][Len(stack[c])] EXCEPT !.pc = "drawn"]
    BY <1>1 DEF Drawn, Top
  <2>3. stack' = [stack EXCEPT ![c] = [stack[c] EXCEPT ![Len(stack[c])] = f]]
    BY <2>1, <2>2
  <2>4. QED
    BY <2>3, <1>1, <1>2 DEF Arrays
<1>6. GoesOn(B, ds, st, NoResult, L, i, "drawing", x, f, ds1, st1)
  BY <1>1, <1>2, <1>3, <1>4, <1>5 DEF GoesOn
<1>7. /\ LoopInv(B, ds1, st1, NoResult, AwaitPoint) /\ st1 # << >>
      /\ Ids(ds1) = Ids(ds) /\ \A j \in DOMAIN ds : ds1[j].state = ds[j].state
  <2>1. Draws(B, ds, st, NoResult, L, i, x, f, ds1, st1)
    BY <1>1, <1>2, <1>3, <1>6 DEF Draws
  <2>2. Onward(B, ds, ds1, st1, NoResult)
    BY <2>1, DrawLoop
  <2>3. QED
    BY <2>2 DEF Onward
<1>8. phase'[c] = "extracting" /\ output'[c] = NoResult /\ assigned'[c] = assigned[c]
  BY <1>2 DEF Draw, Awaiting
<1>9. CallerInv(B, "extracting", ds1, st1, NoResult)
  BY <1>7 DEF CallerInv
<1>10. ClaimsIn(B, ds, ds1)
  BY <1>7 DEF ClaimsIn
<1>11. QED
  BY <1>1, <1>2, <1>7, <1>8, <1>9, <1>10 DEF Stepped

\* Build and Resume bring the innermost call to its loop; what the contract sees
\* and what is drawn stays as it is until the loop goes on.
Loops(c, L, i, doc, frame, ds1, st1) ==
  /\ Looping(c, L, i, doc, frame, ds1, st1)
  /\ SameView(docs[c], stack[c], NoResult, ds1, st1, NoResult)
  /\ \A j \in DOMAIN docs[c] : /\ ds1[j].drawable = docs[c][j].drawable
                               /\ ds1[j].obj = docs[c][j].obj
  /\ Top(c).pc # "drawing"
  /\ \/ Throw(c) /\ StructureThrows(builders[doc.obj])
     \/ Proceed(c, doc, frame) /\ (Top(c).pc = "drawn" => ~StructureThrows(builders[doc.obj]))

LEMMA BuildLoops ==
  ASSUME NEW c \in Caller, Awaiting(c), Build(c)
  PROVE  \E L, i, doc, frame, ds1, st1 : Loops(c, L, i, doc, frame, ds1, st1)
<1>1. PICK B, ds, st, L, i, x, f, ds1, st1 :
        /\ B = builders /\ ds = docs[c] /\ st = stack[c] /\ L = Len(stack[c])
        /\ i = Top(c).doc /\ x = BuiltDoc(builders, TopDoc(c))
        /\ f = Started(builders, TopDoc(c), Top(c))
        /\ ds1 = [docs[c] EXCEPT ![Top(c).doc] = x]
        /\ st1 = [stack[c] EXCEPT ![Len(stack[c])] = f]
  BY ZenonT(60)
<1>2. /\ LoopInv(B, ds, st, NoResult, AwaitPoint) /\ L > 0 /\ output[c] = NoResult
      /\ Shapes(ds, st, NoResult) /\ DocsInv(B, ds)
      /\ i \in DOMAIN ds /\ L \in DOMAIN st
      /\ Arrays /\ B \in [Graph -> Builder] /\ assigned[c] = Ids(ds) /\ phase[c] = "extracting"
      /\ TopDoc(c) \in DocumentType /\ Top(c) \in LoopFrame(DOMAIN ds)
  BY <1>1, AwaitingFacts DEF Awaiting
<1>3. Top(c) = st[L] /\ TopDoc(c) = ds[i] /\ st[L].pc = "drawn"
  BY <1>1, ZenonT(60) DEF Top, TopDoc, Build, Running
<1>4. GoesOn(B, ds, st, NoResult, L, i, "drawn", x, f, ds1, st1)
  BY <1>1, <1>2, <1>3 DEF GoesOn
<1>5. x = BuiltDoc(B, ds[i]) /\ f = Started(B, ds[i], st[L])
  BY <1>1, <1>3
<1>6. LoopInv(B, ds1, st1, NoResult, {"looping"}) /\ Ids(ds1) = Ids(ds)
  BY <1>2, <1>4, <1>5, BuildLoop
<1>7. x.edges = EdgeDocuments(B[x.obj]) /\ f.doc = i
  <2>1. ds[i] \in DocumentType /\ st[L] \in LoopFrame(DOMAIN ds) /\ st[L].doc = i
    BY <1>1, <1>2, <1>3
  <2>2. QED
    BY <2>1, <1>2, <1>5, BuiltFields
<1>8. Looping(c, L, i, x, f, ds1, st1)
  <2>1. Entered(B, ds, st, L, i, x, f, ds1, st1)
    BY <1>1, <1>2, <1>3, <1>6, <1>7 DEF Entered
  <2>2. QED
    BY <2>1, <1>1, <1>2, SMTT(60) DEF Looping
<1>9. \/ Throw(c) /\ StructureThrows(builders[TopDoc(c).obj])
      \/ Proceed(c, x, f) /\ ~StructureThrows(builders[TopDoc(c).obj])
  BY <1>1 DEF Build, BuiltDoc, Started, RouterGap
<1>10. /\ x.id = ds[i].id /\ x.obj = ds[i].obj /\ x.depth = ds[i].depth /\ x.sub = ds[i].sub
       /\ x.drawable = ds[i].drawable /\ f.result = st[L].result
       /\ f.gaps = {RouterGap(ds[i].id, s) : s \in x.routers}
  <2>1. ds[i] \in DocumentType /\ st[L] \in LoopFrame(DOMAIN ds)
    BY <1>2, <1>3
  <2>2. QED
    BY <2>1, <1>2, <1>5, BuiltFields
<1>11. RefusedOf(f.gaps \cup f.result.gaps) = RefusedOf(st[L].gaps \cup st[L].result.gaps)
  <2>1. st[L].gaps = {}
    BY <1>2, <1>3 DEF LoopInv, FrameInv
  <2>2. RefusedOf(f.gaps) = {} /\ RefusedOf({}) = {}
    BY <1>10 DEF RefusedOf, RouterGap
  <2>3. PICK G, H, R : G = f.gaps /\ H = st[L].gaps /\ R = st[L].result.gaps
    OBVIOUS
  <2>4. RefusedOf(G \cup R) = RefusedOf(G) \cup RefusedOf(R)
        /\ RefusedOf(H \cup R) = RefusedOf(H) \cup RefusedOf(R)
    BY RefusedUnion
  <2>5. QED
    BY <2>1, <2>2, <2>3, <2>4, <1>10
<1>12. SameView(ds, st, NoResult, ds1, st1, NoResult)
  <2>1. ds \in Seq(DocumentType) /\ st \in Seq(LoopFrame(DOMAIN ds))
    BY <1>2 DEF Shapes
  <2>2. ds1 = [ds EXCEPT ![i] = x] /\ st1 = [st EXCEPT ![L] = f]
    BY <1>1
  <2>3. QED
    BY <2>1, <2>2, <1>2, <1>10, <1>11, SameViewAt
<1>13. \A j \in DOMAIN ds : ds1[j].drawable = ds[j].drawable /\ ds1[j].obj = ds[j].obj
  BY <1>1, <1>10, SMTT(60)
<1>14. Loops(c, L, i, x, f, ds1, st1)
  BY <1>1, <1>3, <1>8, <1>9, <1>10, <1>12, <1>13, ZenonT(60) DEF Loops
<1>15. QED
  BY <1>14

LEMMA ResumeLoops ==
  ASSUME NEW c \in Caller, Awaiting(c), Resume(c)
  PROVE  \E L, i, doc, frame, ds1, st1 : Loops(c, L, i, doc, frame, ds1, st1)
<1>1. PICK B, ds, st, L, i, x, f, ds1, st1 :
        /\ B = builders /\ ds = docs[c] /\ st = stack[c] /\ L = Len(stack[c])
        /\ i = Top(c).doc /\ x = TopDoc(c) /\ f = Resumed(Top(c))
        /\ ds1 = [docs[c] EXCEPT ![Top(c).doc] = x]
        /\ st1 = [stack[c] EXCEPT ![Len(stack[c])] = f]
  OBVIOUS
<1>2. /\ LoopInv(B, ds, st, NoResult, AwaitPoint) /\ L > 0 /\ output[c] = NoResult
      /\ Shapes(ds, st, NoResult) /\ DocsInv(B, ds)
      /\ i \in DOMAIN ds /\ L \in DOMAIN st
      /\ Arrays /\ B \in [Graph -> Builder] /\ assigned[c] = Ids(ds) /\ phase[c] = "extracting"
      /\ TopDoc(c) \in DocumentType /\ Top(c) \in LoopFrame(DOMAIN ds)
  BY <1>1, AwaitingFacts DEF Awaiting
<1>3. Top(c) = st[L] /\ TopDoc(c) = ds[i] /\ st[L].pc = "resuming"
  BY <1>1 DEF Top, TopDoc, Resume, Running
<1>4. GoesOn(B, ds, st, NoResult, L, i, "resuming", x, f, ds1, st1)
  BY <1>1, <1>2, <1>3 DEF GoesOn
<1>5. x = ds[i] /\ f = Resumed(st[L])
  BY <1>1, <1>3
<1>6. LoopInv(B, ds1, st1, NoResult, {"looping"}) /\ Ids(ds1) = Ids(ds)
  BY <1>4, <1>5, ResumeLoop
<1>7. x.depth > 0 /\ f.doc = i
  <2>1. st[L] \in LoopFrame(DOMAIN ds) /\ st[L].doc = i /\ FrameInv(ds, st[L])
    BY <1>1, <1>2, <1>3 DEF LoopInv
  <2>2. f.doc = i
    BY <2>1, <1>5, ResumedFields
  <2>3. ds[i].depth > 0
    BY <2>1, <1>3 DEF FrameInv
  <2>4. QED
    BY <2>2, <2>3, <1>5
<1>8. Looping(c, L, i, x, f, ds1, st1)
  <2>1. Entered(B, ds, st, L, i, x, f, ds1, st1)
    BY <1>1, <1>2, <1>3, <1>6, <1>7 DEF Entered
  <2>2. QED
    BY <2>1, <1>1, <1>2 DEF Looping
<1>9. Proceed(c, x, f)
  BY <1>1 DEF Resume, Resumed
<1>10. RefusedOf(f.gaps \cup f.result.gaps) = RefusedOf(st[L].gaps \cup st[L].result.gaps)
  <2>1. f.gaps = st[L].gaps \cup st[L].result.gaps /\ f.result = NoResult
    BY <1>2, <1>3, <1>5, ResumedFields
  <2>2. f.gaps \cup f.result.gaps = st[L].gaps \cup st[L].result.gaps
    BY <2>1 DEF NoResult
  <2>3. QED
    BY <2>2
<1>11. SameView(ds, st, NoResult, ds1, st1, NoResult)
  <2>1. ds \in Seq(DocumentType) /\ st \in Seq(LoopFrame(DOMAIN ds))
    BY <1>2 DEF Shapes
  <2>2. ds1 = [ds EXCEPT ![i] = x] /\ st1 = [st EXCEPT ![L] = f]
    BY <1>1
  <2>3. QED
    BY <2>1, <2>2, <1>2, <1>5, <1>10, SameViewAt
<1>12. \A j \in DOMAIN ds : ds1[j].drawable = ds[j].drawable /\ ds1[j].obj = ds[j].obj
  BY <1>1, <1>5, SMTT(60)
<1>13. Loops(c, L, i, x, f, ds1, st1)
  BY <1>1, <1>3, <1>8, <1>9, <1>11, <1>12 DEF Loops
<1>14. QED
  BY <1>13

LEMMA LoopsStep ==
  ASSUME NEW c \in Caller, Awaiting(c), Build(c) \/ Resume(c)
  PROVE  Stepped(c)
<1>1. PICK L, i, doc, frame, ds1, st1 : Loops(c, L, i, doc, frame, ds1, st1)
  BY BuildLoops, ResumeLoops
<1>2. Looping(c, L, i, doc, frame, ds1, st1) /\ (Throw(c) \/ Proceed(c, doc, frame))
  BY <1>1 DEF Loops
<1>3. QED
  BY <1>2, ThrowStep, ProceedStep

\* A caller begins with one graph and one call.
LEMMA BeginStep ==
  ASSUME NEW c \in Caller, NEW a \in Call, Begin(c, a), Arrays, builders \in [Graph -> Builder],
         CallerInv(builders, phase[c], docs[c], stack[c], output[c])
  PROVE  Stepped(c)
<1>1. a.graphId \in Seq(Token) /\ a.root \in Graph /\ a.depth \in Nat
  <2>1. Call \subseteq [supported : BOOLEAN, root : Graph \cup {NotAGraph},
                        graphId : Seq(Token), depth : Int]
    BY CallersAssumption DEF CallerAssumption
  <2>2. a.graphId \in Seq(Token) /\ a.depth \in Int
    BY <2>1
  <2>3. a.root \in Graph /\ a.depth >= 0
    BY DEF Begin, Acceptable
  <2>4. QED
    BY <2>2, <2>3
<1>2. PICK B, doc, f, ds, st :
        /\ B = builders /\ doc = Document(a.graphId, a.root, a.depth) /\ f = Frame(1)
        /\ ds = <<doc>> /\ st = <<f>>
  OBVIOUS
<1>3. /\ phase'[c] = "extracting" /\ docs'[c] = ds /\ stack'[c] = st
      /\ assigned'[c] = {a.graphId} /\ output'[c] = NoResult /\ docs[c] = << >>
  <2>1. output[c] = NoResult /\ docs[c] = << >>
    BY DEF Begin, CallerInv
  <2>2. QED
    BY <2>1, <1>2 DEF Begin, Arrays
<1>4. /\ DOMAIN ds = {1} /\ ds[1] = doc /\ DOMAIN st = {1} /\ st[1] = f /\ Len(st) = 1
      /\ st # << >>
  BY <1>2
<1>5. /\ doc \in DocumentType /\ f \in LoopFrame(DOMAIN ds)
      /\ doc.id = a.graphId /\ doc.state = "drawing" /\ doc.routers = {}
      /\ doc.drawable = [ids |-> {}, same |-> {}]
      /\ \A n \in NodeId : doc.sub[n] = NoRef /\ doc.branch[n] = "none"
      /\ f.doc = 1 /\ f.pc = "drawing" /\ f.todo = {} /\ f.result = NoResult
      /\ f.descendants = {} /\ f.gaps = {}
  BY <1>1, <1>2, <1>4, FreshTypes DEF Document, Frame
<1>6. Shapes(ds, st, NoResult)
  <2>1. ds \in Seq(DocumentType) /\ st \in Seq(LoopFrame(DOMAIN ds))
    BY <1>2, <1>5
  <2>2. QED
    BY <2>1 DEF Shapes, ResultType, NoResult
<1>7. DocsInv(B, ds)
  BY <1>4, <1>5 DEF DocsInv, Unique, DocInv
<1>8. Found(st, NoResult) = {}
  BY <1>4, <1>5 DEF Found, NoResult
<1>9. /\ Suspended(st, AwaitPoint) /\ OneEach(st) /\ \A k \in DOMAIN st : FrameInv(ds, st[k])
      /\ Kept(ds, st, NoResult) /\ Active(ds, st)
  BY <1>4, <1>5 DEF Suspended, AwaitPoint, OneEach, FrameInv, Kept, Active
<1>10. FoundInv(ds, st, NoResult) /\ Accounted(B, ds, st, NoResult)
  BY <1>4, <1>5, <1>8 DEF FoundInv, Accounted
<1>11. CallerInv(B, "extracting", ds, st, NoResult)
  BY <1>4, <1>6, <1>7, <1>9, <1>10 DEF CallerInv, LoopInv
<1>12. Ids(ds) = {a.graphId} /\ ClaimsIn(B, << >>, ds)
  BY <1>4, <1>5 DEF Ids, ClaimsIn
<1>13. QED
  BY <1>2, <1>3, <1>11, <1>12 DEF Stepped

\* A call that is rejected or has settled leaves its graphs as they are.
LEMMA SettleStep ==
  ASSUME NEW c \in Caller, Arrays, assigned[c] = Ids(docs[c]),
         CallerInv(builders, phase[c], docs[c], stack[c], output[c]),
         Finish(c) \/ \E a \in Call : RejectCall(c, a)
  PROVE  Stepped(c)
<1>1. ClaimsIn(builders, docs[c], docs[c])
  BY DEF ClaimsIn
<1>2. CASE Finish(c)
  <2>1. /\ phase[c] = "extracted" /\ phase'[c] = "returned" /\ docs'[c] = docs[c]
        /\ stack'[c] = stack[c] /\ assigned'[c] = assigned[c] /\ output'[c] = output[c]
    BY <1>2 DEF Finish, Arrays
  <2>2. CallerInv(builders, "returned", docs[c], stack[c], output[c])
    BY <2>1 DEF CallerInv
  <2>3. QED
    BY <2>1, <2>2, <1>1 DEF Stepped
<1>3. CASE \E a \in Call : RejectCall(c, a)
  <2>1. /\ phase[c] = "idle" /\ phase'[c] = "raised" /\ docs'[c] = docs[c]
        /\ stack'[c] = stack[c] /\ assigned'[c] = assigned[c] /\ output'[c] = output[c]
    BY <1>3 DEF RejectCall, Arrays
  <2>2. CallerInv(builders, "raised", docs[c], stack[c], output[c])
    BY <2>1 DEF CallerInv, LoopInv
  <2>3. QED
    BY <2>1, <2>2, <1>1 DEF Stepped
<1>4. QED
  BY <1>2, <1>3

\* What a program adds to a builder leaves the builder's own nodes as they are.
LEMMA ExtendedGrows ==
  ASSUME NEW b \in Builder, NEW e \in Edit, e.kind = "node" => e.source \notin b.nodes
  PROVE  /\ Extended(b, e) \in Builder
         /\ b.nodes \subseteq Extended(b, e).nodes
         /\ \A n \in b.nodes : Extended(b, e).runnable[n] = b.runnable[n]
<1>1. /\ e.kind \in {"edge", "router", "join", "node"} /\ e.source \in NodeId /\ e.target \in NodeId
      /\ e.child \in ChildOrNone /\ (e.kind = "node" => e.source \notin {START, END})
  <2>1. /\ e \in [kind : {"edge", "router", "join", "node"}, graph : Graph,
                  source : NodeId, target : NodeId, child : ChildOrNone]
        /\ (e.kind = "node" => ~Sentinel(e.source))
    BY CallersAssumption DEF CallerAssumption
  <2>2. QED
    BY <2>1 DEF Sentinel
<1>2. /\ b.nodes \in SUBSET (NodeId \ {START, END}) /\ b.runnable \in [NodeId -> ChildOrNone]
      /\ b.edges \in Seq(NodeId \X NodeId)
      /\ b.branches \in [NodeId -> Seq(Seq(NodeId) \cup {UnknownEnds})]
  BY DEF Builder
<1>3. CASE e.kind = "edge"
  <2>1. PICK p : p = Append(b.edges, <<e.source, e.target>>)
    OBVIOUS
  <2>2. p \in Seq(NodeId \X NodeId)
    BY <1>1, <1>2, <2>1, AppendProperties
  <2>3. Extended(b, e) = [b EXCEPT !.edges = p]
    BY <1>3, <2>1 DEF Extended
  <2>4. QED
    BY <2>2, <2>3 DEF Builder
<1>4. CASE e.kind = "router"
  <2>1. PICK p : p = [b.branches EXCEPT ![e.source] = Append(@, UnknownEnds)]
    OBVIOUS
  <2>2. p \in [NodeId -> Seq(Seq(NodeId) \cup {UnknownEnds})]
    <3>1. b.branches[e.source] \in Seq(Seq(NodeId) \cup {UnknownEnds})
      BY <1>1, <1>2
    <3>2. Append(b.branches[e.source], UnknownEnds) \in Seq(Seq(NodeId) \cup {UnknownEnds})
      BY <3>1, AppendProperties
    <3>3. QED
      BY <1>1, <1>2, <2>1, <3>2
  <2>3. Extended(b, e) = [b EXCEPT !.branches = p]
    BY <1>4, <2>1 DEF Extended
  <2>4. QED
    BY <2>2, <2>3 DEF Builder
<1>5. CASE e.kind = "node"
  <2>1. PICK p, q : p = b.nodes \cup {e.source} /\ q = [b.runnable EXCEPT ![e.source] = e.child]
    OBVIOUS
  <2>2. /\ p \in SUBSET (NodeId \ {START, END}) /\ q \in [NodeId -> ChildOrNone]
        /\ b.nodes \subseteq p /\ \A n \in b.nodes : q[n] = b.runnable[n]
    BY <1>1, <1>2, <1>5, <2>1
  <2>3. Extended(b, e) = [b EXCEPT !.nodes = p, !.runnable = q]
    BY <1>5, <2>1 DEF Extended
  <2>4. QED
    BY <2>2, <2>3 DEF Builder
<1>6. CASE e.kind = "join"
  <2>1. PICK p : p = b.joins \cup {<<<<e.source>>, e.target>>}
    OBVIOUS
  <2>2. b.joins \in SUBSET (Seq(NodeId) \X NodeId)
    BY DEF Builder
  <2>3. <<<<e.source>>, e.target>> \in Seq(NodeId) \X NodeId
    <3>1. PICK n \in NodeId, t \in NodeId : n = e.source /\ t = e.target
      BY <1>1
    <3>2. <<n>> \in Seq(NodeId)
      OBVIOUS
    <3>3. <<<<n>>, t>> \in Seq(NodeId) \X NodeId
      BY <3>2, Zenon
    <3>4. QED
      BY <3>1, <3>3, Zenon
  <2>4. p \in SUBSET (Seq(NodeId) \X NodeId)
    BY <2>1, <2>2, <2>3
  <2>5. Extended(b, e) = [b EXCEPT !.joins = p]
    BY <1>6, <2>1 DEF Extended
  <2>6. QED
    BY <2>4, <2>5 DEF Builder
<1>7. QED
  BY <1>1, <1>3, <1>4, <1>5, <1>6

-------------------------------------------------------------------------------
(* All callers: each keeps its own invariant, whatever the others do.       *)

CallerOK(c) ==
  /\ phase[c] \in {"idle", "extracting", "extracted", "returned", "raised"}
  /\ assigned[c] = Ids(docs[c])
  /\ CallerInv(builders, phase[c], docs[c], stack[c], output[c])

TsInv ==
  /\ builders \in [Graph -> Builder]
  /\ edits \in 0..MaxEdits
  /\ call \in [Caller -> Call \cup {NoCall}]
  /\ Arrays
  /\ \A c \in Caller : CallerOK(c)

\* The entries of one caller are as they were.
Untouched(d) ==
  /\ phase'[d] = phase[d] /\ docs'[d] = docs[d] /\ stack'[d] = stack[d]
  /\ assigned'[d] = assigned[d] /\ output'[d] = output[d]

\* What a step of caller c is allowed to change.
OwnStep(c) ==
  /\ builders' = builders /\ edits' = edits
  /\ call' \in [Caller -> Call \cup {NoCall}]
  /\ phase'[c] \in {"idle", "extracting", "extracted", "returned", "raised"}
  /\ Arrays' /\ \A d \in Caller : d # c => Untouched(d)

LEMMA ProceedOwn ==
  ASSUME NEW c \in Caller, NEW doc, NEW frame, TsInv, Throw(c) \/ Proceed(c, doc, frame)
  PROVE  OwnStep(c)
<1>1. Arrays /\ call \in [Caller -> Call \cup {NoCall}] /\ CallerOK(c)
  BY DEF TsInv
<1>2. CASE Throw(c)
  BY <1>1, <1>2 DEF Throw, OwnStep, Untouched, Arrays
<1>3. ASSUME NEW n, Descend(c, doc, frame, n) PROVE OwnStep(c)
  <2>1. PICK p, q, r : /\ docs' = [docs EXCEPT ![c] = p] /\ stack' = [stack EXCEPT ![c] = q]
                       /\ assigned' = [assigned EXCEPT ![c] = r]
    BY <1>3, ZenonT(60) DEF Descend
  <2>2. builders' = builders /\ edits' = edits /\ phase' = phase /\ call' = call /\ output' = output
    BY <1>3, ZenonT(60) DEF Descend
  <2>3. QED
    BY <1>1, <2>1, <2>2, SMTT(60) DEF OwnStep, Untouched, Arrays, CallerOK
<1>4. CASE Close(c, doc, frame)
  <2>1. PICK p : docs' = [docs EXCEPT ![c] = p]
    BY <1>4, ZenonT(60) DEF Close
  <2>2. builders' = builders /\ edits' = edits /\ call' = call /\ assigned' = assigned
    BY <1>4 DEF Close
  <2>3. PICK q : stack' = [stack EXCEPT ![c] = q]
    BY <1>4 DEF Close
  <2>4. \/ phase' = phase /\ output' = output
        \/ \E r : phase' = [phase EXCEPT ![c] = "extracted"] /\ output' = [output EXCEPT ![c] = r]
    BY <1>4 DEF Close
  <2>5. QED
    BY <1>1, <2>1, <2>2, <2>3, <2>4, SMTT(60) DEF OwnStep, Untouched, Arrays, CallerOK
<1>5. QED
  BY <1>2, <1>3, <1>4 DEF Proceed

LEMMA CallersStep ==
  ASSUME NEW c \in Caller, TsInv,
         Extract(c) \/ \E a \in Call : RejectCall(c, a) \/ Begin(c, a)
  PROVE  OwnStep(c) /\ Stepped(c)
<1>1. /\ Arrays /\ builders \in [Graph -> Builder] /\ call \in [Caller -> Call \cup {NoCall}]
      /\ CallerOK(c)
  BY DEF TsInv
<1>2. /\ assigned[c] = Ids(docs[c])
      /\ CallerInv(builders, phase[c], docs[c], stack[c], output[c])
  BY <1>1 DEF CallerOK
<1>3. phase[c] = "extracting" => Awaiting(c)
  BY <1>1, <1>2 DEF Awaiting
<1>4. CASE Draw(c)
  <2>1. PICK p, q : docs' = [docs EXCEPT ![c] = p] /\ stack' = [stack EXCEPT ![c] = q]
    BY <1>4 DEF Draw
  <2>2. /\ builders' = builders /\ edits' = edits /\ phase' = phase /\ call' = call
        /\ assigned' = assigned /\ output' = output
    BY <1>4 DEF Draw
  <2>3. OwnStep(c)
    BY <1>1, <2>1, <2>2, SMTT(60) DEF OwnStep, Untouched, Arrays, CallerOK
  <2>4. QED
    BY <2>3, <1>3, <1>4, DrawStep DEF Draw, Running
<1>5. CASE Build(c)
  <2>1. \E doc, frame : Throw(c) \/ Proceed(c, doc, frame)
    BY <1>5 DEF Build
  <2>2. QED
    BY <2>1, <1>3, <1>5, ProceedOwn, LoopsStep, ZenonT(60) DEF Build, Running
<1>6. CASE Resume(c)
  <2>1. \E doc, frame : Proceed(c, doc, frame)
    BY <1>6 DEF Resume
  <2>2. QED
    BY <2>1, <1>3, <1>6, ProceedOwn, LoopsStep, ZenonT(60) DEF Resume, Running
<1>7. CASE Finish(c)
  <2>1. OwnStep(c)
    BY <1>1, <1>7 DEF Finish, OwnStep, Untouched, Arrays
  <2>2. QED
    BY <2>1, <1>1, <1>2, <1>7, SettleStep
<1>8. ASSUME NEW a \in Call, RejectCall(c, a) PROVE OwnStep(c) /\ Stepped(c)
  <2>1. OwnStep(c)
    BY <1>1, <1>8 DEF RejectCall, OwnStep, Untouched, Arrays
  <2>2. QED
    BY <2>1, <1>1, <1>2, <1>8, SettleStep
<1>9. ASSUME NEW a \in Call, Begin(c, a) PROVE OwnStep(c) /\ Stepped(c)
  <2>1. PICK p, q, r : /\ docs' = [docs EXCEPT ![c] = p] /\ stack' = [stack EXCEPT ![c] = q]
                       /\ assigned' = [assigned EXCEPT ![c] = r]
    BY <1>9 DEF Begin
  <2>2. /\ builders' = builders /\ edits' = edits /\ output' = output
        /\ phase' = [phase EXCEPT ![c] = "extracting"] /\ call' = [call EXCEPT ![c] = a]
    BY <1>9 DEF Begin
  <2>3. OwnStep(c)
    BY <1>1, <2>1, <2>2 DEF OwnStep, Untouched, Arrays
  <2>4. QED
    BY <2>3, <1>1, <1>2, <1>9, BeginStep
<1>10. QED
  BY <1>4, <1>5, <1>6, <1>7, <1>8, <1>9 DEF Extract

\* A step of the program.
LEMMA EditStep ==
  ASSUME TsInv, NEW e \in Edit, EditBuilder(e)
  PROVE  TsInv' /\ \A c \in Caller : Untouched(c)
<1>1. /\ builders \in [Graph -> Builder] /\ edits \in 0..MaxEdits
      /\ e.graph \in Graph /\ (e.kind = "node" => e.source \notin builders[e.graph].nodes)
  <2>1. e \in [kind : {"edge", "router", "join", "node"}, graph : Graph,
               source : NodeId, target : NodeId, child : ChildOrNone]
    BY CallersAssumption DEF CallerAssumption
  <2>2. QED
    BY <2>1 DEF TsInv, EditBuilder
<1>2. PICK b : b = builders[e.graph]
  OBVIOUS
<1>3. /\ b \in Builder /\ Extended(b, e) \in Builder /\ b.nodes \subseteq Extended(b, e).nodes
      /\ \A n \in b.nodes : Extended(b, e).runnable[n] = b.runnable[n]
  BY <1>1, <1>2, ExtendedGrows
<1>4. PICK x : x = Extended(b, e)
  OBVIOUS
<1>5. PICK B2 : B2 = builders'
  OBVIOUS
<1>6. builders' = [builders EXCEPT ![e.graph] = x]
  BY <1>2, <1>4 DEF EditBuilder
<1>7. /\ builders' \in [Graph -> Builder] /\ B2 \in [Graph -> Builder]
      /\ \A g \in Graph : B2[g] = IF g = e.graph THEN x ELSE builders[g]
  BY <1>1, <1>3, <1>4, <1>5, <1>6
<1>8. Grows(builders, B2)
  BY <1>2, <1>3, <1>4, <1>7 DEF Grows
<1>9. /\ edits' \in 0..MaxEdits /\ call' = call /\ phase' = phase /\ docs' = docs
      /\ stack' = stack /\ assigned' = assigned /\ output' = output
  BY <1>1, CallersAssumption DEF EditBuilder, CallerAssumption
<1>10. ASSUME NEW c \in Caller PROVE CallerOK(c)'
  <2>1. CallerOK(c)
    BY DEF TsInv
  <2>2. CallerInv(B2, phase[c], docs[c], stack[c], output[c])
    BY <2>1, <1>8, CallerInvGrows DEF CallerOK
  <2>3. CallerInv(builders', phase'[c], docs'[c], stack'[c], output'[c])
    BY <2>2, <1>5, <1>9
  <2>4. QED
    BY <2>1, <2>3, <1>9 DEF CallerOK
<1>11. Arrays' /\ call' \in [Caller -> Call \cup {NoCall}]
  BY <1>9 DEF TsInv, Arrays
<1>12. QED
  BY <1>7, <1>9, <1>10, <1>11 DEF TsInv, Untouched

LEMMA TsInit ==
  ASSUME Init
  PROVE  TsInv
<1>1. /\ builders \in [Graph -> Builder] /\ edits \in 0..MaxEdits
      /\ call \in [Caller -> Call \cup {NoCall}] /\ Arrays
  BY CallersAssumption DEF Init, CallerAssumption, Arrays
<1>2. ASSUME NEW c \in Caller PROVE CallerOK(c)
  <2>1. PICK ds, st : ds = docs[c] /\ st = stack[c]
    OBVIOUS
  <2>2. /\ ds = << >> /\ st = << >> /\ DOMAIN ds = {} /\ DOMAIN st = {}
        /\ phase[c] = "idle" /\ assigned[c] = {} /\ output[c] = NoResult
    BY <2>1 DEF Init
  <2>3. Shapes(ds, st, NoResult)
    <3>1. << >> \in Seq(DocumentType) /\ << >> \in Seq(LoopFrame({}))
      BY EmptySeq
    <3>2. QED
      BY <2>2, <3>1 DEF Shapes, ResultType, NoResult
  <2>4. Found(st, NoResult) = {}
    BY <2>2 DEF Found, NoResult
  <2>5. /\ DocsInv(builders, ds) /\ Suspended(st, AwaitPoint) /\ OneEach(st)
        /\ (\A k \in DOMAIN st : FrameInv(ds, st[k])) /\ Kept(ds, st, NoResult)
        /\ Active(ds, st) /\ Accounted(builders, ds, st, NoResult)
    BY <2>2 DEF DocsInv, Unique, Suspended, OneEach, Kept, Active, Accounted
  <2>6. FoundInv(ds, st, NoResult)
    BY <2>2, <2>4 DEF FoundInv
  <2>7. CallerInv(builders, "idle", ds, st, NoResult)
    BY <2>2, <2>3, <2>5, <2>6 DEF CallerInv, LoopInv
  <2>8. Ids(ds) = {}
    BY <2>2 DEF Ids
  <2>9. QED
    BY <2>1, <2>2, <2>7, <2>8 DEF CallerOK
<1>3. QED
  BY <1>1, <1>2 DEF TsInv

\* What a step does to the claims: only the graphs of the caller that takes it
\* change, and what it closes is said of the builders as they are.
CurrentClaims ==
  \A c \in Caller : ClaimsIn(builders, docs[c], docs'[c])

LEMMA TsNext ==
  ASSUME TsInv, [Next]_vars
  PROVE  TsInv' /\ CurrentClaims
<1>1. \A c \in Caller : docs'[c] = docs[c] => ClaimsIn(builders, docs[c], docs'[c])
  BY DEF ClaimsIn
<1>2. CASE UNCHANGED vars
  <2>1. TsInv'
    BY <1>2 DEF vars, TsInv, CallerOK, Arrays
  <2>2. QED
    BY <2>1, <1>1, <1>2 DEF vars, CurrentClaims
<1>3. ASSUME NEW e \in Edit, EditBuilder(e) PROVE TsInv' /\ CurrentClaims
  <2>1. TsInv' /\ \A c \in Caller : Untouched(c)
    BY <1>3, EditStep
  <2>2. QED
    BY <2>1, <1>1 DEF Untouched, CurrentClaims
<1>4. ASSUME NEW c \in Caller, Extract(c) \/ \E a \in Call : RejectCall(c, a) \/ Begin(c, a)
      PROVE  TsInv' /\ CurrentClaims
  <2>1. OwnStep(c) /\ Stepped(c)
    BY <1>4, CallersStep
  <2>2. PICK B, B2 : B = builders /\ B2 = builders'
    OBVIOUS
  <2>3. B2 = B /\ Arrays' /\ \A d \in Caller : d # c => Untouched(d)
    BY <2>1, <2>2 DEF OwnStep
  <2>4. CallerOK(c)'
    <3>1. CallerInv(B, phase'[c], docs'[c], stack'[c], output'[c]) /\ assigned'[c] = Ids(docs'[c])
      BY <2>1, <2>2 DEF Stepped
    <3>2. CallerInv(B2, phase'[c], docs'[c], stack'[c], output'[c])
      BY <3>1, <2>3
    <3>3. phase'[c] \in {"idle", "extracting", "extracted", "returned", "raised"}
      BY <2>1 DEF OwnStep
    <3>4. QED
      BY <3>1, <3>2, <3>3, <2>2 DEF CallerOK
  <2>5. ASSUME NEW d \in Caller, d # c PROVE CallerOK(d)'
    <3>1. Untouched(d) /\ CallerOK(d)
      BY <2>3, <2>5 DEF TsInv
    <3>2. CallerInv(B2, phase[d], docs[d], stack[d], output[d])
      BY <3>1, <2>2, <2>3 DEF CallerOK
    <3>3. CallerInv(B2, phase'[d], docs'[d], stack'[d], output'[d])
      BY <3>1, <3>2 DEF Untouched
    <3>4. QED
      BY <3>1, <3>3, <2>2 DEF CallerOK, Untouched
  <2>6. TsInv'
    <3>1. /\ builders' \in [Graph -> Builder] /\ edits' \in 0..MaxEdits
          /\ call' \in [Caller -> Call \cup {NoCall}]
      BY <2>1 DEF OwnStep, TsInv
    <3>2. QED
      BY <3>1, <2>3, <2>4, <2>5 DEF TsInv
  <2>7. CurrentClaims
    <3>1. \A d \in Caller : d # c => docs'[d] = docs[d]
      BY <2>3 DEF Untouched
    <3>2. ClaimsIn(builders, docs[c], docs'[c])
      BY <2>1 DEF Stepped
    <3>3. QED
      BY <3>1, <3>2, <1>1 DEF CurrentClaims
  <2>8. QED
    BY <2>6, <2>7
<1>5. QED
  BY <1>2, <1>3, <1>4 DEF Next

LEMMA Always == Spec => []TsInv
<1>1. Init => TsInv
  BY TsInit
<1>2. TsInv /\ [Next]_vars => TsInv'
  BY TsNext
<1>3. QED
  BY <1>1, <1>2, PTL DEF Spec

-------------------------------------------------------------------------------
(* The theorems.                                                            *)

LEMMA CallerFacts ==
  ASSUME TsInv, NEW c \in Caller
  PROVE  /\ Shapes(docs[c], stack[c], output[c]) /\ DocsInv(builders, docs[c])
         /\ assigned[c] = Ids(docs[c])
         /\ phase[c] \in {"idle", "extracting", "extracted", "returned", "raised"}
         /\ phase[c] # "extracting" => stack[c] = << >>
         /\ phase[c] # "raised" => LoopInv(builders, docs[c], stack[c], output[c], AwaitPoint)
         /\ phase[c] = "raised" => output[c] = NoResult
BY DEF TsInv, CallerOK, CallerInv, LoopInv

\* Every variable of the concurrent producer has its type, whatever is interleaved;
\* a suspended call waits at one of its awaits.
THEOREM TsTypes == Spec => []TypeOK
<1>1. TsInv => TypeOK
  <2> SUFFICES ASSUME TsInv PROVE TypeOK
    OBVIOUS
  <2>1. ASSUME NEW c \in Caller PROVE stack[c] \in Seq(FrameType(DOMAIN docs[c]))
    <3>1. PICK ds, st, out : ds = docs[c] /\ st = stack[c] /\ out = output[c]
      OBVIOUS
    <3>2. Shapes(ds, st, out)
      BY <3>1, CallerFacts
    <3>3. CASE st = << >>
      BY <3>1, <3>3, EmptySeq
    <3>4. CASE st # << >>
      <4>1. Suspended(st, AwaitPoint)
        BY <3>1, <3>4, CallerFacts DEF LoopInv
      <4>2. \A k \in DOMAIN st : st[k].pc \in {"drawing", "drawn", "awaiting", "resuming"}
        BY <4>1 DEF Suspended, AwaitPoint
      <4>3. Len(st) \in Nat /\ DOMAIN st = 1..Len(st)
            /\ \A k \in DOMAIN st : st[k] \in LoopFrame(DOMAIN ds)
        BY <3>2, Elements
      <4>4. \A k \in DOMAIN st : st[k] \in FrameType(DOMAIN ds)
        BY <4>2, <4>3 DEF LoopFrame, FrameType
      <4>5. PICK n, T : n \in Nat /\ n = Len(st) /\ T = FrameType(DOMAIN ds)
        BY <4>3
      <4>6. st \in [1..n -> T]
        <5>1. st \in Seq(LoopFrame(DOMAIN ds))
          BY <3>2 DEF Shapes
        <5>2. st \in [1..n -> LoopFrame(DOMAIN ds)]
          BY <5>1, <4>5, LenProperties
        <5>3. \A k \in 1..n : st[k] \in T
          BY <4>3, <4>4, <4>5
        <5>4. QED
          BY <5>2, <5>3
      <4>7. st \in Seq(T)
        BY <4>5, <4>6, SeqDef
      <4>8. QED
        BY <3>1, <4>5, <4>7
    <3>5. QED
      BY <3>3, <3>4
  <2>2. QED
    BY <2>1, CallerFacts DEF TypeOK, TsInv, Shapes, Ids
<1>2. QED
  BY <1>1, Always, PTL

\* Whatever the program does to the builders while calls are suspended, a
\* subgraphId names the one graph of its call that describes the graph its node runs.
THEOREM EveryReferenceResolves == Spec => []ReferencesResolve
<1>1. TsInv => ReferencesResolve
  <2> SUFFICES ASSUME TsInv, NEW c \in Caller, NEW i \in DOMAIN docs[c], NEW n \in NodeId,
                      docs[c][i].sub[n] # NoRef
               PROVE  \E j \in DOMAIN docs[c] :
                        /\ \A k \in DOMAIN docs[c] :
                             docs[c][k].id = docs[c][i].sub[n] <=> k = j
                        /\ docs[c][j].obj = builders[docs[c][i].obj].runnable[n]
                        /\ docs[c][j].depth = docs[c][i].depth - 1
    BY DEF ReferencesResolve
  <2>1. Unique(docs[c]) /\ DocInv(builders, docs[c], docs[c][i])
    BY CallerFacts DEF DocsInv
  <2>2. PICK j \in DOMAIN docs[c] :
               /\ docs[c][j].id = docs[c][i].sub[n]
               /\ docs[c][j].obj = builders[docs[c][i].obj].runnable[n]
               /\ docs[c][j].depth = docs[c][i].depth - 1
    BY <2>1 DEF DocInv
  <2>3. QED
    BY <2>1, <2>2 DEF Unique
<1>2. QED
  BY <1>1, Always, PTL

\* Concurrent calls share nothing: an address one call found taken was given out
\* by that very call.
THEOREM CallsShareNoAddresses == Spec => []CollisionsAreOnesOwn
<1>1. TsInv => CollisionsAreOnesOwn
  <2> SUFFICES ASSUME TsInv, NEW c \in Caller, NEW g \in AllGaps(c),
                      g.code = "child-graph-id-collision"
               PROVE  \E i \in DOMAIN docs[c] : docs[c][i].id = DerivedId(g.graph, g.node)
    BY DEF CollisionsAreOnesOwn
  <2>1. CASE phase[c] = "raised"
    BY <2>1, CallerFacts DEF AllGaps, NoResult
  <2>2. CASE phase[c] # "raised"
    <3>1. FoundInv(docs[c], stack[c], output[c])
      BY <2>2, CallerFacts DEF LoopInv
    <3>2. g \in Found(stack[c], output[c])
      BY DEF AllGaps, Found
    <3>3. QED
      BY <3>1, <3>2 DEF FoundInv
  <2>3. QED
    BY <2>1, <2>2
<1>2. QED
  BY <1>1, Always, PTL

\* A result holds every graph that got an id, closed, every unknown router, and
\* for each child drawn within the budget either its graph or its collision.
THEOREM ResultIsComplete == Spec => []NothingDropped
<1>1. TsInv => NothingDropped
  <2> SUFFICES ASSUME TsInv, NEW c \in Caller, phase[c] = "returned"
               PROVE  /\ output[c].graphs = DOMAIN docs[c]
                      /\ \A i \in DOMAIN docs[c] :
                           LET doc == docs[c][i] IN
                           /\ doc.state = "closed"
                           /\ \A s \in doc.routers :
                                [code |-> "unknown-routing-targets", graph |-> doc.id, node |-> s]
                                  \in output[c].gaps
                           /\ \A n \in doc.drawable.ids : Child(doc, n) # NoChild =>
                                /\ doc.sub[n] # NoRef <=> doc.subgraph[n] = "materialized-child"
                                /\ doc.sub[n] = NoRef <=>
                                     (doc.depth = 0 \/ Collision(doc.id, n) \in output[c].gaps)
    BY DEF NothingDropped
  <2>1. PICK B, ds, st, out : B = builders /\ ds = docs[c] /\ st = stack[c] /\ out = output[c]
    OBVIOUS
  <2>2. st = << >> /\ DOMAIN st = {} /\ LoopInv(B, ds, st, out, AwaitPoint)
    BY <2>1, CallerFacts
  <2>3. /\ Shapes(ds, st, out) /\ DocsInv(B, ds) /\ Kept(ds, st, out) /\ Active(ds, st)
        /\ FoundInv(ds, st, out) /\ Accounted(B, ds, st, out)
    BY <2>2 DEF LoopInv
  <2>4. Found(st, out) = out.gaps
    BY <2>2 DEF Found
  <2>5. out.graphs = DOMAIN ds
    BY <2>2, <2>3 DEF Kept, Shapes, ResultType
  <2>6. ASSUME NEW i \in DOMAIN ds
        PROVE  /\ ds[i].state = "closed"
               /\ \A s \in ds[i].routers : RouterGap(ds[i].id, s) \in out.gaps
               /\ \A n \in ds[i].drawable.ids : Holds(B, ds[i], n) # NoChild =>
                    /\ ds[i].sub[n] # NoRef <=> ds[i].subgraph[n] = "materialized-child"
                    /\ ds[i].sub[n] = NoRef <=>
                         (ds[i].depth = 0 \/ Collision(ds[i].id, n) \in out.gaps)
    <3>1. ds[i].state = "closed"
      BY <2>2, <2>3 DEF Active
    <3>2. \A s \in ds[i].routers : RouterGap(ds[i].id, s) \in out.gaps
      BY <2>3, <2>4 DEF FoundInv
    <3>3. ASSUME NEW n \in ds[i].drawable.ids, Holds(B, ds[i], n) # NoChild
          PROVE  /\ ds[i].sub[n] # NoRef <=> ds[i].subgraph[n] = "materialized-child"
                 /\ ds[i].sub[n] = NoRef <=>
                      (ds[i].depth = 0 \/ Collision(ds[i].id, n) \in out.gaps)
      <4>1. DocInv(B, ds, ds[i])
        BY <2>3 DEF DocsInv
      <4>2. n \in ds[i].drawable.same /\ B[ds[i].obj].runnable[n] # NoChild
        BY <3>3, <4>1, HoldsRunnable
      <4>3. ds[i].sub[n] # NoRef <=> ds[i].subgraph[n] = "materialized-child"
        BY <3>1, <4>1, <4>2 DEF DocInv
      <4>4. ~Ahead(st, i, n)
        BY <2>2 DEF Ahead
      <4>5. ds[i].sub[n] = NoRef <=> Opaque(ds, st, out, i, n)
        BY <2>3, <3>1, <4>2 DEF Accounted
      <4>6. QED
        BY <4>3, <4>4, <4>5, <2>4 DEF Opaque
    <3>4. QED
      BY <3>1, <3>2, <3>3
  <2>7. QED
    BY <2>1, <2>5, <2>6 DEF Child, Holds, RouterGap
<1>2. QED
  BY <1>1, Always, PTL

\* A fan-out is called all-declared only if, in the step that writes it, the
\* builder has exactly the edges recorded for the node and no branch there, however
\* many extensions of the builder the awaits in between let through.
THEOREM ClaimsStayCurrent == Spec => ClaimsAreCurrent
<1>1. TsInv /\ [Next]_vars =>
        [\A c \in Caller : \A i \in DOMAIN docs[c] :
           LET new == docs'[c][i]
               b   == builders[new.obj]
           IN  (docs[c][i].state # "closed" /\ new.state = "closed") =>
                 \A n \in NodeId : new.branch[n] = "all-declared" =>
                   /\ {e \in new.edges : e.source = n} = {e \in EdgeDocuments(b) : e.source = n}
                   /\ n \notin Dynamic(b)]_vars
  BY TsNext DEF CurrentClaims, ClaimsIn
<1>2. QED
  BY <1>1, Always, PTL DEF Spec, ClaimsAreCurrent

-------------------------------------------------------------------------------
(* The refinement: without edits a call is one order of the work the contract *)
(* allows, and is abandoned where builderStructure rejects a graph.           *)

\* The graph is drawn as its builder is, and builderStructure does not throw.
Legible(B, x) == x.drawable = Drawable(B[x.obj]) /\ ~StructureThrows(B[x.obj])

AllLegible(B, ds) == \A j \in DOMAIN ds : Legible(B, ds[j])

\* While nothing edits the builders, every graph is legible, unless its call still
\* awaits the drawing or has not read the structure yet.
Steady(B, ds, st) ==
  \A j \in DOMAIN ds :
    \/ Legible(B, ds[j])
    \/ \E k \in DOMAIN st : st[k].doc = j /\ st[k].pc = "drawing"
    \/ /\ ds[j].drawable = Drawable(B[ds[j].obj])
       /\ \E k \in DOMAIN st : st[k].doc = j /\ st[k].pc = "drawn"

\* A child inside the budget with neither an address nor a collision.
Waits(B, ds, G, i, n) ==
  /\ ds[i].depth > 0
  /\ n \in B[ds[i].obj].nodes \ B[ds[i].obj].wrapped
  /\ B[ds[i].obj].runnable[n] # NoChild
  /\ ds[i].sub[n] = NoRef
  /\ Collision(ds[i].id, n) \notin G

\* The nodes of todo that hold a child whose address is taken.
Passed(B, ds, doc, todo) ==
  {m \in todo : Holds(B, doc, m) # NoChild /\ DerivedId(doc.id, m) \in Ids(ds)}

\* A node the loop has still to come to waits, if it holds a child.
LEMMA AheadWaits ==
  ASSUME NEW B, NEW ds, NEW st, NEW out, LoopInv(B, ds, st, out, {"looping"}), st # << >>,
         AllLegible(B, ds), NEW i, i = st[Len(st)].doc, NEW m, m \in st[Len(st)].todo,
         Holds(B, ds[i], m) # NoChild
  PROVE  i \in DOMAIN ds /\ m \in NodeId /\ Waits(B, ds, Found(st, out), i, m)
<1>1. Shapes(ds, st, out) /\ DocsInv(B, ds) /\ FoundInv(ds, st, out) /\ Accounted(B, ds, st, out)
  BY DEF LoopInv
<1>2. /\ Len(st) \in DOMAIN st /\ i \in DOMAIN ds
      /\ st[Len(st)] \in LoopFrame(DOMAIN ds)
  BY <1>1, Elements
<1>3. m \in NodeId /\ Ahead(st, i, m)
  BY <1>2 DEF LoopFrame, Ahead
<1>4. ds[i].state = "built" /\ ds[i].depth > 0
  <2>1. FrameInv(ds, st[Len(st)]) /\ st[Len(st)].pc = "looping"
    BY <1>2 DEF LoopInv, Suspended
  <2>2. QED
    BY <2>1 DEF FrameInv
<1>5. m \in ds[i].drawable.same /\ B[ds[i].obj].runnable[m] # NoChild
  BY <1>1, <1>2, HoldsRunnable, SMTT(60) DEF DocsInv
<1>6. m \in B[ds[i].obj].nodes \ B[ds[i].obj].wrapped
  <2>1. ds[i].drawable = Drawable(B[ds[i].obj])
    BY <1>2 DEF AllLegible, Legible
  <2>2. PICK b, d : b = B[ds[i].obj] /\ d = ds[i].drawable
    BY SMTT(60)
  <2>3. d = [ids |-> b.nodes \cup {START, END}, same |-> b.nodes \ b.wrapped]
    BY <2>1, <2>2, ZenonT(60) DEF Drawable
  <2>4. d.same = b.nodes \ b.wrapped
    BY <2>3, SMTT(60)
  <2>5. QED
    BY <2>2, <2>4, <1>5, ZenonT(60)
<1>7. ds[i].sub[m] = NoRef
  BY <1>1, <1>2, <1>3, <1>4, <1>5 DEF Accounted, Opaque
<1>8. Collision(ds[i].id, m) \notin Found(st, out)
  BY <1>1, <1>2, <1>3 DEF FoundInv
<1>9. QED
  BY <1>2, <1>3, <1>4, <1>5, <1>6, <1>7, <1>8 DEF Waits

\* The collisions of a loop, as the contract's refusals.
LEMMA RefusedArePassed ==
  ASSUME NEW B, NEW ds, NEW doc, NEW todo
  PROVE  RefusedOf(RefusedIn(B, ds, doc, todo))
           = {[graph |-> doc.id, node |-> m] : m \in Passed(B, ds, doc, todo)}
<1>1. \A m : /\ Collision(doc.id, m).graph = doc.id /\ Collision(doc.id, m).node = m
             /\ Collision(doc.id, m).code = "child-graph-id-collision"
  BY DEF Collision
<1>2. RefusedIn(B, ds, doc, todo) = {Collision(doc.id, m) : m \in Passed(B, ds, doc, todo)}
  BY DEF RefusedIn, Passed
<1>3. PICK P, x : P = Passed(B, ds, doc, todo) /\ x = doc.id
  OBVIOUS
<1>4. RefusedOf({Collision(x, m) : m \in P}) = {[graph |-> x, node |-> m] : m \in P}
  <2>1. ASSUME NEW r \in RefusedOf({Collision(x, m) : m \in P})
        PROVE  r \in {[graph |-> x, node |-> m] : m \in P}
    <3>1. PICK g \in {Collision(x, m) : m \in P} : r = [graph |-> g.graph, node |-> g.node]
      BY <2>1 DEF RefusedOf
    <3>2. PICK m \in P : g = Collision(x, m)
      BY <3>1
    <3>3. g.graph = x /\ g.node = m
      BY <3>2 DEF Collision
    <3>4. QED
      BY <3>1, <3>2, <3>3
  <2>2. ASSUME NEW m \in P
        PROVE  [graph |-> x, node |-> m] \in RefusedOf({Collision(x, k) : k \in P})
    <3>1. PICK g : g = Collision(x, m)
      OBVIOUS
    <3>2. /\ g \in {Collision(x, k) : k \in P} /\ g.code = "child-graph-id-collision"
          /\ g.graph = x /\ g.node = m
      BY <3>1 DEF Collision
    <3>3. QED
      BY <3>2 DEF RefusedOf
  <2>3. QED
    BY <2>1, <2>2
<1>5. QED
  BY <1>2, <1>3, <1>4

\* What a descent adds to the graphs and references.
LEMMA ReachedView ==
  ASSUME NEW ds, NEW st, NEW out, NEW N, NEW L, NEW i, NEW n, NEW gid, NEW child, NEW R,
         NEW ds2, NEW st2, Reached(ds, st, out, N, L, i, n, gid, child, R, ds2, st2),
         ds[i].sub[n] = NoRef
  PROVE  /\ GraphsOf(ds2) = GraphsOf(ds) \cup
              {[id |-> gid, obj |-> child, depth |-> ds[i].depth - 1]}
         /\ RefsOf(ds2) = RefsOf(ds) \cup {[graph |-> ds[i].id, node |-> n, to |-> gid]}
<1>1. /\ n \in NodeId /\ gid # NoRef /\ i \in DOMAIN ds /\ N \in Nat /\ DOMAIN ds = 1..N
  BY DEF Reached
<1>2. PICK d, rest : /\ d = ds[i].depth - 1
                     /\ FieldsAfter(ds, st, out, N, L, i, n, gid, child, d, rest, R, ds2, st2)
  BY DEF Reached
<1>3. /\ DOMAIN ds2 = 1..(N + 1)
      /\ \A j \in DOMAIN ds :
           /\ ds2[j].id = ds[j].id /\ ds2[j].obj = ds[j].obj /\ ds2[j].depth = ds[j].depth
           /\ \A m \in NodeId :
                ds2[j].sub[m] = IF j = i /\ m = n THEN gid ELSE ds[j].sub[m]
      /\ ds2[N + 1] = Document(gid, child, d)
  BY <1>2 DEF FieldsAfter
<1>4. /\ ds2[N + 1].id = gid /\ ds2[N + 1].obj = child /\ ds2[N + 1].depth = d
      /\ \A m \in NodeId : ds2[N + 1].sub[m] = NoRef
  BY <1>3 DEF Document
<1>5. /\ N + 1 \in DOMAIN ds2 /\ \A j \in DOMAIN ds2 : j \in DOMAIN ds \/ j = N + 1
      /\ \A j \in DOMAIN ds : j \in DOMAIN ds2
  BY <1>1, <1>3
<1>6. GraphsOf(ds2) = GraphsOf(ds) \cup {[id |-> gid, obj |-> child, depth |-> d]}
  <2>1. \A j \in DOMAIN ds : GraphOf(ds2[j]) = GraphOf(ds[j])
    BY <1>3 DEF GraphOf
  <2>2. GraphOf(ds2[N + 1]) = [id |-> gid, obj |-> child, depth |-> d]
    BY <1>4 DEF GraphOf
  <2>3. QED
    BY <2>1, <2>2, <1>5 DEF GraphsOf
<1>7. RefsOf(ds2) = RefsOf(ds) \cup {[graph |-> ds[i].id, node |-> n, to |-> gid]}
  <2> DEFINE new == [graph |-> ds[i].id, node |-> n, to |-> gid]
  <2>1. ASSUME NEW r \in RefsOf(ds2) PROVE r \in RefsOf(ds) \/ r = new
    <3>1. PICK j \in DOMAIN ds2, m \in NodeId :
            /\ ds2[j].sub[m] # NoRef
            /\ r = [graph |-> ds2[j].id, node |-> m, to |-> ds2[j].sub[m]]
      BY <2>1 DEF RefsOf
    <3>2. j \in DOMAIN ds
      BY <3>1, <1>4, <1>5
    <3>3. CASE j = i /\ m = n
      BY <3>1, <3>2, <3>3, <1>3
    <3>4. CASE ~(j = i /\ m = n)
      <4>1. ds2[j].sub[m] = ds[j].sub[m] /\ ds2[j].id = ds[j].id
        BY <3>2, <3>4, <1>3
      <4>2. r \in RefsOf(ds)
        BY <3>1, <3>2, <4>1 DEF RefsOf
      <4>3. QED
        BY <4>2
    <3>5. QED
      BY <3>3, <3>4
  <2>2. ASSUME NEW r \in RefsOf(ds) PROVE r \in RefsOf(ds2)
    <3>1. PICK j \in DOMAIN ds, m \in NodeId :
            /\ ds[j].sub[m] # NoRef
            /\ r = [graph |-> ds[j].id, node |-> m, to |-> ds[j].sub[m]]
      BY <2>2 DEF RefsOf
    <3>2. ds2[j].sub[m] = ds[j].sub[m] /\ ds2[j].id = ds[j].id /\ j \in DOMAIN ds2
      BY <3>1, <1>3, <1>5
    <3>3. QED
      BY <3>1, <3>2 DEF RefsOf
  <2>3. new \in RefsOf(ds2)
    <3>1. ds2[i].id = ds[i].id /\ ds2[i].sub[n] = gid /\ i \in DOMAIN ds2
      BY <1>1, <1>3, <1>5
    <3>2. QED
      BY <3>1, <1>1 DEF RefsOf
  <2> HIDE DEF new
  <2>4. RefsOf(ds2) = RefsOf(ds) \cup {new}
    BY <2>1, <2>2, <2>3
  <2>5. QED
    BY <2>4 DEF new
<1>8. QED
  BY <1>2, <1>6, <1>7

\* A node the contract finds pending is one that waits.
LEMMA PendingWaits ==
  ASSUME builders \in [Graph -> Builder], NEW ds, ds \in Seq(DocumentType), Unique(ds),
         NEW G, G \subseteq GapType,
         SeenGraphs = GraphsOf(ds), SeenRefs = RefsOf(ds), SeenRefused = RefusedOf(G),
         NEW i \in DOMAIN ds, NEW n \in NodeId, NEW g, g = GraphOf(ds[i])
  PROVE  /\ Contract!Pending(g, n) <=> Waits(builders, ds, G, i, n)
         /\ Waits(builders, ds, G, i, n) =>
              Contract!Child(g, n) = builders[ds[i].obj].runnable[n]
<1>1. PICK b, x : b = builders[ds[i].obj] /\ x = ds[i]
  OBVIOUS
<1>2. x \in DocumentType
  BY <1>1, ElementOfSeq
<1>3. /\ b \in Builder /\ g.id = x.id /\ g.obj = x.obj /\ g.depth = x.depth /\ x.obj \in Graph
      /\ x.id \in Seq(Token)
  BY <1>1, <1>2 DEF GraphOf, DocumentType
<1>4. /\ SeenWorld[g.obj].runtime = b.nodes \cup {START}
      /\ SeenWorld[g.obj].same = b.nodes \ b.wrapped
      /\ SeenWorld[g.obj].bound = b.runnable
      /\ SeenDeclared[g.obj][n] = NoChild
  BY <1>1, <1>3 DEF SeenWorld, SeenDeclared, CompiledFrom, AsCompiled
<1>5. Contract!Child(g, n) = IF n \in b.nodes \ b.wrapped THEN b.runnable[n] ELSE NoChild
  <2>1. Contract!RuntimeMapped(SeenWorld[g.obj], n) <=> n \in b.nodes \ b.wrapped
    BY <1>4 DEF Contract!RuntimeMapped
  <2>2. Contract!DirectBoundChild(SeenWorld[g.obj], n)
          = IF n \in b.nodes \ b.wrapped THEN b.runnable[n] ELSE NoChild
    BY <2>1, <1>4 DEF Contract!DirectBoundChild
  <2>3. Contract!DeclaredChild(SeenWorld[g.obj], SeenDeclared[g.obj], n) = NoChild
    BY <1>4 DEF Contract!DeclaredChild
  <2>4. QED
    BY <2>2, <2>3 DEF Contract!Child, Contract!MappedCompiledChild
<1>6. (\A r \in SeenRefs : ~(r.graph = g.id /\ r.node = n)) <=> x.sub[n] = NoRef
  <2>1. ASSUME x.sub[n] # NoRef
        PROVE  \E r \in SeenRefs : r.graph = g.id /\ r.node = n
    <3>1. PICK r : r = [graph |-> ds[i].id, node |-> n, to |-> ds[i].sub[n]]
      OBVIOUS
    <3>2. r \in SeenRefs
      BY <2>1, <3>1, <1>1 DEF RefsOf
    <3>3. QED
      BY <3>1, <3>2, <1>1, <1>3
  <2>2. ASSUME NEW r \in SeenRefs, r.graph = g.id, r.node = n
        PROVE  x.sub[n] # NoRef
    <3>1. PICK j \in DOMAIN ds, m \in NodeId :
            /\ ds[j].sub[m] # NoRef
            /\ r = [graph |-> ds[j].id, node |-> m, to |-> ds[j].sub[m]]
      BY <2>2 DEF RefsOf
    <3>2. ds[j].id = ds[i].id /\ m = n
      BY <3>1, <2>2, <1>1, <1>3
    <3>3. QED
      BY <3>1, <3>2, <1>1 DEF Unique
  <2>3. QED
    BY <2>1, <2>2
<1>7. [graph |-> g.id, node |-> n] \in SeenRefused <=> Collision(x.id, n) \in G
  <2>1. ASSUME [graph |-> g.id, node |-> n] \in SeenRefused PROVE Collision(x.id, n) \in G
    <3>1. PICK y \in G : /\ y.code = "child-graph-id-collision"
                         /\ [graph |-> g.id, node |-> n] = [graph |-> y.graph, node |-> y.node]
      BY <2>1 DEF RefusedOf
    <3>2. y = [code |-> y.code, graph |-> y.graph, node |-> y.node]
      BY DEF GapType
    <3>3. y.graph = x.id /\ y.node = n
      BY <3>1, <1>3
    <3>4. QED
      BY <3>1, <3>2, <3>3 DEF Collision
  <2>2. ASSUME Collision(x.id, n) \in G PROVE [graph |-> g.id, node |-> n] \in SeenRefused
    <3>1. PICK y : y = Collision(x.id, n)
      OBVIOUS
    <3>2. y.code = "child-graph-id-collision" /\ y.graph = g.id /\ y.node = n
      BY <3>1, <1>3 DEF Collision
    <3>3. QED
      BY <2>2, <3>1, <3>2 DEF RefusedOf
  <2>3. QED
    BY <2>1, <2>2
<1>8. Waits(builders, ds, G, i, n) <=>
        /\ x.depth > 0 /\ n \in b.nodes \ b.wrapped /\ b.runnable[n] # NoChild
        /\ x.sub[n] = NoRef /\ Collision(x.id, n) \notin G
  BY <1>1 DEF Waits
<1>9. Contract!Pending(g, n) <=>
        /\ x.depth > 0 /\ n \in b.nodes \cup {START} /\ Contract!Child(g, n) # NoChild
        /\ x.sub[n] = NoRef /\ Collision(x.id, n) \notin G
  BY <1>3, <1>4, <1>6, <1>7 DEF Contract!Pending
<1>10. QED
  BY <1>1, <1>5, <1>8, <1>9

\* A loop whose graphs are the ones the contract sees.
Watched(ds, st) ==
  /\ LoopInv(builders, ds, st, NoResult, {"looping"}) /\ st # << >> /\ AllLegible(builders, ds)
  /\ SeenGraphs = GraphsOf(ds) /\ SeenRefs = RefsOf(ds)
  /\ SeenRefused = RefusedOf(Found(st, NoResult))

LEMMA SeenIds ==
  ASSUME NEW ds, SeenGraphs = GraphsOf(ds)
  PROVE  Contract!Ids = Ids(ds)
<1>1. \A j \in DOMAIN ds : GraphOf(ds[j]).id = ds[j].id
  BY DEF GraphOf
<1>2. Contract!Ids = {g.id : g \in GraphsOf(ds)}
  BY DEF Contract!Ids
<1>3. {g.id : g \in GraphsOf(ds)} = Ids(ds)
  BY <1>1 DEF GraphsOf, Ids
<1>4. QED
  BY <1>2, <1>3

\* The nodes such a loop has still to come to, as the contract sees them.
LEMMA WatchedNodes ==
  ASSUME builders \in [Graph -> Builder], NEW ds, NEW st, Watched(ds, st),
         NEW i, i = st[Len(st)].doc, NEW g, g = GraphOf(ds[i])
  PROVE  /\ i \in DOMAIN ds /\ g \in SeenGraphs
         /\ \A n \in st[Len(st)].todo : Holds(builders, ds[i], n) # NoChild =>
              /\ n \in NodeId /\ Contract!Pending(g, n) /\ ds[i].sub[n] = NoRef
              /\ Contract!Child(g, n) = Holds(builders, ds[i], n)
         /\ \A n : Contract!DerivedId(g.id, n) = DerivedId(ds[i].id, n)
<1>1. /\ LoopInv(builders, ds, st, NoResult, {"looping"}) /\ st # << >> /\ AllLegible(builders, ds)
      /\ SeenGraphs = GraphsOf(ds) /\ SeenRefs = RefsOf(ds)
      /\ SeenRefused = RefusedOf(Found(st, NoResult))
  BY DEF Watched
<1>2. Shapes(ds, st, NoResult) /\ DocsInv(builders, ds)
  BY <1>1 DEF LoopInv
<1>3. ds \in Seq(DocumentType) /\ Unique(ds)
  BY <1>2 DEF Shapes, DocsInv
<1>4. i \in DOMAIN ds /\ ds[i] \in DocumentType
  BY <1>1, <1>2, Elements
<1>5. g \in SeenGraphs /\ g.id = ds[i].id
  BY <1>1, <1>4 DEF GraphsOf, GraphOf
<1>6. PICK G : G = Found(st, NoResult)
  OBVIOUS
<1>7. G \subseteq GapType
  <2>1. NoResult.gaps = {}
    BY DEF NoResult
  <2>2. \A k \in DOMAIN st : st[k].gaps \subseteq GapType /\ st[k].result.gaps \subseteq GapType
    <3>1. \A k \in DOMAIN st : st[k] \in LoopFrame(DOMAIN ds)
      BY <1>2, Elements, SMTT(60)
    <3>2. QED
      BY <3>1 DEF LoopFrame, ResultType
  <2>3. QED
    BY <1>6, <2>1, <2>2 DEF Found
<1>8. ASSUME NEW n \in st[Len(st)].todo, Holds(builders, ds[i], n) # NoChild
      PROVE  /\ n \in NodeId /\ Contract!Pending(g, n) /\ ds[i].sub[n] = NoRef
             /\ Contract!Child(g, n) = Holds(builders, ds[i], n)
  <2>1. n \in NodeId /\ Waits(builders, ds, G, i, n)
    BY <1>1, <1>6, <1>8, AheadWaits
  <2>2. Contract!Pending(g, n) /\ Contract!Child(g, n) = builders[ds[i].obj].runnable[n]
    BY <2>1, <1>1, <1>3, <1>4, <1>6, <1>7, PendingWaits
  <2>3. Holds(builders, ds[i], n) = builders[ds[i].obj].runnable[n]
    BY <1>2, <1>4, <1>8, HoldsRunnable DEF DocsInv
  <2>4. ds[i].sub[n] = NoRef
    BY <2>1 DEF Waits
  <2>5. QED
    BY <2>1, <2>2, <2>3, <2>4
<1>9. \A n : Contract!DerivedId(g.id, n) = DerivedId(ds[i].id, n)
  BY <1>5 DEF Contract!DerivedId, DerivedId
<1>10. QED
  BY <1>4, <1>5, <1>8, <1>9

\* The nodes such a loop passes may be refused, and what it records is that they are.
LEMMA WatchedPassed ==
  ASSUME builders \in [Graph -> Builder], NEW ds, NEW st, Watched(ds, st),
         NEW i, i = st[Len(st)].doc, NEW todo, todo \subseteq st[Len(st)].todo
  PROVE  /\ Passed(builders, ds, ds[i], todo) \subseteq Contract!Taken(GraphOf(ds[i]))
         /\ RefusedOf(RefusedIn(builders, ds, ds[i], todo))
              = Contract!Refusals(GraphOf(ds[i]), Passed(builders, ds, ds[i], todo))
<1>0. PICK g, P : g = GraphOf(ds[i]) /\ P = Passed(builders, ds, ds[i], todo)
  OBVIOUS
<1>1. /\ \A n \in st[Len(st)].todo : Holds(builders, ds[i], n) # NoChild =>
           n \in NodeId /\ Contract!Pending(g, n)
      /\ \A n : Contract!DerivedId(g.id, n) = DerivedId(ds[i].id, n)
  <2>1. g = GraphOf(ds[i]) /\ Watched(ds, st) /\ i = st[Len(st)].doc
    BY <1>0
  <2>2. /\ \A n \in st[Len(st)].todo : Holds(builders, ds[i], n) # NoChild =>
             /\ n \in NodeId /\ Contract!Pending(g, n) /\ ds[i].sub[n] = NoRef
             /\ Contract!Child(g, n) = Holds(builders, ds[i], n)
        /\ \A n : Contract!DerivedId(g.id, n) = DerivedId(ds[i].id, n)
    BY <2>1, WatchedNodes
  <2>3. QED
    BY <2>2
<1>2. Contract!Ids = Ids(ds)
  BY SeenIds DEF Watched
<1>3. P \subseteq Contract!Taken(g)
  BY <1>0, <1>1, <1>2 DEF Passed, Contract!Taken
<1>4. g.id = ds[i].id
  BY <1>0 DEF GraphOf
<1>5. RefusedOf(RefusedIn(builders, ds, ds[i], todo)) = {[graph |-> ds[i].id, node |-> m] : m \in P}
  BY <1>0, RefusedArePassed
<1>6. Contract!Refusals(g, P) = {[graph |-> ds[i].id, node |-> m] : m \in P}
  BY <1>4 DEF Contract!Refusals
<1>7. QED
  BY <1>0, <1>3, <1>5, <1>6

\* What the contract sees of the observed caller.
LEMMA SeenOf ==
  /\ SeenGraphs = GraphsOf(docs[Observed]) /\ SeenRefs = RefsOf(docs[Observed])
  /\ SeenRefused = RefusedOf(Found(stack[Observed], output[Observed]))
BY DEF SeenGraphs, SeenRefs, SeenRefused, AllGaps, Found

LEMMA SeenOfNext ==
  /\ SeenGraphs' = GraphsOf(docs'[Observed]) /\ SeenRefs' = RefsOf(docs'[Observed])
  /\ SeenRefused' = RefusedOf(Found(stack'[Observed], output'[Observed]))
BY DEF SeenGraphs, SeenRefs, SeenRefused, AllGaps, Found

\* At its loop the observed caller is watched, if its graphs are drawn as they are.
LEMMA LoopsWatched ==
  ASSUME Awaiting(Observed), Steady(builders, docs[Observed], stack[Observed]),
         Observed \in Caller,
         NEW L, NEW i, NEW doc, NEW frame, NEW ds1, NEW st1,
         Loops(Observed, L, i, doc, frame, ds1, st1),
         Top(Observed).pc = "drawn" => ~StructureThrows(builders[doc.obj])
  PROVE  /\ Watched(ds1, st1) /\ i \in DOMAIN ds1 /\ ds1[i] = doc /\ frame.doc = i
         /\ st1[Len(st1)] = frame
<1>1. PICK B, ds, st : B = builders /\ ds = docs[Observed] /\ st = stack[Observed]
  OBVIOUS
<1>2. /\ Looping(Observed, L, i, doc, frame, ds1, st1)
      /\ SameView(ds, st, NoResult, ds1, st1, NoResult)
      /\ \A j \in DOMAIN ds : ds1[j].drawable = ds[j].drawable /\ ds1[j].obj = ds[j].obj
      /\ st[Len(st)].pc # "drawing"
  BY <1>1 DEF Loops, Top
<1>3. Entered(B, ds, st, L, i, doc, frame, ds1, st1) /\ output[Observed] = NoResult
      /\ B \in [Graph -> Builder]
  BY <1>1, <1>2 DEF Looping
<1>4. InLoop(B, ds, st, L, i, doc, frame, ds1, st1)
  BY <1>3, EnteredFacts
<1>5. /\ i \in DOMAIN ds1 /\ ds1[i] = doc /\ frame.doc = i /\ st1 # << >>
      /\ st1[Len(st1)] = frame /\ DOMAIN ds1 = DOMAIN ds
  BY <1>4 DEF InLoop
<1>6. LoopInv(B, ds1, st1, NoResult, {"looping"})
  BY <1>3 DEF Entered
<1>7. LoopInv(builders, docs[Observed], stack[Observed], NoResult, AwaitPoint)
  BY AwaitingFacts
<1>8. Suspended(st, AwaitPoint)
  BY <1>1, <1>7 DEF LoopInv
<1>9. AllLegible(B, ds1)
  <2>1. /\ \A k \in DOMAIN st : st[k].pc # "drawing"
        /\ \A k \in DOMAIN st : st[k].pc = "drawn" => k = Len(st)
    BY <1>2, <1>8 DEF Suspended
  <2>2. st[Len(st)].doc = i
    BY <1>3 DEF Entered
  <2>3. st[Len(st)].pc = "drawn" => ~StructureThrows(B[ds1[i].obj])
    BY <1>1, <1>5 DEF Top
  <2>4. Steady(B, ds, st)
    BY <1>1
  <2>5. ASSUME NEW j \in DOMAIN ds PROVE Legible(B, ds1[j])
    <3>1. ds1[j].drawable = ds[j].drawable /\ ds1[j].obj = ds[j].obj
      BY <1>2
    <3>2. \/ Legible(B, ds[j])
          \/ ds[j].drawable = Drawable(B[ds[j].obj]) /\ j = i /\ st[Len(st)].pc = "drawn"
      BY <2>1, <2>2, <2>4 DEF Steady
    <3>3. QED
      BY <3>1, <3>2, <2>3 DEF Legible
  <2>6. QED
    BY <2>5, <1>5 DEF AllLegible
<1>10. /\ SeenGraphs = GraphsOf(ds1) /\ SeenRefs = RefsOf(ds1)
       /\ SeenRefused = RefusedOf(Found(st1, NoResult))
  BY <1>1, <1>2, <1>3, SeenOf DEF SameView
<1>11. Watched(ds1, st1)
  BY <1>1, <1>5, <1>6, <1>9, <1>10 DEF Watched
<1>12. QED
  BY <1>5, <1>11

\* A descent of a watched loop materializes one child and refuses those it passed.
LEMMA MaterializesSeen ==
  ASSUME builders \in [Graph -> Builder], NEW ds1, NEW st1, Watched(ds1, st1),
         NEW doc, NEW frame, NEW ds2, NEW st2,
         Materializes(builders, ds1, st1, doc, frame, ds2, st2),
         st1[Len(st1)] = frame, ds1[frame.doc] = doc,
         SeenGraphs' = GraphsOf(ds2), SeenRefs' = RefsOf(ds2),
         SeenRefused' = RefusedOf(Found(st2, NoResult))
  PROVE  /\ Steady(builders, ds2, st2)
         /\ \E g \in SeenGraphs : \E passed \in SUBSET Contract!Taken(g) : \E n \in NodeId :
              /\ Contract!Pending(g, n) /\ Contract!DerivedId(g.id, n) \notin Contract!Ids
              /\ SeenGraphs' = SeenGraphs \cup
                   {[id |-> Contract!DerivedId(g.id, n), obj |-> Contract!Child(g, n),
                     depth |-> g.depth - 1]}
              /\ SeenRefs' = SeenRefs \cup
                   {[graph |-> g.id, node |-> n, to |-> Contract!DerivedId(g.id, n)]}
              /\ SeenRefused' = SeenRefused \cup Contract!Refusals(g, passed)
<1>1. PICK N, L, i, n, passed, gid, child, R :
        /\ Reached(ds1, st1, NoResult, N, L, i, n, gid, child, R, ds2, st2)
        /\ L = Len(st1) /\ i = frame.doc
        /\ n \in OpenIn(builders, ds1, doc, frame.todo) /\ passed \subseteq frame.todo
        /\ gid = DerivedId(doc.id, n) /\ child = Holds(builders, doc, n)
        /\ R = RefusedIn(builders, ds1, doc, passed)
  BY DEF Materializes
<1>2. PICK g, P : g = GraphOf(ds1[i]) /\ P = Passed(builders, ds1, ds1[i], passed)
  OBVIOUS
<1>3. doc = ds1[i] /\ i = st1[Len(st1)].doc /\ frame.todo = st1[Len(st1)].todo
  BY <1>1
<1>4. /\ n \in frame.todo /\ Holds(builders, ds1[i], n) # NoChild
      /\ gid \notin Ids(ds1)
  BY <1>1, <1>3 DEF OpenIn
<1>5. /\ i \in DOMAIN ds1 /\ g \in SeenGraphs /\ n \in NodeId /\ Contract!Pending(g, n)
      /\ ds1[i].sub[n] = NoRef /\ Contract!Child(g, n) = child
      /\ Contract!DerivedId(g.id, n) = gid
  BY <1>1, <1>2, <1>3, <1>4, WatchedNodes
<1>6. /\ SeenGraphs = GraphsOf(ds1) /\ SeenRefs = RefsOf(ds1) /\ AllLegible(builders, ds1)
      /\ SeenRefused = RefusedOf(Found(st1, NoResult))
  BY DEF Watched
<1>7. gid \notin Contract!Ids
  BY <1>4, <1>6, SeenIds
<1>8. /\ GraphsOf(ds2) = GraphsOf(ds1) \cup {[id |-> gid, obj |-> child, depth |-> ds1[i].depth - 1]}
      /\ RefsOf(ds2) = RefsOf(ds1) \cup {[graph |-> ds1[i].id, node |-> n, to |-> gid]}
  BY <1>1, <1>5, ReachedView
<1>9. g.id = ds1[i].id /\ g.depth = ds1[i].depth
  BY <1>2 DEF GraphOf
<1>10. /\ P \subseteq Contract!Taken(g)
       /\ SeenRefused' = SeenRefused \cup Contract!Refusals(g, P)
  <2>1. Found(st2, NoResult) = Found(st1, NoResult) \cup R
    BY <1>1 DEF Reached
  <2>2. R = RefusedIn(builders, ds1, ds1[i], passed) /\ passed \subseteq st1[Len(st1)].todo
    BY <1>1, <1>3
  <2>3. PICK G : G = Found(st1, NoResult)
    OBVIOUS
  <2>4. P \subseteq Contract!Taken(g) /\ RefusedOf(R) = Contract!Refusals(g, P)
    BY <1>2, <1>3, <2>2, WatchedPassed, SMTT(60)
  <2>5. RefusedOf(G \cup R) = RefusedOf(G) \cup RefusedOf(R)
    BY RefusedUnion
  <2>6. QED
    BY <2>1, <2>3, <2>4, <2>5, <1>6
<1>11. Steady(builders, ds2, st2)
  <2>1. PICK d, rest : FieldsAfter(ds1, st1, NoResult, N, L, i, n, gid, child, d, rest, R, ds2, st2)
    BY <1>1 DEF Reached
  <2>2. /\ L \in Nat \ {0} /\ N \in Nat /\ DOMAIN ds1 = 1..N
        /\ DOMAIN ds2 = 1..(N + 1) /\ DOMAIN st2 = 1..(L + 1)
        /\ \A j \in DOMAIN ds1 : ds2[j].obj = ds1[j].obj /\ ds2[j].drawable = ds1[j].drawable
        /\ st2[L + 1] = Frame(N + 1)
    BY <1>1, <2>1 DEF Reached, FieldsAfter
  <2>3. st2[L + 1].doc = N + 1 /\ st2[L + 1].pc = "drawing" /\ L + 1 \in DOMAIN st2
    BY <2>2 DEF Frame
  <2>4. \A j \in DOMAIN ds2 : j \in DOMAIN ds1 \/ j = N + 1
    BY <2>2
  <2>5. \A j \in DOMAIN ds1 : Legible(builders, ds2[j])
    BY <2>2, <1>6 DEF AllLegible, Legible
  <2>6. QED
    BY <2>3, <2>4, <2>5 DEF Steady
<1>12. QED
  BY <1>5, <1>6, <1>7, <1>8, <1>9, <1>10, <1>11

\* At its end a watched loop refuses those it passed.
LEMMA RefusesSeen ==
  ASSUME builders \in [Graph -> Builder], NEW ds1, NEW st1, Watched(ds1, st1),
         NEW doc, NEW frame, NEW ds2, NEW st2, NEW out2,
         Refuses(builders, ds1, st1, doc, frame, ds2, st2, out2),
         st1[Len(st1)] = frame, ds1[frame.doc] = doc,
         SeenGraphs' = GraphsOf(ds2), SeenRefs' = RefsOf(ds2),
         SeenRefused' = RefusedOf(Found(st2, out2))
  PROVE  /\ Steady(builders, ds2, st2)
         /\ \E g \in SeenGraphs : \E passed \in SUBSET Contract!Taken(g) :
              /\ SeenGraphs' = SeenGraphs /\ SeenRefs' = SeenRefs
              /\ SeenRefused' = SeenRefused \cup Contract!Refusals(g, passed)
<1>1. PICK i, todo, g, P, G, R :
        /\ i = frame.doc /\ todo = frame.todo /\ g = GraphOf(ds1[i])
        /\ P = Passed(builders, ds1, ds1[i], todo)
        /\ G = Found(st1, NoResult) /\ R = RefusedIn(builders, ds1, ds1[i], todo)
  OBVIOUS
<1>2. /\ ClosedIn(ds1, i, ds2)
      /\ Found(st2, out2) = G \cup R
      /\ i = st1[Len(st1)].doc /\ todo = st1[Len(st1)].todo
  BY <1>1 DEF Refuses
<1>3. /\ SeenGraphs = GraphsOf(ds1) /\ SeenRefs = RefsOf(ds1) /\ AllLegible(builders, ds1)
      /\ SeenRefused = RefusedOf(Found(st1, NoResult))
  BY DEF Watched
<1>4. g \in SeenGraphs /\ i \in DOMAIN ds1
  BY <1>1, <1>2, WatchedNodes
<1>5. /\ P \subseteq Contract!Taken(g)
      /\ RefusedOf(G \cup R) = RefusedOf(G) \cup Contract!Refusals(g, P)
  <2>0. todo \subseteq st1[Len(st1)].todo /\ i = st1[Len(st1)].doc
    BY <1>2
  <2>1. /\ Passed(builders, ds1, ds1[i], todo) \subseteq Contract!Taken(GraphOf(ds1[i]))
        /\ RefusedOf(RefusedIn(builders, ds1, ds1[i], todo))
             = Contract!Refusals(GraphOf(ds1[i]), Passed(builders, ds1, ds1[i], todo))
    BY <2>0, WatchedPassed
  <2>2. RefusedOf(G \cup R) = RefusedOf(G) \cup RefusedOf(R)
    BY RefusedUnion
  <2>3. QED
    BY <1>1, <2>1, <2>2
<1>6. SeenRefused' = SeenRefused \cup Contract!Refusals(g, P)
  BY <1>1, <1>2, <1>3, <1>5
<1>7. /\ DOMAIN ds2 = DOMAIN ds1
      /\ \A j \in DOMAIN ds1 :
           /\ ds2[j].id = ds1[j].id /\ ds2[j].obj = ds1[j].obj /\ ds2[j].depth = ds1[j].depth
           /\ ds2[j].drawable = ds1[j].drawable /\ ds2[j].sub = ds1[j].sub
  BY <1>2 DEF ClosedIn
<1>8. GraphsOf(ds2) = GraphsOf(ds1) /\ RefsOf(ds2) = RefsOf(ds1)
  BY <1>7, SameGraphs
<1>9. Steady(builders, ds2, st2)
  BY <1>3, <1>7 DEF AllLegible, Legible, Steady
<1>10. QED
  BY <1>3, <1>4, <1>5, <1>6, <1>8, <1>9

\* A program whose builders stay as compiled.
Compiled == MaxEdits = 0

SteadyInv ==
  /\ TsInv /\ builders \in Built
  /\ phase[Observed] # "raised" => Steady(builders, docs[Observed], stack[Observed])

\* One step of the observed caller: where it keeps the invariant, and what the
\* contract sees.
Refines ==
  /\ phase'[Observed] # "raised" => Steady(builders, docs'[Observed], stack'[Observed])
  /\ Contract!Next \/ UNCHANGED Contract!vars

\* What no step changes, or only the phase does.
LEMMA SeenKept ==
  /\ builders' = builders => SeenWorld' = SeenWorld
  /\ SeenDeclared' = SeenDeclared
  /\ phase'[Observed] = phase[Observed] => SeenPhase' = SeenPhase /\ SeenError' = SeenError
  /\ call'[Observed] = call[Observed] => SeenCall' = SeenCall
<1>1. builders' = builders => SeenWorld' = SeenWorld
  BY DEF SeenWorld
<1>2. SeenDeclared' = SeenDeclared
  BY DEF SeenDeclared
<1>3. phase'[Observed] = phase[Observed] => SeenPhase' = SeenPhase /\ SeenError' = SeenError
  BY DEF SeenPhase, SeenError
<1>4. call'[Observed] = call[Observed] => SeenCall' = SeenCall
  BY DEF SeenCall
<1>5. QED
  BY <1>1, <1>2, <1>3, <1>4

LEMMA CallKept ==
  ASSUME NEW c \in Caller, Extract(c)
  PROVE  call' = call
<1>1. ASSUME NEW doc, NEW frame, Proceed(c, doc, frame) \/ Throw(c) PROVE call' = call
  BY <1>1, ZenonT(60) DEF Proceed, Throw, Close, Descend
<1>2. CASE Build(c)
  BY <1>1, <1>2 DEF Build
<1>3. CASE Resume(c)
  BY <1>1, <1>3 DEF Resume
<1>4. QED
  BY <1>2, <1>3, SMTT(60) DEF Extract, Draw, Finish

\* The graphs of a program the contract takes for unreadable are those that make
\* builderStructure throw.
LEMMA RejectedThrow ==
  ASSUME NEW g \in Graph, builders \in Built
  PROVE  SeenWorld[g] \in Rejected <=> StructureThrows(builders[g])
<1>1. PICK b : b = builders[g]
  OBVIOUS
<1>2. SeenWorld[g] = AsCompiled(b)
  BY <1>1 DEF SeenWorld, CompiledFrom
<1>3. b \in UNION {{w[h] : h \in Graph} : w \in Built}
  BY <1>1
<1>4. ASSUME StructureThrows(b) PROVE AsCompiled(b) \in Rejected
  BY <1>3, <1>4 DEF Rejected
<1>5. ASSUME AsCompiled(b) \in Rejected PROVE StructureThrows(b)
  <2>1. PICK x : StructureThrows(x) /\ AsCompiled(b) = AsCompiled(x)
    BY <1>5 DEF Rejected
  <2>2. AsCompiled(b).joins = b.joins /\ AsCompiled(x).joins = x.joins
    BY DEF AsCompiled
  <2>3. b.joins = x.joins
    BY <2>1, <2>2
  <2>4. QED
    BY <2>1, <2>3 DEF StructureThrows
<1>6. QED
  BY <1>1, <1>2, <1>4, <1>5

\* The step of another caller is none of the contract's.
LEMMA OtherRefines ==
  ASSUME builders' = builders, Untouched(Observed), call'[Observed] = call[Observed],
         phase[Observed] # "raised" => Steady(builders, docs[Observed], stack[Observed])
  PROVE  Refines
<1>1. /\ phase'[Observed] = phase[Observed] /\ docs'[Observed] = docs[Observed]
      /\ stack'[Observed] = stack[Observed] /\ output'[Observed] = output[Observed]
  BY DEF Untouched
<1>2. SeenGraphs' = SeenGraphs /\ SeenRefs' = SeenRefs /\ SeenRefused' = SeenRefused
  BY <1>1, SeenOf, SeenOfNext
<1>3. UNCHANGED Contract!vars
  BY <1>1, <1>2, SeenKept DEF Contract!vars
<1>4. QED
  BY <1>1, <1>3 DEF Refines

\* A call that meets a graph whose structure cannot be read is abandoned.
LEMMA ThrowRefines ==
  ASSUME SteadyInv, Awaiting(Observed), OwnStep(Observed), Throw(Observed),
         NEW L, NEW i, NEW doc, NEW frame, NEW ds1, NEW st1,
         Loops(Observed, L, i, doc, frame, ds1, st1), StructureThrows(builders[doc.obj])
  PROVE  Refines
<1>0. Observed \in Caller
  BY CallersAssumption DEF CallerAssumption
<1>1. PICK B, ds, st : B = builders /\ ds = docs[Observed] /\ st = stack[Observed]
  OBVIOUS
<1>2. /\ Looping(Observed, L, i, doc, frame, ds1, st1)
      /\ \A j \in DOMAIN ds : ds1[j].obj = ds[j].obj
  BY <1>1 DEF Loops
<1>3. Entered(B, ds, st, L, i, doc, frame, ds1, st1) /\ output[Observed] = NoResult
  BY <1>1, <1>2 DEF Looping
<1>4. InLoop(B, ds, st, L, i, doc, frame, ds1, st1)
  BY <1>3, EnteredFacts
<1>5. i \in DOMAIN ds /\ ds[i].obj = doc.obj
  BY <1>2, <1>4 DEF InLoop
<1>6. PICK g : g = GraphOf(ds[i])
  OBVIOUS
<1>7. g \in SeenGraphs /\ g.obj = doc.obj
  BY <1>1, <1>5, <1>6, SeenOf DEF GraphsOf, GraphOf
<1>8. doc.obj \in Graph
  <2>1. Shapes(ds, st, NoResult)
    BY <1>0, <1>1, AwaitingFacts
  <2>2. ds[i] \in DocumentType
    BY <2>1, <1>5, Elements
  <2>3. QED
    BY <2>2, <1>5 DEF DocumentType
<1>9. SeenWorld[g.obj] \in Rejected
  BY <1>7, <1>8, RejectedThrow DEF SteadyInv
<1>10. /\ phase[Observed] = "extracting" /\ phase'[Observed] = "raised"
       /\ stack'[Observed] = << >> /\ docs'[Observed] = docs[Observed]
       /\ output'[Observed] = NoResult /\ builders' = builders
       /\ call'[Observed] = call[Observed]
  BY <1>0, <1>3 DEF Throw, Awaiting, Arrays
<1>11. SeenGraphs' = SeenGraphs /\ SeenRefs' = SeenRefs
  BY <1>10, SeenOf, SeenOfNext
<1>12. SeenRefused' = {}
  <2>1. PICK none : none = stack'[Observed] /\ DOMAIN none = {}
    BY <1>10
  <2>2. Found(none, NoResult) = {}
    BY <2>1 DEF Found, NoResult
  <2>3. RefusedOf({}) = {}
    BY DEF RefusedOf
  <2>4. QED
    BY <1>10, <2>1, <2>2, <2>3, SeenOfNext
<1>13. SeenWorld' = SeenWorld /\ SeenDeclared' = SeenDeclared /\ SeenCall' = SeenCall
  BY <1>10, SeenKept
<1>14. SeenPhase = "extracting" /\ SeenPhase' = "raised" /\ SeenError' = "TypeError"
  BY <1>10 DEF SeenPhase, SeenError
<1>15. Contract!Abandon
  BY <1>7, <1>9, <1>11, <1>12, <1>13, <1>14 DEF Contract!Abandon
<1>16. Contract!Next
  BY <1>15 DEF Contract!Next
<1>17. QED
  BY <1>10, <1>16 DEF Refines

\* Build and Resume materialize a child, close a graph, or meet one they cannot read.
LEMMA LoopsRefine ==
  ASSUME SteadyInv, Awaiting(Observed), OwnStep(Observed), call' = call,
         Build(Observed) \/ Resume(Observed)
  PROVE  Refines
<1>0. Observed \in Caller
  BY CallersAssumption DEF CallerAssumption
<1>1. PICK L, i, doc, frame, ds1, st1 : Loops(Observed, L, i, doc, frame, ds1, st1)
  BY <1>0, BuildLoops, ResumeLoops
<1>a. CASE Throw(Observed) /\ StructureThrows(builders[doc.obj])
  BY <1>1, <1>a, ThrowRefines
<1>b. SUFFICES ASSUME Proceed(Observed, doc, frame),
                      Top(Observed).pc = "drawn" => ~StructureThrows(builders[doc.obj])
               PROVE  Refines
  BY <1>1, <1>a DEF Loops
<1>c. Steady(builders, docs[Observed], stack[Observed])
  BY DEF SteadyInv, Awaiting
<1>2. /\ Watched(ds1, st1) /\ i \in DOMAIN ds1 /\ ds1[i] = doc /\ frame.doc = i
      /\ st1[Len(st1)] = frame
  BY <1>0, <1>1, <1>b, <1>c, LoopsWatched
<1>3. Looping(Observed, L, i, doc, frame, ds1, st1) /\ Proceed(Observed, doc, frame)
  BY <1>1, <1>b DEF Loops
<1>4. /\ builders \in [Graph -> Builder] /\ phase[Observed] = "extracting"
  BY DEF Awaiting
<1>5. ~StructureThrows(builders[doc.obj])
  BY <1>2 DEF Watched, AllLegible, Legible
<1>6. builders' = builders
  BY DEF OwnStep
<1>7. SeenPhase = "extracting"
  BY <1>4 DEF SeenPhase
<1>8. CASE \E n \in Open(Observed, doc, frame.todo) :
             /\ \A m \in Open(Observed, doc, frame.todo) : Rank[n] <= Rank[m]
             /\ Descend(Observed, doc, frame, n)
  <2>1. /\ Materializes(builders, ds1, st1, doc, frame, docs'[Observed], stack'[Observed])
        /\ phase'[Observed] = "extracting" /\ output'[Observed] = NoResult
    BY <1>0, <1>3, <1>8, DescendStep
  <2>2. PICK ds2, st2 : ds2 = docs'[Observed] /\ st2 = stack'[Observed]
    OBVIOUS
  <2>3. /\ SeenGraphs' = GraphsOf(ds2) /\ SeenRefs' = RefsOf(ds2)
        /\ SeenRefused' = RefusedOf(Found(st2, NoResult))
    BY <2>1, <2>2, SeenOfNext
  <2>4. Materializes(builders, ds1, st1, doc, frame, ds2, st2)
    BY <2>1, <2>2
  <2>5. /\ Steady(builders, ds2, st2)
        /\ \E g \in SeenGraphs : \E passed \in SUBSET Contract!Taken(g) : \E n \in NodeId :
             /\ Contract!Pending(g, n) /\ Contract!DerivedId(g.id, n) \notin Contract!Ids
             /\ SeenGraphs' = SeenGraphs \cup
                  {[id |-> Contract!DerivedId(g.id, n), obj |-> Contract!Child(g, n),
                    depth |-> g.depth - 1]}
             /\ SeenRefs' = SeenRefs \cup
                  {[graph |-> g.id, node |-> n, to |-> Contract!DerivedId(g.id, n)]}
             /\ SeenRefused' = SeenRefused \cup Contract!Refusals(g, passed)
    BY <1>2, <1>4, <2>3, <2>4, MaterializesSeen
  <2>6. PICK g, passed, n :
             /\ g \in SeenGraphs /\ n \in NodeId /\ passed \in SUBSET Contract!Taken(g)
             /\ Contract!Pending(g, n) /\ Contract!DerivedId(g.id, n) \notin Contract!Ids
             /\ SeenGraphs' = SeenGraphs \cup
                  {[id |-> Contract!DerivedId(g.id, n), obj |-> Contract!Child(g, n),
                    depth |-> g.depth - 1]}
             /\ SeenRefs' = SeenRefs \cup
                  {[graph |-> g.id, node |-> n, to |-> Contract!DerivedId(g.id, n)]}
             /\ SeenRefused' = SeenRefused \cup Contract!Refusals(g, passed)
    BY <2>5
  <2>7. /\ SeenWorld' = SeenWorld /\ SeenDeclared' = SeenDeclared /\ SeenPhase' = SeenPhase
        /\ SeenCall' = SeenCall /\ SeenError' = SeenError
    BY <1>4, <1>6, <2>1, SeenKept
  <2>8. Contract!Materialize(g, n, passed)
    BY <1>7, <2>6, <2>7 DEF Contract!Materialize
  <2>9. Contract!Next
    BY <2>6, <2>8 DEF Contract!Next
  <2>10. QED
    BY <2>2, <2>5, <2>9 DEF Refines
<1>9. CASE Open(Observed, doc, frame.todo) = {} /\ Close(Observed, doc, frame)
  <2>1. /\ Refuses(builders, ds1, st1, doc, frame, docs'[Observed], stack'[Observed], output'[Observed])
        /\ phase'[Observed] \in {"extracting", "extracted"}
    BY <1>0, <1>3, <1>9, CloseStep
  <2>2. PICK ds2, st2, out2 :
          ds2 = docs'[Observed] /\ st2 = stack'[Observed] /\ out2 = output'[Observed]
    OBVIOUS
  <2>3. /\ SeenGraphs' = GraphsOf(ds2) /\ SeenRefs' = RefsOf(ds2)
        /\ SeenRefused' = RefusedOf(Found(st2, out2))
    BY <2>2, SeenOfNext
  <2>4. Refuses(builders, ds1, st1, doc, frame, ds2, st2, out2)
    BY <2>1, <2>2
  <2>5. /\ Steady(builders, ds2, st2)
        /\ \E g \in SeenGraphs : \E passed \in SUBSET Contract!Taken(g) :
             /\ SeenGraphs' = SeenGraphs /\ SeenRefs' = SeenRefs
             /\ SeenRefused' = SeenRefused \cup Contract!Refusals(g, passed)
    BY <1>2, <1>4, <2>3, <2>4, RefusesSeen
  <2>6. PICK g, passed :
             /\ g \in SeenGraphs /\ passed \in SUBSET Contract!Taken(g)
             /\ SeenGraphs' = SeenGraphs /\ SeenRefs' = SeenRefs
             /\ SeenRefused' = SeenRefused \cup Contract!Refusals(g, passed)
    BY <2>5
  <2>7. /\ SeenWorld' = SeenWorld /\ SeenDeclared' = SeenDeclared /\ SeenCall' = SeenCall
    BY <1>6, SeenKept
  <2>8. SeenPhase' = SeenPhase /\ SeenError' = SeenError
    BY <1>4, <2>1 DEF SeenPhase, SeenError
  <2>9. Contract!Refuse(g, passed)
    BY <1>7, <2>6, <2>7, <2>8 DEF Contract!Refuse
  <2>10. Contract!Next
    BY <2>6, <2>9 DEF Contract!Next
  <2>11. QED
    BY <2>2, <2>5, <2>10 DEF Refines
<1>10. QED
  BY <1>3, <1>5, <1>8, <1>9 DEF Proceed

\* What is read of the builder is not seen by the contract.
LEMMA DrawRefines ==
  ASSUME SteadyInv, Awaiting(Observed), OwnStep(Observed), call' = call, Draw(Observed)
  PROVE  Refines
<1>0. Observed \in Caller
  BY CallersAssumption DEF CallerAssumption
<1>1. PICK B, ds, st, L, i, x, f, ds1, st1 :
        /\ B = builders /\ ds = docs[Observed] /\ st = stack[Observed] /\ L = Len(stack[Observed])
        /\ i = Top(Observed).doc /\ x = DrawnDoc(builders, TopDoc(Observed))
        /\ f = Drawn(Top(Observed))
        /\ ds1 = docs'[Observed] /\ st1 = stack'[Observed]
  OBVIOUS
<1>2. /\ i \in DOMAIN ds /\ L \in DOMAIN st /\ Shapes(ds, st, NoResult)
      /\ output[Observed] = NoResult /\ Arrays
      /\ ds[i] \in DocumentType /\ st[L] \in LoopFrame(DOMAIN ds)
  BY <1>0, <1>1, AwaitingFacts DEF Awaiting, Top, TopDoc
<1>3. TopDoc(Observed) = ds[i] /\ Top(Observed) = st[L] /\ st[L].pc = "drawing" /\ st[L].doc = i
  BY <1>1, ZenonT(60) DEF Top, TopDoc, Draw, Running
<1>4. ds1 = [ds EXCEPT ![i] = x]
  <2>1. docs' = [docs EXCEPT ![Observed] = [docs[Observed] EXCEPT ![Top(Observed).doc] =
          [docs[Observed][Top(Observed).doc] EXCEPT
             !.drawable = Drawable(builders[TopDoc(Observed).obj])]]]
    BY DEF Draw
  <2>2. x = [docs[Observed][Top(Observed).doc] EXCEPT
               !.drawable = Drawable(builders[TopDoc(Observed).obj])]
    BY <1>1 DEF DrawnDoc, TopDoc
  <2>3. docs' = [docs EXCEPT ![Observed] = [docs[Observed] EXCEPT ![Top(Observed).doc] = x]]
    BY <2>1, <2>2
  <2>4. QED
    BY <2>3, <1>0, <1>1, <1>2 DEF Arrays
<1>5. st1 = [st EXCEPT ![L] = f]
  <2>1. stack' = [stack EXCEPT ![Observed] = [stack[Observed] EXCEPT ![Len(stack[Observed])] =
                   [stack[Observed][Len(stack[Observed])] EXCEPT !.pc = "drawn"]]]
    BY DEF Draw
  <2>2. f = [stack[Observed][Len(stack[Observed])] EXCEPT !.pc = "drawn"]
    BY <1>1 DEF Drawn, Top
  <2>3. stack' = [stack EXCEPT ![Observed] = [stack[Observed] EXCEPT ![Len(stack[Observed])] = f]]
    BY <2>1, <2>2
  <2>4. QED
    BY <2>3, <1>0, <1>1, <1>2 DEF Arrays
<1>6. /\ x.id = ds[i].id /\ x.obj = ds[i].obj /\ x.depth = ds[i].depth /\ x.sub = ds[i].sub
      /\ x.drawable = Drawable(B[ds[i].obj])
      /\ f.gaps = st[L].gaps /\ f.result = st[L].result
  <2>1. x = [ds[i] EXCEPT !.drawable = Drawable(B[ds[i].obj])]
    BY <1>1, <1>3 DEF DrawnDoc
  <2>2. f = [st[L] EXCEPT !.pc = "drawn"]
    BY <1>1, <1>3 DEF Drawn
  <2>3. PICK d : d = Drawable(B[ds[i].obj])
    OBVIOUS
  <2>4. QED
    BY <2>1, <2>2, <2>3, <1>2 DEF DocumentType, LoopFrame
<1>7. SameView(ds, st, NoResult, ds1, st1, NoResult)
  <2>1. ds \in Seq(DocumentType) /\ st \in Seq(LoopFrame(DOMAIN ds))
    BY <1>2 DEF Shapes
  <2>2. QED
    BY <2>1, <1>2, <1>4, <1>5, <1>6, SameViewAt
<1>8. Steady(builders, ds1, st1)
  <2>1. /\ DOMAIN ds1 = DOMAIN ds /\ \A j \in DOMAIN ds : ds1[j] = IF j = i THEN x ELSE ds[j]
        /\ DOMAIN st1 = DOMAIN st /\ \A k \in DOMAIN st : st1[k] = IF k = L THEN f ELSE st[k]
    BY <1>4, <1>5
  <2>2. Steady(B, ds, st)
    BY <1>1 DEF SteadyInv, Awaiting
  <2>3. ASSUME NEW j \in DOMAIN ds, j # i
        PROVE  \/ Legible(B, ds1[j])
               \/ \E k \in DOMAIN st1 : st1[k].doc = j /\ st1[k].pc = "drawing"
               \/ /\ ds1[j].drawable = Drawable(B[ds1[j].obj])
                  /\ \E k \in DOMAIN st1 : st1[k].doc = j /\ st1[k].pc = "drawn"
    <3>1. ds1[j] = ds[j]
      BY <2>1, <2>3
    <3>2. ASSUME NEW k \in DOMAIN st, st[k].doc = j
          PROVE  st1[k].doc = j /\ st1[k].pc = st[k].pc /\ k \in DOMAIN st1
      <4>1. k # L
        BY <3>2, <2>3, <1>3
      <4>2. QED
        BY <4>1, <3>2, <2>1
    <3>3. QED
      BY <2>2, <3>1, <3>2 DEF Steady
  <2>4. ds1[i].drawable = Drawable(B[ds1[i].obj])
    BY <2>1, <1>2, <1>6
  <2>5. L \in DOMAIN st1 /\ st1[L].doc = i /\ st1[L].pc = "drawn"
    <3>1. f = [st[L] EXCEPT !.pc = "drawn"]
      BY <1>1, <1>3 DEF Drawn
    <3>2. QED
      BY <3>1, <2>1, <1>2, <1>3 DEF LoopFrame
  <2>6. QED
    BY <2>1, <2>3, <2>4, <2>5, <1>1 DEF Steady
<1>9. /\ phase'[Observed] = phase[Observed] /\ output'[Observed] = NoResult
      /\ builders' = builders
  BY <1>2 DEF Draw
<1>10. SeenGraphs' = SeenGraphs /\ SeenRefs' = SeenRefs /\ SeenRefused' = SeenRefused
  BY <1>1, <1>2, <1>7, <1>9, SeenOf, SeenOfNext DEF SameView
<1>11. UNCHANGED Contract!vars
  BY <1>9, <1>10, SeenKept DEF Contract!vars
<1>12. QED
  BY <1>1, <1>8, <1>11 DEF Refines

\* A call that is over holds no child the contract would still find pending.
LEMMA FinishRefines ==
  ASSUME SteadyInv, OwnStep(Observed), call' = call, Finish(Observed)
  PROVE  Refines
<1>0. Observed \in Caller
  BY CallersAssumption DEF CallerAssumption
<1>1. /\ phase[Observed] = "extracted" /\ phase'[Observed] = "returned"
      /\ docs'[Observed] = docs[Observed] /\ stack'[Observed] = stack[Observed]
      /\ output'[Observed] = output[Observed] /\ builders' = builders
  BY <1>0 DEF Finish, SteadyInv, TsInv, Arrays
<1>2. PICK ds, st, out, G :
        /\ ds = docs[Observed] /\ st = stack[Observed] /\ out = output[Observed]
        /\ G = Found(st, out)
  OBVIOUS
<1>3. /\ LoopInv(builders, ds, st, out, AwaitPoint) /\ st = << >>
      /\ Shapes(ds, st, out) /\ DocsInv(builders, ds)
  <2>1. TsInv /\ phase[Observed] # "raised" /\ phase[Observed] # "extracting"
    BY <1>1 DEF SteadyInv
  <2>2. QED
    BY <1>0, <1>2, <2>1, CallerFacts
<1>4. DOMAIN st = {}
  BY <1>3
<1>5. /\ ds \in Seq(DocumentType) /\ Unique(ds) /\ G \subseteq GapType
      /\ \A j \in DOMAIN ds : ds[j] \in DocumentType
  <2>1. out.gaps \subseteq GapType
    BY <1>3 DEF Shapes, ResultType
  <2>2. G \subseteq GapType
    BY <2>1, <1>2, <1>4 DEF Found
  <2>3. QED
    BY <2>2, <1>3, Elements DEF Shapes, DocsInv
<1>6. /\ SeenGraphs = GraphsOf(ds) /\ SeenRefs = RefsOf(ds) /\ SeenRefused = RefusedOf(G)
  BY <1>2, SeenOf
<1>a. \A j \in DOMAIN ds : /\ ds[j].drawable = Drawable(builders[ds[j].obj])
                          /\ ~StructureThrows(builders[ds[j].obj])
  BY <1>1, <1>2, <1>4 DEF SteadyInv, Steady, Legible
<1>b. \A g \in SeenGraphs : SeenWorld[g.obj] \notin Rejected
  <2>1. SUFFICES ASSUME NEW g \in SeenGraphs PROVE SeenWorld[g.obj] \notin Rejected
    OBVIOUS
  <2>2. PICK j \in DOMAIN ds : g = GraphOf(ds[j])
    BY <1>6 DEF GraphsOf
  <2>3. g.obj = ds[j].obj /\ g.obj \in Graph
    BY <2>2, <1>5 DEF GraphOf, DocumentType
  <2>4. QED
    BY <2>3, <1>a, RejectedThrow DEF SteadyInv
<1>7. ASSUME NEW j \in DOMAIN ds, NEW n \in NodeId PROVE ~Waits(builders, ds, G, j, n)
  <2>1. SUFFICES ASSUME Waits(builders, ds, G, j, n) PROVE FALSE
    OBVIOUS
  <2>2. /\ ds[j].depth > 0 /\ n \in builders[ds[j].obj].nodes \ builders[ds[j].obj].wrapped
        /\ builders[ds[j].obj].runnable[n] # NoChild
        /\ ds[j].sub[n] = NoRef /\ Collision(ds[j].id, n) \notin G
    BY <2>1 DEF Waits
  <2>3. ds[j].drawable = Drawable(builders[ds[j].obj])
    BY <1>a
  <2>4. n \in ds[j].drawable.same
    BY <2>2, <2>3 DEF Drawable
  <2>5. ds[j].state = "closed"
    BY <1>3, <1>4 DEF LoopInv, Active
  <2>6. Opaque(ds, st, out, j, n)
    BY <1>3, <2>2, <2>4, <2>5 DEF LoopInv, Accounted
  <2>7. ds[j].depth = 0
    BY <1>2, <1>4, <2>2, <2>6 DEF Opaque, Ahead
  <2>8. QED
    BY <2>2, <2>7
<1>8. \A g \in SeenGraphs, n \in NodeId : ~Contract!Pending(g, n)
  <2>1. SUFFICES ASSUME NEW g \in SeenGraphs, NEW n \in NodeId PROVE ~Contract!Pending(g, n)
    OBVIOUS
  <2>2. PICK j \in DOMAIN ds : g = GraphOf(ds[j])
    BY <1>6 DEF GraphsOf
  <2>3. builders \in [Graph -> Builder]
    BY DEF SteadyInv, TsInv
  <2>4. Contract!Pending(g, n) <=> Waits(builders, ds, G, j, n)
    BY <2>2, <2>3, <1>5, <1>6, PendingWaits
  <2>5. QED
    BY <2>4, <1>7
<1>9. /\ SeenPhase = "extracting" /\ SeenPhase' = "returned" /\ SeenError' = SeenError
      /\ SeenCall.strict = FALSE
  BY <1>1 DEF SeenPhase, SeenError, SeenCall, AsCall
<1>10. SeenGraphs' = SeenGraphs /\ SeenRefs' = SeenRefs /\ SeenRefused' = SeenRefused
  BY <1>1, SeenOf, SeenOfNext
<1>11. SeenWorld' = SeenWorld /\ SeenDeclared' = SeenDeclared /\ SeenCall' = SeenCall
  BY <1>1, SeenKept
<1>12. Contract!Complete
  BY <1>b, <1>8, <1>9, <1>10, <1>11 DEF Contract!Complete
<1>13. Contract!Next
  BY <1>12 DEF Contract!Next
<1>14. Steady(builders, docs'[Observed], stack'[Observed])
  BY <1>1 DEF SteadyInv, Steady
<1>15. QED
  BY <1>13, <1>14 DEF Refines

\* The contract sees nothing of a caller that has not begun.
LEMMA IdleSeen ==
  ASSUME TsInv, phase[Observed] = "idle"
  PROVE  /\ SeenPhase = "building" /\ SeenError = "none" /\ docs[Observed] = << >>
         /\ stack[Observed] = << >> /\ output[Observed] = NoResult
         /\ SeenGraphs = {} /\ SeenRefs = {} /\ SeenRefused = {}
<1>1. Observed \in Caller
  BY CallersAssumption DEF CallerAssumption
<1>2. /\ docs[Observed] = << >> /\ stack[Observed] = << >> /\ output[Observed] = NoResult
  BY <1>1 DEF TsInv, CallerOK, CallerInv
<1>3. PICK ds, st : ds = docs[Observed] /\ st = stack[Observed] /\ DOMAIN ds = {} /\ DOMAIN st = {}
  BY <1>2
<1>4. GraphsOf(ds) = {} /\ RefsOf(ds) = {}
  BY <1>3 DEF GraphsOf, RefsOf
<1>5. Found(st, NoResult) = {}
  BY <1>3 DEF Found, NoResult
<1>6. RefusedOf({}) = {}
  BY DEF RefusedOf
<1>7. SeenPhase = "building" /\ SeenError = "none"
  BY DEF SeenPhase, SeenError
<1>8. QED
  BY <1>2, <1>3, <1>4, <1>5, <1>6, <1>7, SeenOf

LEMMA BeginRefines ==
  ASSUME SteadyInv, OwnStep(Observed), NEW a \in Call, Begin(Observed, a)
  PROVE  Refines
<1>0. Observed \in Caller
  BY CallersAssumption DEF CallerAssumption
<1>1. /\ phase[Observed] = "idle" /\ Acceptable(a) /\ TsInv
  BY DEF Begin, SteadyInv
<1>2. PICK doc, f, ds, st :
        /\ doc = Document(a.graphId, a.root, a.depth) /\ f = Frame(1)
        /\ ds = <<doc>> /\ st = <<f>>
  OBVIOUS
<1>3. /\ phase'[Observed] = "extracting" /\ call'[Observed] = a
      /\ docs'[Observed] = ds /\ stack'[Observed] = st /\ output'[Observed] = NoResult
      /\ builders' = builders
  BY <1>0, <1>1, <1>2, IdleSeen DEF Begin, TsInv, Arrays
<1>4. /\ DOMAIN ds = {1} /\ ds[1] = doc /\ DOMAIN st = {1} /\ st[1] = f
      /\ GraphOf(doc) = [id |-> a.graphId, obj |-> a.root, depth |-> a.depth]
      /\ \A n \in NodeId : doc.sub[n] = NoRef
      /\ f.doc = 1 /\ f.pc = "drawing" /\ f.gaps = {} /\ f.result.gaps = {}
  BY <1>2 DEF GraphOf, Document, Frame, NoResult
<1>5. GraphsOf(ds) = {[id |-> a.graphId, obj |-> a.root, depth |-> a.depth]} /\ RefsOf(ds) = {}
  BY <1>4 DEF GraphsOf, RefsOf
<1>6. RefusedOf(Found(st, NoResult)) = {}
  <2>1. Found(st, NoResult) = {}
    BY <1>4 DEF Found, NoResult
  <2>2. QED
    BY <2>1 DEF RefusedOf
<1>7. /\ SeenGraphs' = {[id |-> a.graphId, obj |-> a.root, depth |-> a.depth]}
      /\ SeenRefs' = SeenRefs /\ SeenRefused' = SeenRefused
  BY <1>1, <1>3, <1>5, <1>6, IdleSeen, SeenOfNext
<1>8. /\ SeenPhase = "building" /\ SeenPhase' = "extracting" /\ SeenError' = SeenError
      /\ SeenCall' = AsCall(a)
  BY <1>1, <1>3 DEF SeenPhase, SeenError, SeenCall
<1>9. SeenWorld' = SeenWorld /\ SeenDeclared' = SeenDeclared
  BY <1>3, SeenKept
<1>10. PICK k : k = AsCall(a)
  OBVIOUS
<1>11. /\ k.supported = a.supported /\ k.root = a.root /\ k.graphId = a.graphId
       /\ k.depth = a.depth
  BY <1>10 DEF AsCall
<1>12. Contract!Acceptable(k)
  BY <1>1, <1>11 DEF Acceptable, Contract!Acceptable
<1>13. Contract!Begin(k)
  BY <1>7, <1>8, <1>9, <1>10, <1>11, <1>12 DEF Contract!Begin
<1>14. Contract!Next
  BY <1>10, <1>13 DEF Contract!Next
<1>15. Steady(builders, ds, st)
  BY <1>4 DEF Steady
<1>16. QED
  BY <1>3, <1>14, <1>15 DEF Refines

LEMMA RejectRefines ==
  ASSUME SteadyInv, OwnStep(Observed), NEW a \in Call, RejectCall(Observed, a)
  PROVE  Refines
<1>0. Observed \in Caller
  BY CallersAssumption DEF CallerAssumption
<1>1. phase[Observed] = "idle" /\ ~Acceptable(a) /\ TsInv
  BY DEF RejectCall, SteadyInv
<1>2. /\ phase'[Observed] = "raised" /\ call'[Observed] = a
      /\ docs'[Observed] = docs[Observed] /\ stack'[Observed] = stack[Observed]
      /\ output'[Observed] = output[Observed] /\ builders' = builders
  BY <1>0, <1>1 DEF RejectCall, TsInv, Arrays
<1>3. SeenGraphs' = SeenGraphs /\ SeenRefs' = SeenRefs /\ SeenRefused' = SeenRefused
  BY <1>2, SeenOf, SeenOfNext
<1>4. /\ SeenPhase = "building" /\ SeenPhase' = "raised" /\ SeenError' = "TypeError"
      /\ SeenCall' = AsCall(a)
  BY <1>1, <1>2 DEF SeenPhase, SeenError, SeenCall
<1>5. SeenWorld' = SeenWorld /\ SeenDeclared' = SeenDeclared
  BY <1>2, SeenKept
<1>6. PICK k : k = AsCall(a)
  OBVIOUS
<1>7. /\ k.supported = a.supported /\ k.root = a.root /\ k.graphId = a.graphId
      /\ k.depth = a.depth
  BY <1>6 DEF AsCall
<1>8. ~Contract!Acceptable(k)
  BY <1>1, <1>7 DEF Acceptable, Contract!Acceptable
<1>9. Contract!Reject(k)
  BY <1>3, <1>4, <1>5, <1>6, <1>8 DEF Contract!Reject
<1>10. Contract!Next
  BY <1>6, <1>9 DEF Contract!Next
<1>11. QED
  BY <1>2, <1>10 DEF Refines, SteadyInv

LEMMA SteadyInit ==
  ASSUME Init
  PROVE  SteadyInv /\ Contract!Init
<1>0. Observed \in Caller
  BY CallersAssumption DEF CallerAssumption
<1>1. TsInv
  BY TsInit
<1>2. phase[Observed] = "idle" /\ call[Observed] = NoCall /\ builders \in Built
  BY <1>0 DEF Init
<1>3. /\ SeenPhase = "building" /\ SeenError = "none" /\ docs[Observed] = << >>
      /\ SeenGraphs = {} /\ SeenRefs = {} /\ SeenRefused = {}
  BY <1>1, <1>2, IdleSeen
<1>4. Steady(builders, docs[Observed], stack[Observed])
  BY <1>3 DEF Steady
<1>5. SeenWorld \in {CompiledFrom(w) : w \in Built}
  BY <1>2 DEF SeenWorld
<1>6. SeenDeclared = [g \in Graph |-> [n \in NodeId |-> NoChild]]
  BY DEF SeenDeclared
<1>7. SeenCall = Contract!NoCall
  BY <1>2 DEF SeenCall, AsCall, NoCall, Contract!NoCall
<1>8. Contract!Init
  BY <1>3, <1>5, <1>6, <1>7 DEF Contract!Init
<1>9. QED
  BY <1>1, <1>2, <1>4, <1>8 DEF SteadyInv

LEMMA SteadyNext ==
  ASSUME Compiled, SteadyInv, [Next]_vars
  PROVE  SteadyInv' /\ [Contract!Next]_(Contract!vars)
<1>0. /\ Observed \in Caller /\ TsInv
  BY CallersAssumption DEF CallerAssumption, SteadyInv
<1>1. TsInv'
  BY <1>0, TsNext
<1>2. SUFFICES builders' = builders /\ Refines
  BY <1>1 DEF SteadyInv, Refines
<1>3. CASE UNCHANGED vars
  <2>1. builders' = builders /\ call' = call /\ Untouched(Observed)
    BY <1>3 DEF vars, Untouched
  <2>2. QED
    BY <2>1, OtherRefines DEF SteadyInv
<1>4. ASSUME NEW e \in Edit, EditBuilder(e) PROVE FALSE
  BY <1>0, <1>4 DEF EditBuilder, Compiled, TsInv
<1>5. ASSUME NEW c \in Caller, Extract(c) \/ \E a \in Call : RejectCall(c, a) \/ Begin(c, a)
      PROVE  builders' = builders /\ Refines
  <2>1. OwnStep(c)
    BY <1>0, <1>5, CallersStep
  <2>2. builders' = builders
    BY <2>1 DEF OwnStep
  <2>3. CASE c # Observed
    <3>1. Untouched(Observed)
      BY <2>1, <2>3, <1>0 DEF OwnStep
    <3>2. call'[Observed] = call[Observed]
      <4>1. CASE Extract(c)
        BY <4>1, CallKept
      <4>2. ASSUME NEW a \in Call, RejectCall(c, a) \/ Begin(c, a)
            PROVE  call'[Observed] = call[Observed]
        BY <4>2, <2>3, <1>0 DEF RejectCall, Begin, TsInv
      <4>3. QED
        BY <1>5, <4>1, <4>2
    <3>3. QED
      BY <2>2, <3>1, <3>2, OtherRefines DEF SteadyInv
  <2>4. CASE c = Observed
    <3>1. OwnStep(Observed)
      BY <2>1, <2>4
    <3>2. phase[Observed] = "extracting" => Awaiting(Observed)
      BY <1>0 DEF Awaiting, TsInv, CallerOK
    <3>3. CASE Extract(Observed)
      <4>1. call' = call
        BY <1>0, <3>3, CallKept
      <4>2. CASE Draw(Observed)
        BY <2>2, <3>1, <3>2, <4>1, <4>2, DrawRefines DEF Draw, Running
      <4>3. CASE Build(Observed) \/ Resume(Observed)
        <5>1. phase[Observed] = "extracting"
          BY <4>3 DEF Build, Resume, Running
        <5>2. QED
          BY <5>1, <2>2, <3>1, <3>2, <4>1, <4>3, LoopsRefine
      <4>4. CASE Finish(Observed)
        BY <2>2, <3>1, <4>1, <4>4, FinishRefines
      <4>5. QED
        BY <3>3, <4>2, <4>3, <4>4 DEF Extract
    <3>4. ASSUME NEW a \in Call, RejectCall(Observed, a) \/ Begin(Observed, a) PROVE Refines
      BY <3>1, <3>4, BeginRefines, RejectRefines
    <3>5. QED
      BY <1>5, <2>2, <2>4, <3>3, <3>4
  <2>5. QED
    BY <2>3, <2>4
<1>6. QED
  BY <1>3, <1>4, <1>5 DEF Next

\* While the builders stay as they were compiled, each call of the TypeScript
\* describe(), interleaved with any number of others, does what the contract allows,
\* the one the Python producer keeps: no address given twice, none but a taken address
\* refused, and nothing returned where builderStructure throws for some graph.
THEOREM TsImplementsContract ==
  ASSUME Compiled
  PROVE  Spec => ImplementsContract
<1>1. Init => SteadyInv /\ Contract!Init
  BY SteadyInit
<1>2. SteadyInv /\ [Next]_vars => SteadyInv' /\ [Contract!Next]_(Contract!vars)
  BY SteadyNext
<1>3. QED
  BY <1>1, <1>2, PTL DEF Spec, ImplementsContract, Contract!Spec
===============================================================================
