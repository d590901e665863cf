--------------------------- MODULE PyExtractProofs ---------------------------
(***************************************************************************)
(* Proofs about PyExtract, for every set of node ids, compiled objects,     *)
(* declarations and calls: types, ids, references and depth, what the         *)
(* recursion hands upwards, and that it implements ExtractContract.           *)
(***************************************************************************)
EXTENDS PyExtract, SequenceTheorems, TLAPS

-------------------------------------------------------------------------------
(* Lemmas about the operators the actions are built from.                   *)

\* A derived graph id is a non-empty string.
LEMMA DerivedIdType ==
  ASSUME NEW gid \in Seq(Token), NEW n \in NodeId
  PROVE  DerivedId(gid, n) \in Seq(Token) /\ DerivedId(gid, n) # << >>
BY IdsAssumption DEF NodeIdAssumption, DerivedId

\* What a node of a compiled graph holds is a compiled graph or nothing.
LEMMA ChildType ==
  ASSUME world \in World, declared \in [Graph -> [NodeId -> ChildOrNone]],
         NEW doc, doc.obj \in Graph, NEW n \in NodeId
  PROVE  ChildOf(doc, n) \in ChildOrNone
<1>1. world[doc.obj] \in CompiledGraph
  BY ObjectsAssumption DEF WorldAssumption
<1>2. world[doc.obj].bound[n] \in ChildOrNone
  BY <1>1 DEF CompiledGraph
<1>3. declared[doc.obj][n] \in ChildOrNone
  OBVIOUS
<1>4. NoChild \in ChildOrNone
  BY DEF ChildOrNone
<1>5. QED
  BY <1>2, <1>3, <1>4
     DEF ChildOf, MappedCompiledChild, DirectBoundChild, DeclaredChild

\* A new document and a new frame have their types.
LEMMA NewDocumentType ==
  ASSUME NEW gid \in Seq(Token), NEW g \in Graph, NEW d \in Nat
  PROVE  Document(gid, g, d) \in DocumentType
<1>1. << >> \in Seq(Token)
  OBVIOUS
<1>2. QED
  BY <1>1 DEF Document, DocumentType, NoRef

LEMMA NewFrameType ==
  ASSUME world \in World, NEW I, NEW i \in I,
         NEW gid \in Seq(Token), NEW g \in Graph, NEW d \in Nat
  PROVE  Frame(i, gid, g, d) \in FrameType(I)
<1>1. world[g] \in CompiledGraph
  BY ObjectsAssumption DEF WorldAssumption
<1>2. world[g].runtime \subseteq NodeId
  BY <1>1 DEF CompiledGraph
<1>3. RouterGaps(gid, g) \subseteq GapType
  BY DEF RouterGaps, UnknownRouters, GapType, GapCode
<1>4. QED
  BY <1>2, <1>3 DEF Frame, FrameType

LEMMA FrameTypeMonotonic ==
  ASSUME NEW I, NEW J, I \subseteq J, NEW s \in Seq(FrameType(I))
  PROVE  s \in Seq(FrameType(J))
<1>1. FrameType(I) \subseteq FrameType(J)
  BY DEF FrameType
<1>2. QED
  BY <1>1, SeqMonotonic

\* Replacing an element, and appending one, to a sequence of elements of S.
LEMMA ReplaceElement ==
  ASSUME NEW S, NEW s \in Seq(S), NEW i \in DOMAIN s, NEW e \in S
  PROVE  LET r == [s EXCEPT ![i] = e] IN
         /\ r \in Seq(S) /\ Len(r) = Len(s) /\ DOMAIN r = DOMAIN s
         /\ \A j \in DOMAIN s : r[j] = IF j = i THEN e ELSE s[j]
<1>1. DOMAIN s = 1..Len(s)
  BY LenProperties
<1>2. QED
  BY <1>1, ExceptSeq

LEMMA AppendElement ==
  ASSUME NEW S, NEW s \in Seq(S), NEW e \in S
  PROVE  LET r == Append(s, e) IN
         /\ r \in Seq(S) /\ Len(r) = Len(s) + 1 /\ DOMAIN r = 1..(Len(s) + 1)
         /\ r[Len(s) + 1] = e
         /\ \A j \in DOMAIN s : r[j] = s[j]
<1>1. DOMAIN s = 1..Len(s) /\ Len(s) \in Nat
  BY LenProperties
<1>2. QED
  BY <1>1, AppendProperties

\* The innermost frame and its document exist while the recursion runs.
LEMMA TopType ==
  ASSUME TypeOK, stack # << >>
  PROVE  /\ Len(stack) \in Nat \ {0}
         /\ Len(stack) \in DOMAIN stack
         /\ Top \in FrameType(DOMAIN docs)
         /\ TopDoc \in DocumentType
<1>1. Len(stack) \in Nat \ {0} /\ DOMAIN stack = 1..Len(stack)
  BY EmptySeq DEF TypeOK
<1>2. Top \in FrameType(DOMAIN docs)
  BY <1>1, ElementOfSeq DEF TypeOK, Top
<1>3. Top.doc \in DOMAIN docs
  BY <1>2 DEF FrameType
<1>4. TopDoc \in DocumentType
  BY <1>3, ElementOfSeq DEF TypeOK, TopDoc
<1>5. QED
  BY <1>1, <1>2, <1>4

-------------------------------------------------------------------------------
(* Type correctness.  What makes it inductive is that the stack is empty      *)
(* exactly when no extraction runs, that a frame loops over runtime nodes of *)
(* its graph, and that it loops at all only with budget left.                *)

RecursionInv ==
  /\ phase = "building" => docs = << >>
  /\ phase = "extracting" <=> stack # << >>
  /\ \A k \in DOMAIN stack :
       stack[k].todo # {} => docs[stack[k].doc].depth > 0

TypeInv == TypeOK /\ RecursionInv

LEMMA TypeInvInit == Init => TypeInv
<1> SUFFICES ASSUME Init PROVE TypeInv
  OBVIOUS
<1>1. NoChild \in ChildOrNone
  BY DEF ChildOrNone
<1>2. TypeOK
  BY <1>1 DEF Init, TypeOK, GapType
<1>3. RecursionInv
  BY DEF Init, RecursionInv
<1>4. QED
  BY <1>2, <1>3 DEF TypeInv

\* Advancing a frame keeps its type and its document.
LEMMA AdvanceType ==
  ASSUME TypeInv, stack # << >>, NEW n \in NodeId
  PROVE  /\ Advance(n) \in FrameType(DOMAIN docs)
         /\ Advance(n).doc = Top.doc
         /\ Advance(n).todo \subseteq Top.todo
BY TopType DEF TypeInv, Advance, FrameType

\* Replacing the innermost frame by one of its type that loops over no more
\* nodes preserves the invariant.
LEMMA ReplaceTop ==
  ASSUME TypeInv, stack # << >>, NEW f \in FrameType(DOMAIN docs),
         f.doc = Top.doc, f.todo \subseteq Top.todo,
         stack' = [stack EXCEPT ![Len(stack)] = f],
         UNCHANGED <<world, declared, phase, call, docs, assigned, output, error>>
  PROVE  TypeInv'
<1> USE DEF TypeInv
<1>1. Len(stack) \in DOMAIN stack /\ DOMAIN stack = 1..Len(stack)
  BY TopType DEF TypeOK
<1>2. /\ stack' \in Seq(FrameType(DOMAIN docs))
      /\ Len(stack') = Len(stack)
      /\ \A k \in DOMAIN stack : stack'[k] = IF k = Len(stack) THEN f ELSE stack[k]
  BY <1>1, ExceptSeq DEF TypeOK
<1>3. DOMAIN stack' = DOMAIN stack
  BY <1>1, <1>2
<1>4. TypeOK'
  BY <1>2 DEF TypeOK
<1>5. stack' # << >>
  BY <1>1, <1>3
<1>6. ASSUME NEW k \in DOMAIN stack', stack'[k].todo # {}
      PROVE  docs'[stack'[k].doc].depth > 0
  <2>1. CASE k = Len(stack)
    BY <2>1, <1>1, <1>2, <1>6 DEF RecursionInv, Top
  <2>2. CASE k # Len(stack)
    BY <2>2, <1>2, <1>3, <1>6 DEF RecursionInv
  <2>3. QED
    BY <2>1, <2>2
<1>7. QED
  BY <1>4, <1>5, <1>6 DEF RecursionInv

LEMMA SkipNodeType ==
  ASSUME TypeInv, NEW n \in NodeId, SkipNode(n)
  PROVE  TypeInv'
<1>1. stack # << >>
  BY DEF TypeInv, RecursionInv, SkipNode, Current
<1>2. QED
  BY <1>1, AdvanceType, ReplaceTop DEF SkipNode

LEMMA RefuseChildType ==
  ASSUME TypeInv, NEW n \in NodeId, RefuseChild(n)
  PROVE  TypeInv'
<1> DEFINE gap == [code |-> "child-graph-id-collision", graph |-> TopDoc.id, node |-> n]
           f == [Advance(n) EXCEPT !.gaps = @ \cup {gap}]
<1>1. stack # << >>
  BY DEF TypeInv, RecursionInv, RefuseChild, Current
<1>2. gap \in GapType
  BY <1>1, TopType DEF TypeInv, DocumentType, GapType, GapCode
<1>3. f \in FrameType(DOMAIN docs) /\ f.doc = Top.doc /\ f.todo \subseteq Top.todo
  BY <1>1, <1>2, AdvanceType DEF FrameType
<1>4. QED
  BY <1>1, <1>3, ReplaceTop DEF RefuseChild

LEMMA DeclareChildrenType ==
  ASSUME TypeInv, NEW d \in Declaration, DeclareChildren(d)
  PROVE  TypeInv'
<1> DEFINE m == [n \in NodeId |->
                   IF n \in DOMAIN d.children THEN d.children[n] ELSE NoChild]
<1>1. NoChild \in ChildOrNone
  BY DEF ChildOrNone
<1>2. m \in [NodeId -> ChildOrNone]
  BY <1>1, CallsAssumption DEF CallAssumption
<1>3. declared' = [declared EXCEPT ![d.graph] = m]
  BY DEF DeclareChildren
<1>4. declared' \in [Graph -> [NodeId -> ChildOrNone]]
  BY <1>2, <1>3 DEF TypeInv, TypeOK
<1>5. TypeOK'
  BY <1>4 DEF TypeInv, TypeOK, DeclareChildren
<1>6. RecursionInv'
  BY DEF TypeInv, RecursionInv, DeclareChildren
<1>7. QED
  BY <1>5, <1>6 DEF TypeInv

LEMMA RejectCallType ==
  ASSUME TypeInv, NEW c \in Call, RejectCall(c)
  PROVE  TypeInv'
<1>1. TypeOK'
  BY DEF TypeInv, TypeOK, RejectCall, ArgumentError
<1>2. RecursionInv'
  BY DEF TypeInv, RecursionInv, RejectCall
<1>3. QED
  BY <1>1, <1>2 DEF TypeInv

LEMMA EnterRootType ==
  ASSUME TypeInv, NEW c \in Call, EnterRoot(c)
  PROVE  TypeInv'
<1>1. c.root \in Graph /\ c.graphId \in Seq(Token) /\ c.depth \in Nat
  BY CallsAssumption DEF CallAssumption, EnterRoot, ArgumentError
<1> DEFINE doc == Document(c.graphId, c.root, c.depth)
           frame == Frame(1, c.graphId, c.root, c.depth)
<1>2. doc \in DocumentType
  BY <1>1, NewDocumentType
<1>3. docs' = <<doc>> /\ stack' = <<frame>>
  BY DEF EnterRoot
<1>4. docs' \in Seq(DocumentType) /\ DOMAIN docs' = {1}
  BY <1>2, <1>3
<1>5. frame \in FrameType(DOMAIN docs')
  BY <1>1, <1>4, NewFrameType DEF TypeInv, TypeOK
<1>6. stack' \in Seq(FrameType(DOMAIN docs')) /\ DOMAIN stack' = {1} /\ stack' # << >>
  BY <1>3, <1>5
<1>7. docs = << >>
  BY DEF TypeInv, RecursionInv, EnterRoot
<1>8. output.graphs \subseteq DOMAIN docs'
  BY <1>7 DEF TypeInv, TypeOK
<1>9. TypeOK'
  BY <1>1, <1>4, <1>6, <1>8 DEF TypeInv, TypeOK, EnterRoot
<1>10. frame.todo # {} => c.depth > 0
  BY <1>1 DEF Frame
<1>11. frame.doc = 1 /\ doc.depth = c.depth
  BY DEF Frame, Document
<1>12. RecursionInv'
  BY <1>3, <1>6, <1>10, <1>11 DEF RecursionInv, EnterRoot
<1>13. QED
  BY <1>9, <1>12 DEF TypeInv

\* What EnterChild does to the documents and the stack: the current node gets
\* its subgraphId, and one document and one frame are added for the child.
LEMMA EnterChildEffect ==
  ASSUME TypeInv, NEW n \in NodeId, EnterChild(n)
  PROVE  /\ stack # << >>
         /\ n \in Top.todo
         /\ TopDoc.depth > 0
         /\ DerivedId(TopDoc.id, n) \in Seq(Token)
         /\ ChildOf(TopDoc, n) \in Graph
         /\ docs' \in Seq(DocumentType)
         /\ DOMAIN docs = 1..Len(docs)
         /\ DOMAIN docs' = 1..(Len(docs) + 1)
         /\ docs'[Len(docs) + 1] =
              Document(DerivedId(TopDoc.id, n), ChildOf(TopDoc, n), TopDoc.depth - 1)
         /\ \A i \in DOMAIN docs :
              docs'[i] = IF i = Top.doc
                           THEN [docs[i] EXCEPT !.sub[n] = DerivedId(TopDoc.id, n)]
                           ELSE docs[i]
         /\ DOMAIN stack = 1..Len(stack)
         /\ DOMAIN stack' = 1..(Len(stack) + 1)
         /\ stack' \in Seq(FrameType(DOMAIN docs'))
         /\ \A k \in 1..(Len(stack) - 1) : stack'[k] = stack[k]
         /\ stack'[Len(stack)] = Advance(n)
         /\ stack'[Len(stack) + 1] =
              Frame(Len(docs) + 1, DerivedId(TopDoc.id, n), ChildOf(TopDoc, n),
                    TopDoc.depth - 1)
<1> DEFINE gid == DerivedId(TopDoc.id, n)
           child == ChildOf(TopDoc, n)
           d == TopDoc.depth - 1
           marked == [docs EXCEPT ![Top.doc].sub[n] = gid]
           advanced == [stack EXCEPT ![Len(stack)] = Advance(n)]
           frame == Frame(Len(docs) + 1, gid, child, d)
<1> USE DEF TypeInv
<1>1. stack # << >> /\ n \in Top.todo
  BY DEF RecursionInv, EnterChild, Current
<1>2. /\ Top \in FrameType(DOMAIN docs) /\ TopDoc \in DocumentType
      /\ Len(stack) \in Nat \ {0} /\ Len(stack) \in DOMAIN stack
  BY <1>1, TopType
<1>3. /\ DOMAIN docs = 1..Len(docs) /\ Len(docs) \in Nat
      /\ DOMAIN stack = 1..Len(stack)
  BY LenProperties DEF TypeOK
<1>4. Top.doc \in DOMAIN docs /\ TopDoc.id \in Seq(Token) /\ TopDoc.obj \in Graph
      /\ TopDoc.depth \in Nat
  BY <1>2 DEF FrameType, DocumentType
<1>5. TopDoc.depth > 0
  BY <1>1, <1>2 DEF RecursionInv, Top, TopDoc
<1>6. gid \in Seq(Token)
  BY <1>4, DerivedIdType
<1>7. child \in Graph
  BY <1>4, ChildType DEF TypeOK, EnterChild, ChildOrNone
<1>8. d \in Nat
  BY <1>4, <1>5
<1>9. Document(gid, child, d) \in DocumentType
  BY <1>6, <1>7, <1>8, NewDocumentType
<1>10. /\ marked \in Seq(DocumentType) /\ Len(marked) = Len(docs)
       /\ \A i \in DOMAIN docs :
            marked[i] = IF i = Top.doc THEN [docs[i] EXCEPT !.sub[n] = gid] ELSE docs[i]
  <2> DEFINE changed == [docs[Top.doc] EXCEPT !.sub[n] = gid]
  <2>1. docs[Top.doc] \in DocumentType
    BY <1>2 DEF TopDoc
  <2>2. changed \in DocumentType
    BY <2>1, <1>6 DEF DocumentType
  <2>3. marked = [docs EXCEPT ![Top.doc] = changed]
    BY <1>4
  <2>4. docs \in Seq(DocumentType)
    BY DEF TypeOK
  <2> HIDE DEF changed, gid, marked
  <2>5. /\ marked \in Seq(DocumentType) /\ Len(marked) = Len(docs)
        /\ \A i \in DOMAIN docs : marked[i] = IF i = Top.doc THEN changed ELSE docs[i]
    BY <2>2, <2>3, <2>4, <1>4, ReplaceElement
  <2>6. QED
    BY <2>5 DEF changed
<1>11. docs' = Append(marked, Document(gid, child, d))
  BY DEF EnterChild
<1>12. /\ docs' \in Seq(DocumentType) /\ DOMAIN docs' = 1..(Len(docs) + 1)
       /\ docs'[Len(docs) + 1] = Document(gid, child, d)
       /\ \A i \in DOMAIN docs : docs'[i] = marked[i]
  BY <1>3, <1>9, <1>10, <1>11, AppendProperties
<1>13. DOMAIN docs \subseteq DOMAIN docs' /\ Len(docs) + 1 \in DOMAIN docs'
  BY <1>3, <1>12
<1>14. Advance(n) \in FrameType(DOMAIN docs)
  BY <1>1, AdvanceType
<1>15. /\ advanced \in Seq(FrameType(DOMAIN docs)) /\ Len(advanced) = Len(stack)
       /\ \A k \in DOMAIN stack :
            advanced[k] = IF k = Len(stack) THEN Advance(n) ELSE stack[k]
  BY <1>2, <1>3, <1>14, ExceptSeq DEF TypeOK
<1>16. advanced \in Seq(FrameType(DOMAIN docs'))
  BY <1>13, <1>15, FrameTypeMonotonic
<1>17. frame \in FrameType(DOMAIN docs')
  BY <1>6, <1>7, <1>8, <1>13, NewFrameType DEF TypeOK
<1>18. stack' = Append(advanced, frame)
  BY DEF EnterChild
<1>19. /\ stack' \in Seq(FrameType(DOMAIN docs')) /\ DOMAIN stack' = 1..(Len(stack) + 1)
       /\ stack'[Len(stack) + 1] = frame
       /\ \A k \in DOMAIN stack : stack'[k] = advanced[k]
  <2>1. DOMAIN advanced = DOMAIN stack
    OBVIOUS
  <2> HIDE DEF advanced, frame
  <2>2. QED
    BY <2>1, <1>15, <1>16, <1>17, <1>18, AppendElement
<1>20. /\ \A k \in 1..(Len(stack) - 1) : stack'[k] = stack[k]
       /\ stack'[Len(stack)] = Advance(n)
  BY <1>2, <1>3, <1>15, <1>19
<1>21. \A i \in DOMAIN docs :
         docs'[i] = IF i = Top.doc THEN [docs[i] EXCEPT !.sub[n] = gid] ELSE docs[i]
  BY <1>10, <1>12
<1>22. QED
  BY <1>1, <1>3, <1>5, <1>6, <1>7, <1>12, <1>19, <1>20, <1>21

\* Every frame's document exists.
LEMMA StackDocs ==
  ASSUME TypeOK, NEW k \in DOMAIN stack
  PROVE  stack[k] \in FrameType(DOMAIN docs) /\ stack[k].doc \in DOMAIN docs
<1>1. DOMAIN stack = 1..Len(stack)
  BY LenProperties DEF TypeOK
<1>2. stack[k] \in FrameType(DOMAIN docs)
  BY <1>1, ElementOfSeq DEF TypeOK
<1>3. QED
  BY <1>2 DEF FrameType

\* EnterChild leaves every existing document's id, object and budget alone, and
\* every subgraphId but the one of the current node.
LEMMA EnterChildKeeps ==
  ASSUME TypeInv, NEW n \in NodeId, EnterChild(n), NEW i \in DOMAIN docs
  PROVE  /\ docs'[i].id = docs[i].id
         /\ docs'[i].obj = docs[i].obj
         /\ docs'[i].depth = docs[i].depth
         /\ \A m \in NodeId :
              docs'[i].sub[m] = IF i = Top.doc /\ m = n
                                  THEN DerivedId(TopDoc.id, n)
                                  ELSE docs[i].sub[m]
<1> DEFINE gid == DerivedId(TopDoc.id, n)
<1>1. docs[i] \in DocumentType
  BY ElementOfSeq, LenProperties DEF TypeInv, TypeOK
<1>2. CASE i = Top.doc
  <2>1. docs'[i] = [docs[i] EXCEPT !.sub[n] = gid]
    BY <1>2, EnterChildEffect
  <2> HIDE DEF gid
  <2>2. /\ docs'[i].id = docs[i].id /\ docs'[i].obj = docs[i].obj
        /\ docs'[i].depth = docs[i].depth
        /\ \A m \in NodeId :
             docs'[i].sub[m] = IF m = n THEN gid ELSE docs[i].sub[m]
    BY <1>1, <2>1 DEF DocumentType
  <2>3. QED
    BY <1>2, <2>2 DEF gid
<1>3. CASE i # Top.doc
  BY <1>3, EnterChildEffect
<1>4. QED
  BY <1>2, <1>3

LEMMA EnterChildType ==
  ASSUME TypeInv, NEW n \in NodeId, EnterChild(n)
  PROVE  TypeInv'
<1> DEFINE N == Len(docs)
           L == Len(stack)
<1>1. N \in Nat /\ L \in Nat \ {0}
  BY EnterChildEffect, TopType, LenProperties DEF TypeInv, TypeOK
<1>2. TypeOK'
  <2>1. assigned' \subseteq Seq(Token)
    BY EnterChildEffect DEF TypeInv, TypeOK, EnterChild
  <2>2. output.graphs \subseteq DOMAIN docs'
    BY EnterChildEffect, <1>1 DEF TypeInv, TypeOK
  <2>3. QED
    BY <2>1, <2>2, EnterChildEffect DEF TypeInv, TypeOK, EnterChild
<1>3. \A i \in DOMAIN docs : docs'[i].depth = docs[i].depth
  BY EnterChildKeeps
<1>4. ASSUME NEW k \in DOMAIN stack', stack'[k].todo # {}
      PROVE  docs'[stack'[k].doc].depth > 0
  <2>1. CASE k \in 1..(L - 1)
    <3>1. k \in DOMAIN stack /\ stack'[k] = stack[k]
      BY <1>1, <2>1, EnterChildEffect
    <3>2. stack[k].doc \in DOMAIN docs
      BY <3>1, StackDocs DEF TypeInv
    <3>3. QED
      BY <3>1, <3>2, <1>3, <1>4 DEF TypeInv, RecursionInv
  <2>2. CASE k = L
    <3>1. stack'[k].doc = Top.doc /\ Top.doc \in DOMAIN docs
      BY <2>2, EnterChildEffect, AdvanceType, TopType DEF TypeInv, FrameType
    <3>2. QED
      BY <3>1, <1>3, EnterChildEffect DEF TopDoc
  <2>3. CASE k = L + 1
    <3> DEFINE gid == DerivedId(TopDoc.id, n)
               child == ChildOf(TopDoc, n)
               d == TopDoc.depth - 1
    <3>1. stack'[k] = Frame(N + 1, gid, child, d)
      BY <2>3, EnterChildEffect
    <3>2. docs'[N + 1] = Document(gid, child, d)
      BY EnterChildEffect
    <3> HIDE DEF gid, child, d
    <3>3. stack'[k].doc = N + 1 /\ d > 0
      BY <3>1, <1>4 DEF Frame
    <3>4. QED
      BY <3>2, <3>3 DEF Document
  <2>4. QED
    BY <1>1, <2>1, <2>2, <2>3, EnterChildEffect
<1>5. stack' # << >>
  BY <1>1, EnterChildEffect, SMTT(60)
<1>6. RecursionInv'
  BY <1>4, <1>5, EnterChildEffect DEF TypeInv, RecursionInv, EnterChild, Current
<1>7. QED
  BY <1>2, <1>6 DEF TypeInv
\* Returning to the caller replaces the two innermost frames by one.
LEMMA ReturnToParentType ==
  ASSUME TypeInv, ReturnToParent
  PROVE  TypeInv'
<1> DEFINE k == Len(stack) - 1
           prefix == SubSeq(stack, 1, k)
           parent == [stack[k] EXCEPT !.descendants = @ \cup Returned.graphs,
                                      !.gaps = @ \cup Returned.gaps]
<1>1. stack # << >> /\ k \in Nat \ {0}
  BY TopType DEF TypeInv, RecursionInv, ReturnToParent
<1>2. DOMAIN stack = 1..Len(stack) /\ Len(stack) \in Nat /\ stack \in Seq(FrameType(DOMAIN docs))
  BY LenProperties DEF TypeInv, TypeOK
<1>3. Top \in FrameType(DOMAIN docs)
  BY <1>1, TopType DEF TypeInv
<1>4. stack[k] \in FrameType(DOMAIN docs)
  BY <1>1, <1>2, StackDocs DEF TypeInv
<1>5. Returned.graphs \subseteq DOMAIN docs /\ Returned.gaps \subseteq GapType
  BY <1>3 DEF Returned, FrameType
<1>6. parent \in FrameType(DOMAIN docs) /\ parent.doc = stack[k].doc
      /\ parent.todo = stack[k].todo
  BY <1>4, <1>5 DEF FrameType
<1>7. /\ prefix \in Seq(FrameType(DOMAIN docs)) /\ Len(prefix) = k
      /\ DOMAIN prefix = 1..k
      /\ \A j \in 1..k : prefix[j] = stack[j]
  BY <1>1, <1>2, SubSeqProperties
<1>8. stack' = [prefix EXCEPT ![k] = parent]
  BY <1>1, <1>7 DEF ReturnToParent
<1>9. /\ stack' \in Seq(FrameType(DOMAIN docs)) /\ DOMAIN stack' = 1..k
      /\ \A j \in 1..k : stack'[j] = IF j = k THEN parent ELSE stack[j]
  <2> HIDE DEF prefix, parent
  <2>1. k \in DOMAIN prefix
    BY <1>1, <1>7
  <2>2. QED
    BY <2>1, <1>6, <1>7, <1>8, ReplaceElement
<1>10. TypeOK'
  BY <1>9 DEF TypeInv, TypeOK, ReturnToParent
<1>11. \A j \in DOMAIN stack' : stack'[j].todo = stack[j].todo /\ stack'[j].doc = stack[j].doc
  BY <1>6, <1>9
<1>12. stack' # << >>
  <2> HIDE DEF k, parent
  <2>1. 1 \in DOMAIN stack'
    BY <1>1, <1>9
  <2>2. QED
    BY <2>1
<1>13. DOMAIN stack' \subseteq DOMAIN stack
  BY <1>1, <1>2, <1>9
<1>14. RecursionInv'
  BY <1>11, <1>12, <1>13, ZenonT(60) DEF TypeInv, RecursionInv, ReturnToParent
<1>15. QED
  BY <1>10, <1>14 DEF TypeInv

LEMMA ReturnFromRootType ==
  ASSUME TypeInv, ReturnFromRoot
  PROVE  TypeInv'
<1>1. stack # << >>
  BY DEF TypeInv, RecursionInv, ReturnFromRoot
<1>2. Returned.graphs \subseteq DOMAIN docs /\ Returned.gaps \subseteq GapType
  BY <1>1, TopType DEF TypeInv, Returned, FrameType
<1>3. TypeOK'
  BY <1>2 DEF TypeInv, TypeOK, ReturnFromRoot
<1>4. RecursionInv'
  BY DEF TypeInv, RecursionInv, ReturnFromRoot
<1>5. QED
  BY <1>3, <1>4 DEF TypeInv

LEMMA FinishType ==
  ASSUME TypeInv, Finish
  PROVE  TypeInv'
<1>1. TypeOK'
  BY DEF TypeInv, TypeOK, Finish
<1>2. RecursionInv'
  BY DEF TypeInv, RecursionInv, Finish
<1>3. QED
  BY <1>1, <1>2 DEF TypeInv

LEMMA TypeInvStep == TypeInv /\ [Next]_vars => TypeInv'
<1> SUFFICES ASSUME TypeInv, [Next]_vars PROVE TypeInv'
  OBVIOUS
<1>1. ASSUME NEW d \in Declaration, DeclareChildren(d) PROVE TypeInv'
  BY <1>1, DeclareChildrenType
<1>2. ASSUME NEW c \in Call, RejectCall(c) PROVE TypeInv'
  BY <1>2, RejectCallType
<1>3. ASSUME NEW c \in Call, EnterRoot(c) PROVE TypeInv'
  BY <1>3, EnterRootType
<1>4. ASSUME NEW n \in NodeId, SkipNode(n) PROVE TypeInv'
  BY <1>4, SkipNodeType
<1>5. ASSUME NEW n \in NodeId, RefuseChild(n) PROVE TypeInv'
  BY <1>5, RefuseChildType
<1>6. ASSUME NEW n \in NodeId, EnterChild(n) PROVE TypeInv'
  BY <1>6, EnterChildType
<1>7. CASE ReturnToParent
  BY <1>7, ReturnToParentType
<1>8. CASE ReturnFromRoot
  BY <1>8, ReturnFromRootType
<1>9. CASE Finish
  BY <1>9, FinishType
<1>10. CASE UNCHANGED vars
  BY <1>10 DEF vars, TypeInv, TypeOK, RecursionInv
<1>11. QED
  BY <1>1, <1>2, <1>3, <1>4, <1>5, <1>6, <1>7, <1>8, <1>9, <1>10 DEF Next, Extract

\* Type correctness of the extraction, whatever the program built, declared and
\* asked for: documents are made for compiled graphs only and never below
\* budget 0, and every active call works on a document that exists.
THEOREM TypeCorrect == Spec => []TypeOK
<1>1. TypeInv => TypeOK
  BY DEF TypeInv
<1>2. QED
  BY <1>1, TypeInvInit, TypeInvStep, PTL DEF Spec

-------------------------------------------------------------------------------
(* The safety of the recursion.  Only two actions create documents; every      *)
(* other action of the extraction leaves docs and assigned alone and at most   *)
(* replaces frames by frames on the same documents.                            *)

RecursionSafe == TypeInv /\ GraphIdsUnique /\ ReferencesResolve /\ DepthBudget

LEMMA RecursionSafeInit == Init => RecursionSafe
<1> SUFFICES ASSUME Init PROVE RecursionSafe
  OBVIOUS
<1>1. DOMAIN docs = {} /\ DOMAIN stack = {} /\ assigned = {}
  BY DEF Init
<1>2. QED
  BY <1>1, TypeInvInit DEF RecursionSafe, GraphIdsUnique, ReferencesResolve, DepthBudget

\* A step that keeps the documents and the program, and on whose stack every frame
\* works on the document the frame at its place worked on before.
LEMMA SameDocuments ==
  ASSUME RecursionSafe, TypeInv',
         UNCHANGED <<world, declared, call, docs, assigned>>,
         DOMAIN stack' \subseteq DOMAIN stack,
         \A k \in DOMAIN stack' : stack'[k].doc = stack[k].doc
  PROVE  RecursionSafe'
<1>1. GraphIdsUnique'
  BY DEF RecursionSafe, GraphIdsUnique
<1>2. ReferencesResolve'
  BY DEF RecursionSafe, ReferencesResolve, ChildOf
<1>3. DepthBudget'
  BY DEF RecursionSafe, DepthBudget
<1>4. QED
  BY <1>1, <1>2, <1>3 DEF RecursionSafe

LEMMA BuildingSafe ==
  ASSUME RecursionSafe, TypeInv', phase = "building",
         UNCHANGED <<docs, stack, assigned>>
  PROVE  RecursionSafe'
<1>1. DOMAIN docs = {} /\ DOMAIN stack = {}
  BY DEF RecursionSafe, TypeInv, RecursionInv
<1>2. QED
  BY <1>1 DEF RecursionSafe, GraphIdsUnique, ReferencesResolve, DepthBudget

LEMMA EnterRootSafe ==
  ASSUME RecursionSafe, NEW c \in Call, EnterRoot(c)
  PROVE  RecursionSafe'
<1> DEFINE doc == Document(c.graphId, c.root, c.depth)
           frame == Frame(1, c.graphId, c.root, c.depth)
<1>1. TypeInv'
  BY EnterRootType DEF RecursionSafe
<1>2. c.depth \in Nat
  BY CallsAssumption DEF CallAssumption, EnterRoot, ArgumentError
<1>3. /\ docs' = <<doc>> /\ stack' = <<frame>>
      /\ DOMAIN docs' = {1} /\ DOMAIN stack' = {1}
      /\ assigned' = {c.graphId} /\ call' = c
  BY DEF EnterRoot
<1>4. frame.doc = 1 /\ doc.id = c.graphId /\ doc.depth = c.depth
      /\ \A n \in NodeId : doc.sub[n] = NoRef
  BY DEF Frame, Document
<1> HIDE DEF doc, frame
<1>5. GraphIdsUnique'
  BY <1>3, <1>4 DEF GraphIdsUnique
<1>6. ReferencesResolve'
  BY <1>3, <1>4 DEF ReferencesResolve
<1>7. DepthBudget'
  BY <1>2, <1>3, <1>4 DEF DepthBudget
<1>8. QED
  BY <1>1, <1>5, <1>6, <1>7 DEF RecursionSafe

LEMMA EnterChildSafe ==
  ASSUME RecursionSafe, NEW n \in NodeId, EnterChild(n)
  PROVE  RecursionSafe'
<1> DEFINE N == Len(docs)
           L == Len(stack)
           gid == DerivedId(TopDoc.id, n)
           child == ChildOf(TopDoc, n)
           d == TopDoc.depth - 1
<1>1. TypeInv /\ TypeInv'
  BY EnterChildType DEF RecursionSafe
<1>2. N \in Nat /\ L \in Nat \ {0}
  BY <1>1, EnterChildEffect, TopType, LenProperties DEF TypeInv, TypeOK
<1>3. /\ DOMAIN docs = 1..N /\ DOMAIN docs' = 1..(N + 1)
      /\ docs'[N + 1] = Document(gid, child, d)
  BY <1>1, EnterChildEffect
<1>4. Top.doc \in DOMAIN docs
  BY <1>1, EnterChildEffect, TopType DEF TypeInv, FrameType
<1>5. /\ docs'[N + 1].id = gid /\ docs'[N + 1].obj = child /\ docs'[N + 1].depth = d
      /\ \A m \in NodeId : docs'[N + 1].sub[m] = NoRef
  BY <1>3 DEF Document
<1>6. /\ gid \notin assigned /\ assigned' = assigned \cup {gid}
      /\ world' = world /\ declared' = declared /\ call' = call
  BY DEF EnterChild, Taken
<1>7. \A i \in DOMAIN docs :
        /\ docs'[i].id = docs[i].id /\ docs'[i].obj = docs[i].obj
        /\ docs'[i].depth = docs[i].depth
        /\ \A m \in NodeId : docs'[i].sub[m] =
             IF i = Top.doc /\ m = n THEN gid ELSE docs[i].sub[m]
  BY <1>1, EnterChildKeeps
<1>8. /\ DOMAIN stack = 1..L /\ DOMAIN stack' = 1..(L + 1)
      /\ \A k \in 1..(L - 1) : stack'[k] = stack[k]
      /\ stack'[L].doc = stack[L].doc /\ stack'[L + 1].doc = N + 1
  <2>1. stack'[L] = Advance(n) /\ Advance(n).doc = stack[L].doc
    BY <1>1, EnterChildEffect, AdvanceType DEF Top
  <2>2. stack'[L + 1] = Frame(N + 1, gid, child, d)
    BY <1>1, EnterChildEffect
  <2>3. Frame(N + 1, gid, child, d).doc = N + 1
    BY DEF Frame
  <2>4. /\ DOMAIN stack = 1..L /\ DOMAIN stack' = 1..(L + 1)
        /\ \A k \in 1..(L - 1) : stack'[k] = stack[k]
    BY <1>1, EnterChildEffect
  <2> HIDE DEF N, L, gid, child, d
  <2>5. QED
    BY <2>1, <2>2, <2>3, <2>4
<1>9. TopDoc = docs[Top.doc]
  BY DEF TopDoc
<1> HIDE DEF N, L, gid, child, d
<1>10. GraphIdsUnique'
  <2>1. \A i \in DOMAIN docs : docs'[i].id # gid
    BY <1>6, <1>7 DEF RecursionSafe, GraphIdsUnique
  <2>2. \A i, j \in DOMAIN docs' : docs'[i].id = docs'[j].id => i = j
    BY <2>1, <1>2, <1>3, <1>5, <1>7 DEF RecursionSafe, GraphIdsUnique
  <2>3. assigned' = {docs'[i].id : i \in DOMAIN docs'}
    BY <1>2, <1>3, <1>5, <1>6, <1>7 DEF RecursionSafe, GraphIdsUnique
  <2>4. QED
    BY <2>2, <2>3 DEF GraphIdsUnique
<1>11. ReferencesResolve'
  <2> SUFFICES ASSUME NEW i \in DOMAIN docs', NEW m \in NodeId, docs'[i].sub[m] # NoRef
               PROVE  \E j \in DOMAIN docs' :
                        /\ docs'[j].id = docs'[i].sub[m]
                        /\ docs'[j].obj = ChildOf(docs[i], m)'
                        /\ docs'[j].depth = docs'[i].depth - 1
    BY DEF ReferencesResolve
  <2>1. i \in DOMAIN docs
    BY <1>2, <1>3, <1>5
  <2>2. ChildOf(docs[i], m)' = ChildOf(docs[i], m)
    BY <2>1, <1>6, <1>7 DEF ChildOf
  <2>3. N + 1 \in DOMAIN docs' /\ DOMAIN docs \subseteq DOMAIN docs'
    BY <1>2, <1>3
  <2>4. CASE i = Top.doc /\ m = n
    <3>1. docs'[i].sub[m] = gid /\ docs'[i].depth = TopDoc.depth
      BY <2>1, <2>4, <1>7, <1>9
    <3>2. ChildOf(docs[i], m) = child
      BY <2>4, <1>9 DEF child
    <3>3. QED
      BY <3>1, <3>2, <2>2, <2>3, <1>5 DEF d
  <2>5. CASE ~(i = Top.doc /\ m = n)
    <3>1. docs'[i].sub[m] = docs[i].sub[m]
      BY <2>1, <2>5, <1>7
    <3>2. PICK j \in DOMAIN docs : /\ docs[j].id = docs[i].sub[m]
                                  /\ docs[j].obj = ChildOf(docs[i], m)
                                  /\ docs[j].depth = docs[i].depth - 1
      BY <2>1, <3>1 DEF RecursionSafe, ReferencesResolve
    <3>3. QED
      BY <3>1, <3>2, <2>1, <2>2, <2>3, <1>7
  <2>6. QED
    BY <2>4, <2>5
<1>12. DepthBudget'
  <2> SUFFICES ASSUME NEW k \in DOMAIN stack'
               PROVE  docs'[stack'[k].doc].depth = call.depth - (k - 1) /\ k <= call.depth + 1
    BY <1>6 DEF DepthBudget
  <2>1. L \in DOMAIN stack /\ TopDoc.depth = call.depth - (L - 1) /\ L <= call.depth + 1
    BY <1>2, <1>8, <1>9 DEF RecursionSafe, DepthBudget, Top, L
  <2>2. TopDoc.depth > 0
    BY <1>1, EnterChildEffect
  <2>3. CASE k \in 1..L
    <3>1. k \in DOMAIN stack /\ stack'[k].doc = stack[k].doc
      BY <2>3, <1>2, <1>8
    <3>2. stack[k].doc \in DOMAIN docs
      BY <3>1, <1>1, StackDocs DEF TypeInv
    <3>3. QED
      BY <3>1, <3>2, <1>7 DEF RecursionSafe, DepthBudget
  <2>4. CASE k = L + 1
    <3>1. docs'[stack'[k].doc].depth = TopDoc.depth - 1
      BY <2>4, <1>5, <1>8 DEF d
    <3>2. call.depth \in Int
      BY <1>1, CallsAssumption DEF TypeInv, TypeOK, CallAssumption, NoCall
    <3>3. QED
      BY <2>1, <2>2, <2>4, <3>1, <3>2, <1>2
  <2>5. QED
    BY <2>3, <2>4, <1>2, <1>8
<1>13. QED
  BY <1>1, <1>10, <1>11, <1>12 DEF RecursionSafe

\* Replacing the innermost frame by one on the same document.
LEMMA TopReplacedSafe ==
  ASSUME RecursionSafe, TypeInv', stack # << >>, NEW f, f.doc = Top.doc,
         stack' = [stack EXCEPT ![Len(stack)] = f],
         UNCHANGED <<world, declared, call, docs, assigned>>
  PROVE  RecursionSafe'
<1>1. DOMAIN stack' = DOMAIN stack
  OBVIOUS
<1>2. \A k \in DOMAIN stack : stack'[k].doc = stack[k].doc
  BY DEF Top
<1>3. QED
  BY <1>1, <1>2, SameDocuments

LEMMA ReturnToParentSafe ==
  ASSUME RecursionSafe, ReturnToParent
  PROVE  RecursionSafe'
<1> DEFINE k == Len(stack) - 1
           prefix == SubSeq(stack, 1, k)
<1>1. TypeInv /\ TypeInv'
  BY ReturnToParentType DEF RecursionSafe
<1>2. DOMAIN stack = 1..Len(stack) /\ Len(stack) \in Nat /\ k \in Nat \ {0}
  BY <1>1, TopType, LenProperties DEF TypeInv, TypeOK, RecursionInv, ReturnToParent
<1>3. DOMAIN prefix = 1..k /\ \A j \in 1..k : prefix[j] = stack[j]
  BY <1>1, <1>2, SubSeqProperties DEF TypeInv, TypeOK
<1>4. stack[k] \in FrameType(DOMAIN docs)
  BY <1>1, <1>2, StackDocs DEF TypeInv
<1>5. stack' = [prefix EXCEPT ![k] =
                  [stack[k] EXCEPT !.descendants = @ \cup Returned.graphs,
                                   !.gaps = @ \cup Returned.gaps]]
  BY <1>2, <1>3 DEF ReturnToParent
<1> HIDE DEF prefix
<1>6. DOMAIN stack' = 1..k /\ \A j \in 1..k : stack'[j].doc = stack[j].doc
  <2> DEFINE parent == [stack[k] EXCEPT !.descendants = @ \cup Returned.graphs,
                                        !.gaps = @ \cup Returned.gaps]
  <2>1. parent.doc = stack[k].doc
    BY <1>4 DEF FrameType
  <2>2. stack' = [prefix EXCEPT ![k] = parent]
    BY <1>5
  <2> HIDE DEF parent, k
  <2>3. QED
    BY <1>2, <1>3, <2>1, <2>2
<1>7. DOMAIN stack' \subseteq DOMAIN stack
  BY <1>2, <1>6
<1>8. UNCHANGED <<world, declared, call, docs, assigned>>
  BY DEF ReturnToParent
<1>9. QED
  BY <1>1, <1>6, <1>7, <1>8, SameDocuments

LEMMA RecursionSafeStep == RecursionSafe /\ [Next]_vars => RecursionSafe'
<1> SUFFICES ASSUME RecursionSafe, [Next]_vars PROVE RecursionSafe'
  OBVIOUS
<1>0. TypeInv /\ TypeInv'
  BY TypeInvStep DEF RecursionSafe
<1>1. ASSUME NEW d \in Declaration, DeclareChildren(d) PROVE RecursionSafe'
  BY <1>0, <1>1, BuildingSafe DEF DeclareChildren
<1>2. ASSUME NEW c \in Call, RejectCall(c) PROVE RecursionSafe'
  BY <1>0, <1>2, BuildingSafe DEF RejectCall
<1>3. ASSUME NEW c \in Call, EnterRoot(c) PROVE RecursionSafe'
  BY <1>3, EnterRootSafe
<1>4. ASSUME NEW n \in NodeId, SkipNode(n) PROVE RecursionSafe'
  <2>1. stack # << >>
    BY <1>0, <1>4 DEF TypeInv, RecursionInv, SkipNode, Current
  <2>2. QED
    BY <1>0, <1>4, <2>1, AdvanceType, TopReplacedSafe DEF SkipNode
<1>5. ASSUME NEW n \in NodeId, RefuseChild(n) PROVE RecursionSafe'
  <2> DEFINE f == [Advance(n) EXCEPT !.gaps = @ \cup
                    {[code |-> "child-graph-id-collision", graph |-> TopDoc.id, node |-> n]}]
  <2>1. stack # << >>
    BY <1>0, <1>5 DEF TypeInv, RecursionInv, RefuseChild, Current
  <2>2. f.doc = Top.doc
    BY <1>0, <2>1, AdvanceType DEF FrameType
  <2>3. stack' = [stack EXCEPT ![Len(stack)] = f]
        /\ UNCHANGED <<world, declared, call, docs, assigned>>
    BY <1>5 DEF RefuseChild
  <2> HIDE DEF f
  <2>4. QED
    BY <1>0, <2>1, <2>2, <2>3, TopReplacedSafe
<1>6. ASSUME NEW n \in NodeId, EnterChild(n) PROVE RecursionSafe'
  BY <1>6, EnterChildSafe
<1>7. CASE ReturnToParent
  BY <1>7, ReturnToParentSafe
<1>8. CASE ReturnFromRoot
  <2>1. DOMAIN stack' = {}
    BY <1>8 DEF ReturnFromRoot
  <2>2. QED
    BY <1>0, <1>8, <2>1, SameDocuments DEF ReturnFromRoot
<1>9. CASE Finish
  BY <1>0, <1>9, SameDocuments DEF Finish
<1>10. CASE UNCHANGED vars
  BY <1>0, <1>10, SameDocuments DEF vars
<1>11. QED
  BY <1>1, <1>2, <1>3, <1>4, <1>5, <1>6, <1>7, <1>8, <1>9, <1>10 DEF Next, Extract

\* Whatever ids the nodes of a program have, and however its compiled graphs share
\* or contain one another, no two graph documents get the same id.
THEOREM IdsAreUnique == Spec => []GraphIdsUnique
<1>1. RecursionSafe => GraphIdsUnique
  BY DEF RecursionSafe
<1>2. QED
  BY <1>1, RecursionSafeInit, RecursionSafeStep, PTL DEF Spec

\* Every subgraphId written names the document of the child its node holds.
THEOREM NoDanglingReference == Spec => []ReferencesResolve
<1>1. RecursionSafe => ReferencesResolve
  BY DEF RecursionSafe
<1>2. QED
  BY <1>1, RecursionSafeInit, RecursionSafeStep, PTL DEF Spec

\* The recursion is never deeper than the requested depth, for every declared
\* nesting, cyclic ones included.
THEOREM RecursionIsBounded == Spec => []DepthBudget
<1>1. RecursionSafe => DepthBudget
  BY DEF RecursionSafe
<1>2. QED
  BY <1>1, RecursionSafeInit, RecursionSafeStep, PTL DEF Spec

-------------------------------------------------------------------------------
(* The inductive invariant.  A child the loops have passed is materialized or *)
(* reported; what a returned call found is held by one of its callers.        *)

Collision == "child-graph-id-collision"
Routing == "unknown-routing-targets"

\* Nothing is handed out before the outermost call returns.
Quiet ==
  /\ phase \in {"building", "extracting"} => output = [graphs |-> {}, gaps |-> {}]
  /\ phase # "raised" => error = "none"

\* No document is worked on by two calls; a call loops over nodes of its graph.
FramesInv ==
  /\ \A j, k \in DOMAIN stack : stack[j].doc = stack[k].doc => j = k
  /\ \A k \in DOMAIN stack : stack[k].todo \subseteq world[docs[stack[k].doc].obj].runtime

Held ==
  \A i \in DOMAIN docs :
    \/ i \in output.graphs
    \/ \E k \in DOMAIN stack : i = stack[k].doc \/ i \in stack[k].descendants

\* The loop over the nodes of document i has not come to n yet.
Ahead(i, n) == \E k \in DOMAIN stack : stack[k].doc = i /\ n \in stack[k].todo

Reported(i, n) == Gap(Collision, docs[i].id, n) \in AllGaps

\* Gaps speak of documents; every router of a document has its gap and no gap
\* is made up; no collision is reported before its node is looked at.
GapsInv ==
  /\ \A g \in AllGaps : g.graph \in assigned
  /\ \A g \in AllGaps : g.code = Routing =>
       \E i \in DOMAIN docs : g \in RouterGaps(docs[i].id, docs[i].obj)
  /\ \A i \in DOMAIN docs : RouterGaps(docs[i].id, docs[i].obj) \subseteq AllGaps
  /\ \A i \in DOMAIN docs, n \in NodeId : Reported(i, n) => ~Ahead(i, n)

Opaque(i, n) ==
  \/ docs[i].depth = 0
  \/ ChildOf(docs[i], n) = NoChild
  \/ Reported(i, n)
  \/ Ahead(i, n)

Accounted == \A i \in DOMAIN docs, n \in NodeId : (docs[i].sub[n] = NoRef) <=> Opaque(i, n)

OutcomeInv == RecursionSafe /\ Quiet /\ FramesInv /\ Held /\ GapsInv /\ Accounted

LEMMA OutcomeInit == Init => OutcomeInv
<1> SUFFICES ASSUME Init PROVE OutcomeInv
  OBVIOUS
<1>1. DOMAIN docs = {} /\ DOMAIN stack = {} /\ AllGaps = {}
  BY DEF Init, AllGaps
<1>2. Quiet
  BY DEF Init, Quiet
<1>3. QED
  BY <1>1, <1>2, RecursionSafeInit DEF OutcomeInv, FramesInv, Held, GapsInv, Accounted

-------------------------------------------------------------------------------
(* Steps that leave the documents alone.                                    *)

\* A step that keeps the documents and the gaps, and passes only nodes without a
\* child.
LEMMA SameGaps ==
  ASSUME OutcomeInv, RecursionSafe', Quiet', FramesInv', Held',
         UNCHANGED <<world, declared, docs, assigned>>,
         AllGaps' = AllGaps,
         \A i \in DOMAIN docs, n \in NodeId : Ahead(i, n)' => Ahead(i, n),
         \A i \in DOMAIN docs, n \in NodeId :
           Ahead(i, n) => Ahead(i, n)' \/ ChildOf(docs[i], n) = NoChild
  PROVE  OutcomeInv'
<1>1. \A i \in DOMAIN docs, n \in NodeId :
        /\ Reported(i, n)' <=> Reported(i, n)
        /\ ChildOf(docs[i], n)' = ChildOf(docs[i], n)
  BY DEF Reported, Gap, ChildOf
<1>2. GapsInv'
  BY <1>1 DEF OutcomeInv, GapsInv, RouterGaps
<1>3. Accounted'
  BY <1>1 DEF OutcomeInv, Accounted, Opaque
<1>4. QED
  BY <1>2, <1>3 DEF OutcomeInv

\* Before the call nothing is held by anybody.
LEMMA BuildingOutcome ==
  ASSUME OutcomeInv, RecursionSafe', phase = "building", phase' \in {"building", "raised"},
         phase' = "building" => error' = error,
         UNCHANGED <<docs, stack, assigned, output>>
  PROVE  OutcomeInv'
<1>1. DOMAIN docs = {} /\ DOMAIN stack = {}
  BY DEF OutcomeInv, RecursionSafe, TypeInv, RecursionInv
<1>2. Quiet'
  BY DEF OutcomeInv, Quiet
<1>3. AllGaps = {} /\ AllGaps' = {}
  BY <1>1 DEF OutcomeInv, Quiet, AllGaps
<1>4. QED
  BY <1>1, <1>2, <1>3 DEF OutcomeInv, FramesInv, Held, GapsInv, Accounted

LEMMA EnterRootOutcome ==
  ASSUME OutcomeInv, NEW c \in Call, EnterRoot(c)
  PROVE  OutcomeInv'
<1> DEFINE doc == Document(c.graphId, c.root, c.depth)
           frame == Frame(1, c.graphId, c.root, c.depth)
<1>1. RecursionSafe'
  BY EnterRootSafe DEF OutcomeInv
<1>2. /\ docs' = <<doc>> /\ stack' = <<frame>>
      /\ DOMAIN docs' = {1} /\ DOMAIN stack' = {1}
      /\ assigned' = {c.graphId} /\ world' = world /\ declared' = declared
      /\ output' = [graphs |-> {}, gaps |-> {}] /\ error' = "none"
  BY DEF OutcomeInv, Quiet, EnterRoot
<1>3. /\ doc.id = c.graphId /\ doc.obj = c.root /\ doc.depth = c.depth
      /\ \A n \in NodeId : doc.sub[n] = NoRef
  BY DEF Document
<1>4. /\ frame.doc = 1 /\ frame.gaps = RouterGaps(c.graphId, c.root)
      /\ frame.todo = IF c.depth > 0 THEN world[c.root].runtime ELSE {}
  BY DEF Frame
<1>5. c.depth \in Nat /\ c.root \in Graph
  BY CallsAssumption DEF CallAssumption, EnterRoot, ArgumentError
<1> HIDE DEF doc, frame
<1>6. docs'[1] = doc /\ stack'[1] = frame
  BY <1>2
<1>7. AllGaps' = RouterGaps(c.graphId, c.root)
  BY <1>2, <1>4, <1>6 DEF AllGaps
<1>8. Quiet' /\ FramesInv' /\ Held'
  BY <1>2, <1>3, <1>4, <1>6 DEF Quiet, FramesInv, Held
<1>9. \A n \in NodeId : ~Reported(1, n)'
  BY <1>7 DEF Reported, Gap, RouterGaps, Collision
<1>10. GapsInv'
  <2>1. RouterGaps(c.graphId, c.root)' = RouterGaps(c.graphId, c.root)
    BY <1>2 DEF RouterGaps
  <2>2. RouterGaps(docs[1].id, docs[1].obj)' = AllGaps'
    BY <1>2, <1>3, <1>6, <1>7, <2>1 DEF RouterGaps
  <2>3. \A g \in AllGaps' : g.graph \in assigned'
    BY <1>2, <1>7 DEF RouterGaps
  <2>4. QED
    BY <1>2, <1>9, <2>2, <2>3 DEF GapsInv
<1>11. Accounted'
  <2> SUFFICES ASSUME NEW n \in NodeId PROVE Opaque(1, n)'
    BY <1>2, <1>3, <1>6 DEF Accounted
  <2>1. CASE n \in world[c.root].runtime
    BY <2>1, <1>2, <1>3, <1>4, <1>5, <1>6 DEF Opaque, Ahead
  <2>2. CASE n \notin world[c.root].runtime
    <3>1. ChildOf(docs[1], n)' = NoChild
      BY <2>2, <1>2, <1>3, <1>6
         DEF ChildOf, MappedCompiledChild, DirectBoundChild, DeclaredChild, RuntimeMapped
    <3>2. QED
      BY <3>1 DEF Opaque
  <2>3. QED
    BY <2>1, <2>2
<1>12. QED
  BY <1>1, <1>8, <1>10, <1>11 DEF OutcomeInv

\* Replacing the innermost frame by one on the same document, with no fewer gaps
\* and descendants.
LEMMA TopEffect ==
  ASSUME OutcomeInv, stack # << >>, NEW f, f.doc = Top.doc, f.todo \subseteq Top.todo,
         f.descendants = Top.descendants, Top.gaps \subseteq f.gaps,
         stack' = [stack EXCEPT ![Len(stack)] = f],
         UNCHANGED <<world, phase, docs, output, error>>
  PROVE  /\ Len(stack) \in DOMAIN stack
         /\ DOMAIN stack' = DOMAIN stack
         /\ \A k \in DOMAIN stack : stack'[k] = IF k = Len(stack) THEN f ELSE stack[k]
         /\ Quiet' /\ FramesInv' /\ Held'
         /\ AllGaps' = AllGaps \cup f.gaps
<1>1. Len(stack) \in DOMAIN stack
  BY TopType DEF OutcomeInv, RecursionSafe, TypeInv
<1>2. DOMAIN stack' = DOMAIN stack
  OBVIOUS
<1>3. \A k \in DOMAIN stack : stack'[k] = IF k = Len(stack) THEN f ELSE stack[k]
  OBVIOUS
<1>4. Quiet'
  BY DEF OutcomeInv, Quiet
<1>5. \A k \in DOMAIN stack :
        /\ stack'[k].doc = stack[k].doc /\ stack'[k].todo \subseteq stack[k].todo
        /\ stack'[k].descendants = stack[k].descendants
        /\ stack[k].gaps \subseteq stack'[k].gaps
        /\ stack'[k].gaps \subseteq stack[k].gaps \cup f.gaps
  BY <1>3 DEF Top
<1>6. FramesInv'
  BY <1>2, <1>5 DEF OutcomeInv, FramesInv
<1>7. Held'
  BY <1>2, <1>5 DEF OutcomeInv, Held
<1>8. AllGaps' = AllGaps \cup f.gaps
  <2>1. f.gaps \subseteq AllGaps'
    BY <1>1, <1>2, <1>3 DEF AllGaps
  <2>2. AllGaps \subseteq AllGaps'
    BY <1>2, <1>5 DEF AllGaps
  <2>3. AllGaps' \subseteq AllGaps \cup f.gaps
    BY <1>2, <1>5 DEF AllGaps
  <2>4. QED
    BY <2>1, <2>2, <2>3
<1>9. QED
  BY <1>1, <1>2, <1>3, <1>4, <1>6, <1>7, <1>8

\* The node the innermost loop looks at is ahead in no other call.
LEMMA CurrentIsUnique ==
  ASSUME OutcomeInv, stack # << >>, NEW n \in NodeId, n \in Top.todo,
         NEW t, t = Top.doc, NEW f, f.doc = t, f.todo = Top.todo \ {n},
         DOMAIN stack' = DOMAIN stack,
         \A k \in DOMAIN stack : stack'[k] = IF k = Len(stack) THEN f ELSE stack[k]
  PROVE  /\ Ahead(t, n)
         /\ ~Ahead(t, n)'
         /\ \A i \in DOMAIN docs, m \in NodeId :
              ~(i = t /\ m = n) => (Ahead(i, m)' <=> Ahead(i, m))
<1>1. Len(stack) \in DOMAIN stack
  BY TopType DEF OutcomeInv, RecursionSafe, TypeInv
<1>2. \A k \in DOMAIN stack : stack[k].doc = t => k = Len(stack)
  BY <1>1 DEF OutcomeInv, FramesInv, Top
<1>3. Ahead(t, n)
  BY <1>1 DEF Ahead, Top
<1>4. ~Ahead(t, n)'
  BY <1>2 DEF Ahead
<1>5. ASSUME NEW i \in DOMAIN docs, NEW m \in NodeId, ~(i = t /\ m = n)
      PROVE  Ahead(i, m)' <=> Ahead(i, m)
  <2>1. \A k \in DOMAIN stack : 
          (stack'[k].doc = i /\ m \in stack'[k].todo) <=> (stack[k].doc = i /\ m \in stack[k].todo)
    BY <1>5 DEF Top
  <2>2. QED
    BY <2>1 DEF Ahead
<1>6. QED
  BY <1>3, <1>4, <1>5

\* A frame that has advanced past n.
LEMMA AdvanceFields ==
  ASSUME TypeInv, stack # << >>, NEW n \in NodeId
  PROVE  /\ Advance(n).doc = Top.doc /\ Advance(n).todo = Top.todo \ {n}
         /\ Advance(n).descendants = Top.descendants /\ Advance(n).gaps = Top.gaps
         /\ \A s : /\ [Advance(n) EXCEPT !.gaps = @ \cup s].doc = Top.doc
                   /\ [Advance(n) EXCEPT !.gaps = @ \cup s].todo = Top.todo \ {n}
                   /\ [Advance(n) EXCEPT !.gaps = @ \cup s].descendants = Top.descendants
                   /\ [Advance(n) EXCEPT !.gaps = @ \cup s].gaps = Top.gaps \cup s
<1>1. Top \in FrameType(DOMAIN docs)
  BY TopType DEF TypeInv
<1>2. QED
  BY <1>1 DEF Advance, FrameType

LEMMA SkipNodeOutcome ==
  ASSUME OutcomeInv, NEW n \in NodeId, SkipNode(n)
  PROVE  OutcomeInv'
<1> DEFINE f == Advance(n)
<1>0. PICK t : t = Top.doc
  OBVIOUS
<1>1. RecursionSafe' /\ TypeInv
  BY RecursionSafeStep DEF OutcomeInv, RecursionSafe, Next, Extract
<1>2. stack # << >> /\ n \in Top.todo
  BY <1>1 DEF TypeInv, RecursionInv, SkipNode, Current
<1>3. /\ f.doc = t /\ f.todo = Top.todo \ {n} /\ f.descendants = Top.descendants
      /\ f.gaps = Top.gaps
  BY <1>0, <1>1, <1>2, AdvanceFields
<1>4. /\ stack' = [stack EXCEPT ![Len(stack)] = f]
      /\ UNCHANGED <<world, declared, phase, call, docs, assigned, output, error>>
  BY DEF SkipNode
<1>5. t \in DOMAIN docs /\ ChildOf(docs[t], n) = NoChild
  BY <1>0, <1>1, <1>2, TopType DEF TypeInv, FrameType, SkipNode, TopDoc
<1> HIDE DEF f
<1>6. /\ Len(stack) \in DOMAIN stack /\ DOMAIN stack' = DOMAIN stack
      /\ \A k \in DOMAIN stack : stack'[k] = IF k = Len(stack) THEN f ELSE stack[k]
      /\ Quiet' /\ FramesInv' /\ Held' /\ AllGaps' = AllGaps \cup f.gaps
  BY <1>2, <1>3, <1>4, TopEffect, <1>0
<1>7. AllGaps' = AllGaps
  BY <1>3, <1>6 DEF AllGaps, Top
<1>8. /\ ~Ahead(t, n)'
      /\ \A i \in DOMAIN docs, m \in NodeId :
           ~(i = t /\ m = n) => (Ahead(i, m)' <=> Ahead(i, m))
  BY <1>2, <1>3, <1>6, CurrentIsUnique, <1>0
<1>9. QED
  BY <1>1, <1>4, <1>5, <1>6, <1>7, <1>8, SameGaps

LEMMA RefuseChildOutcome ==
  ASSUME OutcomeInv, NEW n \in NodeId, RefuseChild(n)
  PROVE  OutcomeInv'
<1>0. PICK t : t = Top.doc
  OBVIOUS
<1> DEFINE gap == Gap(Collision, docs[t].id, n)
           f == [Advance(n) EXCEPT !.gaps = @ \cup {gap}]
<1>1. RecursionSafe' /\ TypeInv /\ GraphIdsUnique
  BY RecursionSafeStep DEF OutcomeInv, RecursionSafe, Next, Extract
<1>2. stack # << >> /\ n \in Top.todo
  BY <1>1 DEF TypeInv, RecursionInv, RefuseChild, Current
<1>3. /\ f.doc = t /\ f.todo = Top.todo \ {n} /\ f.descendants = Top.descendants
      /\ f.gaps = Top.gaps \cup {gap}
  BY <1>0, <1>1, <1>2, AdvanceFields
<1>4. /\ stack' = [stack EXCEPT ![Len(stack)] = f]
      /\ UNCHANGED <<world, declared, phase, call, docs, assigned, output, error>>
  BY <1>0 DEF RefuseChild, Gap, TopDoc, Collision
<1>5. t \in DOMAIN docs
  BY <1>0, <1>1, <1>2, TopType DEF TypeInv, FrameType
<1>6. gap.code = Collision /\ gap.graph = docs[t].id /\ gap.node = n
  BY DEF Gap
<1> HIDE DEF f
<1>7. /\ Len(stack) \in DOMAIN stack /\ DOMAIN stack' = DOMAIN stack
      /\ \A k \in DOMAIN stack : stack'[k] = IF k = Len(stack) THEN f ELSE stack[k]
      /\ Quiet' /\ FramesInv' /\ Held' /\ AllGaps' = AllGaps \cup f.gaps
  BY <1>2, <1>3, <1>4, TopEffect, <1>0
<1>8. AllGaps' = AllGaps \cup {gap}
  BY <1>3, <1>7 DEF AllGaps, Top
<1>9. /\ Ahead(t, n) /\ ~Ahead(t, n)'
      /\ \A i \in DOMAIN docs, m \in NodeId :
           ~(i = t /\ m = n) => (Ahead(i, m)' <=> Ahead(i, m))
  BY <1>2, <1>3, <1>7, CurrentIsUnique, <1>0
<1>10. \A i \in DOMAIN docs, m \in NodeId :
         Reported(i, m)' <=> Reported(i, m) \/ (i = t /\ m = n)
  BY <1>1, <1>4, <1>5, <1>8 DEF GraphIdsUnique, Reported, Gap
<1>11. GapsInv'
  <2>1. gap.graph \in assigned
    BY <1>1, <1>5, <1>6 DEF GraphIdsUnique
  <2>2. gap.code # Routing
    BY <1>6 DEF Collision, Routing
  <2> HIDE DEF gap
  <2>3. QED
    BY <2>1, <2>2, <1>4, <1>8, <1>9, <1>10 DEF OutcomeInv, GapsInv, RouterGaps
<1>12. Accounted'
  <2> SUFFICES ASSUME NEW i \in DOMAIN docs, NEW m \in NodeId
               PROVE  (docs[i].sub[m] = NoRef) <=> Opaque(i, m)'
    BY <1>4 DEF Accounted
  <2>1. ChildOf(docs[i], m)' = ChildOf(docs[i], m)
    BY <1>4 DEF ChildOf
  <2>2. (docs[i].sub[m] = NoRef) <=> Opaque(i, m)
    BY DEF OutcomeInv, Accounted
  <2>3. Opaque(i, m)' <=> Opaque(i, m)
    BY <2>1, <1>4, <1>9, <1>10 DEF Opaque
  <2>4. QED
    BY <2>2, <2>3
<1>13. QED
  BY <1>1, <1>7, <1>11, <1>12 DEF OutcomeInv

\* What returning to the caller does: the two innermost calls become one, which
\* holds what both held.
LEMMA ReturnToParentEffect ==
  ASSUME TypeInv, ReturnToParent, NEW L, L = Len(stack)
  PROVE  /\ L \in Nat /\ L > 1 /\ DOMAIN stack = 1..L /\ DOMAIN stack' = 1..(L - 1)
         /\ stack[L].todo = {}
         /\ \A k \in 1..(L - 2) : stack'[k] = stack[k]
         /\ stack'[L - 1].doc = stack[L - 1].doc
         /\ stack'[L - 1].todo = stack[L - 1].todo
         /\ stack'[L - 1].descendants =
              stack[L - 1].descendants \cup {stack[L].doc} \cup stack[L].descendants
         /\ stack'[L - 1].gaps = stack[L - 1].gaps \cup stack[L].gaps
<1> DEFINE k == L - 1
           prefix == SubSeq(stack, 1, k)
           parent == [stack[k] EXCEPT !.descendants = @ \cup Returned.graphs,
                                      !.gaps = @ \cup Returned.gaps]
<1>1. DOMAIN stack = 1..L /\ L \in Nat /\ k \in Nat \ {0}
  BY TopType, LenProperties DEF TypeInv, TypeOK, RecursionInv, ReturnToParent
<1>2. DOMAIN prefix = 1..k /\ \A j \in 1..k : prefix[j] = stack[j]
  BY <1>1, SubSeqProperties DEF TypeInv, TypeOK
<1>3. stack[k] \in FrameType(DOMAIN docs)
  BY <1>1, StackDocs DEF TypeInv
<1>4. stack' = [prefix EXCEPT ![k] = parent]
  BY <1>1, <1>2 DEF ReturnToParent
<1>5. /\ Returned.graphs = {stack[L].doc} \cup stack[L].descendants
      /\ Returned.gaps = stack[L].gaps /\ stack[L].todo = {}
  BY DEF Returned, Top, ReturnToParent
<1>6. /\ parent.doc = stack[k].doc /\ parent.todo = stack[k].todo
      /\ parent.descendants = stack[k].descendants \cup Returned.graphs
      /\ parent.gaps = stack[k].gaps \cup Returned.gaps
  BY <1>3 DEF FrameType
<1> HIDE DEF prefix, parent, k
<1>7. DOMAIN stack' = 1..k /\ stack'[k] = parent /\ \A j \in 1..k : j # k => stack'[j] = stack[j]
  BY <1>1, <1>2, <1>4
<1>8. QED
  BY <1>1, <1>5, <1>6, <1>7 DEF k

\* ... and what both found is still found.
LEMMA ReturnToParentGaps ==
  ASSUME TypeInv, ReturnToParent
  PROVE  AllGaps' = AllGaps
<1>0. PICK L : L = Len(stack)
  OBVIOUS
<1>a. /\ L \in Nat /\ L > 1 /\ DOMAIN stack = 1..L /\ DOMAIN stack' = 1..(L - 1)
      /\ \A k \in 1..(L - 2) : stack'[k] = stack[k]
      /\ stack'[L - 1].gaps = stack[L - 1].gaps \cup stack[L].gaps
  BY <1>0, ReturnToParentEffect
<1>b. output' = output
  BY DEF ReturnToParent
<1>1. ASSUME NEW g, g \in AllGaps' PROVE g \in AllGaps
  <2>1. CASE g \in output.gaps
    BY <2>1 DEF AllGaps
  <2>2. ASSUME NEW k \in DOMAIN stack', g \in stack'[k].gaps PROVE g \in AllGaps
    <3>1. k \in DOMAIN stack /\ L \in DOMAIN stack
      BY <1>a
    <3>2. g \in stack[k].gaps \/ g \in stack[L].gaps
      BY <2>2, <1>a
    <3>3. QED
      BY <3>1, <3>2 DEF AllGaps
  <2>3. QED
    BY <1>1, <2>1, <2>2, <1>b DEF AllGaps
<1>2. ASSUME NEW g, g \in AllGaps PROVE g \in AllGaps'
  <2>1. CASE g \in output.gaps
    BY <2>1, <1>b DEF AllGaps
  <2>2. ASSUME NEW k \in DOMAIN stack, g \in stack[k].gaps PROVE g \in AllGaps'
    <3>1. \E j \in DOMAIN stack' : g \in stack'[j].gaps
      <4>1. CASE k \in 1..(L - 2)
        BY <4>1, <2>2, <1>a
      <4>2. CASE k \in {L - 1, L}
        <5>1. L - 1 \in DOMAIN stack' /\ g \in stack'[L - 1].gaps
          BY <4>2, <2>2, <1>a
        <5>2. QED
          BY <5>1
      <4>3. QED
        BY <4>1, <4>2, <1>a
    <3>2. QED
      BY <3>1 DEF AllGaps
  <2>3. QED
    BY <1>2, <2>1, <2>2 DEF AllGaps
<1>3. QED
  BY <1>1, <1>2

LEMMA ReturnToParentOutcome ==
  ASSUME OutcomeInv, ReturnToParent
  PROVE  OutcomeInv'
<1> DEFINE L == Len(stack)
<1>1. RecursionSafe' /\ TypeInv
  BY RecursionSafeStep DEF OutcomeInv, RecursionSafe, Next, Extract
<1>2. UNCHANGED <<world, declared, phase, call, docs, assigned, output, error>>
  BY DEF ReturnToParent
<1>3. /\ L \in Nat /\ L > 1 /\ DOMAIN stack = 1..L /\ DOMAIN stack' = 1..(L - 1)
      /\ stack[L].todo = {}
      /\ \A k \in 1..(L - 2) : stack'[k] = stack[k]
      /\ stack'[L - 1].doc = stack[L - 1].doc
      /\ stack'[L - 1].todo = stack[L - 1].todo
      /\ stack'[L - 1].descendants =
           stack[L - 1].descendants \cup {stack[L].doc} \cup stack[L].descendants
      /\ stack'[L - 1].gaps = stack[L - 1].gaps \cup stack[L].gaps
  BY <1>1, ReturnToParentEffect
<1> HIDE DEF L
<1>4. \A k \in DOMAIN stack' : stack'[k].doc = stack[k].doc /\ stack'[k].todo = stack[k].todo
  BY <1>3
<1>5. Quiet'
  BY <1>2 DEF OutcomeInv, Quiet
<1>6. FramesInv'
  BY <1>2, <1>3, <1>4 DEF OutcomeInv, FramesInv
<1>7. Held'
  <2> SUFFICES ASSUME NEW i \in DOMAIN docs, i \notin output.graphs
               PROVE  \E k \in DOMAIN stack' : i = stack'[k].doc \/ i \in stack'[k].descendants
    BY <1>2 DEF Held
  <2>1. PICK k \in DOMAIN stack : i = stack[k].doc \/ i \in stack[k].descendants
    BY DEF OutcomeInv, Held
  <2>2. CASE k \in 1..(L - 2)
    BY <2>1, <2>2, <1>3
  <2>3. CASE k \in {L - 1, L}
    <3>1. L - 1 \in DOMAIN stack'
      BY <1>3
    <3>2. i = stack'[L - 1].doc \/ i \in stack'[L - 1].descendants
      BY <2>1, <2>3, <1>3
    <3>3. QED
      BY <3>1, <3>2
  <2>4. QED
    BY <2>2, <2>3, <1>3
<1>8. AllGaps' = AllGaps
  BY <1>1, ReturnToParentGaps
<1>9. \A i \in DOMAIN docs, n \in NodeId : Ahead(i, n)' <=> Ahead(i, n)
  <2>1. ASSUME NEW i, NEW n, NEW k \in DOMAIN stack, stack[k].doc = i, n \in stack[k].todo
        PROVE  k \in DOMAIN stack'
    BY <2>1, <1>3
  <2>2. QED
    BY <2>1, <1>3, <1>4, SMTT(60) DEF Ahead
<1>10. QED
  BY <1>1, <1>2, <1>5, <1>6, <1>7, <1>8, <1>9, SameGaps

\* What EnterChild adds: one document and one frame with constant parts.
LEMMA EnterChildAdds ==
  ASSUME TypeInv, NEW n \in NodeId, EnterChild(n),
         NEW N, N = Len(docs), NEW L, L = Len(stack), NEW t, t = Top.doc,
         NEW gid, gid = DerivedId(TopDoc.id, n),
         NEW child, child = ChildOf(TopDoc, n), NEW d, d = TopDoc.depth - 1
  PROVE  /\ N \in Nat /\ L \in Nat \ {0} /\ d \in Nat /\ child \in Graph
         /\ gid # NoRef /\ gid \notin assigned /\ assigned' = assigned \cup {gid}
         /\ t \in DOMAIN docs /\ n \in stack[L].todo /\ stack[L].doc = t
         /\ TopDoc = docs[t]
         /\ DOMAIN docs = 1..N /\ DOMAIN docs' = 1..(N + 1)
         /\ \A i \in DOMAIN docs :
              /\ docs'[i].id = docs[i].id /\ docs'[i].obj = docs[i].obj
              /\ docs'[i].depth = docs[i].depth
              /\ \A m \in NodeId :
                   docs'[i].sub[m] = IF i = t /\ m = n THEN gid ELSE docs[i].sub[m]
         /\ docs'[N + 1].id = gid /\ docs'[N + 1].obj = child /\ docs'[N + 1].depth = d
         /\ \A m \in NodeId : docs'[N + 1].sub[m] = NoRef
         /\ DOMAIN stack = 1..L /\ DOMAIN stack' = 1..(L + 1)
         /\ \A k \in 1..(L - 1) : stack'[k] = stack[k]
         /\ stack'[L].doc = t /\ stack'[L].todo = stack[L].todo \ {n}
         /\ stack'[L].descendants = stack[L].descendants
         /\ stack'[L].gaps = stack[L].gaps
         /\ stack'[L + 1].doc = N + 1
         /\ stack'[L + 1].todo = IF d > 0 THEN world[child].runtime ELSE {}
         /\ stack'[L + 1].gaps = RouterGaps(gid, child)
         /\ UNCHANGED <<world, declared, phase, call, output, error>>
<1>1. /\ stack # << >> /\ n \in Top.todo /\ TopDoc.depth > 0 /\ child \in Graph
      /\ docs'[N + 1] = Document(gid, child, d)
      /\ DOMAIN docs = 1..N /\ DOMAIN docs' = 1..(N + 1)
      /\ DOMAIN stack = 1..L /\ DOMAIN stack' = 1..(L + 1)
      /\ \A k \in 1..(L - 1) : stack'[k] = stack[k]
      /\ stack'[L] = Advance(n) /\ stack'[L + 1] = Frame(N + 1, gid, child, d)
  BY EnterChildEffect
<1>2. /\ L \in Nat \ {0} /\ N \in Nat /\ TopDoc \in DocumentType
      /\ Top \in FrameType(DOMAIN docs)
  BY <1>1, TopType, LenProperties DEF TypeInv, TypeOK
<1>3. TopDoc.depth \in Nat /\ TopDoc.id \in Seq(Token) /\ t \in DOMAIN docs
  BY <1>2 DEF DocumentType, FrameType
<1>4. d \in Nat /\ gid # NoRef
  BY <1>1, <1>3, DerivedIdType DEF NoRef
<1>5. /\ Advance(n).doc = Top.doc /\ Advance(n).todo = Top.todo \ {n}
      /\ Advance(n).descendants = Top.descendants /\ Advance(n).gaps = Top.gaps
  BY <1>1, AdvanceFields
<1>6. Top = stack[L] /\ TopDoc = docs[t]
  BY DEF Top, TopDoc
<1>7. \A i \in DOMAIN docs :
        /\ docs'[i].id = docs[i].id /\ docs'[i].obj = docs[i].obj
        /\ docs'[i].depth = docs[i].depth
        /\ \A m \in NodeId :
             docs'[i].sub[m] = IF i = t /\ m = n THEN gid ELSE docs[i].sub[m]
  BY EnterChildKeeps
<1>8. /\ docs'[N + 1].id = gid /\ docs'[N + 1].obj = child /\ docs'[N + 1].depth = d
      /\ \A m \in NodeId : docs'[N + 1].sub[m] = NoRef
  BY <1>1 DEF Document
<1>9. /\ stack'[L + 1].doc = N + 1
      /\ stack'[L + 1].todo = IF d > 0 THEN world[child].runtime ELSE {}
      /\ stack'[L + 1].gaps = RouterGaps(gid, child)
  BY <1>1 DEF Frame
<1>10. /\ gid \notin assigned /\ assigned' = assigned \cup {gid}
       /\ UNCHANGED <<world, declared, phase, call, output, error>>
  BY DEF EnterChild, Taken
<1>11. /\ stack'[L].doc = t /\ stack'[L].todo = stack[L].todo \ {n}
       /\ stack'[L].descendants = stack[L].descendants
       /\ stack'[L].gaps = stack[L].gaps /\ n \in stack[L].todo /\ stack[L].doc = t
  BY <1>1, <1>5, <1>6
<1>12. QED
  BY <1>1, <1>2, <1>3, <1>4, <1>6, <1>7, <1>8, <1>9, <1>10, <1>11, ZenonT(60)

\* The gaps of the new frame are all that EnterChild adds to the gaps.
LEMMA EnterChildGaps ==
  ASSUME TypeInv, NEW n \in NodeId, EnterChild(n),
         NEW gid, gid = DerivedId(TopDoc.id, n), NEW child, child = ChildOf(TopDoc, n)
  PROVE  AllGaps' = AllGaps \cup RouterGaps(gid, child)
<1>0. \E N, L, t, d : N = Len(docs) /\ L = Len(stack) /\ t = Top.doc /\ d = TopDoc.depth - 1
  OBVIOUS
<1>1. PICK N, L, t, d : N = Len(docs) /\ L = Len(stack) /\ t = Top.doc /\ d = TopDoc.depth - 1
  BY <1>0
<1>2. /\ L \in Nat \ {0} /\ DOMAIN stack = 1..L /\ DOMAIN stack' = 1..(L + 1)
      /\ stack'[L].gaps = stack[L].gaps
      /\ stack'[L + 1].gaps = RouterGaps(gid, child) /\ output' = output
  BY <1>1, EnterChildAdds
<1>3. \A k \in 1..(L - 1) : stack'[k] = stack[k]
  BY <1>1, EnterChildEffect
<1>4. \A k \in DOMAIN stack : k \in DOMAIN stack' /\ stack'[k].gaps = stack[k].gaps
  <2> SUFFICES ASSUME NEW k \in DOMAIN stack
               PROVE  k \in DOMAIN stack' /\ stack'[k].gaps = stack[k].gaps
    OBVIOUS
  <2>1. k \in DOMAIN stack' /\ (k = L \/ k \in 1..(L - 1))
    BY <1>2
  <2>2. QED
    BY <2>1, <1>2, <1>3
<1>5. L + 1 \in DOMAIN stack' /\ \A k \in DOMAIN stack' : k \in DOMAIN stack \/ k = L + 1
  BY <1>2
<1>6. QED
  BY <1>2, <1>4, <1>5 DEF AllGaps

LEMMA EnterChildOutcome ==
  ASSUME OutcomeInv, NEW n \in NodeId, EnterChild(n)
  PROVE  OutcomeInv'
<1>0. /\ \E N, L, t : N = Len(docs) /\ L = Len(stack) /\ t = Top.doc
      /\ \E gid, child, d : /\ gid = DerivedId(TopDoc.id, n)
                            /\ child = ChildOf(TopDoc, n) /\ d = TopDoc.depth - 1
  OBVIOUS
<1>a. PICK N, L, t : N = Len(docs) /\ L = Len(stack) /\ t = Top.doc
  BY <1>0
<1>b. PICK gid, child, d : /\ gid = DerivedId(TopDoc.id, n)
                           /\ child = ChildOf(TopDoc, n) /\ d = TopDoc.depth - 1
  BY <1>0
<1>1. TypeInv /\ GraphIdsUnique /\ RecursionSafe'
  BY EnterChildSafe DEF OutcomeInv, RecursionSafe
<1>2. /\ N \in Nat /\ L \in Nat \ {0} /\ d \in Nat /\ child \in Graph
      /\ gid # NoRef /\ gid \notin assigned /\ assigned' = assigned \cup {gid}
      /\ t \in DOMAIN docs /\ n \in stack[L].todo /\ stack[L].doc = t
      /\ TopDoc = docs[t]
      /\ DOMAIN docs = 1..N /\ DOMAIN docs' = 1..(N + 1)
      /\ DOMAIN stack = 1..L /\ DOMAIN stack' = 1..(L + 1)
      /\ UNCHANGED <<world, declared, phase, call, output, error>>
  BY <1>a, <1>b, <1>1, EnterChildAdds
<1>3. \A i \in DOMAIN docs :
        /\ docs'[i].id = docs[i].id /\ docs'[i].obj = docs[i].obj
        /\ docs'[i].depth = docs[i].depth
        /\ \A m \in NodeId :
             docs'[i].sub[m] = IF i = t /\ m = n THEN gid ELSE docs[i].sub[m]
  BY <1>a, <1>b, <1>1, EnterChildAdds, SMTT(60)
<1>4. /\ docs'[N + 1].id = gid /\ docs'[N + 1].obj = child /\ docs'[N + 1].depth = d
      /\ \A m \in NodeId : docs'[N + 1].sub[m] = NoRef
  BY <1>a, <1>b, <1>1, EnterChildAdds, SMTT(60)
<1>5. /\ \A k \in 1..(L - 1) : stack'[k] = stack[k]
      /\ stack'[L].doc = t /\ stack'[L].todo = stack[L].todo \ {n}
      /\ stack'[L].descendants = stack[L].descendants /\ stack'[L].gaps = stack[L].gaps
      /\ stack'[L + 1].doc = N + 1
      /\ stack'[L + 1].todo = IF d > 0 THEN world[child].runtime ELSE {}
      /\ stack'[L + 1].gaps = RouterGaps(gid, child)
  <2>1. \A k \in 1..(L - 1) : stack'[k] = stack[k]
    BY <1>a, <1>1, EnterChildEffect
  <2>2. /\ stack'[L].doc = t /\ stack'[L].todo = stack[L].todo \ {n}
        /\ stack'[L].descendants = stack[L].descendants /\ stack'[L].gaps = stack[L].gaps
    BY <1>a, <1>b, <1>1, EnterChildAdds
  <2>3. /\ stack'[L + 1].doc = N + 1
        /\ stack'[L + 1].todo = IF d > 0 THEN world[child].runtime ELSE {}
        /\ stack'[L + 1].gaps = RouterGaps(gid, child)
    BY <1>a, <1>b, <1>1, EnterChildAdds
  <2>4. QED
    BY <2>1, <2>2, <2>3
<1>6. \A k \in DOMAIN stack :
        /\ k \in DOMAIN stack' /\ stack'[k].doc = stack[k].doc
        /\ stack'[k].todo = IF k = L THEN stack[k].todo \ {n} ELSE stack[k].todo
        /\ stack'[k].descendants = stack[k].descendants
        /\ stack[k].doc \in DOMAIN docs
  <2> SUFFICES ASSUME NEW k \in DOMAIN stack
               PROVE  /\ k \in DOMAIN stack' /\ stack'[k].doc = stack[k].doc
                      /\ stack'[k].todo = IF k = L THEN stack[k].todo \ {n} ELSE stack[k].todo
                      /\ stack'[k].descendants = stack[k].descendants
                      /\ stack[k].doc \in DOMAIN docs
    OBVIOUS
  <2>1. stack[k].doc \in DOMAIN docs
    BY <1>1, StackDocs DEF TypeInv
  <2>2. k \in DOMAIN stack' /\ (k = L \/ k \in 1..(L - 1))
    BY <1>2
  <2>3. QED
    BY <2>1, <2>2, <1>2, <1>5
<1>7. /\ \A k \in DOMAIN stack' : k \in DOMAIN stack \/ k = L + 1
      /\ \A k \in DOMAIN stack : stack'[k].doc # N + 1
  <2>1. \A k \in DOMAIN stack' : k \in DOMAIN stack \/ k = L + 1
    BY <1>2
  <2>2. ASSUME NEW k \in DOMAIN stack PROVE stack'[k].doc # N + 1
    <3>1. stack'[k].doc \in 1..N
      BY <1>2, <1>6
    <3>2. QED
      BY <3>1, <1>2
  <2>3. QED
    BY <2>1, <2>2
<1>8. Quiet'
  BY <1>2 DEF OutcomeInv, Quiet
<1>9. FramesInv'
  <2>1. \A j, k \in DOMAIN stack' : stack'[j].doc = stack'[k].doc => j = k
    <3>1. \A j, k \in DOMAIN stack : stack[j].doc = stack[k].doc => j = k
      BY DEF OutcomeInv, FramesInv
    <3>2. QED
      BY <3>1, <1>5, <1>6, <1>7
  <2>2. ASSUME NEW k \in DOMAIN stack'
        PROVE  stack'[k].todo \subseteq world'[docs'[stack'[k].doc].obj].runtime
    <3>1. CASE k \in DOMAIN stack
      <4>1. stack[k].todo \subseteq world[docs[stack[k].doc].obj].runtime
        BY <3>1 DEF OutcomeInv, FramesInv
      <4>2. docs'[stack'[k].doc].obj = docs[stack[k].doc].obj
        BY <3>1, <1>3, <1>6, ZenonT(60)
      <4>3. stack'[k].todo \subseteq stack[k].todo
        BY <3>1, <1>6
      <4>4. QED
        BY <4>1, <4>2, <4>3, <1>2
    <3>2. CASE k = L + 1
      BY <3>2, <1>2, <1>4, <1>5
    <3>3. QED
      BY <3>1, <3>2, <1>7
  <2>3. QED
    BY <2>1, <2>2 DEF FramesInv
<1>10. Held'
  <2>1. L + 1 \in DOMAIN stack'
    BY <1>2
  <2>2. \A i \in DOMAIN docs' : i \in DOMAIN docs \/ i = N + 1
    BY <1>2
  <2>3. QED
    BY <2>1, <2>2, <1>2, <1>5, <1>6, SMTT(60) DEF OutcomeInv, Held
<1>11. AllGaps' = AllGaps \cup RouterGaps(gid, child)
  BY <1>b, <1>1, EnterChildGaps
<1>12. \A g \in RouterGaps(gid, child) : g.graph = gid /\ g.code = Routing
  BY DEF RouterGaps, Routing
<1>13. \A i \in DOMAIN docs, m \in NodeId : Reported(i, m)' <=> Reported(i, m)
  <2>1. \A i, m : Gap(Collision, docs[i].id, m).code = Collision
    BY DEF Gap
  <2>2. Collision # Routing
    BY DEF Collision, Routing
  <2>3. ASSUME NEW i \in DOMAIN docs, NEW m \in NodeId
        PROVE  Reported(i, m)' <=> Reported(i, m)
    <3>1. Gap(Collision, docs[i].id, m)' = Gap(Collision, docs[i].id, m)
      BY <1>3 DEF Gap, Collision
    <3>2. Gap(Collision, docs[i].id, m) \notin RouterGaps(gid, child)
      BY <2>1, <2>2, <1>12
    <3>3. QED
      BY <3>1, <3>2, <1>11 DEF Reported
  <2>4. QED
    BY <2>3
<1>14. \A m \in NodeId : ~Reported(N + 1, m)'
  <2>1. \A g \in AllGaps : g.graph # gid
    BY <1>2 DEF OutcomeInv, GapsInv
  <2>2. ASSUME NEW m \in NodeId PROVE ~Reported(N + 1, m)'
    <3>1. /\ Gap(Collision, docs'[N + 1].id, m).graph = gid
          /\ Gap(Collision, docs'[N + 1].id, m).code # Routing
      BY <1>4 DEF Gap, Collision, Routing
    <3>2. Gap(Collision, docs'[N + 1].id, m) \notin AllGaps'
      BY <3>1, <2>1, <1>11, <1>12
    <3>3. QED
      BY <3>2 DEF Reported, Gap, Collision
  <2>3. QED
    BY <2>2
<1>15. Ahead(t, n) /\ ~Ahead(t, n)'
  <2>1. L \in DOMAIN stack
    BY <1>2
  <2>2. \A k \in DOMAIN stack : stack[k].doc = t => k = L
    BY <2>1, <1>2 DEF OutcomeInv, FramesInv
  <2>3. Ahead(t, n)
    BY <2>1, <1>2 DEF Ahead
  <2>4. N + 1 # t
    BY <1>2
  <2>5. ~Ahead(t, n)'
    BY <2>2, <2>4, <1>5, <1>6, <1>7 DEF Ahead
  <2>6. QED
    BY <2>3, <2>5
<1>16. \A i \in DOMAIN docs, m \in NodeId :
         ~(i = t /\ m = n) => (Ahead(i, m)' <=> Ahead(i, m))
  <2> SUFFICES ASSUME NEW i \in DOMAIN docs, NEW m \in NodeId, ~(i = t /\ m = n)
               PROVE  Ahead(i, m)' <=> Ahead(i, m)
    OBVIOUS
  <2>1. N + 1 # i
    BY <1>2
  <2>2. \A k \in DOMAIN stack :
          (stack'[k].doc = i /\ m \in stack'[k].todo) <=> (stack[k].doc = i /\ m \in stack[k].todo)
    BY <1>2, <1>6
  <2>3. QED
    BY <2>1, <2>2, <1>5, <1>6, <1>7 DEF Ahead
<1>17. \A m \in NodeId : Ahead(N + 1, m)' <=> m \in stack'[L + 1].todo
  <2>1. L + 1 \in DOMAIN stack'
    BY <1>2
  <2>2. QED
    BY <2>1, <1>5, <1>7 DEF Ahead
<1>18. GapsInv'
  <2>1. \A g \in AllGaps' : g.graph \in assigned'
    BY <1>2, <1>11, <1>12 DEF OutcomeInv, GapsInv
  <2>2. \A i \in DOMAIN docs : RouterGaps(docs[i].id, docs[i].obj)' = RouterGaps(docs[i].id, docs[i].obj)
    BY <1>2, <1>3 DEF RouterGaps
  <2>3. RouterGaps(docs[N + 1].id, docs[N + 1].obj)' = RouterGaps(gid, child)
    BY <1>2, <1>4 DEF RouterGaps
  <2>4. N + 1 \in DOMAIN docs' /\ \A i \in DOMAIN docs' : i \in DOMAIN docs \/ i = N + 1
    BY <1>2
  <2>5. ASSUME NEW g \in AllGaps', g.code = Routing
        PROVE  \E i \in DOMAIN docs' : g \in RouterGaps(docs[i].id, docs[i].obj)'
    <3>1. CASE g \in RouterGaps(gid, child)
      BY <3>1, <2>3, <2>4
    <3>2. CASE g \in AllGaps
      <4>1. PICK i \in DOMAIN docs : g \in RouterGaps(docs[i].id, docs[i].obj)
        BY <3>2, <2>5 DEF OutcomeInv, GapsInv
      <4>2. i \in DOMAIN docs' /\ g \in RouterGaps(docs[i].id, docs[i].obj)'
        BY <4>1, <2>2, <1>2
      <4>3. QED
        BY <4>2
    <3>3. QED
      BY <3>1, <3>2, <2>5, <1>11
  <2>6. \A i \in DOMAIN docs' : RouterGaps(docs[i].id, docs[i].obj)' \subseteq AllGaps'
    BY <2>2, <2>3, <2>4, <1>11 DEF OutcomeInv, GapsInv
  <2>7. \A i \in DOMAIN docs', m \in NodeId : Reported(i, m)' => ~Ahead(i, m)'
    BY <2>4, <1>13, <1>14, <1>15, <1>16 DEF OutcomeInv, GapsInv
  <2>8. QED
    BY <2>1, <2>5, <2>6, <2>7 DEF GapsInv
<1>19. Accounted'
  <2>1. ASSUME NEW i \in DOMAIN docs, NEW m \in NodeId
        PROVE  (docs'[i].sub[m] = NoRef) <=> Opaque(i, m)'
    <3>1. /\ (docs[i].sub[m] = NoRef) <=> Opaque(i, m)
          /\ (docs[t].sub[n] = NoRef) <=> Opaque(t, n)
      BY <1>2 DEF OutcomeInv, Accounted
    <3>2. /\ ChildOf(docs[i], m)' = ChildOf(docs[i], m)
          /\ docs'[i].depth = docs[i].depth
      BY <1>2, <1>3 DEF ChildOf
    <3>3. CASE i = t /\ m = n
      <4>1. docs'[i].sub[m] = gid
        BY <3>3, <1>3
      <4>2. docs[i].depth # 0
        BY <3>3, <1>2, <1>b, <1>1, EnterChildEffect
      <4>3. ChildOf(docs[i], m) # NoChild
        BY <3>3, <1>2 DEF EnterChild
      <4>4. ~Reported(i, m)
        BY <3>3, <1>15 DEF OutcomeInv, GapsInv
      <4>5. ~Reported(i, m)' /\ ~Ahead(i, m)'
        BY <3>3, <4>4, <1>13, <1>15
      <4>6. ~Opaque(i, m)'
        BY <3>2, <4>2, <4>3, <4>5 DEF Opaque
      <4>7. QED
        BY <4>1, <4>6, <1>2
    <3>4. CASE ~(i = t /\ m = n)
      <4>1. docs'[i].sub[m] = docs[i].sub[m]
        BY <3>4, <1>3
      <4>2. Opaque(i, m)' <=> Opaque(i, m)
        BY <3>2, <3>4, <1>13, <1>16 DEF Opaque
      <4>3. QED
        BY <3>1, <4>1, <4>2
    <3>5. QED
      BY <3>3, <3>4
  <2>2. ASSUME NEW m \in NodeId PROVE Opaque(N + 1, m)'
    <3>1. CASE d = 0
      BY <3>1, <1>4 DEF Opaque
    <3>2. CASE d > 0 /\ m \in world[child].runtime
      BY <3>2, <1>5, <1>17 DEF Opaque
    <3>3. CASE m \notin world[child].runtime
      <4>1. ChildOf(docs[N + 1], m)' = NoChild
        BY <3>3, <1>2, <1>4
           DEF ChildOf, MappedCompiledChild, DirectBoundChild, DeclaredChild, RuntimeMapped
      <4>2. QED
        BY <4>1 DEF Opaque
    <3>4. QED
      BY <3>1, <3>2, <3>3, <1>2
  <2>3. \A i \in DOMAIN docs' : i \in DOMAIN docs \/ i = N + 1
    BY <1>2
  <2>4. QED
    BY <2>1, <2>2, <2>3, <1>4 DEF Accounted
<1>20. QED
  BY <1>1, <1>8, <1>9, <1>10, <1>18, <1>19 DEF OutcomeInv

\* The outermost call hands out all that was found.
LEMMA ReturnFromRootGaps ==
  ASSUME OutcomeInv, ReturnFromRoot
  PROVE  AllGaps' = AllGaps
<1>1. /\ DOMAIN stack = {1} /\ Top = stack[1] /\ DOMAIN stack' = {}
      /\ output'.gaps = Top.gaps /\ phase = "extracting"
  BY LenProperties
     DEF OutcomeInv, RecursionSafe, TypeInv, TypeOK, Top, ReturnFromRoot, Returned
<1>2. output.gaps = {}
  BY <1>1 DEF OutcomeInv, Quiet
<1>3. QED
  BY <1>1, <1>2 DEF AllGaps

LEMMA ReturnFromRootOutcome ==
  ASSUME OutcomeInv, ReturnFromRoot
  PROVE  OutcomeInv'
<1>1. RecursionSafe' /\ TypeInv
  BY RecursionSafeStep DEF OutcomeInv, RecursionSafe, Next, Extract
<1>2. /\ DOMAIN stack = {1} /\ Top = stack[1] /\ Top.todo = {} /\ stack' = << >>
      /\ output'.graphs = {Top.doc} \cup Top.descendants /\ output'.gaps = Top.gaps
      /\ phase = "extracting" /\ phase' = "extracted"
      /\ UNCHANGED <<world, declared, call, docs, assigned, error>>
  BY <1>1, LenProperties DEF TypeInv, TypeOK, Top, ReturnFromRoot, Returned
<1>3. DOMAIN stack' = {}
  BY <1>2
<1>4. output.gaps = {} /\ output.graphs = {} /\ error = "none"
  BY <1>2 DEF OutcomeInv, Quiet
<1>5. Quiet' /\ FramesInv'
  BY <1>2, <1>3, <1>4 DEF Quiet, FramesInv
<1>6. Held'
  BY <1>2, <1>4 DEF OutcomeInv, Held
<1>7. AllGaps' = AllGaps
  BY ReturnFromRootGaps
<1>8. \A i \in DOMAIN docs, n \in NodeId : ~Ahead(i, n) /\ ~Ahead(i, n)'
  BY <1>2, <1>3 DEF Ahead
<1>9. QED
  BY <1>1, <1>2, <1>5, <1>6, <1>7, <1>8, SameGaps

LEMMA FinishOutcome ==
  ASSUME OutcomeInv, Finish
  PROVE  OutcomeInv'
<1>1. RecursionSafe'
  BY RecursionSafeStep DEF OutcomeInv, Next, Extract
<1>2. Quiet'
  BY DEF OutcomeInv, Quiet, Finish
<1>3. UNCHANGED <<world, declared, call, docs, stack, assigned, output>>
  BY DEF Finish
<1>4. FramesInv' /\ Held'
  BY <1>3 DEF OutcomeInv, FramesInv, Held
<1>5. AllGaps' = AllGaps /\ \A i \in DOMAIN docs, n \in NodeId : Ahead(i, n)' <=> Ahead(i, n)
  BY <1>3 DEF AllGaps, Ahead
<1>6. QED
  BY <1>1, <1>2, <1>3, <1>4, <1>5, SameGaps

LEMMA StutterOutcome ==
  ASSUME OutcomeInv, UNCHANGED vars
  PROVE  OutcomeInv'
<1>1. RecursionSafe' /\ Quiet'
  BY RecursionSafeStep DEF OutcomeInv, Quiet, vars
<1>2. UNCHANGED <<world, declared, call, docs, stack, assigned, output>>
  BY DEF vars
<1>3. FramesInv' /\ Held'
  BY <1>2 DEF OutcomeInv, FramesInv, Held
<1>4. AllGaps' = AllGaps /\ \A i \in DOMAIN docs, n \in NodeId : Ahead(i, n)' <=> Ahead(i, n)
  BY <1>2 DEF AllGaps, Ahead
<1>5. QED
  BY <1>1, <1>2, <1>3, <1>4, SameGaps

LEMMA OutcomeStep == OutcomeInv /\ [Next]_vars => OutcomeInv'
<1> SUFFICES ASSUME OutcomeInv, [Next]_vars PROVE OutcomeInv'
  OBVIOUS
<1>1. ASSUME NEW d \in Declaration, DeclareChildren(d) PROVE OutcomeInv'
  <2>1. RecursionSafe'
    BY <1>1, RecursionSafeStep DEF OutcomeInv, Next
  <2>2. QED
    BY <1>1, <2>1, BuildingOutcome DEF DeclareChildren
<1>2. ASSUME NEW c \in Call, RejectCall(c) PROVE OutcomeInv'
  <2>1. RecursionSafe'
    BY <1>2, RecursionSafeStep DEF OutcomeInv, Next
  <2>2. QED
    BY <1>2, <2>1, BuildingOutcome DEF RejectCall
<1>3. ASSUME NEW c \in Call, EnterRoot(c) PROVE OutcomeInv'
  BY <1>3, EnterRootOutcome
<1>4. ASSUME NEW n \in NodeId, SkipNode(n) \/ RefuseChild(n) \/ EnterChild(n)
      PROVE  OutcomeInv'
  BY <1>4, SkipNodeOutcome, RefuseChildOutcome, EnterChildOutcome
<1>5. CASE ReturnToParent \/ ReturnFromRoot \/ Finish
  BY <1>5, ReturnToParentOutcome, ReturnFromRootOutcome, FinishOutcome
<1>6. CASE UNCHANGED vars
  BY <1>6, StutterOutcome
<1>7. QED
  BY <1>1, <1>2, <1>3, <1>4, <1>5, <1>6 DEF Next, Extract

LEMMA OutcomeAlways == Spec => []OutcomeInv
BY OutcomeInit, OutcomeStep, PTL DEF Spec

\* Once the recursion is over nobody holds anything and no loop is under way.
LEMMA OutcomeAtEnd ==
  ASSUME OutcomeInv, Ended
  PROVE  /\ DOMAIN stack = {} /\ AllGaps = output.gaps
         /\ \A i \in DOMAIN docs, n \in NodeId : ~Ahead(i, n)
<1>1. phase # "extracting"
  BY DEF OutcomeInv, Quiet, Ended
<1>2. DOMAIN stack = {}
  BY <1>1 DEF OutcomeInv, RecursionSafe, TypeInv, RecursionInv
<1>3. QED
  BY <1>2 DEF AllGaps, Ahead

\* The outcome holds every document and the gap of every router, and each child
\* within the budget is either materialized or reported as a collision, however
\* the program's graphs are nested, shared or declared in a cycle.
THEOREM OutcomeIsComplete == Spec => []NothingDropped
<1>1. OutcomeInv => NothingDropped
  <2> SUFFICES ASSUME OutcomeInv, Ended
               PROVE  /\ output.graphs = DOMAIN docs
                      /\ \A i \in DOMAIN docs :
                           /\ RouterGaps(docs[i].id, docs[i].obj) \subseteq output.gaps
                           /\ \A n \in world[docs[i].obj].runtime :
                                (docs[i].sub[n] = NoRef) <=>
                                  \/ docs[i].depth = 0
                                  \/ ChildOf(docs[i], n) = NoChild
                                  \/ Gap("child-graph-id-collision", docs[i].id, n)
                                       \in output.gaps
    BY DEF NothingDropped
  <2>1. /\ DOMAIN stack = {} /\ AllGaps = output.gaps
        /\ \A i \in DOMAIN docs, n \in NodeId : ~Ahead(i, n)
    BY OutcomeAtEnd
  <2>2. output.graphs = DOMAIN docs
    BY <2>1 DEF OutcomeInv, RecursionSafe, TypeInv, TypeOK, Held
  <2>3. ASSUME NEW i \in DOMAIN docs
        PROVE  world[docs[i].obj].runtime \subseteq NodeId
    <3>1. docs[i].obj \in Graph
      <4>1. docs[i] \in DocumentType
        BY LenProperties, ElementOfSeq DEF OutcomeInv, RecursionSafe, TypeInv, TypeOK
      <4>2. QED
        BY <4>1 DEF DocumentType
    <3>2. world[docs[i].obj] \in CompiledGraph
      BY <3>1, ObjectsAssumption DEF OutcomeInv, RecursionSafe, TypeInv, TypeOK, WorldAssumption
    <3>3. QED
      BY <3>2 DEF CompiledGraph
  <2>4. QED
    BY <2>1, <2>2, <2>3 DEF OutcomeInv, GapsInv, Accounted, Opaque, Reported, Collision
<1>2. QED
  BY <1>1, OutcomeAlways, PTL

-------------------------------------------------------------------------------
(* The contract's state as the recursion holds it.                          *)

Graphs == {[id |-> docs[i].id, obj |-> docs[i].obj, depth |-> docs[i].depth] :
             i \in DOMAIN docs}

Refs == UNION {{[graph |-> docs[i].id, node |-> n, to |-> docs[i].sub[n]] :
                  n \in {m \in NodeId : docs[i].sub[m] # NoRef}} : i \in DOMAIN docs}

RefusedNodes == {[graph |-> g.graph, node |-> g.node] : g \in {x \in AllGaps : x.code = Collision}}

ContractPhase == IF phase = "extracted" THEN "extracting" ELSE phase

LEMMA ContractInit == Init => Contract!Init
<1> SUFFICES ASSUME Init PROVE Contract!Init
  OBVIOUS
<1>1. DOMAIN docs = {} /\ AllGaps = {}
  BY DEF Init, AllGaps
<1>2. QED
  BY <1>1 DEF Init, Contract!Init, NoCall, Contract!NoCall

\* Between the steps that matter to the contract the recursion only moves on.
LEMMA ContractStutter ==
  ASSUME UNCHANGED <<world, declared, call, docs, error>>,
         ContractPhase' = ContractPhase, AllGaps' = AllGaps
  PROVE  UNCHANGED Contract!vars
BY DEF Contract!vars, ContractPhase

LEMMA DeclareStep ==
  ASSUME OutcomeInv, OutcomeInv', NEW d \in Declaration, DeclareChildren(d)
  PROVE  Contract!Declare(d)
<1>1. AllGaps' = AllGaps
  BY DEF DeclareChildren, AllGaps
<1>2. QED
  BY <1>1 DEF DeclareChildren, Contract!Declare

LEMMA RejectStep ==
  ASSUME OutcomeInv, OutcomeInv', NEW c \in Call, RejectCall(c)
  PROVE  Contract!Reject(c)
<1>1. AllGaps' = AllGaps
  BY DEF RejectCall, AllGaps
<1>2. /\ c.depth \in Int /\ phase = "building" /\ phase' = "raised"
      /\ call' = c /\ error' = ArgumentError(c) /\ ArgumentError(c) # "none"
      /\ UNCHANGED <<world, declared, docs, stack, assigned, output>>
  BY CallsAssumption DEF CallAssumption, RejectCall
<1>3. ~Contract!Acceptable(c)
  BY <1>2 DEF ArgumentError, Contract!Acceptable
<1>4. error' \in {"UnsupportedLangGraphVersionError", "TypeError", "ValueError"}
  BY <1>2 DEF ArgumentError
<1>5. QED
  BY <1>1, <1>2, <1>3, <1>4 DEF Contract!Reject

LEMMA BeginStep ==
  ASSUME OutcomeInv, OutcomeInv', NEW c \in Call, EnterRoot(c)
  PROVE  Contract!Begin(c)
<1> DEFINE doc == Document(c.graphId, c.root, c.depth)
           frame == Frame(1, c.graphId, c.root, c.depth)
<1>1. /\ docs' = <<doc>> /\ stack' = <<frame>>
      /\ DOMAIN docs' = {1} /\ DOMAIN stack' = {1}
      /\ phase = "building" /\ phase' = "extracting" /\ call' = c
      /\ output' = [graphs |-> {}, gaps |-> {}]
      /\ UNCHANGED <<world, declared, error>>
  BY DEF OutcomeInv, Quiet, EnterRoot
<1>2. /\ doc.id = c.graphId /\ doc.obj = c.root /\ doc.depth = c.depth
      /\ \A n \in NodeId : doc.sub[n] = NoRef
      /\ frame.gaps = RouterGaps(c.graphId, c.root)
  BY DEF Document, Frame
<1> HIDE DEF doc, frame
<1>3. DOMAIN docs = {} /\ DOMAIN stack = {} /\ output = [graphs |-> {}, gaps |-> {}]
  BY <1>1 DEF OutcomeInv, Quiet, RecursionSafe, TypeInv, RecursionInv
<1>4. docs'[1] = doc /\ stack'[1] = frame
  BY <1>1
<1>5. Graphs' = {[id |-> c.graphId, obj |-> c.root, depth |-> c.depth]}
  BY <1>1, <1>2, <1>4 DEF Graphs
<1>6. Refs = {} /\ Refs' = {}
  BY <1>1, <1>2, <1>3, <1>4 DEF Refs
<1>7. RefusedNodes = {} /\ RefusedNodes' = {}
  <2>1. AllGaps = {}
    BY <1>3 DEF AllGaps
  <2>2. AllGaps' = RouterGaps(c.graphId, c.root)
    BY <1>1, <1>2, <1>4 DEF AllGaps
  <2>3. \A g \in AllGaps' : g.code # Collision
    BY <2>2 DEF RouterGaps, Collision
  <2>4. QED
    BY <2>1, <2>3 DEF RefusedNodes
<1>8. Contract!Acceptable(c)
  <2>1. c.depth \in Int
    BY CallsAssumption DEF CallAssumption
  <2>2. ArgumentError(c) = "none"
    BY DEF EnterRoot
  <2>3. QED
    BY <2>1, <2>2 DEF ArgumentError, Contract!Acceptable
<1>9. QED
  BY <1>1, <1>5, <1>6, <1>7, <1>8 DEF Contract!Begin, Graphs, Refs, RefusedNodes, Collision

-------------------------------------------------------------------------------
\* A node is refused in the contract exactly when its collision is reported.
LEMMA RefusedIsReported ==
  ASSUME OutcomeInv, NEW i \in DOMAIN docs, NEW n \in NodeId
  PROVE  [graph |-> docs[i].id, node |-> n] \in RefusedNodes <=> Reported(i, n)
<1>1. AllGaps \subseteq GapType
  <2>1. \A k \in DOMAIN stack : stack[k].gaps \subseteq GapType
    BY StackDocs DEF OutcomeInv, RecursionSafe, TypeInv, FrameType
  <2>2. QED
    BY <2>1 DEF OutcomeInv, RecursionSafe, TypeInv, TypeOK, AllGaps
<1>2. ASSUME NEW g \in AllGaps, g.code = Collision,
             [graph |-> g.graph, node |-> g.node] = [graph |-> docs[i].id, node |-> n]
      PROVE  Reported(i, n)
  <2>1. g.graph = docs[i].id /\ g.node = n
    BY <1>2
  <2>2. g = Gap(Collision, docs[i].id, n)
    BY <2>1, <1>1, <1>2 DEF GapType, Gap
  <2>3. QED
    BY <2>2 DEF Reported
<1>3. ASSUME Reported(i, n)
      PROVE  [graph |-> docs[i].id, node |-> n] \in RefusedNodes
  BY <1>3 DEF Reported, Gap, RefusedNodes
<1>4. QED
  BY <1>2, <1>3 DEF RefusedNodes

\* A node has a reference in the contract exactly when it has a subgraphId.
LEMMA RefIsSub ==
  ASSUME OutcomeInv, NEW i \in DOMAIN docs, NEW n \in NodeId
  PROVE  (\E r \in Refs : r.graph = docs[i].id /\ r.node = n) <=> docs[i].sub[n] # NoRef
<1>1. ASSUME NEW r \in Refs, r.graph = docs[i].id, r.node = n
      PROVE  docs[i].sub[n] # NoRef
  <2>1. PICK j \in DOMAIN docs : \E m \in NodeId :
          /\ docs[j].sub[m] # NoRef
          /\ r = [graph |-> docs[j].id, node |-> m, to |-> docs[j].sub[m]]
    BY <1>1 DEF Refs
  <2>2. docs[j].id = docs[i].id
    BY <1>1, <2>1
  <2>3. j = i
    BY <2>2 DEF OutcomeInv, RecursionSafe, GraphIdsUnique
  <2>4. QED
    BY <1>1, <2>1, <2>3
<1>2. ASSUME docs[i].sub[n] # NoRef
      PROVE  \E r \in Refs : r.graph = docs[i].id /\ r.node = n
  <2>1. [graph |-> docs[i].id, node |-> n, to |-> docs[i].sub[n]] \in Refs
    BY <1>2 DEF Refs
  <2>2. QED
    BY <2>1
<1>3. QED
  BY <1>1, <1>2

AsGraph(i) == [id |-> docs[i].id, obj |-> docs[i].obj, depth |-> docs[i].depth]

\* The children the contract still waits for are those without a subgraphId, within
\* the budget, that no collision was reported for.
LEMMA PendingIsOpen ==
  ASSUME OutcomeInv, NEW i \in DOMAIN docs, NEW n \in NodeId
  PROVE  Contract!Pending(AsGraph(i), n) <=>
           /\ docs[i].depth > 0 /\ n \in world[docs[i].obj].runtime
           /\ ChildOf(docs[i], n) # NoChild
           /\ docs[i].sub[n] = NoRef /\ ~Reported(i, n)
<1>1. /\ AsGraph(i).id = docs[i].id /\ AsGraph(i).obj = docs[i].obj
      /\ AsGraph(i).depth = docs[i].depth
  BY DEF AsGraph
<1>2. Contract!Child(AsGraph(i), n) = ChildOf(docs[i], n)
  BY <1>1 DEF Contract!Child, Contract!MappedCompiledChild, Contract!DirectBoundChild,
     Contract!DeclaredChild, Contract!RuntimeMapped, ChildOf, MappedCompiledChild,
     DirectBoundChild, DeclaredChild, RuntimeMapped
<1>3. Contract!Pending(AsGraph(i), n) <=>
        /\ docs[i].depth > 0 /\ n \in world[docs[i].obj].runtime
        /\ ChildOf(docs[i], n) # NoChild
        /\ \A r \in Refs : ~(r.graph = docs[i].id /\ r.node = n)
        /\ [graph |-> docs[i].id, node |-> n] \notin RefusedNodes
  BY <1>1, <1>2 DEF Contract!Pending, Refs, RefusedNodes, Collision
<1>4. QED
  BY <1>3, RefusedIsReported, RefIsSub

-------------------------------------------------------------------------------
(* The three steps that do the contract's work.                             *)

\* A node the loops have not come to has no subgraphId and no collision yet.
LEMMA AheadIsOpen ==
  ASSUME OutcomeInv, NEW i \in DOMAIN docs, NEW n \in NodeId, Ahead(i, n)
  PROVE  docs[i].sub[n] = NoRef /\ ~Reported(i, n)
BY DEF OutcomeInv, Accounted, Opaque, GapsInv

\* The node the innermost loop looks at, when it holds a child.
LEMMA CurrentIsPending ==
  ASSUME OutcomeInv, stack # << >>, NEW n \in NodeId, n \in Top.todo,
         ChildOf(TopDoc, n) # NoChild, NEW t, t = Top.doc
  PROVE  /\ t \in DOMAIN docs /\ TopDoc = docs[t]
         /\ Contract!Pending(AsGraph(t), n) /\ AsGraph(t) \in Graphs
         /\ Ahead(t, n)
<1>1. /\ Len(stack) \in DOMAIN stack /\ t \in DOMAIN docs
  BY TopType DEF OutcomeInv, RecursionSafe, TypeInv, FrameType
<1>2. Ahead(t, n)
  BY <1>1 DEF Ahead, Top
<1>3. docs[t].depth > 0 /\ n \in world[docs[t].obj].runtime
  BY <1>1 DEF OutcomeInv, RecursionSafe, TypeInv, RecursionInv, FramesInv, Top
<1>4. TopDoc = docs[t]
  BY DEF TopDoc
<1>5. Contract!Pending(AsGraph(t), n)
  BY <1>1, <1>2, <1>3, <1>4, AheadIsOpen, PendingIsOpen
<1>6. AsGraph(t) \in Graphs
  BY <1>1 DEF AsGraph, Graphs
<1>7. QED
  BY <1>1, <1>2, <1>4, <1>5, <1>6

LEMMA RefuseStep ==
  ASSUME OutcomeInv, OutcomeInv', NEW n \in NodeId, RefuseChild(n)
  PROVE  \E g \in Graphs : \E passed \in SUBSET Contract!Taken(g) : Contract!Refuse(g, passed)
<1>0. PICK t : t = Top.doc
  OBVIOUS
<1> DEFINE gap == Gap(Collision, docs[t].id, n)
           f == [Advance(n) EXCEPT !.gaps = @ \cup {gap}]
<1>1. stack # << >> /\ n \in Top.todo /\ TypeInv /\ GraphIdsUnique
  BY DEF OutcomeInv, RecursionSafe, TypeInv, RecursionInv, RefuseChild, Current
<1>2. /\ t \in DOMAIN docs /\ TopDoc = docs[t]
      /\ Contract!Pending(AsGraph(t), n) /\ AsGraph(t) \in Graphs
  BY <1>0, <1>1, CurrentIsPending DEF RefuseChild
<1>3. /\ f.doc = Top.doc /\ f.todo \subseteq Top.todo /\ f.descendants = Top.descendants
      /\ f.gaps = Top.gaps \cup {gap}
  BY <1>1, AdvanceFields
<1>4. /\ stack' = [stack EXCEPT ![Len(stack)] = f]
      /\ UNCHANGED <<world, declared, phase, call, docs, assigned, output, error>>
  BY <1>0 DEF RefuseChild, Gap, TopDoc, Collision
<1>5. gap.code = Collision /\ gap.graph = docs[t].id /\ gap.node = n
  BY DEF Gap
<1> HIDE DEF f
<1>6. AllGaps' = AllGaps \cup f.gaps /\ Len(stack) \in DOMAIN stack
  BY <1>1, <1>3, <1>4, TopEffect
<1>7. AllGaps' = AllGaps \cup {gap}
  BY <1>3, <1>6 DEF AllGaps, Top
<1> HIDE DEF gap
<1>8. RefusedNodes' = RefusedNodes \cup {[graph |-> docs[t].id, node |-> n]}
  BY <1>5, <1>7 DEF RefusedNodes
<1>9. \E h \in Graphs : h.id = DerivedId(docs[t].id, n)
  <2>1. PICK j \in DOMAIN docs : docs[j].id = DerivedId(docs[t].id, n)
    BY <1>1, <1>2 DEF RefuseChild, Taken, GraphIdsUnique
  <2>2. AsGraph(j) \in Graphs /\ AsGraph(j).id = DerivedId(docs[t].id, n)
    BY <2>1 DEF AsGraph, Graphs
  <2>3. QED
    BY <2>2
<1>10. phase = "extracting" /\ phase' = "extracting"
  BY <1>4 DEF RefuseChild, Current
<1>11. AsGraph(t).id = docs[t].id
  BY DEF AsGraph
<1>12. {n} \in SUBSET Contract!Taken(AsGraph(t)) /\ Contract!Refuse(AsGraph(t), {n})
  <2>1. Contract!DerivedId(AsGraph(t).id, n) = DerivedId(docs[t].id, n)
    BY <1>11 DEF Contract!DerivedId, DerivedId
  <2>2. Contract!Ids = {h.id : h \in Graphs}
    BY DEF Contract!Ids, Graphs
  <2>3. Contract!DerivedId(AsGraph(t).id, n) \in Contract!Ids
    BY <2>1, <2>2, <1>9
  <2>4. Graphs' = Graphs /\ Refs' = Refs
    BY <1>4 DEF Graphs, Refs
  <2>5. n \in Contract!Taken(AsGraph(t))
    BY <2>3, <1>2 DEF Contract!Taken
  <2>6. Contract!Refusals(AsGraph(t), {n}) = {[graph |-> docs[t].id, node |-> n]}
    BY <1>11 DEF Contract!Refusals
  <2>7. QED
    BY <2>4, <2>5, <2>6, <1>4, <1>8, <1>10
       DEF Contract!Refuse, Graphs, Refs, RefusedNodes, Collision
<1>13. QED
  BY <1>2, <1>12

LEMMA MaterializeStep ==
  ASSUME OutcomeInv, OutcomeInv', NEW n \in NodeId, EnterChild(n)
  PROVE  \E g \in Graphs : Contract!Materialize(g, n, {})
<1>0. /\ \E N, L, t : N = Len(docs) /\ L = Len(stack) /\ t = Top.doc
      /\ \E gid, child, d : /\ gid = DerivedId(TopDoc.id, n)
                            /\ child = ChildOf(TopDoc, n) /\ d = TopDoc.depth - 1
  OBVIOUS
<1>a. PICK N, L, t : N = Len(docs) /\ L = Len(stack) /\ t = Top.doc
  BY <1>0
<1>b. PICK gid, child, d : /\ gid = DerivedId(TopDoc.id, n)
                           /\ child = ChildOf(TopDoc, n) /\ d = TopDoc.depth - 1
  BY <1>0
<1>1. TypeInv /\ GraphIdsUnique /\ stack # << >> /\ n \in Top.todo /\ child # NoChild
  BY <1>b DEF OutcomeInv, RecursionSafe, TypeInv, RecursionInv, EnterChild, Current
<1>2. /\ t \in DOMAIN docs /\ TopDoc = docs[t]
      /\ Contract!Pending(AsGraph(t), n) /\ AsGraph(t) \in Graphs /\ Ahead(t, n)
  BY <1>a, <1>b, <1>1, CurrentIsPending
<1>3. /\ N \in Nat /\ L \in Nat \ {0}
      /\ gid # NoRef /\ gid \notin assigned
      /\ DOMAIN docs = 1..N /\ DOMAIN docs' = 1..(N + 1)
      /\ DOMAIN stack = 1..L /\ DOMAIN stack' = 1..(L + 1)
      /\ UNCHANGED <<world, declared, phase, call, output, error>>
  BY <1>a, <1>b, <1>1, EnterChildAdds
<1>4. \A i \in DOMAIN docs :
        /\ docs'[i].id = docs[i].id /\ docs'[i].obj = docs[i].obj
        /\ docs'[i].depth = docs[i].depth
        /\ \A m \in NodeId :
             docs'[i].sub[m] = IF i = t /\ m = n THEN gid ELSE docs[i].sub[m]
  BY <1>a, <1>b, <1>1, EnterChildAdds
<1>5. /\ docs'[N + 1].id = gid /\ docs'[N + 1].obj = child /\ docs'[N + 1].depth = d
      /\ \A m \in NodeId : docs'[N + 1].sub[m] = NoRef
  BY <1>a, <1>b, <1>1, EnterChildAdds, SMTT(60)
<1>6. N + 1 \in DOMAIN docs' /\ \A i \in DOMAIN docs' : i \in DOMAIN docs \/ i = N + 1
  BY <1>3
<1>7. Graphs' = Graphs \cup {[id |-> gid, obj |-> child, depth |-> d]}
  <2>1. DOMAIN docs \subseteq DOMAIN docs'
    BY <1>3
  <2>2. QED
    BY <2>1, <1>4, <1>5, <1>6 DEF Graphs
<1>8. Refs' = Refs \cup {[graph |-> docs[t].id, node |-> n, to |-> gid]}
  <2> DEFINE new == [graph |-> docs[t].id, node |-> n, to |-> gid]
  <2>0. docs[t].sub[n] = NoRef
    BY <1>2, AheadIsOpen
  <2>1. ASSUME NEW r \in Refs' PROVE r \in Refs \/ r = new
    <3>1. PICK i \in DOMAIN docs', m \in NodeId :
            /\ docs'[i].sub[m] # NoRef
            /\ r = [graph |-> docs'[i].id, node |-> m, to |-> docs'[i].sub[m]]
      BY <2>1 DEF Refs
    <3>2. i \in DOMAIN docs
      BY <3>1, <1>5, <1>6
    <3>3. CASE i = t /\ m = n
      BY <3>1, <3>2, <3>3, <1>4
    <3>4. CASE ~(i = t /\ m = n)
      <4>1. docs'[i].sub[m] = docs[i].sub[m] /\ docs'[i].id = docs[i].id
        BY <3>2, <3>4, <1>4
      <4>2. r \in Refs
        BY <3>1, <3>2, <4>1 DEF Refs
      <4>3. QED
        BY <4>2
    <3>5. QED
      BY <3>3, <3>4
  <2>2. ASSUME NEW r \in Refs PROVE r \in Refs'
    <3>1. PICK i \in DOMAIN docs, m \in NodeId :
            /\ docs[i].sub[m] # NoRef
            /\ r = [graph |-> docs[i].id, node |-> m, to |-> docs[i].sub[m]]
      BY <2>2 DEF Refs
    <3>2. docs'[i].sub[m] = docs[i].sub[m] /\ docs'[i].id = docs[i].id /\ i \in DOMAIN docs'
      BY <3>1, <2>0, <1>3, <1>4
    <3>3. QED
      BY <3>1, <3>2 DEF Refs
  <2>3. new \in Refs'
    <3>1. docs'[t].id = docs[t].id /\ docs'[t].sub[n] = gid /\ t \in DOMAIN docs'
      BY <1>2, <1>3, <1>4
    <3>2. QED
      BY <3>1, <1>3 DEF Refs
  <2> HIDE DEF new
  <2>4. Refs' = Refs \cup {new}
    BY <2>1, <2>2, <2>3
  <2>5. QED
    BY <2>4 DEF new
<1>9. RefusedNodes' = RefusedNodes
  <2>1. AllGaps' = AllGaps \cup RouterGaps(gid, child)
    BY <1>b, <1>1, EnterChildGaps
  <2>2. \A g \in RouterGaps(gid, child) : g.code # Collision
    BY DEF RouterGaps, Collision
  <2>3. QED
    BY <2>1, <2>2 DEF RefusedNodes
<1>c. PICK g : g = AsGraph(t)
  OBVIOUS
<1>10. g.id = docs[t].id /\ g.obj = docs[t].obj /\ g.depth = docs[t].depth
  BY <1>c DEF AsGraph
<1>11. Contract!DerivedId(g.id, n) = gid
  BY <1>b, <1>2, <1>10 DEF Contract!DerivedId, DerivedId
<1>12. Contract!Child(g, n) = child
  BY <1>b, <1>2, <1>10
     DEF Contract!Child, Contract!MappedCompiledChild, Contract!DirectBoundChild,
     Contract!DeclaredChild, Contract!RuntimeMapped, ChildOf, MappedCompiledChild,
     DirectBoundChild, DeclaredChild, RuntimeMapped
<1>13. Contract!DerivedId(g.id, n) \notin Contract!Ids
  <2>1. Contract!Ids = {h.id : h \in Graphs}
    BY DEF Contract!Ids, Graphs
  <2>2. \A h \in Graphs : h.id \in assigned
    BY <1>1 DEF Graphs, GraphIdsUnique
  <2>3. QED
    BY <2>1, <2>2, <1>3, <1>11
<1>14. phase = "extracting"
  BY DEF EnterChild, Current
<1>15. d = g.depth - 1
  BY <1>b, <1>2, <1>10
<1>16. Contract!Pending(g, n) /\ g \in Graphs
  BY <1>2, <1>c
<1>d. Contract!Refusals(g, {}) = {}
  BY DEF Contract!Refusals
<1>17. Contract!Materialize(g, n, {})
  BY <1>d, <1>3, <1>7, <1>8, <1>9, <1>10, <1>11, <1>12, <1>13, <1>14, <1>15, <1>16
     DEF Contract!Materialize, Graphs, Refs, RefusedNodes, Collision
<1>18. QED
  BY <1>16, <1>17

\* At the end no child is pending, and there are gaps exactly when the contract
\* sees a refusal or a router with unknown targets.
LEMMA CompleteStep ==
  ASSUME OutcomeInv, OutcomeInv', Finish
  PROVE  Contract!Complete
<1>1. /\ phase = "extracted" /\ ContractPhase = "extracting"
      /\ UNCHANGED <<world, declared, call, docs, stack, assigned, output>>
  BY DEF Finish, ContractPhase
<1>2. DOMAIN stack = {}
  BY <1>1 DEF OutcomeInv, RecursionSafe, TypeInv, RecursionInv
<1>3. AllGaps = output.gaps /\ AllGaps' = AllGaps /\ AllGaps \subseteq GapType
  BY <1>1, <1>2 DEF AllGaps, OutcomeInv, RecursionSafe, TypeInv, TypeOK
<1>4. ASSUME NEW g \in Graphs, NEW n \in NodeId, Contract!Pending(g, n)
      PROVE  FALSE
  <2>1. PICK i \in DOMAIN docs : g = AsGraph(i)
    BY DEF Graphs, AsGraph
  <2>2. /\ docs[i].depth > 0 /\ ChildOf(docs[i], n) # NoChild
        /\ docs[i].sub[n] = NoRef /\ ~Reported(i, n)
    BY <1>4, <2>1, PendingIsOpen
  <2>3. ~Ahead(i, n)
    BY <1>2 DEF Ahead
  <2>4. QED
    BY <2>2, <2>3 DEF OutcomeInv, Accounted, Opaque
<1>5. \A i \in DOMAIN docs :
        RouterGaps(docs[i].id, docs[i].obj) # {} <=> UnknownRouters(world[docs[i].obj]) # {}
  BY DEF RouterGaps
<1>6. Contract!HasGaps <=>
        RefusedNodes # {} \/ \E i \in DOMAIN docs : UnknownRouters(world[docs[i].obj]) # {}
  <2>1. Contract!HasGaps <=>
          RefusedNodes # {} \/ \E g \in Graphs : UnknownRouters(world[g.obj]) # {}
    BY DEF Contract!HasGaps, Contract!UnknownRouters, UnknownRouters, Graphs, RefusedNodes,
           Collision
  <2>2. (\E g \in Graphs : UnknownRouters(world[g.obj]) # {}) <=>
          \E i \in DOMAIN docs : UnknownRouters(world[docs[i].obj]) # {}
    <3>1. \A i \in DOMAIN docs : AsGraph(i) \in Graphs /\ AsGraph(i).obj = docs[i].obj
      BY DEF Graphs, AsGraph
    <3>2. \A g \in Graphs : \E i \in DOMAIN docs : g.obj = docs[i].obj
      BY DEF Graphs, AsGraph
    <3>3. QED
      BY <3>1, <3>2
  <2>3. QED
    BY <2>1, <2>2
<1>7. Contract!HasGaps => output.gaps # {}
  <2>1. RefusedNodes # {} => AllGaps # {}
    BY DEF RefusedNodes
  <2>2. QED
    BY <2>1, <1>3, <1>5, <1>6 DEF OutcomeInv, GapsInv
<1>8. output.gaps # {} => Contract!HasGaps
  <2> SUFFICES ASSUME NEW g \in AllGaps PROVE Contract!HasGaps
    BY <1>3
  <2>1. g.code = Collision \/ g.code = Routing
    BY <1>3 DEF GapType, GapCode, Collision, Routing
  <2>2. CASE g.code = Collision
    BY <2>2, <1>6 DEF RefusedNodes
  <2>3. CASE g.code = Routing
    BY <2>3, <1>5, <1>6 DEF OutcomeInv, GapsInv
  <2>4. QED
    BY <2>1, <2>2, <2>3
<1>9. \A g \in Graphs, n \in NodeId : ~Contract!Pending(g, n)
  BY <1>4
<1>10. IF call.strict /\ Contract!HasGaps
         THEN ContractPhase' = "raised" /\ error' = "IncompleteTopologyError"
         ELSE ContractPhase' = "returned" /\ UNCHANGED error
  <2>1. call.strict /\ output.gaps # {} <=> call.strict /\ Contract!HasGaps
    BY <1>7, <1>8
  <2>2. QED
    BY <2>1 DEF Finish, ContractPhase
<1>11. UNCHANGED <<Graphs, Refs, RefusedNodes>>
  BY <1>1, <1>3 DEF Graphs, Refs, RefusedNodes
<1>12. QED
  BY <1>1, <1>9, <1>10, <1>11
     DEF Contract!Complete, ContractPhase, Graphs, Refs, RefusedNodes, Collision

-------------------------------------------------------------------------------
\* Every step is a step of the contract or leaves its state alone.
LEMMA ContractStep ==
  OutcomeInv /\ OutcomeInv' /\ [Next]_vars => [Contract!Next]_(Contract!vars)
<1> SUFFICES ASSUME OutcomeInv, OutcomeInv', [Next]_vars
             PROVE  Contract!Next \/ UNCHANGED Contract!vars
  OBVIOUS
<1>1. ASSUME NEW d \in Declaration, DeclareChildren(d) PROVE Contract!Next
  BY <1>1, DeclareStep DEF Contract!Next
<1>2. ASSUME NEW c \in Call, RejectCall(c) PROVE Contract!Next
  BY <1>2, RejectStep DEF Contract!Next
<1>3. ASSUME NEW c \in Call, EnterRoot(c) PROVE Contract!Next
  BY <1>3, BeginStep DEF Contract!Next
<1>4. ASSUME NEW n \in NodeId, SkipNode(n) PROVE UNCHANGED Contract!vars
  <2> DEFINE f == Advance(n)
  <2>1. /\ stack # << >> /\ TypeInv
    BY <1>4 DEF OutcomeInv, RecursionSafe, TypeInv, RecursionInv, SkipNode, Current
  <2>2. /\ f.doc = Top.doc /\ f.todo \subseteq Top.todo /\ f.descendants = Top.descendants
        /\ f.gaps = Top.gaps
    BY <2>1, AdvanceFields
  <2>3. /\ stack' = [stack EXCEPT ![Len(stack)] = f]
        /\ UNCHANGED <<world, declared, phase, call, docs, assigned, output, error>>
    BY <1>4 DEF SkipNode
  <2> HIDE DEF f
  <2>4. AllGaps' = AllGaps \cup f.gaps /\ Len(stack) \in DOMAIN stack
    BY <2>1, <2>2, <2>3, TopEffect
  <2>5. AllGaps' = AllGaps
    BY <2>2, <2>4 DEF AllGaps, Top
  <2>6. QED
    BY <2>3, <2>5, ContractStutter DEF ContractPhase
<1>5. ASSUME NEW n \in NodeId, RefuseChild(n) PROVE Contract!Next
  BY <1>5, RefuseStep DEF Contract!Next, Graphs
<1>6. ASSUME NEW n \in NodeId, EnterChild(n) PROVE Contract!Next
  <2>1. PICK g \in Graphs : Contract!Materialize(g, n, {})
    BY <1>6, MaterializeStep
  <2>2. {} \in SUBSET Contract!Taken(g)
    OBVIOUS
  <2>3. QED
    BY <2>1, <2>2 DEF Contract!Next, Graphs
<1>7. CASE ReturnToParent
  <2>1. AllGaps' = AllGaps
    BY <1>7, ReturnToParentGaps DEF OutcomeInv, RecursionSafe
  <2>2. QED
    BY <1>7, <2>1, ContractStutter DEF ReturnToParent, ContractPhase
<1>8. CASE ReturnFromRoot
  <2>1. AllGaps' = AllGaps
    BY <1>8, ReturnFromRootGaps
  <2>2. QED
    BY <1>8, <2>1, ContractStutter DEF ReturnFromRoot, ContractPhase
<1>9. CASE Finish
  BY <1>9, CompleteStep DEF Contract!Next
<1>10. CASE UNCHANGED vars
  BY <1>10, ContractStutter DEF vars, ContractPhase, AllGaps
<1>11. QED
  BY <1>1, <1>2, <1>3, <1>4, <1>5, <1>6, <1>7, <1>8, <1>9, <1>10 DEF Next, Extract

\* For every program and call, the recursion does what the contract allows: the
\* children it materializes and refuses, the references it writes and the outcome.
THEOREM RecursionImplementsContract == Spec => ImplementsContract
<1>1. Init => Contract!Init
  BY ContractInit
<1>2. OutcomeInv /\ OutcomeInv' /\ [Next]_vars => [Contract!Next]_(Contract!vars)
  BY ContractStep
<1>3. Spec => []OutcomeInv
  BY OutcomeAlways
<1>4. QED
  BY <1>1, <1>2, <1>3, PTL DEF Spec, ImplementsContract, Contract!Spec
===============================================================================
