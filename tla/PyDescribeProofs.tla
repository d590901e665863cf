---------------------------- MODULE PyDescribeProofs ----------------------------
(***************************************************************************)
(* What describe() produces, for every program, declaration and call.  When   *)
(* node ids do not hold the delimiter ':' addresses never collide, the        *)
(* documents are the tree of children below the root, whatever the order of   *)
(* the siblings, strict raises exactly when a router of it has unknown        *)
(* targets, and the document passes the validator.  With any ids, the facts   *)
(* agree with what the traversal did, and the TypeScript producer writes the  *)
(* same structure and the same facts.                                         *)
(***************************************************************************)
EXTENDS PyExtractProofs, Parity, Lemmas

-------------------------------------------------------------------------------
(* Addresses.                                                               *)

\* A derived id is its parent's id, the delimiter and the node id, in this order.
LEMMA DerivedIdElements ==
  ASSUME NEW gid \in Seq(Token), NEW n \in NodeId
  PROVE  /\ Len(gid) \in Nat /\ Len(n) \in Nat \ {0} /\ n \in Seq(Token)
         /\ Len(DerivedId(gid, n)) = Len(gid) + 1 + Len(n)
         /\ \A k \in 1..Len(gid) : DerivedId(gid, n)[k] = gid[k]
         /\ DerivedId(gid, n)[Len(gid) + 1] = Colon
         /\ \A k \in 1..Len(n) : DerivedId(gid, n)[Len(gid) + 1 + k] = n[k]
<1>1. n \in Seq(Token) /\ n # << >> /\ Colon \in Token
  BY IdsAssumption DEF NodeIdAssumption
<1>2. Len(gid) \in Nat /\ Len(n) \in Nat \ {0}
  BY <1>1, EmptySeq
<1> DEFINE head == gid \o <<Colon>>
<1>3. /\ head \in Seq(Token) /\ Len(head) = Len(gid) + 1
      /\ \A k \in 1..Len(gid) : head[k] = gid[k]
      /\ head[Len(gid) + 1] = Colon
  BY <1>1, <1>2, ConcatProperties
<1>4. DerivedId(gid, n) = head \o n
  BY DEF DerivedId
<1> HIDE DEF head
<1>5. /\ Len(head \o n) = Len(gid) + 1 + Len(n)
      /\ \A k \in 1..(Len(gid) + 1) : (head \o n)[k] = head[k]
      /\ \A k \in 1..Len(n) : (head \o n)[Len(gid) + 1 + k] = n[k]
  <2>1. /\ Len(head \o n) = Len(head) + Len(n)
        /\ \A k \in 1 .. Len(head) + Len(n) :
             (head \o n)[k] = IF k <= Len(head) THEN head[k] ELSE n[k - Len(head)]
    BY <1>1, <1>3, ConcatProperties
  <2>2. \A k \in 1..Len(n) : /\ Len(gid) + 1 + k \in 1 .. Len(head) + Len(n)
                             /\ ~(Len(gid) + 1 + k <= Len(head))
                             /\ Len(gid) + 1 + k - Len(head) = k
    BY <1>2, <1>3
  <2>3. QED
    BY <1>2, <1>3, <2>1, <2>2
<1>6. QED
  BY <1>1, <1>2, <1>3, <1>4, <1>5

\* No two children have one address when node ids do not hold the delimiter: the
\* last ':' of the address is the one that was put there.
LEMMA DerivedIdInjective ==
  ASSUME NEW a \in Seq(Token), NEW b \in Seq(Token), NEW m \in NodeId, NEW n \in NodeId,
         ColonFree(m), ColonFree(n), DerivedId(a, m) = DerivedId(b, n)
  PROVE  a = b /\ m = n
<1> DEFINE id == DerivedId(a, m)
<1>1. /\ Len(a) \in Nat /\ Len(m) \in Nat \ {0} /\ m \in Seq(Token)
      /\ Len(id) = Len(a) + 1 + Len(m)
      /\ \A k \in 1..Len(a) : id[k] = a[k]
      /\ id[Len(a) + 1] = Colon
      /\ \A k \in 1..Len(m) : id[Len(a) + 1 + k] = m[k]
  BY DerivedIdElements
<1>2. /\ Len(b) \in Nat /\ Len(n) \in Nat \ {0} /\ n \in Seq(Token)
      /\ Len(id) = Len(b) + 1 + Len(n)
      /\ \A k \in 1..Len(b) : id[k] = b[k]
      /\ id[Len(b) + 1] = Colon
      /\ \A k \in 1..Len(n) : id[Len(b) + 1 + k] = n[k]
  <2>1. id = DerivedId(b, n)
    OBVIOUS
  <2> HIDE DEF id
  <2>2. QED
    BY <2>1, DerivedIdElements
<1> HIDE DEF id
<1>3. ~(Len(a) < Len(b))
  <2> SUFFICES ASSUME Len(a) < Len(b) PROVE FALSE
    OBVIOUS
  <2> DEFINE k == Len(b) - Len(a)
  <2>1. k \in 1..Len(m) /\ Len(a) + 1 + k = Len(b) + 1
    BY <1>1, <1>2
  <2>2. m[k] = Colon
    BY <2>1, <1>1, <1>2
  <2>3. QED
    BY <2>1, <2>2 DEF ColonFree
<1>4. ~(Len(b) < Len(a))
  <2> SUFFICES ASSUME Len(b) < Len(a) PROVE FALSE
    OBVIOUS
  <2> DEFINE k == Len(a) - Len(b)
  <2>1. k \in 1..Len(n) /\ Len(b) + 1 + k = Len(a) + 1
    BY <1>1, <1>2
  <2>2. n[k] = Colon
    BY <2>1, <1>1, <1>2
  <2>3. QED
    BY <2>1, <2>2 DEF ColonFree
<1>5. Len(a) = Len(b) /\ Len(m) = Len(n)
  BY <1>1, <1>2, <1>3, <1>4
<1>6. a = b
  BY <1>1, <1>2, <1>5, SeqEqual
<1>7. m = n
  BY <1>1, <1>2, <1>5, SeqEqual
<1>8. QED
  BY <1>6, <1>7

-------------------------------------------------------------------------------
(* The inductive invariant.  The first document is the root of the call; each  *)
(* other one is the child some node of another document refers to.            *)

RootFirst ==
  1 \in DOMAIN docs =>
    docs[1].id = call.graphId /\ docs[1].obj = call.root /\ docs[1].depth = call.depth

SubsAreDerived ==
  \A i \in DOMAIN docs, n \in NodeId :
    docs[i].sub[n] # NoRef => docs[i].sub[n] = DerivedId(docs[i].id, n)

\* Document j is the child that node n of document i holds.
ChildAt(j, i, n) ==
  /\ n \in world[docs[i].obj].runtime
  /\ docs[i].sub[n] # NoRef
  /\ docs[j].id = docs[i].sub[n]
  /\ docs[j].obj = ChildOf(docs[i], n)
  /\ docs[j].obj # NoChild
  /\ docs[i].depth > 0
  /\ docs[j].depth = docs[i].depth - 1

OthersAreChildren ==
  \A j \in DOMAIN docs : j = 1 \/ \E i \in DOMAIN docs, n \in NodeId : ChildAt(j, i, n)

BelowRoot ==
  \A j \in DOMAIN docs : Len(docs[j].id) >= Len(call.graphId) /\ docs[j].depth <= call.depth

Addressed == RootFirst /\ SubsAreDerived /\ OthersAreChildren /\ BelowRoot

\* How the call ends is decided by the gaps alone.
Decided ==
  /\ phase \in {"extracting", "extracted", "returned"} => 1 \in DOMAIN docs
  /\ error = "IncompleteTopologyError" =>
       1 \in DOMAIN docs /\ call.strict /\ output.gaps # {}
  /\ phase = "returned" => ~(call.strict /\ output.gaps # {})

TreeInv == OutcomeInv /\ Addressed /\ Decided /\ ReservedDelimiterNeverCollides

LEMMA TreeInit == Init => TreeInv
<1> SUFFICES ASSUME Init PROVE TreeInv
  OBVIOUS
<1>1. DOMAIN docs = {} /\ DOMAIN stack = {} /\ AllGaps = {}
  BY DEF Init, AllGaps
<1>2. Addressed /\ ReservedDelimiterNeverCollides
  BY <1>1 DEF Addressed, RootFirst, SubsAreDerived, OthersAreChildren, BelowRoot,
              ReservedDelimiterNeverCollides
<1>3. Decided
  BY DEF Init, Decided
<1>4. QED
  BY <1>2, <1>3, OutcomeInit DEF TreeInv

\* Steps that make no document and change none keep the addresses.
LEMMA SameAddresses ==
  ASSUME Addressed, UNCHANGED <<world, declared, docs>>,
         call' = call \/ DOMAIN docs = {}
  PROVE  Addressed'
<1>1. \A i \in DOMAIN docs, n \in NodeId : ChildOf(docs[i], n)' = ChildOf(docs[i], n)
  BY DEF ChildOf
<1>2. \A i \in DOMAIN docs, j \in DOMAIN docs, n \in NodeId :
        ChildAt(j, i, n)' <=> ChildAt(j, i, n)
  BY <1>1 DEF ChildAt
<1>3. QED
  BY <1>2 DEF Addressed, RootFirst, SubsAreDerived, OthersAreChildren, BelowRoot

LEMMA RootAddressed ==
  ASSUME OutcomeInv, NEW c \in Call, EnterRoot(c)
  PROVE  Addressed' /\ DOMAIN docs' = {1}
<1> DEFINE doc == Document(c.graphId, c.root, c.depth)
<1>1. docs' = <<doc>> /\ DOMAIN docs' = {1} /\ call' = c
  BY DEF EnterRoot
<1>2. /\ doc.id = c.graphId /\ doc.obj = c.root /\ doc.depth = c.depth
      /\ \A n \in NodeId : doc.sub[n] = NoRef
  BY DEF Document
<1> HIDE DEF doc
<1>3. docs'[1] = doc
  BY <1>1
<1>4. Len(c.graphId) \in Nat /\ c.depth \in Int
  BY CallsAssumption, LenProperties DEF CallAssumption
<1>5. BelowRoot'
  BY <1>1, <1>2, <1>3, <1>4 DEF BelowRoot
<1>6. RootFirst' /\ SubsAreDerived' /\ OthersAreChildren'
  BY <1>1, <1>2, <1>3 DEF RootFirst, SubsAreDerived, OthersAreChildren
<1>7. QED
  BY <1>1, <1>5, <1>6 DEF Addressed

\* The new document is the child of the current node.
LEMMA ChildAddressed ==
  ASSUME OutcomeInv, Addressed, NEW n \in NodeId, EnterChild(n)
  PROVE  Addressed' /\ DOMAIN docs \subseteq DOMAIN docs'
<1>0. /\ \E N, L, t : N = Len(docs) /\ L = Len(stack) /\ t = Top.doc
      /\ \E gid, child, d : /\ gid = DerivedId(TopDoc.id, n)
                            /\ child = ChildOf(TopDoc, n) /\ d = TopDoc.depth - 1
  OBVIOUS
<1>a. PICK N, L, t : N = Len(docs) /\ L = Len(stack) /\ t = Top.doc
  BY <1>0
<1>b. PICK gid, child, d : /\ gid = DerivedId(TopDoc.id, n)
                           /\ child = ChildOf(TopDoc, n) /\ d = TopDoc.depth - 1
  BY <1>0
<1>1. TypeInv /\ TypeOK
  BY DEF OutcomeInv, RecursionSafe, TypeInv
<1>2. /\ N \in Nat /\ L \in Nat \ {0} /\ d \in Nat /\ child \in Graph
      /\ gid # NoRef /\ t \in DOMAIN docs /\ n \in stack[L].todo /\ stack[L].doc = t
      /\ TopDoc = docs[t]
      /\ DOMAIN docs = 1..N /\ DOMAIN docs' = 1..(N + 1) /\ DOMAIN stack = 1..L
      /\ UNCHANGED <<world, declared, call>>
  BY <1>a, <1>b, <1>1, EnterChildAdds
<1>3. \A i \in DOMAIN docs :
        /\ docs'[i].id = docs[i].id /\ docs'[i].obj = docs[i].obj
        /\ docs'[i].depth = docs[i].depth
        /\ \A m \in NodeId :
             docs'[i].sub[m] = IF i = t /\ m = n THEN gid ELSE docs[i].sub[m]
  BY <1>a, <1>b, <1>1, EnterChildAdds, SMTT(60)
<1>4. /\ docs'[N + 1].id = gid /\ docs'[N + 1].obj = child /\ docs'[N + 1].depth = d
      /\ \A m \in NodeId : docs'[N + 1].sub[m] = NoRef
  BY <1>a, <1>b, <1>1, EnterChildAdds, SMTT(60)
<1>5. L \in DOMAIN stack
  BY <1>2
<1>6. n \in world[docs[t].obj].runtime /\ Ahead(t, n)
  BY <1>2, <1>5 DEF OutcomeInv, FramesInv, Ahead
<1>7. docs[t].sub[n] = NoRef
  BY <1>2, <1>6, AheadIsOpen
<1>8. docs[t].id \in Seq(Token) /\ docs[t].depth \in Nat /\ docs[t].depth = d + 1
  <2>1. docs[t] \in DocumentType
    BY <1>1, <1>2, ElementOfSeq DEF TypeOK
  <2>2. docs[t].depth \in Nat
    BY <2>1 DEF DocumentType
  <2>3. QED
    BY <2>1, <2>2, <1>b, <1>2 DEF DocumentType
<1>9. gid = DerivedId(docs[t].id, n)
  BY <1>b, <1>2
<1>10. \A i \in DOMAIN docs : i \in DOMAIN docs'
  BY <1>2
<1>11. \A i \in DOMAIN docs' : i \in DOMAIN docs \/ i = N + 1
  BY <1>2
<1>12. \A i \in DOMAIN docs, m \in NodeId : ChildOf(docs[i], m)' = ChildOf(docs[i], m)
  BY <1>2, <1>3 DEF ChildOf
<1>13. RootFirst'
  <2>1. 1 \in DOMAIN docs
    BY <1>2
  <2>2. QED
    BY <2>1, <1>2, <1>3 DEF Addressed, RootFirst
<1>14. SubsAreDerived'
  BY <1>3, <1>4, <1>9, <1>11 DEF Addressed, SubsAreDerived
<1>15. OthersAreChildren'
  <2>1. ASSUME NEW j \in DOMAIN docs, NEW i \in DOMAIN docs, NEW m \in NodeId,
               ChildAt(j, i, m)
        PROVE  ChildAt(j, i, m)'
    <3>1. ~(i = t /\ m = n)
      BY <2>1, <1>7 DEF ChildAt
    <3>2. QED
      BY <2>1, <3>1, <1>2, <1>3, <1>12 DEF ChildAt
  <2>2. ChildAt(N + 1, t, n)'
    <3>1. child = ChildOf(docs[t], n) /\ child # NoChild
      BY <1>b, <1>2, CallsAssumption DEF CallAssumption
    <3>2. docs[t].depth > 0 /\ d = docs[t].depth - 1
      BY <1>2, <1>8
    <3>3. QED
      BY <3>1, <3>2, <1>2, <1>3, <1>4, <1>6, <1>12 DEF ChildAt
  <2>3. ASSUME NEW j \in DOMAIN docs'
        PROVE  j = 1 \/ \E i \in DOMAIN docs', m \in NodeId : ChildAt(j, i, m)'
    <3>1. CASE j = N + 1
      BY <3>1, <2>2, <1>2, <1>10
    <3>2. CASE j \in DOMAIN docs
      BY <3>2, <2>1, <1>10 DEF Addressed, OthersAreChildren
    <3>3. QED
      BY <3>1, <3>2, <1>11
  <2>4. QED
    BY <2>3 DEF OthersAreChildren
<1>16. BelowRoot'
  <2>1. /\ Len(docs[t].id) \in Nat /\ Len(n) \in Nat \ {0}
        /\ Len(gid) = Len(docs[t].id) + 1 + Len(n)
    BY <1>8, <1>9, DerivedIdElements
  <2>2. Len(docs[t].id) >= Len(call.graphId) /\ docs[t].depth <= call.depth
    BY <1>2 DEF Addressed, BelowRoot
  <2>3. Len(call.graphId) \in Nat /\ call.depth \in Int
    BY <1>1, CallsAssumption, LenProperties, EmptySeq DEF TypeOK, NoCall, CallAssumption
  <2>4. Len(gid) >= Len(call.graphId) /\ d <= call.depth
    BY <2>1, <2>2, <2>3, <1>2, <1>8, SMTT(60)
  <2>5. QED
    BY <2>4, <1>2, <1>3, <1>4, <1>11 DEF Addressed, BelowRoot
<1>17. QED
  BY <1>10, <1>13, <1>14, <1>15, <1>16 DEF Addressed

-------------------------------------------------------------------------------
(* Addresses never collide.                                                 *)

\* Whoever took the address of the current node is that very node, which has not
\* been looked at.
LEMMA NothingIsRefused ==
  ASSUME OutcomeInv, Addressed, DelimiterReserved(world), NEW n \in NodeId, RefuseChild(n)
  PROVE  FALSE
<1>0. \E t, gid : t = Top.doc /\ gid = DerivedId(TopDoc.id, n)
  OBVIOUS
<1>a. PICK t, gid : t = Top.doc /\ gid = DerivedId(TopDoc.id, n)
  BY <1>0
<1>1. stack # << >> /\ n \in Top.todo /\ ChildOf(TopDoc, n) # NoChild /\ gid \in assigned
  BY <1>a DEF OutcomeInv, RecursionSafe, TypeInv, RecursionInv, RefuseChild, Current, Taken
<1>2. t \in DOMAIN docs /\ TopDoc = docs[t] /\ Ahead(t, n)
  BY <1>a, <1>1, CurrentIsPending
<1>3. n \in world[docs[t].obj].runtime
  BY <1>2 DEF Ahead, OutcomeInv, FramesInv
<1>4. \A i \in DOMAIN docs : docs[i].id \in Seq(Token) /\ docs[i].obj \in Graph
  <2>1. \A i \in DOMAIN docs : docs[i] \in DocumentType
    BY ElementOfSeq, LenProperties DEF OutcomeInv, RecursionSafe, TypeInv, TypeOK
  <2>2. QED
    BY <2>1 DEF DocumentType
<1>5. PICK j \in DOMAIN docs : docs[j].id = gid
  BY <1>1 DEF OutcomeInv, RecursionSafe, GraphIdsUnique
<1>6. j # 1
  <2>1. /\ Len(docs[t].id) \in Nat /\ Len(n) \in Nat
        /\ Len(gid) = Len(docs[t].id) + 1 + Len(n)
    BY <1>a, <1>2, <1>4, DerivedIdElements
  <2>2. Len(docs[t].id) >= Len(call.graphId)
    BY <1>2 DEF Addressed, BelowRoot
  <2>3. j = 1 => Len(gid) = Len(call.graphId) /\ Len(call.graphId) \in Nat
    BY <1>4, <1>5, LenProperties DEF Addressed, RootFirst
  <2>4. QED
    BY <2>1, <2>2, <2>3
<1>7. PICK i \in DOMAIN docs, m \in NodeId : ChildAt(j, i, m)
  BY <1>6 DEF Addressed, OthersAreChildren
<1>8. DerivedId(docs[i].id, m) = DerivedId(docs[t].id, n)
  BY <1>a, <1>2, <1>5, <1>7 DEF ChildAt, Addressed, SubsAreDerived
<1>9. ColonFree(m) /\ ColonFree(n)
  BY <1>2, <1>3, <1>4, <1>7 DEF ChildAt, DelimiterReserved
<1>10. docs[i].id = docs[t].id /\ m = n
  BY <1>2, <1>4, <1>8, <1>9, DerivedIdInjective
<1>11. i = t
  BY <1>2, <1>10 DEF OutcomeInv, RecursionSafe, GraphIdsUnique
<1>12. docs[t].sub[n] # NoRef
  BY <1>7, <1>10, <1>11 DEF ChildAt
<1>13. QED
  BY <1>2, <1>12, AheadIsOpen

\* A step that keeps the gaps, or adds gaps of routers only, reports no collision.
LEMMA NoNewCollision ==
  ASSUME ReservedDelimiterNeverCollides, world' = world,
         \A g \in AllGaps' : g \in AllGaps \/ g.code # Collision
  PROVE  ReservedDelimiterNeverCollides'
BY DEF ReservedDelimiterNeverCollides, DelimiterReserved, Collision

LEMMA TreeStep == TreeInv /\ [Next]_vars => TreeInv'
<1> SUFFICES ASSUME TreeInv, [Next]_vars PROVE TreeInv'
  OBVIOUS
<1> USE DEF TreeInv
<1>1. OutcomeInv /\ OutcomeInv'
  BY OutcomeStep
<1>2. phase = "building" => DOMAIN docs = {} /\ DOMAIN stack = {} /\ AllGaps = {}
  BY DEF OutcomeInv, Quiet, RecursionSafe, TypeInv, RecursionInv, AllGaps
<1>3. ASSUME NEW d \in Declaration, DeclareChildren(d) PROVE TreeInv'
  <2>1. AllGaps' = AllGaps /\ UNCHANGED <<world, phase, docs, call, output, error>>
    BY <1>3 DEF DeclareChildren, AllGaps
  <2>2. DOMAIN docs = {}
    BY <1>2, <1>3 DEF DeclareChildren
  <2>3. Addressed'
    BY <2>1, <2>2 DEF Addressed, RootFirst, SubsAreDerived, OthersAreChildren, BelowRoot
  <2>4. Decided'
    BY <2>1 DEF Decided
  <2>5. QED
    BY <1>1, <2>1, <2>3, <2>4, NoNewCollision
<1>4. ASSUME NEW c \in Call, RejectCall(c) PROVE TreeInv'
  <2>1. AllGaps' = AllGaps /\ UNCHANGED <<world, declared, docs, output>>
        /\ phase' = "raised" /\ error' = ArgumentError(c)
    BY <1>4 DEF RejectCall, AllGaps
  <2>2. DOMAIN docs = {}
    BY <1>2, <1>4 DEF RejectCall
  <2>3. Addressed'
    BY <2>1, <2>2, SameAddresses
  <2>4. error' # "IncompleteTopologyError"
    BY <2>1 DEF ArgumentError
  <2>5. Decided'
    BY <2>1, <2>4 DEF Decided
  <2>6. QED
    BY <1>1, <2>1, <2>3, <2>5, NoNewCollision
<1>5. ASSUME NEW c \in Call, EnterRoot(c) PROVE TreeInv'
  <2>1. Addressed' /\ DOMAIN docs' = {1}
    BY <1>5, RootAddressed
  <2>2. Decided'
    BY <1>5, <2>1 DEF EnterRoot, Decided, OutcomeInv, Quiet
  <2>3. /\ DOMAIN stack' = {1}
        /\ stack'[1].gaps = RouterGaps(c.graphId, c.root) /\ output' = output /\ world' = world
    <3>1. stack' = <<Frame(1, c.graphId, c.root, c.depth)>>
      BY <1>5 DEF EnterRoot
    <3>2. QED
      BY <1>5, <3>1 DEF EnterRoot, Frame
  <2>4. \A g \in AllGaps' : g \in AllGaps \/ g.code # Collision
    BY <2>3 DEF AllGaps, RouterGaps, Collision
  <2>5. QED
    BY <1>1, <2>1, <2>2, <2>3, <2>4, NoNewCollision
<1>6. ASSUME NEW n \in NodeId, SkipNode(n) PROVE TreeInv'
  <2>1. UNCHANGED <<world, declared, phase, call, docs, output, error>>
    BY <1>6 DEF SkipNode
  <2>2. /\ stack # << >>
        /\ stack' = [stack EXCEPT ![Len(stack)] = Advance(n)]
    BY <1>1, <1>6
       DEF SkipNode, Current, OutcomeInv, RecursionSafe, TypeInv, RecursionInv
  <2>3. \A k \in DOMAIN stack : stack'[k].gaps = stack[k].gaps
    BY <1>1, <2>2, AdvanceFields DEF OutcomeInv, RecursionSafe, Top
  <2>4. AllGaps' = AllGaps
    BY <2>1, <2>2, <2>3 DEF AllGaps
  <2>5. QED
    BY <1>1, <2>1, <2>4, SameAddresses, NoNewCollision DEF Decided
<1>7. ASSUME NEW n \in NodeId, RefuseChild(n) PROVE TreeInv'
  <2>1. UNCHANGED <<world, declared, phase, call, docs, output, error>>
    BY <1>7 DEF RefuseChild
  <2>2. ~DelimiterReserved(world)
    BY <1>1, <1>7, NothingIsRefused
  <2>3. ReservedDelimiterNeverCollides'
    BY <2>1, <2>2 DEF ReservedDelimiterNeverCollides, DelimiterReserved
  <2>4. QED
    BY <1>1, <2>1, <2>3, SameAddresses DEF Decided
<1>8. ASSUME NEW n \in NodeId, EnterChild(n) PROVE TreeInv'
  <2>1. UNCHANGED <<world, phase, call, output, error>>
    BY <1>8 DEF EnterChild
  <2>2. Addressed' /\ DOMAIN docs \subseteq DOMAIN docs'
    BY <1>1, <1>8, ChildAddressed
  <2>3. Decided'
    BY <2>1, <2>2 DEF Decided
  <2>4. AllGaps' = AllGaps \cup RouterGaps(DerivedId(TopDoc.id, n), ChildOf(TopDoc, n))
    <3>1. \E gid, child : gid = DerivedId(TopDoc.id, n) /\ child = ChildOf(TopDoc, n)
      OBVIOUS
    <3>2. PICK gid, child : gid = DerivedId(TopDoc.id, n) /\ child = ChildOf(TopDoc, n)
      BY <3>1
    <3>3. QED
      BY <1>1, <1>8, <3>2, EnterChildGaps DEF OutcomeInv, RecursionSafe
  <2>5. \A g \in AllGaps' : g \in AllGaps \/ g.code # Collision
    BY <2>4 DEF RouterGaps, Collision
  <2>6. QED
    BY <1>1, <2>1, <2>2, <2>3, <2>5, NoNewCollision
<1>9. ASSUME ReturnToParent PROVE TreeInv'
  <2>1. UNCHANGED <<world, declared, phase, call, docs, output, error>>
    BY <1>9 DEF ReturnToParent
  <2>2. AllGaps' = AllGaps
    BY <1>1, <1>9, ReturnToParentGaps DEF OutcomeInv, RecursionSafe
  <2>3. QED
    BY <1>1, <2>1, <2>2, SameAddresses, NoNewCollision DEF Decided
<1>10. ASSUME ReturnFromRoot PROVE TreeInv'
  <2>1. /\ UNCHANGED <<world, declared, call, docs, error>>
        /\ phase = "extracting" /\ phase' = "extracted"
    BY <1>10 DEF ReturnFromRoot
  <2>2. AllGaps' = AllGaps
    BY <1>1, <1>10, ReturnFromRootGaps
  <2>3. Decided'
    BY <2>1, <1>1 DEF Decided, OutcomeInv, Quiet
  <2>4. QED
    BY <1>1, <2>1, <2>2, <2>3, SameAddresses, NoNewCollision
<1>11. ASSUME Finish PROVE TreeInv'
  <2>1. UNCHANGED <<world, declared, call, docs, stack, output>> /\ phase = "extracted"
    BY <1>11 DEF Finish
  <2>2. AllGaps' = AllGaps
    BY <2>1 DEF AllGaps
  <2>3. Decided'
    BY <1>1, <1>11, <2>1 DEF Finish, Decided, OutcomeInv, Quiet
  <2>4. QED
    BY <1>1, <2>1, <2>2, <2>3, SameAddresses, NoNewCollision
<1>12. ASSUME UNCHANGED vars PROVE TreeInv'
  <2>1. UNCHANGED <<world, declared, phase, call, docs, stack, output, error>>
    BY <1>12 DEF vars
  <2>2. AllGaps' = AllGaps
    BY <2>1 DEF AllGaps
  <2>3. QED
    BY <1>1, <2>1, <2>2, SameAddresses, NoNewCollision DEF Decided
<1>13. QED
  BY <1>3, <1>4, <1>5, <1>6, <1>7, <1>8, <1>9, <1>10, <1>11, <1>12 DEF Next, Extract

LEMMA TreeAlways == Spec => []TreeInv
BY TreeInit, TreeStep, PTL DEF Spec

\* When node ids do not hold the delimiter, as LangGraph ensures for the names
\* given to add_node, no child is ever refused for its address.
THEOREM AddressesNeverCollide == Spec => []ReservedDelimiterNeverCollides
<1>1. TreeInv => ReservedDelimiterNeverCollides
  BY DEF TreeInv
<1>2. QED
  BY <1>1, TreeAlways, PTL

-------------------------------------------------------------------------------
(* The unfolding, level by level.                                           *)

RootGraph == [id |-> call.graphId, obj |-> call.root, depth |-> call.depth]

\* The recursive definition of the levels has a solution, hence its equations hold.
LEMMA LevelsExist ==
  ASSUME NEW d \in Nat
  PROVE  \E f : f = [k \in 0..d |->
                       IF k = 0 THEN {RootGraph}
                                ELSE f[k - 1] \cup UNION {Below(g) : g \in f[k - 1]}]
<1>a. PICK A : A = {RootGraph}
  OBVIOUS
<1> DEFINE Step(f, k) == IF k = 0 THEN A ELSE f[k - 1] \cup UNION {Below(g) : g \in f[k - 1]}
           T == {m \in Nat : \E f : f = [k \in 0..m |-> Step(f, k)]}
<1>1. 0 \in T
  <2> DEFINE f == [k \in 0..0 |-> A]
  <2>1. \A k \in 0..0 : k = 0
    OBVIOUS
  <2>2. f = [k \in 0..0 |-> Step(f, k)]
    BY <2>1
  <2> HIDE DEF f
  <2>3. QED
    BY <2>2
<1>2. ASSUME NEW m \in Nat, m \in T PROVE m + 1 \in T
  <2>1. PICK f : f = [k \in 0..m |-> Step(f, k)]
    BY <1>2
  <2> DEFINE h == [k \in 0..(m + 1) |->
                  IF k = m + 1 THEN f[m] \cup UNION {Below(g) : g \in f[m]} ELSE f[k]]
  <2>2. \A k \in 0..m : h[k] = f[k]
    OBVIOUS
  <2>3. ASSUME NEW k \in 0..(m + 1) PROVE h[k] = Step(h, k)
    <3>1. CASE k = m + 1
      <4>1. h[k] = f[m] \cup UNION {Below(g) : g \in f[m]} /\ k # 0 /\ k - 1 = m /\ m \in 0..m
        BY <3>1
      <4>2. h[k - 1] = f[m]
        BY <4>1, <2>2
      <4> HIDE DEF h
      <4>3. QED
        BY <4>1, <4>2
    <3>2. CASE k # m + 1
      <4>1. k \in 0..m /\ h[k] = f[k]
        BY <3>2
      <4> HIDE DEF h
      <4>2. f[k] = Step(f, k)
        BY <2>1, <4>1
      <4>3. CASE k = 0
        BY <4>1, <4>2, <4>3
      <4>4. CASE k # 0
        <5>1. k - 1 \in 0..m
          BY <4>1, <4>4
        <5>2. h[k - 1] = f[k - 1]
          BY <5>1, <2>2
        <5>3. QED
          BY <4>1, <4>2, <4>4, <5>2
      <4>5. QED
        BY <4>3, <4>4
    <3>3. QED
      BY <3>1, <3>2
  <2>4. h = [k \in 0..(m + 1) |-> Step(h, k)]
    BY <2>3
  <2> HIDE DEF h, Step
  <2>5. QED
    BY <2>4
<1> HIDE DEF T
<1>3. d \in T
  BY <1>1, <1>2, Induction
<1>4. QED
  BY <1>a, <1>3 DEF T

LEMMA LevelsEquation ==
  ASSUME call.depth \in Nat
  PROVE  /\ Upto[0] = {RootGraph}
         /\ \A k \in 0..call.depth : k # 0 =>
              Upto[k] = Upto[k - 1] \cup UNION {Below(g) : g \in Upto[k - 1]}
<1> DEFINE Step(f, k) == IF k = 0 THEN {RootGraph}
                                  ELSE f[k - 1] \cup UNION {Below(g) : g \in f[k - 1]}
<1>1. \E f : f = [k \in 0..call.depth |-> Step(f, k)]
  BY LevelsExist
<1>2. Upto = CHOOSE f : f = [k \in 0..call.depth |-> Step(f, k)]
  BY DEF Upto, RootGraph
<1>3. Upto = [k \in 0..call.depth |-> Step(Upto, k)]
  <2> HIDE DEF Step
  <2> QED BY <1>1, <1>2
<1>4. 0 \in 0..call.depth
  OBVIOUS
<1>5. QED
  BY <1>3, <1>4

\* The fields of a document that the unfolding speaks of.
LEMMA DocumentFields ==
  ASSUME TreeInv, NEW i \in DOMAIN docs
  PROVE  /\ docs[i].id \in Seq(Token) /\ docs[i].obj \in Graph /\ docs[i].depth \in Nat
         /\ call.depth \in Int /\ docs[i].depth <= call.depth
         /\ world[docs[i].obj].runtime \subseteq NodeId
         /\ AsGraph(i).id = docs[i].id /\ AsGraph(i).obj = docs[i].obj
         /\ AsGraph(i).depth = docs[i].depth
         /\ \A n \in NodeId : ChildOf(AsGraph(i), n) = ChildOf(docs[i], n)
<1>1. TypeOK
  BY DEF TreeInv, OutcomeInv, RecursionSafe, TypeInv
<1>2. docs[i] \in DocumentType
  BY <1>1, ElementOfSeq, LenProperties DEF TypeOK
<1>3. docs[i].id \in Seq(Token) /\ docs[i].obj \in Graph /\ docs[i].depth \in Nat
  BY <1>2 DEF DocumentType
<1>4. call.depth \in Int
  BY <1>1, CallsAssumption DEF TypeOK, NoCall, CallAssumption
<1>5. world[docs[i].obj].runtime \subseteq NodeId
  <2>1. world[docs[i].obj] \in CompiledGraph
    BY <1>1, <1>3, ObjectsAssumption DEF TypeOK, WorldAssumption
  <2>2. QED
    BY <2>1 DEF CompiledGraph
<1>6. /\ AsGraph(i).id = docs[i].id /\ AsGraph(i).obj = docs[i].obj
      /\ AsGraph(i).depth = docs[i].depth
  BY DEF AsGraph
<1>7. \A n \in NodeId : ChildOf(AsGraph(i), n) = ChildOf(docs[i], n)
  BY <1>6 DEF ChildOf
<1>8. QED
  BY <1>3, <1>4, <1>5, <1>6, <1>7 DEF TreeInv, Addressed, BelowRoot

\* A document other than the first is below another one.
LEMMA ChildIsBelow ==
  ASSUME TreeInv, NEW i \in DOMAIN docs, NEW j \in DOMAIN docs, NEW n \in NodeId,
         ChildAt(j, i, n)
  PROVE  AsGraph(j) \in Below(AsGraph(i))
<1>1. /\ docs[j].id = DerivedId(docs[i].id, n) /\ docs[j].obj = ChildOf(docs[i], n)
      /\ docs[j].obj # NoChild /\ docs[j].depth = docs[i].depth - 1
      /\ n \in world[docs[i].obj].runtime /\ docs[i].depth > 0
  BY DEF ChildAt, TreeInv, Addressed, SubsAreDerived
<1>2. AsGraph(i).depth # 0
  BY <1>1, DocumentFields
<1>3. n \in {m \in world[AsGraph(i).obj].runtime : ChildOf(AsGraph(i), m) # NoChild}
  BY <1>1, DocumentFields
<1>4. AsGraph(j) = [id |-> DerivedId(AsGraph(i).id, n), obj |-> ChildOf(AsGraph(i), n),
                    depth |-> AsGraph(i).depth - 1]
  BY <1>1, DocumentFields DEF AsGraph
<1>5. QED
  BY <1>2, <1>3, <1>4 DEF Below

\* Each document is found by the level of its depth.
LEMMA DocumentsAreUnfolded ==
  ASSUME TreeInv, 1 \in DOMAIN docs
  PROVE  call.depth \in Nat /\ Graphs \subseteq Unfolding
<1> DEFINE d == call.depth
           T == {k \in Nat : k <= d =>
                   \A i \in DOMAIN docs : d - docs[i].depth <= k => AsGraph(i) \in Upto[k]}
<1>1. d \in Nat
  <2>1. docs[1].depth = d
    BY DEF TreeInv, Addressed, RootFirst
  <2>2. QED
    BY <2>1, DocumentFields
<1>2. \A i \in DOMAIN docs : docs[i].depth \in Nat /\ docs[i].depth <= d
  BY DocumentFields
<1>3. \A j \in DOMAIN docs : j # 1 =>
        \E i \in DOMAIN docs : AsGraph(j) \in Below(AsGraph(i)) /\ docs[j].depth = docs[i].depth - 1
  <2> SUFFICES ASSUME NEW j \in DOMAIN docs, j # 1
               PROVE  \E i \in DOMAIN docs : /\ AsGraph(j) \in Below(AsGraph(i))
                                             /\ docs[j].depth = docs[i].depth - 1
    OBVIOUS
  <2>1. PICK i \in DOMAIN docs, n \in NodeId : ChildAt(j, i, n)
    BY DEF TreeInv, Addressed, OthersAreChildren
  <2>2. QED
    BY <2>1, ChildIsBelow DEF ChildAt
<1>4. /\ Upto[0] = {RootGraph}
      /\ \A k \in 0..d : k # 0 => Upto[k] = Upto[k - 1] \cup UNION {Below(g) : g \in Upto[k - 1]}
  BY <1>1, LevelsEquation
<1>5. AsGraph(1) = RootGraph
  BY DEF AsGraph, RootGraph, TreeInv, Addressed, RootFirst
<1> HIDE DEF d
<1>6. 0 \in T
  <2>1. ASSUME NEW i \in DOMAIN docs, d - docs[i].depth <= 0 PROVE AsGraph(i) \in Upto[0]
    <3>1. CASE i = 1
      BY <3>1, <1>4, <1>5
    <3>2. CASE i # 1
      <4>1. PICK p \in DOMAIN docs : docs[i].depth = docs[p].depth - 1
        BY <3>2, <1>3
      <4>2. QED
        BY <4>1, <2>1, <1>1, <1>2
    <3>3. QED
      BY <3>1, <3>2
  <2>2. QED
    BY <2>1
<1>7. ASSUME NEW k \in Nat, k \in T PROVE k + 1 \in T
  <2> SUFFICES ASSUME k + 1 <= d, NEW i \in DOMAIN docs, d - docs[i].depth <= k + 1
               PROVE  AsGraph(i) \in Upto[k + 1]
    OBVIOUS
  <2>1. Upto[k + 1] = Upto[k] \cup UNION {Below(g) : g \in Upto[k]}
    <3>1. k + 1 \in 0..d /\ k + 1 # 0 /\ (k + 1) - 1 = k
      BY <1>1
    <3>2. QED
      BY <3>1, <1>4
  <2>2. \A j \in DOMAIN docs : d - docs[j].depth <= k => AsGraph(j) \in Upto[k]
    BY <1>7, <1>1
  <2>3. CASE d - docs[i].depth <= k
    BY <2>1, <2>2, <2>3
  <2>4. CASE ~(d - docs[i].depth <= k)
    <3>1. d - docs[i].depth = k + 1
      BY <2>4, <1>1, <1>2
    <3>2. i # 1
      <4>1. docs[1].depth = d
        BY DEF TreeInv, Addressed, RootFirst, d
      <4>2. QED
        BY <4>1, <3>1, <1>1, <1>2
    <3>3. PICK p \in DOMAIN docs : /\ AsGraph(i) \in Below(AsGraph(p))
                                   /\ docs[i].depth = docs[p].depth - 1
      BY <3>2, <1>3
    <3>4. d - docs[p].depth <= k
      BY <3>1, <3>3, <1>1, <1>2
    <3>5. AsGraph(p) \in Upto[k]
      BY <3>4, <2>2
    <3>6. QED
      BY <3>3, <3>5, <2>1
  <2>5. QED
    BY <2>3, <2>4
<1> HIDE DEF T
<1>8. d \in T
  BY <1>1, <1>6, <1>7, Induction
<1>9. \A i \in DOMAIN docs : AsGraph(i) \in Upto[d]
  <2>1. \A i \in DOMAIN docs : d - docs[i].depth <= d
    BY <1>1, <1>2
  <2>2. QED
    BY <2>1, <1>1, <1>8 DEF T
<1>10. QED
  BY <1>1, <1>9 DEF Graphs, AsGraph, Unfolding, d

\* At the end every child below a document has its document.
LEMMA DocumentsAreClosed ==
  ASSUME TreeInv, Ended, DelimiterReserved(world), NEW i \in DOMAIN docs
  PROVE  Below(AsGraph(i)) \subseteq Graphs
<1> SUFFICES ASSUME AsGraph(i).depth # 0, NEW n \in world[AsGraph(i).obj].runtime,
                    ChildOf(AsGraph(i), n) # NoChild
             PROVE  [id |-> DerivedId(AsGraph(i).id, n), obj |-> ChildOf(AsGraph(i), n),
                     depth |-> AsGraph(i).depth - 1] \in Graphs
  BY DEF Below
<1>1. /\ AsGraph(i).id = docs[i].id /\ AsGraph(i).depth = docs[i].depth
      /\ n \in NodeId /\ ChildOf(AsGraph(i), n) = ChildOf(docs[i], n)
  BY DocumentFields
<1>2. ~Ahead(i, n)
  BY <1>1, OutcomeAtEnd DEF TreeInv
<1>3. ~Reported(i, n)
  BY DEF TreeInv, ReservedDelimiterNeverCollides, Reported, Gap, Collision
<1>4. docs[i].sub[n] # NoRef
  BY <1>1, <1>2, <1>3 DEF TreeInv, OutcomeInv, Accounted, Opaque
<1>5. docs[i].sub[n] = DerivedId(docs[i].id, n)
  BY <1>1, <1>4 DEF TreeInv, Addressed, SubsAreDerived
<1>6. PICK j \in DOMAIN docs : /\ docs[j].id = docs[i].sub[n]
                               /\ docs[j].obj = ChildOf(docs[i], n)
                               /\ docs[j].depth = docs[i].depth - 1
  BY <1>1, <1>4 DEF TreeInv, OutcomeInv, RecursionSafe, ReferencesResolve
<1>7. QED
  BY <1>1, <1>5, <1>6 DEF Graphs

LEMMA UnfoldingIsDescribed ==
  ASSUME TreeInv, Ended, DelimiterReserved(world)
  PROVE  Graphs = Unfolding
<1>1. 1 \in DOMAIN docs
  BY DEF Ended, TreeInv, Decided
<1>2. call.depth \in Nat /\ Graphs \subseteq Unfolding
  BY <1>1, DocumentsAreUnfolded
<1> DEFINE T == {k \in Nat : k <= call.depth => Upto[k] \subseteq Graphs}
<1>3. /\ Upto[0] = {RootGraph}
      /\ \A k \in 0..call.depth : k # 0 =>
           Upto[k] = Upto[k - 1] \cup UNION {Below(g) : g \in Upto[k - 1]}
  BY <1>2, LevelsEquation
<1>4. 0 \in T
  <2>1. RootGraph \in Graphs
    BY <1>1 DEF RootGraph, Graphs, TreeInv, Addressed, RootFirst
  <2>2. QED
    BY <2>1, <1>3
<1>5. ASSUME NEW k \in Nat, k \in T PROVE k + 1 \in T
  <2> SUFFICES ASSUME k + 1 <= call.depth PROVE Upto[k + 1] \subseteq Graphs
    OBVIOUS
  <2>1. k + 1 \in 0..call.depth /\ k + 1 # 0 /\ (k + 1) - 1 = k /\ k <= call.depth
    BY <1>2
  <2>2. Upto[k + 1] = Upto[k] \cup UNION {Below(g) : g \in Upto[k]} /\ Upto[k] \subseteq Graphs
    BY <2>1, <1>3, <1>5
  <2>3. \A g \in Graphs : Below(g) \subseteq Graphs
    BY DocumentsAreClosed DEF Graphs, AsGraph
  <2>4. QED
    BY <2>2, <2>3
<1> HIDE DEF T
<1>6. call.depth \in T
  BY <1>2, <1>4, <1>5, Induction
<1>7. Unfolding \subseteq Graphs
  BY <1>2, <1>6 DEF T, Unfolding
<1>8. QED
  BY <1>2, <1>7

\* With the delimiter reserved, the documents a call of describe() returns are the
\* unfolding of the root to the requested depth, whatever the order of the siblings.
THEOREM DescribeUnfolds == Spec => []DocumentsAreTheUnfolding
<1>1. TreeInv => DocumentsAreTheUnfolding
  BY UnfoldingIsDescribed DEF DocumentsAreTheUnfolding, Graphs
<1>2. QED
  BY <1>1, TreeAlways, PTL

\* With the delimiter reserved, strict=True raises exactly when a graph of the
\* unfolding has a router with unknown targets, and without strict a call that was
\* accepted never raises.
THEOREM StrictIsExact == Spec => []StrictMeansNoUnknownRouter
<1>1. ASSUME TreeInv, Ended, DelimiterReserved(world)
      PROVE  (phase = "raised") <=>
               /\ call.strict
               /\ \E g \in Unfolding : UnknownRouters(world[g.obj]) # {}
  <2>1. AllGaps = output.gaps /\ Graphs = Unfolding
    BY <1>1, OutcomeAtEnd, UnfoldingIsDescribed DEF TreeInv
  <2>2. (phase = "raised") <=> call.strict /\ output.gaps # {}
    BY <1>1 DEF Ended, TreeInv, Decided, OutcomeInv, Quiet
  <2>3. (\E g \in Graphs : UnknownRouters(world[g.obj]) # {}) <=>
          \E i \in DOMAIN docs : UnknownRouters(world[docs[i].obj]) # {}
    <3>1. \A i \in DOMAIN docs : AsGraph(i) \in Graphs /\ AsGraph(i).obj = docs[i].obj
      BY DEF Graphs, AsGraph
    <3>2. \A g \in Graphs : \E i \in DOMAIN docs : g.obj = docs[i].obj
      BY DEF Graphs, AsGraph
    <3>3. QED
      BY <3>1, <3>2
  <2>4. ASSUME output.gaps # {}
        PROVE  \E i \in DOMAIN docs : UnknownRouters(world[docs[i].obj]) # {}
    <3>1. PICK g \in AllGaps : g.code = Routing
      <4>1. AllGaps \subseteq GapType
        BY <2>1, <1>1 DEF TreeInv, OutcomeInv, RecursionSafe, TypeInv, TypeOK
      <4>2. \A g \in AllGaps : g.code # Collision
        BY <1>1 DEF TreeInv, ReservedDelimiterNeverCollides, Collision
      <4>3. QED
        BY <2>1, <2>4, <4>1, <4>2 DEF GapType, GapCode, Collision, Routing
    <3>2. PICK i \in DOMAIN docs : g \in RouterGaps(docs[i].id, docs[i].obj)
      BY <3>1, <1>1 DEF TreeInv, OutcomeInv, GapsInv
    <3>3. QED
      BY <3>2 DEF RouterGaps
  <2>5. ASSUME NEW i \in DOMAIN docs, UnknownRouters(world[docs[i].obj]) # {}
        PROVE  output.gaps # {}
    <3>1. RouterGaps(docs[i].id, docs[i].obj) \subseteq output.gaps
      BY <2>1, <1>1 DEF TreeInv, OutcomeInv, GapsInv
    <3>2. QED
      BY <3>1, <2>5 DEF RouterGaps
  <2>6. QED
    BY <2>1, <2>2, <2>3, <2>4, <2>5
<1>2. TreeInv => StrictMeansNoUnknownRouter
  BY <1>1 DEF StrictMeansNoUnknownRouter
<1>3. QED
  BY <1>2, TreeAlways, PTL


-------------------------------------------------------------------------------
(* Collisions are only reported of nodes that hold a child within the budget. *)

Refusals ==
  \A i \in DOMAIN docs, n \in NodeId :
    Reported(i, n) => docs[i].depth > 0 /\ ChildOf(docs[i], n) # NoChild

DescribeInv == OutcomeInv /\ Refusals

\* Where neither the documents nor the gaps change, nor what nodes hold, no
\* refusal does.
LEMMA SameRefusals ==
  ASSUME DescribeInv, UNCHANGED <<world, declared, docs>>, AllGaps' = AllGaps
  PROVE  Refusals'
BY DEF DescribeInv, Refusals, Reported, ChildOf

\* Before the extraction begins there are no gaps.
LEMMA QuietBefore ==
  ASSUME OutcomeInv, phase = "building"
  PROVE  AllGaps = {} /\ DOMAIN stack = {}
<1>1. DOMAIN stack = {}
  BY DEF OutcomeInv, RecursionSafe, TypeInv, RecursionInv
<1>2. QED
  BY <1>1 DEF OutcomeInv, Quiet, AllGaps

LEMMA BeginRefusals ==
  ASSUME OutcomeInv, OutcomeInv', NEW c \in Call, EnterRoot(c)
  PROVE  Refusals'
<1>1. stack' = <<Frame(1, c.graphId, c.root, c.depth)>> /\ output' = output /\ world' = world
  BY DEF EnterRoot
<1>2. output.gaps = {}
  BY DEF EnterRoot, OutcomeInv, Quiet
<1>3. DOMAIN stack' = {1} /\ stack'[1].gaps = RouterGaps(c.graphId, c.root)
  BY <1>1 DEF Frame
<1>4. AllGaps' = RouterGaps(c.graphId, c.root)
  BY <1>1, <1>2, <1>3 DEF AllGaps
<1>5. \A g \in AllGaps' : g.code # Collision
  BY <1>4 DEF RouterGaps, Collision
<1>6. QED
  BY <1>5 DEF Refusals, Reported, Gap

LEMMA SkipRefusals ==
  ASSUME DescribeInv, NEW n \in NodeId, SkipNode(n)
  PROVE  Refusals'
<1> DEFINE f == Advance(n)
<1>1. /\ stack # << >> /\ TypeInv
  BY DEF DescribeInv, OutcomeInv, RecursionSafe, TypeInv, RecursionInv, SkipNode, Current
<1>2. /\ f.doc = Top.doc /\ f.todo \subseteq Top.todo /\ f.descendants = Top.descendants
      /\ f.gaps = Top.gaps
  BY <1>1, AdvanceFields
<1>3. /\ stack' = [stack EXCEPT ![Len(stack)] = f]
      /\ UNCHANGED <<world, declared, phase, call, docs, assigned, output, error>>
  BY DEF SkipNode
<1> HIDE DEF f
<1>4. AllGaps' = AllGaps \cup f.gaps /\ Len(stack) \in DOMAIN stack
  BY <1>1, <1>2, <1>3, TopEffect DEF DescribeInv
<1>5. AllGaps' = AllGaps
  BY <1>2, <1>4 DEF AllGaps, Top
<1>6. QED
  BY <1>3, <1>5, SameRefusals

LEMMA RefuseRefusals ==
  ASSUME DescribeInv, NEW n \in NodeId, RefuseChild(n)
  PROVE  Refusals'
<1>0. PICK t : t = Top.doc
  OBVIOUS
<1> DEFINE gap == Gap(Collision, docs[t].id, n)
           f == [Advance(n) EXCEPT !.gaps = @ \cup {gap}]
<1>1. /\ TypeInv /\ GraphIdsUnique /\ OutcomeInv
      /\ stack # << >> /\ n \in Top.todo
  BY DEF DescribeInv, OutcomeInv, RecursionSafe, TypeInv, RecursionInv, RefuseChild, Current
<1>2. /\ f.doc = t /\ f.todo = Top.todo \ {n} /\ f.descendants = Top.descendants
      /\ f.gaps = Top.gaps \cup {gap}
  BY <1>0, <1>1, AdvanceFields
<1>3. /\ stack' = [stack EXCEPT ![Len(stack)] = f] /\ ChildOf(TopDoc, n) # NoChild
      /\ UNCHANGED <<world, declared, phase, call, docs, assigned, output, error>>
  BY <1>0 DEF RefuseChild, Gap, TopDoc, Collision
<1>4. t \in DOMAIN docs /\ TopDoc = docs[t]
  BY <1>0, <1>1, TopType DEF TypeInv, FrameType, TopDoc
<1>5. docs[t].depth > 0
  BY <1>0, <1>1, <1>4, LenProperties DEF TypeInv, TypeOK, RecursionInv, Top
<1> HIDE DEF f
<1>6. AllGaps' = AllGaps \cup f.gaps /\ Len(stack) \in DOMAIN stack
  BY <1>0, <1>1, <1>2, <1>3, TopEffect
<1>7. AllGaps' = AllGaps \cup {gap}
  BY <1>2, <1>6 DEF AllGaps, Top
<1>8. \A i \in DOMAIN docs, m \in NodeId :
         Reported(i, m)' => Reported(i, m) \/ (i = t /\ m = n)
  BY <1>1, <1>3, <1>4, <1>7 DEF GraphIdsUnique, Reported, Gap
<1>9. QED
  BY <1>3, <1>4, <1>5, <1>8 DEF DescribeInv, Refusals, ChildOf

LEMMA EnterRefusals ==
  ASSUME DescribeInv, OutcomeInv', NEW n \in NodeId, EnterChild(n)
  PROVE  Refusals'
<1>1. TypeInv /\ OutcomeInv
  BY DEF DescribeInv, OutcomeInv, RecursionSafe
<1>2. PICK N, gid, child :
        N = Len(docs) /\ gid = DerivedId(TopDoc.id, n) /\ child = ChildOf(TopDoc, n)
  <2>1. \E N, gid, child :
          N = Len(docs) /\ gid = DerivedId(TopDoc.id, n) /\ child = ChildOf(TopDoc, n)
    OBVIOUS
  <2>2. QED
    BY <2>1
<1>3. /\ DOMAIN docs = 1..N /\ DOMAIN docs' = 1..(N + 1) /\ N \in Nat
      /\ \A i \in DOMAIN docs :
           docs'[i].id = docs[i].id /\ docs'[i].obj = docs[i].obj
           /\ docs'[i].depth = docs[i].depth
      /\ docs'[N + 1].id = gid /\ gid \notin assigned
      /\ UNCHANGED <<world, declared>>
  <2>1. PICK L, t, d : L = Len(stack) /\ t = Top.doc /\ d = TopDoc.depth - 1
    <3>1. \E L, t, d : L = Len(stack) /\ t = Top.doc /\ d = TopDoc.depth - 1
      OBVIOUS
    <3>2. QED
      BY <3>1
  <2>2. QED
    BY <2>1, <1>1, <1>2, EnterChildAdds
<1>4. AllGaps' = AllGaps \cup RouterGaps(gid, child)
  BY <1>1, <1>2, EnterChildGaps
<1>5. \A g \in RouterGaps(gid, child) : g.code # Collision
  BY DEF RouterGaps, Collision
<1>6. \A g \in AllGaps : g.graph \in assigned
  BY <1>1 DEF OutcomeInv, GapsInv
<1> SUFFICES ASSUME NEW i \in DOMAIN docs', NEW m \in NodeId, Reported(i, m)'
             PROVE  docs'[i].depth > 0 /\ ChildOf(docs[i], m)' # NoChild
  BY DEF Refusals
<1>7. Gap(Collision, docs'[i].id, m) \in AllGaps
  BY <1>4, <1>5 DEF Reported, Gap
<1>8. i \in DOMAIN docs
  <2>1. docs'[i].id \in assigned
    BY <1>6, <1>7 DEF Gap
  <2>2. i # N + 1
    BY <2>1, <1>3
  <2>3. QED
    BY <2>2, <1>3
<1>9. Reported(i, m)
  BY <1>3, <1>7, <1>8 DEF Reported
<1>10. docs[i].depth > 0 /\ ChildOf(docs[i], m) # NoChild
  BY <1>8, <1>9 DEF DescribeInv, Refusals
<1>11. QED
  BY <1>3, <1>8, <1>10 DEF ChildOf

LEMMA DescribeInvStep ==
  DescribeInv /\ OutcomeInv' /\ [Next]_vars => DescribeInv'
<1> SUFFICES ASSUME DescribeInv, OutcomeInv', [Next]_vars PROVE Refusals'
  BY DEF DescribeInv
<1>0. OutcomeInv /\ TypeInv
  BY DEF DescribeInv, OutcomeInv, RecursionSafe
<1>1. ASSUME NEW d \in Declaration, DeclareChildren(d) PROVE Refusals'
  <2>1. AllGaps = {}
    BY <1>0, <1>1, QuietBefore DEF DeclareChildren
  <2>2. AllGaps' = AllGaps
    BY <1>1 DEF DeclareChildren, AllGaps
  <2>3. QED
    BY <2>1, <2>2 DEF Refusals, Reported
<1>2. ASSUME NEW c \in Call, RejectCall(c) PROVE Refusals'
  <2>1. AllGaps' = AllGaps
    BY <1>2 DEF RejectCall, AllGaps
  <2>2. QED
    BY <2>1, <1>2, SameRefusals DEF RejectCall
<1>3. ASSUME NEW c \in Call, EnterRoot(c) PROVE Refusals'
  BY <1>0, <1>3, BeginRefusals
<1>4. ASSUME NEW n \in NodeId, SkipNode(n) \/ RefuseChild(n) \/ EnterChild(n)
      PROVE  Refusals'
  BY <1>4, SkipRefusals, RefuseRefusals, EnterRefusals
<1>5. CASE ReturnToParent
  <2>1. AllGaps' = AllGaps
    BY <1>0, <1>5, ReturnToParentGaps DEF OutcomeInv, RecursionSafe
  <2>2. QED
    BY <2>1, <1>5, SameRefusals DEF ReturnToParent
<1>6. CASE ReturnFromRoot
  <2>1. AllGaps' = AllGaps
    BY <1>0, <1>6, ReturnFromRootGaps
  <2>2. QED
    BY <2>1, <1>6, SameRefusals DEF ReturnFromRoot
<1>7. CASE Finish
  <2>1. AllGaps' = AllGaps
    BY <1>7 DEF Finish, AllGaps
  <2>2. QED
    BY <2>1, <1>7, SameRefusals DEF Finish
<1>8. CASE UNCHANGED vars
  <2>1. AllGaps' = AllGaps
    BY <1>8 DEF vars, AllGaps
  <2>2. QED
    BY <2>1, <1>8, SameRefusals DEF vars
<1>9. QED
  BY <1>1, <1>2, <1>3, <1>4, <1>5, <1>6, <1>7, <1>8 DEF Next, Extract

LEMMA DescribeAlways == Spec => []DescribeInv
<1>1. Init => DescribeInv
  <2> SUFFICES ASSUME Init PROVE DescribeInv
    OBVIOUS
  <2>1. OutcomeInv /\ DOMAIN docs = {}
    BY OutcomeInit DEF Init
  <2>2. QED
    BY <2>1 DEF DescribeInv, Refusals
<1>2. DescribeInv /\ OutcomeInv' /\ [Next]_vars => DescribeInv'
  BY DescribeInvStep
<1>3. QED
  BY <1>1, <1>2, OutcomeAlways, PTL DEF Spec

-------------------------------------------------------------------------------
(* The facts of a node.                                                     *)

\* A document describes a graph that compile() made.
LEMMA ContentsType ==
  ASSUME OutcomeInv, NEW i \in DOMAIN docs
  PROVE  /\ docs[i] \in DocumentType /\ docs[i].depth \in Nat
         /\ Contents(docs[i]) \in CompiledGraph /\ WellFormed(Contents(docs[i]))
         /\ Contents(docs[i]).drawn \subseteq NodeId
         /\ Contents(docs[i]).runtime \subseteq NodeId
<1>1. docs[i] \in DocumentType
  BY LenProperties, ElementOfSeq DEF OutcomeInv, RecursionSafe, TypeInv, TypeOK
<1>2. docs[i].obj \in Graph /\ docs[i].depth \in Nat
  BY <1>1 DEF DocumentType
<1>3. Contents(docs[i]) \in CompiledGraph /\ WellFormed(Contents(docs[i]))
  BY <1>2, ObjectsAssumption
     DEF OutcomeInv, RecursionSafe, TypeInv, TypeOK, WorldAssumption, Contents
<1>4. QED
  BY <1>1, <1>2, <1>3 DEF CompiledGraph

LEMMA FactsOfNode ==
  ASSUME NEW doc, NEW n \in Contents(doc).drawn
  PROVE  LET c == Contents(doc) IN
         /\ Facts(doc).branch[n] = BranchFact(c, EdgeDocuments(c), doc.depth, n)
         /\ Facts(doc).subgraph[n] = SubgraphFact(c, declared[doc.obj], doc.sub, n)
         /\ Facts(doc).version = InterpretationVersion(c.drawn, doc.sub)
BY DEF Facts, Interpretation, Structure

-------------------------------------------------------------------------------
(* Routers with unknown targets.                                            *)

LEMMA RouterFact ==
  ASSUME NEW c \in CompiledGraph, NEW edges, NEW depth, NEW s \in UnknownRouters(c)
  PROVE  IF MappedIdentity(c, s)
           THEN BranchFact(c, edges, depth, s) = "selection-not-observable"
           ELSE BranchFact(c, edges, depth, s) \in {"none", "scope-not-inspected"}
<1>1. s \in NodeId /\ c.branches[s] # << >>
  BY DEF UnknownRouters
<1>2. s \in Dynamic(c)
  BY <1>1 DEF Dynamic
<1>3. QED
  BY <1>2 DEF BranchFact

\* However deep a router sits, the outcome names it in a gap, does not list it
\* among the exits of its graph and claims nothing about its selection.
THEOREM RoutersAreShown == Spec => []UnknownRoutersAreNeverHidden
<1>1. OutcomeInv /\ NothingDropped => UnknownRoutersAreNeverHidden
  <2> SUFFICES ASSUME OutcomeInv, NothingDropped, Ended,
                      NEW i \in output.graphs, NEW s \in UnknownRouters(Contents(docs[i]))
               PROVE  /\ Gap("unknown-routing-targets", docs[i].id, s) \in output.gaps
                      /\ s \notin Structure(Contents(docs[i])).exitNodeIds
                      /\ s \in Contents(docs[i]).drawn =>
                           IF MappedIdentity(Contents(docs[i]), s)
                             THEN Facts(docs[i]).branch[s] = "selection-not-observable"
                             ELSE Facts(docs[i]).branch[s] \in {"none", "scope-not-inspected"}
    BY DEF UnknownRoutersAreNeverHidden
  <2>1. i \in DOMAIN docs /\ RouterGaps(docs[i].id, docs[i].obj) \subseteq output.gaps
    BY DEF NothingDropped
  <2>2. Gap("unknown-routing-targets", docs[i].id, s) \in output.gaps
    BY <2>1 DEF RouterGaps, Gap, Contents
  <2>3. s \notin Structure(Contents(docs[i])).exitNodeIds
    <3> DEFINE c == Contents(docs[i])
    <3>1. s \in UnknownRouters(c)
      OBVIOUS
    <3> HIDE DEF c
    <3>2. Structure(c).exitNodeIds
            = c.drawn \ Sources(EdgeDocuments(c), JoinDocuments(c), UnknownRouters(c))
      BY DEF Structure
    <3>3. \A edges, joins, routers : routers \subseteq Sources(edges, joins, routers)
      BY DEF Sources
    <3>4. QED
      BY <3>1, <3>2, <3>3 DEF c
  <2>4. Contents(docs[i]) \in CompiledGraph
    BY <2>1, ContentsType
  <2>5. ASSUME s \in Contents(docs[i]).drawn
        PROVE  IF MappedIdentity(Contents(docs[i]), s)
                 THEN Facts(docs[i]).branch[s] = "selection-not-observable"
                 ELSE Facts(docs[i]).branch[s] \in {"none", "scope-not-inspected"}
    BY <2>4, <2>5, FactsOfNode, RouterFact
  <2>6. QED
    BY <2>2, <2>3, <2>5
<1>2. QED
  BY <1>1, OutcomeAlways, OutcomeIsComplete, PTL

-------------------------------------------------------------------------------
(* All declared.                                                            *)

\* What leaves a node without conditional edges are its direct edges.
LEMMA DirectOutgoing ==
  ASSUME NEW c \in CompiledGraph, NEW n,
         \A o \in Outgoing(EdgeDocuments(c), n) : o[2] # "conditional",
         NEW o \in Outgoing(EdgeDocuments(c), n)
  PROVE  \E e \in c.edges : e[1] = n /\ o = << e[2], "direct" >>
<1>1. PICK x \in EdgeDocuments(c) : x.source = n /\ o = << x.target, x.kind >>
  BY DEF Outgoing
<1>2. x.kind # "conditional"
  BY <1>1
<1>3. \A s, t, kind, k : /\ EdgeDocument(s, t, kind, k).source = s
                         /\ EdgeDocument(s, t, kind, k).target = t
                         /\ EdgeDocument(s, t, kind, k).kind = kind
  BY DEF EdgeDocument
<1>4. PICK e \in c.edges : x = EdgeDocument(e[1], e[2], "direct", 1)
  <2> DEFINE Declared(s, t) ==
               1..Cardinality({i \in DOMAIN ConditionalTargets(c, s) :
                                 ConditionalTargets(c, s)[i] = t})
             Direct == {EdgeDocument(e[1], e[2], "direct", 1) : e \in c.edges}
             Conditional == UNION {{EdgeDocument(s, t, "conditional", k) : k \in Declared(s, t)} :
                                     s \in NodeId, t \in NodeId}
  <2>1. EdgeDocuments(c) = Direct \cup Conditional
    BY DEF EdgeDocuments
  <2>2. ASSUME x \in Conditional PROVE FALSE
    <3>1. PICK s \in NodeId, t \in NodeId :
            \E k \in Declared(s, t) : x = EdgeDocument(s, t, "conditional", k)
      BY <2>2
    <3>2. QED
      BY <3>1, <1>2, <1>3
  <2>3. x \in Direct
    BY <2>1, <2>2
  <2>4. QED
    BY <2>3
<1>5. QED
  BY <1>1, <1>3, <1>4

\* A set that one element of another accounts for at a time is no larger: two here
\* are at least two there.
LEMMA TwoBehindTwo ==
  ASSUME NEW S, IsFiniteSet(S), NEW T, Cardinality(T) >= 2, NEW f,
         \A t \in T : \E s \in S : t = f[s]
  PROVE  Cardinality(S) >= 2
<1>1. Cardinality(S) \in Nat
  BY FS_CardinalityType
<1>2. Cardinality(S) # 0
  <2> SUFFICES ASSUME S = {} PROVE FALSE
    BY FS_EmptySet
  <2>1. T = {}
    OBVIOUS
  <2>2. QED
    BY <2>1, FS_EmptySet
<1>3. Cardinality(S) # 1
  <2> SUFFICES ASSUME NEW s, S = {s} PROVE FALSE
    BY FS_Singleton
  <2>1. T = {} \/ T = {f[s]}
    OBVIOUS
  <2>2. Cardinality({}) = 0 /\ Cardinality({f[s]}) = 1
    BY FS_EmptySet, FS_Singleton
  <2>3. QED
    BY <2>1, <2>2
<1>4. QED
  BY <1>1, <1>2, <1>3

LEMMA AllDeclared ==
  ASSUME NEW c \in CompiledGraph, WellFormed(c), NEW depth, NEW n \in c.drawn,
         BranchFact(c, EdgeDocuments(c), depth, n) = "all-declared"
  PROVE  /\ MappedIdentity(c, n)
         /\ Cardinality({e \in c.edges : e[1] = n}) >= 2
         /\ c.branches[n] = << >>
         /\ c.ends[n].targets = << >>
<1> DEFINE outgoing == Outgoing(EdgeDocuments(c), n)
           S == {e \in c.edges : e[1] = n}
           f == [e \in S |-> << e[2], "direct" >>]
<1>1. /\ MappedIdentity(c, n) /\ n \notin Dynamic(c)
      /\ \A o \in outgoing : o[2] # "conditional"
      /\ Cardinality(outgoing) >= 2
  BY DEF BranchFact
<1>2. n \in NodeId
  BY DEF CompiledGraph
<1>3. c.branches[n] = << >>
  BY <1>1, <1>2 DEF Dynamic
<1>4. c.ends[n].targets = << >>
  BY <1>1, <1>2 DEF Dynamic, WellFormed
<1>5. IsFiniteSet(S)
  BY FS_Subset DEF WellFormed
<1>6. \A o \in outgoing : \E e \in S : o = f[e]
  BY <1>1, DirectOutgoing
<1> HIDE DEF outgoing, S, f
<1>7. Cardinality(S) >= 2
  BY <1>1, <1>5, <1>6, TwoBehindTwo
<1>8. QED
  BY <1>1, <1>3, <1>4, <1>7 DEF S

\* Whatever a builder holds, a fan-out is called all-declared only for a node
\* that LangGraph itself runs and that nothing but unconditional edges leave.
THEOREM ClaimsAreUnconditional == Spec => []AllDeclaredIsUnconditional
<1>1. OutcomeInv /\ NothingDropped => AllDeclaredIsUnconditional
  <2> SUFFICES ASSUME OutcomeInv, NothingDropped, Ended, NEW i \in output.graphs,
                      NEW n \in Contents(docs[i]).drawn,
                      Facts(docs[i]).branch[n] = "all-declared"
               PROVE  /\ MappedIdentity(Contents(docs[i]), n)
                      /\ Cardinality({e \in Contents(docs[i]).edges : e[1] = n}) >= 2
                      /\ Contents(docs[i]).branches[n] = << >>
                      /\ Contents(docs[i]).ends[n].targets = << >>
    BY DEF AllDeclaredIsUnconditional
  <2>1. i \in DOMAIN docs
    BY DEF NothingDropped
  <2>2. Contents(docs[i]) \in CompiledGraph /\ WellFormed(Contents(docs[i]))
    BY <2>1, ContentsType
  <2>3. BranchFact(Contents(docs[i]), EdgeDocuments(Contents(docs[i])), docs[i].depth, n)
          = "all-declared"
    BY FactsOfNode
  <2>4. QED
    BY <2>2, <2>3, AllDeclared
<1>2. QED
  BY <1>1, OutcomeAlways, OutcomeIsComplete, PTL

-------------------------------------------------------------------------------
(* Children left opaque.                                                    *)

\* Opaque is what the facts call a node whose child the traversal found and left.
LEMMA OpaqueFact ==
  ASSUME NEW c, NEW decl, NEW sub, NEW n
  PROVE  SubgraphFact(c, decl, sub, n) \in {"compiled-child", "declared-child-call"}
           <=> ~Sentinel(n) /\ sub[n] = << >> /\ MappedCompiledChild(c, decl, n) # NoChild
BY DEF SubgraphFact, MappedCompiledChild

\* The facts, worked out after the traversal from the objects themselves, call a
\* child opaque within the budget exactly where the traversal reported a collision.
THEOREM OpaqueIsExplained == Spec => []OpaqueWithinBudgetIsACollision
<1>1. DescribeInv /\ NothingDropped => OpaqueWithinBudgetIsACollision
  <2> SUFFICES ASSUME DescribeInv, NothingDropped, Ended, NEW i \in output.graphs,
                      NEW n \in Contents(docs[i]).drawn
               PROVE  LET fact == Facts(docs[i]).subgraph[n] IN
                      /\ (docs[i].depth > 0
                            /\ fact \in {"compiled-child", "declared-child-call"}) <=>
                           (~Sentinel(n) /\ Gap(Collision, docs[i].id, n) \in output.gaps)
                      /\ fact = "materialized-child" => Facts(docs[i]).version = "2"
    BY DEF OpaqueWithinBudgetIsACollision, Collision
  <2> DEFINE c == Contents(docs[i])
             fact == Facts(docs[i]).subgraph[n]
  <2>1. i \in DOMAIN docs /\ OutcomeInv
    BY DEF NothingDropped, DescribeInv
  <2>2. n \in NodeId /\ docs[i].depth \in Nat
    BY <2>1, ContentsType
  <2>3. AllGaps = output.gaps /\ ~Ahead(i, n)
    BY <2>1, <2>2, OutcomeAtEnd
  <2>4. /\ fact = SubgraphFact(c, declared[docs[i].obj], docs[i].sub, n)
        /\ Facts(docs[i]).version = InterpretationVersion(c.drawn, docs[i].sub)
    BY FactsOfNode
  <2>5. ChildOf(docs[i], n) = MappedCompiledChild(c, declared[docs[i].obj], n)
    BY DEF ChildOf, Contents
  <2>6. Reported(i, n) <=> Gap(Collision, docs[i].id, n) \in output.gaps
    BY <2>3 DEF Reported
  <2>7. (docs[i].sub[n] = << >>) <=>
          docs[i].depth = 0 \/ ChildOf(docs[i], n) = NoChild \/ Reported(i, n)
    BY <2>1, <2>2, <2>3 DEF OutcomeInv, Accounted, Opaque, NoRef
  <2>8. Reported(i, n) => docs[i].depth > 0 /\ ChildOf(docs[i], n) # NoChild
    BY <2>1, <2>2 DEF DescribeInv, Refusals
  <2>9. fact = "materialized-child" => docs[i].sub[n] # << >>
    BY <2>4 DEF SubgraphFact
  <2>10. fact = "materialized-child" => Facts(docs[i]).version = "2"
    BY <2>4, <2>9 DEF InterpretationVersion
  <2>11. fact \in {"compiled-child", "declared-child-call"}
           <=> ~Sentinel(n) /\ docs[i].sub[n] = << >> /\ ChildOf(docs[i], n) # NoChild
    BY <2>4, <2>5, OpaqueFact
  <2> HIDE DEF c, fact
  <2>12. (docs[i].depth > 0 /\ fact \in {"compiled-child", "declared-child-call"}) <=>
           (~Sentinel(n) /\ Gap(Collision, docs[i].id, n) \in output.gaps)
    BY <2>2, <2>6, <2>7, <2>8, <2>11
  <2>13. QED
    BY <2>10, <2>12 DEF fact
<1>2. QED
  BY <1>1, DescribeAlways, OutcomeIsComplete, PTL

-------------------------------------------------------------------------------
(* Both producers.  The builder TypeScript has for a program is read by its own *)
(* translation; what it makes of it is compared with what Python makes.       *)

\* The two translations count, join and sort with the same library.
LEMMA SameLibrary ==
  /\ \A S : Ts!Cardinality(S) = Cardinality(S)
  /\ \A s : Ts!FlattenSeq(s) = FlattenSeq(s)
  /\ \A s : Ts!ToSet(s) = ToSet(s)
  /\ \A s : Ts!SortedSources(s) = SortedSources(s)
  /\ \A n : Ts!Sentinel(n) = Sentinel(n)
  /\ \A k : Ts!Numeral(k) = Numeral(k)
<1>1. \A S : Ts!Cardinality(S) = Cardinality(S)
  BY DEF Ts!Cardinality, Cardinality
<1>2. \A s : Ts!FlattenSeq(s) = FlattenSeq(s)
  BY DEF Ts!FlattenSeq, FlattenSeq
<1>3. \A s : Ts!ToSet(s) = ToSet(s)
  BY DEF Ts!ToSet, ToSet
<1>4. \A n : Ts!Sentinel(n) = Sentinel(n)
  BY DEF Ts!Sentinel, Sentinel
<1>5. \A k : Ts!Numeral(k) = Numeral(k)
  BY DEF Ts!Numeral, Numeral
<1>6. \A s : Ts!SortedSources(s) = SortedSources(s)
  BY DEF Ts!SortedSources, SortedSources, Ts!InOrder, InOrder, Ts!Cardinality, Cardinality
<1>7. QED
  BY <1>1, <1>2, <1>3, <1>4, <1>5, <1>6

\* Joins have the same ids.
LEMMA SameJoinId ==
  /\ \A s : Ts!EscapeJoinSource(s) = EscapeJoinSource(s)
  /\ \A sorted, target : Ts!JoinId(sorted, target) = JoinId(sorted, target)
<1>1. \A s : Ts!EscapeJoinSource(s) = EscapeJoinSource(s)
  BY SameLibrary DEF Ts!EscapeJoinSource, EscapeJoinSource
<1>2. \A sorted, target : Ts!JoinId(sorted, target) = JoinId(sorted, target)
  BY <1>1, SameLibrary DEF Ts!JoinId, JoinId
<1>3. QED
  BY <1>1, <1>2

LEMMA SameJoins ==
  ASSUME NEW c
  PROVE  Ts!JoinDocuments(TsBuilder(c)) = JoinDocuments(c)
<1>1. TsBuilder(c).joins = c.joins
  BY SMTT(60) DEF TsBuilder
<1>2. QED
  BY <1>1, SameLibrary, SameJoinId DEF Ts!JoinDocuments, JoinDocuments

\* Both read the same conditional edges off branches and destinations.
LEMMA SameConditionalTargets ==
  ASSUME NEW c \in CompiledGraph, NEW s \in NodeId
  PROVE  Ts!ConditionalTargets(TsBuilder(c), s) = ConditionalTargets(c, s)
<1> DEFINE b == TsBuilder(c)
           Py(ends)  == IF ends = UnknownEnds THEN << >> ELSE ends
           Ecma(ends) == IF ends \in {NoEnds, UnknownEnds} THEN << >> ELSE ends
<1>1. /\ b.branches = c.branches
      /\ b.ends[s] = IF ~c.ends[s].dict /\ c.ends[s].targets = << >>
                       THEN NoEnds ELSE c.ends[s].targets
  BY DEF TsBuilder
<1>2. /\ NoEnds \notin Seq(NodeId) /\ UnknownEnds \notin Seq(NodeId)
  BY ProgramsAlike DEF ParityAssumption
<1>3. /\ c.branches[s] \in Seq(Seq(NodeId) \cup {UnknownEnds})
      /\ c.ends[s].targets \in Seq(NodeId)
  BY DEF CompiledGraph
<1>4. Ecma(b.ends[s]) = c.ends[s].targets
  BY <1>1, <1>2, <1>3
<1>5. \A i \in DOMAIN c.branches[s] : Ecma(c.branches[s][i]) = Py(c.branches[s][i])
  <2>1. \A i \in DOMAIN c.branches[s] : c.branches[s][i] \in Seq(NodeId) \cup {UnknownEnds}
    BY <1>3, ElementOfSeq, LenProperties
  <2>2. QED
    BY <2>1, <1>2
<1> HIDE DEF b, Py, Ecma
<1>6. [i \in DOMAIN b.branches[s] |-> Ecma(b.branches[s][i])]
        = [i \in DOMAIN c.branches[s] |-> Py(c.branches[s][i])]
  BY <1>1, <1>5, SMTT(60)
<1>7. /\ Ts!ConditionalTargets(b, s)
           = FlattenSeq([i \in DOMAIN b.branches[s] |-> Ecma(b.branches[s][i])])
               \o Ecma(b.ends[s])
      /\ ConditionalTargets(c, s)
           = FlattenSeq([i \in DOMAIN c.branches[s] |-> Py(c.branches[s][i])])
               \o c.ends[s].targets
  BY SameLibrary DEF Ts!ConditionalTargets, ConditionalTargets, Py, Ecma
<1>8. QED
  BY <1>4, <1>6, <1>7, ZenonT(60) DEF b

\* The edges of a finite set, listed, come once each.
LEMMA ListedOnce ==
  ASSUME NEW S, IsFiniteSet(S), NEW x
  PROVE  LET list == SetToSeq(S)
             at   == {i \in DOMAIN list : list[i] = x}
         IN  /\ x \in S => Cardinality(at) = 1
             /\ x \notin S => Cardinality(at) = 0
<1> DEFINE N == Cardinality(S)
           list == SetToSeq(S)
           at == {i \in DOMAIN list : list[i] = x}
<1>1. N \in Nat /\ ExistsBijection(1..N, S)
  BY FS_CardinalityType
<1>2. \E f \in [1..N -> S] : IsInjective(f)
  BY <1>1 DEF ExistsBijection, Bijection, Injection, IsInjective
<1>3. list \in [1..N -> S] /\ IsInjective(list)
  BY <1>2 DEF SetToSeq
<1> HIDE DEF list, N
<1>4. list \in Surjection(1..N, S)
  <2>1. list \in Injection(1..N, S)
    BY <1>3 DEF Injection
  <2>2. Cardinality(1..N) = N
    BY <1>1, FS_Interval
  <2>3. QED
    BY <2>1, <2>2, FS_Injection DEF N
<1>5. x \in S => \E i \in DOMAIN list : at = {i}
  <2> SUFFICES ASSUME x \in S PROVE \E i \in DOMAIN list : at = {i}
    OBVIOUS
  <2>1. PICK i \in 1..N : list[i] = x
    BY <1>4 DEF Surjection
  <2>2. at = {i}
    BY <2>1, <1>3 DEF IsInjective
  <2>3. QED
    BY <2>1, <2>2, <1>3
<1>6. x \notin S => at = {}
  BY <1>3
<1>7. QED
  BY <1>5, <1>6, FS_Singleton, FS_EmptySet DEF list

TsEdge(s, t, kind, k) == [source |-> s, target |-> t, kind |-> kind, occurrence |-> k]

\* How often Python's c, and so the builder, declares the conditional edge from s to t.
Times(c, s, t) == Cardinality({i \in DOMAIN ConditionalTargets(c, s) : ConditionalTargets(c, s)[i] = t})

\* The edges TypeScript makes of the builder: one for each pair of edges, as many
\* conditional ones as declared.
LEMMA EdgesOfBuilder ==
  ASSUME NEW c \in CompiledGraph, WellFormed(c)
  PROVE  \A x : x \in Ts!EdgeDocuments(TsBuilder(c)) <=>
           \/ \E e \in c.edges : x = TsEdge(e[1], e[2], "direct", 1)
           \/ \E s \in NodeId, t \in NodeId : \E k \in 1..Times(c, s, t) :
                x = TsEdge(s, t, "conditional", k)
<1> DEFINE b == TsBuilder(c)
<1>1. b.edges = SetToSeq(c.edges) /\ IsFiniteSet(c.edges)
  BY DEF TsBuilder, WellFormed
<1>2. \A s, t \in NodeId :
        /\ <<s, t>> \in c.edges => Cardinality(Ts!Declarations(b, s, t, "direct")) = 1
        /\ <<s, t>> \notin c.edges => Cardinality(Ts!Declarations(b, s, t, "direct")) = 0
  <2> SUFFICES ASSUME NEW s \in NodeId, NEW t \in NodeId
               PROVE  /\ <<s, t>> \in c.edges
                           => Cardinality(Ts!Declarations(b, s, t, "direct")) = 1
                      /\ <<s, t>> \notin c.edges
                           => Cardinality(Ts!Declarations(b, s, t, "direct")) = 0
    BY ZenonT(60)
  <2>1. Ts!Declarations(b, s, t, "direct")
          = {i \in DOMAIN SetToSeq(c.edges) : SetToSeq(c.edges)[i] = <<s, t>>}
    BY <1>1 DEF Ts!Declarations
  <2>2. QED
    BY <1>1, <2>1, ListedOnce
<1>3. \A s, t \in NodeId : Cardinality(Ts!Declarations(b, s, t, "conditional")) = Times(c, s, t)
  <2> SUFFICES ASSUME NEW s \in NodeId, NEW t \in NodeId
               PROVE  Cardinality(Ts!Declarations(b, s, t, "conditional")) = Times(c, s, t)
    OBVIOUS
  <2>1. Ts!ConditionalTargets(b, s) = ConditionalTargets(c, s)
    BY SameConditionalTargets
  <2>2. Ts!Declarations(b, s, t, "conditional")
          = {i \in DOMAIN ConditionalTargets(c, s) : ConditionalTargets(c, s)[i] = t}
    BY <2>1 DEF Ts!Declarations
  <2>3. QED
    BY <2>2 DEF Times
<1> HIDE DEF b
<1>4. \A x : x \in Ts!EdgeDocuments(b) <=>
        \E s \in NodeId, t \in NodeId, kind \in {"direct", "conditional"} :
          \E k \in 1..Cardinality(Ts!Declarations(b, s, t, kind)) : x = TsEdge(s, t, kind, k)
  <2> DEFINE Documents(s, t, kind) ==
        {TsEdge(s, t, kind, k) : k \in 1..Cardinality(Ts!Declarations(b, s, t, kind))}
  <2>1. Ts!EdgeDocuments(b) = UNION {Documents(s, t, kind) :
          s \in NodeId, t \in NodeId, kind \in {"direct", "conditional"}}
    BY SameLibrary DEF Ts!EdgeDocuments, TsEdge
  <2> SUFFICES ASSUME NEW x
               PROVE  x \in Ts!EdgeDocuments(b) <=>
                        \E s \in NodeId, t \in NodeId, kind \in {"direct", "conditional"} :
                          x \in Documents(s, t, kind)
    OBVIOUS
  <2> HIDE DEF Documents
  <2>2. QED
    BY <2>1
<1>5. \A x : (\E s \in NodeId, t \in NodeId :
                \E k \in 1..Cardinality(Ts!Declarations(b, s, t, "direct")) :
                  x = TsEdge(s, t, "direct", k))
             <=> \E e \in c.edges : x = TsEdge(e[1], e[2], "direct", 1)
  <2>1. c.edges \subseteq NodeId \X NodeId
    BY DEF CompiledGraph
  <2>2. ASSUME NEW s \in NodeId, NEW t \in NodeId,
               NEW k \in 1..Cardinality(Ts!Declarations(b, s, t, "direct"))
        PROVE  <<s, t>> \in c.edges /\ k = 1
    BY <2>2, <1>2
  <2>3. ASSUME NEW e \in c.edges
        PROVE  /\ e[1] \in NodeId /\ e[2] \in NodeId
               /\ 1 \in 1..Cardinality(Ts!Declarations(b, e[1], e[2], "direct"))
    <3>1. e[1] \in NodeId /\ e[2] \in NodeId /\ e = <<e[1], e[2]>>
      BY <2>1
    <3>2. QED
      BY <3>1, <1>2
  <2>4. \A s, t : <<s, t>>[1] = s /\ <<s, t>>[2] = t
    OBVIOUS
  <2> SUFFICES ASSUME NEW x
               PROVE  (\E s \in NodeId, t \in NodeId :
                         \E k \in 1..Cardinality(Ts!Declarations(b, s, t, "direct")) :
                           x = TsEdge(s, t, "direct", k))
                      <=> \E e \in c.edges : x = TsEdge(e[1], e[2], "direct", 1)
    OBVIOUS
  <2>5. ASSUME NEW s \in NodeId, NEW t \in NodeId,
               NEW k \in 1..Cardinality(Ts!Declarations(b, s, t, "direct")),
               x = TsEdge(s, t, "direct", k)
        PROVE  \E e \in c.edges : x = TsEdge(e[1], e[2], "direct", 1)
    <3>1. <<s, t>> \in c.edges /\ k = 1
      BY <2>2
    <3>2. x = TsEdge(<<s, t>>[1], <<s, t>>[2], "direct", 1)
      BY <2>5, <3>1
    <3>3. QED
      BY <3>1, <3>2
  <2>6. QED
    BY <2>3, <2>5
<1> SUFFICES ASSUME NEW x
             PROVE  x \in Ts!EdgeDocuments(b) <=>
                      \/ \E e \in c.edges : x = TsEdge(e[1], e[2], "direct", 1)
                      \/ \E s \in NodeId, t \in NodeId : \E k \in 1..Times(c, s, t) :
                           x = TsEdge(s, t, "conditional", k)
  BY DEF b
<1> DEFINE Some(kind) == \E s \in NodeId, t \in NodeId :
                           \E k \in 1..Cardinality(Ts!Declarations(b, s, t, kind)) :
                             x = TsEdge(s, t, kind, k)
<1>6. Some("conditional") <=> \E s \in NodeId, t \in NodeId : \E k \in 1..Times(c, s, t) :
                                x = TsEdge(s, t, "conditional", k)
  BY <1>3
<1>7. x \in Ts!EdgeDocuments(b) <=> Some("direct") \/ Some("conditional")
  BY <1>4
<1>8. QED
  BY <1>5, <1>6, <1>7

\* The edges Python makes, one by one.
LEMMA EdgesOfGraph ==
  ASSUME NEW c
  PROVE  \A x : x \in EdgeDocuments(c) <=>
           \/ \E e \in c.edges : x = EdgeDocument(e[1], e[2], "direct", 1)
           \/ \E s \in NodeId, t \in NodeId : \E k \in 1..Times(c, s, t) :
                x = EdgeDocument(s, t, "conditional", k)
<1> DEFINE Direct == {EdgeDocument(e[1], e[2], "direct", 1) : e \in c.edges}
           Documents(s, t) == {EdgeDocument(s, t, "conditional", k) : k \in 1..Times(c, s, t)}
<1>1. EdgeDocuments(c)
        = Direct \cup UNION {Documents(s, t) : s \in NodeId, t \in NodeId}
  BY DEF EdgeDocuments, Times
<1> SUFFICES ASSUME NEW x
             PROVE  x \in EdgeDocuments(c) <=>
                      \/ x \in Direct
                      \/ \E s \in NodeId, t \in NodeId : x \in Documents(s, t)
  OBVIOUS
<1> HIDE DEF Direct, Documents
<1>2. QED
  BY <1>1

\* An edge both make has one id.
LEMMA SameEdge ==
  ASSUME NEW s, NEW t, NEW kind, NEW k
  PROVE  LET e == TsEdge(s, t, kind, k) IN
         [id |-> Ts!EdgeId(e), source |-> e.source, target |-> e.target, kind |-> e.kind]
           = EdgeDocument(s, t, kind, k)
BY SameLibrary DEF TsEdge, Ts!EdgeId, EdgeDocument

LEMMA SameEdges ==
  ASSUME NEW c \in CompiledGraph, WellFormed(c)
  PROVE  {[id |-> Ts!EdgeId(e), source |-> e.source, target |-> e.target, kind |-> e.kind] :
            e \in Ts!EdgeDocuments(TsBuilder(c))} = EdgeDocuments(c)
<1> DEFINE Id(e) == [id |-> Ts!EdgeId(e), source |-> e.source, target |-> e.target, kind |-> e.kind]
           edges == Ts!EdgeDocuments(TsBuilder(c))
<1>1. \A s, t, kind, k : Id(TsEdge(s, t, kind, k)) = EdgeDocument(s, t, kind, k)
  BY SameEdge
<1>2. \A x : x \in edges <=>
        \/ \E e \in c.edges : x = TsEdge(e[1], e[2], "direct", 1)
        \/ \E s \in NodeId, t \in NodeId : \E k \in 1..Times(c, s, t) :
             x = TsEdge(s, t, "conditional", k)
  BY EdgesOfBuilder
<1> HIDE DEF Id, edges
<1>3. ASSUME NEW x \in edges PROVE Id(x) \in EdgeDocuments(c)
  BY <1>1, <1>2, EdgesOfGraph
<1>4. ASSUME NEW y \in EdgeDocuments(c) PROVE \E x \in edges : y = Id(x)
  <2>1. CASE \E e \in c.edges : y = EdgeDocument(e[1], e[2], "direct", 1)
    BY <2>1, <1>1, <1>2
  <2>2. CASE \E s \in NodeId, t \in NodeId : \E k \in 1..Times(c, s, t) :
               y = EdgeDocument(s, t, "conditional", k)
    BY <2>2, <1>1, <1>2
  <2>3. QED
    BY <2>1, <2>2, EdgesOfGraph
<1>5. {Id(x) : x \in edges} = EdgeDocuments(c)
  BY <1>3, <1>4
<1>6. QED
  BY <1>5 DEF Id, edges

LEMMA DrawnAlike ==
  ASSUME NEW c, Alike(c)
  PROVE  /\ Ts!Drawable(TsBuilder(c)).ids = c.drawn
         /\ Ts!Drawable(TsBuilder(c)).same = c.nodes \cap c.same
         /\ TsBuilder(c).nodes = c.nodes /\ TsBuilder(c).runnable = c.bound
         /\ TsBuilder(c).branches = c.branches /\ TsBuilder(c).joins = c.joins
         /\ TsBuilder(c).before = c.before /\ TsBuilder(c).after = c.after
         /\ TsBuilder(c).rooted = c.rooted
BY DEF Alike, Ts!Drawable, TsBuilder

\* A node has the same interrupts in both documents.
LEMMA SameInterrupts ==
  ASSUME NEW c \in CompiledGraph, Alike(c), NEW n \in NodeId
  PROVE  Ts!NodeDocument(TsBuilder(c), n) = NodeDocument(c, n)
<1> DEFINE b == TsBuilder(c)
<1>1. b.before = c.before /\ b.after = c.after
  BY DrawnAlike
<1>2. \A configured \in {c.before, c.after} :
        Ts!IncludesInterrupt(configured, n) <=>
          n \in configured \/ (STAR \in configured /\ ~Sentinel(n))
  <2>1. Sentinel(n) => n \notin c.before /\ n \notin c.after
    BY DEF Alike, Sentinel
  <2>2. QED
    BY <2>1, SameLibrary DEF Ts!IncludesInterrupt
<1> HIDE DEF b
<1>3. \A w \in {"before", "after"} :
        Ts!IncludesInterrupt(IF w = "before" THEN b.before ELSE b.after, n) <=>
          LET configured == IF w = "before" THEN c.before ELSE c.after
          IN  n \in configured \/ (STAR \in configured /\ ~Sentinel(n))
  BY <1>1, <1>2
<1>4. {w \in {"before", "after"} :
         Ts!IncludesInterrupt(IF w = "before" THEN b.before ELSE b.after, n)} = Interrupts(c, n)
  BY <1>3 DEF Interrupts
<1>5. QED
  BY <1>4 DEF Ts!NodeDocument, NodeDocument, b

\* Ends of edges are the same, whether an edge carries its id or not.
LEMMA SameEnds ==
  ASSUME NEW c \in CompiledGraph, WellFormed(c)
  PROVE  LET ts == Ts!EdgeDocuments(TsBuilder(c))
             py == EdgeDocuments(c)
         IN  /\ {e.source : e \in ts} = {e.source : e \in py}
             /\ {e.target : e \in ts} = {e.target : e \in py}
<1> DEFINE ts == Ts!EdgeDocuments(TsBuilder(c))
           Id(e) == [id |-> Ts!EdgeId(e), source |-> e.source, target |-> e.target, kind |-> e.kind]
<1>1. EdgeDocuments(c) = {Id(e) : e \in ts}
  BY SameEdges
<1>2. \A e : Id(e).source = e.source /\ Id(e).target = e.target
  OBVIOUS
<1> HIDE DEF ts, Id
<1>3. QED
  BY <1>1, <1>2 DEF ts

LEMMA SameStructure ==
  ASSUME NEW c \in CompiledGraph, WellFormed(c), Alike(c)
  PROVE  LET b  == TsBuilder(c)
             py == Structure(c)
             ts == Ts!Structure(b, Ts!Drawable(b))
         IN  /\ ts.edges = Ts!EdgeDocuments(b) /\ py.edges = EdgeDocuments(c)
             /\ py.edges = TsEdges(ts)
             /\ py.nodes = ts.nodes /\ py.joins = ts.joins
             /\ py.entryNodeIds = ts.entryNodeIds /\ py.exitNodeIds = ts.exitNodeIds
             /\ Ts!Targets(ts.edges, ts.joins) = Targets(py.edges, py.joins)
<1> DEFINE b == TsBuilder(c)
           d == Ts!Drawable(b)
           py == Structure(c)
           ts == Ts!Structure(b, d)
<1>1. /\ ts.edges = Ts!EdgeDocuments(b) /\ ts.joins = Ts!JoinDocuments(b)
      /\ ts.nodes = {Ts!NodeDocument(b, n) : n \in d.ids}
      /\ ts.entryNodeIds = d.ids \ Ts!Targets(ts.edges, ts.joins)
      /\ ts.exitNodeIds  = d.ids \ (Ts!UnknownRouters(b)
                                      \cup {e.source : e \in ts.edges}
                                      \cup UNION {Ts!ToSet(j.sources) : j \in ts.joins})
  BY DEF Ts!Structure
<1>2. /\ py.edges = EdgeDocuments(c) /\ py.joins = JoinDocuments(c)
      /\ py.nodes = {NodeDocument(c, n) : n \in c.drawn}
      /\ py.entryNodeIds = c.drawn \ Targets(py.edges, py.joins)
      /\ py.exitNodeIds  = c.drawn \ Sources(py.edges, py.joins, UnknownRouters(c))
  BY DEF Structure
<1>3. d.ids = c.drawn /\ c.drawn \subseteq NodeId
  BY DrawnAlike DEF CompiledGraph
<1>4. ts.joins = py.joins
  BY <1>1, <1>2, SameJoins
<1>5. /\ {e.source : e \in ts.edges} = {e.source : e \in py.edges}
      /\ {e.target : e \in ts.edges} = {e.target : e \in py.edges}
  BY <1>1, <1>2, SameEnds
<1>6. py.edges = TsEdges(ts)
  BY <1>1, <1>2, SameEdges DEF TsEdges
<1>7. ts.nodes = py.nodes
  <2>1. \A n \in c.drawn : Ts!NodeDocument(b, n) = NodeDocument(c, n)
    BY <1>3, SameInterrupts
  <2> HIDE DEF b, d
  <2>2. QED
    BY <2>1, <1>1, <1>2, <1>3
<1>8. Ts!UnknownRouters(b) = UnknownRouters(c)
  BY DrawnAlike DEF Ts!UnknownRouters, UnknownRouters
<1> HIDE DEF b, d, py, ts
<1>9. Ts!Targets(ts.edges, ts.joins) = Targets(py.edges, py.joins)
  BY <1>4, <1>5 DEF Ts!Targets, Targets
<1>10. ts.entryNodeIds = py.entryNodeIds
  BY <1>1, <1>2, <1>3, <1>9
<1>11. UNION {Ts!ToSet(j.sources) : j \in ts.joins} = UNION {ToSet(j.sources) : j \in py.joins}
  BY <1>4, SameLibrary
<1>12. ts.exitNodeIds = py.exitNodeIds
  BY <1>1, <1>2, <1>3, <1>5, <1>8, <1>11 DEF Sources
<1>13. QED
  BY <1>1, <1>2, <1>4, <1>6, <1>7, <1>9, <1>10, <1>12 DEF b, d, py, ts

LEMMA SameMapping ==
  ASSUME NEW c \in CompiledGraph, WellFormed(c), Alike(c), NEW n \in NodeId
  PROVE  LET b == TsBuilder(c)
             d == Ts!Drawable(b)
         IN  /\ ~Sentinel(n) => (Ts!Mapped(b, d, n) <=> RuntimeMapped(c, n))
             /\ Ts!MappedIdentity(b, d, n) <=> MappedIdentity(c, n)
<1> DEFINE b == TsBuilder(c)
           d == Ts!Drawable(b)
<1>1. /\ d.ids = c.drawn /\ d.same = c.nodes \cap c.same /\ b.nodes = c.nodes
      /\ c.runtime = c.nodes \cup {START} /\ c.runtime \subseteq c.drawn
  BY DrawnAlike DEF WellFormed
<1> HIDE DEF b, d
<1>2. ~Sentinel(n) => (Ts!Mapped(b, d, n) <=> RuntimeMapped(c, n))
  BY <1>1 DEF Sentinel, Ts!Mapped, RuntimeMapped
<1>3. Ts!MappedIdentity(b, d, n) <=> MappedIdentity(c, n)
  BY <1>1, <1>2, SameLibrary DEF Ts!MappedIdentity, MappedIdentity, RuntimeMapped
<1>4. QED
  BY <1>2, <1>3 DEF b, d

LEMMA SameDynamic ==
  ASSUME NEW c \in CompiledGraph, Alike(c)
  PROVE  Ts!Dynamic(TsBuilder(c)) = Dynamic(c)
<1> DEFINE b == TsBuilder(c)
<1>1. b.branches = c.branches /\ b.nodes = c.nodes /\ c.nodes \subseteq NodeId
  BY DrawnAlike DEF CompiledGraph
<1>2. \A n \in c.nodes : b.ends[n] # NoEnds <=> c.ends[n].dict \/ c.ends[n].targets # << >>
  <2>1. \A n \in c.nodes : c.ends[n].targets \in Seq(NodeId)
    BY <1>1 DEF CompiledGraph
  <2>2. \A n \in c.nodes : c.ends[n].targets # NoEnds
    BY <2>1, ProgramsAlike DEF ParityAssumption
  <2>3. \A n \in c.nodes : b.ends[n] = IF ~c.ends[n].dict /\ c.ends[n].targets = << >>
                                         THEN NoEnds ELSE c.ends[n].targets
    BY <1>1 DEF TsBuilder
  <2> HIDE DEF b
  <2>4. QED
    BY <2>2, <2>3
<1> HIDE DEF b
<1>3. QED
  BY <1>1, <1>2 DEF Ts!Dynamic, Dynamic, b

\* What leaves a node, as either producer counts it.
LEMMA SameWaysOut ==
  ASSUME NEW c \in CompiledGraph, WellFormed(c), NEW n \in NodeId
  PROVE  LET py == Outgoing(EdgeDocuments(c), n)
             ts == {e \in Ts!EdgeDocuments(TsBuilder(c)) : e.source = n}
             conditional == \E o \in py : o[2] = "conditional"
         IN  /\ conditional <=> \E e \in ts : e.kind = "conditional"
             /\ ~conditional => Ts!Cardinality(ts) = Cardinality(py)
             /\ (\E o \in py : ~MappedIdentity(c, o[1]))
                  <=> \E e \in ts : ~MappedIdentity(c, e.target)
<1> DEFINE edges == Ts!EdgeDocuments(TsBuilder(c))
           Id(e) == [id |-> Ts!EdgeId(e), source |-> e.source, target |-> e.target, kind |-> e.kind]
           py == Outgoing(EdgeDocuments(c), n)
           ts == {e \in edges : e.source = n}
           conditional == \E o \in py : o[2] = "conditional"
           S == {e \in c.edges : e[1] = n}
<1>1. EdgeDocuments(c) = {Id(e) : e \in edges}
  BY SameEdges
<1>2. \A e : Id(e).source = e.source /\ Id(e).target = e.target /\ Id(e).kind = e.kind
  OBVIOUS
<1> HIDE DEF Id
<1>3. py = {<<e.target, e.kind>> : e \in ts}
  <2>1. {x \in EdgeDocuments(c) : x.source = n} = {Id(e) : e \in ts}
    <3> HIDE DEF edges
    <3> QED BY <1>1, <1>2
  <2> HIDE DEF edges, ts
  <2>2. QED
    BY <2>1, <1>2 DEF Outgoing
<1>4. \A e \in ts : \/ e.kind = "conditional"
                    \/ \E x \in S : e = TsEdge(n, x[2], "direct", 1)
  <2>1. \A s, t, kind, k : /\ TsEdge(s, t, kind, k).source = s
                           /\ TsEdge(s, t, kind, k).kind = kind
    BY DEF TsEdge
  <2>2. QED
    BY <2>1, EdgesOfBuilder
<1>5. \A x \in S : /\ TsEdge(n, x[2], "direct", 1) \in ts
                   /\ TsEdge(n, x[2], "direct", 1).target = x[2]
                   /\ TsEdge(n, x[2], "direct", 1).kind = "direct"
  <2>1. \A t : /\ TsEdge(n, t, "direct", 1).source = n
               /\ TsEdge(n, t, "direct", 1).target = t
               /\ TsEdge(n, t, "direct", 1).kind = "direct"
    BY DEF TsEdge
  <2>2. QED
    BY <2>1, EdgesOfBuilder
<1> HIDE DEF edges, py, ts, S
<1>a. /\ \A e \in ts : <<e.target, e.kind>> \in py
      /\ \A o \in py : \E e \in ts : o[1] = e.target /\ o[2] = e.kind
  BY <1>3
<1>b. \A e \in ts : <<e.target, e.kind>>[1] = e.target /\ <<e.target, e.kind>>[2] = e.kind
  OBVIOUS
<1>6. conditional <=> \E e \in ts : e.kind = "conditional"
  BY <1>a, <1>b
<1>7. (\E o \in py : ~MappedIdentity(c, o[1])) <=> \E e \in ts : ~MappedIdentity(c, e.target)
  BY <1>a, <1>b
<1>8. ASSUME ~conditional PROVE Cardinality(ts) = Cardinality(py)
  <2> DEFINE f == [x \in S |-> TsEdge(n, x[2], "direct", 1)]
             h == [x \in S |-> <<x[2], "direct">>]
  <2>1. IsFiniteSet(S) /\ \A x \in S : x = <<n, x[2]>>
    <3>1. IsFiniteSet(S)
      BY FS_Subset DEF S, WellFormed
    <3>2. c.edges \subseteq NodeId \X NodeId
      BY DEF CompiledGraph
    <3>3. QED
      BY <3>1, <3>2 DEF S
  <2>2. \A e \in ts : \E x \in S : e = TsEdge(n, x[2], "direct", 1)
    BY <1>4, <1>6, <1>8
  <2>3. \A o \in py : \E x \in S : o = <<x[2], "direct">>
    BY <2>2, <1>3, <1>5
  <2>4. \A x \in S : <<x[2], "direct">> \in py
    BY <1>3, <1>5
  <2>5. f \in Bijection(S, ts)
    <3>1. f \in [S -> ts]
      BY <1>5
    <3>2. \A x, y \in S : f[x] = f[y] => x = y
      BY <1>5, <2>1
    <3>3. \A e \in ts : \E x \in S : f[x] = e
      BY <2>2
    <3> HIDE DEF f
    <3>4. QED
      BY <3>1, <3>2, <3>3 DEF Bijection, Injection, Surjection, IsInjective
  <2>6. h \in Bijection(S, py)
    <3>1. h \in [S -> py]
      BY <2>4
    <3>2. \A x, y \in S : h[x] = h[y] => x = y
      BY <2>1
    <3>3. \A o \in py : \E x \in S : h[x] = o
      BY <2>3
    <3> HIDE DEF h
    <3>4. QED
      BY <3>1, <3>2, <3>3 DEF Bijection, Injection, Surjection, IsInjective
  <2> HIDE DEF f, h
  <2>7. QED
    BY <2>1, <2>5, <2>6, FS_Bijection DEF ExistsBijection
<1>9. QED
  BY <1>6, <1>7, <1>8, SameLibrary DEF edges, py, ts

LEMMA SameBranchFact ==
  ASSUME NEW c \in CompiledGraph, WellFormed(c), Alike(c), NEW n \in NodeId, NEW depth
  PROVE  LET b == TsBuilder(c) IN
         Ts!BranchFact(b, Ts!Drawable(b), Ts!EdgeDocuments(b), depth, n)
           = BranchFact(c, EdgeDocuments(c), depth, n)
<1> DEFINE b == TsBuilder(c)
           d == Ts!Drawable(b)
           py == Outgoing(EdgeDocuments(c), n)
           ts == {e \in Ts!EdgeDocuments(b) : e.source = n}
           conditional == \E o \in py : o[2] = "conditional"
<1>1. /\ conditional <=> \E e \in ts : e.kind = "conditional"
      /\ ~conditional => Ts!Cardinality(ts) = Cardinality(py)
      /\ (\E o \in py : ~MappedIdentity(c, o[1])) <=> \E e \in ts : ~MappedIdentity(c, e.target)
  BY SameWaysOut
<1>2. \A e \in ts : Ts!MappedIdentity(b, d, e.target) <=> MappedIdentity(c, e.target)
  <2>1. \A s, t, kind, k : TsEdge(s, t, kind, k).target = t
    BY DEF TsEdge
  <2>2. \A e \in c.edges : e[2] \in NodeId
    BY DEF CompiledGraph
  <2>3. \A e \in Ts!EdgeDocuments(b) : e.target \in NodeId
    BY <2>1, <2>2, EdgesOfBuilder
  <2>4. QED
    BY <2>3, SameMapping
<1>3. Ts!MappedIdentity(b, d, n) <=> MappedIdentity(c, n)
  BY SameMapping
<1>4. n \in Ts!Dynamic(b) <=> n \in Dynamic(c)
  BY SameDynamic
<1>5. BranchFact(c, EdgeDocuments(c), depth, n) =
        IF ~(Cardinality(py) >= 2 \/ conditional \/ (MappedIdentity(c, n) /\ n \in Dynamic(c)))
          THEN "none"
        ELSE IF ~MappedIdentity(c, n) THEN "scope-not-inspected"
        ELSE IF n \in Dynamic(c) \/ conditional THEN "selection-not-observable"
        ELSE IF depth > 0 /\ \E o \in py : ~MappedIdentity(c, o[1]) THEN "scope-not-inspected"
        ELSE "all-declared"
  BY DEF BranchFact
<1>6. Ts!BranchFact(b, d, Ts!EdgeDocuments(b), depth, n) =
        IF ~(Ts!Cardinality(ts) >= 2 \/ (\E e \in ts : e.kind = "conditional")
               \/ (Ts!MappedIdentity(b, d, n) /\ n \in Ts!Dynamic(b)))
          THEN "none"
        ELSE IF ~Ts!MappedIdentity(b, d, n) THEN "scope-not-inspected"
        ELSE IF n \in Ts!Dynamic(b) \/ (\E e \in ts : e.kind = "conditional")
          THEN "selection-not-observable"
        ELSE IF depth > 0 /\ \E e \in ts : ~Ts!MappedIdentity(b, d, e.target)
          THEN "scope-not-inspected"
        ELSE "all-declared"
  BY DEF Ts!BranchFact
<1> HIDE DEF b, d, py, ts
<1>7. (\E o \in py : ~MappedIdentity(c, o[1]))
        <=> \E e \in ts : ~Ts!MappedIdentity(b, d, e.target)
  BY <1>1, <1>2
<1>8. QED
  BY <1>1, <1>3, <1>4, <1>5, <1>6, <1>7 DEF b, d

LEMMA SameSubgraphFact ==
  ASSUME NEW c \in CompiledGraph, WellFormed(c), Alike(c), NEW n \in NodeId, NEW sub,
         NEW decl, decl[n] = NoChild
  PROVE  LET b == TsBuilder(c) IN
         Ts!SubgraphFact(b, Ts!Drawable(b), sub, n) = SubgraphFact(c, decl, sub, n)
<1> DEFINE b == TsBuilder(c)
           d == Ts!Drawable(b)
<1>1. /\ ~Sentinel(n) => (Ts!Mapped(b, d, n) <=> RuntimeMapped(c, n))
      /\ b.runnable = c.bound /\ (Ts!Sentinel(n) <=> Sentinel(n))
  BY SameMapping, DrawnAlike, SameLibrary
<1> HIDE DEF b, d
<1>2. Ts!SubgraphFact(b, d, sub, n) = SubgraphFact(c, decl, sub, n)
  BY <1>1 DEF Ts!SubgraphFact, SubgraphFact, DirectBoundChild, DeclaredChild
<1>3. QED
  BY <1>2 DEF b, d

LEMMA SameIdentity ==
  ASSUME NEW c \in CompiledGraph, WellFormed(c), Alike(c), NEW n \in NodeId, NEW depth
  PROVE  LET b == TsBuilder(c) IN
         Ts!NodeIdentity(b, Ts!Drawable(b), depth, n) = NodeIdentity(c, depth, n)
<1> DEFINE b == TsBuilder(c)
           d == Ts!Drawable(b)
<1>1. /\ ~Sentinel(n) => (Ts!Mapped(b, d, n) <=> RuntimeMapped(c, n))
      /\ b.nodes = c.nodes /\ b.rooted = c.rooted /\ (Ts!Sentinel(n) <=> Sentinel(n))
  BY SameMapping, DrawnAlike, SameLibrary
<1>2. /\ c.runtime = c.nodes \cup {START} /\ START \in c.same /\ START # END
      /\ c.rooted \in BOOLEAN
  BY IdsAssumption DEF WellFormed, Alike, NodeIdAssumption, CompiledGraph
<1> HIDE DEF b, d
<1>3. Sentinel(n) => (FrameworkOwned(c, n) <=> b.rooted /\ n \notin b.nodes)
  BY <1>1, <1>2 DEF Sentinel, FrameworkOwned, RuntimeMapped
<1>4. ~Sentinel(n) => (Ts!Mapped(b, d, n) <=> n \in c.nodes /\ RuntimeMapped(c, n))
  BY <1>1, <1>2 DEF Sentinel, RuntimeMapped
<1>5. Ts!NodeIdentity(b, d, depth, n) = NodeIdentity(c, depth, n)
  BY <1>1, <1>3, <1>4 DEF Ts!NodeIdentity, NodeIdentity
<1>6. QED
  BY <1>5 DEF b, d

LEMMA SameEntryFact ==
  ASSUME NEW c \in CompiledGraph, WellFormed(c), Alike(c), NEW n \in NodeId, NEW depth
  PROVE  LET b == TsBuilder(c)
             d == Ts!Drawable(b)
         IN  Ts!EntryFact(b, d, Ts!Structure(b, d), depth, n)
               = EntryFact(c, Structure(c), depth, n)
<1> DEFINE b == TsBuilder(c)
           d == Ts!Drawable(b)
           ts == Ts!Structure(b, d)
           py == Structure(c)
<1>1. Ts!NodeIdentity(b, d, depth, n) = NodeIdentity(c, depth, n)
  BY SameIdentity
<1>2. Ts!Targets(ts.edges, ts.joins) = Targets(py.edges, py.joins)
  BY SameStructure
<1> HIDE DEF b, d, ts, py
<1>3. Ts!EntryFact(b, d, ts, depth, n) = EntryFact(c, py, depth, n)
  BY <1>1, <1>2, Zenon DEF Ts!EntryFact, EntryFact
<1>4. QED
  BY <1>3 DEF b, d, ts, py

LEMMA SameFacts ==
  ASSUME NEW c \in CompiledGraph, WellFormed(c), Alike(c), NEW depth, NEW sub,
         NEW decl, \A n \in NodeId : decl[n] = NoChild
  PROVE  LET b == TsBuilder(c)
             d == Ts!Drawable(b)
         IN  Interpretation(c, decl, Structure(c), sub, depth)
               = Ts!Interpretation(b, d, Ts!Structure(b, d), sub, depth)
<1> DEFINE b == TsBuilder(c)
           d == Ts!Drawable(b)
           ts == Ts!Structure(b, d)
           py == Structure(c)
<1>1. d.ids = c.drawn /\ c.drawn \subseteq NodeId
  BY DrawnAlike DEF CompiledGraph
<1>2. ts.edges = Ts!EdgeDocuments(b) /\ py.edges = EdgeDocuments(c)
  BY SameStructure
<1>3. \A n \in c.drawn :
        /\ Ts!BranchFact(b, d, ts.edges, depth, n) = BranchFact(c, py.edges, depth, n)
        /\ Ts!SubgraphFact(b, d, sub, n) = SubgraphFact(c, decl, sub, n)
        /\ Ts!NodeIdentity(b, d, depth, n) = NodeIdentity(c, depth, n)
        /\ Ts!EntryFact(b, d, ts, depth, n) = EntryFact(c, py, depth, n)
  BY <1>1, <1>2, SameBranchFact, SameSubgraphFact, SameIdentity, SameEntryFact
<1>4. Ts!InterpretationVersion(c.drawn, sub) = InterpretationVersion(c.drawn, sub)
  BY DEF Ts!InterpretationVersion, InterpretationVersion
<1> HIDE DEF b, d, ts, py
<1>5. Interpretation(c, decl, py, sub, depth) = Ts!Interpretation(b, d, ts, sub, depth)
  BY <1>1, <1>3, <1>4 DEF Interpretation, Ts!Interpretation
<1>6. QED
  BY <1>5 DEF b, d, ts, py

\* Whatever a program without declared children is made of, the two producers, each
\* translated from its own source, describe each of its graphs alike: a revision of
\* one that the other does not follow fails here for every program, not for a list.
THEOREM DescribedAlike == Spec => []ProducersAgree
<1>1. OutcomeInv /\ NothingDropped => ProducersAgree
  <2> SUFFICES ASSUME OutcomeInv, NothingDropped, Ended, NEW i \in output.graphs,
                      \A n \in NodeId : declared[docs[i].obj][n] = NoChild
               PROVE  LET c  == Contents(docs[i])
                          b  == TsBuilder(c)
                          d  == Ts!Drawable(b)
                          py == Structure(c)
                          ts == Ts!Structure(b, d)
                      IN  /\ py.edges = TsEdges(ts)
                          /\ \A field \in {"nodes", "joins", "entryNodeIds", "exitNodeIds"} :
                               py[field] = ts[field]
                          /\ Facts(docs[i])
                               = Ts!Interpretation(b, d, ts, docs[i].sub, docs[i].depth)
    BY DEF ProducersAgree
  <2> DEFINE c == Contents(docs[i])
             b  == TsBuilder(c)
             ts == Ts!Structure(b, Ts!Drawable(b))
             py == Structure(c)
  <2>1. i \in DOMAIN docs
    BY DEF NothingDropped
  <2>2. c \in CompiledGraph /\ WellFormed(c)
    BY <2>1, ContentsType
  <2>3. Alike(c)
    <3>1. world \in World /\ docs[i].obj \in Graph
      BY <2>1, ContentsType DEF OutcomeInv, RecursionSafe, TypeInv, TypeOK, DocumentType
    <3>2. QED
      BY <3>1, ProgramsAlike DEF ParityAssumption, Contents
  <2>4. /\ py.edges = TsEdges(ts) /\ py.nodes = ts.nodes /\ py.joins = ts.joins
        /\ py.entryNodeIds = ts.entryNodeIds /\ py.exitNodeIds = ts.exitNodeIds
    BY <2>2, <2>3, SameStructure
  <2>5. Facts(docs[i]) = Ts!Interpretation(b, Ts!Drawable(b), ts, docs[i].sub, docs[i].depth)
    <3>1. Facts(docs[i]) = Interpretation(c, declared[docs[i].obj], Structure(c),
                                          docs[i].sub, docs[i].depth)
      BY DEF Facts
    <3>2. QED
      BY <3>1, <2>2, <2>3, SameFacts
  <2> HIDE DEF c, b, ts, py
  <2>6. QED
    BY <2>4, <2>5 DEF c, b, ts, py
<1>2. QED
  BY <1>1, OutcomeAlways, OutcomeIsComplete, PTL

-------------------------------------------------------------------------------
(* The ids of joins and edges.                                              *)

\* How an element of a source is written, and the words of a list of sources.
Escaped(t) == IF t \in {Backslash, Plus} THEN <<Backslash, t>> ELSE <<t>>
EscapedWords == {Escaped(t) : t \in Token} \cup {<<Plus>>}

\* A word is one element, never a backslash, or a backslash and an element.
LEMMA EscapedWord ==
  ASSUME NEW u \in EscapedWords
  PROVE  /\ u \in Seq(Token)
         /\ \/ Len(u) = 1 /\ u[1] # Backslash
            \/ Len(u) = 2 /\ u[1] = Backslash
<1>1. {Colon, Plus, Backslash} \subseteq Token /\ Plus # Backslash
  BY IdsAssumption DEF NodeIdAssumption
<1>2. CASE u = <<Plus>>
  BY <1>1, <1>2
<1>3. ASSUME NEW t \in Token, u = Escaped(t)
      PROVE  /\ u \in Seq(Token)
             /\ \/ Len(u) = 1 /\ u[1] # Backslash
                \/ Len(u) = 2 /\ u[1] = Backslash
  <2>1. CASE t \in {Backslash, Plus}
    <3>1. u = <<Backslash, t>>
      BY <1>3, <2>1 DEF Escaped
    <3>2. QED
      BY <3>1, <1>1
  <2>2. CASE t \notin {Backslash, Plus}
    <3>1. u = <<t>>
      BY <1>3, <2>2 DEF Escaped
    <3>2. QED
      BY <3>1, <1>1, <2>2
  <2>3. QED
    BY <2>1, <2>2
<1>4. QED
  BY <1>2, <1>3 DEF EscapedWords

\* No word of an escaped source begins another one.
LEMMA EscapedCode == PrefixFree(Token, EscapedWords)
<1>1. EscapedWords \subseteq Seq(Token) /\ << >> \notin EscapedWords
  <2>1. \A u \in EscapedWords : u \in Seq(Token) /\ Len(u) # 0
    BY EscapedWord
  <2>2. Len(<< >>) = 0
    OBVIOUS
  <2>3. QED
    BY <2>1, <2>2
<1>2. ASSUME NEW u \in EscapedWords, NEW v \in EscapedWords,
             Len(u) <= Len(v), \A k \in 1..Len(u) : u[k] = v[k]
      PROVE  u = v
  <2>1. /\ u \in Seq(Token) /\ v \in Seq(Token)
        /\ (Len(u) = 1 /\ u[1] # Backslash) \/ (Len(u) = 2 /\ u[1] = Backslash)
        /\ (Len(v) = 1 /\ v[1] # Backslash) \/ (Len(v) = 2 /\ v[1] = Backslash)
    BY EscapedWord
  <2>2. u[1] = v[1]
    BY <2>1, <1>2
  <2>3. Len(u) = Len(v)
    BY <2>1, <2>2
  <2>4. QED
    BY <1>2, <2>1, <2>3, SeqEqual
<1>3. QED
  BY <1>1, <1>2 DEF PrefixFree, Opens

\* No element is written as the delimiter or as another one.
LEMMA EscapedElement ==
  ASSUME NEW s, NEW t
  PROVE  /\ Escaped(s) # <<Plus>>
         /\ Escaped(s) = Escaped(t) => s = t
<1>1. Plus # Backslash
  BY IdsAssumption DEF NodeIdAssumption
<1>2. \A a, b, c, d : /\ <<a, b>> # <<c>> /\ (<<a>> = <<c>> => a = c)
                      /\ (<<a, b>> = <<c, d>> => b = d)
  OBVIOUS
<1>3. QED
  BY <1>1, <1>2 DEF Escaped

\* A source with the delimiter after it, and its words.
Delimited(s) == EscapeJoinSource(s) \o <<Plus>>
DelimitedWords(s) == Append([i \in DOMAIN s |-> Escaped(s[i])], <<Plus>>)

\* A delimited source is the concatenation of its words.
LEMMA DelimitedIsFlattened ==
  ASSUME NEW s \in Seq(Token)
  PROVE  /\ EscapeJoinSource(s) \in Seq(Token)
         /\ Delimited(s) \in Seq(Token)
         /\ Delimited(s) = FlattenSeq(DelimitedWords(s))
         /\ DelimitedWords(s) \in Seq(EscapedWords)
         /\ Len(s) \in Nat /\ Len(DelimitedWords(s)) = Len(s) + 1
         /\ DelimitedWords(s)[Len(s) + 1] = <<Plus>>
         /\ \A i \in 1..Len(s) : DelimitedWords(s)[i] = Escaped(s[i])
<1> DEFINE words == [i \in DOMAIN s |-> Escaped(s[i])]
<1>1. Len(s) \in Nat /\ DOMAIN s = 1..Len(s) /\ \A i \in 1..Len(s) : s[i] \in Token
  BY LenProperties, ElementOfSeq
<1>2. words = [i \in 1..Len(s) |-> Escaped(s[i])]
  BY <1>1
<1>3. \A i \in 1..Len(s) : Escaped(s[i]) \in EscapedWords
  BY <1>1 DEF EscapedWords
<1>4. /\ words \in Seq(EscapedWords) /\ Len(words) = Len(s)
      /\ \A i \in 1..Len(s) : words[i] = Escaped(s[i])
  <2>1. words \in [1..Len(s) -> EscapedWords]
    BY <1>2, <1>3
  <2>2. words \in Seq(EscapedWords)
    BY <2>1, <1>1, IsASeq
  <2>3. Len(words) = Len(s)
    BY <2>1, <2>2, <1>1, LenProperties
  <2>4. QED
    BY <2>2, <2>3, <1>1
<1>5. EscapedWords \subseteq Seq(Token)
  BY EscapedCode DEF PrefixFree
<1>6. words \in Seq(Seq(Token))
  BY <1>4, <1>5
<1>7. EscapeJoinSource(s) = FlattenSeq(words)
  BY DEF EscapeJoinSource, Escaped
<1>8. <<Plus>> \in Seq(Token) /\ <<Plus>> \in EscapedWords
  BY IdsAssumption DEF NodeIdAssumption, EscapedWords
<1> HIDE DEF words
<1>9. FlattenSeq(words) \in Seq(Token)
  BY <1>6, FlattenType
<1>10. FlattenSeq(Append(words, <<Plus>>)) = FlattenSeq(words) \o <<Plus>>
  BY <1>6, <1>8, FlattenAppend
<1>11. /\ Append(words, <<Plus>>) \in Seq(EscapedWords)
       /\ Len(Append(words, <<Plus>>)) = Len(words) + 1
       /\ Append(words, <<Plus>>)[Len(words) + 1] = <<Plus>>
       /\ \A i \in 1..Len(words) : Append(words, <<Plus>>)[i] = words[i]
  BY <1>4, <1>8, AppendProperties
<1>12. DelimitedWords(s) = Append(words, <<Plus>>)
  BY DEF DelimitedWords, words
<1>13. FlattenSeq(words) \o <<Plus>> \in Seq(Token)
  BY <1>8, <1>9, ConcatProperties
<1>14. QED
  BY <1>1, <1>4, <1>7, <1>9, <1>10, <1>11, <1>12, <1>13 DEF Delimited

\* No delimited source begins another one.
LEMMA DelimitedPrefix ==
  ASSUME NEW s \in Seq(Token), NEW t \in Seq(Token),
         Opens(Delimited(s), Delimited(t))
  PROVE  s = t
<1> DEFINE p == DelimitedWords(s)
           q == DelimitedWords(t)
<1>1. /\ Delimited(s) = FlattenSeq(p) /\ p \in Seq(EscapedWords)
      /\ Len(s) \in Nat /\ Len(p) = Len(s) + 1 /\ p[Len(s) + 1] = <<Plus>>
      /\ \A i \in 1..Len(s) : p[i] = Escaped(s[i])
  BY DelimitedIsFlattened
<1>2. /\ Delimited(t) = FlattenSeq(q) /\ q \in Seq(EscapedWords)
      /\ Len(t) \in Nat /\ Len(q) = Len(t) + 1 /\ q[Len(t) + 1] = <<Plus>>
      /\ \A i \in 1..Len(t) : q[i] = Escaped(t[i])
  BY DelimitedIsFlattened
<1> HIDE DEF p, q
<1>3. Len(p) <= Len(q) /\ \A k \in 1..Len(p) : p[k] = q[k]
  <2>1. Opens(FlattenSeq(p), FlattenSeq(q))
    BY <1>1, <1>2
  <2>2. p \in Seq(EscapedWords) /\ q \in Seq(EscapedWords)
    BY <1>1, <1>2
  <2>3. QED
    BY <2>1, <2>2, EscapedCode, PrefixCode DEF Opens
<1>4. Len(s) = Len(t)
  <2>1. Len(s) + 1 \in 1..Len(p) /\ Len(s) <= Len(t)
    BY <1>1, <1>2, <1>3
  <2>2. q[Len(s) + 1] = <<Plus>>
    BY <2>1, <1>1, <1>3
  <2>3. ASSUME Len(s) < Len(t) PROVE FALSE
    <3>1. Len(s) + 1 \in 1..Len(t)
      BY <2>3, <1>1, <1>2
    <3>2. q[Len(s) + 1] = Escaped(t[Len(s) + 1])
      BY <3>1, <1>2
    <3>3. QED
      BY <3>2, <2>2, EscapedElement
  <2>4. QED
    BY <2>1, <2>3, <1>1, <1>2
<1>5. ASSUME NEW i \in 1..Len(s) PROVE s[i] = t[i]
  <2>1. i \in 1..Len(p) /\ i \in 1..Len(t)
    BY <1>1, <1>4
  <2>2. Escaped(s[i]) = Escaped(t[i])
    BY <2>1, <1>1, <1>2, <1>3
  <2>3. QED
    BY <2>2, EscapedElement
<1>6. QED
  BY <1>4, <1>5, SeqEqual

\* The delimited sources, none of which begins another.
DelimitedSources == {Delimited(n) : n \in NodeId}

\* The delimited sources form a prefix code themselves.
LEMMA DelimitedCode == PrefixFree(Token, DelimitedSources)
<1>1. NodeId \subseteq Seq(Token) /\ Plus \in Token
  BY IdsAssumption DEF NodeIdAssumption
<1>2. ASSUME NEW n \in NodeId PROVE Delimited(n) \in Seq(Token) /\ Delimited(n) # << >>
  <2>1. EscapeJoinSource(n) \in Seq(Token) /\ Delimited(n) \in Seq(Token)
    BY <1>1, DelimitedIsFlattened
  <2>2. Len(Delimited(n)) = Len(EscapeJoinSource(n)) + 1 /\ Len(EscapeJoinSource(n)) \in Nat
    BY <2>1, <1>1, ConcatProperties, LenProperties DEF Delimited
  <2>3. QED
    BY <2>1, <2>2
<1>3. ASSUME NEW m \in NodeId, NEW n \in NodeId, Opens(Delimited(m), Delimited(n))
      PROVE  Delimited(m) = Delimited(n)
  BY <1>1, <1>3, DelimitedPrefix
<1>4. QED
  BY <1>2, <1>3 DEF PrefixFree, DelimitedSources

\* The sources of a join as JoinId writes them.
JoinText(sorted) ==
  FlattenSeq([i \in DOMAIN sorted |->
    (IF i = 1 THEN << >> ELSE <<Plus>>) \o EscapeJoinSource(sorted[i])])

\* With a final '+' the text of a join is its delimited sources in a row.
LEMMA JoinTextDelimited ==
  ASSUME NEW s \in Seq(NodeId), s # << >>
  PROVE  /\ JoinText(s) \in Seq(Token)
         /\ [i \in DOMAIN s |-> Delimited(s[i])] \in Seq(DelimitedSources)
         /\ JoinText(s) \o <<Plus>> = FlattenSeq([i \in DOMAIN s |-> Delimited(s[i])])
<1> DEFINE esc(i) == EscapeJoinSource(s[i])
           a == [i \in DOMAIN s |-> (IF i = 1 THEN << >> ELSE <<Plus>>) \o esc(i)]
           b == [i \in DOMAIN s |-> Delimited(s[i])]
<1>1. /\ Len(s) \in Nat \ {0} /\ DOMAIN s = 1..Len(s)
      /\ \A i \in 1..Len(s) : s[i] \in NodeId
  BY LenProperties, ElementOfSeq, EmptySeq
<1>2. NodeId \subseteq Seq(Token) /\ <<Plus>> \in Seq(Token) /\ << >> \in Seq(Token)
  BY IdsAssumption DEF NodeIdAssumption
<1>3. \A i \in 1..Len(s) :
        /\ esc(i) \in Seq(Token) /\ Delimited(s[i]) \in Seq(Token)
        /\ Delimited(s[i]) = esc(i) \o <<Plus>>
        /\ Delimited(s[i]) \in DelimitedSources
  <2> SUFFICES ASSUME NEW i \in 1..Len(s)
               PROVE  /\ esc(i) \in Seq(Token) /\ Delimited(s[i]) \in Seq(Token)
                      /\ Delimited(s[i]) = esc(i) \o <<Plus>>
                      /\ Delimited(s[i]) \in DelimitedSources
    OBVIOUS
  <2>1. s[i] \in NodeId /\ s[i] \in Seq(Token)
    BY <1>1, <1>2
  <2>2. esc(i) \in Seq(Token) /\ Delimited(s[i]) \in Seq(Token)
    BY <2>1, DelimitedIsFlattened
  <2>3. QED
    BY <2>1, <2>2 DEF Delimited, DelimitedSources
<1> HIDE DEF esc
<1>4. /\ a = [i \in 1..Len(s) |-> (IF i = 1 THEN << >> ELSE <<Plus>>) \o esc(i)]
      /\ b = [i \in 1..Len(s) |-> Delimited(s[i])]
  BY <1>1
<1>5. \A i \in 1..Len(s) : (IF i = 1 THEN << >> ELSE <<Plus>>) \o esc(i) \in Seq(Token)
  BY <1>2, <1>3, ConcatProperties
<1>6. /\ a \in [1..Len(s) -> Seq(Token)]
      /\ b \in [1..Len(s) -> Seq(Token)]
      /\ b \in [1..Len(s) -> DelimitedSources]
  BY <1>3, <1>4, <1>5
<1>7. /\ a \in Seq(Seq(Token)) /\ Len(a) = Len(s)
      /\ b \in Seq(Seq(Token)) /\ Len(b) = Len(s)
      /\ b \in Seq(DelimitedSources)
  <2>1. a \in Seq(Seq(Token)) /\ b \in Seq(Seq(Token)) /\ b \in Seq(DelimitedSources)
    BY <1>1, <1>6, IsASeq
  <2>2. QED
    BY <2>1, <1>1, <1>6, LenProperties
<1>8. /\ \A i \in 1..Len(s) : a[i] = (IF i = 1 THEN << >> ELSE <<Plus>>) \o esc(i)
      /\ \A i \in 1..Len(s) : b[i] = Delimited(s[i])
  BY <1>4
<1>9. FlattenSeq(a) = JoinText(s)
  BY DEF JoinText, esc
<1> HIDE DEF a, b
<1>10. FlattenSeq(a) \in Seq(Token)
  BY <1>7, FlattenType
<1>11. PICK P : /\ Flattens(P, a)
                /\ \A i \in 0..Len(a) : P[i] \in Seq(Token)
                /\ FlattenSeq(a) = P[Len(a)]
  BY <1>7, FlattenSteps
<1>12. PICK Q : /\ Flattens(Q, b)
                /\ \A i \in 0..Len(b) : Q[i] \in Seq(Token)
                /\ FlattenSeq(b) = Q[Len(b)]
  BY <1>7, FlattenSteps
<1> DEFINE T == {m \in Nat : m + 1 <= Len(s) => P[m + 1] \o <<Plus>> = Q[m + 1]}
<1>13. 0 \in T
  <2>1. 1 \in 1..Len(s) /\ 1 \in 1..Len(a) /\ 1 \in 1..Len(b) /\ 1 - 1 = 0 /\ 0 + 1 = 1
    BY <1>1, <1>7
  <2>2. P[1] = << >> \o a[1] /\ Q[1] = << >> \o b[1]
    BY <2>1, <1>11, <1>12 DEF Flattens
  <2>3. a[1] = << >> \o esc(1) /\ b[1] = esc(1) \o <<Plus>> /\ esc(1) \in Seq(Token)
        /\ b[1] \in Seq(Token)
    BY <2>1, <1>3, <1>8
  <2>4. a[1] = esc(1)
    BY <2>3, ConcatEmptySeq
  <2>5. P[1] = esc(1) /\ Q[1] = esc(1) \o <<Plus>>
    BY <2>2, <2>3, <2>4, ConcatEmptySeq
  <2>6. QED
    BY <2>1, <2>5
<1>14. ASSUME NEW m \in Nat, m \in T PROVE m + 1 \in T
  <2> DEFINE i == m + 1
             j == (m + 1) + 1
  <2> SUFFICES ASSUME j <= Len(s) PROVE P[j] \o <<Plus>> = Q[j]
    OBVIOUS
  <2>1. /\ i \in 0..Len(s) /\ j \in 1..Len(s) /\ j - 1 = i /\ j # 1 /\ i <= Len(s)
    BY <1>1
  <2>2. P[i] \o <<Plus>> = Q[i]
    BY <2>1, <1>14
  <2> HIDE DEF i, j, T
  <2>3. /\ P[j] = P[i] \o a[j] /\ P[i] \in Seq(Token)
        /\ Q[j] = Q[i] \o b[j] /\ Q[i] \in Seq(Token)
    BY <2>1, <1>7, <1>11, <1>12 DEF Flattens
  <2>4. /\ a[j] = <<Plus>> \o esc(j) /\ b[j] = esc(j) \o <<Plus>>
        /\ esc(j) \in Seq(Token)
    BY <2>1, <1>3, <1>8
  <2>5. P[i] \in Seq(Token) /\ <<Plus>> \in Seq(Token) /\ Q[i] \in Seq(Token)
    BY <2>3, <1>2
  <2>a. \A x, y, z \in Seq(Token) : (x \o y) \o z = x \o (y \o z)
    BY ConcatAssociative
  <2>b. esc(j) \in Seq(Token)
    BY <2>4
  <2>6. P[i] \o (<<Plus>> \o esc(j)) = (P[i] \o <<Plus>>) \o esc(j)
    BY <2>5, <2>a, <2>b, ZenonT(60)
  <2>7. (Q[i] \o esc(j)) \o <<Plus>> = Q[i] \o (esc(j) \o <<Plus>>)
    BY <2>5, <2>a, <2>b, Zenon
  <2>8. QED
    BY <2>2, <2>3, <2>4, <2>6, <2>7
<1> HIDE DEF T
<1>15. Nat \subseteq T
  BY <1>13, <1>14, Induction
<1>16. Len(s) - 1 \in Nat /\ (Len(s) - 1) + 1 = Len(s) /\ Len(s) <= Len(s)
  BY <1>1
<1>17. P[Len(s)] \o <<Plus>> = Q[Len(s)]
  BY <1>15, <1>16 DEF T
<1>18. FlattenSeq(a) \o <<Plus>> = FlattenSeq(b)
  BY <1>17, <1>7, <1>11, <1>12
<1>19. QED
  BY <1>7, <1>9, <1>10, <1>18 DEF b

\* Different lists of sources are written differently.
LEMMA JoinTextInjective ==
  ASSUME NEW s \in Seq(NodeId), NEW t \in Seq(NodeId), s # << >>, t # << >>,
         JoinText(s) = JoinText(t)
  PROVE  s = t
<1> DEFINE p == [i \in DOMAIN s |-> Delimited(s[i])]
           q == [i \in DOMAIN t |-> Delimited(t[i])]
<1>1. p \in Seq(DelimitedSources) /\ JoinText(s) \o <<Plus>> = FlattenSeq(p)
  BY JoinTextDelimited
<1>2. q \in Seq(DelimitedSources) /\ JoinText(t) \o <<Plus>> = FlattenSeq(q)
  BY JoinTextDelimited
<1>3. /\ Len(s) \in Nat /\ DOMAIN s = 1..Len(s) /\ \A i \in 1..Len(s) : s[i] \in NodeId
      /\ Len(t) \in Nat /\ DOMAIN t = 1..Len(t) /\ \A i \in 1..Len(t) : t[i] \in NodeId
  BY LenProperties, ElementOfSeq
<1>4. /\ \A i \in 1..Len(s) : p[i] = Delimited(s[i])
      /\ \A i \in 1..Len(t) : q[i] = Delimited(t[i])
      /\ DOMAIN p = 1..Len(s) /\ DOMAIN q = 1..Len(t)
  BY <1>3
<1> HIDE DEF p, q
<1>5. Len(p) = Len(s) /\ Len(q) = Len(t)
  BY <1>1, <1>2, <1>3, <1>4, LenProperties
<1>6. FlattenSeq(p) = FlattenSeq(q)
  BY <1>1, <1>2
<1>7. FlattenSeq(p) \in Seq(Token)
  <2>1. p \in Seq(Seq(Token))
    BY <1>1, DelimitedCode DEF PrefixFree
  <2>2. QED
    BY <2>1, FlattenType
<1>8. Opens(FlattenSeq(p), FlattenSeq(q)) /\ Opens(FlattenSeq(q), FlattenSeq(p))
  <2>1. Len(FlattenSeq(p)) \in Nat
    BY <1>7, LenProperties
  <2>2. QED
    BY <1>6, <2>1 DEF Opens
<1>9. Opens(p, q) /\ Opens(q, p)
  BY <1>1, <1>2, <1>8, DelimitedCode, PrefixCode
<1>10. Len(s) = Len(t) /\ \A i \in 1..Len(s) : p[i] = q[i]
  <2>1. Len(p) <= Len(q) /\ Len(q) <= Len(p) /\ \A i \in 1..Len(p) : p[i] = q[i]
    BY <1>9 DEF Opens
  <2>a. Len(p) \in Nat /\ Len(q) \in Nat /\ Len(p) <= Len(q) /\ Len(q) <= Len(p)
    BY <2>1, <1>3, <1>5
  <2>2. Len(p) = Len(q)
    BY <2>a
  <2>3. QED
    BY <2>1, <2>2, <1>5
<1>11. ASSUME NEW i \in 1..Len(s) PROVE s[i] = t[i]
  <2>1. Delimited(s[i]) = Delimited(t[i]) /\ s[i] \in NodeId /\ t[i] \in NodeId
    BY <1>3, <1>4, <1>10
  <2>2. s[i] \in Seq(Token) /\ t[i] \in Seq(Token)
    BY <2>1, IdsAssumption DEF NodeIdAssumption
  <2>3. Len(Delimited(s[i])) \in Nat
    BY <2>2, DelimitedIsFlattened, LenProperties
  <2>4. Opens(Delimited(s[i]), Delimited(t[i]))
    BY <2>1, <2>3 DEF Opens
  <2>5. QED
    BY <2>2, <2>4, DelimitedPrefix
<1>12. QED
  BY <1>10, <1>11, SeqEqual

\* The id of a join determines it: no two joins share one, whatever delimiters the
\* names of their sources hold.
LEMMA JoinIdInjective ==
  ASSUME NEW s \in Seq(NodeId), NEW t \in Seq(NodeId), s # << >>, t # << >>,
         NEW m \in NodeId, NEW n \in NodeId, ColonFree(m), ColonFree(n),
         JoinId(s, m) = JoinId(t, n)
  PROVE  s = t /\ m = n
<1> DEFINE S == Token \cup {"join"}
           head == <<"join", Colon>>
<1>1. Colon \in S /\ head \in Seq(S) /\ m \in Seq(Token) /\ n \in Seq(Token)
  BY IdsAssumption DEF NodeIdAssumption
<1>2. JoinText(s) \in Seq(Token) /\ JoinText(t) \in Seq(Token)
  BY JoinTextDelimited
<1>3. Seq(Token) \subseteq Seq(S)
  BY SeqMonotonic
<1>4. /\ m \in Seq(S) /\ n \in Seq(S) /\ JoinText(s) \in Seq(S) /\ JoinText(t) \in Seq(S)
  BY <1>1, <1>2, <1>3
<1>5. /\ JoinId(s, m) = ((head \o JoinText(s)) \o <<Colon>>) \o m
      /\ JoinId(t, n) = ((head \o JoinText(t)) \o <<Colon>>) \o n
  BY DEF JoinId, JoinText
<1> HIDE DEF S, head
<1> DEFINE a == head \o JoinText(s)
           b == head \o JoinText(t)
<1>6. a \in Seq(S) /\ b \in Seq(S)
  BY <1>1, <1>4, ConcatProperties
<1>7. Without(Colon, m) /\ Without(Colon, n)
  BY DEF ColonFree, Without
<1>8. (a \o <<Colon>>) \o m = (b \o <<Colon>>) \o n
  BY <1>5
<1>9. a = b /\ m = n
  <2> HIDE DEF a, b
  <2>1. Colon \in S /\ m \in Seq(S) /\ n \in Seq(S)
    BY <1>1, <1>4
  <2>2. QED
    BY <2>1, <1>6, <1>7, <1>8, LastDelimiter
<1>10. JoinText(s) = JoinText(t)
  BY <1>1, <1>4, <1>9, ConcatSimplifications
<1>11. QED
  BY <1>9, <1>10, JoinTextInjective

-------------------------------------------------------------------------------
(* Edges.                                                                   *)

\* The id of an edge determines it: no two edges of a graph share one.
LEMMA EdgeIdInjective ==
  ASSUME NEW s \in NodeId, NEW t \in NodeId, NEW u \in NodeId, NEW v \in NodeId,
         ColonFree(s), ColonFree(t), ColonFree(u), ColonFree(v),
         NEW kind \in {"direct", "conditional"}, NEW sort \in {"direct", "conditional"},
         NEW k \in Nat, NEW l \in Nat,
         EdgeDocument(s, t, kind, k).id = EdgeDocument(u, v, sort, l).id
  PROVE  s = u /\ t = v /\ kind = sort /\ k = l
<1> DEFINE S == Token \cup {"edge", "direct", "conditional", "1"}
           head == <<"edge", Colon>>
           d == <<Colon>>
           m == Numeral(k)
           n == Numeral(l)
           first == <<kind, Colon>>
           second == <<sort, Colon>>
<1>1. /\ Colon \in S /\ head \in Seq(S) /\ d \in Seq(S)
      /\ first \in Seq(S) /\ second \in Seq(S)
  BY IdsAssumption DEF NodeIdAssumption
<1>2. \A x \in NodeId : x \in Seq(S)
  <2>1. Seq(Token) \subseteq Seq(S)
    BY SeqMonotonic
  <2>2. QED
    BY <2>1, IdsAssumption DEF NodeIdAssumption
<1>3. /\ m \in Seq(S) /\ Len(m) = k
      /\ n \in Seq(S) /\ Len(n) = l
  <2>1. \A j \in Nat : Numeral(j) \in Seq(S) /\ Len(Numeral(j)) = j
    BY DEF Numeral
  <2>2. QED
    BY <2>1
<1>4. /\ EdgeDocument(s, t, kind, k).id
           = ((((head \o s) \o d) \o t) \o <<Colon, kind, Colon>>) \o m
      /\ EdgeDocument(u, v, sort, l).id
           = ((((head \o u) \o d) \o v) \o <<Colon, sort, Colon>>) \o n
  BY DEF EdgeDocument
<1>5. <<Colon, kind, Colon>> = d \o first /\ <<Colon, sort, Colon>> = d \o second
  OBVIOUS
<1> HIDE DEF S, head, m, n, first, second
<1>6. \A x, y \in Seq(S) : x \o y \in Seq(S)
  BY ConcatProperties
<1> DEFINE a == (t \o d) \o (first \o m)
           b == (v \o d) \o (second \o n)
<1>8. head \o ((s \o d) \o a) = head \o ((u \o d) \o b)
  <2> HIDE DEF d
  <2>1. /\ head \in Seq(S) /\ s \in Seq(S) /\ d \in Seq(S) /\ t \in Seq(S)
        /\ first \in Seq(S) /\ m \in Seq(S)
    BY <1>1, <1>2, <1>3
  <2>a. Concatenated(Seq(S))
    BY Associative
  <2>2. ((((head \o s) \o d) \o t) \o (d \o first)) \o m = head \o ((s \o d) \o a)
    <3>1. Cat(Cat(Cat(Cat(Cat(head, s), d), t), Cat(d, first)), m)
            = Cat(head, Cat(Cat(s, d), Cat(Cat(t, d), Cat(first, m))))
      BY <2>1, <2>a, Regrouped
    <3>2. QED
      BY <3>1, Zenon DEF Cat
  <2>3. /\ head \in Seq(S) /\ u \in Seq(S) /\ d \in Seq(S) /\ v \in Seq(S)
        /\ second \in Seq(S) /\ n \in Seq(S)
    BY <1>1, <1>2, <1>3
  <2>4. ((((head \o u) \o d) \o v) \o (d \o second)) \o n = head \o ((u \o d) \o b)
    <3>1. Cat(Cat(Cat(Cat(Cat(head, u), d), v), Cat(d, second)), n)
            = Cat(head, Cat(Cat(u, d), Cat(Cat(v, d), Cat(second, n))))
      BY <2>3, <2>a, Regrouped, SMTT(60)
    <3>2. QED
      BY <3>1, Zenon DEF Cat
  <2>5. QED
    BY <2>2, <2>4, <1>4, <1>5, Zenon
<1>9. /\ s \in Seq(S) /\ t \in Seq(S) /\ u \in Seq(S) /\ v \in Seq(S)
      /\ first \o m \in Seq(S) /\ second \o n \in Seq(S)
      /\ a \in Seq(S) /\ b \in Seq(S)
      /\ (s \o d) \o a \in Seq(S) /\ (u \o d) \o b \in Seq(S)
  <2>1. /\ s \in Seq(S) /\ t \in Seq(S) /\ u \in Seq(S) /\ v \in Seq(S)
    BY <1>2
  <2> HIDE DEF d
  <2>2. QED
    BY <2>1, <1>1, <1>3, <1>6
<1>10. \A w : ColonFree(w) => Without(Colon, w)
  BY DEF ColonFree, Without
<1>11. (s \o d) \o a = (u \o d) \o b
  <2> DEFINE x == (s \o d) \o a
             y == (u \o d) \o b
  <2>1. x \in Seq(S) /\ y \in Seq(S) /\ head \in Seq(S) /\ head \o x = head \o y
    BY <1>1, <1>8, <1>9
  <2> HIDE DEF x, y
  <2>2. x = y
    BY <2>1, ConcatSimplifications
  <2>3. QED
    BY <2>2 DEF x, y
<1>12. s = u /\ a = b
  <2> HIDE DEF a, b
  <2>1. Without(Colon, s) /\ Without(Colon, u) /\ Colon \in S
    BY <1>1, <1>10
  <2>2. QED
    BY <2>1, <1>9, <1>11, FirstDelimiter
<1>13. t = v /\ first \o m = second \o n
  <2> DEFINE x == first \o m
             y == second \o n
  <2>1. (t \o d) \o x = (v \o d) \o y /\ x \in Seq(S) /\ y \in Seq(S)
    BY <1>9, <1>12
  <2> HIDE DEF x, y
  <2>2. Without(Colon, t) /\ Without(Colon, v) /\ Colon \in S /\ t \in Seq(S) /\ v \in Seq(S)
    BY <1>1, <1>9, <1>10
  <2>3. t = v /\ x = y
    BY <2>1, <2>2, FirstDelimiter
  <2>4. QED
    BY <2>3 DEF x, y
<1>14. /\ Len(first) = 2 /\ first[1] = kind /\ Len(second) = 2 /\ second[1] = sort
  BY DEF first, second
<1>15. /\ Len(first \o m) = 2 + k /\ (first \o m)[1] = kind
       /\ Len(second \o n) = 2 + l /\ (second \o n)[1] = sort
  <2>1. /\ Len(first \o m) = Len(first) + Len(m)
        /\ \A i \in 1..Len(first) : (first \o m)[i] = first[i]
    BY <1>1, <1>3, Joined, ZenonT(60)
  <2>2. /\ Len(second \o n) = Len(second) + Len(n)
        /\ \A i \in 1..Len(second) : (second \o n)[i] = second[i]
    BY <1>1, <1>3, Joined, ZenonT(60)
  <2>3. QED
    BY <2>1, <2>2, <1>3, <1>14
<1>16. QED
  BY <1>12, <1>13, <1>15

-------------------------------------------------------------------------------
(* The sources of a join, in order.                                         *)

Distinct(s) == \A p, q \in DOMAIN s : s[p] = s[q] => p = q

\* Sorting distinct node ids permutes them.
LEMMA InOrderSorts ==
  ASSUME NEW s \in Seq(NodeId), Distinct(s)
  PROVE  /\ InOrder(s) \in Seq(NodeId) /\ Len(s) \in Nat /\ Len(InOrder(s)) = Len(s)
         /\ Distinct(InOrder(s))
         /\ \A i \in 1..Len(s) : \E k \in 1..Len(s) : InOrder(s)[i] = s[k]
<1> DEFINE n == Len(s)
           r == [k \in 1..n |-> Rank[s[k]]]
           elements == {s[k] : k \in DOMAIN s}
           Placed(v, i) == /\ Cardinality({k \in DOMAIN s : Rank[s[k]] < Rank[v]}) < i
                           /\ Cardinality({k \in DOMAIN s : Rank[s[k]] <= Rank[v]}) >= i
<1>1. n \in Nat /\ DOMAIN s = 1..n /\ \A k \in 1..n : s[k] \in NodeId
  BY LenProperties, ElementOfSeq
<1>2. /\ Rank \in [NodeId -> Nat]
      /\ \A u, v \in NodeId : Rank[u] = Rank[v] => u = v
  BY IdsAssumption DEF NodeIdAssumption
<1>3. r \in [1..n -> Nat] /\ \A k \in 1..n : r[k] = Rank[s[k]]
  BY <1>1, <1>2
<1>4. DistinctRanks(r, n)
  BY <1>1, <1>2, <1>3 DEF Distinct, DistinctRanks
<1>5. ASSUME NEW v
      PROVE  /\ {k \in DOMAIN s : Rank[s[k]] < Rank[v]} = RankedBelow(r, n, Rank[v])
             /\ {k \in DOMAIN s : Rank[s[k]] <= Rank[v]} = RankedUpto(r, n, Rank[v])
  <2> HIDE DEF r, n
  <2>1. QED
    BY <1>1, <1>3 DEF RankedBelow, RankedUpto
<1> DEFINE choice(i) == CHOOSE v \in elements : Placed(v, i)
<1>6. InOrder(s) = [i \in 1..n |-> choice(i)]
  <2>1. InOrder(s) = [i \in DOMAIN s |-> choice(i)]
    BY DEF InOrder
  <2> HIDE DEF choice
  <2>2. QED
    BY <2>1, <1>1
<1> HIDE DEF choice
<1>7. DOMAIN InOrder(s) = 1..n /\ \A i \in 1..n : InOrder(s)[i] = choice(i)
  BY <1>6
<1> HIDE DEF n, r
<1>8. ASSUME NEW i \in 1..n
      PROVE  /\ \E k \in 1..n : InOrder(s)[i] = s[k]
             /\ Placed(InOrder(s)[i], i)
  <2>1. PICK k \in 1..n : /\ Cardinality(RankedBelow(r, n, r[k])) < i
                          /\ Cardinality(RankedUpto(r, n, r[k])) >= i
    BY <1>1, <1>3, PlaceIsTaken
  <2>2. s[k] \in elements /\ Placed(s[k], i)
    BY <2>1, <1>1, <1>3, <1>5
  <2> HIDE DEF Placed, elements
  <2>3. \E v \in elements : Placed(v, i)
    BY <2>2
  <2>4. (CHOOSE v \in elements : Placed(v, i)) \in elements
        /\ Placed(CHOOSE v \in elements : Placed(v, i), i)
    BY <2>3
  <2>5. InOrder(s)[i] \in elements /\ Placed(InOrder(s)[i], i)
    BY <2>4, <1>7 DEF choice
  <2>6. QED
    BY <2>5, <1>1 DEF elements
<1>9. ASSUME NEW i \in 1..n PROVE InOrder(s)[i] \in NodeId
  BY <1>1, <1>8
<1>10. InOrder(s) \in Seq(NodeId) /\ Len(InOrder(s)) = n
  <2>1. \A i \in 1..n : choice(i) \in NodeId
    BY <1>7, <1>9
  <2>2. InOrder(s) \in [1..n -> NodeId]
    BY <2>1, <1>6
  <2>3. InOrder(s) \in Seq(NodeId)
    BY <2>2, <1>1, IsASeq
  <2>4. QED
    BY <2>2, <2>3, <1>1, LenProperties
<1>11. ASSUME NEW i \in 1..n, NEW j \in 1..n, InOrder(s)[i] = InOrder(s)[j]
       PROVE  i = j
  <2>1. PICK k \in 1..n : InOrder(s)[i] = s[k]
    BY <1>8
  <2> DEFINE below == Cardinality(RankedBelow(r, n, r[k]))
             upto == Cardinality(RankedUpto(r, n, r[k]))
  <2>2. Placed(s[k], i) /\ Placed(s[k], j)
    <3> HIDE DEF Placed
    <3>1. QED
      BY <2>1, <1>8, <1>11
  <2>3. below < i /\ upto >= i /\ below < j /\ upto >= j
    BY <2>2, <1>3, <1>5
  <2>4. upto = below + 1
    BY <1>1, <1>3, <1>4, PlacesDiffer
  <2>5. below \in Nat
    BY <1>1, RankedCount
  <2> HIDE DEF below, upto
  <2>6. i \in Nat /\ j \in Nat
    BY <1>1
  <2>7. QED
    BY <2>3, <2>4, <2>5, <2>6
<1>12. QED
  BY <1>1, <1>7, <1>8, <1>10, <1>11 DEF Distinct, n

-------------------------------------------------------------------------------
(* The structure of one graph passes its checks.                            *)

\* The joins of c have at least two sources, each once.
Barriers(c) == \A j \in c.joins : Len(j[1]) >= 2 /\ Distinct(j[1])

\* Conditional edges lead from a drawn node to a drawn node.
LEMMA TargetsAreDrawn ==
  ASSUME NEW c \in CompiledGraph, WellFormed(c), NEW s \in NodeId,
         NEW i \in DOMAIN ConditionalTargets(c, s)
  PROVE  s \in c.drawn /\ ConditionalTargets(c, s)[i] \in c.drawn
<1> DEFINE D == IF s \in c.drawn THEN c.drawn ELSE {}
           Declared(ends) == IF ends = UnknownEnds THEN << >> ELSE ends
           parts == [k \in DOMAIN c.branches[s] |-> Declared(c.branches[s][k])]
           targets == c.ends[s].targets
<1>1. /\ c.branches[s] \in Seq(Seq(NodeId) \cup {UnknownEnds}) /\ targets \in Seq(NodeId)
      /\ UnknownEnds \notin Seq(NodeId)
  BY ProgramsAlike DEF CompiledGraph, ParityAssumption
<1>2. /\ Len(c.branches[s]) \in Nat /\ DOMAIN c.branches[s] = 1..Len(c.branches[s])
      /\ \A k \in DOMAIN c.branches[s] : c.branches[s][k] \in Seq(NodeId) \cup {UnknownEnds}
  BY <1>1, LenProperties, ElementOfSeq
<1>3. Closed(c)
  BY DEF WellFormed
<1>a. ASSUME NEW q \in Seq(NodeId), \A k \in DOMAIN q : q[k] \in D PROVE q \in Seq(D)
  <2>1. Len(q) \in Nat /\ DOMAIN q = 1..Len(q) /\ q = [k \in 1..Len(q) |-> q[k]]
    BY LenProperties
  <2> HIDE DEF D
  <2>2. q \in [1..Len(q) -> D]
    BY <2>1, <1>a
  <2>3. QED
    BY <2>1, <2>2, IsASeq
<1>4. targets \in Seq(D)
  <2>1. \A k \in DOMAIN targets : targets[k] \in D
    BY <1>3 DEF Closed
  <2> HIDE DEF D, targets
  <2>2. QED
    BY <2>1, <1>1, <1>a
<1>5. ASSUME NEW k \in DOMAIN c.branches[s] PROVE Declared(c.branches[s][k]) \in Seq(D)
  <2>1. CASE c.branches[s][k] = UnknownEnds
    <3>1. << >> \in Seq(D)
      OBVIOUS
    <3>2. QED
      BY <2>1, <3>1
  <2>2. CASE c.branches[s][k] # UnknownEnds
    <3>1. c.branches[s][k] \in Seq(NodeId)
      BY <1>2, <2>2
    <3>2. \A m \in DOMAIN c.branches[s][k] : c.branches[s][k][m] \in D
      BY <1>3, <2>2 DEF Closed
    <3>3. Declared(c.branches[s][k]) = c.branches[s][k]
      BY <2>2
    <3> HIDE DEF D, Declared
    <3>4. QED
      BY <3>1, <3>2, <3>3, <1>a
  <2>3. QED
    BY <2>1, <2>2
<1>6. ConditionalTargets(c, s) = FlattenSeq(parts) \o targets
  BY DEF ConditionalTargets
<1> HIDE DEF D, Declared, targets
<1>7. parts \in Seq(Seq(D))
  <2>1. parts \in [1..Len(c.branches[s]) -> Seq(D)]
    BY <1>2, <1>5
  <2>2. QED
    BY <2>1, <1>2, IsASeq
<1> HIDE DEF parts
<1>8. FlattenSeq(parts) \in Seq(D)
  BY <1>7, FlattenType
<1>9. ConditionalTargets(c, s) \in Seq(D)
  BY <1>4, <1>6, <1>8, ConcatProperties
<1>10. ConditionalTargets(c, s)[i] \in D
  BY <1>9, ElementOfSeq, LenProperties
<1>11. QED
  BY <1>10 DEF D

\* Every edge is made of two drawn nodes, its kind and its number.
LEMMA EdgeOfDrawn ==
  ASSUME NEW c \in CompiledGraph, WellFormed(c), NEW x \in EdgeDocuments(c)
  PROVE  \E s \in c.drawn, t \in c.drawn, kind \in {"direct", "conditional"}, k \in Nat :
           x = EdgeDocument(s, t, kind, k)
<1>1. Closed(c) /\ c.edges \subseteq NodeId \X NodeId
  BY DEF WellFormed, CompiledGraph
<1>2. ASSUME NEW e \in c.edges, x = EdgeDocument(e[1], e[2], "direct", 1)
      PROVE  \E s \in c.drawn, t \in c.drawn, kind \in {"direct", "conditional"}, k \in Nat :
               x = EdgeDocument(s, t, kind, k)
  <2>1. e[1] \in c.drawn /\ e[2] \in c.drawn
    BY <1>1 DEF Closed
  <2>2. QED
    BY <2>1, <1>2
<1>3. ASSUME NEW s \in NodeId, NEW t \in NodeId, NEW k \in 1..Times(c, s, t),
             x = EdgeDocument(s, t, "conditional", k)
      PROVE  \E u \in c.drawn, v \in c.drawn, kind \in {"direct", "conditional"}, l \in Nat :
               x = EdgeDocument(u, v, kind, l)
  <2> DEFINE at == {i \in DOMAIN ConditionalTargets(c, s) : ConditionalTargets(c, s)[i] = t}
  <2>1. at # {}
    <3>1. Times(c, s, t) = Cardinality(at)
      BY DEF Times
    <3>2. at = {} => Times(c, s, t) = 0
      BY <3>1, FS_EmptySet
    <3>3. 1..0 = {}
      OBVIOUS
    <3> HIDE DEF at
    <3>4. QED
      BY <3>2, <3>3
  <2>2. PICK i \in DOMAIN ConditionalTargets(c, s) : ConditionalTargets(c, s)[i] = t
    BY <2>1
  <2>3. s \in c.drawn /\ t \in c.drawn
    BY <2>2, TargetsAreDrawn
  <2>4. k \in Nat
    OBVIOUS
  <2>5. QED
    BY <2>3, <2>4, <1>3
<1>4. QED
  BY <1>2, <1>3, EdgesOfGraph

\* Every join is made of drawn sources, each once, and a drawn target.
LEMMA JoinOfDrawn ==
  ASSUME NEW c \in CompiledGraph, WellFormed(c), Barriers(c), NEW x \in JoinDocuments(c)
  PROVE  /\ x.sources \in Seq(NodeId) /\ Len(x.sources) >= 2 /\ Distinct(x.sources)
         /\ \A i \in DOMAIN x.sources : x.sources[i] \in c.drawn
         /\ x.target \in c.drawn
         /\ x = [id |-> JoinId(x.sources, x.target), sources |-> x.sources, target |-> x.target]
<1>1. PICK j \in c.joins : x = [id      |-> JoinId(SortedSources(j[1]), j[2]),
                               sources |-> SortedSources(j[1]),
                               target  |-> j[2]]
  BY DEF JoinDocuments
<1>2. /\ j[1] \in Seq(NodeId) /\ Len(j[1]) >= 2 /\ Distinct(j[1])
      /\ j[2] \in c.drawn /\ \A i \in DOMAIN j[1] : j[1][i] \in c.drawn
  BY DEF CompiledGraph, WellFormed, Closed, Barriers
<1> DEFINE sorted == InOrder(j[1])
<1>3. /\ sorted \in Seq(NodeId) /\ Len(j[1]) \in Nat /\ Len(sorted) = Len(j[1])
      /\ Distinct(sorted)
      /\ \A i \in 1..Len(j[1]) : \E k \in 1..Len(j[1]) : sorted[i] = j[1][k]
  BY <1>2, InOrderSorts
<1>4. x.sources = sorted /\ x.target = j[2] /\ x.id = JoinId(sorted, j[2])
  BY <1>1 DEF SortedSources
<1> HIDE DEF sorted
<1>5. DOMAIN j[1] = 1..Len(j[1]) /\ DOMAIN sorted = 1..Len(j[1])
  BY <1>2, <1>3, LenProperties
<1>6. ASSUME NEW i \in DOMAIN sorted PROVE sorted[i] \in c.drawn
  <2>1. i \in 1..Len(j[1])
    BY <1>5
  <2>2. PICK k \in 1..Len(j[1]) : sorted[i] = j[1][k]
    BY <2>1, <1>3
  <2>3. k \in DOMAIN j[1]
    BY <1>5
  <2>4. j[1][k] \in c.drawn
    BY <2>3, <1>2
  <2>5. QED
    BY <2>2, <2>4
<1>7. QED
  BY <1>1, <1>2, <1>3, <1>4, <1>6 DEF SortedSources, sorted

\* No two elements of the structure share an id, and what it refers to is there.
LEMMA StructureIsValid ==
  ASSUME NEW c \in CompiledGraph, WellFormed(c), Barriers(c), \A n \in c.drawn : ColonFree(n)
  PROVE  LET s == Structure(c) IN
         /\ Duplicates(s.nodes) = {} /\ Duplicates(s.edges) = {} /\ Duplicates(s.joins) = {}
         /\ NodeReferences(s) \subseteq NodeIdsOf(s)
         /\ NodeIdsOf(s) = c.drawn
         /\ \A j \in s.joins : Len(j.sources) >= 2 /\ Distinct(j.sources)
<1> DEFINE s == Structure(c)
<1>1. /\ s.nodes = {NodeDocument(c, n) : n \in c.drawn}
      /\ s.edges = EdgeDocuments(c) /\ s.joins = JoinDocuments(c)
      /\ s.entryNodeIds \subseteq c.drawn /\ s.exitNodeIds \subseteq c.drawn
  BY DEF Structure
<1>2. \A n : NodeDocument(c, n).id = n
  BY DEF NodeDocument
<1> HIDE DEF s
<1>3. NodeIdsOf(s) = c.drawn
  BY <1>1, <1>2 DEF NodeIdsOf
<1>4. Duplicates(s.nodes) = {}
  BY <1>1, <1>2 DEF Duplicates
<1>a. c.drawn \subseteq NodeId
  BY DEF CompiledGraph
<1>5. Duplicates(s.edges) = {}
  <2> SUFFICES ASSUME NEW x \in EdgeDocuments(c), NEW y \in EdgeDocuments(c), x.id = y.id
               PROVE  x = y
    BY <1>1 DEF Duplicates
  <2>1. PICK u \in c.drawn, v \in c.drawn, kind \in {"direct", "conditional"}, k \in Nat :
          x = EdgeDocument(u, v, kind, k)
    BY EdgeOfDrawn
  <2>2. PICK m \in c.drawn, n \in c.drawn, sort \in {"direct", "conditional"}, l \in Nat :
          y = EdgeDocument(m, n, sort, l)
    BY EdgeOfDrawn
  <2>3. EdgeDocument(u, v, kind, k).id = EdgeDocument(m, n, sort, l).id
    BY <2>1, <2>2
  <2>4. u = m /\ v = n /\ kind = sort /\ k = l
    <3>1. /\ u \in NodeId /\ v \in NodeId /\ m \in NodeId /\ n \in NodeId
          /\ ColonFree(u) /\ ColonFree(v) /\ ColonFree(m) /\ ColonFree(n)
      BY <1>a
    <3>2. QED
      BY <3>1, <2>3, EdgeIdInjective
  <2>5. QED
    BY <2>1, <2>2, <2>4
<1>6. \A x \in s.joins :
        /\ x.sources \in Seq(NodeId) /\ Len(x.sources) >= 2 /\ Distinct(x.sources)
        /\ \A i \in DOMAIN x.sources : x.sources[i] \in c.drawn
        /\ x.target \in c.drawn
        /\ x = [id |-> JoinId(x.sources, x.target), sources |-> x.sources, target |-> x.target]
  BY <1>1, JoinOfDrawn
<1>7. Duplicates(s.joins) = {}
  <2> SUFFICES ASSUME NEW x \in s.joins, NEW y \in s.joins, x.id = y.id
               PROVE  x = y
    BY DEF Duplicates
  <2>1. JoinId(x.sources, x.target) = JoinId(y.sources, y.target)
    BY <1>6
  <2>2. /\ x.sources \in Seq(NodeId) /\ y.sources \in Seq(NodeId)
        /\ x.target \in NodeId /\ y.target \in NodeId
        /\ ColonFree(x.target) /\ ColonFree(y.target)
    BY <1>6, <1>a
  <2>3. x.sources # << >> /\ y.sources # << >>
    <3>1. Len(<< >>) = 0
      OBVIOUS
    <3>2. QED
      BY <3>1, <1>6
  <2>4. x.sources = y.sources /\ x.target = y.target
    BY <2>1, <2>2, <2>3, JoinIdInjective
  <2>5. QED
    BY <2>4, <1>6
<1>8. \A e \in s.edges : e.source \in c.drawn /\ e.target \in c.drawn
  <2> SUFFICES ASSUME NEW e \in EdgeDocuments(c) PROVE e.source \in c.drawn /\ e.target \in c.drawn
    BY <1>1
  <2>1. PICK u \in c.drawn, v \in c.drawn, kind \in {"direct", "conditional"}, k \in Nat :
          e = EdgeDocument(u, v, kind, k)
    BY EdgeOfDrawn
  <2>2. QED
    BY <2>1 DEF EdgeDocument
<1>9. NodeReferences(s) \subseteq c.drawn
  <2> SUFFICES ASSUME NEW x \in NodeReferences(s) PROVE x \in c.drawn
    OBVIOUS
  <2> DEFINE Of(j) == {j.sources[i] : i \in DOMAIN j.sources}
  <2>1. \/ x \in {e.source : e \in s.edges} \/ x \in {e.target : e \in s.edges}
        \/ x \in {j.target : j \in s.joins}
        \/ x \in s.entryNodeIds \/ x \in s.exitNodeIds
        \/ \E j \in s.joins : x \in Of(j)
    BY DEF NodeReferences
  <2>2. \A j \in s.joins : Of(j) \subseteq c.drawn
    BY <1>6
  <2> HIDE DEF Of
  <2>3. QED
    BY <2>1, <2>2, <1>1, <1>6, <1>8
<1>10. QED
  BY <1>3, <1>4, <1>5, <1>6, <1>7, <1>9 DEF s

-------------------------------------------------------------------------------
(* The document passes the validator.                                       *)

\* A gap of the output names a drawn node of one of the documents.
LEMMA GapNamesNode ==
  ASSUME DescribeInv, NEW g \in output.gaps
  PROVE  \E i \in DOMAIN docs : docs[i].id = g.graph /\ g.node \in Contents(docs[i]).drawn
<1>1. OutcomeInv /\ GraphIdsUnique /\ GapsInv /\ Refusals /\ TypeOK
  BY DEF DescribeInv, OutcomeInv, RecursionSafe, TypeInv
<1>2. g \in AllGaps /\ g.code \in {Routing, Collision} /\ g.node \in NodeId
      /\ g = Gap(g.code, g.graph, g.node)
  <2>1. g \in AllGaps /\ g \in GapType
    BY <1>1 DEF AllGaps, TypeOK
  <2>2. QED
    BY <2>1 DEF GapType, GapCode, Routing, Collision, Gap
<1>3. CASE g.code = Routing
  <2>1. PICK i \in DOMAIN docs : g \in RouterGaps(docs[i].id, docs[i].obj)
    BY <1>1, <1>2, <1>3 DEF GapsInv
  <2>2. g.graph = docs[i].id /\ g.node \in UnknownRouters(Contents(docs[i]))
    BY <2>1 DEF RouterGaps, Contents
  <2>3. Closed(Contents(docs[i]))
    BY <1>1, ContentsType DEF WellFormed
  <2>4. g.node \in Contents(docs[i]).drawn
    BY <2>2, <2>3 DEF Closed, UnknownRouters
  <2>5. QED
    BY <2>2, <2>4
<1>4. CASE g.code = Collision
  <2>1. PICK i \in DOMAIN docs : docs[i].id = g.graph
    BY <1>1, <1>2 DEF GraphIdsUnique, GapsInv
  <2>2. Reported(i, g.node)
    BY <2>1, <1>2, <1>4 DEF Reported
  <2>3. ChildOf(docs[i], g.node) # NoChild
    BY <2>2, <1>1, <1>2 DEF Refusals
  <2>4. g.node \in Contents(docs[i]).runtime
    BY <2>3 DEF ChildOf, Contents, MappedCompiledChild, DirectBoundChild, DeclaredChild,
                RuntimeMapped
  <2>5. Contents(docs[i]).runtime \subseteq Contents(docs[i]).drawn
    BY <1>1, ContentsType DEF WellFormed
  <2>6. QED
    BY <2>1, <2>4, <2>5
<1>5. QED
  BY <1>2, <1>3, <1>4

\* With the delimiter reserved and real barriers, the structure of every document
\* is valid.
LEMMA StructuresAreValid ==
  ASSUME OutcomeInv, JoinsAreBarriers, DelimiterReserved(world), NEW i \in DOMAIN docs
  PROVE  LET c == Contents(docs[i]) IN
         /\ c \in CompiledGraph /\ WellFormed(c) /\ Barriers(c)
         /\ \A n \in c.drawn : ColonFree(n)
<1> DEFINE c == Contents(docs[i])
<1>1. c \in CompiledGraph /\ WellFormed(c) /\ docs[i].obj \in Graph
  BY ContentsType DEF DocumentType
<1>2. c = world[docs[i].obj] /\ world \in World
  BY DEF Contents, OutcomeInv, RecursionSafe, TypeInv, TypeOK
<1>3. Barriers(c)
  BY <1>1, <1>2 DEF JoinsAreBarriers, Barriers, Distinct
<1>4. c.drawn = c.nodes \cup {START, END} /\ c.runtime = c.nodes \cup {START}
  BY <1>1, <1>2, ProgramsAlike DEF ParityAssumption, Alike, WellFormed
<1>5. \A n \in c.runtime : ColonFree(n)
  BY <1>1, <1>2 DEF DelimiterReserved
<1>6. ColonFree(END)
  BY IdsAssumption DEF NodeIdAssumption
<1>7. QED
  BY <1>1, <1>3, <1>4, <1>5, <1>6

\* The document of any extraction passes the validator of the spec package, for
\* every program of real barriers: the ids made by concatenation are distinct, no
\* matter which names hold a '+' or a '\', and every reference resolves
\* (_describe.py, validation.py).
THEOREM OutputIsValid == Spec => []OutputPassesValidation
<1>1. ASSUME DescribeInv, NothingDropped, Ended, JoinsAreBarriers, DelimiterReserved(world)
      PROVE  ValidateDocument(TopologyDocument) = {}
  <2> DEFINE d == TopologyDocument
  <2>1. OutcomeInv /\ GraphIdsUnique /\ ReferencesResolve /\ output.graphs = DOMAIN docs
    BY <1>1 DEF DescribeInv, OutcomeInv, RecursionSafe, NothingDropped
  <2>2. DOMAIN docs \subseteq Nat
    BY <2>1, LenProperties DEF OutcomeInv, RecursionSafe, TypeInv, TypeOK
  <2>3. /\ d.graphs = [i \in DOMAIN docs |-> GraphDocument(docs[i])]
        /\ d.status = IF output.gaps = {} THEN "complete" ELSE "incomplete"
        /\ d.gaps = {[graphId |-> g.graph, kind |-> "node", id |-> g.node] : g \in output.gaps}
    BY <2>1 DEF TopologyDocument
  <2> HIDE DEF d
  <2>4. DOMAIN d.graphs = DOMAIN docs
    BY <2>3
  <2>5. \A i \in DOMAIN docs : /\ d.graphs[i].id = docs[i].id
                               /\ d.graphs[i].structure = Structure(Contents(docs[i]))
                               /\ d.graphs[i].sub = docs[i].sub
    BY <2>3 DEF GraphDocument
  <2>6. ASSUME NEW i \in DOMAIN docs
        PROVE  LET s == d.graphs[i].structure IN
               /\ Duplicates(s.nodes) = {} /\ Duplicates(s.edges) = {}
               /\ Duplicates(s.joins) = {}
               /\ NodeReferences(s) \subseteq NodeIdsOf(s)
               /\ NodeIdsOf(s) = Contents(docs[i]).drawn
               /\ \A j \in s.joins : Len(j.sources) >= 2 /\ Distinct(j.sources)
    <3>1. \E c : c = Contents(docs[i])
      OBVIOUS
    <3>2. PICK c : c = Contents(docs[i])
      BY <3>1
    <3>3. c \in CompiledGraph /\ WellFormed(c) /\ Barriers(c) /\ \A n \in c.drawn : ColonFree(n)
      BY <3>2, <2>1, <1>1, StructuresAreValid
    <3>4. d.graphs[i].structure = Structure(c)
      BY <3>2, <2>5
    <3>5. QED
      BY <3>2, <3>3, <3>4, StructureIsValid
  <2>7. JoinSchemaErrors(d) = {}
    <3> DEFINE Bad(i) == {x \in d.graphs[i].structure.joins :
                            \/ Len(x.sources) < 2
                            \/ \E p, q \in DOMAIN x.sources :
                                 p # q /\ x.sources[p] = x.sources[q]}
               Errors(i) == {<<"sources", j.id>> : j \in Bad(i)}
    <3>1. ASSUME NEW i \in DOMAIN docs PROVE Bad(i) = {}
      <4> SUFFICES ASSUME NEW x \in d.graphs[i].structure.joins
                   PROVE  /\ ~(Len(x.sources) < 2)
                          /\ \A p, q \in DOMAIN x.sources :
                               x.sources[p] = x.sources[q] => p = q
        OBVIOUS
      <4>1. Len(x.sources) >= 2 /\ Distinct(x.sources) /\ Len(x.sources) \in Nat
        <5>. HIDE DEF Bad, Errors
        <5>1. \A c : Structure(c).joins = JoinDocuments(c)
          BY DEF Structure
        <5>2. d.graphs[i].structure = Structure(Contents(docs[i]))
          BY <2>5
        <5>3. x \in JoinDocuments(Contents(docs[i]))
          BY <5>1, <5>2
        <5>4. \E c : c = Contents(docs[i])
          OBVIOUS
        <5>5. PICK c : c = Contents(docs[i])
          BY <5>4
        <5>6. c \in CompiledGraph /\ WellFormed(c) /\ Barriers(c)
          BY <5>5, <2>1, <1>1, StructuresAreValid
        <5>7. x.sources \in Seq(NodeId) /\ Len(x.sources) >= 2 /\ Distinct(x.sources)
          BY <5>3, <5>5, <5>6, JoinOfDrawn
        <5>8. QED
          BY <5>7, LenProperties
      <4>2. QED
        BY <4>1 DEF Distinct
    <3>2. JoinSchemaErrors(d) = UNION {Errors(i) : i \in DOMAIN docs}
      BY <2>4 DEF JoinSchemaErrors
    <3>3. \A i \in DOMAIN docs : Errors(i) = {}
      <4> HIDE DEF Bad
      <4>1. QED
        BY <3>1
    <3> HIDE DEF Errors
    <3>4. QED
      BY <3>2, <3>3
  <2>8. DuplicateGraphIds(d.graphs) = {}
    <3>1. \A i, k \in DOMAIN docs : docs[i].id = docs[k].id => i = k
      BY <2>1 DEF GraphIdsUnique
    <3>2. QED
      BY <3>1, <2>4, <2>5 DEF DuplicateGraphIds
  <2>9. StatusErrors(d) = {}
    <3>1. d.gaps = {} <=> output.gaps = {}
      BY <2>3
    <3>2. QED
      BY <3>1, <2>3 DEF StatusErrors
  <2>10. GapErrors(d) = {}
    <3> SUFFICES ASSUME NEW x \in d.gaps
                 PROVE  \E i \in DOMAIN d.graphs :
                          /\ d.graphs[i].id = x.graphId
                          /\ \A k \in DOMAIN d.graphs : d.graphs[k].id = x.graphId => k <= i
                          /\ x.id \in ElementIds(d.graphs[i], x.kind)
      BY ZenonT(60) DEF GapErrors
    <3>1. PICK g \in output.gaps : x = [graphId |-> g.graph, kind |-> "node", id |-> g.node]
      BY <2>3
    <3>2. PICK i \in DOMAIN docs : docs[i].id = g.graph /\ g.node \in Contents(docs[i]).drawn
      BY <1>1, GapNamesNode
    <3>3. \A k \in DOMAIN docs : docs[k].id = g.graph => k <= i
      <4>1. \A k \in DOMAIN docs : docs[k].id = g.graph => k = i
        BY <2>1, <3>2 DEF GraphIdsUnique
      <4>2. i <= i
        BY <2>2
      <4>3. QED
        BY <4>1, <4>2
    <3>4. g.node \in NodeIdsOf(d.graphs[i].structure)
      BY <2>6, <3>2
    <3>5. \A graph : ElementIds(graph, "node") = NodeIdsOf(graph.structure)
      BY DEF ElementIds
    <3>6. x.graphId = g.graph /\ x.kind = "node" /\ x.id = g.node
      BY <3>1
    <3>7. QED
      BY <3>2, <3>3, <3>4, <3>5, <3>6, <2>4, <2>5
  <2> DEFINE ids == {d.graphs[i].id : i \in DOMAIN d.graphs}
  <2>11. ASSUME NEW i \in DOMAIN docs PROVE GraphErrors(d.graphs[i], ids) = {}
    <3>1. \A n \in DOMAIN d.graphs[i].sub : d.graphs[i].sub[n] \in ids \cup {<< >>}
      <4>1. ids = {docs[k].id : k \in DOMAIN docs}
        BY <2>4, <2>5
      <4>2. DOMAIN docs[i].sub = NodeId
        BY <2>1, ContentsType DEF DocumentType
      <4> HIDE DEF ids
      <4>3. \A n \in NodeId : docs[i].sub[n] \in ids \cup {<< >>}
        BY <4>1, <2>1 DEF ReferencesResolve, NoRef
      <4>4. QED
        BY <4>2, <4>3, <2>5
    <3> HIDE DEF ids
    <3>2. {n \in DOMAIN d.graphs[i].sub : d.graphs[i].sub[n] \notin ids \cup {<< >>}} = {}
      BY <3>1
    <3>3. NodeReferences(d.graphs[i].structure) \ NodeIdsOf(d.graphs[i].structure) = {}
      BY <2>6
    <3>4. /\ Duplicates(d.graphs[i].structure.nodes) = {}
          /\ Duplicates(d.graphs[i].structure.edges) = {}
          /\ Duplicates(d.graphs[i].structure.joins) = {}
      BY <2>6
    <3>5. QED
      BY <3>2, <3>3, <3>4, ZenonT(60) DEF GraphErrors
  <2>12. ReferenceErrors(d) = {}
    <3>1. UNION {GraphErrors(d.graphs[i], ids) : i \in DOMAIN d.graphs} = {}
      <4> DEFINE Errors(i) == GraphErrors(d.graphs[i], ids)
      <4>1. \A i \in DOMAIN d.graphs : Errors(i) = {}
        BY <2>4, <2>11
      <4> HIDE DEF Errors
      <4>2. UNION {Errors(i) : i \in DOMAIN d.graphs} = {}
        BY <4>1
      <4>3. QED
        BY <4>2 DEF Errors
    <3>2. {<<"duplicate graph id", x>> : x \in DuplicateGraphIds(d.graphs)} = {}
      BY <2>8
    <3>3. QED
      BY <3>1, <3>2, <2>9, <2>10, ZenonT(60) DEF ReferenceErrors
  <2>13. QED
    BY <2>7, <2>12 DEF ValidateDocument, d
<1>2. DescribeInv /\ NothingDropped => OutputPassesValidation
  BY <1>1 DEF OutputPassesValidation
<1>3. QED
  BY <1>2, DescribeAlways, OutcomeIsComplete, PTL
===============================================================================
