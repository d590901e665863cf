----------------------------- MODULE HashedDocument -----------------------------
(***************************************************************************)
(* The document of a consumer with its canonical text, its hash and its join *)
(* edges, as either package makes them.                                      *)
(***************************************************************************)
EXTENDS Consumer, Canonical

Ts == INSTANCE TsCanonical

\* A text of code points that JSON does not escape.
Codepoints == Seq(Nat \ {34, 92})

\* A double, or a literal beyond the largest; 5e-324 is the smallest one.
IsNumber(x) ==
  /\ x \in [neg : BOOLEAN, digits : Seq(0 .. 9), n : Int]
  /\ x.n >= -323
  /\ IF x.digits = << >> THEN x.n = 0
                          ELSE Head(x.digits) # 0 /\ x.digits[Len(x.digits)] # 0

\* An object that has an id, and beside it an extension and what the schema names.
IsRecord(r, named) ==
  /\ "id" \in DOMAIN r
  /\ DOMAIN r \subseteq {"id", "x"} \cup named
  /\ \A key \in DOMAIN r :
       IF key = "x" THEN IsNumber(r[key])
       ELSE IF key \in TextLists THEN r[key] \in Seq(Codepoints)
       ELSE key = "structure" \/ r[key] \in Codepoints

Named(f) == [ nodes |-> {"type", "subgraphId", "interrupts"},
              edges |-> {"source", "target", "kind"},
              joins |-> {"sources", "target"} ][f]

\* What the texts and numbers of a document are.
IsWritten(d) ==
  \A g \in DOMAIN d.graphs :
    LET s == d.graphs[g].structure IN
    /\ IsRecord(d.graphs[g], {"name", "structure"})
    /\ DOMAIN s = Collections
    /\ s.entryNodeIds \in Seq(Codepoints) /\ s.exitNodeIds \in Seq(Codepoints)
    /\ \A f \in ObjectLists : \A i \in DOMAIN s[f] : IsRecord(s[f][i], Named(f))

HashedAssumption ==
  /\ \A d \in Documents : IsWritten(d)
  /\ \A x \in Annotations : IsNumber(x)

ASSUME WrittenAssumption == HashedAssumption

-------------------------------------------------------------------------------
\* What a structure says, its collections being sets.
Meaning(d) ==
  {LET s == d.graphs[g].structure IN
   [ id |-> d.graphs[g].id,
     nodes |-> {[k \in DOMAIN n \ {"x"} |-> IF k = "interrupts" THEN ToSet(n[k]) ELSE n[k]] :
                  n \in ToSet(s.nodes)},
     edges |-> {Restrict(e, {"id", "source", "target", "kind"}) : e \in ToSet(s.edges)},
     joins |-> {[id |-> j.id, sources |-> ToSet(j.sources), target |-> j.target] : j \in ToSet(s.joins)},
     entryNodeIds |-> ToSet(s.entryNodeIds),
     exitNodeIds  |-> ToSet(s.exitNodeIds) ] : g \in DOMAIN d.graphs}

InRange(d) == \A x \in NumbersOf(d) : ~OutOfRange(x)

Known == {[hash |-> ComputeStructureHash(d), meaning |-> Meaning(d)] :
            d \in {x \in Documents : Accepted(x) /\ InRange(x)}}

\* The hash of an accepted document is that of another exactly when their
\* structures say the same: neither the order things are listed in nor a
\* description or extension reaches it, and no node, edge, join, interrupt, entry
\* or exit can change behind it (_structure_projection_v1 sorts records by their
\* whole text, descriptions included, and only then drops the descriptions).
HashIsStructure ==
  Accepted(document) /\ InRange(document) =>
    LET hash    == ComputeStructureHash(document)
        meaning == Meaning(document)
    IN  \A k \in Known : hash = k.hash <=> meaning = k.meaning

\* The order of declaration never shows in the canonical form, of a malformed
\* document either (canonicalize_document).
OrderNeverShows == [][Reorder => CanonicalJson(document') = CanonicalJson(document)]_vars

\* For a document both packages accept they produce the same canonical text, the
\* same hash and the same join edges, or both refuse its numbers; Python sorts by
\* its own spelling of numbers, TypeScript by ECMA's.
LanguagesAgree ==
  Accepted(document) =>
    /\ IF InRange(document) THEN FinalizeDocument(document) = Ts!FinalizeDocument(document)
       ELSE /\ FinalizeDocument(document)    = <<NumberDomainError, NumberDomainError>>
            /\ Ts!FinalizeDocument(document) = <<<<"TypeError">>, <<"TypeError">>>>
    /\ \A g \in DOMAIN document.graphs :
         DerivedJoinEdges(document.graphs[g].structure) = Ts!DerivedJoinEdges(document.graphs[g].structure)

\* Every number of a document that is not refused is spelled so that it reads back as
\* itself, with an exponent exactly outside [1e-6, 1e21), zero in one way (ADR 0009).
NumbersReadBack ==
  \A x \in {y \in NumbersOf(document) : ~OutOfRange(y)} :
    LET text == FormatNumber(x) IN
    /\ ReadNumber(text) = IF x.digits = << >> THEN [neg |-> FALSE, digits |-> << >>, n |-> 0] ELSE x
    /\ Contains(text, ExpE) <=> x.digits # << >> /\ x.n \notin -5 .. 21
===============================================================================
