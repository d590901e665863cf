----------------------------- MODULE ReleaseSource -----------------------------
(***************************************************************************)
(* scripts/check_release_source.py: which package versions of a commit a   *)
(* release workflow may be dispatched for, and which specification version *)
(* the Python preflight pins.                                              *)
(*                                                                         *)
(* A package is << ecosystem, portion >>.  A version is a record           *)
(*     [release : Seq(Nat), label : a pre-release label or "", num : Nat]  *)
(* and a checked-out commit is a record `tree' with                        *)
(*     tree.project[p]  manifest: name, version, dependencies (a set of    *)
(*                      [name, clauses]), peer, scripts                    *)
(*     tree.lock[p]     the copies of versions in its lockfile             *)
(* What the scripts refuse by an exception is here a formula that is false:*)
(* either way the step fails.                                              *)
(***************************************************************************)
EXTENDS Integers, Sequences, FiniteSets

Package == {"python", "npm"} \X {"spec", "langgraph"}

SpecOf(p) == << p[1], "spec" >>

PrereleaseOrder == [a |-> 0, b |-> 1, rc |-> 2]

\* A final release sorts after each of its pre-releases.
VersionKey(v) ==
    << v.release, IF v.label = "" THEN << Cardinality(DOMAIN PrereleaseOrder), 0 >>
                                  ELSE << PrereleaseOrder[v.label], v.num >> >>

\* How Python orders tuples: a proper prefix comes first, so 0.2 < 0.2.0.
TupleBelow(s, t) ==
    \/ \E i \in DOMAIN s \cap DOMAIN t :
           s[i] < t[i] /\ \A j \in 1..(i - 1) : s[j] = t[j]
    \/ Len(s) < Len(t) /\ s = SubSeq(t, 1, Len(s))

KeyBelow(k, l) == TupleBelow(k[1], l[1]) \/ (k[1] = l[1] /\ TupleBelow(k[2], l[2]))

ClauseHolds(k, op, l) ==
    \/ op \in {"==", ">=", "<="} /\ k = l
    \/ op \in {"<", "<=", "!="} /\ KeyBelow(k, l)
    \/ op \in {">", ">=", "!="} /\ KeyBelow(l, k)

SatisfiesSpecifier(v, clauses) ==
    \A c \in clauses : ClauseHolds(VersionKey(v), c.op, VersionKey(c.bound))

\* The requirement a project states for a distribution, as a set of at most one.
DependencySpecifier(project, name) ==
    {d.clauses : d \in {d \in project.dependencies : d.name = name /\ d.clauses # {}}}

(***************************************************************************)
(* resolve_producer_spec_version: the pin is always the version the commit *)
(* itself prepares; for the producer it must also satisfy the committed    *)
(* requirement.                                                            *)
(***************************************************************************)
SpecVersionResolves(tree, package) ==
    package = "langgraph" =>
        \E clauses \in DependencySpecifier(tree.project[<< "python", package >>],
                                           "agent-topology-spec") :
            SatisfiesSpecifier(tree.project[<< "python", "spec" >>].version, clauses)

ResolveProducerSpecVersion(tree) == tree.project[<< "python", "spec" >>].version

(***************************************************************************)
(* check_version_copies: every lockfile repeats the versions of the        *)
(* manifests; the npm producer's also repeats its peer and the linked      *)
(* specification.                                                          *)
(***************************************************************************)
CheckVersionCopies(tree) ==
    /\ \A package \in {"spec", "langgraph"} :
           \A copy \in tree.lock[<< "npm", package >>].copies :
               copy = tree.project[<< "npm", package >>].version
    /\ LET lock == tree.lock[<< "npm", "langgraph" >>]
       IN  /\ lock.peer = tree.project[<< "npm", "langgraph" >>].peer
           /\ lock.spec = tree.project[<< "npm", "spec" >>].version
    /\ \A package \in {"spec", "langgraph"} :
           \A entry \in tree.lock[<< "python", package >>] :
               entry.version = tree.project[<< "python", entry.portion >>].version

\* A ref is the sequence of its parts below refs/heads.
ValidateSelection(tree, p, version, ref, specVersion) ==
    /\ Len(ref) > 1 /\ ref[1] = "rc"
    /\ version = tree.project[p].version
    /\ CheckVersionCopies(tree)
    /\ p = << "npm", "langgraph" >> => specVersion = tree.project[p].peer

(***************************************************************************)
(* What an installer makes of a requirement (PEP 440, pre-releases         *)
(* allowed): releases are padded with zeros, and "< V" for a final V       *)
(* leaves out the pre-releases of V, which the order above does not.       *)
(***************************************************************************)
Padded(v) == [v EXCEPT !.release = [i \in 1..4 |-> IF i \in DOMAIN @ THEN @[i] ELSE 0]]

Admits(clauses, v) ==
    \A c \in clauses :
        /\ ClauseHolds(VersionKey(Padded(v)), c.op, VersionKey(Padded(c.bound)))
        /\ (c.op = "<" /\ c.bound.label = "" /\ v.label # "") =>
               Padded(v).release # Padded(c.bound).release
================================================================================
