------------------------------ MODULE ReleaseDocs ------------------------------
(***************************************************************************)
(* scripts/check_release_docs.py: the release state file of a checkout and *)
(* the pages that must agree with it, before publication ("candidate") and *)
(* after the closeout ("published").                                       *)
(*                                                                         *)
(* A checkout `tree' has, besides what ReleaseSource reads,                *)
(*     tree.state     [published, candidate, partials], the state file     *)
(*     tree.page      path -> [installs, says, links]: the install         *)
(*                    selections, the phrases and the links of a page      *)
(*     tree.evidence  path -> an evidence record                           *)
(* A release of the state file is                                          *)
(*     [version, tag, packages (a set of [package, version]), notes,       *)
(*      guide, branch, sourceCommit, evidence, githubRelease, reason]      *)
(* where a field that may be missing is `Absent'.  The tag v<version> is   *)
(* << "v", version >>.                                                     *)
(***************************************************************************)
EXTENDS ReleaseSource

CONSTANTS Absent,       \* a missing field, or null
          FirstRelease  \* 0.1.0-beta.2, which was published without evidence

\* One README a package, and what each page must tell its reader to install.
Readme(p) == << "packages", p[1], p[2], "README.md" >>
RootReadme == << "README.md" >>
GettingStarted(ecosystem) == << "docs", "getting-started", ecosystem >>

Both(ecosystem) == {ecosystem} \X {"spec", "langgraph"}

Selects(p) == IF p = << "npm", "langgraph" >> THEN Both("npm") ELSE {p}
StartSelects(e) == IF e = "npm" THEN Both("npm") ELSE {<< "python", "langgraph" >>}

RepositoryPath(tree, path) == path \in DOMAIN tree.page

ThreeParts(v) == Len(v.release) = 3

ValidatePackages(packages) ==
    /\ {e.package : e \in packages} = Package
    /\ \A e, f \in packages : e.package = f.package => e = f
    /\ \A e \in packages : ThreeParts(e.version)
    /\ \A e \in packages : e.package[1] = "python" =>
           e.version.label \in DOMAIN PrereleaseOrder

Commit40(commit) == commit # Absent

EvidenceNames(tree, r) ==
    LET e == tree.evidence[r.evidence]
    IN  e.version = r.version /\ e.tag = r.tag /\ e.sourceCommit = r.sourceCommit

ValidatePartial(tree, r) ==
    /\ Commit40(r.sourceCommit)
    /\ r.evidence \in DOMAIN tree.evidence
    /\ EvidenceNames(tree, r)
    /\ LET e == tree.evidence[r.evidence]
       IN  /\ ~e.coordinatedComplete /\ e.githubRelease = Absent /\ e.discrepancies # {}
           /\ {[package |-> x.package, version |-> x.version] : x \in e.packages} = r.packages
           /\ \A x \in e.packages : x.workflowRun # Absent /\ x.artifacts # {}
    /\ r.reason # Absent

ValidateRelease(tree, r, partial) ==
    /\ ThreeParts(r.version) /\ r.version.label = "beta"
    /\ r.tag = << "v", r.version >>
    /\ RepositoryPath(tree, r.notes)
    /\ ValidatePackages(r.packages)
    /\ IF partial THEN ValidatePartial(tree, r) ELSE RepositoryPath(tree, r.guide)

\* load_state: a coordinated version stands in one place only.
LoadState(tree) ==
    LET state == tree.state
        current == {state.published} \cup ({state.candidate} \ {Absent})
    IN  /\ \A r \in current : ValidateRelease(tree, r, FALSE)
        /\ state.candidate # Absent => state.candidate.branch # Absent
        /\ \A r \in state.partials : ValidateRelease(tree, r, TRUE)
        /\ state.candidate # state.published /\ current \cap state.partials = {}
        /\ \A r, s \in current \cup state.partials : r.version = s.version => r = s

VersionOf(r, p) == (CHOOSE e \in r.packages : e.package = p).version

\* The text of version v is the beginning of the text of w.
Begins(v, w) ==
    /\ v.release = w.release
    /\ \/ v = w
       \/ v.label = ""
       \/ v.label = w.label /\ \E k \in {10, 100, 1000} : v.num > 0 /\ w.num \div k = v.num

(***************************************************************************)
(* _assert_install_versions looks for the text name==version in a page,    *)
(* which is also found in front of a longer version.                       *)
(***************************************************************************)
InstallVersions(tree, r, path, packages) ==
    \A p \in packages : \E i \in tree.page[path].installs :
        i.package = p /\ Begins(VersionOf(r, p), i.version)

Says(tree, path, phrase) == RepositoryPath(tree, path) /\ phrase \in tree.page[path].says

CheckPublished(tree) ==
    LET r == tree.state.published
    IN  /\ r.version # FirstRelease =>
               /\ Commit40(r.sourceCommit)
               /\ r.evidence \in DOMAIN tree.evidence
               /\ EvidenceNames(tree, r)
               /\ r.githubRelease # Absent
        /\ InstallVersions(tree, r, RootReadme, Package)
        /\ \A p \in Package : InstallVersions(tree, r, Readme(p), Selects(p))
        /\ \A e \in {"python", "npm"} :
               InstallVersions(tree, r, GettingStarted(e), StartSelects(e))
        /\ Says(tree, r.notes, "published and verified")
        /\ {r.notes, r.guide} \subseteq tree.page[RootReadme].links
        /\ \A s \in tree.state.partials : Says(tree, s.notes, "partial publication")

CheckCandidate(tree) ==
    LET r == tree.state.candidate
        last == tree.state.published
    IN  /\ r # Absent
        /\ \A p \in Package : tree.project[p].version = VersionOf(r, p)
        /\ \A p \in Package : InstallVersions(tree, r, Readme(p), Selects(p))
        /\ \E d \in tree.project[<< "python", "langgraph" >>].dependencies :
               /\ d.name = "agent-topology-spec"
               /\ \E c \in d.clauses : Begins(VersionOf(r, << "python", "spec" >>), c.bound)
        /\ tree.project[<< "npm", "langgraph" >>].peer = VersionOf(r, << "npm", "spec" >>)
        /\ \A path \in {r.notes, r.guide} : Says(tree, path, "not published")
        /\ InstallVersions(tree, last, RootReadme, Package)
        /\ \A e \in {"python", "npm"} :
               InstallVersions(tree, last, GettingStarted(e), StartSelects(e))

CheckPhase(tree, phase) ==
    /\ LoadState(tree)
    /\ \/ phase = "candidate" /\ CheckCandidate(tree)
       \/ phase = "published" /\ tree.state.candidate = Absent /\ CheckPublished(tree)
================================================================================
