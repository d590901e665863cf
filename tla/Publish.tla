-------------------------------- MODULE Publish --------------------------------
(***************************************************************************)
(* Qualification and publication of one package at a time:                 *)
(* .github/workflows/release-python.yml and release-npm.yml with the       *)
(* scripts they run (release_guard.py, verify_spec_registry.py,            *)
(* verify_npm_registry_peer.mjs and the inspections).                      *)
(*                                                                         *)
(* A run works on the commit its branch had when it was dispatched; the    *)
(* jobs hand bundles to each other through the workflow's artifact store.  *)
(* An artifact is [package, commit, kind, altered]: the bytes a commit     *)
(* builds for a package are always the same, and `altered' stands for      *)
(* bytes that changed in the store.  The registries keep what was uploaded *)
(* and show it, at any later time, in their index.                         *)
(***************************************************************************)
EXTENDS ReleaseDocs, TLC

Py == INSTANCE PyArtifacts
Npm == INSTANCE NpmArtifacts

CONSTANTS Commit,      \* commits that packages are built from
          Follows,     \* [commit of the release branch -> the commits pushed after it]
          Repository,  \* what each of them holds: [Commit -> checkout]
          Input,       \* the pairs << package, publish >> a run is dispatched with
          RunId,       \* workflow runs, numbered in the order of their dispatch
          NoRun,       \* a run that was not dispatched
          MaxReruns,   \* how often the failed jobs of one run are run again
          Earlier,     \* what the registries may hold when the release begins
          MaxFaults    \* jobs that fail, answers that are lost, bundles that change

VARIABLES head,      \* the commit of rc/<version>
          runs,      \* [RunId -> run]
          registry,  \* the artifacts PyPI and npm have stored
          visible,   \* those their indexes show
          faults

pubVars == << head, runs, registry, visible, faults >>

Tree == [c \in Commit |-> Repository[c]]

Attempts == 3      \* of install_pinned_spec
Kinds(p) == IF p[1] = "python" THEN {"wheel", "sdist"} ELSE {"tarball"}

Artifact == [package : Package, commit : Commit, altered : BOOLEAN,
             kind : {"wheel", "sdist", "tarball"}]

VersionIn(c, p) == Tree[c].project[p].version
Version(a) == VersionIn(a.commit, a.package)

\* The contents are those of the build; a store that changes bytes shows in digests.
Content == [a \in Artifact |->
    IF a.kind = "wheel" THEN Py!BuildWheel(Tree[a.commit], a.package[2])
    ELSE IF a.kind = "sdist" THEN Py!BuildSdist(Tree[a.commit], a.package[2])
    ELSE Npm!PackTarball(Tree[a.commit], a.package[2])]

\* The commits whose documents and manifests agree.
Coherent == {c \in Commit : CheckPhase(Tree[c], "candidate")}

Built(c, p) == [package : {p}, commit : {c}, altered : {FALSE}, kind : Kinds(p)]

Shown(stored, p) == {Version(a) : a \in {a \in stored : a.package = p}}
VisibleVersions(p) == Shown(visible, p)

SpecRequirement(tree) ==
    DependencySpecifier(tree.project[<< "python", "langgraph" >>], "agent-topology-spec")

Accepts(tree, versions) == \E c \in SpecRequirement(tree) : \E v \in versions : Admits(c, v)

CommonChecks == {"artifact-inspection", "clean-installation", "namespace-coexistence",
                 "package-tests", "python-quality"}

RequiredChecks(package) ==
    CommonChecks \cup (IF package = "langgraph" THEN {"supported-langgraph-conformance"} ELSE {})

\* The result of inspect_artifacts and of create_receipt.
Sound == {a \in Artifact : /\ a.package[1] = "python"
                           /\ Py!InspectArchive(Tree[a.commit], a.package[2], a.kind, Content[a])}

Inspected(run) ==
    Py!InspectArtifacts(Tree[run.commit], run.package[2], run.version, run.dist, Sound)

Receipt(run) ==
    IF run.package[1] = "python"
    THEN [package |-> run.package, version |-> run.version, commit |-> run.commit,
          checks |-> RequiredChecks(run.package[2]), artifacts |-> run.dist]
    ELSE Npm!MakeReceipt(run.package[2], run.version, run.commit, run.dist,
                         Npm!NpmChecks[run.package[2]])

\* Whether an installer that sees some artifacts can install one of them.
CanInstall(a, stored) ==
    LET seen == Shown(stored, SpecOf(a.package))
    IN  /\ a.package = << "python", "langgraph" >> => Accepts(Tree[a.commit], seen)
        /\ a.package = << "npm", "langgraph" >> =>
               Tree[a.commit].project[a.package].peer \in seen

(***************************************************************************)
(* The jobs.  A phase is a step of a job; `from' is the job that a rerun   *)
(* of the failed jobs starts with.                                         *)
(***************************************************************************)
Working == {"selection", "artifact", "authorize", "preflight", "publish", "upload"}

AnyVersion == {VersionIn(c, p) : c \in Commit, p \in Package}

AnyCheck == RequiredChecks("langgraph") \cup Npm!NpmChecks["langgraph"]

ReceiptType == [package : Package, version : AnyVersion, commit : Commit,
                checks : SUBSET AnyCheck, artifacts : SUBSET Artifact]

RunType ==
    [phase : Working \cup {"success", "failure"},
     from : {"selection", "artifact", "authorize", "preflight", "publish"},
     package : Package, commit : DOMAIN Follows, version : AnyVersion,
     specVersion : AnyVersion \cup {Absent}, publish : BOOLEAN,
     attempt : 1..Attempts, dist : SUBSET Artifact, receipt : ReceiptType \cup {Absent},
     sent : SUBSET Artifact, reruns : 0..MaxReruns]

\* The files of a portion have names; what the registries hold when the release
\* begins was inspected, and its producers can be installed.
PublishAssumption ==
    /\ NoRun \notin RunType /\ Absent \notin ReceiptType
    /\ MaxReruns \in Nat /\ MaxFaults \in Nat
    /\ Input \subseteq Package \X BOOLEAN
    /\ DOMAIN Follows \subseteq Commit
    /\ \A c \in DOMAIN Follows : Follows[c] \subseteq DOMAIN Follows
    /\ \A c \in Commit, package \in {"spec", "langgraph"} :
           Repository[c].src[<< "python", package >>] \subseteq Seq(STRING) \ {<< >>}
    /\ \A stored \in Earlier : \A a \in stored :
           /\ a \in Artifact /\ CanInstall(a, stored)
           /\ a.kind = "wheel" => a \in Sound

ASSUME WorkflowAssumption == PublishAssumption

\* Python's preflight is a step of its publish job, npm's a job before it.
JobOf(run) == IF run.phase = "upload" \/ (run.phase = "preflight" /\ run.package[1] = "python")
              THEN "publish" ELSE run.phase

\* What nobody reads again is forgotten: a finished run's bundle and counters, and
\* whatever else a run that cannot be run again was doing.
Bare(run) == [run EXCEPT !.attempt = 1, !.dist = {}, !.sent = {}]

Succeeded(run) == [Bare(run) EXCEPT !.phase = "success", !.from = "selection", !.reruns = 0]

Failed(run) ==
    IF JobOf(run) = "selection" \/ run.reruns = MaxReruns
    THEN [Bare(run) EXCEPT !.phase = "failure", !.from = "selection", !.reruns = 0]
    ELSE [run EXCEPT !.phase = "failure", !.from = JobOf(run), !.attempt = 1, !.sent = {}]

Moves(r, run) == runs' = [runs EXCEPT ![r] = run]

Mishap == faults < MaxFaults /\ faults' = faults + 1

At(r, phase) == runs[r] # NoRun /\ runs[r].phase = phase

\* The index may be behind by one package, one that no public producer needs.
Lagging(stored) ==
    {p \in Package : \A a \in stored : a.package[2] = "langgraph" => SpecOf(a.package) # p}

PubInit ==
    /\ head \in DOMAIN Follows
    /\ runs = [r \in RunId |-> NoRun]
    /\ registry \in Earlier
    /\ visible \in {registry} \cup {{a \in registry : a.package # p} : p \in Lagging(registry)}
    /\ faults \in 0..MaxFaults

Push(c) == c \in Follows[head] /\ head' = c /\ UNCHANGED << runs, registry, visible, faults >>

Dispatch(r, p, version, specVersion, publish) ==
    /\ runs[r] = NoRun /\ \A q \in RunId : q < r => runs[q] # NoRun
    /\ Moves(r, [phase |-> "selection", from |-> "selection", package |-> p, commit |-> head,
                 version |-> version, specVersion |-> specVersion, publish |-> publish,
                 attempt |-> 1, dist |-> {}, receipt |-> Absent, sent |-> {}, reruns |-> 0])
    /\ UNCHANGED << head, registry, visible, faults >>

Selection(r) ==
    /\ At(r, "selection")
    /\ LET run == runs[r]
           tree == Tree[run.commit]
       IN  IF /\ run.commit \in Coherent
              /\ ValidateSelection(tree, run.package, run.version, tree.ref, run.specVersion)
           THEN Moves(r, [run EXCEPT !.phase = "artifact",
                                     !.specVersion = IF run.package[2] = "spec"
                                                     THEN run.version ELSE @])
           ELSE Moves(r, Failed(run))
    /\ UNCHANGED << head, registry, visible, faults >>

(***************************************************************************)
(* Both portions of the commit are built and installed together, so the    *)
(* installer sees the producer's requirement and the committed             *)
(* specification at once.                                                  *)
(***************************************************************************)
CleanInstalls(tree, p) ==
    IF p[1] = "python" THEN Accepts(tree, {tree.project[<< "python", "spec" >>].version})
    ELSE tree.project[<< "npm", "langgraph" >>].peer = tree.project[<< "npm", "spec" >>].version

NpmInspected(run) ==
    LET tree == Tree[run.commit]
        tarball(package) == Npm!PackTarball(tree, package)
        support == IF run.package[2] = "spec" THEN "langgraph" ELSE "spec"
        supportVersion == IF support = "spec" THEN run.specVersion
                          ELSE tree.project[<< "npm", "langgraph" >>].version
        supportPeer == IF support = "spec" THEN run.specVersion
                       ELSE tree.project[<< "npm", "langgraph" >>].peer
    IN  /\ Npm!InspectTarball(tree, run.package[2], run.version, run.specVersion,
                              tarball(run.package[2]), Absent)
        /\ Npm!InspectTarball(tree, support, supportVersion, supportPeer,
                              tarball(support), Absent)

BuildArtifact(r) ==
    /\ At(r, "artifact")
    /\ LET run == [runs[r] EXCEPT !.dist = Built(runs[r].commit, runs[r].package)]
       IN  IF ~CleanInstalls(Tree[run.commit], run.package) THEN Moves(r, Failed(run))
           ELSE IF run.package[1] = "python"
           THEN Moves(r, IF Inspected(run) THEN [run EXCEPT !.phase = "authorize"]
                         ELSE Failed(run))
           ELSE Moves(r, IF NpmInspected(run)
                         THEN [run EXCEPT !.phase = "preflight", !.receipt = Receipt(run)]
                         ELSE Failed(run))
    /\ UNCHANGED << head, registry, visible, faults >>

\* release_guard.py create, once every job of the run has succeeded.
Authorize(r) ==
    /\ At(r, "authorize")
    /\ LET run == runs[r]
       IN  Moves(r, IF ~Inspected(run) THEN Failed(run)
                    ELSE IF run.publish
                    THEN [run EXCEPT !.phase = "publish", !.receipt = Receipt(run)]
                    ELSE Succeeded([run EXCEPT !.receipt = Receipt(run)]))
    /\ UNCHANGED << head, registry, visible, faults >>

PreflightOfNpmOnly(run) == run.publish /\ run.package = << "npm", "langgraph" >>
PreflightOfPythonOnly(run) == run.publish /\ run.package = << "python", "langgraph" >>

\* Which runs must find the specification in the registry.
NeedsPreflight(run) == run.publish /\ run.package[2] = "langgraph"

(***************************************************************************)
(* release_guard.py check, verify_typescript_release.mjs check: what is    *)
(* uploaded is what the receipt names.                                     *)
(***************************************************************************)
BundleOnlyInspected(run) == run.package[1] = "python" => Inspected(run)
BundleMatchesReceipt(run) ==
    IF run.package[1] = "python" THEN Inspected(run) /\ run.receipt = Receipt(run)
    ELSE Npm!CheckReceipt(run.receipt, run.package[2], run.version, run.commit, run.dist)

CheckBundle(r) ==
    /\ At(r, "publish")
    /\ LET run == runs[r]
       IN  Moves(r, IF ~BundleMatchesReceipt(run) THEN Failed(run)
                    ELSE [run EXCEPT !.phase = IF run.package[1] = "python" /\ NeedsPreflight(run)
                                               THEN "preflight" ELSE "upload"])
    /\ UNCHANGED << head, registry, visible, faults >>

RetryUncounted(run) == [run EXCEPT !.attempt = @ + 1]
RetryForever(run) == [run EXCEPT !.attempt = IF @ < Attempts THEN @ + 1 ELSE 1]

\* install_pinned_spec: three attempts, then the last failure is reported.
Retry(run) == IF run.attempt < Attempts THEN [run EXCEPT !.attempt = @ + 1] ELSE Failed(run)

(***************************************************************************)
(* verify_spec_registry.py run_preflight: the pinned specification first,  *)
(* then the producer's wheel, which is free to choose any visible          *)
(* specification its own requirement admits.                               *)
(***************************************************************************)
PythonPreflight(r) ==
    /\ At(r, "preflight") /\ runs[r].package[1] = "python"
    /\ LET run == runs[r]
           tree == Tree[run.commit]
           seen == VisibleVersions(SpecOf(run.package))
       IN  Moves(r, IF ~SpecVersionResolves(tree, "langgraph") THEN Failed(run)
                    ELSE IF ResolveProducerSpecVersion(tree) \notin seen THEN Retry(run)
                    ELSE IF Accepts(tree, seen) THEN [run EXCEPT !.phase = "upload"]
                    ELSE Failed(run))
    /\ UNCHANGED << head, registry, visible, faults >>

\* verify_npm_registry_peer.mjs: the exact peer, asked for once.
NpmPreflight(r) ==
    /\ At(r, "preflight") /\ runs[r].package[1] = "npm"
    /\ LET run == runs[r]
       IN  Moves(r, IF /\ NeedsPreflight(run)
                       /\ run.specVersion \notin VisibleVersions(SpecOf(run.package))
                    THEN Failed(run)
                    ELSE IF run.publish THEN [run EXCEPT !.phase = "publish"]
                    ELSE Succeeded(run))
    /\ UNCHANGED << head, registry, visible, faults >>

(***************************************************************************)
(* The upload, file by file.  PyPI accepts a file it already holds and     *)
(* refuses other bytes under the name; npm never takes a version twice.    *)
(* The answer to an accepted upload may be lost.                           *)
(***************************************************************************)
Acceptable(a) ==
    {b \in registry : b.package = a.package /\ b.kind = a.kind /\ Version(b) = Version(a)}
        \subseteq (IF a.package[1] = "python" THEN {a} ELSE {})

Sent(run, a) ==
    IF run.sent \cup {a} = run.dist THEN Succeeded(run) ELSE [run EXCEPT !.sent = @ \cup {a}]

Upload(r) ==
    /\ At(r, "upload")
    /\ \E a \in runs[r].dist \ runs[r].sent :
           \/ /\ Acceptable(a)
              /\ registry' = registry \cup {a}
              /\ \/ Moves(r, Sent(runs[r], a)) /\ UNCHANGED faults
                 \/ Moves(r, Failed(runs[r])) /\ Mishap
           \/ ~Acceptable(a) /\ Moves(r, Failed(runs[r])) /\ UNCHANGED << registry, faults >>
    /\ UNCHANGED << head, visible >>

\* A test fails, an approval is rejected or expires, a runner is lost before the
\* upload or between its files.
Fail(r) ==
    /\ At(r, "artifact") \/ At(r, "publish") \/ At(r, "upload")
    /\ Moves(r, Failed(runs[r])) /\ Mishap
    /\ UNCHANGED << head, registry, visible >>

\* Nobody runs a selection again: it reads nothing but the commit.
RerunFailedJobs(r) ==
    /\ At(r, "failure") /\ runs[r].from # "selection"
    /\ Moves(r, [runs[r] EXCEPT !.phase = runs[r].from, !.reruns = @ + 1])
    /\ UNCHANGED << head, registry, visible, faults >>

\* An authorized bundle changes in the store, or loses a file.
Disturb(r) ==
    /\ Mishap
    /\ At(r, "publish")
    /\ \E a \in runs[r].dist :
           \E changed \in {{}, {[a EXCEPT !.altered = TRUE]}} :
               Moves(r, [runs[r] EXCEPT !.dist = (@ \ {a}) \cup changed])
    /\ UNCHANGED << head, registry, visible >>

Propagate(a) ==
    /\ a \in registry \ visible
    /\ visible' = visible \cup {a}
    /\ UNCHANGED << head, runs, registry, faults >>

Advance(r) ==
    \/ Selection(r) \/ BuildArtifact(r) \/ Authorize(r) \/ CheckBundle(r)
    \/ PythonPreflight(r) \/ NpmPreflight(r) \/ Upload(r)

Versions(p) == {VersionIn(c, p) : c \in Commit}

PubNext ==
    \/ \E c \in Commit : Push(c)
    \/ \E r \in RunId :
           \/ Advance(r) \/ Fail(r) \/ RerunFailedJobs(r) \/ Disturb(r)
           \/ \E i \in Input : \E v \in Versions(i[1]) :
                  \E s \in (IF i[1] = << "npm", "langgraph" >> THEN Versions(SpecOf(i[1]))
                            ELSE {Absent}) :
                      Dispatch(r, i[1], v, s, i[2])
    \/ \E a \in registry : Propagate(a)

PubTypeOK ==
    /\ head \in DOMAIN Follows /\ faults \in 0..MaxFaults
    /\ visible \subseteq registry /\ registry \subseteq Artifact
    /\ runs \in [RunId -> RunType \cup {NoRun}]

IsWorking(r) == \E phase \in Working : At(r, phase)
HasEnded(r) == At(r, "success") \/ At(r, "failure")

\* GitHub runs the jobs of a run, gives every job a time limit and lets an approval
\* nobody gives expire: a working run, which can always take a step, goes on to take one.
PubFairness ==
    \A r \in RunId : []<>(~IsWorking(r)) \/ []<><< runs'[r] # runs[r] >>_pubVars

Before == UNION Earlier

(***************************************************************************)
(* What is public was authorized: every artifact of this release in a      *)
(* registry is, byte for byte, one that a publishing run built from its    *)
(* own commit, and that commit's documents, manifests and lockfiles agreed.*)
(* Bundles may change or lose files in the store between the receipt       *)
(* (release_guard.py create) and the upload, across reruns.                *)
(***************************************************************************)
PublishedWasQualified ==
    \A a \in registry \ Before :
        /\ ~a.altered
        /\ a.commit \in Coherent /\ CheckVersionCopies(Tree[a.commit])
        /\ \E r \in RunId :
               /\ runs[r] # NoRun /\ runs[r].publish /\ runs[r].commit = a.commit
               /\ runs[r].receipt # Absent /\ a \in runs[r].receipt.artifacts

(***************************************************************************)
(* Whoever can install a published producer finds a specification that its *)
(* metadata admits, by the installer's own order of versions: separately   *)
(* dispatched runs, an index that lags behind and the scripts' simpler     *)
(* order of versions (_version_key) do not get a producer out alone.       *)
(***************************************************************************)
ProducerInstalls == \A a \in registry : CanInstall(a, visible)

Owned == [a \in {a \in Artifact : a.kind = "wheel"} |->
             {path \in DOMAIN Content[a] : path[1] = "agent_topology"}]

(***************************************************************************)
(* The two Python distributions share the namespace agent_topology without *)
(* owning it: no two published wheels of different packages hold a file in *)
(* common, and none holds agent_topology/__init__.py, whatever the source  *)
(* tree of a commit contained (verify_python_artifacts.py).                *)
(***************************************************************************)
PublicNamespaceIsClean ==
    \A a, b \in {a \in registry : a.kind = "wheel"} :
        /\ Py!NamespaceInit \notin Owned[a]
        /\ a.package # b.package => Owned[a] \cap Owned[b] = {}

(***************************************************************************)
(* A run that is working comes to an end, however often the index does not *)
(* show the specification yet: the preflight gives up after its attempts   *)
(* (verify_spec_registry.py install_pinned_spec).                          *)
(***************************************************************************)
EveryRunEnds == \A r \in RunId : IsWorking(r) ~> HasEnded(r)
================================================================================
