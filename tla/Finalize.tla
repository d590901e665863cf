------------------------------- MODULE Finalize -------------------------------
(***************************************************************************)
(* The coordinated release: .github/workflows/release-finalize.yml with    *)
(* scripts/verify_public_release.py.  `stage' collects evidence from the   *)
(* registries and drafts the GitHub release; a closeout change records the *)
(* evidence on main; `complete' checks it again and makes the release      *)
(* public.                                                                 *)
(*                                                                         *)
(* main is [page, commit, evidence]: the state of its pages, and the       *)
(* source commit and evidence its release state records.  A finalization   *)
(* works on the main it checked out; the tag and the GitHub releases are   *)
(* read and written while it runs.                                         *)
(***************************************************************************)
EXTENDS Publish

CONSTANTS MainCheckout,   \* the checkout of main before a closeout
          ClosingPages,   \* its pages after one: [{"closed", "stale"} -> pages]
          EvidencePath,   \* the file that a closeout records the evidence in
          FinalId,        \* finalization runs
          Idle,           \* one that is not running
          Named,          \* the commits that people name to it
          MaxCloseouts    \* how many closeout changes are merged

VARIABLES main, finals, tag, drafts, public, collected, closeouts

finVars == << main, finals, tag, drafts, public, collected, closeouts >>

FinInit ==
    /\ main = [page |-> "candidate", commit |-> Absent, evidence |-> Absent]
    /\ finals = [f \in FinalId |-> Idle]
    /\ tag = Absent
    /\ drafts = {} /\ public = {} /\ collected = {}
    /\ closeouts = 0

\* A release as the repository's release list holds it.
Release == [creator : FinalId, target : Commit]

Candidate == MainCheckout.state.candidate
Previous == MainCheckout.state.published

(***************************************************************************)
(* The checkout main describes: a closeout change makes the candidate the  *)
(* published release, with its source commit and its evidence.             *)
(***************************************************************************)
MainTree(m) ==
    IF m.page = "candidate" THEN MainCheckout
    ELSE [MainCheckout EXCEPT
              !.page = ClosingPages[m.page],
              !.evidence = [path \in DOMAIN MainCheckout.evidence \cup {EvidencePath} |->
                               IF path = EvidencePath THEN m.evidence
                               ELSE MainCheckout.evidence[path]],
              !.state = [published |-> [Candidate EXCEPT !.sourceCommit = m.commit,
                                                         !.evidence = EvidencePath],
                         candidate |-> Absent,
                         partials |-> MainCheckout.state.partials]]

\* Whether some artifacts hold a package in the version of the release.
Holds(stored, p) == \E a \in stored : a.package = p /\ Version(a) = VersionOf(Candidate, p)

\* Every commit of the branch prepares the release that main announces, and what is
\* there of it when finalization begins came with its specification.
FinalizeAssumption ==
    /\ Absent \notin Commit /\ Named \subseteq Commit
    /\ MaxCloseouts \in Nat
    /\ {"page", "evidence", "state"} \subseteq DOMAIN MainCheckout
    /\ Candidate # Absent
    /\ {"packages", "sourceCommit", "evidence"} \subseteq DOMAIN Candidate
    /\ \A c \in Commit, p \in Package :
           VersionOf(Repository[c].state.candidate, p) = VersionOf(Candidate, p)
    /\ \A stored \in Earlier : \A p \in Package :
           Holds(stored, p) => Holds(stored, SpecOf(p))

ASSUME CloseoutAssumption == FinalizeAssumption

(***************************************************************************)
(* _pypi_evidence and _npm_evidence: the visible artifacts of exactly one  *)
(* version; _verify_hash is the equality of artifacts with themselves.     *)
(* Nothing is yanked here, and what was uploaded has provenance.           *)
(***************************************************************************)
RegistryEvidence(p, v) == {a \in visible : a.package = p /\ Version(a) = v}

\* _workflow_evidence asks for the commit, the branch and the success of a run.
WorkflowEvidence(r, commit) ==
    runs[r] # NoRun /\ runs[r].commit = commit /\ runs[r].phase = "success"

Evidence(commit) ==
    [version |-> Candidate.version, tag |-> Candidate.tag, sourceCommit |-> commit,
     packages |-> {[package |-> p, version |-> VersionOf(Candidate, p),
                    artifacts |-> RegistryEvidence(p, VersionOf(Candidate, p))] :
                       p \in Package}]

\* Each package is given a run; one run may be given for all of them.
CollectEvidence(commit) ==
    \A p \in Package :
        /\ \E r \in RunId : WorkflowEvidence(r, commit)
        /\ RegistryEvidence(p, VersionOf(Candidate, p)) # {}

\* verify_checked_evidence: the registries still show what was recorded.
VerifyCheckedEvidence(release, e) ==
    /\ e.version = release.version /\ e.tag = release.tag
    /\ release.sourceCommit # Absent => e.sourceCommit = release.sourceCommit
    /\ {[package |-> x.package, version |-> x.version] : x \in e.packages} = release.packages
    /\ \A x \in e.packages :
           x.artifacts # {} /\ x.artifacts = RegistryEvidence(x.package, x.version)

\* The clean install of the exact public versions, both portions at once.
PublicInstalls ==
    LET spec(e) == VersionOf(Candidate, << e, "spec" >>)
        producers(e) == RegistryEvidence(<< e, "langgraph" >>,
                                         VersionOf(Candidate, << e, "langgraph" >>))
    IN  /\ \A a \in producers("python") : Accepts(Tree[a.commit], {spec("python")})
        /\ \A a \in producers("npm") :
               Tree[a.commit].project[a.package].peer = spec("npm")

Moving(f, final) == finals' = [finals EXCEPT ![f] = final]

(***************************************************************************)
(* stage.  The registries are read in one step, the tag and the release in *)
(* the next, and the draft is written in a third.                          *)
(***************************************************************************)
StageVerify(f, commit) ==
    /\ finals[f] = Idle
    /\ CollectEvidence(commit)
    /\ CheckPhase(MainTree(main), "candidate")
    /\ PublicInstalls
    /\ collected' = collected \cup {Evidence(commit)}
    /\ Moving(f, [kind |-> "stage", phase |-> "verified", commit |-> commit, main |-> main])
    /\ UNCHANGED << main, tag, drafts, public, closeouts >>

TagAllows(commit) == tag \in {Absent, commit}

StageCheckTag(f) ==
    /\ finals[f] # Idle /\ finals[f].phase = "verified"
    /\ Moving(f, IF TagAllows(finals[f].commit) /\ drafts \cup public = {}
                 THEN [finals[f] EXCEPT !.phase = "creating"] ELSE Idle)
    /\ UNCHANGED << main, tag, drafts, public, collected, closeouts >>

\* Whether a draft already creates the tag is up to GitHub.
StageCreateDraft(f) ==
    /\ finals[f] # Idle /\ finals[f].phase = "creating"
    /\ drafts' = drafts \cup {[creator |-> f, target |-> finals[f].commit]}
    /\ tag' \in {tag, IF tag = Absent THEN finals[f].commit ELSE tag}
    /\ Moving(f, Idle)
    /\ UNCHANGED << main, public, collected, closeouts >>

\* complete.
AnyTagTarget(target, commit) == target # Absent
TagTarget(target, commit) == target = commit

CompleteVerify(f, commit) ==
    /\ finals[f] = Idle
    /\ LET tree == MainTree(main)
           release == tree.state.published
       IN  /\ CheckPhase(tree, "published")
           /\ release.version = Candidate.version
           /\ release.sourceCommit = commit
           /\ VerifyCheckedEvidence(release, tree.evidence[release.evidence])
    /\ TagTarget(tag, commit)
    /\ drafts \cup public # {}
    /\ Moving(f, [kind |-> "complete", phase |-> "publishing", commit |-> commit, main |-> main])
    /\ UNCHANGED << main, tag, drafts, public, collected, closeouts >>

\* gh release edit finds the release by its tag: one of the drafts, when there are two.
CompletePublish(f) ==
    /\ finals[f] # Idle /\ finals[f].phase = "publishing"
    /\ \/ \E d \in drafts :
              /\ public = {}
              /\ drafts' = drafts \ {d}
              /\ public' = public \cup {[release |-> d, final |-> finals[f]]}
       \/ public # {} /\ UNCHANGED << drafts, public >>
    /\ Moving(f, Idle)
    /\ UNCHANGED << main, tag, collected, closeouts >>

\* A runner is lost, a network call fails.
FinalFails(f) ==
    /\ finals[f] # Idle
    /\ Moving(f, Idle)
    /\ UNCHANGED << main, tag, drafts, public, collected, closeouts >>

(***************************************************************************)
(* What people do: push the tag once the registries were verified, and     *)
(* merge a closeout, from any evidence that was collected, with any commit.*)
(* A tag, once there, is not moved (docs/releasing.md).                    *)
(***************************************************************************)
PushTag(commit) ==
    /\ collected # {} /\ tag = Absent /\ tag' = commit
    /\ UNCHANGED << main, finals, drafts, public, collected, closeouts >>

MergeCloseout(commit, e, page) ==
    /\ closeouts < MaxCloseouts /\ closeouts' = closeouts + 1
    /\ main' = [page |-> page, commit |-> commit, evidence |-> e]
    /\ UNCHANGED << finals, tag, drafts, public, collected >>

FinNext ==
    \/ \E f \in FinalId :
           \/ \E c \in Named : StageVerify(f, c) \/ CompleteVerify(f, c)
           \/ StageCheckTag(f) \/ StageCreateDraft(f) \/ CompletePublish(f) \/ FinalFails(f)
    \/ \E c \in Named : PushTag(c)
    \/ \E c \in Named, e \in collected, page \in {"closed", "stale"} : MergeCloseout(c, e, page)

relVars == << pubVars, finVars >>

\* A release under way: packages are published and, at any time, finalized.
RelInit == PubInit /\ FinInit
RelNext == (PubNext /\ UNCHANGED finVars) \/ (FinNext /\ UNCHANGED pubVars)
RelSpec == RelInit /\ [][RelNext]_relVars

FinTypeOK ==
    /\ main.page \in {"candidate", "closed", "stale"} /\ main.commit \in Commit \cup {Absent}
    /\ \A f \in FinalId : finals[f] # Idle =>
           finals[f].phase \in {"verified", "creating", "publishing"}
    /\ tag \in Commit \cup {Absent}
    /\ drafts \subseteq Release /\ {x.release : x \in public} \subseteq Release
    /\ closeouts \in 0..MaxCloseouts

(***************************************************************************)
(* A public release is whole: its tag names the commit that the checked    *)
(* release state and the recorded evidence name, and every artifact of the *)
(* evidence is still in the registries' index, at least one a package.     *)
(* Two stages may have raced, the tag may have been pushed by hand, and    *)
(* the closeout may have been merged with another stage's evidence.        *)
(***************************************************************************)
PublicReleaseIsWhole ==
    \A x \in public :
        LET m == x.final.main
        IN  /\ tag = m.commit /\ m.evidence.sourceCommit = m.commit
            /\ {e.package : e \in m.evidence.packages} = Package
            /\ \A e \in m.evidence.packages :
                   e.artifacts # {} /\ e.artifacts \subseteq visible

(***************************************************************************)
(* "Artifact identity is bound independently to the immutable qualified    *)
(* commit by verify_public_release and the tag check"                      *)
(* (release-finalize.yml:50-52): what evidence records for a commit was    *)
(* built from that commit, the packages of earlier releases set aside.     *)
(***************************************************************************)
ArtifactsBoundToCommit ==
    \A e \in collected : \A x \in e.packages :
        x.version # VersionOf(Previous, x.package) =>
            \A a \in x.artifacts : a.commit = e.sourceCommit

\* The workflows and the people around them bring about a coordinated release:
\* specifications before producers, all four before the announcement.
Coordinated == INSTANCE CoordinatedRelease WITH
    available <- {p \in Package : RegistryEvidence(p, VersionOf(Candidate, p)) # {}},
    announced <- public # {}

ImplementsCoordinatedRelease == Coordinated!Spec
================================================================================
