----------------------------- MODULE ReleaseProofs -----------------------------
(***************************************************************************)
(* Proofs about Publish and Finalize, for any commits, runs, faults and     *)
(* finalizations: nothing is published that was not qualified, and the      *)
(* workflows implement the coordinated release.                             *)
(***************************************************************************)
EXTENDS Finalize, TLAPS

-------------------------------------------------------------------------------
(* The inductive invariant of one run: a function of the run and of the     *)
(* artifacts the registries show.                                           *)

\* The step a run is at, or that it would be run again from.
Stage(run) == IF run.phase = "failure" THEN run.from ELSE run.phase

Selected(run) ==
    /\ run.commit \in Coherent /\ CheckVersionCopies(Tree[run.commit])
    /\ run.package = << "npm", "langgraph" >> =>
           run.specVersion = Tree[run.commit].project[run.package].peer

BuiltBy(run) == Built(run.commit, run.package)

\* Past its bundle's last check, with nothing but the preflight and the upload to come.
Checked(run) ==
    run.phase = "upload" \/ (run.phase = "preflight" /\ run.package[1] = "python")

\* The specification a producer needs is shown, in the version its commit prepares.
SpecShown(run, shown) ==
    LET tree == Tree[run.commit]
        seen == Shown(shown, SpecOf(run.package))
    IN  IF run.package[1] = "python"
        THEN Accepts(tree, seen) /\ ResolveProducerSpecVersion(tree) \in seen
        ELSE run.specVersion \in seen

RunOK(run, shown) ==
    /\ Stage(run) \notin {"selection", "success"} => Selected(run)
    /\ run.receipt # Absent => run.receipt.artifacts = BuiltBy(run)
    /\ Stage(run) = "authorize" => run.package[1] = "python" /\ run.dist = BuiltBy(run)
    /\ Stage(run) \in {"preflight", "publish", "upload"} => run.receipt # Absent
    /\ Stage(run) \in {"publish", "upload"} \/ Checked(run) => run.publish
    /\ Checked(run) =>
           run.dist = BuiltBy(run) /\ (run.package[1] = "python" => run.dist \subseteq Sound)
    /\ run.package[2] = "langgraph" =>
           /\ run.phase = "upload" => SpecShown(run, shown)
           /\ run.package[1] = "npm" /\ Stage(run) = "publish" => SpecShown(run, shown)
    /\ run.phase = "failure" /\ run.from # "selection" => run.reruns < MaxReruns
    /\ run.phase = "failure" /\ run.from = "preflight" => run.package[1] # "python"

\* A producer in the version of the release is never there before its specification.
InOrder(stored, shown) ==
    \A p \in Package : Holds(stored, p) /\ p[2] = "langgraph" => Holds(shown, SpecOf(p))

RunsTyped == runs \in [RunId -> RunType \cup {NoRun}]
RunsOK == \A r \in RunId : runs[r] # NoRun => RunOK(runs[r], visible)

\* What the registries hold and show.
Stock ==
    /\ visible \subseteq registry /\ registry \subseteq Artifact
    /\ \A a \in registry : a.kind = "wheel" => a \in Sound
    /\ ProducerInstalls /\ PublishedWasQualified
    /\ InOrder(registry, visible)

PubInv == PubTypeOK /\ RunsOK /\ Stock

-------------------------------------------------------------------------------
(* The inductive invariant of the finalizations.                            *)

\* What complete has verified of main before it publishes.
Whole(m) ==
    /\ tag = m.commit /\ tag # Absent
    /\ m.evidence.sourceCommit = m.commit
    /\ {e.package : e \in m.evidence.packages} = Package
    /\ \A e \in m.evidence.packages : e.artifacts # {} /\ e.artifacts \subseteq visible

AllHeld == \A p \in Package : Holds(visible, p)

\* What is true of a finalization at work.
FinalOK(final) ==
    /\ {"phase", "commit"} \subseteq DOMAIN final
    /\ final.phase \in {"verified", "creating", "publishing"} /\ final.commit \in Commit
    /\ final.phase = "publishing" => Whole(final.main) /\ AllHeld

FinInv ==
    /\ FinTypeOK
    /\ finals = [f \in FinalId |-> finals[f]]
    /\ \A f \in FinalId : finals[f] # Idle => FinalOK(finals[f])
    /\ \A x \in public : Whole(x.final.main)
    /\ public # {} => AllHeld

RelInv == PubInv /\ FinInv

-------------------------------------------------------------------------------
(* How a run moves.                                                         *)

LEMMA BareFields ==
    ASSUME NEW run \in RunType
    PROVE  /\ Bare(run) \in RunType
           /\ Bare(run).package = run.package /\ Bare(run).commit = run.commit
           /\ Bare(run).publish = run.publish /\ Bare(run).receipt = run.receipt
           /\ Bare(run).phase = run.phase
<1>1. 1 \in 1..Attempts
  BY DEF Attempts
<1>2. {} \in SUBSET Artifact
  OBVIOUS
<1>3. QED
  BY <1>1, <1>2 DEF Bare, RunType

LEMMA SucceededFields ==
    ASSUME NEW run \in RunType
    PROVE  /\ Succeeded(run) \in RunType
           /\ Succeeded(run).package = run.package /\ Succeeded(run).commit = run.commit
           /\ Succeeded(run).publish = run.publish /\ Succeeded(run).receipt = run.receipt
           /\ Succeeded(run).phase = "success"
<1>1. PICK bare : bare = Bare(run)
  OBVIOUS
<1>2. /\ bare \in RunType
      /\ bare.package = run.package /\ bare.commit = run.commit
      /\ bare.publish = run.publish /\ bare.receipt = run.receipt
  BY <1>1, BareFields
<1>3. Succeeded(run) = [bare EXCEPT !.phase = "success", !.from = "selection", !.reruns = 0]
  BY <1>1 DEF Succeeded
<1>4. 0 \in 0..MaxReruns
  BY WorkflowAssumption DEF PublishAssumption
<1>5. QED
  BY <1>2, <1>3, <1>4, ZenonT(60) DEF RunType

LEMMA FailedFields ==
    ASSUME NEW run \in RunType, run.phase \in Working
    PROVE  /\ Failed(run) \in RunType
           /\ Failed(run).package = run.package /\ Failed(run).commit = run.commit
           /\ Failed(run).publish = run.publish /\ Failed(run).receipt = run.receipt
           /\ Failed(run).phase = "failure"
           /\ \/ Failed(run).from = "selection"
              \/ /\ Failed(run).from = JobOf(run) /\ run.reruns # MaxReruns
                 /\ Failed(run).dist = run.dist /\ Failed(run).reruns = run.reruns
                 /\ Failed(run).specVersion = run.specVersion
<1>1. CASE JobOf(run) = "selection" \/ run.reruns = MaxReruns
  <2>1. PICK bare : bare = Bare(run)
    OBVIOUS
  <2>2. /\ bare \in RunType
        /\ bare.package = run.package /\ bare.commit = run.commit
        /\ bare.publish = run.publish /\ bare.receipt = run.receipt
    BY <2>1, BareFields
  <2>3. Failed(run) = [bare EXCEPT !.phase = "failure", !.from = "selection", !.reruns = 0]
    BY <1>1, <2>1 DEF Failed
  <2>4. 0 \in 0..MaxReruns
    BY WorkflowAssumption DEF PublishAssumption
  <2>5. QED
    BY <2>2, <2>3, <2>4, ZenonT(60) DEF RunType
<1>2. CASE ~(JobOf(run) = "selection" \/ run.reruns = MaxReruns)
  <2>1. PICK job : job = JobOf(run)
    OBVIOUS
  <2>2. Failed(run) = [run EXCEPT !.phase = "failure", !.from = job, !.attempt = 1, !.sent = {}]
    BY <1>2, <2>1 DEF Failed
  <2>3. job \in {"artifact", "authorize", "preflight", "publish"}
    BY <1>2, <2>1 DEF JobOf, Working
  <2>4. 1 \in 1..Attempts /\ {} \in SUBSET Artifact
    BY DEF Attempts
  <2>5. QED
    BY <1>2, <2>1, <2>2, <2>3, <2>4 DEF RunType
<1>3. QED
  BY <1>1, <1>2

LEMMA RunFields ==
    ASSUME NEW run \in RunType
    PROVE  /\ run.phase \in Working \cup {"success", "failure"}
           /\ run.from \in {"selection", "artifact", "authorize", "preflight", "publish"}
           /\ run.package \in Package /\ run.commit \in Commit /\ run.commit \in DOMAIN Follows
           /\ run.package[1] \in {"python", "npm"} /\ run.package[2] \in {"spec", "langgraph"}
           /\ run.version \in AnyVersion /\ run.dist \in SUBSET Artifact
           /\ run.receipt \in ReceiptType \cup {Absent}
           /\ run.attempt \in 1..Attempts /\ run.reruns \in 0..MaxReruns
           /\ run # NoRun
<1>1. DOMAIN Follows \subseteq Commit /\ NoRun \notin RunType
  BY WorkflowAssumption DEF PublishAssumption
<1>2. /\ run.phase \in Working \cup {"success", "failure"}
      /\ run.from \in {"selection", "artifact", "authorize", "preflight", "publish"}
      /\ run.package \in Package /\ run.commit \in DOMAIN Follows
      /\ run.version \in AnyVersion /\ run.dist \in SUBSET Artifact
      /\ run.receipt \in ReceiptType \cup {Absent}
      /\ run.attempt \in 1..Attempts /\ run.reruns \in 0..MaxReruns
  BY DEF RunType
<1>3. run.package[1] \in {"python", "npm"} /\ run.package[2] \in {"spec", "langgraph"}
  BY <1>2 DEF Package
<1>4. QED
  BY <1>1, <1>2, <1>3

\* What a step of a run leaves: whom it is for, and that it has its receipt.
Kept(run, new) ==
    /\ new.package = run.package /\ new.commit = run.commit /\ new.publish = run.publish
    /\ run.receipt # Absent => new.receipt # Absent

Progressed(run, new, shown) == new \in RunType /\ RunOK(new, shown) /\ Kept(run, new)

LEMMA FailedOK ==
    ASSUME NEW run \in RunType, NEW shown, run.phase \in Working, RunOK(run, shown)
    PROVE  Progressed(run, Failed(run), shown)
<1>1. PICK new : new = Failed(run)
  OBVIOUS
<1>2. /\ new \in RunType
      /\ new.package = run.package /\ new.commit = run.commit
      /\ new.publish = run.publish /\ new.receipt = run.receipt
      /\ new.phase = "failure"
      /\ \/ new.from = "selection"
         \/ /\ new.from = JobOf(run) /\ run.reruns # MaxReruns
            /\ new.dist = run.dist /\ new.reruns = run.reruns
            /\ new.specVersion = run.specVersion
  BY <1>1, FailedFields
<1>3. run.phase # "failure" /\ run.phase # "success"
  BY DEF Working
<1>4. BuiltBy(new) = BuiltBy(run) /\ ~Checked(new) /\ Stage(new) = new.from
      /\ Stage(run) = run.phase
  BY <1>2, <1>3 DEF BuiltBy, Checked, Stage
<1>5. CASE new.from = "selection"
  <2>1. Stage(new) = "selection" /\ ~Checked(new) /\ new.phase # "upload"
    BY <1>2, <1>4, <1>5
  <2>2. new.receipt # Absent => new.receipt.artifacts = BuiltBy(new)
    BY <1>2, <1>4 DEF RunOK
  <2>3. RunOK(new, shown)
    BY <2>1, <2>2, <1>5 DEF RunOK
  <2>4. QED
    BY <1>1, <1>2, <2>3 DEF Progressed, Kept
<1>6. CASE new.from # "selection"
  <2>1. /\ new.from = JobOf(run) /\ run.reruns # MaxReruns
        /\ new.dist = run.dist /\ new.reruns = run.reruns
        /\ new.specVersion = run.specVersion
    BY <1>2, <1>6
  <2>2. /\ new.from \in {"artifact", "authorize", "preflight", "publish"}
        /\ new.from = run.phase \/ (new.from = "publish" /\ run.phase = "upload")
             \/ (new.from = "publish" /\ Checked(run))
    BY <1>6, <2>1 DEF JobOf, Working, Checked
  <2>3. Selected(new)
    BY <1>2, <1>3, <1>4, <1>6, <2>1, <2>2 DEF RunOK, Selected, Checked
  <2>4. new.reruns < MaxReruns
    <3>1. run.reruns \in 0..MaxReruns /\ MaxReruns \in Nat
      BY WorkflowAssumption DEF RunType, PublishAssumption
    <3>2. QED
      BY <3>1, <2>1
  <2>5. new.package[2] = "langgraph" /\ new.package[1] = "npm" /\ new.from = "publish"
          => SpecShown(new, shown)
    <3>1. SUFFICES ASSUME new.package[2] = "langgraph", new.package[1] = "npm",
                          new.from = "publish"
                   PROVE  SpecShown(new, shown)
      OBVIOUS
    <3>2. run.phase \in {"publish", "upload"}
      BY <3>1, <1>2, <2>2 DEF Checked
    <3>3. SpecShown(run, shown)
      BY <3>1, <3>2, <1>2, <1>4 DEF RunOK
    <3>4. QED
      BY <3>1, <3>3, <1>2, <2>1 DEF SpecShown
  <2>6. new.receipt # Absent => new.receipt.artifacts = BuiltBy(new)
    BY <1>2, <1>4 DEF RunOK
  <2>7. new.from = "authorize" => new.package[1] = "python" /\ new.dist = BuiltBy(new)
    BY <1>2, <1>4, <2>1, <2>2 DEF RunOK
  <2>8. new.from \in {"preflight", "publish"} => new.receipt # Absent
    BY <1>2, <1>4, <2>2 DEF RunOK, Checked
  <2>9. new.from = "publish" => new.publish
    BY <1>2, <1>4, <2>2 DEF RunOK
  <2>10. /\ Stage(new) = new.from /\ ~Checked(new) /\ new.phase = "failure"
         /\ new.from \in {"artifact", "authorize", "preflight", "publish"}
    BY <1>2, <1>4, <2>2
  <2>11. new.from = "preflight" => new.package[1] # "python"
    BY <1>2, <2>1 DEF JobOf
  <2>12. RunOK(new, shown)
    BY <2>3, <2>4, <2>5, <2>6, <2>7, <2>8, <2>9, <2>10, <2>11 DEF RunOK
  <2>13. QED
    BY <1>1, <1>2, <2>12 DEF Progressed, Kept
<1>7. QED
  BY <1>5, <1>6

LEMMA SucceededOK ==
    ASSUME NEW run \in RunType, NEW shown, RunOK(run, shown)
    PROVE  Progressed(run, Succeeded(run), shown)
<1>1. PICK new : new = Succeeded(run)
  OBVIOUS
<1>2. /\ new \in RunType
      /\ new.package = run.package /\ new.commit = run.commit
      /\ new.publish = run.publish /\ new.receipt = run.receipt
      /\ new.phase = "success"
  BY <1>1, SucceededFields
<1>3. BuiltBy(new) = BuiltBy(run) /\ ~Checked(new) /\ Stage(new) = "success"
  BY <1>2 DEF BuiltBy, Checked, Stage
<1>4. RunOK(new, shown)
  BY <1>2, <1>3 DEF RunOK
<1>5. QED
  BY <1>1, <1>2, <1>4 DEF Progressed, Kept

\* The registries show more and more: what was there is there.
LEMMA ShownGrows ==
    ASSUME NEW few, NEW many, few \subseteq many, NEW p
    PROVE  /\ Shown(few, p) \subseteq Shown(many, p)
           /\ \A tree : Accepts(tree, Shown(few, p)) => Accepts(tree, Shown(many, p))
<1>1. Shown(few, p) \subseteq Shown(many, p)
  BY DEF Shown
<1>2. QED
  BY <1>1 DEF Accepts

LEMMA RunGrows ==
    ASSUME NEW run, NEW few, NEW many, few \subseteq many, RunOK(run, few)
    PROVE  RunOK(run, many)
<1>1. SpecShown(run, few) => SpecShown(run, many)
  BY ShownGrows DEF SpecShown
<1>2. QED
  BY <1>1 DEF RunOK

-------------------------------------------------------------------------------
(* One lemma for each step of a run.                                        *)

\* A run that is under way goes on, and keeps what is true of it.
Proceeds(r) ==
    runs[r] # NoRun /\ \E new : Moves(r, new) /\ Progressed(runs[r], new, visible)

LEMMA WhoMoves ==
    ASSUME RunsTyped, RunsOK, NEW r \in RunId, NEW phase, At(r, phase)
    PROVE  /\ runs[r] # NoRun /\ runs[r] \in RunType /\ RunOK(runs[r], visible)
           /\ runs[r].phase = phase
BY DEF RunsTyped, RunsOK, At

LEMMA SelectionProceeds ==
    ASSUME RunsTyped, RunsOK, NEW r \in RunId, Selection(r)
    PROVE  Proceeds(r)
<1>1. At(r, "selection")
  BY DEF Selection
<1>2. PICK run \in RunType : run = runs[r]
  BY <1>1, WhoMoves
<1>3. runs[r] # NoRun /\ RunOK(run, visible) /\ run.phase = "selection"
  BY <1>1, <1>2, WhoMoves
<1>4. PICK tree : tree = Tree[run.commit]
  OBVIOUS
<1>5. CASE /\ run.commit \in Coherent
           /\ ValidateSelection(tree, run.package, run.version, tree.ref, run.specVersion)
  <2>1. PICK pinned : pinned = IF run.package[2] = "spec" THEN run.version ELSE run.specVersion
    OBVIOUS
  <2>2. PICK new : new = [run EXCEPT !.phase = "artifact", !.specVersion = pinned]
    OBVIOUS
  <2>3. Moves(r, new)
    BY <1>2, <1>4, <1>5, <2>1, <2>2 DEF Selection
  <2>4. pinned \in AnyVersion \cup {Absent}
    BY <2>1 DEF RunType
  <2>5. new \in RunType
    BY <2>2, <2>4 DEF RunType, Working
  <2>6. /\ new.phase = "artifact" /\ new.package = run.package /\ new.commit = run.commit
        /\ new.publish = run.publish /\ new.receipt = run.receipt
        /\ new.specVersion = pinned
    BY <2>2 DEF RunType
  <2>7. Selected(new)
    BY <1>4, <1>5, <2>1, <2>6 DEF Selected, ValidateSelection
  <2>8. BuiltBy(new) = BuiltBy(run) /\ ~Checked(new) /\ Stage(new) = "artifact"
    BY <2>6 DEF BuiltBy, Checked, Stage
  <2>9. RunOK(new, visible)
    BY <1>3, <2>6, <2>7, <2>8 DEF RunOK
  <2>10. QED
    BY <1>2, <1>3, <2>3, <2>5, <2>6, <2>9 DEF Proceeds, Progressed, Kept
<1>6. CASE ~(/\ run.commit \in Coherent
             /\ ValidateSelection(tree, run.package, run.version, tree.ref, run.specVersion))
  <2>1. Moves(r, Failed(run))
    BY <1>2, <1>4, <1>6 DEF Selection
  <2>2. Progressed(run, Failed(run), visible)
    BY <1>3, FailedOK, SMTT(60) DEF Working
  <2>3. QED
    BY <1>2, <1>3, <2>1, <2>2 DEF Proceeds
<1>7. QED
  BY <1>5, <1>6

\* What an inspection and a receipt of a Python run say about its bundle.
LEMMA InspectedBundle ==
    ASSUME NEW run \in RunType, Inspected(run)
    PROVE  run.dist \subseteq Sound
BY DEF Inspected, Py!InspectArtifacts

LEMMA BuiltIsArtifact ==
    ASSUME NEW c \in Commit, NEW p \in Package
    PROVE  Built(c, p) \subseteq Artifact
BY DEF Built, Kinds, Artifact, Package

LEMMA ReceiptFields ==
    ASSUME NEW run \in RunType, run.version \in AnyVersion
    PROVE  /\ Receipt(run) \in ReceiptType /\ Receipt(run) # Absent
           /\ Receipt(run).artifacts = run.dist
<1>1. Absent \notin ReceiptType
  BY WorkflowAssumption DEF PublishAssumption
<1>2. /\ run.package \in Package /\ run.commit \in Commit
      /\ run.package[1] \in {"python", "npm"} /\ run.package[2] \in {"spec", "langgraph"}
      /\ run.dist \in SUBSET Artifact
  BY RunFields
<1>3. CASE run.package[1] = "python"
  <2>1. PICK checks : checks = RequiredChecks(run.package[2])
    OBVIOUS
  <2>2. checks \in SUBSET AnyCheck
    BY <1>2, <2>1 DEF AnyCheck, RequiredChecks
  <2>3. Receipt(run) = [package |-> run.package, version |-> run.version,
                        commit |-> run.commit, checks |-> checks, artifacts |-> run.dist]
    BY <1>3, <2>1 DEF Receipt
  <2>4. QED
    BY <1>1, <1>2, <2>2, <2>3 DEF ReceiptType
<1>4. CASE run.package[1] # "python"
  <2>1. PICK checks : checks = Npm!NpmChecks[run.package[2]]
    OBVIOUS
  <2>2. checks \in SUBSET AnyCheck
    BY <1>2, <2>1 DEF AnyCheck, Npm!NpmChecks
  <2>3. Receipt(run) = [package |-> << "npm", run.package[2] >>, version |-> run.version,
                        commit |-> run.commit, checks |-> checks, artifacts |-> run.dist]
    BY <1>4, <2>1 DEF Receipt, Npm!MakeReceipt
  <2>4. << "npm", run.package[2] >> \in Package
    BY <1>2 DEF Package
  <2>5. QED
    BY <1>1, <1>2, <2>2, <2>3, <2>4 DEF ReceiptType
<1>5. QED
  BY <1>3, <1>4

\* A change of what a run is doing, with nothing else that Kept looks at changed.
LEMMA ProceedsBy ==
    ASSUME NEW r \in RunId, NEW run, run = runs[r], runs[r] # NoRun,
           NEW new, Moves(r, new), Progressed(run, new, visible)
    PROVE  Proceeds(r)
BY DEF Proceeds

LEMMA BuildArtifactProceeds ==
    ASSUME RunsTyped, RunsOK, NEW r \in RunId, BuildArtifact(r)
    PROVE  Proceeds(r)
<1>1. At(r, "artifact")
  BY DEF BuildArtifact
<1>2. PICK old \in RunType : old = runs[r]
  BY <1>1, WhoMoves
<1>3. runs[r] # NoRun /\ RunOK(old, visible) /\ old.phase = "artifact"
  BY <1>1, <1>2, WhoMoves
<1>4. /\ old.package \in Package /\ old.commit \in Commit
      /\ old.package[1] \in {"python", "npm"} /\ old.version \in AnyVersion
  BY RunFields
<1>5. PICK built : built = BuiltBy(old)
  OBVIOUS
<1>6. built \in SUBSET Artifact
  BY <1>4, <1>5, BuiltIsArtifact DEF BuiltBy
<1>7. PICK run : run = [old EXCEPT !.dist = built]
  OBVIOUS
<1>8. run \in RunType
  BY <1>6, <1>7 DEF RunType
<1>9. /\ run.phase = old.phase /\ run.package = old.package /\ run.commit = old.commit
      /\ run.publish = old.publish /\ run.receipt = old.receipt /\ run.dist = built
      /\ run.specVersion = old.specVersion /\ run.version = old.version
      /\ run.from = old.from /\ run.reruns = old.reruns
  BY <1>7 DEF RunType
<1>10. /\ BuiltBy(run) = BuiltBy(old) /\ Stage(run) = "artifact" /\ Stage(old) = "artifact"
       /\ ~Checked(run)
  BY <1>3, <1>9 DEF BuiltBy, Stage, Checked
<1>11. Selected(run)
  BY <1>3, <1>9, <1>10 DEF RunOK, Selected
<1>12. RunOK(run, visible)
  <2>1. run.receipt # Absent => run.receipt.artifacts = BuiltBy(run)
    BY <1>3, <1>9, <1>10 DEF RunOK
  <2>2. QED
    BY <1>3, <1>9, <1>10, <1>11, <2>1 DEF RunOK
<1>13. run = [runs[r] EXCEPT !.dist = Built(runs[r].commit, runs[r].package)]
  BY <1>2, <1>5, <1>7 DEF BuiltBy
<1>14. \/ Moves(r, Failed(run))
       \/ run.package[1] = "python" /\ Moves(r, [run EXCEPT !.phase = "authorize"])
       \/ /\ run.package[1] # "python"
          /\ Moves(r, [run EXCEPT !.phase = "preflight", !.receipt = Receipt(run)])
  <2>1. \/ Moves(r, Failed(run))
        \/ run.package[1] = "python" /\ Moves(r, IF Inspected(run) THEN [run EXCEPT !.phase = "authorize"]
                         ELSE Failed(run))
        \/ run.package[1] # "python" /\ Moves(r, IF NpmInspected(run)
                         THEN [run EXCEPT !.phase = "preflight", !.receipt = Receipt(run)]
                         ELSE Failed(run))
    BY <1>13 DEF BuildArtifact
  <2>2. QED
    BY <2>1
<1>15. CASE Moves(r, Failed(run))
  <2>1. Progressed(run, Failed(run), visible)
    BY <1>3, <1>8, <1>9, <1>12, FailedOK DEF Working
  <2>2. Progressed(old, Failed(run), visible)
    BY <1>9, <2>1 DEF Progressed, Kept
  <2>3. QED
    BY <1>2, <1>3, <1>15, <2>2, ProceedsBy
<1>16. CASE run.package[1] = "python" /\ Moves(r, [run EXCEPT !.phase = "authorize"])
  <2>1. PICK new : new = [run EXCEPT !.phase = "authorize"]
    OBVIOUS
  <2>2. new \in RunType
    BY <1>8, <2>1 DEF RunType, Working
  <2>3. /\ new.phase = "authorize" /\ new.package = run.package /\ new.commit = run.commit
        /\ new.publish = run.publish /\ new.receipt = run.receipt /\ new.dist = run.dist
        /\ new.specVersion = run.specVersion
    BY <1>8, <2>1 DEF RunType
  <2>4. Stage(new) = "authorize" /\ ~Checked(new) /\ BuiltBy(new) = BuiltBy(run)
    BY <2>3 DEF Stage, Checked, BuiltBy
  <2>5. Selected(new)
    BY <1>11, <2>3 DEF Selected
  <2>6. new.dist = BuiltBy(new)
    BY <1>5, <1>9, <1>10, <2>3, <2>4
  <2>7. new.receipt # Absent => new.receipt.artifacts = BuiltBy(new)
    BY <1>12, <2>3, <2>4 DEF RunOK
  <2>8. RunOK(new, visible)
    BY <1>16, <2>3, <2>4, <2>5, <2>6, <2>7 DEF RunOK
  <2>9. Progressed(old, new, visible)
    BY <1>9, <2>2, <2>3, <2>8 DEF Progressed, Kept
  <2>10. QED
    BY <1>2, <1>3, <1>16, <2>1, <2>9, ProceedsBy
<1>17. CASE /\ run.package[1] # "python"
            /\ Moves(r, [run EXCEPT !.phase = "preflight", !.receipt = Receipt(run)])
  <2>1. PICK receipt : receipt = Receipt(run)
    OBVIOUS
  <2>2. receipt \in ReceiptType /\ receipt # Absent /\ receipt.artifacts = run.dist
    BY <1>4, <1>8, <1>9, <2>1, ReceiptFields
  <2>3. PICK new : new = [run EXCEPT !.phase = "preflight", !.receipt = receipt]
    OBVIOUS
  <2>4. new \in RunType
    BY <1>8, <2>2, <2>3 DEF RunType, Working
  <2>5. /\ new.phase = "preflight" /\ new.package = run.package /\ new.commit = run.commit
        /\ new.publish = run.publish /\ new.receipt = receipt /\ new.dist = run.dist
        /\ new.specVersion = run.specVersion
    BY <1>8, <2>3 DEF RunType
  <2>6. Stage(new) = "preflight" /\ ~Checked(new) /\ BuiltBy(new) = BuiltBy(run)
    BY <1>17, <2>5 DEF Stage, Checked, BuiltBy
  <2>7. Selected(new)
    BY <1>11, <2>5 DEF Selected
  <2>8. new.receipt.artifacts = BuiltBy(new)
    BY <1>5, <1>9, <1>10, <2>2, <2>5, <2>6
  <2>9. RunOK(new, visible)
    BY <2>2, <2>5, <2>6, <2>7, <2>8 DEF RunOK
  <2>10. Progressed(old, new, visible)
    BY <1>9, <2>2, <2>4, <2>5, <2>9 DEF Progressed, Kept
  <2>11. Moves(r, new)
    BY <1>17, <2>1, <2>3
  <2>12. QED
    BY <1>2, <1>3, <2>10, <2>11, ProceedsBy
<1>18. QED
  BY <1>14, <1>15, <1>16, <1>17

LEMMA AuthorizeProceeds ==
    ASSUME RunsTyped, RunsOK, NEW r \in RunId, Authorize(r)
    PROVE  Proceeds(r)
<1>1. At(r, "authorize")
  BY DEF Authorize
<1>2. PICK run \in RunType : run = runs[r]
  BY <1>1, WhoMoves
<1>3. runs[r] # NoRun /\ RunOK(run, visible) /\ run.phase = "authorize"
  BY <1>1, <1>2, WhoMoves
<1>4. run.version \in AnyVersion
  BY RunFields
<1>5. Stage(run) = "authorize"
  BY <1>3 DEF Stage
<1>6. run.dist = BuiltBy(run) /\ Selected(run)
  BY <1>3, <1>5 DEF RunOK
<1>7. PICK receipt : receipt = Receipt(run)
  OBVIOUS
<1>8. receipt \in ReceiptType /\ receipt # Absent /\ receipt.artifacts = run.dist
  BY <1>4, <1>7, ReceiptFields
<1>9. \/ Moves(r, Failed(run))
      \/ run.publish /\ Moves(r, [run EXCEPT !.phase = "publish", !.receipt = receipt])
                     /\ Inspected(run)
      \/ Moves(r, Succeeded([run EXCEPT !.receipt = receipt]))
  BY <1>2, <1>7 DEF Authorize
<1>10. CASE Moves(r, Failed(run))
  <2>1. Progressed(run, Failed(run), visible)
    BY <1>3, FailedOK DEF Working
  <2>2. QED
    BY <1>2, <1>3, <1>10, <2>1, ProceedsBy
<1>11. CASE run.publish /\ Moves(r, [run EXCEPT !.phase = "publish", !.receipt = receipt])
  <2>1. PICK new : new = [run EXCEPT !.phase = "publish", !.receipt = receipt]
    OBVIOUS
  <2>2. new \in RunType
    BY <1>8, <2>1 DEF RunType, Working
  <2>3. /\ new.phase = "publish" /\ new.package = run.package /\ new.commit = run.commit
        /\ new.publish = run.publish /\ new.receipt = receipt /\ new.dist = run.dist
        /\ new.specVersion = run.specVersion
    BY <2>1 DEF RunType
  <2>4. Stage(new) = "publish" /\ ~Checked(new) /\ BuiltBy(new) = BuiltBy(run)
    BY <2>3 DEF Stage, Checked, BuiltBy
  <2>5. Selected(new) /\ new.receipt.artifacts = BuiltBy(new) /\ new.package[1] = "python"
    BY <1>3, <1>5, <1>6, <1>8, <2>3, <2>4 DEF Selected, RunOK
  <2>6. RunOK(new, visible)
    BY <1>8, <1>11, <2>3, <2>4, <2>5 DEF RunOK
  <2>7. Progressed(run, new, visible)
    BY <1>8, <2>2, <2>3, <2>6 DEF Progressed, Kept
  <2>8. QED
    BY <1>2, <1>3, <1>11, <2>1, <2>7, ProceedsBy
<1>12. CASE Moves(r, Succeeded([run EXCEPT !.receipt = receipt]))
  <2>1. PICK mid : mid = [run EXCEPT !.receipt = receipt]
    OBVIOUS
  <2>2. mid \in RunType
    BY <1>8, <2>1 DEF RunType
  <2>3. /\ mid.phase = "authorize" /\ mid.package = run.package /\ mid.commit = run.commit
        /\ mid.publish = run.publish /\ mid.receipt = receipt /\ mid.dist = run.dist
        /\ mid.specVersion = run.specVersion
    BY <1>3, <2>1 DEF RunType
  <2>4. Stage(mid) = "authorize" /\ ~Checked(mid) /\ BuiltBy(mid) = BuiltBy(run)
    BY <2>3 DEF Stage, Checked, BuiltBy
  <2>5. Selected(mid) /\ mid.receipt.artifacts = BuiltBy(mid) /\ mid.package[1] = "python"
    BY <1>3, <1>5, <1>6, <1>8, <2>3, <2>4 DEF Selected, RunOK
  <2>6. RunOK(mid, visible)
    BY <1>6, <1>8, <2>3, <2>4, <2>5 DEF RunOK
  <2>7. Progressed(mid, Succeeded(mid), visible)
    BY <2>2, <2>6, SucceededOK
  <2>8. Progressed(run, Succeeded(mid), visible)
    BY <1>8, <2>3, <2>7 DEF Progressed, Kept
  <2>9. QED
    BY <1>2, <1>3, <1>12, <2>1, <2>8, ProceedsBy
<1>13. QED
  BY <1>9, <1>10, <1>11, <1>12

\* One run is the other, at another phase.
AtPhase(run, new, phase) ==
    /\ new \in RunType /\ new.phase = phase /\ Stage(new) = phase
    /\ new.package = run.package /\ new.commit = run.commit
    /\ new.publish = run.publish /\ new.receipt = run.receipt /\ new.dist = run.dist
    /\ new.specVersion = run.specVersion /\ BuiltBy(new) = BuiltBy(run)
    /\ Selected(run) => Selected(new)
    /\ SpecShown(run, visible) => SpecShown(new, visible)
    /\ Kept(run, new)

LEMMA PhaseFields ==
    ASSUME NEW run \in RunType, NEW phase \in Working,
           NEW new, new = [run EXCEPT !.phase = phase]
    PROVE  AtPhase(run, new, phase)
<1>1. /\ new \in RunType /\ new.phase = phase
      /\ new.package = run.package /\ new.commit = run.commit
      /\ new.publish = run.publish /\ new.receipt = run.receipt /\ new.dist = run.dist
      /\ new.specVersion = run.specVersion
  BY DEF RunType
<1>2. phase # "failure"
  BY DEF Working
<1>3. BuiltBy(new) = BuiltBy(run) /\ Stage(new) = phase /\ Kept(run, new)
  BY <1>1, <1>2 DEF BuiltBy, Stage, Kept
<1>4. Selected(run) => Selected(new)
  BY <1>1 DEF Selected
<1>5. SpecShown(run, visible) => SpecShown(new, visible)
  BY <1>1 DEF SpecShown
<1>6. QED
  BY <1>1, <1>3, <1>4, <1>5 DEF AtPhase

LEMMA CheckBundleProceeds ==
    ASSUME RunsTyped, RunsOK, NEW r \in RunId, CheckBundle(r)
    PROVE  Proceeds(r)
<1>1. At(r, "publish")
  BY DEF CheckBundle
<1>2. PICK run \in RunType : run = runs[r]
  BY <1>1, WhoMoves
<1>3. runs[r] # NoRun /\ RunOK(run, visible) /\ run.phase = "publish"
  BY <1>1, <1>2, WhoMoves
<1>4. PICK phase : phase = IF run.package[1] = "python" /\ NeedsPreflight(run)
                           THEN "preflight" ELSE "upload"
  OBVIOUS
<1>5. PICK new : new = [run EXCEPT !.phase = phase]
  OBVIOUS
<1>6. Moves(r, Failed(run)) \/ (BundleMatchesReceipt(run) /\ Moves(r, new))
  BY <1>2, <1>4, <1>5 DEF CheckBundle
<1>7. CASE Moves(r, Failed(run))
  <2>1. Progressed(run, Failed(run), visible)
    BY <1>3, FailedOK DEF Working
  <2>2. QED
    BY <1>2, <1>3, <1>7, <2>1, ProceedsBy
<1>8. CASE BundleMatchesReceipt(run) /\ Moves(r, new)
  <2>1. run.version \in AnyVersion
    BY RunFields
  <2>2. Stage(run) = "publish"
    BY <1>3 DEF Stage
  <2>3. /\ run.receipt # Absent /\ run.receipt.artifacts = BuiltBy(run) /\ Selected(run)
        /\ run.publish
        /\ run.package[2] = "langgraph" /\ run.package[1] = "npm" => SpecShown(run, visible)
    BY <1>3, <2>2 DEF RunOK
  <2>4. run.package[1] = "python" => run.receipt = Receipt(run) /\ Inspected(run)
    BY <1>8 DEF BundleMatchesReceipt
  <2>5. run.receipt.artifacts = run.dist
    <3>1. CASE run.package[1] = "python"
      BY <2>1, <2>4, <3>1, ReceiptFields
    <3>2. CASE run.package[1] # "python"
      BY <1>8, <3>2 DEF BundleMatchesReceipt, Npm!CheckReceipt, Npm!MakeReceipt
    <3>3. QED
      BY <3>1, <3>2
  <2>6. run.package[1] = "python" => run.dist \subseteq Sound
    BY <2>4, InspectedBundle
  <2>7. phase \in Working
    BY <1>4 DEF Working
  <2>8. AtPhase(run, new, phase)
    BY <1>5, <2>7, PhaseFields
  <2>9. run.package[1] \in {"python", "npm"}
    BY RunFields
  <2>10. new.phase = "upload" /\ new.package[2] = "langgraph" => SpecShown(new, visible)
    BY <1>4, <2>3, <2>8, <2>9 DEF NeedsPreflight, AtPhase
  <2>11. Stage(new) \in {"preflight", "upload"} /\ new.phase \in {"preflight", "upload"}
    BY <1>4, <2>8 DEF AtPhase
  <2>12. RunOK(new, visible)
    BY <2>3, <2>5, <2>6, <2>8, <2>10, <2>11 DEF RunOK, AtPhase
  <2>13. QED
    BY <1>2, <1>3, <1>8, <2>8, <2>12, ProceedsBy DEF Progressed, AtPhase
<1>9. QED
  BY <1>6, <1>7, <1>8

LEMMA RetryOK ==
    ASSUME NEW run \in RunType, run.phase = "preflight", RunOK(run, visible)
    PROVE  Progressed(run, Retry(run), visible)
<1>1. CASE run.attempt < Attempts
  <2>1. PICK attempt : attempt = run.attempt + 1
    OBVIOUS
  <2>2. run.attempt \in 1..Attempts
    BY RunFields
  <2>3. attempt \in 1..Attempts
    BY <1>1, <2>1, <2>2 DEF Attempts
  <2>4. PICK new : new = [run EXCEPT !.attempt = attempt]
    OBVIOUS
  <2>5. Retry(run) = new
    BY <1>1, <2>1, <2>4 DEF Retry, RunType
  <2>6. /\ new \in RunType /\ new.phase = run.phase
        /\ new.package = run.package /\ new.commit = run.commit
        /\ new.publish = run.publish /\ new.receipt = run.receipt /\ new.dist = run.dist
        /\ new.specVersion = run.specVersion
    BY <2>3, <2>4 DEF RunType
  <2>7. /\ BuiltBy(new) = BuiltBy(run) /\ Stage(new) = "preflight" /\ Stage(run) = "preflight"
        /\ Checked(new) = Checked(run)
    BY <2>6 DEF BuiltBy, Stage, Checked
  <2>8. Selected(new)
    BY <2>6, <2>7 DEF RunOK, Selected
  <2>9. RunOK(new, visible)
    BY <2>6, <2>7, <2>8 DEF RunOK
  <2>10. QED
    BY <2>5, <2>6, <2>9 DEF Progressed, Kept
<1>2. CASE ~(run.attempt < Attempts)
  <2>1. Retry(run) = Failed(run)
    BY <1>2 DEF Retry
  <2>2. QED
    BY <2>1, FailedOK DEF Working
<1>3. QED
  BY <1>1, <1>2

LEMMA PythonPreflightProceeds ==
    ASSUME RunsTyped, RunsOK, NEW r \in RunId, PythonPreflight(r)
    PROVE  Proceeds(r)
<1>1. At(r, "preflight") /\ runs[r].package[1] = "python"
  BY DEF PythonPreflight
<1>2. PICK run \in RunType : run = runs[r]
  BY <1>1, WhoMoves
<1>3. runs[r] # NoRun /\ RunOK(run, visible) /\ run.phase = "preflight"
      /\ run.package[1] = "python"
  BY <1>1, <1>2, WhoMoves
<1>4. PICK new : new = [run EXCEPT !.phase = "upload"]
  OBVIOUS
<1>5. PICK seen : seen = Shown(visible, SpecOf(run.package))
  OBVIOUS
<1>6. PICK tree : tree = Tree[run.commit]
  OBVIOUS
<1>7. \/ Moves(r, Failed(run)) \/ Moves(r, Retry(run))
      \/ /\ ResolveProducerSpecVersion(tree) \in seen /\ Accepts(tree, seen)
         /\ Moves(r, new)
  <2>1. Moves(r, IF ~SpecVersionResolves(tree, "langgraph") THEN Failed(run)
                    ELSE IF ResolveProducerSpecVersion(tree) \notin seen THEN Retry(run)
                    ELSE IF Accepts(tree, seen) THEN new
                    ELSE Failed(run))
    BY <1>2, <1>4, <1>5, <1>6 DEF PythonPreflight, VisibleVersions
  <2>2. QED
    BY <2>1
<1>8. CASE Moves(r, Failed(run))
  <2>1. Progressed(run, Failed(run), visible)
    BY <1>3, FailedOK DEF Working
  <2>2. QED
    BY <1>2, <1>3, <1>8, <2>1, ProceedsBy
<1>9. CASE Moves(r, Retry(run))
  BY <1>2, <1>3, <1>9, RetryOK, ProceedsBy
<1>10. CASE /\ ResolveProducerSpecVersion(tree) \in seen /\ Accepts(tree, seen)
            /\ Moves(r, new)
  <2>1. SpecShown(run, visible)
    BY <1>3, <1>5, <1>6, <1>10 DEF SpecShown
  <2>2. Stage(run) = "preflight" /\ Checked(run)
    BY <1>3 DEF Stage, Checked
  <2>3. /\ Selected(run) /\ run.receipt # Absent /\ run.receipt.artifacts = BuiltBy(run)
        /\ run.publish /\ run.dist = BuiltBy(run) /\ run.dist \subseteq Sound
    BY <1>3, <2>2 DEF RunOK
  <2>4. AtPhase(run, new, "upload")
    BY <1>4, PhaseFields DEF Working
  <2>5. RunOK(new, visible)
    BY <1>3, <2>1, <2>3, <2>4 DEF RunOK, AtPhase
  <2>6. QED
    BY <1>2, <1>3, <1>10, <2>4, <2>5, ProceedsBy DEF Progressed, AtPhase
<1>11. QED
  BY <1>7, <1>8, <1>9, <1>10

LEMMA NpmPreflightProceeds ==
    ASSUME RunsTyped, RunsOK, NEW r \in RunId, NpmPreflight(r)
    PROVE  Proceeds(r)
<1>1. At(r, "preflight") /\ runs[r].package[1] = "npm"
  BY DEF NpmPreflight
<1>2. PICK run \in RunType : run = runs[r]
  BY <1>1, WhoMoves
<1>3. runs[r] # NoRun /\ RunOK(run, visible) /\ run.phase = "preflight"
      /\ run.package[1] = "npm"
  BY <1>1, <1>2, WhoMoves
<1>4. PICK new : new = [run EXCEPT !.phase = "publish"]
  OBVIOUS
<1>5. PICK seen : seen = Shown(visible, SpecOf(run.package))
  OBVIOUS
<1>6. \/ Moves(r, Failed(run)) \/ Moves(r, Succeeded(run))
      \/ /\ run.publish /\ (NeedsPreflight(run) => run.specVersion \in seen)
         /\ Moves(r, new)
  <2>1. Moves(r, IF NeedsPreflight(run) /\ run.specVersion \notin seen THEN Failed(run)
                 ELSE IF run.publish THEN new ELSE Succeeded(run))
    BY <1>2, <1>4, <1>5 DEF NpmPreflight, VisibleVersions
  <2>2. QED
    BY <2>1
<1>7. CASE Moves(r, Failed(run))
  <2>1. Progressed(run, Failed(run), visible)
    BY <1>3, FailedOK DEF Working
  <2>2. QED
    BY <1>2, <1>3, <1>7, <2>1, ProceedsBy
<1>8. CASE Moves(r, Succeeded(run))
  BY <1>2, <1>3, <1>8, SucceededOK, ProceedsBy
<1>9. CASE /\ run.publish /\ (NeedsPreflight(run) => run.specVersion \in seen)
           /\ Moves(r, new)
  <2>1. run.package[2] = "langgraph" => SpecShown(run, visible)
    BY <1>3, <1>5, <1>9 DEF SpecShown, NeedsPreflight
  <2>2. Stage(run) = "preflight"
    BY <1>3 DEF Stage
  <2>3. Selected(run) /\ run.receipt # Absent /\ run.receipt.artifacts = BuiltBy(run)
    BY <1>3, <2>2 DEF RunOK
  <2>4. AtPhase(run, new, "publish")
    BY <1>4, PhaseFields DEF Working
  <2>5. ~Checked(new)
    BY <2>4 DEF Checked, AtPhase
  <2>6. RunOK(new, visible)
    BY <1>9, <2>1, <2>3, <2>4, <2>5 DEF RunOK, AtPhase
  <2>7. QED
    BY <1>2, <1>3, <1>9, <2>4, <2>6, ProceedsBy DEF Progressed, AtPhase
<1>10. QED
  BY <1>6, <1>7, <1>8, <1>9

LEMMA FailProceeds ==
    ASSUME RunsTyped, RunsOK, NEW r \in RunId, Fail(r)
    PROVE  Proceeds(r)
<1>1. PICK phase \in Working : At(r, phase)
  BY DEF Fail, Working
<1>2. PICK run \in RunType : run = runs[r]
  BY <1>1, WhoMoves
<1>3. runs[r] # NoRun /\ RunOK(run, visible) /\ run.phase \in Working
  BY <1>1, <1>2, WhoMoves
<1>4. Moves(r, Failed(run))
  BY <1>2 DEF Fail
<1>5. Progressed(run, Failed(run), visible)
  BY <1>3, FailedOK
<1>6. QED
  BY <1>2, <1>3, <1>4, <1>5, ProceedsBy

LEMMA RerunProceeds ==
    ASSUME RunsTyped, RunsOK, NEW r \in RunId, RerunFailedJobs(r)
    PROVE  Proceeds(r)
<1>1. At(r, "failure") /\ runs[r].from # "selection"
  BY DEF RerunFailedJobs
<1>2. PICK run \in RunType : run = runs[r]
  BY <1>1, WhoMoves
<1>3. runs[r] # NoRun /\ RunOK(run, visible) /\ run.phase = "failure"
      /\ run.from # "selection"
  BY <1>1, <1>2, WhoMoves
<1>4. PICK mid : mid = [run EXCEPT !.reruns = run.reruns + 1]
  OBVIOUS
<1>5. run.reruns + 1 \in 0..MaxReruns
  <2>1. run.reruns < MaxReruns /\ run.reruns \in 0..MaxReruns
    BY <1>3, RunFields DEF RunOK
  <2>2. MaxReruns \in Nat
    BY WorkflowAssumption DEF PublishAssumption
  <2>3. QED
    BY <2>1, <2>2
<1>6. /\ mid \in RunType /\ mid.phase = "failure" /\ mid.from = run.from
      /\ mid.package = run.package /\ mid.commit = run.commit
      /\ mid.publish = run.publish /\ mid.receipt = run.receipt /\ mid.dist = run.dist
      /\ mid.specVersion = run.specVersion
  BY <1>3, <1>4, <1>5 DEF RunType
<1>7. PICK new : new = [mid EXCEPT !.phase = run.from]
  OBVIOUS
<1>8. run.from \in {"artifact", "authorize", "preflight", "publish"}
  BY <1>3, RunFields
<1>9. Moves(r, new)
  <2>1. new = [runs[r] EXCEPT !.phase = runs[r].from, !.reruns = @ + 1]
    BY <1>2, <1>4, <1>7 DEF RunType
  <2>2. QED
    BY <2>1 DEF RerunFailedJobs
<1>10. run.from \in Working
  BY <1>8 DEF Working
<1>11. AtPhase(mid, new, run.from)
  BY <1>6, <1>7, <1>10, PhaseFields
<1>12. BuiltBy(mid) = BuiltBy(run) /\ Stage(run) = run.from
  BY <1>3, <1>6 DEF BuiltBy, Stage
<1>13. Selected(new)
  <2>1. Selected(run)
    BY <1>3, <1>8, <1>12 DEF RunOK
  <2>2. Selected(mid)
    BY <1>6, <2>1 DEF Selected
  <2>3. QED
    BY <1>11, <2>2 DEF AtPhase
<1>14. run.package[2] = "langgraph" /\ run.package[1] = "npm" /\ run.from = "publish"
          => SpecShown(new, visible)
  <2>1. SUFFICES ASSUME run.package[2] = "langgraph", run.package[1] = "npm",
                        run.from = "publish"
                 PROVE  SpecShown(new, visible)
    OBVIOUS
  <2>2. SpecShown(run, visible)
    BY <1>3, <1>12, <2>1 DEF RunOK
  <2>3. SpecShown(mid, visible)
    BY <1>6, <2>2 DEF SpecShown
  <2>4. QED
    BY <1>11, <2>3 DEF AtPhase
<1>15. RunOK(new, visible)
  <2>1. /\ run.receipt # Absent => run.receipt.artifacts = BuiltBy(run)
        /\ run.from = "authorize" => run.package[1] = "python" /\ run.dist = BuiltBy(run)
        /\ run.from \in {"preflight", "publish"} => run.receipt # Absent
        /\ run.from = "publish" => run.publish
        /\ run.from = "preflight" => run.package[1] # "python"
    BY <1>3, <1>12 DEF RunOK
  <2>2. /\ new.phase = run.from /\ Stage(new) = run.from /\ BuiltBy(new) = BuiltBy(run)
        /\ new.receipt = run.receipt /\ new.dist = run.dist /\ new.publish = run.publish
        /\ new.package = run.package
    BY <1>6, <1>11, <1>12 DEF AtPhase
  <2>3. ~Checked(new)
    BY <1>8, <2>1, <2>2 DEF Checked
  <2>4. QED
    BY <1>8, <1>13, <1>14, <2>1, <2>2, <2>3 DEF RunOK
<1>16. Progressed(run, new, visible)
  BY <1>6, <1>11, <1>15 DEF Progressed, Kept, AtPhase
<1>17. QED
  BY <1>2, <1>3, <1>9, <1>16, ProceedsBy

LEMMA DisturbProceeds ==
    ASSUME RunsTyped, RunsOK, NEW r \in RunId, Disturb(r)
    PROVE  Proceeds(r)
<1>1. At(r, "publish")
  BY DEF Disturb
<1>2. PICK run \in RunType : run = runs[r]
  BY <1>1, WhoMoves
<1>3. runs[r] # NoRun /\ RunOK(run, visible) /\ run.phase = "publish"
  BY <1>1, <1>2, WhoMoves
<1>4. run.dist \in SUBSET Artifact
  BY RunFields
<1>5. PICK a \in run.dist : \E changed \in {{}, {[a EXCEPT !.altered = TRUE]}} :
          Moves(r, [runs[r] EXCEPT !.dist = (@ \ {a}) \cup changed])
  BY <1>2 DEF Disturb
<1>6. PICK changed \in {{}, {[a EXCEPT !.altered = TRUE]}} :
          Moves(r, [runs[r] EXCEPT !.dist = (@ \ {a}) \cup changed])
  BY <1>5
<1>7. PICK dist : dist = (run.dist \ {a}) \cup changed
  OBVIOUS
<1>8. Moves(r, [run EXCEPT !.dist = dist])
  BY <1>2, <1>6, <1>7
<1>9. dist \in SUBSET Artifact
  <2>1. a \in Artifact
    BY <1>4
  <2>2. PICK b : b = [a EXCEPT !.altered = TRUE]
    OBVIOUS
  <2>3. b \in Artifact
    BY <2>1, <2>2 DEF Artifact
  <2>4. QED
    BY <1>4, <1>6, <1>7, <2>2, <2>3
<1>10. PICK new : new = [run EXCEPT !.dist = dist]
  OBVIOUS
<1>11. /\ new \in RunType /\ new.phase = "publish" /\ new.from = run.from
      /\ new.package = run.package /\ new.commit = run.commit
      /\ new.publish = run.publish /\ new.receipt = run.receipt
      /\ new.specVersion = run.specVersion /\ new.reruns = run.reruns
  BY <1>3, <1>9, <1>10 DEF RunType
<1>12. /\ BuiltBy(new) = BuiltBy(run) /\ Stage(new) = "publish" /\ Stage(run) = "publish"
       /\ ~Checked(new)
  BY <1>3, <1>11 DEF BuiltBy, Stage, Checked
<1>13. Selected(new) /\ (SpecShown(run, visible) => SpecShown(new, visible))
  BY <1>3, <1>11, <1>12 DEF RunOK, Selected, SpecShown
<1>14. RunOK(new, visible)
  <2>1. /\ run.receipt # Absent /\ run.receipt.artifacts = BuiltBy(run) /\ run.publish
        /\ run.package[2] = "langgraph" /\ run.package[1] = "npm" => SpecShown(run, visible)
    BY <1>3, <1>12 DEF RunOK
  <2>2. QED
    BY <1>11, <1>12, <1>13, <2>1 DEF RunOK
<1>15. Progressed(run, new, visible)
  BY <1>11, <1>14 DEF Progressed, Kept
<1>16. QED
  BY <1>2, <1>3, <1>10, <1>15, <1>8, ProceedsBy

\* What a run that uploads has: its bundle as it was built, its receipt, its
\* specification.
Qualified(run) ==
    /\ run \in RunType /\ run.publish /\ Selected(run) /\ run.receipt # Absent
    /\ run.receipt.artifacts = BuiltBy(run) /\ run.dist = BuiltBy(run)
    /\ run.package[1] = "python" => run.dist \subseteq Sound
    /\ run.package[2] = "langgraph" => SpecShown(run, visible)

LEMMA UploaderIsQualified ==
    ASSUME RunsTyped, RunsOK, NEW r \in RunId, At(r, "upload")
    PROVE  runs[r] # NoRun /\ Qualified(runs[r]) /\ RunOK(runs[r], visible)
           /\ runs[r].phase = "upload"
<1>1. PICK run : run = runs[r]
  OBVIOUS
<1>2. runs[r] # NoRun /\ run \in RunType /\ RunOK(run, visible) /\ run.phase = "upload"
  BY <1>1, WhoMoves
<1>3. Stage(run) = "upload" /\ Checked(run)
  BY <1>2 DEF Stage, Checked
<1>4. Qualified(run)
  BY <1>2, <1>3 DEF Qualified, RunOK
<1>5. QED
  BY <1>1, <1>2, <1>4

LEMMA UploadProceeds ==
    ASSUME RunsTyped, RunsOK, NEW r \in RunId, Upload(r)
    PROVE  Proceeds(r)
<1>1. At(r, "upload")
  BY DEF Upload
<1>2. PICK run \in RunType : run = runs[r]
  BY <1>1, WhoMoves
<1>3. runs[r] # NoRun /\ RunOK(run, visible) /\ run.phase = "upload"
  BY <1>1, <1>2, WhoMoves
<1>4. PICK a \in run.dist : Moves(r, Sent(run, a)) \/ Moves(r, Failed(run))
  BY <1>2 DEF Upload
<1>5. CASE Moves(r, Failed(run))
  <2>1. Progressed(run, Failed(run), visible)
    BY <1>3, FailedOK DEF Working
  <2>2. QED
    BY <1>2, <1>3, <1>5, <2>1, ProceedsBy
<1>6. CASE Moves(r, Succeeded(run))
  BY <1>2, <1>3, <1>6, SucceededOK, ProceedsBy
<1>7. CASE Moves(r, [run EXCEPT !.sent = run.sent \cup {a}])
  <2>1. PICK sent : sent = run.sent \cup {a}
    OBVIOUS
  <2>2. sent \in SUBSET Artifact
    BY <2>1, RunFields DEF RunType
  <2>3. PICK new : new = [run EXCEPT !.sent = sent]
    OBVIOUS
  <2>4. /\ new \in RunType /\ new.phase = "upload" /\ new.from = run.from
        /\ new.package = run.package /\ new.commit = run.commit
        /\ new.publish = run.publish /\ new.receipt = run.receipt /\ new.dist = run.dist
        /\ new.specVersion = run.specVersion
    BY <1>3, <2>2, <2>3 DEF RunType
  <2>5. /\ BuiltBy(new) = BuiltBy(run) /\ Stage(new) = "upload" /\ Stage(run) = "upload"
        /\ Checked(run) /\ Checked(new)
    BY <1>3, <2>4 DEF BuiltBy, Stage, Checked
  <2>6. Selected(new) /\ (SpecShown(run, visible) => SpecShown(new, visible))
    BY <1>3, <2>4, <2>5 DEF RunOK, Selected, SpecShown
  <2>7. RunOK(new, visible)
    BY <1>3, <2>4, <2>5, <2>6 DEF RunOK
  <2>8. Progressed(run, new, visible)
    BY <2>4, <2>7 DEF Progressed, Kept
  <2>9. QED
    BY <1>2, <1>3, <1>7, <2>1, <2>3, <2>8, ProceedsBy
<1>8. Sent(run, a) \in {Succeeded(run), [run EXCEPT !.sent = run.sent \cup {a}]}
  BY DEF Sent
<1>9. QED
  BY <1>4, <1>5, <1>6, <1>7, <1>8

-------------------------------------------------------------------------------
(* Together: the runs after a step.                                         *)

RunsKept == \A r \in RunId : runs[r] # NoRun => runs'[r] # NoRun /\ Kept(runs[r], runs'[r])
RunsStillOK == \A r \in RunId : runs'[r] # NoRun => RunOK(runs'[r], visible)

RunsGoOn == RunsTyped' /\ RunsKept /\ RunsStillOK

LEMMA Moved ==
    ASSUME RunsTyped, NEW r \in RunId, NEW new \in RunType, Moves(r, new)
    PROVE  /\ RunsTyped' /\ runs'[r] = new
           /\ \A q \in RunId : q # r => runs'[q] = runs[q]
BY DEF RunsTyped, Moves

LEMMA KeptIsReflexive ==
    ASSUME NEW run
    PROVE  Kept(run, run)
BY DEF Kept

LEMMA ProceedingRunsGoOn ==
    ASSUME RunsTyped, RunsOK, NEW r \in RunId, Proceeds(r)
    PROVE  RunsGoOn
<1>1. PICK new : Moves(r, new) /\ Progressed(runs[r], new, visible)
  BY DEF Proceeds
<1>2. new \in RunType /\ RunOK(new, visible) /\ Kept(runs[r], new) /\ new # NoRun
  BY <1>1, RunFields DEF Progressed
<1>3. /\ RunsTyped' /\ runs'[r] = new
      /\ \A q \in RunId : q # r => runs'[q] = runs[q]
  BY <1>1, <1>2, Moved
<1>4. RunsKept
  BY <1>2, <1>3, KeptIsReflexive DEF RunsKept
<1>5. RunsStillOK
  BY <1>2, <1>3 DEF RunsStillOK, RunsOK
<1>6. QED
  BY <1>3, <1>4, <1>5 DEF RunsGoOn

LEMMA DispatchedRunsGoOn ==
    ASSUME PubTypeOK, RunsOK, NEW r \in RunId, NEW p \in Package, NEW version \in AnyVersion,
           NEW specVersion \in AnyVersion \cup {Absent}, NEW publish \in BOOLEAN,
           Dispatch(r, p, version, specVersion, publish)
    PROVE  RunsGoOn
<1>1. PICK new :
          new = [phase |-> "selection", from |-> "selection", package |-> p, commit |-> head,
                 version |-> version, specVersion |-> specVersion, publish |-> publish,
                 attempt |-> 1, dist |-> {}, receipt |-> Absent, sent |-> {}, reruns |-> 0]
  OBVIOUS
<1>2. runs[r] = NoRun /\ Moves(r, new) /\ RunsTyped
  BY <1>1 DEF Dispatch, PubTypeOK, RunsTyped
<1>3. new \in RunType
  <2>1. head \in DOMAIN Follows /\ MaxReruns \in Nat
    BY WorkflowAssumption DEF PubTypeOK, PublishAssumption
  <2>2. 1 \in 1..Attempts /\ 0 \in 0..MaxReruns
    BY <2>1 DEF Attempts
  <2>3. {} \in SUBSET Artifact
    OBVIOUS
  <2>4. QED
    BY <1>1, <2>1, <2>2, <2>3 DEF RunType, Working
<1>4. new.phase = "selection" /\ new.receipt = Absent
  BY <1>1
<1>5. Stage(new) = "selection" /\ ~Checked(new)
  BY <1>4 DEF Stage, Checked
<1>6. RunOK(new, visible)
  BY <1>4, <1>5 DEF RunOK
<1>7. /\ RunsTyped' /\ runs'[r] = new
      /\ \A q \in RunId : q # r => runs'[q] = runs[q]
  BY <1>2, <1>3, Moved
<1>8. RunsKept
  BY <1>2, <1>7, KeptIsReflexive DEF RunsKept
<1>9. RunsStillOK
  BY <1>6, <1>7 DEF RunsStillOK, RunsOK
<1>10. QED
  BY <1>7, <1>8, <1>9 DEF RunsGoOn

LEMMA SameRunsGoOn ==
    ASSUME RunsTyped, RunsOK, runs' = runs
    PROVE  RunsGoOn
BY KeptIsReflexive DEF RunsGoOn, RunsTyped, RunsKept, RunsStillOK, RunsOK

-------------------------------------------------------------------------------
(* What an upload adds to the registries.                                   *)

LEMMA CoherentVersions ==
    ASSUME NEW c \in Coherent, NEW p \in Package
    PROVE  /\ c \in Commit /\ VersionIn(c, p) = VersionOf(Candidate, p)
           /\ Tree[c].project[<< "npm", "langgraph" >>].peer
                  = VersionOf(Candidate, << "npm", "spec" >>)
<1>1. c \in Commit /\ CheckPhase(Tree[c], "candidate")
  BY DEF Coherent
<1>2. Tree[c] = Repository[c]
  BY <1>1 DEF Tree
<1>3. CheckCandidate(Repository[c])
  BY <1>1, <1>2 DEF CheckPhase
<1>4. PICK r : r = Repository[c].state.candidate
  OBVIOUS
<1>5. /\ \A q \in Package : Repository[c].project[q].version = VersionOf(r, q)
      /\ Repository[c].project[<< "npm", "langgraph" >>].peer
             = VersionOf(r, << "npm", "spec" >>)
  BY <1>3, <1>4, ZenonT(60) DEF CheckCandidate
<1>6. \A q \in Package : VersionOf(r, q) = VersionOf(Candidate, q)
  BY <1>1, <1>4, CloseoutAssumption DEF FinalizeAssumption
<1>7. << "npm", "spec" >> \in Package
  BY DEF Package
<1>8. QED
  BY <1>1, <1>2, <1>5, <1>6, <1>7 DEF VersionIn

\* A package is one of four.
LEMMA FourPackages ==
    ASSUME NEW p \in Package
    PROVE  /\ p = << p[1], p[2] >> /\ p[1] \in {"python", "npm"}
           /\ p[2] \in {"spec", "langgraph"} /\ SpecOf(p) = << p[1], "spec" >>
           /\ SpecOf(p) \in Package /\ (p[2] = "spec" => SpecOf(p) = p)
BY DEF Package, SpecOf

LEMMA SpecIsHeld ==
    ASSUME NEW run, Qualified(run), run.package[2] = "langgraph"
    PROVE  Holds(visible, SpecOf(run.package))
<1>1. PICK p \in Package : p = run.package
  BY DEF Qualified, RunType
<1>2. PICK c \in Coherent : c = run.commit
  BY DEF Qualified, Selected
<1>3. SpecShown(run, visible)
  BY DEF Qualified
<1>4. PICK v : v = VersionOf(Candidate, SpecOf(p))
  OBVIOUS
<1>5. v \in Shown(visible, SpecOf(p))
  <2>1. CASE p[1] = "python"
    <3>1. ResolveProducerSpecVersion(Tree[c]) \in Shown(visible, SpecOf(p))
      BY <1>1, <1>2, <1>3, <2>1 DEF SpecShown
    <3>2. SpecOf(p) = << "python", "spec" >> /\ << "python", "spec" >> \in Package
      BY <2>1, FourPackages DEF Package
    <3>3. ResolveProducerSpecVersion(Tree[c]) = v
      BY <1>4, <3>2, CoherentVersions DEF ResolveProducerSpecVersion, VersionIn
    <3>4. QED
      BY <3>1, <3>3
  <2>2. CASE p[1] # "python"
    <3>1. p = << "npm", "langgraph" >> /\ SpecOf(p) = << "npm", "spec" >>
      BY <1>1, <2>2, FourPackages
    <3>2. run.specVersion \in Shown(visible, SpecOf(p))
      BY <1>1, <1>3, <2>2 DEF SpecShown
    <3>3. run.specVersion = Tree[c].project[<< "npm", "langgraph" >>].peer
      BY <1>1, <1>2, <3>1 DEF Qualified, Selected
    <3>4. Tree[c].project[<< "npm", "langgraph" >>].peer = v
      BY <1>4, <3>1, CoherentVersions
    <3>5. QED
      BY <3>2, <3>3, <3>4
  <2>3. QED
    BY <2>1, <2>2
<1>6. QED
  BY <1>1, <1>4, <1>5 DEF Shown, Holds

LEMMA UploadedFields ==
    ASSUME NEW run, Qualified(run), NEW a \in run.dist
    PROVE  /\ a \in Artifact /\ a.package = run.package /\ a.commit = run.commit /\ ~a.altered
           /\ a.kind = "wheel" => a \in Sound
<1>1. run.package \in Package /\ run.commit \in Commit
  BY RunFields DEF Qualified
<1>2. a \in Built(run.commit, run.package)
  BY DEF Qualified, BuiltBy
<1>3. a \in Artifact
  BY <1>1, <1>2, BuiltIsArtifact
<1>4. /\ a.package = run.package /\ a.commit = run.commit /\ ~a.altered
      /\ a.kind \in Kinds(run.package)
  BY <1>2 DEF Built
<1>5. a.kind = "wheel" => a \in Sound
  BY <1>4 DEF Kinds, Qualified
<1>6. QED
  BY <1>3, <1>4, <1>5

LEMMA UploadedInstalls ==
    ASSUME NEW run, Qualified(run), NEW a \in run.dist
    PROVE  CanInstall(a, visible)
<1>1. a.package = run.package /\ a.commit = run.commit
  BY UploadedFields
<1>2. PICK p : p = run.package
  OBVIOUS
<1>3. CASE p = << "python", "langgraph" >>
  <2>1. p[1] = "python" /\ p[2] = "langgraph"
    BY <1>3
  <2>2. SpecShown(run, visible)
    BY <1>2, <2>1 DEF Qualified
  <2>3. Accepts(Tree[run.commit], Shown(visible, SpecOf(p)))
    BY <1>2, <2>1, <2>2 DEF SpecShown
  <2>4. QED
    BY <1>1, <1>2, <1>3, <2>3 DEF CanInstall
<1>4. CASE p = << "npm", "langgraph" >>
  <2>1. p[1] # "python" /\ p[2] = "langgraph"
    BY <1>4
  <2>2. SpecShown(run, visible)
    BY <1>2, <2>1 DEF Qualified
  <2>3. run.specVersion \in Shown(visible, SpecOf(p))
    BY <1>2, <2>1, <2>2 DEF SpecShown
  <2>4. run.specVersion = Tree[run.commit].project[p].peer
    BY <1>2, <1>4 DEF Qualified, Selected
  <2>5. QED
    BY <1>1, <1>2, <1>4, <2>3, <2>4 DEF CanInstall
<1>5. CASE p \notin {<< "python", "langgraph" >>, << "npm", "langgraph" >>}
  BY <1>1, <1>2, <1>5 DEF CanInstall
<1>6. QED
  BY <1>3, <1>4, <1>5

\* The run that vouches for a published artifact.
Vouches(r, a) ==
    /\ runs[r] # NoRun /\ runs[r].publish /\ runs[r].commit = a.commit
    /\ runs[r].receipt # Absent /\ a \in runs[r].receipt.artifacts

LEMMA StillVouches ==
    ASSUME RunsOK, RunsGoOn, NEW r \in RunId, NEW a, Vouches(r, a)
    PROVE  Vouches(r, a)'
<1>1. PICK run : run = runs[r]
  OBVIOUS
<1>2. PICK new : new = runs'[r]
  OBVIOUS
<1>3. /\ run # NoRun /\ run.publish /\ run.commit = a.commit
      /\ run.receipt # Absent /\ a \in run.receipt.artifacts /\ RunOK(run, visible)
  BY <1>1 DEF Vouches, RunsOK
<1>4. new # NoRun /\ Kept(run, new) /\ RunOK(new, visible)
  BY <1>1, <1>2, <1>3 DEF RunsGoOn, RunsKept, RunsStillOK
<1>5. BuiltBy(new) = BuiltBy(run)
  BY <1>4 DEF Kept, BuiltBy
<1>6. new.receipt # Absent /\ new.publish /\ new.commit = a.commit
  BY <1>3, <1>4 DEF Kept
<1>7. a \in new.receipt.artifacts
  <2>1. run.receipt.artifacts = BuiltBy(run)
    BY <1>3 DEF RunOK
  <2>2. new.receipt.artifacts = BuiltBy(new)
    BY <1>4, <1>6 DEF RunOK
  <2>3. QED
    BY <1>3, <1>5, <2>1, <2>2
<1>8. QED
  BY <1>2, <1>4, <1>6, <1>7 DEF Vouches

LEMMA StockStays ==
    ASSUME RunsOK, RunsGoOn, Stock, UNCHANGED << registry, visible >>
    PROVE  Stock'
<1>1. PublishedWasQualified'
  <2>1. SUFFICES ASSUME NEW a \in registry \ Before
                 PROVE  /\ ~a.altered
                        /\ a.commit \in Coherent /\ CheckVersionCopies(Tree[a.commit])
                        /\ \E r \in RunId : Vouches(r, a)'
    BY DEF PublishedWasQualified, Vouches
  <2>2. /\ ~a.altered
        /\ a.commit \in Coherent /\ CheckVersionCopies(Tree[a.commit])
        /\ \E r \in RunId : Vouches(r, a)
    BY DEF Stock, PublishedWasQualified, Vouches
  <2>3. QED
    BY <2>2, StillVouches
<1>2. ProducerInstalls'
  BY DEF Stock, ProducerInstalls
<1>3. QED
  BY <1>1, <1>2 DEF Stock

LEMMA StockGrows ==
    ASSUME RunsTyped, RunsOK, RunsGoOn, Stock, NEW r \in RunId, At(r, "upload"),
           NEW a \in runs[r].dist, registry' = registry \cup {a}, visible' = visible
    PROVE  Stock'
<1>1. PICK run : run = runs[r]
  OBVIOUS
<1>2. run # NoRun /\ Qualified(run)
  BY <1>1, UploaderIsQualified
<1>3. /\ a \in Artifact /\ a.package = run.package /\ a.commit = run.commit /\ ~a.altered
      /\ a.kind = "wheel" => a \in Sound
  BY <1>1, <1>2, UploadedFields
<1>4. Vouches(r, a)
  BY <1>1, <1>2, <1>3 DEF Vouches, Qualified
<1>5. PublishedWasQualified'
  <2>1. SUFFICES ASSUME NEW b \in registry' \ Before
                 PROVE  /\ ~b.altered
                        /\ b.commit \in Coherent /\ CheckVersionCopies(Tree[b.commit])
                        /\ \E q \in RunId : Vouches(q, b)'
    BY DEF PublishedWasQualified, Vouches
  <2>2. CASE b = a
    BY <1>2, <1>3, <1>4, <2>2, StillVouches DEF Qualified, Selected
  <2>3. CASE b # a
    <3>1. /\ ~b.altered
          /\ b.commit \in Coherent /\ CheckVersionCopies(Tree[b.commit])
          /\ \E q \in RunId : Vouches(q, b)
      BY <2>3 DEF Stock, PublishedWasQualified, Vouches
    <3>2. QED
      BY <3>1, StillVouches
  <2>4. QED
    BY <2>2, <2>3
<1>6. ProducerInstalls'
  <2>1. \A b \in registry' : CanInstall(b, visible)
    BY <1>1, <1>2, UploadedInstalls DEF Stock, ProducerInstalls
  <2>2. QED
    BY <2>1 DEF ProducerInstalls
<1>7. InOrder(registry', visible')
  <2>1. SUFFICES ASSUME NEW p \in Package, Holds(registry', p), p[2] = "langgraph"
                 PROVE  Holds(visible, SpecOf(p))
    BY DEF InOrder
  <2>2. CASE a.package = p
    BY <1>2, <1>3, <2>1, <2>2, SpecIsHeld
  <2>3. CASE a.package # p
    <3>1. Holds(registry, p)
      BY <2>1, <2>3 DEF Holds
    <3>2. QED
      BY <2>1, <3>1 DEF Stock, InOrder
  <2>4. QED
    BY <2>2, <2>3
<1>8. \A b \in registry' : b.kind = "wheel" => b \in Sound
  BY <1>3 DEF Stock
<1>9. visible' \subseteq registry' /\ registry' \subseteq Artifact
  BY <1>3 DEF Stock
<1>10. QED
  BY <1>5, <1>6, <1>7, <1>8, <1>9 DEF Stock

\* More is shown: what could be installed still can.
LEMMA InstallGrows ==
    ASSUME NEW few, NEW many, few \subseteq many, NEW a, CanInstall(a, few)
    PROVE  CanInstall(a, many)
<1>1. /\ Shown(few, SpecOf(a.package)) \subseteq Shown(many, SpecOf(a.package))
      /\ Accepts(Tree[a.commit], Shown(few, SpecOf(a.package)))
             => Accepts(Tree[a.commit], Shown(many, SpecOf(a.package)))
  BY ShownGrows
<1>2. QED
  BY <1>1 DEF CanInstall

LEMMA HoldsGrows ==
    ASSUME NEW few, NEW many, few \subseteq many, NEW p, Holds(few, p)
    PROVE  Holds(many, p)
BY DEF Holds

LEMMA MoreIsShown ==
    ASSUME RunsOK, Stock, NEW a \in registry, visible' = visible \cup {a},
           UNCHANGED << runs, registry >>
    PROVE  Stock' /\ RunsOK'
<1>1. visible \subseteq visible' /\ visible' \subseteq registry
  BY DEF Stock
<1>2. RunsOK'
  BY <1>1, RunGrows DEF RunsOK
<1>3. ProducerInstalls'
  BY <1>1, InstallGrows DEF Stock, ProducerInstalls
<1>4. PublishedWasQualified'
  BY DEF Stock, PublishedWasQualified
<1>5. InOrder(registry', visible')
  BY <1>1, HoldsGrows DEF Stock, InOrder
<1>6. QED
  BY <1>1, <1>2, <1>3, <1>4, <1>5 DEF Stock

-------------------------------------------------------------------------------
(* The publication keeps its invariant.                                     *)

LEMMA LaggingIsHarmless ==
    ASSUME NEW stored \in Earlier, NEW p \in Lagging(stored)
    PROVE  LET shown == {a \in stored : a.package # p}
           IN  (\A a \in stored : CanInstall(a, shown)) /\ InOrder(stored, shown)
<1> DEFINE shown == {a \in stored : a.package # p}
<1>1. \A a \in stored : /\ a \in Artifact /\ CanInstall(a, stored)
                        /\ a.package[2] = "langgraph" => SpecOf(a.package) # p
  BY WorkflowAssumption DEF PublishAssumption, Lagging
<1>2. \A q \in Package : q # p => Shown(shown, q) = Shown(stored, q)
  BY DEF Shown
<1>3. ASSUME NEW a \in stored PROVE CanInstall(a, shown)
  <2>1. a.package \in Package /\ CanInstall(a, stored)
    BY <1>1 DEF Artifact
  <2>2. CASE a.package[2] = "langgraph"
    <3>1. SpecOf(a.package) # p /\ SpecOf(a.package) \in Package
      BY <1>1, <2>1, <2>2, FourPackages
    <3>2. Shown(shown, SpecOf(a.package)) = Shown(stored, SpecOf(a.package))
      BY <1>2, <3>1
    <3>3. QED
      BY <2>1, <3>2 DEF CanInstall
  <2>3. CASE a.package[2] # "langgraph"
    <3>1. a.package \notin {<< "python", "langgraph" >>, << "npm", "langgraph" >>}
      BY <2>3
    <3>2. QED
      BY <3>1 DEF CanInstall
  <2>4. QED
    BY <2>2, <2>3
<1>4. InOrder(stored, shown)
  <2>1. SUFFICES ASSUME NEW q \in Package, Holds(stored, q), q[2] = "langgraph"
                 PROVE  Holds(shown, SpecOf(q))
    BY DEF InOrder
  <2>2. SpecOf(q) # p
    BY <1>1, <2>1 DEF Holds
  <2>3. Holds(stored, SpecOf(q))
    BY <2>1, CloseoutAssumption DEF FinalizeAssumption
  <2>4. QED
    BY <2>2, <2>3 DEF Holds
<1>5. QED
  BY <1>3, <1>4

LEMMA PubInvInit ==
    ASSUME PubInit
    PROVE  PubInv
<1>1. /\ head \in DOMAIN Follows /\ runs = [r \in RunId |-> NoRun] /\ registry \in Earlier
      /\ faults \in 0..MaxFaults
  BY DEF PubInit
<1>2. RunsTyped /\ RunsOK
  BY <1>1 DEF RunsTyped, RunsOK
<1>3. \A a \in registry : /\ a \in Artifact /\ CanInstall(a, registry)
                          /\ a.kind = "wheel" => a \in Sound
  BY <1>1, WorkflowAssumption DEF PublishAssumption
<1>4. PublishedWasQualified
  BY <1>1 DEF PublishedWasQualified, Before
<1>5. /\ visible \subseteq registry
      /\ (\A a \in registry : CanInstall(a, visible)) /\ InOrder(registry, visible)
  <2>1. CASE visible = registry
    <3>1. InOrder(registry, registry)
      BY <1>1, CloseoutAssumption DEF FinalizeAssumption, InOrder
    <3>2. QED
      BY <1>3, <2>1, <3>1
  <2>2. CASE visible # registry
    <3>1. PICK p \in Lagging(registry) : visible = {a \in registry : a.package # p}
      BY <2>2 DEF PubInit
    <3>2. QED
      BY <1>1, <3>1, LaggingIsHarmless
  <2>3. QED
    BY <2>1, <2>2
<1>6. Stock
  BY <1>3, <1>4, <1>5 DEF Stock, ProducerInstalls
<1>7. PubTypeOK
  BY <1>1, <1>2, <1>3, <1>5 DEF PubTypeOK, RunsTyped
<1>8. QED
  BY <1>2, <1>6, <1>7 DEF PubInv

LEMMA MishapType ==
    ASSUME faults \in 0..MaxFaults, Mishap
    PROVE  faults' \in 0..MaxFaults
BY WorkflowAssumption DEF Mishap, PublishAssumption

\* A step of the runs that leaves the registries alone.
LEMMA PubInvStays ==
    ASSUME PubInv, RunsGoOn, head' = head, UNCHANGED << registry, visible >>,
           faults' \in 0..MaxFaults
    PROVE  PubInv'
<1>1. Stock'
  BY StockStays DEF PubInv
<1>2. RunsTyped' /\ RunsOK'
  BY DEF RunsGoOn, RunsStillOK, RunsOK
<1>3. PubTypeOK'
  BY <1>2 DEF PubInv, PubTypeOK, RunsTyped
<1>4. QED
  BY <1>1, <1>2, <1>3 DEF PubInv

LEMMA UploadKeepsPubInv ==
    ASSUME PubInv, NEW r \in RunId, Upload(r)
    PROVE  PubInv'
<1>1. RunsTyped /\ RunsOK /\ Stock /\ faults \in 0..MaxFaults /\ head \in DOMAIN Follows
  BY DEF PubInv, PubTypeOK, RunsTyped
<1>2. RunsGoOn
  BY <1>1, UploadProceeds, ProceedingRunsGoOn
<1>3. At(r, "upload") /\ visible' = visible /\ head' = head
  BY DEF Upload
<1>4. faults' \in 0..MaxFaults
  BY <1>1, MishapType DEF Upload
<1>5. PICK a \in runs[r].dist : registry' = registry \cup {a} \/ registry' = registry
  BY DEF Upload
<1>6. CASE registry' = registry
  BY <1>2, <1>3, <1>4, <1>6, PubInvStays
<1>7. CASE registry' = registry \cup {a}
  <2>1. Stock'
    BY <1>1, <1>2, <1>3, <1>7, StockGrows
  <2>2. RunsTyped' /\ RunsOK'
    BY <1>2, <1>3 DEF RunsGoOn, RunsStillOK, RunsOK
  <2>3. PubTypeOK'
    BY <1>1, <1>3, <1>4, <2>1, <2>2 DEF PubTypeOK, RunsTyped, Stock
  <2>4. QED
    BY <2>1, <2>2, <2>3 DEF PubInv
<1>8. QED
  BY <1>5, <1>6, <1>7

LEMMA PubInvNext ==
    ASSUME PubInv, PubNext
    PROVE  PubInv'
<1>1. RunsTyped /\ RunsOK /\ Stock /\ faults \in 0..MaxFaults /\ head \in DOMAIN Follows
  BY DEF PubInv, PubTypeOK, RunsTyped
<1>2. ASSUME NEW c \in Commit, Push(c)
      PROVE  PubInv'
  <2>1. head' \in DOMAIN Follows
    BY <1>1, <1>2, WorkflowAssumption DEF Push, PublishAssumption
  <2>2. UNCHANGED << runs, registry, visible, faults >>
    BY <1>2 DEF Push
  <2>3. Stock'
    BY <1>1, <2>2, SameRunsGoOn, StockStays
  <2>4. RunsOK'
    BY <1>1, <2>2 DEF RunsOK
  <2>5. PubTypeOK'
    BY <2>1, <2>2 DEF PubInv, PubTypeOK
  <2>6. QED
    BY <2>3, <2>4, <2>5 DEF PubInv
<1>3. ASSUME NEW r \in RunId,
             \/ Selection(r) \/ BuildArtifact(r) \/ Authorize(r) \/ CheckBundle(r)
             \/ PythonPreflight(r) \/ NpmPreflight(r) \/ RerunFailedJobs(r)
      PROVE  PubInv'
  <2>1. Proceeds(r)
    BY <1>1, <1>3, SelectionProceeds, BuildArtifactProceeds, AuthorizeProceeds,
       CheckBundleProceeds, PythonPreflightProceeds, NpmPreflightProceeds, RerunProceeds
  <2>2. UNCHANGED << head, registry, visible, faults >>
    BY <1>3 DEF Selection, BuildArtifact, Authorize, CheckBundle, PythonPreflight,
                NpmPreflight, RerunFailedJobs
  <2>3. RunsGoOn
    BY <1>1, <2>1, ProceedingRunsGoOn
  <2>4. QED
    BY <1>1, <2>2, <2>3, PubInvStays
<1>4. ASSUME NEW r \in RunId, Fail(r) \/ Disturb(r)
      PROVE  PubInv'
  <2>1. Proceeds(r)
    BY <1>1, <1>4, FailProceeds, DisturbProceeds
  <2>2. UNCHANGED << head, registry, visible >> /\ Mishap
    BY <1>4 DEF Fail, Disturb
  <2>3. RunsGoOn
    BY <1>1, <2>1, ProceedingRunsGoOn
  <2>4. QED
    BY <1>1, <2>2, <2>3, MishapType, PubInvStays
<1>5. ASSUME NEW r \in RunId, NEW i \in Input, NEW v \in Versions(i[1]),
             NEW s \in (IF i[1] = << "npm", "langgraph" >> THEN Versions(SpecOf(i[1]))
                        ELSE {Absent}),
             Dispatch(r, i[1], v, s, i[2])
      PROVE  PubInv'
  <2>1. i[1] \in Package /\ i[2] \in BOOLEAN
    BY WorkflowAssumption DEF PublishAssumption
  <2>2. SpecOf(i[1]) \in Package
    BY <2>1, FourPackages
  <2>3. v \in AnyVersion /\ s \in AnyVersion \cup {Absent}
    BY <2>1, <2>2 DEF Versions, AnyVersion
  <2>4. RunsGoOn
    BY <1>1, <1>5, <2>1, <2>3, DispatchedRunsGoOn DEF PubInv
  <2>5. UNCHANGED << head, registry, visible, faults >>
    BY <1>5 DEF Dispatch
  <2>6. QED
    BY <1>1, <2>4, <2>5, PubInvStays
<1>6. ASSUME NEW a \in registry, Propagate(a)
      PROVE  PubInv'
  <2>1. visible' = visible \cup {a} /\ UNCHANGED << head, runs, registry, faults >>
    BY <1>6 DEF Propagate
  <2>2. Stock' /\ RunsOK'
    BY <1>1, <2>1, MoreIsShown
  <2>3. PubTypeOK'
    BY <2>1, <2>2 DEF PubInv, PubTypeOK, Stock
  <2>4. QED
    BY <2>2, <2>3 DEF PubInv
<1>7. ASSUME NEW r \in RunId, Upload(r)
      PROVE  PubInv'
  BY <1>7, UploadKeepsPubInv
<1>8. QED
  BY <1>2, <1>3, <1>4, <1>5, <1>6, <1>7 DEF PubNext, Advance

-------------------------------------------------------------------------------
(* The finalizations keep theirs.                                           *)

\* What complete finds on main before it publishes.
LEMMA ClosedMain ==
    ASSUME NEW m, CheckPhase(MainTree(m), "published")
    PROVE  LET release == MainTree(m).state.published
           IN  /\ release.sourceCommit = m.commit /\ release.packages = Candidate.packages
               /\ MainTree(m).evidence[release.evidence] = m.evidence
               /\ ValidatePackages(release.packages)
<1>1. PICK tree : tree = MainTree(m)
  OBVIOUS
<1>2. LoadState(tree) /\ tree.state.candidate = Absent
  BY <1>1 DEF CheckPhase
<1>3. /\ {"page", "evidence", "state"} \subseteq DOMAIN MainCheckout
      /\ {"packages", "sourceCommit", "evidence"} \subseteq DOMAIN Candidate
      /\ Candidate # Absent
  BY CloseoutAssumption DEF FinalizeAssumption
<1>4. m.page # "candidate"
  BY <1>1, <1>2, <1>3 DEF MainTree, Candidate
<1>5. PICK evidence : evidence =
          [path \in DOMAIN MainCheckout.evidence \cup {EvidencePath} |->
              IF path = EvidencePath THEN m.evidence ELSE MainCheckout.evidence[path]]
  OBVIOUS
<1>6. PICK release : release = [Candidate EXCEPT !.sourceCommit = m.commit,
                                                 !.evidence = EvidencePath]
  OBVIOUS
<1>7. PICK state : state = [published |-> release, candidate |-> Absent,
                            partials |-> MainCheckout.state.partials]
  OBVIOUS
<1>8. tree = [MainCheckout EXCEPT !.page = ClosingPages[m.page],
                                  !.evidence = evidence, !.state = state]
  BY <1>1, <1>4, <1>5, <1>6, <1>7 DEF MainTree
<1>9. tree.evidence = evidence /\ tree.state = state
  BY <1>3, <1>8
<1>10. tree.state.published = release
  BY <1>7, <1>9
<1>11. /\ release.sourceCommit = m.commit /\ release.evidence = EvidencePath
       /\ release.packages = Candidate.packages
  BY <1>3, <1>6
<1>12. tree.evidence[release.evidence] = m.evidence
  BY <1>5, <1>9, <1>11
<1>13. ValidatePackages(release.packages)
  <2>1. ValidateRelease(tree, release, FALSE)
    BY <1>2, <1>10 DEF LoadState
  <2>2. QED
    BY <2>1 DEF ValidateRelease
<1>14. QED
  BY <1>1, <1>10, <1>11, <1>12, <1>13

LEMMA VersionOfEntry ==
    ASSUME NEW r, ValidatePackages(r.packages), NEW e \in r.packages
    PROVE  VersionOf(r, e.package) = e.version
BY DEF ValidatePackages, VersionOf

LEMMA VerifiedIsWhole ==
    ASSUME NEW f \in FinalId, NEW commit \in Named, CompleteVerify(f, commit)
    PROVE  Whole(main) /\ AllHeld
<1>1. PICK m : m = main
  OBVIOUS
<1>2. PICK release : release = MainTree(m).state.published
  OBVIOUS
<1>3. CheckPhase(MainTree(m), "published")
  BY <1>1 DEF CompleteVerify
<1>4. /\ release.sourceCommit = m.commit /\ release.packages = Candidate.packages
      /\ MainTree(m).evidence[release.evidence] = m.evidence
      /\ ValidatePackages(release.packages)
  BY <1>2, <1>3, ClosedMain
<1>5. /\ release.sourceCommit = commit /\ tag = commit
      /\ VerifyCheckedEvidence(release, m.evidence)
  BY <1>1, <1>2, <1>4 DEF CompleteVerify, TagTarget
<1>6. commit # Absent
  BY CloseoutAssumption DEF FinalizeAssumption
<1>7. PICK packages : packages = m.evidence.packages
  OBVIOUS
<1>8. /\ m.evidence.sourceCommit = m.commit
      /\ {[package |-> x.package, version |-> x.version] : x \in packages} = release.packages
      /\ \A x \in packages :
             x.artifacts # {} /\ x.artifacts = RegistryEvidence(x.package, x.version)
  BY <1>4, <1>5, <1>6, <1>7 DEF VerifyCheckedEvidence
<1>9. {e.package : e \in packages} = Package
  <2>1. {e.package : e \in release.packages} = Package
    BY <1>4 DEF ValidatePackages
  <2>2. \A e \in packages : e.package \in Package
    <3>1. SUFFICES ASSUME NEW e \in packages
                   PROVE  e.package \in Package
      OBVIOUS
    <3>2. PICK n : n = [package |-> e.package, version |-> e.version]
      OBVIOUS
    <3>3. n \in release.packages /\ n.package = e.package
      BY <1>8, <3>2
    <3>4. QED
      BY <2>1, <3>3
  <2>3. \A p \in Package : \E e \in packages : e.package = p
    <3>1. SUFFICES ASSUME NEW p \in Package
                   PROVE  \E e \in packages : e.package = p
      OBVIOUS
    <3>2. PICK n \in release.packages : n.package = p
      BY <2>1
    <3>3. PICK e \in packages : n = [package |-> e.package, version |-> e.version]
      BY <1>8, <3>2
    <3>4. QED
      BY <3>2, <3>3
  <2>4. QED
    BY <2>2, <2>3
<1>10. \A e \in packages : e.artifacts # {} /\ e.artifacts \subseteq visible
  BY <1>8 DEF RegistryEvidence
<1>11. Whole(m)
  BY <1>4, <1>5, <1>6, <1>7, <1>8, <1>9, <1>10 DEF Whole
<1>12. ASSUME NEW p \in Package
       PROVE  Holds(visible, p)
  <2>1. PICK e \in packages : e.package = p
    BY <1>9
  <2>2. PICK n : n = [package |-> e.package, version |-> e.version]
    OBVIOUS
  <2>3. n \in release.packages /\ n.package = p /\ n.version = e.version
    BY <1>8, <2>1, <2>2
  <2>4. VersionOf(release, p) = e.version
    BY <1>4, <2>3, VersionOfEntry
  <2>5. VersionOf(Candidate, p) = e.version
    BY <1>4, <2>4 DEF VersionOf
  <2>6. RegistryEvidence(p, e.version) # {}
    BY <1>8, <2>1
  <2>7. QED
    BY <2>5, <2>6 DEF RegistryEvidence, Holds
<1>13. QED
  BY <1>1, <1>11, <1>12 DEF AllHeld

\* The registries show no less, and a tag that is there stays.
Onward == visible \subseteq visible' /\ (tag # Absent => tag' = tag)

LEMMA WholeStays ==
    ASSUME NEW m, Whole(m), Onward
    PROVE  Whole(m)'
BY DEF Whole, Onward

LEMMA AllHeldStays ==
    ASSUME AllHeld, Onward
    PROVE  AllHeld'
BY HoldsGrows DEF AllHeld, Onward

LEMMA FinalStaysOK ==
    ASSUME NEW final, FinalOK(final), Onward
    PROVE  FinalOK(final)'
BY WholeStays, AllHeldStays DEF FinalOK

LEMMA FinInvInit ==
    ASSUME FinInit
    PROVE  FinInv
<1>1. FinTypeOK
  <2>1. 0 \in 0..MaxCloseouts
    BY CloseoutAssumption DEF FinalizeAssumption
  <2>2. QED
    BY <2>1 DEF FinInit, FinTypeOK
<1>2. QED
  BY <1>1 DEF FinInit, FinInv

\* The part of the invariant that looks at the finalizations and at what they published.
FinalsOK ==
    /\ finals = [f \in FinalId |-> finals[f]]
    /\ \A f \in FinalId : finals[f] # Idle => FinalOK(finals[f])

PublicOK ==
    /\ \A x \in public : Whole(x.final.main)
    /\ public # {} => AllHeld

LEMMA FinalMoves ==
    ASSUME FinalsOK, Onward, NEW f \in FinalId, NEW final, Moving(f, final),
           final # Idle => FinalOK(final)'
    PROVE  FinalsOK' /\ \A g \in FinalId : finals'[g] # Idle =>
                finals'[g].phase \in {"verified", "creating", "publishing"}
<1>1. finals' = [g \in FinalId |-> IF g = f THEN final ELSE finals[g]]
  BY DEF FinalsOK, Moving
<1>2. \A g \in FinalId : finals'[g] = IF g = f THEN final ELSE finals[g]
  BY <1>1
<1>3. ASSUME NEW g \in FinalId, finals'[g] # Idle
      PROVE  FinalOK(finals[g])'
  <2>1. CASE g = f
    <3>1. FinalOK(final)'
      BY <1>2, <1>3, <2>1
    <3>2. finals'[g] = final
      BY <1>2, <2>1
    <3>3. QED
      BY <3>1, <3>2 DEF FinalOK
  <2>2. CASE g # f
    <3>1. PICK old : old = finals[g]
      OBVIOUS
    <3>2. finals'[g] = old /\ FinalOK(old)
      BY <1>2, <1>3, <2>2, <3>1 DEF FinalsOK
    <3>3. FinalOK(old)'
      BY <3>2, FinalStaysOK
    <3>4. QED
      BY <3>2, <3>3 DEF FinalOK
  <2>3. QED
    BY <2>1, <2>2
<1>4. FinalsOK'
  BY <1>1, <1>3 DEF FinalsOK
<1>5. QED
  BY <1>3, <1>4 DEF FinalOK

LEMMA PublicStaysOK ==
    ASSUME PublicOK, Onward, public' = public
    PROVE  PublicOK'
BY WholeStays, AllHeldStays DEF PublicOK

LEMMA FinInvParts ==
    ASSUME FinInv
    PROVE  FinTypeOK /\ FinalsOK /\ PublicOK
BY DEF FinInv, FinalsOK, PublicOK

LEMMA FinInvWhole ==
    ASSUME FinTypeOK, FinalsOK, PublicOK
    PROVE  FinInv
BY DEF FinInv, FinalsOK, PublicOK

\* What FinTypeOK says besides the phases.
FinRest ==
    /\ main.page \in {"candidate", "closed", "stale"} /\ main.commit \in Commit \cup {Absent}
    /\ tag \in Commit \cup {Absent}
    /\ drafts \subseteq Release /\ {x.release : x \in public} \subseteq Release
    /\ closeouts \in 0..MaxCloseouts

\* A step of a finalization that neither publishes nor breaks a type.
LEMMA QuietStep ==
    ASSUME FinInv, Onward, NEW f \in FinalId, NEW final, Moving(f, final),
           final # Idle => FinalOK(final)', FinRest', public' = public
    PROVE  FinInv'
<1>1. FinalsOK /\ PublicOK
  BY FinInvParts
<1>2. FinalsOK' /\ \A g \in FinalId : finals'[g] # Idle =>
          finals'[g].phase \in {"verified", "creating", "publishing"}
  BY <1>1, FinalMoves
<1>3. PublicOK'
  BY <1>1, PublicStaysOK
<1>4. FinTypeOK'
  BY <1>2 DEF FinRest, FinTypeOK
<1>5. QED
  BY <1>2, <1>3, <1>4 DEF FinInv, FinalsOK, PublicOK

LEMMA CompletePublishKeepsFinInv ==
    ASSUME FinInv, NEW f \in FinalId, CompletePublish(f), visible' = visible
    PROVE  FinInv'
<1>1. FinTypeOK /\ FinalsOK /\ PublicOK /\ FinRest
  BY FinInvParts DEF FinTypeOK, FinRest
<1>2. Onward /\ Moving(f, Idle) /\ UNCHANGED << main, tag, closeouts >>
  BY DEF CompletePublish, Onward
<1>3. CASE UNCHANGED << drafts, public >>
  <2>1. FinRest'
    BY <1>1, <1>2, <1>3 DEF FinRest
  <2>2. QED
    BY <1>2, <1>3, <2>1, QuietStep
<1>4. CASE ~UNCHANGED << drafts, public >>
  <2>1. PICK final : final = finals[f]
    OBVIOUS
  <2>2. final # Idle /\ final.phase = "publishing" /\ FinalOK(final)
    BY <1>1, <2>1 DEF CompletePublish, FinalsOK
  <2>3. PICK d \in drafts : /\ drafts' = drafts \ {d}
                            /\ public' = public \cup {[release |-> d, final |-> final]}
    BY <1>4, <2>1 DEF CompletePublish
  <2>4. PICK x : x = [release |-> d, final |-> final]
    OBVIOUS
  <2>5. x.release = d /\ x.final = final /\ public' = public \cup {x}
    BY <2>3, <2>4
  <2>6. Whole(final.main)' /\ AllHeld'
    BY <1>2, <2>2, WholeStays, AllHeldStays DEF FinalOK
  <2>7. PublicOK'
    <3>1. \A y \in public : Whole(y.final.main)'
      BY <1>1, <1>2, WholeStays DEF PublicOK
    <3>2. SUFFICES \A y \in public' : Whole(y.final.main)'
      BY <2>6 DEF PublicOK
    <3>3. QED
      BY <2>5, <2>6, <3>1
  <2>8. FinalsOK' /\ \A g \in FinalId : finals'[g] # Idle =>
            finals'[g].phase \in {"verified", "creating", "publishing"}
    BY <1>1, <1>2, FinalMoves
  <2>9. FinRest'
    BY <1>1, <1>2, <2>3, <2>5 DEF FinRest
  <2>10. FinTypeOK'
    BY <2>8, <2>9 DEF FinRest, FinTypeOK
  <2>11. QED
    BY <2>7, <2>8, <2>10 DEF FinInv, FinalsOK, PublicOK
<1>5. QED
  BY <1>3, <1>4

LEMMA PeopleKeepFinInv ==
    ASSUME FinInv, visible' = visible, UNCHANGED << finals, public, drafts >>,
           \/ \E c \in Named : PushTag(c)
           \/ \E c \in Named, e \in collected, page \in {"closed", "stale"} :
                  MergeCloseout(c, e, page)
    PROVE  FinInv'
<1>1. FinTypeOK /\ FinalsOK /\ PublicOK
  BY FinInvParts
<1>2. Onward
  BY DEF Onward, PushTag, MergeCloseout
<1>3. PublicOK'
  BY <1>1, <1>2, PublicStaysOK
<1>4. FinalsOK'
  <2>1. ASSUME NEW g \in FinalId, finals[g] # Idle
        PROVE  FinalOK(finals[g])'
    <3>1. PICK old : old = finals[g]
      OBVIOUS
    <3>2. FinalOK(old)'
      BY <1>1, <1>2, <2>1, <3>1, FinalStaysOK DEF FinalsOK
    <3>3. QED
      BY <3>1, <3>2 DEF FinalOK
  <2>2. QED
    BY <1>1, <2>1 DEF FinalsOK
<1>5. FinTypeOK'
  <2>1. Named \subseteq Commit /\ MaxCloseouts \in Nat
    BY CloseoutAssumption DEF FinalizeAssumption
  <2>2. CASE \E c \in Named : PushTag(c)
    BY <1>1, <2>1, <2>2 DEF PushTag, FinTypeOK
  <2>3. CASE \E c \in Named, e \in collected, page \in {"closed", "stale"} :
                  MergeCloseout(c, e, page)
    <3>1. PICK c \in Named, e \in collected, page \in {"closed", "stale"} :
              MergeCloseout(c, e, page)
      BY <2>3
    <3>2. main'.page = page /\ main'.commit = c /\ tag' = tag
      BY <3>1 DEF MergeCloseout
    <3>3. closeouts' \in 0..MaxCloseouts
      BY <1>1, <2>1, <3>1 DEF MergeCloseout, FinTypeOK
    <3>4. QED
      BY <1>1, <2>1, <3>2, <3>3 DEF FinTypeOK
  <2>4. QED
    BY <2>2, <2>3
<1>6. QED
  BY <1>3, <1>4, <1>5 DEF FinInv, FinalsOK, PublicOK

LEMMA FinInvNext ==
    ASSUME FinInv, FinNext, visible' = visible
    PROVE  FinInv'
<1>1. FinTypeOK /\ FinalsOK /\ PublicOK /\ FinRest
  BY FinInvParts DEF FinTypeOK, FinRest
<1>2. Named \subseteq Commit
  BY CloseoutAssumption DEF FinalizeAssumption
<1>3. ASSUME NEW f \in FinalId, NEW c \in Named, StageVerify(f, c)
      PROVE  FinInv'
  <2>1. PICK final : final = [kind |-> "stage", phase |-> "verified", commit |-> c,
                              main |-> main]
    OBVIOUS
  <2>2. Moving(f, final) /\ UNCHANGED << main, tag, drafts, public, closeouts >>
    BY <1>3, <2>1 DEF StageVerify
  <2>3. FinalOK(final)'
    BY <1>2, <2>1 DEF FinalOK
  <2>4. Onward /\ FinRest'
    BY <1>1, <2>2 DEF Onward, FinRest
  <2>5. QED
    BY <2>2, <2>3, <2>4, QuietStep
<1>4. ASSUME NEW f \in FinalId, NEW c \in Named, CompleteVerify(f, c)
      PROVE  FinInv'
  <2>1. PICK final : final = [kind |-> "complete", phase |-> "publishing", commit |-> c,
                              main |-> main]
    OBVIOUS
  <2>2. Moving(f, final) /\ UNCHANGED << main, tag, drafts, public, closeouts >>
    BY <1>4, <2>1 DEF CompleteVerify
  <2>3. Whole(main) /\ AllHeld
    BY <1>4, VerifiedIsWhole
  <2>4. Onward /\ FinRest'
    BY <1>1, <2>2 DEF Onward, FinRest
  <2>5. FinalOK(final)
    BY <1>2, <2>1, <2>3 DEF FinalOK
  <2>6. FinalOK(final)'
    BY <2>4, <2>5, FinalStaysOK
  <2>7. QED
    BY <2>2, <2>4, <2>6, QuietStep
<1>5. ASSUME NEW f \in FinalId, StageCheckTag(f)
      PROVE  FinInv'
  <2>1. PICK old : old = finals[f]
    OBVIOUS
  <2>2. old.commit \in Commit /\ {"phase", "commit"} \subseteq DOMAIN old
    BY <1>1, <1>5, <2>1 DEF StageCheckTag, FinalsOK, FinalOK
  <2>3. PICK final : final = IF TagAllows(old.commit) /\ drafts \cup public = {}
                             THEN [old EXCEPT !.phase = "creating"] ELSE Idle
    OBVIOUS
  <2>4. Moving(f, final) /\ UNCHANGED << main, tag, drafts, public, closeouts >>
    BY <1>5, <2>1, <2>3 DEF StageCheckTag
  <2>5. final # Idle => FinalOK(final)'
    <3>1. SUFFICES ASSUME final # Idle
                   PROVE  FinalOK(final)'
      OBVIOUS
    <3>2. final = [old EXCEPT !.phase = "creating"]
      BY <2>3, <3>1
    <3>3. /\ final.phase = "creating" /\ final.commit = old.commit
          /\ DOMAIN final = DOMAIN old
      BY <2>2, <3>2
    <3>4. QED
      BY <2>2, <3>3 DEF FinalOK
  <2>6. Onward /\ FinRest'
    BY <1>1, <2>4 DEF Onward, FinRest
  <2>7. QED
    BY <2>4, <2>5, <2>6, QuietStep
<1>6. ASSUME NEW f \in FinalId, StageCreateDraft(f)
      PROVE  FinInv'
  <2>1. PICK old : old = finals[f]
    OBVIOUS
  <2>2. old.commit \in Commit
    BY <1>1, <1>6, <2>1 DEF StageCreateDraft, FinalsOK, FinalOK
  <2>3. PICK d : d = [creator |-> f, target |-> old.commit]
    OBVIOUS
  <2>4. /\ Moving(f, Idle) /\ drafts' = drafts \cup {d} /\ UNCHANGED << main, public, closeouts >>
        /\ tag' \in {tag, IF tag = Absent THEN old.commit ELSE tag}
    BY <1>6, <2>1, <2>3 DEF StageCreateDraft
  <2>5. d \in Release
    BY <2>2, <2>3 DEF Release
  <2>6. Onward /\ FinRest'
    BY <1>1, <2>2, <2>4, <2>5 DEF Onward, FinRest
  <2>7. QED
    BY <2>4, <2>6, QuietStep
<1>7. ASSUME NEW f \in FinalId, FinalFails(f)
      PROVE  FinInv'
  <2>1. Moving(f, Idle) /\ UNCHANGED << main, tag, drafts, public, closeouts >>
    BY <1>7 DEF FinalFails
  <2>2. Onward /\ FinRest'
    BY <1>1, <2>1 DEF Onward, FinRest
  <2>3. QED
    BY <2>1, <2>2, QuietStep
<1>8. ASSUME NEW f \in FinalId, CompletePublish(f)
      PROVE  FinInv'
  BY <1>8, CompletePublishKeepsFinInv
<1>9. CASE \/ \E c \in Named : PushTag(c)
           \/ \E c \in Named, e \in collected, page \in {"closed", "stale"} :
                  MergeCloseout(c, e, page)
  BY <1>9, PeopleKeepFinInv, SMTT(60) DEF PushTag, MergeCloseout
<1>10. QED
  BY <1>3, <1>4, <1>5, <1>6, <1>7, <1>8, <1>9 DEF FinNext

\* The registries show no less after a step of the publication.
LEMMA IndexGrows ==
    ASSUME PubNext
    PROVE  visible' = visible \/ \E a \in registry : Propagate(a)
BY ZenonT(60) DEF PubNext, Push, Advance, Selection, BuildArtifact, Authorize, CheckBundle,
       PythonPreflight, NpmPreflight, Upload, Fail, RerunFailedJobs, Disturb, Dispatch

LEMMA IdleKeepsFinInv ==
    ASSUME FinInv, visible \subseteq visible', UNCHANGED finVars
    PROVE  FinInv'
<1>1. FinTypeOK /\ FinalsOK /\ PublicOK
  BY FinInvParts
<1>2. UNCHANGED << main, finals, tag, drafts, public, closeouts >> /\ Onward
  BY DEF finVars, Onward
<1>3. PublicOK'
  BY <1>1, <1>2, PublicStaysOK
<1>4. FinalsOK'
  <2>1. ASSUME NEW g \in FinalId, finals[g] # Idle
        PROVE  FinalOK(finals[g])'
    <3>1. PICK old : old = finals[g]
      OBVIOUS
    <3>2. FinalOK(old)'
      BY <1>1, <1>2, <2>1, <3>1, FinalStaysOK DEF FinalsOK
    <3>3. QED
      BY <1>2, <3>1, <3>2 DEF FinalOK
  <2>2. QED
    BY <1>1, <1>2, <2>1 DEF FinalsOK
<1>5. FinTypeOK'
  BY <1>1, <1>2 DEF FinTypeOK
<1>6. QED
  BY <1>3, <1>4, <1>5 DEF FinInv, FinalsOK, PublicOK

LEMMA IdleKeepsPubInv ==
    ASSUME PubInv, UNCHANGED pubVars
    PROVE  PubInv'
<1>1. RunsTyped /\ RunsOK /\ Stock
  BY DEF PubInv, PubTypeOK, RunsTyped
<1>2. UNCHANGED << head, runs, registry, visible, faults >>
  BY DEF pubVars
<1>3. Stock' /\ RunsOK'
  BY <1>1, <1>2, SameRunsGoOn, StockStays DEF RunsOK
<1>4. PubTypeOK'
  BY <1>2 DEF PubInv, PubTypeOK
<1>5. QED
  BY <1>3, <1>4 DEF PubInv

LEMMA RelInvNext ==
    ASSUME RelInv, [RelNext]_relVars
    PROVE  RelInv'
<1>1. PubInv /\ FinInv
  BY DEF RelInv
<1>2. CASE PubNext /\ UNCHANGED finVars
  <2>1. visible \subseteq visible'
    BY <1>2, IndexGrows DEF Propagate
  <2>2. QED
    BY <1>1, <1>2, <2>1, PubInvNext, IdleKeepsFinInv DEF RelInv
<1>3. CASE FinNext /\ UNCHANGED pubVars
  <2>1. visible' = visible
    BY <1>3 DEF pubVars
  <2>2. QED
    BY <1>1, <1>3, <2>1, FinInvNext, IdleKeepsPubInv DEF RelInv
<1>4. CASE UNCHANGED relVars
  <2>1. UNCHANGED pubVars /\ UNCHANGED finVars
    BY <1>4 DEF relVars
  <2>2. visible' = visible
    BY <2>1 DEF pubVars
  <2>3. QED
    BY <1>1, <2>1, <2>2, IdleKeepsPubInv, IdleKeepsFinInv DEF RelInv
<1>5. QED
  BY <1>2, <1>3, <1>4 DEF RelNext

(***************************************************************************)
(* The workflows keep the invariant: a run's bundle and receipt, what the   *)
(* registries hold and show, and what the finalizations publish.            *)
(***************************************************************************)
THEOREM ReleaseInvariant == RelSpec => []RelInv
<1>1. RelInit => RelInv
  BY PubInvInit, FinInvInit DEF RelInit, RelInv
<1>2. RelInv /\ [RelNext]_relVars => RelInv'
  BY RelInvNext
<1>3. QED
  BY <1>1, <1>2, PTL DEF RelSpec

(***************************************************************************)
(* Types: a run's version, bundle, receipt and counters, the registries,    *)
(* the tag, the drafts and the public release stay what they should be,     *)
(* through any number of reruns and finalizations.                          *)
(***************************************************************************)
THEOREM ReleaseTypes == RelSpec => [](PubTypeOK /\ FinTypeOK)
<1>1. RelInv => PubTypeOK /\ FinTypeOK
  BY DEF RelInv, PubInv, FinInv
<1>2. QED
  BY <1>1, ReleaseInvariant, PTL

(***************************************************************************)
(* Whatever reaches a registry was authorized: built from the commit of a   *)
(* publishing run, byte for byte what that run's receipt names, from a      *)
(* commit whose documents, manifests and lockfiles agreed - although        *)
(* bundles change in the store, jobs fail and are run again, and any number *)
(* of runs work at the same time (release_guard.py, release-python.yml,     *)
(* release-npm.yml).                                                        *)
(***************************************************************************)
THEOREM OnlyQualifiedIsPublished == RelSpec => []PublishedWasQualified
<1>1. RelInv => PublishedWasQualified
  BY DEF RelInv, PubInv, Stock
<1>2. QED
  BY <1>1, ReleaseInvariant, PTL

(***************************************************************************)
(* A published producer can always be installed with a specification that   *)
(* the index shows: the preflights read the index, the upload comes later,  *)
(* and nothing in between can take the specification away                   *)
(* (verify_spec_registry.py, verify_npm_registry_peer.mjs).                 *)
(***************************************************************************)
THEOREM ProducersInstall == RelSpec => []ProducerInstalls
<1>1. RelInv => ProducerInstalls
  BY DEF RelInv, PubInv, Stock
<1>2. QED
  BY <1>1, ReleaseInvariant, PTL

(***************************************************************************)
(* A public GitHub release names, by its tag, its release state and its     *)
(* evidence, one commit, and all the evidence is still shown, whatever      *)
(* races between stages, hand-pushed tags and closeouts there were          *)
(* (release-finalize.yml, verify_public_release.py).                        *)
(***************************************************************************)
THEOREM PublicReleasesAreWhole == RelSpec => []PublicReleaseIsWhole
<1>1. RelInv => PublicReleaseIsWhole
  BY DEF RelInv, FinInv, PublicReleaseIsWhole, Whole
<1>2. QED
  BY <1>1, ReleaseInvariant, PTL

-------------------------------------------------------------------------------
(* The two wheels share a namespace without owning it.                      *)

LEMMA WheelIsClean ==
    ASSUME NEW a \in Sound, a.kind = "wheel"
    PROVE  /\ Py!NamespaceInit \notin DOMAIN Content[a]
           /\ \A path \in DOMAIN Content[a] :
                  Py!Under(<< "agent_topology" >>, path)
                      => Py!Under(<< "agent_topology", a.package[2] >>, path)
<1>1. PICK wheel : wheel = Content[a]
  OBVIOUS
<1>2. PICK tree : tree = Tree[a.commit]
  OBVIOUS
<1>3. Py!InspectArchive(tree, a.package[2], "wheel", wheel)
  BY <1>1, <1>2 DEF Sound
<1>4. PICK expected : Py!InspectWheel(wheel, tree, a.package[2], expected)
  BY <1>3 DEF Py!InspectArchive
<1>5. Py!WheelContents(wheel, a.package[2], expected)
  BY <1>4 DEF Py!InspectWheel
<1>6. QED
  BY <1>1, <1>5 DEF Py!WheelContents

LEMMA FirstPart ==
    ASSUME NEW N, NEW path \in Seq(N), Len(path) > 1, NEW x, path[1] = x
    PROVE  SubSeq(path, 1, 1) = << x >>
<1>1. PICK s : s = SubSeq(path, 1, 1)
  OBVIOUS
<1>2. s \in Seq(N) /\ Len(s) = 1 /\ s[1] = x
  BY <1>1
<1>3. s = << x >>
  BY <1>2
<1>4. QED
  BY <1>1, <1>3

\* What hatchling puts below agent_topology has a name there.
LEMMA WheelPaths ==
    ASSUME NEW a \in Artifact, a.kind = "wheel", a.package[1] = "python",
           NEW path \in DOMAIN Content[a], path[1] = "agent_topology"
    PROVE  Py!Under(<< "agent_topology" >>, path)
<1>1. PICK tree : tree = Tree[a.commit]
  OBVIOUS
<1>2. PICK package : package = a.package[2]
  OBVIOUS
<1>3. a.commit \in Commit /\ package \in {"spec", "langgraph"} /\ tree = Repository[a.commit]
  BY <1>1, <1>2 DEF Artifact, Package, Tree
<1>4. PICK N : N = STRING \cup {"agent_topology", "spec", "langgraph",
                                "agent-topology.schema.json"}
  OBVIOUS
<1>5. tree.src[<< "python", package >>] \subseteq Seq(N) \ {<< >>}
  <2>1. tree.src[<< "python", package >>] \subseteq Seq(STRING) \ {<< >>}
    BY <1>3, WorkflowAssumption DEF PublishAssumption
  <2>2. Seq(STRING) \subseteq Seq(N)
    BY <1>4
  <2>3. QED
    BY <2>1, <2>2
<1>6. Py!Shipped(tree, package) \subseteq Seq(N) \ {<< >>}
  <2>1. Py!GeneratedFiles[package] \subseteq {<< "agent-topology.schema.json" >>}
    BY <1>3 DEF Py!GeneratedFiles
  <2>2. << package >> \o << "agent-topology.schema.json" >> \in Seq(N) \ {<< >>}
    BY <1>3, <1>4
  <2>3. QED
    BY <1>5, <2>1, <2>2 DEF Py!Shipped
<1>7. Content[a] = Py!BuildWheel(tree, package)
  BY <1>1, <1>2 DEF Content
<1>8. \/ \E f \in Py!Shipped(tree, package) : path = << "agent_topology" >> \o f
      \/ path[1] = "dist-info"
  <2>1. PICK code : code = {<< "agent_topology" >> \o f : f \in Py!Shipped(tree, package)}
    OBVIOUS
  <2>2. PICK info : info =
            {<< "dist-info", "METADATA" >>, << "dist-info", "licenses", "LICENSE" >>}
                \cup (IF tree.project[<< "python", package >>].scripts = {} THEN {}
                      ELSE {<< "dist-info", "entry_points.txt" >>})
    OBVIOUS
  <2>3. DOMAIN Content[a] = code \cup info
    BY <1>7, <2>1, <2>2 DEF Py!BuildWheel
  <2>4. \A p \in info : p[1] = "dist-info"
    BY <2>2
  <2>5. QED
    BY <2>1, <2>3, <2>4
<1>9. PICK f \in Seq(N) \ {<< >>} : path = << "agent_topology" >> \o f
  BY <1>6, <1>8
<1>10. << "agent_topology" >> \in Seq(N)
  BY <1>4
<1>11. /\ path \in Seq(N) /\ Len(path) = 1 + Len(f)
  BY <1>9, <1>10
<1>12. Len(f) > 0 /\ Len(path) > 1
  BY <1>9, <1>11
<1>13. SubSeq(path, 1, 1) = << "agent_topology" >>
  BY <1>11, <1>12, FirstPart
<1>14. Len(<< "agent_topology" >>) = 1
  OBVIOUS
<1>15. QED
  BY <1>12, <1>13, <1>14 DEF Py!Under

LEMMA OneOwner ==
    ASSUME NEW path, NEW x, NEW y, NEW z,
           Py!Under(<< x, y >>, path), Py!Under(<< x, z >>, path)
    PROVE  y = z
<1>1. << x, y >> = SubSeq(path, 1, 2)
  BY DEF Py!Under
<1>2. << x, z >> = SubSeq(path, 1, 2)
  BY DEF Py!Under
<1>3. << x, y >> = << x, z >>
  BY <1>1, <1>2
<1>4. QED
  BY <1>3

(***************************************************************************)
(* No published wheel holds agent_topology/__init__.py, and no two of       *)
(* different packages hold a file in common below agent_topology, whatever  *)
(* the source trees of the commits contained: hatchling ships all of them,  *)
(* verify_python_artifacts.py refuses a foreign file, and nothing but       *)
(* inspected bytes is uploaded.                                             *)
(***************************************************************************)
THEOREM NamespaceStaysClean == RelSpec => []PublicNamespaceIsClean
<1>1. RelInv => PublicNamespaceIsClean
  <2>1. SUFFICES ASSUME RelInv,
                        NEW a \in {a \in registry : a.kind = "wheel"},
                        NEW b \in {b \in registry : b.kind = "wheel"}
                 PROVE  /\ Py!NamespaceInit \notin Owned[a]
                        /\ a.package # b.package => Owned[a] \cap Owned[b] = {}
    BY DEF PublicNamespaceIsClean
  <2>2. \A c \in {a, b} : c \in Sound /\ c \in Artifact /\ c.kind = "wheel"
    BY <2>1 DEF RelInv, PubInv, Stock
  <2>3. \A c \in {a, b} :
            /\ c.package[1] = "python" /\ c.package \in Package
            /\ Owned[c] = {path \in DOMAIN Content[c] : path[1] = "agent_topology"}
    BY <2>2 DEF Sound, Owned, Artifact
  <2>4. Py!NamespaceInit \notin Owned[a]
    BY <2>2, <2>3, WheelIsClean
  <2>5. ASSUME NEW path, path \in Owned[a], path \in Owned[b]
        PROVE  a.package = b.package
    <3>1. ASSUME NEW c \in {a, b}
          PROVE  Py!Under(<< "agent_topology", c.package[2] >>, path)
      <4>1. path \in DOMAIN Content[c] /\ path[1] = "agent_topology"
        BY <2>3, <2>5
      <4>2. Py!Under(<< "agent_topology" >>, path)
        BY <2>2, <2>3, <4>1, WheelPaths
      <4>3. QED
        BY <2>2, <4>1, <4>2, WheelIsClean
    <3>2. a.package[2] = b.package[2]
      BY <3>1, OneOwner
    <3>3. QED
      BY <2>3, <3>2, FourPackages
  <2>6. QED
    BY <2>4, <2>5
<1>2. QED
  BY <1>1, ReleaseInvariant, PTL

-------------------------------------------------------------------------------
(* The coordinated release.                                                 *)

Available == {p \in Package : RegistryEvidence(p, VersionOf(Candidate, p)) # {}}

LEMMA AvailableIsHeld ==
    Available = {p \in Package : Holds(visible, p)}
BY DEF Available, RegistryEvidence, Holds

LEMMA SpecsComeFirst ==
    ASSUME RelInv, NEW p \in Package, Holds(registry, p)
    PROVE  SpecOf(p) = p \/ Holds(visible, SpecOf(p))
BY FourPackages DEF RelInv, PubInv, Stock, InOrder

LEMMA SameAvailable ==
    ASSUME visible' = visible
    PROVE  Available' = Available
BY DEF Available, RegistryEvidence

LEMMA OneMoreAvailable ==
    ASSUME RelInv, NEW a \in registry, Propagate(a)
    PROVE  \/ Available' = Available
           \/ \E p \in Package : /\ p \notin Available
                                 /\ SpecOf(p) \in Available \cup {p}
                                 /\ Available' = Available \cup {p}
<1>1. visible' = visible \cup {a}
  BY DEF Propagate
<1>2. Available' = {p \in Package : Holds(visible', p)}
  BY DEF Available, RegistryEvidence, Holds
<1>3. PICK p \in Package : p = a.package
  BY DEF RelInv, PubInv, Stock, Artifact
<1>4. \A q \in Package : Holds(visible', q) <=> Holds(visible, q) \/ Holds({a}, q)
  BY <1>1 DEF Holds
<1>5. \A q \in Package : Holds({a}, q) => q = p
  BY <1>3 DEF Holds
<1>6. Holds({a}, p) => Holds(registry, p)
  BY HoldsGrows
<1>7. CASE Holds({a}, p) /\ ~Holds(visible, p)
  <2>1. p \notin Available
    BY <1>7, AvailableIsHeld
  <2>2. SpecOf(p) \in Available \cup {p}
    BY <1>6, <1>7, SpecsComeFirst, FourPackages, AvailableIsHeld
  <2>3. Available' = Available \cup {p}
    BY <1>2, <1>4, <1>5, <1>7, AvailableIsHeld
  <2>4. QED
    BY <2>1, <2>2, <2>3
<1>8. CASE ~(Holds({a}, p) /\ ~Holds(visible, p))
  BY <1>2, <1>4, <1>5, <1>8, AvailableIsHeld
<1>9. QED
  BY <1>7, <1>8

\* Only complete publishes, and only what it has verified.
LEMMA PublicStep ==
    ASSUME RelInv, [RelNext]_relVars, public' # public
    PROVE  public' # {} /\ AllHeld
<1>1. PICK f \in FinalId : CompletePublish(f)
  BY DEF RelNext, relVars, finVars, FinNext, StageVerify, CompleteVerify, StageCheckTag,
         StageCreateDraft, FinalFails, PushTag, MergeCloseout
<1>2. finals[f] # Idle /\ finals[f].phase = "publishing" /\ public' # {}
  BY <1>1 DEF CompletePublish
<1>3. QED
  BY <1>2 DEF RelInv, FinInv, FinalOK

(***************************************************************************)
(* The workflows, and the people who dispatch, rerun, tag and merge around  *)
(* them, implement the coordinated release of docs/releasing.md: packages   *)
(* become available one at a time and stay so, a producer never before its  *)
(* specification, and the release is announced when all four are there.     *)
(***************************************************************************)
THEOREM ReleaseImplementsCoordinated == RelSpec => ImplementsCoordinatedRelease
<1>1. RelInit /\ RelInv => Coordinated!Init
  <2>1. SUFFICES ASSUME RelInit, RelInv
                 PROVE  Coordinated!Init
    OBVIOUS
  <2>2. Available \in SUBSET Package
    BY DEF Available
  <2>3. \A p \in Available : SpecOf(p) \in Available
    <3>1. SUFFICES ASSUME NEW p \in Package, Holds(visible, p)
                   PROVE  SpecOf(p) \in Available
      BY AvailableIsHeld
    <3>2. Holds(registry, p)
      BY <2>1, <3>1, HoldsGrows DEF RelInv, PubInv, Stock
    <3>3. SpecOf(p) = p \/ Holds(visible, SpecOf(p))
      BY <2>1, <3>1, <3>2, SpecsComeFirst
    <3>4. QED
      BY <3>1, <3>3, FourPackages, AvailableIsHeld
  <2>4. public = {}
    BY <2>1 DEF RelInit, FinInit
  <2>5. QED
    BY <2>2, <2>3, <2>4 DEF Coordinated!Init, Coordinated!SpecFirst, Available
<1>2. RelInv /\ [RelNext]_relVars
          => [Coordinated!Next]_<< Available, public # {} >>
  <2>1. SUFFICES ASSUME RelInv, [RelNext]_relVars
                 PROVE  [Coordinated!Next]_<< Available, public # {} >>
    OBVIOUS
  <2>2. RelInv'
    BY <2>1, RelInvNext
  <2>3. CASE visible' = visible /\ public' = public
    BY <2>3, SameAvailable
  <2>4. CASE public' = public /\ registry' = registry /\ \E a \in registry : Propagate(a)
    <3>1. PICK a \in registry : Propagate(a)
      BY <2>4
    <3>2. \/ Available' = Available
          \/ \E p \in Package : /\ p \notin Available
                                /\ SpecOf(p) \in Available \cup {p}
                                /\ Available' = Available \cup {p}
      BY <2>1, <3>1, OneMoreAvailable
    <3>3. CASE Available' = Available
      BY <2>4, <3>3
    <3>4. CASE \E p \in Package : /\ p \notin Available
                                  /\ SpecOf(p) \in Available \cup {p}
                                  /\ Available' = Available \cup {p}
      BY <2>4, <3>4 DEF Coordinated!Next, Coordinated!Appear, Available
    <3>5. QED
      BY <3>2, <3>3, <3>4
  <2>5. CASE visible' = visible /\ public' # public
    <3>1. public' # {} /\ AllHeld
      BY <2>1, <2>5, PublicStep
    <3>2. Available = Package /\ Available' = Available
      BY <2>5, <3>1, AvailableIsHeld, SameAvailable DEF AllHeld
    <3>3. QED
      BY <3>1, <3>2 DEF Coordinated!Next, Coordinated!Announce, Available
  <2>6. QED
    BY <2>1, <2>3, <2>4, <2>5, IndexGrows
       DEF RelNext, relVars, pubVars, finVars, Propagate
<1>3. QED
  BY <1>1, <1>2, ReleaseInvariant, PTL DEF RelSpec, ImplementsCoordinatedRelease,
                                          Coordinated!Spec, Available
===============================================================================
