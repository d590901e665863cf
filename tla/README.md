# agent-topology in TLA+

This directory holds TLA+ models of the programs in this repository, the TLC
configurations that check them on small instances, and theorems about them that
TLAPS checks. The models are written from the source; where a doc disagrees with
the source, a run shows it.

## 1. The system

agent-topology reads a compiled LangGraph graph and writes a JSON document that
says which graphs, nodes, edges and joins there are, what could not be observed
("gaps"), and which facts about branching, subgraphs, sentinels and entries hold.
Nothing is executed.

| Component | State it keeps | Operations | What is hard |
| --- | --- | --- | --- |
| Python producer, `packages/python/langgraph/.../_describe.py` | the graph documents being built, the set `assigned_ids` shared by the recursion, gaps and descendants per call, `__agent_topology_children__` on compiled objects | `declare_children`, `describe` (checks, `_extract_graph`, strict) | shared set under recursion, references written before what they name, gaps handed upwards, declared cycles, ids made by concatenation |
| TypeScript producer, `packages/typescript/langgraph/src/internal.ts` | the same per call, across `await`s | `describe` / `extractGraph` | builders that change while a call is suspended, concurrent calls, promises that must settle, parity with Python |
| Command line, `_cli.py` | the output file; `sys.path` and `sys.modules` of the process | `agt describe` | exit status versus file content, undoing an import, truncated writes, foreign code |
| Specification packages, `packages/{python,typescript}/spec` | none | `validate_document`, `canonicalize_document`, `compute_structure_hash`, `finalize_document`, `derived_join_edges`, in two languages | injective ids, order independence, numbers spelled by hand, two implementations of everything |
| Artifact inspection, `verify_python_artifacts.py`, `verify_typescript_release.mjs` | none | what a wheel, an sdist, a tarball may hold; the receipt of a tarball | one namespace shared by two distributions |
| Publication, `release-python.yml`, `release-npm.yml`, `check_release_source.py`, `release_guard.py`, `verify_spec_registry.py`, `verify_npm_registry_peer.mjs` | workflow runs with their bundles and receipts, two registries and their indexes | selection, build, inspection, receipt, preflight, upload, rerun | separate runs, index lag, lost answers, a store between check and use, spec before producer |
| Finalization, `release-finalize.yml`, `verify_public_release.py`, `check_release_docs.py` | evidence, tag, draft and published release, release state and pages on main | stage, closeout, complete | reruns, evidence bound to the wrong run, a crash between the halves, races of two finalizations |
| Issue guard, `check_release_issue.py`, `release-issue-close.yml` | the issue, its comments | reopen on an unmet closure | events that are out of date |
| Trace correlation example, `examples/trace-correlation` | none | match events with nodes | ambiguity, silence taken for absence |
| Trace captures and replays, `docs/research/internal-consumer/campaign-agent` | the recorder's events, counters and stack of running children; the graph it watches; `trace.json` | run to the gate, resume, record from three sources; replay | children that raise under a spy, counters that must survive the interrupt, conclusions drawn from a trace alone |

The command calls the producer, the producer calls LangGraph (external) and
`finalize_document`; consumers run the validator. The release workflows publish
the four packages the others are shipped in. Producers share nothing but the
document contract, so the same program described by both must come out alike. The
captures run a consumer's graph around `describe` and record what the framework, the
nodes and the calls of declared children tell, to be compared with the document.

What makes each component correct:

* producers: ids of graphs are unique, every reference resolves to the child the
  node holds, the budget bounds the recursion, nothing found is dropped on the
  way up, nothing unknown is presented as known, strict refuses exactly the
  documents with gaps, the output passes the validator, calls end and do not
  influence each other, both languages agree;
* command: the exit status tells what is in the file, however the call ends, and
  a failed import leaves nothing behind;
* specification packages: declaration order and descriptive fields do not change
  the hash, every difference in structure does, numbers read back, both languages
  write the same bytes and find the same errors;
* correlation: nothing is concluded from an event that could be about another
  node, or from silence about an incomplete graph;
* captures: an event is put under the node whose child was running however calls end,
  a trace is only written of a run that paused and was resumed, and what the replays
  conclude from it is what the run did;
* releases: what is published is what was checked, a specification is public
  before a producer that needs it, the namespace belongs to nobody, a rerun
  completes or refuses but never publishes something else, the tag, the release
  and the evidence name one commit.

## 2. Modules

```
NodeIds                        names, ranks, sentinels
 +- CompiledGraphs             what the Python producer sees of LangGraph
 |   +- PyStructure            edges, joins, routers, children of one graph
 |       +- ExtractContract    what describe() promises (abstract)
 |       +- PyExtract          the recursion, strict
 |       +- PyInterpretation   the facts
 |            PyDescribe       PyExtract + facts + Validation
 |             +- Parity       PyDescribe and TsStructure side by side
 +- TsStructure                the TypeScript reading of one graph
     +- TsExtract              asynchronous calls and a program that edits builders
Validation                     reference checks of the spec package
Agt                            the command
JsonText                       numbers, strings and key order as JSON text
 +- Canonical                  canonical form, hash, joins in Python
 +- TsCanonical                the same in TypeScript
TsValidation                   the TypeScript validator
Correlate                      the trace correlation example
Consumer                       a document reordered, annotated, validated, traced:
 |                             Correlate, with Validation and TsValidation
 +- HashedDocument             the same document with text and hash: Canonical, TsCanonical
ReleaseSource                  versions, requirements, selection of a package
 +- ReleaseDocs                release state and pages
     +- Publish                qualification, publication, registries
         |                     (with PyArtifacts, NpmArtifacts)
         +- Finalize           tag, draft, evidence, closeout
              CoordinatedRelease      what all of it promises (abstract)
IssueGuard                     release issues
TraceReplay                    what the replays conclude from a recorded trace
 +- TraceCapture               the script, its recorder and the graph it runs
MCExtract, MCDescribe, MCTs, MCAgt, MCDocuments, MCRelease, MCTrace   instances for TLC
```

The proofs stand beside the modules they are about:

```
PyExtractProofs                PyExtract: types, ids, references, depth, nothing is dropped;
 |                             the recursion keeps its contract
 +- PyDescribeProofs           names without ':': addresses, the unfolding, strict, the
                               validator; PyDescribe: the facts agree with the traversal;
                               Parity: both producers describe alike
TsExtractProofs                TsExtract; the calls keep the contract
AgtProofs                      Agt
ConsumerProofs                 Consumer: both validators, what a trace shows;
                               HashedDocument: one text, hash and join edges in both
                               languages, numbers read back
ReleaseProofs                  Publish, Finalize, CoordinatedRelease
TraceProofs                    TraceCapture
Lemmas                         induction over the naturals, greatest elements, folds that
                               flatten, prefix codes, delimiters, sorting by rank
```

**Names.** A node id is a sequence of tokens, so that `f"{graph_id}:{node_id}"` is
concatenation and the escape of `+` and `\` in join ids does what it does to
strings. Only `Rank`, the position in code point order, says how ids sort: `InOrder`
is `sorted()` of a list of them. The number in the id of an edge is a `Numeral`,
a text of its own for each number and without a delimiter.

**PyExtract.** `stack` is the Python call stack of `_extract_graph`: a frame has
the document it fills, the nodes its loop has still to look at, the descendants
and gaps collected so far. `docs` are the graph documents in the order they come
to exist (they are dicts passed by reference). Each iteration of the loop is one
of `SkipNode`, `RefuseChild` and `EnterChild`; `ReturnToParent` and
`ReturnFromRoot` are the two places a call returns to; `Finish` is the end of
`describe`. `RejectCall` and `EnterRoot` are the checks of `describe`, in their
order. `DeclareChildren` may be called any number of times before. `EnterChild` writes
the reference and creates the child's document in one step: between the two nothing
can end but by an exception, which leaves `describe` and discards both.

**TsExtract.** An action is what runs between two `await`s. `Draw` is the moment
getGraphAsync reads the builder, `Build` what follows the await up to the next
one, `Resume` the same after a child has been extracted; both end in `Proceed`,
which descends into the next open child or closes the graph. `EditBuilder` is the
program calling addNode, addEdge (also with a list of sources, a join) or
addConditionalEdges on a builder that has been compiled (LangGraph only warns).
`Throw` is the rejection of every awaiting promise when a join has fewer than two
sources: at the first read of a builder, or at the second, behind the awaits, when
the join was added in between.

**PyStructure, PyInterpretation, TsStructure.** Pure operators, one per function
of the source; TsStructure is written from internal.ts alone. A fact stands for
its value, evidence and reason. Labels, names, messages and provenance are not
modelled. Lists whose order finalize_document or the schema makes irrelevant are
sets here. An edge of TsStructure carries its number beside its ends and its kind;
`EdgeId` writes it as internal.ts does, and Parity compares the ids of both.

**ExtractContract.** Starting from one graph, children within the budget are
materialized or refused in any order until none is pending. A step may pass any
number of children whose addresses are taken (`Taken`) and materialize one more, or
none: between two awaits the TypeScript loop does just that, and the Python one
passes them one by one. A call with a graph whose structure is `Unreadable` may
`Abandon` the work at any time and cannot `Complete` it; for TypeScript these are the
graphs that builderStructure rejects, for Python there are none (it writes the join,
section 6). PyExtract and, for one observed caller and builders that do
not change, TsExtract implement it (`ImplementsContract`). What the contract sees of a
caller is in TsExtract's `Seen...` definitions: the graphs that have an address, a
child that has just been given one included; the references written and the one
about to be; the collisions in the result, on the stack, and in the results its
frames have yet to hand up.

**JsonText, Canonical, TsCanonical, TsValidation.** A document is a record, an array a
sequence, a string a sequence of code points, so that sorting and comparing text are
what they are in the code: Python sorts records by a text that spells numbers as
`repr` does, TypeScript by the canonical text itself. A number is its sign, its
digits and the place of the point, which is all the spelling rules look at. The
result is the canonical text; sha256 is taken to be injective, so the hash is the
text of the projection. A document has a fixed depth, so its text is written level by
level (`EncodeElement`, `EncodeStructure`, `EncodeGraph`, `EncodeGraphs`) and a sort is
one `Ordered` with the number of items that precede each: no operator is recursive, and
all of it can be proved about.

**Consumer, HashedDocument.** Compose the packages around one document: a tool may
reorder any collection or set an extension, then a trace is correlated with the
document as it is. Every state compares the packages on it. `IsDocument` is the shape
the schema demands, as far as the code behind it relies on it. What needs the text of
a document is in HashedDocument, and `IsWritten` says what its texts and numbers are:
strings of code points that JSON does not escape, and doubles or literals beyond the
largest.

**ReleaseSource, ReleaseDocs, PyArtifacts, NpmArtifacts.** The checks of the release
scripts as operators on a checkout: its manifests, lockfiles, source files, pages,
evidence files and release state.

**Publish.** A run works on the commit its branch had when it was dispatched and goes
through `selection`, `artifact`, `authorize`, `preflight`, `publish`, `upload`; npm's
preflight is a job before `publish`, Python's a step of it. `Push` moves the release
branch, `Dispatch` starts a run, `RerunFailedJobs` repeats the failed job with the
bundle and receipt that are stored. `Upload` stores one file at a time; a later
`Propagate` shows it in the index. `Disturb` changes or drops a stored file, `Fail` is
any other failure of a job, and an accepted upload may lose its answer.

**Finalize.** `stage` is `StageVerify`, `StageCheckTag`, `StageCreateDraft`, `complete` is
`CompleteVerify`, `CompletePublish`: one action per group of calls between which
something else may happen. `PushTag` and `MergeCloseout` are what people do in between.
Extends Publish, because the evidence it collects is the registries' index.

**IssueGuard.** One job per closing, with the issue of the closing event; people
edit, close and reopen at any time.

**CoordinatedRelease.** Packages appear one by one, a producer not before its
specification, and the release is announced when all four are there. Finalize
implements it: `available` are the packages of the candidate the indexes show,
`announced` is that a release is public.

**TraceReplay, TraceCapture.** `task`, `call`, `pending` and `tries` are the graph: the
framework runs one task at a time, the task may be inside a declared child, the gate may
ask for a decision, the model node may try again. `sequence`, `count`, `nesting` and
`events` are `_Recorder`, written through `Record` by the debug stream (`FinishTask`,
`InterruptTask`), the observer (`ObserveStep`, `ObserveAttempt`) and the spy (`InvokeChild`,
`ReturnChild`, `RaiseInChild`). `BeginRun`, `ResumeRun` and `WriteTrace`, or a refusal, are
the script around its two `stream()` calls. What the nodes do is free; `happened` notes
what they did without the recorder, so that a conclusion can be compared with it.
TraceReplay has the functions of both replays as operators on a trace.

**Agt.** One call of `main()` at a time, its steps in the order of `_cli.py`;
calls may follow each other in one process, and `EndProcess` ends or kills the
process at any step. What the target and describe() do is part of the invocation.

## 3. Runs

| Run | Question | Instance |
| --- | --- | --- |
| `extract` | safety, facts, termination and refinement of the Python recursion | 145 programs over 3 graphs, any two declarations' effects (one of them at START), depth -1..3, strict or not; 53,437 states |
| `describe` | are the documents valid, honest about routers and branches, and like TypeScript's | programs with all 16 sets of four edges, 4 branch shapes, 3 kinds of destinations, hidden nodes, joins with `+` and `\` in names, depth 0 and 1; 8,784 states |
| `ts_interleaved` | do calls stay independent and current while builders grow | 2 callers, 4 programs, 2 edits (edge, router, join, node with a child); 45,548 states |
| `ts_contract` | does every call settle and keep the contract | 2 callers, 9 programs over 4 graphs (one with a join that throws in a child), depth -1 to 3, no edits; 6,440 states |
| `agt` | does the status tell the file, is a failed import undone | 45 invocations (`--help` and a wrong command line among them), 2 calls, kills anywhere; 3,129 states |
| `documents` | is the hash the structure and nothing else, do both languages write, hash, join and validate alike, are numbers spelled so that they read back, is absence concluded only from evidence | 12 structures of two graphs, 15 malformed ones, 174 documents with a number at a boundary, up to 2 rewrites, traces of up to 2 of 12 events; 3,733 states |
| `release` | is what is public what was authorized, can every published producer be installed, is the namespace clean, is a public release whole, does every run end, is an unmet closure undone, and does it all amount to a coordinated release | 2 workflow runs, 2 finalizations, 2 closings, 5 commits, 3 earlier registries; 73,033 states |
| `release_binding` | does evidence name the commit its artifacts were built from (section 6) | `release` without faults, one finalization |
| `trace_capture` | are reports recorded under the right node however calls of children end, is a trace only written of a run that paused, does the replay conclude what happened | a gate, two nodes with a declared child each; 2 tasks, 6 events, 2 reports in a task; 1,957,371 states |
| `degenerate_joins`, `agt_zero`, `agt_path` | three statements of docs that the code does not keep (section 6) | |

Why the bounds are enough. The shortest collision of two addresses needs two
levels and one name with `:` (`m:a` + `b` and `m` + `a:b`): depth 2 and three
graphs hold it. A gap is handed up through two callers at depth 2, and a declared
cycle of one and of two graphs turns round within depth 3. In `ts_contract` a loop
passes a collision and goes on to an open child (`Passing`), and a graph that is a
child itself hands one up (`Nested`). Two callers and two
edits cover an edit on either side of each await of one call while the other is
anywhere; a join added at an await makes the read behind it throw. `DegenerateJoin`
rejects a call from within a child. Two calls of `agt` suffice to inherit what the first
left in a process.

A document is rewritten by swapping neighbours, which generates every order, and
`OrderNeverShows` is about each swap; two rewrites put a swap after another and after
an annotation. Two events make a node both observed and ambiguous. Numbers are taken
on both sides of 1e-6, 1e16 (where Python's repr changes) and 1e21, with one, two,
three and fifteen digits, besides the smallest double, 2^53, the largest double and
1.8e308 beyond it.

Two runs are what a producer overtaking its specification or a release published from
two commits takes, with one rerun, one fault (lost answer, changed or lost file, lost
runner) and an index that is behind by one package. The three earlier registries
leave to publish the two Python packages, both producers, or the npm producer alone.
Two finalizations race, or one completes what another staged.

A capture that confirms the relationship and reopens the gate takes two tasks and five
events: a report within the child, its return, the end of the target's task, and the two
ends of the gate's. A sixth makes a retry, a report outside the child, or a report
of an attempt whose node the metadata does not name. A second child, another node's,
tells the node on top of the recorder's stack from any other.

`CHECK_DEADLOCK FALSE`: a program makes one call of `describe` (each caller one
in TsExtract) and then stops; `agt` stops after `MaxCalls`, a document is rewritten
and traced a bounded number of times, a release is over when its runs are, and a script
ends when its trace is written, it refuses, or a node raises.

Bounds: `Call`, `Declaration`, `World`, `Built`, `Invocation` are the finite input
sets of an instance, as are `Documents`, `Annotations`, `Events`, `Traced`, `Commit`,
`Input`, `Earlier`, `Named` (the commits people name to a finalization), `Body`, `RunId`,
`FinalId` and `JobId`. `MaxEdits`, `MaxCalls`, `MaxRewrites`, `MaxEvents`, `MaxReruns`,
`MaxFaults`, `MaxCloseouts`, `MaxTasks` and `MaxCallbacks` cap counters in guards, and the code's own bound of
three preflight attempts is `Attempts`. The theorems hold for any value of them: of
the caps they use only that they are natural numbers.

To keep `release` small, `MCRelease.Init` begins with one thing wrong at a time: a bad
commit at the head (a bound that PEP 440 reads differently, a forgotten lockfile,
files outside a portion), an index that is behind, or one fault later on.
Finalization is explored from the registry that lacks the npm producer only, and the
issue apart from the release, with which it shares no state.

Programs are such as LangGraph compiles: a runtime node is drawn, START holds no
child, a barrier's raw channel name occurs once (LangGraph refuses two barriers
whose sources join to one name; `test_cli.py`,
`test_delimiter_bearing_join_sources_is_an_extraction_failure`). LangGraph reserves
`:` in node names; programs with `:` are kept because the producers handle them,
and `DelimiterReserved` is the premise of the two properties that need it.

**Fairness.** `FairSpec` of PyExtract is weak fairness of `Extract`: describe() is
one synchronous call that nothing suspends, and declare_children before it may go
on for ever, so only its own steps are fair. In TsExtract it is weak fairness of
`Extract(c)` for each caller: the event loop runs every continuation that is
ready, and `Draw` being fair assumes that getGraphAsync settles. Edits and the
beginning of calls are not fair. Agt needs none. `PubFairness` says that a run which is
working again and again takes steps: GitHub schedules the jobs of a run, gives each a
time limit, and lets an approval nobody gives expire. It is weak fairness of the
steps of each run written out, since a working run can always take one (the build
either succeeds or fails, the preflight either retries or gives up). Dispatching,
rerunning and pushing are not fair, nor is the index: `EveryRunEnds` holds while it
stays behind for ever. `IssFairness` is weak fairness of each job of the guard, a
failing job included; people are not fair.

**Environment of the releases.** Assumed, because code in `src/` and docs/releasing.md
rely on it: a commit always builds the same bytes; a published file is not withdrawn,
PyPI takes an identical file again and refuses another under its name, npm refuses a
version it has; a tag that exists is not moved, and it is pushed once evidence was
collected; stored bundles change only after the receipt exists; the selection is not
run again, as it reads nothing but the commit. A failed job, a lost answer and a
disturbed bundle share `MaxFaults`. A finalization that fails is free: `FinalFails` may
happen at any of its steps.

**Environment of the captures.** The script, the graph, the observer and the spy share one
thread, and the graph runs one task at a time, as the two scripts drive it. A node may
catch what its child raises and call the child again; what a node raises ends the script.
No two nodes declare the same child object: the spy attributes a call to the first
declaration that matches, and the children of campaign-agent are built one for each node.

## 4. Proofs

TLAPS checks the following for every value of the constants: any names, graphs,
programs, calls, edits, invocations, commits, workflow runs, faults and
finalizations, in any number.

| Module | Theorems | State |
| --- | --- | --- |
| `PyExtractProofs` | `TypeCorrect`, `IdsAreUnique`, `NoDanglingReference`, `RecursionIsBounded`, `OutcomeIsComplete`, `RecursionImplementsContract` | `TypeOK`, `GraphIdsUnique`, `ReferencesResolve`, `DepthBudget`, `NothingDropped`; PyExtract implements ExtractContract |
| `PyDescribeProofs` | `AddressesNeverCollide`, `DescribeUnfolds`, `StrictIsExact`, `RoutersAreShown`, `ClaimsAreUnconditional`, `OpaqueIsExplained`, `DescribedAlike`, `OutputIsValid` | `ReservedDelimiterNeverCollides`, `DocumentsAreTheUnfolding`, `StrictMeansNoUnknownRouter`, `UnknownRoutersAreNeverHidden`, `AllDeclaredIsUnconditional`, `OpaqueWithinBudgetIsACollision`, `ProducersAgree`, `OutputPassesValidation` |
| `TsExtractProofs` | `TsTypes`, `EveryReferenceResolves`, `CallsShareNoAddresses`, `ResultIsComplete`, `ClaimsStayCurrent`, `TsImplementsContract` | `TypeOK`, `ReferencesResolve`, `CollisionsAreOnesOwn`, `NothingDropped`, the action property `ClaimsAreCurrent`; TsExtract implements ExtractContract |
| `ConsumerProofs` | `SameVerdict`, `AbsenceIsEarned`, `SameHash`, `NumbersSurvive` | `ValidatorsAgree`, `AbsenceNeedsEvidence`, `LanguagesAgree`, `NumbersReadBack` |
| `AgtProofs` | `AgtTypes`, `StatusIsTruthful`, `ImportsAreUndone` | `TypeOK`, `StatusTellsTheFile`, `FailedImportsLeaveNoTrace` |
| `ReleaseProofs` | `ReleaseTypes`, `OnlyQualifiedIsPublished`, `ProducersInstall`, `NamespaceStaysClean`, `PublicReleasesAreWhole`, `ReleaseImplementsCoordinated` | the types, `PublishedWasQualified`, `ProducerInstalls`, `PublicNamespaceIsClean`, `PublicReleaseIsWhole`; Finalize implements CoordinatedRelease |
| `TraceProofs` | `NestingAlways`, `WrittenRunsPaused`, `ReplaysTellTheRun` | the action property `NestedUnderItsParent`, `OnlyAPausedRunIsWritten`, `ReplayTellsTheRun` |

### Assumptions

Only the named assumptions on the constants, which TLC evaluates in every run:

* `NodeIdAssumption`: ids are non-empty sequences of tokens ordered by `Rank`, no two
  of the same rank; START and END are two of them and hold no `:`; the two delimiters and
  the backslash are three tokens. That other names have no `:` is the premise of the
  properties of the unfolding and of the validator, and nowhere assumed.
* `WorldAssumption`: what compile() guarantees. The runtime nodes are those of the
  builder and START, each of them is drawn, only a builder's node has declared
  destinations, edges are finite in number, and edges, routers, destinations and joins
  connect drawn nodes (`Closed`).
* `ParityAssumption`, of Parity alone: where the two libraries are alike (`Alike`). Both
  draw the builder's nodes and the two sentinels, START runs as it was added, and no
  interrupt names a sentinel. No node is called `*`: a list of interrupts that names such
  a node means every node in Python (`"*" in configured`) and that node in TypeScript
  (`configured === "*"`), so the producers would differ there.
* `CallAssumption`, `CallerAssumption`, `AgtAssumption`: inputs have their types.
* `ConsumerAssumption`: a document has the shape of the schema (`IsDocument`), its ids are
  not empty, and `Missing`, which stands for a field that a trace leaves out, is no id.
  Nothing is assumed of references, duplicates or gaps: malformed documents are
  in its range.
* `WrittenAssumption`, of HashedDocument alone: texts and numbers are what `IsWritten`
  says. A number may be beyond the largest double, but not below the smallest (5e-324), as
  no parser yields one. Escaped characters are not modelled (section 5), hence no text
  holds `"` or a backslash. An extension of a record has one key, `x`, which the schema
  makes the last one; an element has its `id` and no key before it.
* `PublishAssumption`: the branch only moves along `Follows`; a Python package has
  source files; what was published before the run began could be installed and
  had passed the checks of wheels.
* `FinalizeAssumption`: the prepared release has one candidate. `Candidate` is what the
  release state names, and every commit that is prepared for it names the same versions;
  what was public before had its specification. A second release is a second instance.
* `CaptureAssumption`: the gate and the target are nodes, the gate declares no child, and
  children are told apart by the node that declares them. What the children hold, what
  the nodes report and how they end is not restricted.

### The arguments

**PyExtract.** TypeOK is not inductive: EnterChild needs the depth of the frame's
document to be positive, which is true because a frame has nodes to look at only
then. `TypeInv` adds `RecursionInv`: while extracting there is a frame, a frame
with work left has a positive budget, and the stack is empty otherwise.
`RecursionSafe` joins the three safety invariants, because each needs another: a
reference stays resolved when a document is appended only if documents are never
replaced, and the new address is new only if `assigned` is exactly the set of ids.

`OutcomeInv` says where everything is that was found: every document is in the result
or held by exactly one frame (`Held`, `FramesInv`), every router of a document has its
gap somewhere on the stack or in the result and no gap is made up (`GapsInv`), and a
child that has no reference is out of budget, reported, or still ahead of its loop
(`Accounted`). When the stack is empty this is `NothingDropped`. The refinement reads
the contract's `pending` as the children that some loop has still ahead; each return is
a stutter, except the last one.

`TreeInv` adds that a reference is its document's id with the node's name appended and
that every document but the first is so reached (`Addressed`). Together with
`DerivedIdInjective` (names without `:` make distinct addresses, by comparing the last
`:`) no collision is possible, and then the documents are exactly the levels of the
unfolding: one direction by induction on the length of the addresses, the other on the
level. The induction is over natural numbers and stated with a set
(`Lemmas!Induction`), which the provers accept.

**PyDescribe.** The facts are computed afterwards, from the objects and not from what
the traversal did, so that both must agree. `DescribeInv` adds to `OutcomeInv` that a
collision is only reported of a node that holds a child in a document with budget left
(`Refusals`). The first attempt to prove `OpaqueWithinBudgetIsACollision` failed at
START: declare_children accepts it, the traversal materializes or refuses it, and the
facts say nothing of sentinels. The property now says so, and the run `extract` holds
such a declaration.

`DescribedAlike` needs no invariant but that a finished extraction's documents are
graphs of the program. It compares the two translations part by part: the edges by
their numbers, where SetToSeq lists each direct edge of Python once (`SameStructure`), the
joins by the same sort and escape, and the facts of a node by the cases of both sources
(`SameFacts`).

`OutputIsValid` rests on three facts about ids. An escaped source followed by its
delimiter reads only one way: the words "element" and "backslash, element" and the
delimiter form a prefix code (`EscapedCode`), so do the delimited sources
(`DelimitedCode`), and texts made of the words of a prefix code are equal only if the
words are (`Lemmas!PrefixCode`). Hence `JoinIdInjective`, the target being split off at
the last `:`, and `EdgeIdInjective`, an edge's id being split at its colons. Sorting the
distinct sources of a barrier permutes them (`InOrderSorts`: by counting the sources of
lower rank), so a join names drawn nodes, each once. That graph ids are distinct,
references resolve and gaps name a node of a document is `OutcomeInv`, `GapsInv` and
`Refusals` with `Closed` (`GapNamesNode`). The property's premises, that joins are
barriers and `:` is reserved, are the ones the run checks it under.

**TsExtract.** A step of a caller runs a loop from one await to the next, through states
that nobody else sees; `LoopInv` is a predicate of the values of these intermediate
states, shown to survive one descent (`DescendLoop`) and one closing (`CloseOuter`,
`CloseInner`) and hence a whole step. `CallerInv` is the same at an await. `TsInv` says
it of each caller, where only `builders` is shared: `CallerInvGrows` shows that it
survives every edit, because builders only grow. `ClaimsStayCurrent` is about the step
that closes a graph and needs that the invariant keeps all facts `none` until then.

`TsImplementsContract` has the premise `Compiled`, that there are no edits, since the
contract does not know an edge that appears during an await. `SteadyInv` adds to `TsInv`
what this gives: builders stay those of a program, and a graph is `Legible`, drawn as its
builder is and not rejected, unless its frame is still at or just behind the await of the
drawing. So only a frame in `"drawn"` can throw, which is `Abandon` (`ThrowRefines`), and a
call that finishes has read every graph (`RejectedThrow` says that the contract's
`Unreadable` is what builderStructure rejects).
The proof follows the loop again, with the contract's state as one more value: a descent
is `Materialize` with the collisions passed on the way, the end of a loop `Refuse`,
`Finish` is `Complete`, and other callers stutter. The first attempt failed for a good
reason: a step that refuses two children, or refuses one and materializes the next, was no
step of the contract as it stood, and gaps in a result not yet handed up were missing
from what the contract sees. TLC had not met it, as no program of `ts_contract` had a child
after a collision; it now has `Passing` and `Nested`.

**Consumer.** The invariant is `IsDocument(document)`, which every rewriting keeps
(`StructureWith`, `DocumentWith`). Under it the validators agree issue by issue: an id
that two records share is met again at the later of their places (`SameDuplicates`), the
last of several graphs with one id is found by both, and an array of sources with a
repeated one is one that is not injective. In an accepted document each reference
stands at one place only (`ReferencesAreUnique`), so that an event without a graph has one
candidate exactly when it could be about one node.

**HashedDocument.** The invariant is `IsDocument` with `IsWritten`. `SameHash` has two parts.
The spelling: a number is spelled alike, since removing the zeros that repr adds gives back
the digits (`StrippedBack`), and so is each level of the text (`ElementText` to
`GraphsText`). The order: CPython and `compareText` order texts alike (`BeforeIsLess`,
`CompareIsLess`: both find the first place where the texts differ), and sorting by any
strict total order has one result (`SameOrdered`: an item's place is the number of
those before it). But Python sorts records by a text with repr's numbers and TypeScript by
the canonical text, and those are different texts. In an accepted document no two records
of a list have one id; a record's text opens with its id, and no opening of one id opens
another's, as the quotation mark delimits them (`IdsPart`). So the ids decide in either
language, whatever follows them (`OpeningDecides`, `OrderOfIds`). For a document that
is not accepted nothing is claimed: with equal ids the two orders may part.

`NumbersSurvive` reads each of the four layouts of ECMA-262 back (`BodyLayout`): the point
and the `e` are where the parser looks for them, because nothing else in the text has their
codes (`LayoutMarks`), the digits on both sides of the point are those of the number among
zeros (`AmongZeros`), which are not read (`ValueOf`), and an exponent has at most three digits
(`NaturalOf`). This is where `-323 <= n` is needed, and that refused numbers are left out: the
largest exponent of a number in range is 308.

**Agt.** `AgtInv` follows the file and `sys.path` through the call: until the file is
opened it is as the call found it, and the target's directory is in front only
while the module runs (`FileInv`, `PathInv`).

**Releases.** `RelInv` has a part about each workflow run (`RunOK`: a receipt is for what
the commit builds, whatever was done to the stored bundle since; a run at its upload has
had its bundle checked against it and has seen its specification in the index), a part
about the registries (`Stock`: what they hold is qualified, sound and installable, in
order), and a part about finalizations (`FinInv`: what is public, or about to be, was
verified whole). `RunGrows` carries a run over the growth of the index: a preflight that
was true stays true. `PublicNamespaceIsClean` follows from `Stock`, since a sound wheel
has only files below its own portion. The refinement needs `InOrder`, that no producer of
the release is held before its specification is shown.

**TraceCapture.** The three properties look at a trace that is finished; `Capturing` says
what is true on the way. `Nested` ties the recorder's stack to the graph: a child runs in
the task of the node that declares it, so the stack holds that node or nothing, and
`NestedUnderItsParent` follows because every way out of a call takes the stack back.
`Counted` says of each counter that it is the number of events of its node and source
and that their occurrences are 1 up to it; with this, comparing lists of occurrences
is comparing numbers of events. `Staged` follows the interrupt: in the first invocation
the gate's question, if any, is the last event; in the second it is where the invocations
part, and either its task is still open, with nothing else having ended since, or it was the
first to end. `Told` equates each thing the replays compute with what `happened` says, and
has to allow for a gate's task that has begun and not ended. What one more event
does to each of these is proved once (`RecordedCounts`, `RecordedTells`,
`StagedObserved`, `StagedFinished`), for every caller of `Record`.

tlapm reads `UNION A \cup B` as the union of both where TLC takes it as `(UNION A) \cup B`;
such terms are parenthesised everywhere.

### Only model-checked

* Liveness: `Terminates`, `Settles`, `EveryRunEnds`, `UnmetClosureIsUndone`. Fairness and
  ENABLED are out of the prover's reach.
* `HashIsStructure`: that equal hashes mean equal structures needs the text of a projection
  read back into what it was written from, which for lists of any length is an induction
  over the text.
* `OrderNeverShows`: it holds of malformed documents too, where records may share an id
  and even a sort key, and then only because records with one key have one text. That the
  spelling of records is injective is the same induction.

`ImplementsContract` of TsExtract is proved for one observed caller, any, among any number,
and builders that do not change; the other theorems about TsExtract hold without that
restriction.

## 5. Not modelled

* `describe`'s TypeErrors for arguments of a wrong Python type (other than the
  graph), names, labels, messages, provenance, timestamps.
* LangGraph itself: what it compiles is an input, described by the attributes the
  producers read.
* In Agt, which TypeErrors come from inside the extraction: status 4 either way.
* Of the schema, `Validation` and `TsValidation` have what the consumers rely on and what a
  producer can break: the sources of joins. The other `uniqueItems` (`entryNodeIds`,
  `exitNodeIds`, `interrupts`) both languages leave to their schema library.
* In the canonical form: characters that JSON escapes and those beyond the basic
  plane (both languages compare code points there, TypeScript by decoding them).
* The compatibility gate's reading of the manifest and of the installed version:
  I/O; a call carries its outcome.
* In the releases: `verify_worktree` (publishing checks out the commit again), the
  dist-tag of npm, the run ids that evidence quotes, the branch of a run (every run
  is on the release branch), wording of pages beyond the sentences that are checked.
  `RegistryEvidence` takes what is visible: that a version is not yanked and that each
  artifact has provenance (verify_public_release.py:80, :99, :149) is part of the
  assumption that registries withdraw nothing and attest what the workflows upload.
* Installation smoke tests: fixed scripts that import what was installed and compare
  constants; in a release they are one more way for a job to fail.
* `check_langgraph_release_candidates.py`: a filter over one answer of PyPI that keeps
  no state and changes nothing.
* The other scripts of `docs/research`, kept beside their reports: probes that call a graph
  once and write down what it answered. The text of labels and provenance in a trace.

## 6. Where code and documents differ

* `degenerate_joins`: a join with one source, or a repeated one, makes the Python
  producer return a document its validator rejects (ADR 0012: "always valid").
* declare_children makes a graph its own descendant, which ADR 0012 calls impossible to
  build. The instance of `extract` holds such cycles, and the depth bounds the recursion
  on them as on any other program (`RecursionIsBounded`).
* `agt_zero`: a target that ends in `sys.exit()` ends agt with status 0, "Document
  written", and nothing written.
* `agt_path`: a target that puts a directory in front of `sys.path` loses it to
  `sys.path.pop(0)`, and its own directory stays instead of being placed there
  "temporarily".
* `release_binding`: the Python producer is published from one commit, the npm producer
  from the next; evidence collected for the second names it for both.
  `_workflow_evidence` asks only for a successful run at that commit, and the registry is
  read by name and version, while release-finalize.yml:50-52 says that "artifact
  identity is bound independently to the immutable qualified commit".

## 7. Plan

Modelled, checked and proved: the producers and their contract, parity, the command, the
specification packages, the example, the captures, the releases. Every invariant and
every refinement that a run checks is a theorem, except those section 4 lists as only
model-checked. What is left:

1. That the canonical text determines the document, on the lemmas about prefix codes that
   the ids of edges and joins use; `HashIsStructure` and `OrderNeverShows` would follow.
2. A version of the contract for builders that grow during a call, to which TsExtract could
   be related without the premise `Compiled`.
