------------------------------- MODULE MCRelease -------------------------------
(***************************************************************************)
(* A release of 0.1.0-beta.5 that reuses the specifications of beta.4, as  *)
(* the repository's own did, and, apart from it, an issue being closed.    *)
(***************************************************************************)
EXTENDS Finalize, IssueGuard

V(label, num) == [release |-> << 0, 1, 0 >>, label |-> label, num |-> num]
Label(p) == IF p[1] = "python" THEN "b" ELSE "beta"

\* A release's packages, by the number of the specifications and the producers.
Packages(spec, producer) ==
    {[package |-> p, version |-> V(Label(p), IF p[2] = "spec" THEN spec ELSE producer)] :
        p \in Package}

ReleaseOf(num, spec, producer) ==
    LET v == V("beta", num)
    IN  [version |-> v, tag |-> << "v", v >>, packages |-> Packages(spec, producer),
         notes |-> << "notes", num >>, guide |-> << "guide", num >>, branch |-> << "rc", num >>,
         sourceCommit |-> "earlier", evidence |-> << "evidence", num >>,
         githubRelease |-> "url", reason |-> "reason"]

PartialEvidence ==
    [version |-> V("beta", 3), tag |-> << "v", V("beta", 3) >>, sourceCommit |-> "earlier",
     coordinatedComplete |-> FALSE, githubRelease |-> Absent, discrepancies |-> {"npm"},
     packages |-> {[package |-> e.package, version |-> e.version, workflowRun |-> "url",
                    artifacts |-> {"url"}] : e \in Packages(3, 3)}]

Last == ReleaseOf(4, 4, 4)
Upcoming == [ReleaseOf(5, 4, 5) EXCEPT !.sourceCommit = Absent, !.evidence = Absent]
Partial == ReleaseOf(3, 3, 3)

\* Pages: the root pages select one release, the packages' own another.
Page(says) == [installs |-> {}, says |-> says, links |-> {}]
Installs(packages) == [installs |-> packages, says |-> {},
                       links |-> {<< "notes", n >> : n \in 4..5} \cup {<< "guide", n >> : n \in 4..5}]

Pages(root, own, says5) ==
    LET readmes == {Readme(p) : p \in Package}
        roots == {RootReadme, GettingStarted("python"), GettingStarted("npm")}
        notes == {<< "notes", n >> : n \in 3..5} \cup {<< "guide", n >> : n \in 3..5}
    IN  [path \in readmes \cup roots \cup notes |->
            IF path \in readmes THEN Installs(own.packages)
            ELSE IF path \in roots THEN Installs(root.packages)
            ELSE Page(CASE path[2] = 3 -> {"partial publication"}
                        [] path[2] = 4 -> {"published and verified"}
                        [] path[2] = 5 -> {says5})]

Bound(op, v) == [op |-> op, bound |-> v]
Needs(upper) ==
    {[name |-> "agent-topology-spec", clauses |-> {Bound(">=", V("b", 4)), Bound("<", upper)}],
     [name |-> "langgraph", clauses |-> {Bound(">=", [release |-> << 1, 2, 10 >>,
                                                      label |-> "", num |-> 0])}]}

Final(release) == [release |-> release, label |-> "", num |-> 0]

MCProject(p, upper) ==
    [name |-> IF p[1] = "python" THEN Py!Distribution[p[2]] ELSE Npm!NpmName[p[2]],
     version |-> V(Label(p), IF p[2] = "spec" THEN 4 ELSE 5),
     dependencies |-> IF p[1] = "npm" THEN Npm!NpmDependencies[p[2]]
                      ELSE IF p[2] = "langgraph" THEN Needs(upper)
                      ELSE {[name |-> "jsonschema", clauses |-> {}]},
     peer |-> IF p = << "npm", "langgraph" >> THEN V("beta", 4) ELSE Absent,
     scripts |-> IF p[1] = "python" THEN Py!Scripts[p[2]] ELSE {}]

MCLock(p, num) ==
    IF p[1] = "npm" THEN [copies |-> {V("beta", IF p[2] = "spec" THEN 4 ELSE num)},
                          peer |-> V("beta", 4), spec |-> V("beta", 4)]
    ELSE {[portion |-> "spec", version |-> V("b", 4)],
          [portion |-> "langgraph", version |-> V("b", num)]}

PySource(package) == {<< package, "__init__.py" >>, << package, "__pycache__", "module.pyc" >>}
NpmSource ==
    [spec |-> {<< "canonical" >>, << "generated", "contract" >>, << "index" >>, << "joins" >>,
               << "types" >>, << "validation" >>, << "generated", "agent-topology.schema", "json" >>},
     langgraph |-> {<< "errors" >>, << "index" >>, << "internal" >>, << "compatibility", "json" >>}]

\* A checkout: the upper bound of the producer's requirement, the version its
\* lockfiles repeat, and what the Python specification holds besides its portion.
Checkout(upper, lock, extra) ==
    [ref |-> << "rc", "0.1.0-beta.5" >>,
     project |-> [p \in Package |-> MCProject(p, upper)],
     lock |-> [p \in Package |-> MCLock(p, lock)],
     src |-> [p \in Package |-> IF p[1] = "npm" THEN NpmSource[p[2]]
                                ELSE PySource(p[2]) \cup (IF p[2] = "spec" THEN extra ELSE {})],
     tests |-> [p \in Package |-> {"test.py"}],
     license |-> "MIT", notice |-> "MIT", readme |-> TRUE,
     page |-> Pages(Last, Upcoming, "not published"),
     evidence |-> [path \in {<< "evidence", 3 >>} \cup {<< "evidence", 4 >>} |->
                      IF path[2] = 3 THEN PartialEvidence
                      ELSE [version |-> Last.version, tag |-> Last.tag,
                            sourceCommit |-> Last.sourceCommit]],
     state |-> [published |-> Last, candidate |-> Upcoming, partials |-> {Partial}]]

Good == Checkout(Final(<< 0, 2, 0 >>), 5, {})

\* "bound" admits 0.1.0b4 by the order of versions and not by PEP 440; "lock" forgot
\* a lockfile; "foreign" ships files outside its portion.
MCTree ==
    [earlier |-> Good, ready |-> Good,
     bound |-> Checkout(Final(<< 0, 1, 0 >>), 5, {}),
     lock |-> Checkout(Final(<< 0, 2, 0 >>), 4, {}),
     foreign |-> Checkout(Final(<< 0, 2, 0 >>), 5,
                          {<< "langgraph", "__init__.py" >>})]

\* The branch begins at one of these; a forgotten lockfile is noticed and fixed.
MCFollows == [c \in DOMAIN MCTree \ {"earlier"} |-> IF c = "lock" THEN {"ready"} ELSE {}]

\* main's pages after the closeout, and after one that forgot them.
MCClosingPages ==
    [closed |-> Pages(Upcoming, Upcoming, "published and verified"),
     stale |-> Pages(Last, Upcoming, "not published")]
MCEvidencePath == << "evidence", 5 >>

\* The registries hold the reused specifications, all of npm, or everything but the
\* npm producer: finalization is explored from the last one.
Published(packages) == UNION {Built("earlier", p) : p \in packages}
Specs == {<< "python", "spec" >>, << "npm", "spec" >>}
Closing == Published({<< "python", "langgraph" >>})
NpmOnly == Both("npm")
MCEarlier == {Published(NpmOnly), Published(Specs), Published(Specs) \cup Closing}

\* Every package may be published; qualification alone is the same for each.
MCInput == ((Package \ {<< "npm", "spec" >>}) \X {TRUE}) \cup {<< << "npm", "spec" >>, FALSE >>}

MCBody == {[boxes |-> "open", partial |-> FALSE, successor |-> FALSE],
           [boxes |-> "checked", partial |-> FALSE, successor |-> FALSE],
           [boxes |-> "none", partial |-> TRUE, successor |-> TRUE]}
--------------------------------------------------------------------------------
vars == << pubVars, finVars, issVars >>

\* A release is under way, or an issue is being closed.  What goes wrong is explored
\* one thing at a time: a bad commit, an index that is behind, or MaxFaults others.
Init ==
    /\ RelInit /\ IssInit
    /\ (Exists \/ head # "ready") => visible = registry
    /\ (Exists \/ head \in {"bound", "lock"}) => registry = Published(Specs)
    /\ head = "foreign" => registry = Published(NpmOnly)
    /\ Exists => head = "ready"
    /\ Closing \subseteq registry => visible = registry
    /\ faults = IF Exists \/ head # "ready" \/ visible # registry \/ Closing \subseteq registry
                THEN MaxFaults ELSE 0

Next ==
    \/ ~Exists /\ PubNext /\ UNCHANGED << finVars, issVars >>
    \/ ~Exists /\ Closing \subseteq registry /\ FinNext /\ UNCHANGED << pubVars, issVars >>
    \/ IssNext /\ UNCHANGED relVars

Spec == Init /\ [][Next]_vars /\ PubFairness /\ IssFairness
================================================================================
