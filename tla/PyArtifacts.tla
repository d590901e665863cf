------------------------------ MODULE PyArtifacts ------------------------------
(***************************************************************************)
(* scripts/verify_python_artifacts.py: what a wheel and a source           *)
(* distribution may contain.                                               *)
(*                                                                         *)
(* A path is the tuple of its parts; the .dist-info directory of a wheel   *)
(* and the root of an sdist are the parts "dist-info" and "root".  An      *)
(* archive is a function from paths to contents; its metadata is a record  *)
(* [name, version, python, requires, markdown], a dependency a record      *)
(* [name, clauses].  tree.src[p] are the files of the package below        *)
(* src/agent_topology, tree.tests[p] those of its tests; tree.license is   *)
(* the packages' copy of the licence and tree.notice the repository's.     *)
(***************************************************************************)
EXTENDS Integers, Sequences, FiniteSets

Distribution == [spec |-> "agent-topology-spec", langgraph |-> "agent-topology-langgraph"]
GeneratedFiles == [spec |-> {<< "agent-topology.schema.json" >>}, langgraph |-> {}]
Scripts == [spec |-> {}, langgraph |-> {<< "agt", "agent_topology.langgraph._cli:main" >>}]
Boundary == [spec |-> {"jsonschema"}, langgraph |-> {"agent-topology-spec", "langgraph"}]
PythonBounds == {">=3.11", "<3.15"}

NamespaceInit == << "agent_topology", "__init__.py" >>

Under(dir, path) == Len(path) > Len(dir) /\ SubSeq(path, 1, Len(dir)) = dir
Below(dir, path) == SubSeq(path, Len(dir) + 1, Len(path))

SafeMembers(archive) ==
    \A path \in DOMAIN archive : path[1] # "/" /\ \A i \in DOMAIN path : path[i] # ".."

\* Parts of the checkout that no build ships.
Compiled(path) == \E i \in DOMAIN path : path[i] \in {"__pycache__", "module.pyc"}

SourcePackageFiles(tree, package) ==
    {Below(<< package >>, f) :
        f \in {f \in tree.src[<< "python", package >>] :
                  Under(<< package >>, f) /\ ~Compiled(f)}}

AssertMetadata(m, tree, package) ==
    LET project == tree.project[<< "python", package >>]
    IN  /\ m.name = Distribution[package]
        /\ m.version = project.version
        /\ m.python = PythonBounds
        /\ m.requires = project.dependencies

AssertWheelScripts(wheel, package) ==
    LET points == {path \in DOMAIN wheel :
                      Len(path) > 1 /\ path[Len(path) - 1] = "dist-info"
                                    /\ path[Len(path)] = "entry_points.txt"}
    IN  IF Scripts[package] = {} THEN points = {}
        ELSE Cardinality(points) = 1 /\ \A path \in points : wheel[path] = Scripts[package]

WheelMetadata(wheel) ==
    {path \in DOMAIN wheel : Len(path) > 1 /\ path[Len(path) - 1] = "dist-info"
                                           /\ path[Len(path)] = "METADATA"}

\* The mutant asks only whether the package itself is complete.
WheelContentsOfPackageOnly(wheel, package, expected) ==
    expected \subseteq {Below(<< "agent_topology", package >>, path) :
        path \in {path \in DOMAIN wheel : Under(<< "agent_topology", package >>, path)}}

(***************************************************************************)
(* A wheel owns its portion of the namespace exactly: every source file,   *)
(* nothing else of agent_topology, and never the namespace's __init__.     *)
(***************************************************************************)
WheelContents(wheel, package, expected) ==
    LET prefix == << "agent_topology", package >>
    IN  /\ NamespaceInit \notin DOMAIN wheel
        /\ {Below(prefix, path) : path \in {path \in DOMAIN wheel : Under(prefix, path)}}
               = expected
        /\ \A path \in DOMAIN wheel :
               Under(<< "agent_topology" >>, path) => Under(prefix, path)

InspectWheel(wheel, tree, package, expected) ==
    /\ SafeMembers(wheel)
    /\ Cardinality(WheelMetadata(wheel)) = 1
    /\ \A path \in WheelMetadata(wheel) :
           LET license == SubSeq(path, 1, Len(path) - 1) \o << "licenses", "LICENSE" >>
           IN  /\ AssertMetadata(wheel[path], tree, package)
               /\ AssertWheelScripts(wheel, package)
               /\ license \in DOMAIN wheel /\ wheel[license] = tree.notice
               /\ wheel[path].markdown
    /\ WheelContents(wheel, package, expected)

SdistMetadata(sdist) == {path \in DOMAIN sdist : Len(path) = 2 /\ path[2] = "PKG-INFO"}

\* Unlike a wheel, an sdist may hold more than it must.
InspectSdist(sdist, tree, package, expected) ==
    /\ SafeMembers(sdist)
    /\ Cardinality(SdistMetadata(sdist)) = 1
    /\ \A path \in SdistMetadata(sdist) :
           LET root == << path[1] >>
               source == root \o << "src", "agent_topology" >>
           IN  /\ AssertMetadata(sdist[path], tree, package)
               /\ {root \o << "LICENSE" >>, root \o << "README.md" >>,
                   root \o << "pyproject.toml" >>} \subseteq DOMAIN sdist
               /\ sdist[root \o << "LICENSE" >>] = tree.notice
               /\ sdist[root \o << "pyproject.toml" >>] = Scripts[package]
               /\ \A f \in expected : source \o << package >> \o f \in DOMAIN sdist
               /\ source \o << "__init__.py" >> \notin DOMAIN sdist
               /\ \E f \in DOMAIN sdist : Under(root \o << "tests" >>, f)

\* _one: exactly one archive of a kind in the dist directory.
One(dist, kind) == Cardinality({a \in dist : a.kind = kind}) = 1

InspectArchive(tree, package, kind, archive) ==
    LET expected == SourcePackageFiles(tree, package) \cup GeneratedFiles[package]
    IN  \/ kind = "wheel" /\ InspectWheel(archive, tree, package, expected)
        \/ kind = "sdist" /\ InspectSdist(archive, tree, package, expected)

InspectArtifacts(tree, package, version, dist, sound) ==
    LET project == tree.project[<< "python", package >>]
    IN  /\ project.name = Distribution[package] /\ project.version = version
        /\ {d.name : d \in project.dependencies} = Boundary[package]
        /\ One(dist, "wheel") /\ One(dist, "sdist")
        /\ dist \subseteq sound

(***************************************************************************)
(* What hatchling builds from a commit: both archives ship all of          *)
(* src/agent_topology, whoever it belongs to.                              *)
(***************************************************************************)
BuiltMetadata(tree, package) ==
    LET project == tree.project[<< "python", package >>]
    IN  [name |-> project.name, version |-> project.version, python |-> PythonBounds,
         requires |-> project.dependencies, markdown |-> tree.readme]

Shipped(tree, package) == {f \in tree.src[<< "python", package >>] : ~Compiled(f)}
                          \cup {<< package >> \o f : f \in GeneratedFiles[package]}

BuildWheel(tree, package) ==
    LET code == {<< "agent_topology" >> \o f : f \in Shipped(tree, package)}
        info == {<< "dist-info", "METADATA" >>, << "dist-info", "licenses", "LICENSE" >>}
                \cup (IF tree.project[<< "python", package >>].scripts = {} THEN {}
                      ELSE {<< "dist-info", "entry_points.txt" >>})
    IN  [path \in code \cup info |->
            IF path = << "dist-info", "METADATA" >> THEN BuiltMetadata(tree, package)
            ELSE IF path = << "dist-info", "licenses", "LICENSE" >> THEN tree.license
            ELSE IF path = << "dist-info", "entry_points.txt" >>
            THEN tree.project[<< "python", package >>].scripts
            ELSE "code"]

BuildSdist(tree, package) ==
    LET code == {<< "root", "src", "agent_topology" >> \o f : f \in Shipped(tree, package)}
        rest == {<< "root", f >> : f \in {"PKG-INFO", "LICENSE", "README.md", "pyproject.toml"}}
                \cup {<< "root", "tests", f >> : f \in tree.tests[<< "python", package >>]}
    IN  [path \in code \cup rest |->
            IF path = << "root", "PKG-INFO" >> THEN BuiltMetadata(tree, package)
            ELSE IF path = << "root", "LICENSE" >> THEN tree.license
            ELSE IF path = << "root", "pyproject.toml" >>
            THEN tree.project[<< "python", package >>].scripts
            ELSE "code"]
================================================================================
