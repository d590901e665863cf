----------------------------- MODULE NpmArtifacts -----------------------------
(***************************************************************************)
(* scripts/verify_typescript_release.mjs: what an npm tarball may contain, *)
(* and the receipt that binds it to a commit.                              *)
(*                                                                         *)
(* A tarball is [files (a set of tuples below package/), manifest,         *)
(* license].  tree.src[p] are the modules (and JSON files, as              *)
(* << name, "json" >>) that the build of the package emits below dist.     *)
(***************************************************************************)
EXTENDS Integers, Sequences, FiniteSets

NpmName == [spec |-> "@agent-topology/spec", langgraph |-> "@agent-topology/langgraph"]

Emitted(modules) == {<< "dist" >> \o m \o << kind >> : m \in modules, kind \in {"d.ts", "js"}}

Manifests == {<< "LICENSE" >>, << "README.md" >>, << "package.json" >>}

TarballFiles ==
    [spec |->
        Manifests \cup {<< "dist", "generated", "agent-topology.schema", "json" >>}
        \cup Emitted({<< "canonical" >>, << "generated", "contract" >>, << "index" >>,
                      << "joins" >>, << "types" >>, << "validation" >>}),
     langgraph |->
        Manifests \cup {<< "dist", "compatibility", "json" >>}
        \cup Emitted({<< "errors" >>, << "index" >>, << "internal" >>})]

CommonNpmChecks ==
    {"artifact-inspection", "clean-installation", "package-tests", "typescript-quality"}

NpmChecks ==
    [spec |-> CommonNpmChecks,
     langgraph |-> CommonNpmChecks \cup {"supported-langgraph-conformance"}]

NpmDependencies ==
    [spec |-> {<< "ajv", "8.20.0" >>, << "ajv-formats", "3.0.1" >>},
     langgraph |-> {<< "@langchain/langgraph", "1.4.14" >>}]

\* The fields of a manifest with one admissible value: type, engines, repository,
\* files and exports; `shape' says that they have it.
InspectTarball(tree, package, version, specVersion, tarball, absent) ==
    LET prepared == tree.project[<< "npm", package >>]
        manifest == tarball.manifest
    IN  /\ version = prepared.version
        /\ package = "langgraph" => specVersion = prepared.peer
        /\ tarball.files = TarballFiles[package]
        /\ manifest.name = NpmName[package]
        /\ manifest.version = version
        /\ manifest.shape
        /\ tarball.license = tree.notice
        /\ manifest.bin = {}
        /\ manifest.dependencies = NpmDependencies[package]
        /\ manifest.peer = (IF package = "langgraph" THEN specVersion ELSE absent)

MakeReceipt(package, version, commit, artifacts, checks) ==
    [package |-> << "npm", package >>, version |-> version, commit |-> commit,
     checks |-> checks, artifacts |-> artifacts]

CheckReceipt(receipt, package, version, commit, tarballs) ==
    receipt = MakeReceipt(package, version, commit, tarballs, NpmChecks[package])

\* npm pack copies the manifest of the commit and what the build emitted.
PackTarball(tree, package) ==
    LET p == << "npm", package >>
    IN  [files |-> Manifests
             \cup {<< "dist" >> \o f : f \in {f \in tree.src[p] : f[Len(f)] = "json"}}
             \cup Emitted({f \in tree.src[p] : f[Len(f)] # "json"}),
         manifest |->
             [name |-> tree.project[p].name, version |-> tree.project[p].version,
              shape |-> TRUE, bin |-> tree.project[p].scripts,
              dependencies |-> tree.project[p].dependencies, peer |-> tree.project[p].peer],
         license |-> tree.license]
===============================================================================
