---------------------------------- MODULE Agt ----------------------------------
(***************************************************************************)
(* The agt command (_cli.py): one Python process that calls main() once or  *)
(* several times, each call going from the command line to an exit status,  *)
(* and the output file, which outlives the process.  The process may be      *)
(* killed between any two steps.  What the target module and describe() do   *)
(* is part of the invocation; PyExtract says how describe() gets there.      *)
(***************************************************************************)
EXTENDS Integers, Sequences

CONSTANTS
  Directory,    \* directories of target files
  Interpreter,  \* sys.path of a fresh process
  Elsewhere,    \* a directory that target code puts on sys.path
  Invocation,   \* the calls of main(), with what the world has in store for each
  MaxCalls      \* how many are made

VARIABLES
  file,      \* the output file: who wrote it (0: nobody here) and whether whole
  before,    \* the output file and sys.path when the current call began
  path,      \* sys.path
  modules,   \* target modules in sys.modules, by directory
  at,        \* where the current call is
  run,       \* its invocation
  document,  \* what describe() handed over
  code,      \* the exit status
  calls      \* calls made so far

vars == <<file, before, path, modules, at, run, document, code, calls>>

(***************************************************************************)
(* One call.                                                               *)
(*   line     "describe" if argparse accepts the command line (depth and     *)
(*            --out included), "help" if it asks for --help, else "wrong"     *)
(*   target   PATH.py:OBJECT is well formed                                 *)
(*   exists   the file exists;  dir  its directory                          *)
(*   load     what executing the module does: return, raise an Exception,   *)
(*            or raise SystemExit, with a status                            *)
(*   inserts  the module puts a directory in front of sys.path              *)
(*   object   the module has the named object                               *)
(*   outcome  what describe() does with it                                  *)
(*   writing  "fails" if the document cannot be serialized or the file not   *)
(*            opened, "breaks" if writing stops part of the way             *)
(***************************************************************************)
InvocationType ==
  [ line : {"describe", "help", "wrong"}, target : BOOLEAN, exists : BOOLEAN, dir : Directory,
    load : {"returns", "raises", "exits"}, status : 0..255, inserts : BOOLEAN,
    object : BOOLEAN, strict : BOOLEAN,
    outcome : {"complete", "incomplete", "unsupported", "TypeError", "other"},
    writing : {"succeeds", "fails", "breaks"} ]

ASSUME AgtAssumption ==
  /\ Invocation \subseteq InvocationType
  /\ Invocation # {}
  /\ Interpreter \in Seq(Directory \cup {Elsewhere})
  /\ MaxCalls \in Nat

SUCCESS == 0
USAGE == 2
IMPORT == 3
TARGET_RESOLUTION == 4
UNSUPPORTED_VERSION == 5
INCOMPLETE == 6
OUTPUT_WRITE == 7
EXTRACTION == 8

None == -1   \* no exit status yet

Init ==
  /\ file = [by |-> 0, whole |-> TRUE]
  /\ path = Interpreter
  /\ before = [file |-> file, path |-> path]
  /\ modules = {}
  /\ at = "idle"
  /\ run = CHOOSE i \in Invocation : TRUE
  /\ document = "none"
  /\ code = None
  /\ calls = 0

-------------------------------------------------------------------------------
\* The call returns status s, or SystemExit carries it.
Exit(s) == at' = "exited" /\ code' = s /\ document' = "none"

\* main: argparse itself exits, with 0 for --help and 2 for what it cannot parse.
Call(i) ==
  /\ at \in {"idle", "exited"}
  /\ calls < MaxCalls
  /\ calls' = calls + 1
  /\ run' = i
  /\ before' = [file |-> file, path |-> path]
  /\ document' = "none"
  /\ \/ i.line = "describe" /\ at' = "splitting" /\ code' = None
     \/ i.line = "help" /\ at' = "exited" /\ code' = SUCCESS
     \/ i.line = "wrong" /\ at' = "exited" /\ code' = USAGE
  /\ UNCHANGED <<file, path, modules>>

SplitTarget ==
  /\ at = "splitting"
  /\ IF run.target THEN at' = "importing" /\ UNCHANGED <<code, document>>
                   ELSE Exit(USAGE)
  /\ UNCHANGED <<file, before, path, modules, run, calls>>

ImportModule ==
  /\ at = "importing"
  /\ IF run.exists
       THEN /\ at' = "executing"
            /\ modules' = modules \cup {run.dir}
            /\ path' = <<run.dir>> \o path
            /\ UNCHANGED <<code, document>>
       ELSE Exit(IMPORT) /\ UNCHANGED <<modules, path>>
  /\ UNCHANGED <<file, before, run, calls>>

\* sys.path once the module's own statements have run.
Executed == IF run.inserts THEN <<Elsewhere>> \o path ELSE path

\* Mutant: the directory is taken off sys.path only after a successful import.
ExecuteModuleWithoutFinally ==
  /\ at = "executing"
  /\ path' = IF run.load = "returns" THEN Tail(Executed) ELSE Executed
  /\ \/ run.load = "returns" /\ at' = "resolving" /\ UNCHANGED <<code, document, modules>>
     \/ run.load = "raises" /\ Exit(IMPORT) /\ modules' = modules \ {run.dir}
     \/ run.load = "exits" /\ Exit(run.status) /\ UNCHANGED modules
  /\ UNCHANGED <<file, before, run, calls>>

\* exec_module, then sys.path.pop(0) whatever happened.  SystemExit is no
\* Exception: it leaves main and ends the process with its own status.
ExecuteModule ==
  /\ at = "executing"
  /\ path' = Tail(Executed)
  /\ \/ run.load = "returns" /\ at' = "resolving" /\ UNCHANGED <<code, document, modules>>
     \/ run.load = "raises" /\ Exit(IMPORT) /\ modules' = modules \ {run.dir}
     \/ run.load = "exits" /\ Exit(run.status) /\ UNCHANGED modules
  /\ UNCHANGED <<file, before, run, calls>>

ResolveObject ==
  /\ at = "resolving"
  /\ IF run.object THEN at' = "describing" /\ UNCHANGED <<code, document>>
                   ELSE Exit(TARGET_RESOLUTION)
  /\ UNCHANGED <<file, before, path, modules, run, calls>>

\* Mutants: the document of an IncompleteTopologyError is not picked up; a
\* strict call ends at once when there are gaps.
DescribeDroppingDocument ==
  /\ at = "describing"
  /\ \/ /\ run.outcome = "complete" \/ (run.outcome = "incomplete" /\ ~run.strict)
        /\ at' = "opening" /\ document' = run.outcome /\ UNCHANGED code
     \/ /\ run.outcome = "incomplete" /\ run.strict
        /\ at' = "opening" /\ UNCHANGED <<code, document>>
     \/ run.outcome = "unsupported" /\ Exit(UNSUPPORTED_VERSION)
     \/ run.outcome = "TypeError" /\ Exit(TARGET_RESOLUTION)
     \/ run.outcome = "other" /\ Exit(EXTRACTION)
  /\ UNCHANGED <<file, before, path, modules, run, calls>>

DescribeEndingAtGaps ==
  /\ at = "describing"
  /\ \/ run.outcome = "incomplete" /\ run.strict /\ Exit(INCOMPLETE)
     \/ /\ run.outcome = "complete" \/ (run.outcome = "incomplete" /\ ~run.strict)
        /\ at' = "opening" /\ document' = run.outcome /\ UNCHANGED code
     \/ run.outcome = "unsupported" /\ Exit(UNSUPPORTED_VERSION)
     \/ run.outcome = "TypeError" /\ Exit(TARGET_RESOLUTION)
     \/ run.outcome = "other" /\ Exit(EXTRACTION)
  /\ UNCHANGED <<file, before, path, modules, run, calls>>

\* A strict refusal carries its document, which is written all the same.
Describe ==
  /\ at = "describing"
  /\ \/ /\ run.outcome \in {"complete", "incomplete"}
        /\ at' = "opening" /\ document' = run.outcome /\ UNCHANGED code
     \/ run.outcome = "unsupported" /\ Exit(UNSUPPORTED_VERSION)
     \/ run.outcome = "TypeError" /\ Exit(TARGET_RESOLUTION)
     \/ run.outcome = "other" /\ Exit(EXTRACTION)
  /\ UNCHANGED <<file, before, path, modules, run, calls>>

\* write_text: the JSON is made, then opening the file truncates it ...
OpenFile ==
  /\ at = "opening"
  /\ IF run.writing = "fails"
       THEN Exit(OUTPUT_WRITE) /\ UNCHANGED file
       ELSE /\ file' = [by |-> calls, whole |-> FALSE]
            /\ at' = "writing"
            /\ UNCHANGED <<code, document>>
  /\ UNCHANGED <<before, path, modules, run, calls>>

\* ... and the text is written into it.
WriteFile ==
  /\ at = "writing"
  /\ IF run.writing = "breaks"
       THEN Exit(OUTPUT_WRITE) /\ UNCHANGED file
       ELSE /\ file' = [by |-> calls, whole |-> TRUE]
            /\ Exit(IF run.strict /\ document = "incomplete" THEN INCOMPLETE ELSE SUCCESS)
  /\ UNCHANGED <<before, path, modules, run, calls>>

\* The process ends, on its own or killed; the next call is made by a fresh one.
EndProcess ==
  /\ at # "idle"
  /\ at' = "idle"
  /\ path' = Interpreter
  /\ modules' = {}
  /\ document' = "none"
  /\ code' = None
  /\ UNCHANGED <<file, before, run, calls>>

Next ==
  \/ \E i \in Invocation : Call(i)
  \/ SplitTarget \/ ImportModule \/ ExecuteModule \/ ResolveObject
  \/ Describe \/ OpenFile \/ WriteFile
  \/ EndProcess

Spec == Init /\ [][Next]_vars

-------------------------------------------------------------------------------
(* Properties.                                                              *)

\* Every variable has its shape; a document is in hand exactly while it is
\* being written, and a status is known exactly when the call is over.
TypeOK ==
  /\ file \in [by : 0..MaxCalls, whole : BOOLEAN]
  /\ path \in Seq(Directory \cup {Elsewhere})
  /\ before \in [file : [by : 0..MaxCalls, whole : BOOLEAN],
                 path : Seq(Directory \cup {Elsewhere})]
  /\ modules \subseteq Directory
  /\ at \in {"idle", "splitting", "importing", "executing", "resolving", "describing",
             "opening", "writing", "exited"}
  /\ run \in Invocation
  /\ document \in {"none", "complete", "incomplete"}
  /\ (document # "none") <=> at \in {"opening", "writing"}
  /\ code \in {None} \cup 0..255
  /\ (code # None) <=> at = "exited"
  /\ calls \in 0..MaxCalls

\* docs/reference/cli.md, exit statuses: 0 and 6 leave the whole document of
\* this very call in the file, 6 for gaps under --strict only; 7 comes before 6
\* and may leave a broken file; every other status leaves the file as it was,
\* and so does --help.
\* Whenever the process is killed, the file is the old document, a whole new one
\* or one that this call had begun to write.
StatusTellsTheFile ==
  LET written == [by |-> calls, whole |-> TRUE]
      broken  == [by |-> calls, whole |-> FALSE]
  IN
  /\ file \in {before.file, written, broken}
  /\ (at = "exited" /\ run.line = "help") => code = SUCCESS /\ file = before.file
  /\ (at = "exited" /\ run.line # "help" /\ ~(run.load = "exits" /\ code = run.status)) =>
       /\ code \in {SUCCESS, INCOMPLETE} => file = written
       /\ code = INCOMPLETE <=> file = written /\ run.strict /\ run.outcome = "incomplete"
       /\ code = OUTPUT_WRITE => file \in {before.file, broken}
       /\ code \notin {SUCCESS, INCOMPLETE, OUTPUT_WRITE} => file = before.file

\* However a call ends, sys.path is as the call found it unless the target edits
\* it, and a module that raised is not left half-initialized in sys.modules.
FailedImportsLeaveNoTrace ==
  at = "exited" =>
    /\ ~run.inserts => path = before.path
    /\ (code = IMPORT /\ run.exists /\ run.load = "raises") => run.dir \notin modules

\* docs/reference/cli.md: status 0 of `agt describe` means "Document written".
ZeroMeansWritten ==
  (at = "exited" /\ run.line = "describe" /\ code = SUCCESS) => file = [by |-> calls, whole |-> TRUE]

\* docs/reference/cli.md: the CLI "temporarily places its directory on Python's
\* import path".
DirectoryOnPathTemporarily ==
  at \in {"resolving", "describing", "opening", "writing", "exited"} => path = before.path
===============================================================================
