------------------------------- MODULE AgtProofs -------------------------------
(***************************************************************************)
(* Proofs about Agt, for every set of invocations and every number of calls. *)
(***************************************************************************)
EXTENDS Agt, SequenceTheorems, TLAPS

PathType == Seq(Directory \cup {Elsewhere})
FileType == [by : 0..MaxCalls, whole : BOOLEAN]

-------------------------------------------------------------------------------
\* What import_module puts in front of a path, and pop(0) takes off again.
LEMMA PushAndPop ==
  ASSUME NEW S, NEW e \in S, NEW p \in Seq(S)
  PROVE  /\ <<e>> \o p \in Seq(S)
         /\ Tail(<<e>> \o p) = p
         /\ <<e>> \o p # << >>
<1>1. <<e>> \in Seq(S) /\ Len(<<e>>) = 1
  OBVIOUS
<1> DEFINE q == <<e>> \o p
<1>2. q \in Seq(S) /\ Len(q) = 1 + Len(p) /\ Len(p) \in Nat
  BY <1>1, ConcatProperties, LenProperties
<1>3. \A i \in 1..Len(p) : q[i + 1] = p[i]
  BY <1>1, <1>2, ConcatProperties
<1>4. q # << >>
  BY <1>2
<1> HIDE DEF q
<1>5. Tail(q) \in Seq(S) /\ Len(Tail(q)) = Len(p)
      /\ \A i \in 1..Len(p) : Tail(q)[i] = q[i + 1]
  BY <1>2, <1>4, HeadTailProperties
<1>6. Tail(q) = p
  BY <1>2, <1>3, <1>5, SeqEqual
<1>7. QED
  BY <1>2, <1>4, <1>6 DEF q

-------------------------------------------------------------------------------
(* The inductive invariant: what each control point knows of the file, of     *)
(* sys.path and of the module, beside the shapes of the variables.            *)

Importing == {"splitting", "importing"}
Loaded == {"resolving", "describing", "opening", "writing"}

\* The file as each point of the call leaves it; nobody wrote it in a later call.
FileInv ==
  /\ file.by <= calls
  /\ before.file.by <= calls
  /\ at # "idle" => before.file.by < calls
  /\ at \in Importing \cup {"executing", "resolving", "describing", "opening"} =>
       file = before.file
  /\ at = "writing" => file = [by |-> calls, whole |-> FALSE]
  /\ at \in {"opening", "writing"} => document = run.outcome
  /\ at \in Loaded => run.load = "returns"
  /\ at \in Importing \cup {"executing"} \cup Loaded => run.line = "describe"

\* sys.path holds the target's directory in front only while the module runs.
PathInv ==
  /\ at \in Importing => path = before.path
  /\ at = "executing" => path = <<run.dir>> \o before.path
  /\ at \in Loaded /\ ~run.inserts => path = before.path

AgtInv ==
  TypeOK /\ FileInv /\ PathInv /\ StatusTellsTheFile /\ FailedImportsLeaveNoTrace

LEMMA AgtInvInit == Init => AgtInv
<1> SUFFICES ASSUME Init PROVE AgtInv
  OBVIOUS
<1>1. run \in Invocation
  BY AgtAssumption DEF Init
<1>2. TypeOK
  BY <1>1, AgtAssumption DEF Init, TypeOK, None
<1>3. QED
  BY <1>2, AgtAssumption
     DEF Init, AgtInv, FileInv, PathInv, Importing, Loaded, StatusTellsTheFile,
         FailedImportsLeaveNoTrace

\* Which fields an invocation has, and what sys.path is made of.
LEMMA InvocationFields ==
  ASSUME NEW i \in Invocation
  PROVE  i \in InvocationType /\ i.dir \in Directory
BY AgtAssumption DEF InvocationType

LEMMA CallInv ==
  ASSUME AgtInv, NEW i \in Invocation, Call(i)
  PROVE  AgtInv'
<1> USE AgtAssumption DEF AgtInv
<1>1. calls \in Nat /\ calls' = calls + 1 /\ calls' <= MaxCalls
  BY DEF TypeOK, Call
<1>2. TypeOK'
  BY <1>1 DEF TypeOK, Call, None, USAGE, SUCCESS
<1>3. FileInv'
  BY <1>1 DEF TypeOK, FileInv, Importing, Loaded, Call
<1>4. PathInv'
  BY DEF PathInv, Importing, Loaded, Call
<1>5. StatusTellsTheFile'
  BY <1>1 DEF TypeOK, FileInv, StatusTellsTheFile, Call, USAGE, SUCCESS, INCOMPLETE, OUTPUT_WRITE
<1>6. FailedImportsLeaveNoTrace'
  BY DEF FailedImportsLeaveNoTrace, Call, USAGE, IMPORT, SUCCESS
<1>7. QED
  BY <1>2, <1>3, <1>4, <1>5, <1>6

LEMMA SplitTargetInv ==
  ASSUME AgtInv, SplitTarget
  PROVE  AgtInv'
<1> USE DEF AgtInv
<1>1. TypeOK'
  BY DEF TypeOK, SplitTarget, Exit, None, USAGE
<1>2. FileInv' /\ PathInv'
  BY DEF FileInv, PathInv, Importing, Loaded, SplitTarget, Exit
<1>3. StatusTellsTheFile'
  BY DEF TypeOK, FileInv, Importing, StatusTellsTheFile, SplitTarget, Exit,
         USAGE, SUCCESS, INCOMPLETE, OUTPUT_WRITE
<1>4. FailedImportsLeaveNoTrace'
  BY DEF PathInv, Importing, FailedImportsLeaveNoTrace, SplitTarget, Exit, USAGE, IMPORT
<1>5. QED
  BY <1>1, <1>2, <1>3, <1>4

LEMMA ImportModuleInv ==
  ASSUME AgtInv, ImportModule
  PROVE  AgtInv'
<1> USE DEF AgtInv
<1>1. TypeOK'
  <2>1. run.dir \in Directory
    BY InvocationFields DEF TypeOK
  <2>2. <<run.dir>> \o path \in PathType
    BY <2>1, PushAndPop DEF TypeOK, PathType
  <2>3. path' \in PathType /\ modules' \subseteq Directory
    BY <2>1, <2>2, ZenonT(60) DEF TypeOK, ImportModule, PathType
  <2>4. QED
    BY <2>3 DEF TypeOK, PathType, ImportModule, Exit, None, IMPORT
<1>2. FileInv' /\ PathInv'
  BY DEF FileInv, PathInv, Importing, Loaded, ImportModule, Exit
<1>3. StatusTellsTheFile'
  BY DEF TypeOK, FileInv, Importing, StatusTellsTheFile, ImportModule, Exit,
         IMPORT, SUCCESS, INCOMPLETE, OUTPUT_WRITE
<1>4. FailedImportsLeaveNoTrace'
  BY DEF PathInv, Importing, FailedImportsLeaveNoTrace, ImportModule, Exit, IMPORT
<1>5. QED
  BY <1>1, <1>2, <1>3, <1>4

\* Whatever the module does, pop(0) takes off what was put in front last: the
\* target's directory, or what the module itself inserted.
LEMMA ExecuteModuleInv ==
  ASSUME AgtInv, ExecuteModule
  PROVE  AgtInv'
<1> USE DEF AgtInv
<1>1. run \in InvocationType /\ run.dir \in Directory /\ run.status \in 0..255
      /\ run.load \in {"returns", "raises", "exits"}
  BY InvocationFields DEF TypeOK, InvocationType
<1>2. path \in PathType /\ before.path \in PathType
  BY DEF TypeOK, PathType
<1>3. path' \in PathType /\ (~run.inserts => path' = before.path)
  <2>1. CASE run.inserts
    <3>1. path' = Tail(<<Elsewhere>> \o path)
      BY <2>1 DEF ExecuteModule, Executed
    <3>2. QED
      BY <2>1, <3>1, <1>2, PushAndPop DEF PathType
  <2>2. CASE ~run.inserts
    <3>1. path' = Tail(<<run.dir>> \o before.path)
      BY <2>2 DEF ExecuteModule, Executed, PathInv
    <3>2. QED
      BY <2>2, <3>1, <1>1, <1>2, PushAndPop DEF PathType
  <2>3. QED
    BY <2>1, <2>2
<1>4. TypeOK'
  <2>1. document = "none" /\ code = None
    BY DEF TypeOK, ExecuteModule
  <2>2. \/ at' = "resolving" /\ code' = None
        \/ at' = "exited" /\ code' \in 0..255
    <3>1. CASE run.load = "returns"
      BY <3>1, <2>1 DEF ExecuteModule
    <3>2. CASE run.load = "raises"
      BY <3>2, <2>1 DEF ExecuteModule, Exit, IMPORT
    <3>3. CASE run.load = "exits"
      BY <3>3, <1>1, <2>1 DEF ExecuteModule, Exit
    <3>4. QED
      BY <1>1, <3>1, <3>2, <3>3
  <2>3. document' = "none" /\ modules' \subseteq Directory
    BY <2>1 DEF TypeOK, ExecuteModule, Exit
  <2>4. UNCHANGED <<file, before, run, calls>>
    BY DEF ExecuteModule
  <2>5. code' \in {None} \cup 0..255
    BY <2>2
  <2>6. (code' # None) <=> at' = "exited"
    BY <2>2 DEF None
  <2>7. document' \in {"none", "complete", "incomplete"} 
        /\ ((document' # "none") <=> at' \in {"opening", "writing"})
    BY <2>2, <2>3
  <2>8. QED
    BY <1>3, <2>2, <2>3, <2>4, <2>5, <2>6, <2>7 DEF TypeOK, PathType
<1>5. FileInv'
  BY <1>1 DEF FileInv, Importing, Loaded, ExecuteModule, Exit
<1>6. PathInv'
  BY <1>1, <1>3 DEF PathInv, Importing, Loaded, ExecuteModule, Exit
<1>7. StatusTellsTheFile'
  BY <1>1 DEF TypeOK, FileInv, Importing, StatusTellsTheFile, ExecuteModule, Exit,
         IMPORT, SUCCESS, INCOMPLETE, OUTPUT_WRITE
<1>8. FailedImportsLeaveNoTrace'
  BY <1>1, <1>3 DEF FailedImportsLeaveNoTrace, ExecuteModule, Exit, IMPORT
<1>9. QED
  BY <1>4, <1>5, <1>6, <1>7, <1>8

LEMMA ResolveObjectInv ==
  ASSUME AgtInv, ResolveObject
  PROVE  AgtInv'
<1> USE DEF AgtInv
<1>1. TypeOK'
  BY DEF TypeOK, ResolveObject, Exit, None, TARGET_RESOLUTION
<1>2. FileInv' /\ PathInv'
  BY DEF FileInv, PathInv, Importing, Loaded, ResolveObject, Exit
<1>3. StatusTellsTheFile'
  BY DEF TypeOK, FileInv, Loaded, StatusTellsTheFile, ResolveObject, Exit,
         TARGET_RESOLUTION, SUCCESS, INCOMPLETE, OUTPUT_WRITE
<1>4. FailedImportsLeaveNoTrace'
  BY DEF PathInv, FileInv, Loaded, FailedImportsLeaveNoTrace, ResolveObject, Exit,
         TARGET_RESOLUTION, IMPORT
<1>5. QED
  BY <1>1, <1>2, <1>3, <1>4

LEMMA DescribeInv ==
  ASSUME AgtInv, Describe
  PROVE  AgtInv'
<1> USE DEF AgtInv
<1>1. run.outcome \in {"complete", "incomplete", "unsupported", "TypeError", "other"}
  BY InvocationFields DEF TypeOK, InvocationType
<1>2. TypeOK'
  BY <1>1 DEF TypeOK, Describe, Exit, None, UNSUPPORTED_VERSION, TARGET_RESOLUTION, EXTRACTION
<1>3. FileInv' /\ PathInv'
  BY <1>1 DEF FileInv, PathInv, Importing, Loaded, Describe, Exit
<1>4. StatusTellsTheFile'
  BY <1>1 DEF TypeOK, FileInv, Loaded, StatusTellsTheFile, Describe, Exit, UNSUPPORTED_VERSION,
         TARGET_RESOLUTION, EXTRACTION, SUCCESS, INCOMPLETE, OUTPUT_WRITE
<1>5. FailedImportsLeaveNoTrace'
  BY <1>1 DEF PathInv, FileInv, Loaded, FailedImportsLeaveNoTrace, Describe, Exit,
         UNSUPPORTED_VERSION, TARGET_RESOLUTION, EXTRACTION, IMPORT
<1>6. QED
  BY <1>2, <1>3, <1>4, <1>5

LEMMA OpenFileInv ==
  ASSUME AgtInv, OpenFile
  PROVE  AgtInv'
<1> USE DEF AgtInv
<1>1. calls \in Nat /\ file.by \in Nat
  BY AgtAssumption DEF TypeOK
<1>2. TypeOK'
  <2>1. file \in FileType /\ calls \in 0..MaxCalls
    BY DEF TypeOK, FileType
  <2>a. file' = file \/ file' = [by |-> calls, whole |-> FALSE]
    BY DEF OpenFile
  <2>b. [by |-> calls, whole |-> FALSE] \in FileType
    BY <2>1, Zenon DEF FileType
  <2>c. file' \in FileType
    BY <2>1, <2>a, <2>b
  <2>2. document # "none"
    BY DEF TypeOK, OpenFile
  <2>3. QED
    BY <2>c, <2>2 DEF TypeOK, FileType, OpenFile, Exit, None, OUTPUT_WRITE
<1>3. FileInv' /\ PathInv'
  BY <1>1 DEF FileInv, PathInv, Importing, Loaded, OpenFile, Exit
<1>4. StatusTellsTheFile'
  BY <1>1 DEF TypeOK, FileInv, Loaded, StatusTellsTheFile, OpenFile, Exit, SUCCESS, INCOMPLETE,
         OUTPUT_WRITE
<1>5. FailedImportsLeaveNoTrace'
  BY DEF PathInv, FileInv, Loaded, FailedImportsLeaveNoTrace, OpenFile, Exit,
         OUTPUT_WRITE, IMPORT
<1>6. QED
  BY <1>2, <1>3, <1>4, <1>5

LEMMA WriteFileInv ==
  ASSUME AgtInv, WriteFile
  PROVE  AgtInv'
<1> USE DEF AgtInv
<1>1. calls \in Nat
  BY AgtAssumption DEF TypeOK
<1>2. TypeOK'
  <2>1. file \in FileType /\ calls \in 0..MaxCalls
    BY DEF TypeOK, FileType
  <2>a. file' = file \/ file' = [by |-> calls, whole |-> TRUE]
    BY DEF WriteFile
  <2>b. [by |-> calls, whole |-> TRUE] \in FileType
    BY <2>1, Zenon DEF FileType
  <2>c. file' \in FileType
    BY <2>1, <2>a, <2>b
  <2>2. at' = "exited" /\ document' = "none" /\ code' \in {OUTPUT_WRITE, INCOMPLETE, SUCCESS}
    BY DEF WriteFile, Exit
  <2>3. QED
    BY <2>c, <2>2 DEF TypeOK, FileType, WriteFile, None, OUTPUT_WRITE, INCOMPLETE, SUCCESS
<1>3. FileInv' /\ PathInv'
  BY <1>1 DEF FileInv, PathInv, Importing, Loaded, WriteFile, Exit
<1>4. StatusTellsTheFile'
  BY <1>1 DEF TypeOK, FileInv, Loaded, StatusTellsTheFile, WriteFile, Exit, SUCCESS, INCOMPLETE,
         OUTPUT_WRITE
<1>5. FailedImportsLeaveNoTrace'
  BY DEF PathInv, FileInv, Loaded, FailedImportsLeaveNoTrace, WriteFile, Exit,
         OUTPUT_WRITE, INCOMPLETE, SUCCESS, IMPORT
<1>6. QED
  BY <1>2, <1>3, <1>4, <1>5

\* The process may be killed anywhere; the file stays as it is.
LEMMA EndProcessInv ==
  ASSUME AgtInv, EndProcess
  PROVE  AgtInv'
<1> USE DEF AgtInv
<1>1. TypeOK'
  BY AgtAssumption DEF TypeOK, EndProcess, None
<1>2. FileInv' /\ PathInv'
  BY DEF FileInv, PathInv, Importing, Loaded, EndProcess
<1>3. StatusTellsTheFile' /\ FailedImportsLeaveNoTrace'
  BY DEF StatusTellsTheFile, FailedImportsLeaveNoTrace, EndProcess
<1>4. QED
  BY <1>1, <1>2, <1>3

LEMMA AgtInvStep == AgtInv /\ [Next]_vars => AgtInv'
<1> SUFFICES ASSUME AgtInv, [Next]_vars PROVE AgtInv'
  OBVIOUS
<1>1. ASSUME NEW i \in Invocation, Call(i) PROVE AgtInv'
  BY <1>1, CallInv
<1>2. CASE SplitTarget \/ ImportModule \/ ExecuteModule \/ ResolveObject
  BY <1>2, SplitTargetInv, ImportModuleInv, ExecuteModuleInv, ResolveObjectInv
<1>3. CASE Describe \/ OpenFile \/ WriteFile \/ EndProcess
  BY <1>3, DescribeInv, OpenFileInv, WriteFileInv, EndProcessInv
<1>4. CASE UNCHANGED vars
  BY <1>4 DEF vars, AgtInv, TypeOK, FileInv, PathInv, StatusTellsTheFile,
              FailedImportsLeaveNoTrace
<1>5. QED
  BY <1>1, <1>2, <1>3, <1>4 DEF Next

LEMMA AgtInvAlways == Spec => []AgtInv
BY AgtInvInit, AgtInvStep, PTL DEF Spec

\* For every sequence of calls, in one process or several: a document is in hand
\* exactly while it is being written, a status known exactly when a call is over.
THEOREM AgtTypes == Spec => []TypeOK
<1>1. AgtInv => TypeOK
  BY DEF AgtInv
<1>2. QED
  BY <1>1, AgtInvAlways, PTL

\* The exit status says what became of the output file, wherever a call fails and
\* whenever the process is killed.
THEOREM StatusIsTruthful == Spec => []StatusTellsTheFile
<1>1. AgtInv => StatusTellsTheFile
  BY DEF AgtInv
<1>2. QED
  BY <1>1, AgtInvAlways, PTL

\* A call leaves sys.path as it found it unless the target edits it, and no module
\* that raised in sys.modules, for every directory and every initial sys.path.
THEOREM ImportsAreUndone == Spec => []FailedImportsLeaveNoTrace
<1>1. AgtInv => FailedImportsLeaveNoTrace
  BY DEF AgtInv
<1>2. QED
  BY <1>1, AgtInvAlways, PTL
===============================================================================
