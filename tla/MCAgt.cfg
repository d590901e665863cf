CONSTANTS
  d1 = d1
  d2 = d2
  site = site
  lib = lib
  Directory <- MCDirectory
  Interpreter <- MCInterpreter
  Elsewhere = lib
  Invocation <- MCInvocation
  MaxCalls = 2
SPECIFICATION Spec
INVARIANTS
  TypeOK
  StatusTellsTheFile
  FailedImportsLeaveNoTrace
CHECK_DEADLOCK FALSE
