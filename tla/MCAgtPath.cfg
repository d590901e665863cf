CONSTANTS
  d1 = d1
  d2 = d2
  site = site
  lib = lib
  Directory <- MCDirectory
  Interpreter <- MCInterpreter
  Elsewhere = lib
  Invocation <- MCInvocation
  MaxCalls = 1
SPECIFICATION Spec
INVARIANT DirectoryOnPathTemporarily
CHECK_DEADLOCK FALSE
