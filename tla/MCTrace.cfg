CONSTANTS
  NoNode = NoNode
  Unknown = Unknown
  NoGraph = NoGraph
  NoTrace = NoTrace
  await_decision = await_decision
  prepare_brief = prepare_brief
  draft_copy = draft_copy
  select_evidence = select_evidence
  generate = generate
  copy_brief_prepare = copy_brief_prepare
  copy_draft = copy_draft
  Gate = await_decision
  Target = prepare_brief
  Evidence = select_evidence
  Nodes <- MCNodes
  Child <- MCChild
  Inner <- MCInner
  MaxEvents = 6
  MaxTasks = 2
  MaxCallbacks = 2
SPECIFICATION Spec
INVARIANTS
  OnlyAPausedRunIsWritten
  ReplayTellsTheRun
PROPERTIES
  NestedUnderItsParent
CHECK_DEADLOCK FALSE
