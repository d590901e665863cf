CONSTANTS
  g1 = g1
  g2 = g2
  Token <- MCToken
  Colon = ":"
  Plus = "+"
  Backslash = "B"
  NodeId <- MCNodeId
  Rank <- MCRank
  START <- start
  END <- end
  STAR <- MCStar
  Graph <- MCGraph
  NoChild = NoChild
  UnknownEnds = UnknownEnds
  NoEnds = NoEnds
  World <- MCWorld
  NotAGraph = NotAGraph
  Call <- MCCall
  Declaration <- MCDeclaration
SPECIFICATION Spec
INVARIANTS
  OutputPassesValidation
  UnknownRoutersAreNeverHidden
  AllDeclaredIsUnconditional
  ProducersAgree
CHECK_DEADLOCK FALSE
