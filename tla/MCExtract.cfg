CONSTANTS
  g1 = g1
  g2 = g2
  g3 = g3
  Token <- MCToken
  Colon = ":"
  Plus = "+"
  Backslash = "B"
  NodeId <- MCNodeId
  Rank <- MCRank
  START <- start
  END <- end
  STAR <- MCStar
  Graph <- MCGraph
  NoChild = NoChild
  UnknownEnds = UnknownEnds
  World <- MCWorld
  NotAGraph = NotAGraph
  Call <- MCCall
  Declaration <- MCDeclaration
SPECIFICATION FairSpec
INVARIANTS
  TypeOK
  GraphIdsUnique
  ReferencesResolve
  DepthBudget
  NothingDropped
  ReservedDelimiterNeverCollides
  DocumentsAreTheUnfolding
  StrictMeansNoUnknownRouter
  OpaqueWithinBudgetIsACollision
PROPERTIES
  Terminates
  ImplementsContract
CHECK_DEADLOCK FALSE
