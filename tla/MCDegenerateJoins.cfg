CONSTANTS
  g1 = g1
  g2 = g2
  Token <- MCToken
  Colon = ":"
  Plus = "+"
  Backslash = "B"
  NodeId <- MCNodeId
  Rank <- MCRank
  START <- start
  END <- end
  STAR <- MCStar
  Graph <- MCGraph
  NoChild = NoChild
  UnknownEnds = UnknownEnds
  NoEnds = NoEnds
  World <- DegenerateWorld
  NotAGraph = NotAGraph
  Call <- MCCall
  Declaration <- MCDeclaration
SPECIFICATION Spec
INVARIANT ProducerOutputAlwaysValid
CHECK_DEADLOCK FALSE
