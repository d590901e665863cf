CONSTANTS
  g1 = g1
  g2 = g2
  g3 = g3
  g4 = g4
  Token <- MCToken
  Colon = ":"
  Plus = "+"
  Backslash = "B"
  NodeId <- MCNodeId
  Rank <- MCRank
  START <- start
  END <- end
  STAR <- MCStar
  Graph <- MCGraph
  NoChild = NoChild
  NoEnds = NoEnds
  UnknownEnds = UnknownEnds
  NotAGraph = NotAGraph
  c1 = c1
  c2 = c2
  Caller <- MCCaller
  Observed = c1
  Call <- MCCall
  Built <- MCBuilt
  Edit <- MCEdit
  MaxEdits = 0
SPECIFICATION FairSpec
PROPERTIES
  Settles
  ImplementsContract
CHECK_DEADLOCK FALSE
