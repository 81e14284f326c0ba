CONSTANTS
  NumNodes = 4
  MaxEdges = 4
  Graphs <- MCGraphs
  Card <- MCCard
  Sel <- MCSel
SPECIFICATION Spec
INVARIANTS AllPairsOnce FoundIfConnected OptimalIfUniform
PROPERTY UsedPlansFinal
CHECK_DEADLOCK FALSE
