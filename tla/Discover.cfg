SPECIFICATION FairSpec
CONSTANTS
  GraphEntry = entry
  TargetEntry = target
  Joins = {j1, j2}
  NoBlock = NoBlock
  Garbage <- MCGarbage
  MaxRuns = 2
INVARIANTS MarkIsExact PreorderIsReachable DominatorsAreExact PostorderOfBuiltGraphs
PROPERTIES RerunKeepsNumbers Termination
CHECK_DEADLOCK FALSE
