SPECIFICATION Spec
CONSTANTS
  GraphEntry = entry
  TargetEntry = target
  Joins = {j1, j2}
  NoBlock = NoBlock
  Garbage <- MCGarbage
  MaxRuns = 2
CHECK_DEADLOCK FALSE
INVARIANT PhisFieldHoldsNoBlock
