SPECIFICATION FairSpec
CONSTANTS
  BlockCount = 3
  Vars = {v1}
  MaxSuccessors = 2
INVARIANTS IterationInv EquationsHold LiveIffOnPath
PROPERTIES Termination ImplementsLiveSets
CHECK_DEADLOCK FALSE
