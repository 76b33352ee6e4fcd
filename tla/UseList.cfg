SPECIFICATION FairSpec
CONSTANTS
  Definitions = {d1, d2, d3}
  Values = {v1, v2, v3, v4}
  Null = Null
INVARIANTS HeapInv ListsHoldTheUses
PROPERTIES ConversionEnds ImplementsUseSets
CHECK_DEADLOCK FALSE
