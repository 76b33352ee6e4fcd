CONSTANTS
  Vectors = {liveOut, kill, liveIn}
  Indices = {31, 128, 160}
  Words = 3
SPECIFICATION Spec
INVARIANT BitVectorInv
PROPERTY ImplementsBitSets
