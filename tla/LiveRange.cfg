SPECIFICATION Spec
CONSTANTS
  NBlocks = 3
  BlockLength = 6
  MaxPhis = 1
  MaxSplits = 2
  MaxUses = 2
INVARIANTS AddUseReturns CoversWanted RangeInv UsesStayWithTheirRange RegisterFingerExact
PROPERTIES ImplementsLiveSplit
CHECK_DEADLOCK FALSE
