SPECIFICATION Spec
CONSTANTS
  Registers <- MCRegisters
  FpuRegisters <- MCFpuRegisters
  Bases <- MCBases
  Displacements <- MCDisplacements
  Scales <- MCScales
  Garbage <- MCGarbage
  Immediates <- MCImmediates
  Conditions <- MCConditions
  Fills <- MCFills
  Labels = {l1, l2}
  NoLabel = NoLabel
  MaxCalls = 3
INVARIANTS
  AssemblerInv
  EncodingsAreExact
  JumpsLandExactly
  FallsThroughExactly
PROPERTY
  CodeIsOnlyPatched
CHECK_DEADLOCK FALSE
