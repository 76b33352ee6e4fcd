SPECIFICATION Spec
CONSTANTS
  Variables = {u, v, w}
  Names = {a, b}
  MaxScopes = 3
  NoVariable = NoVariable
INVARIANTS ScopesInv SlotsApart FrameIsTight
PROPERTY ResolutionIsLexical

CHECK_DEADLOCK FALSE
