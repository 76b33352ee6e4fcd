CONSTANTS
  Asts <- MCAsts
  StackLocals = 3
  Numbers = {"one", "two"}
  Addresses <- MCAddresses
SPECIFICATION FairSpec
INVARIANTS CompileInv InputsAreMeant RepresentationsAgree FoldsAreRight LiveInComesFromEntry CodeReturnsMeant
PROPERTY CompileEnds
CHECK_DEADLOCK FALSE
