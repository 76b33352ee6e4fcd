SPECIFICATION Spec
CONSTANTS
  StackIndices = 16
  Registers = {0, 5, 15}
  Slots <- MCSlots
  Objects = {16, 2048}
  Biases <- MCBiases
INVARIANT WordsMeanOne
