CONSTANTS
  Lut <- MCLut
  MaxResets = 0
SPECIFICATION Spec
INVARIANT FastPathKeepsLine
