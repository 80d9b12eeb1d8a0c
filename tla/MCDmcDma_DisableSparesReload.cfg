CONSTANTS
  Rates = {8, 10}
  BitsPerByte = 2
  Lengths = {1, 2}
  LengthWrap = 5
  OamLen = 4
  InitTimer = 4
  MaxResets = 1
SPECIFICATION Spec
PROPERTY DisableSparesReload
