CONSTANTS
  Image <- MCImage
  ByteBits = 2
  Cycles <- MCCycles
  DummyBits = 2
  Programs <- MCPrograms
  MaxFlips = 1
  MaxRestarts = 1
SPECIFICATION Spec
INVARIANTS TypeOK WritesSurvive InterruptLine
PROPERTY WaitsEnd
