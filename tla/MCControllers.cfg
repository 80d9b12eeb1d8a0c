CONSTANTS
  Masks = {m1, m2}
  Bits = 1
  Port2Connected = TRUE
SPECIFICATION Spec
INVARIANTS TypeOK StrobesAgree
PROPERTY PortMetOnce
