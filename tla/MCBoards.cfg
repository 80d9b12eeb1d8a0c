CONSTANTS
  Kinds <- MCKinds
  Cart <- MCCart
  Programs <- MCPrograms
  MaxOnes = 2
SPECIFICATION Spec
INVARIANTS TypeOK BoardFollows
PROPERTIES PortImplemented ScanlineIrqComes
