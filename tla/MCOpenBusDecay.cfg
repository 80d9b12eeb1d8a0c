CONSTANTS
  Bits = {0, 5, 7}
  HighBits = {5, 7}
  LowBits = {0, 5}
  Period = 2
SPECIFICATION BusSpec
INVARIANTS BusTypeOK ClearsOnTime
PROPERTY BatchingIsBitExact
