CONSTANTS
  LengthTable <- MCLengthTable
  LowPeriods = 2
  MinPeriod = 2
  VolumeTop = 2
  Duty <- MCDuty
  SeqLength = 8
  NoiseBits = 4
  ShortTap = 2
  Programs <- MCPrograms
  Writes <- MCWrites
SPECIFICATION Spec
INVARIANTS TypeOK UnitsAgree
PROPERTY ToneEnds
