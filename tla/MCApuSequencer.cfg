CONSTANTS
  Lut <- MCLut
  MaxResets = 1
SPECIFICATION FairSpec
INVARIANTS
  TypeOK
  NoStepMissed
  ClocksExact
  NoIrqLost
  FastPathKeepsState
  LoadForeseesClock
PROPERTY SequenceRecurs
