CONSTANTS
  LineDots = 8
  ActiveLines = 4
  PreLines = 1
  PostLines = 2
  ChopDot = TRUE
  StartUpOffset = 4
  MaxResets = 2
SPECIFICATION FairSpec
INVARIANTS TypeOK VblankAccounts
PROPERTIES DotsKept FramesGoOn
