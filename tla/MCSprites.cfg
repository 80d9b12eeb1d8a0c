SPECIFICATION FairSpec
CONSTANTS
  NumSprites = 4
  Slots = 2
  EvalDots = 24
  FetchDots = 3
  RestDots = 1
  Lines = 2
  Width = 4
  Short = 1
  Tall = 2
  Blank <- MCBlank
  Columns <- MCColumns
  Programs <- MCPrograms
  Accesses <- MCAccesses
  MaxAccesses = 2
INVARIANTS TypeOK LinesShowSprites
PROPERTY SplitComes
