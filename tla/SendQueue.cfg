SPECIFICATION FairSpec
CONSTANTS
  run = run
  other = other
  Nobody = Nobody
  RunThread = run
  Writers <- TwoWriters
  LinesPerSecond = 1
  MaxLines = 4
  EmptyTexts = TRUE
  Breakable = TRUE
INVARIANTS
  TypeOK
  EachLineOnce
  InOrder
  PeriodLimit
  BurstLimit
PROPERTY LinesAreSent
