SPECIFICATION Spec
CONSTANTS
  svn1 = svn1
  svn2 = svn2
  t1 = t1
  t2 = t2
  t3 = t3
  chanA = chanA
  chanB = chanB
  Nobody = Nobody
  NoId = NoId
  Ids <- OneId
  Threads <- ThreeThreads
  Channels <- TwoChannels
  Rows <- BothChannels
  Commands <- AllCommands
  OneFetch = FALSE
  Failing = TRUE
  MaxRev = 2
SYMMETRY Symmetry
INVARIANTS
  TypeOK
  NoRepeat
  SkippedStaysSkipped
  TitleFits
  EmptiedRowIsMute
CHECK_DEADLOCK FALSE
