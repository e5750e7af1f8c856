SPECIFICATION FairSpec
CONSTANTS
  svn1 = svn1
  svn2 = svn2
  t1 = t1
  t2 = t2
  t3 = t3
  chanA = chanA
  chanB = chanB
  Nobody = Nobody
  NoId = NoId
  Ids <- TwoIds
  Threads <- ThreeThreads
  Channels <- TwoChannels
  Rows <- BothChannels
  Commands <- StartStop
  OneFetch = TRUE
  Failing = FALSE
  MaxRev = 2
PROPERTIES
  StopStops
  NewsIsAnnounced
