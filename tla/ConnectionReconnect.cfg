SPECIFICATION FairSpec
CONSTANTS
  NickName <- MCNickName
  TakenSets <- MCTakenSets
  OperNicks <- MCOperNicks
  Erroneous <- MCErroneous
  MaxFd = 2
  Commands = {"connect", "disconnect", "reconnect"}
  Unreachable = FALSE
  MaxConn = 2
  MaxEvents = 0
  MaxBreaks = 1
PROPERTY Reconnects
CHECK_DEADLOCK FALSE
