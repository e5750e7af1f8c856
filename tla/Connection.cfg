SPECIFICATION FairSpec
CONSTANTS
  NickName <- MCNickName
  TakenSets <- MCTakenSets
  OperNicks <- MCOperNicks
  Erroneous <- MCErroneous
  MaxFd = 2
  Commands = {"connect", "disconnect", "reconnect"}
  Unreachable = TRUE
  MaxConn = 2
  MaxEvents = 1
  MaxBreaks = 1
INVARIANTS TypeOK Served NickAgrees
PROPERTIES BreakIsNoticed Registers
CHECK_DEADLOCK FALSE
