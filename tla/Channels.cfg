SPECIFICATION Spec
CONSTANTS
  Names <- Spellings
  Fold <- Folded
  Keys <- Passwords
  NoKey = ""
  ServerKey <- ChannelKeys
  Funkciok <- Functions2
  Alap <- Default
  Op = "op"
  Nicks <- TwoNicks
  NickName = "schumix"
  Nevek <- FunctionSets
  FirstRows <- OneRow
  MaxId = 2
  MaxFlight = 3
  MaxEvents = 3
INVARIANTS
  TypeOK
  CopiesMatchTable
  NoneForgotten
  NoStrayMember
  ReportsAreAsked
PROPERTY EditKeepsOthers
CHECK_DEADLOCK FALSE
