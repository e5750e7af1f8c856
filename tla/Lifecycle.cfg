SPECIFICATION FairSpec
CONSTANTS
  InfoOrder <- OneInfo
  Reloads = {"svn"}
  Lines = {"connect", "disconnect"}
  MaxEvents = 2
  MaxFaults = 1
INVARIANTS TypeOK UptimeSaved SafeWhileRunning SingletonIsCurrent
PROPERTY ShutdownEnds
CHECK_DEADLOCK FALSE
