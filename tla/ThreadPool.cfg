CONSTANTS
  t1 = t1  t2 = t2  t3 = t3
  k1 = k1  k2 = k2  k3 = k3
  Threads <- MCThreads
  Tasks <- MCTasks
  NoTask = NoTask
  Reserve = 1
  EatenBound = 2
  Remembered = FALSE
  Spurious = FALSE
  Stoppable = TRUE
  Maintained = TRUE
SPECIFICATION Spec
SYMMETRY Symmetry
INVARIANTS
  TypeOK
  DestroyedAfterRun
  NoDangling
  FreeThreadsAreIdle
CHECK_DEADLOCK FALSE
