CONSTANTS
  t1 = t1  t2 = t2  t3 = t3
  k1 = k1  k2 = k2  k3 = k3
  Threads <- MCThreads
  Tasks <- MCTasks
  NoTask = NoTask
  Reserve = 1
  EatenBound = 2
  Remembered = FALSE
  Spurious = TRUE
  Stoppable = TRUE
  Maintained = FALSE
SPECIFICATION Spec
SYMMETRY Symmetry
INVARIANT AtMostOnce
PROPERTY KeepsPromise
CHECK_DEADLOCK FALSE
