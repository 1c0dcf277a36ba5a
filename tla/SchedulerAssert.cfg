SPECIFICATION Spec
CONSTANTS
  NumWorkers = 2
  MaxThreads = 3
  Users = {u1}
  Pool = {p1, p2}
  Tasks = {k1}
  NoThread = NoThread
  NoTask = NoTask
  NetPending = FALSE
  Timers = FALSE
SYMMETRY Symmetry
CHECK_DEADLOCK FALSE
INVARIANT
  NoAssertionFails
