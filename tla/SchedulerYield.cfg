SPECIFICATION Spec
CONSTANTS
  NumWorkers = 2
  MaxThreads = 3
  Users = {u1}
  Pool = {p1}
  Tasks = {k1}
  NoThread = NoThread
  NoTask = NoTask
  NetPending = FALSE
  Timers = FALSE
SYMMETRY Symmetry
INVARIANT
  YieldedNotParked
