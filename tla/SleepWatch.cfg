SPECIFICATION WatchSpec
CONSTANTS
  NumWorkers = 2
  MaxThreads = 3
  Users = {u1}
  Pool = {p1}
  Tasks = {k1, k2}
  NoThread = NoThread
  NoTask = NoTask
  NetPending = FALSE
  Timers = TRUE
CHECK_DEADLOCK FALSE
PROPERTY
  DeadlineNotified
