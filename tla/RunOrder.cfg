SPECIFICATION OrderSpec
CONSTANTS
  NumWorkers = 2
  MaxThreads = 3
  Users = {u1}
  p1 = p1
  Pool = {p1}
  k1 = k1
  Tasks = {k1, k2, k3}
  NoThread = NoThread
  NoTask = NoTask
  NetPending = FALSE
  Timers = FALSE
  Programs <- MCPrograms
PROPERTIES
  WakeReachesPoll
  HandoffTaken
  LocalWorkRuns
