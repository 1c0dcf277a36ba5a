SPECIFICATION FairSpec
CONSTANTS
  Threads = {t1, t2, t3}
  Wakers = {w1, w2, w3}
  Joiner = Joiner
  Nobody = Nobody
INVARIANTS
  NeverPanics
  ScheduledOnce
PROPERTIES
  WakeNotLost
  JoinCompletes
