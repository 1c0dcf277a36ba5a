SPECIFICATION FairSpec
CONSTANTS
  Wakers = {w1, w2, w3}
  Poller = Poller
  Nobody = Nobody
INVARIANTS
  NoLostWake
  PollNeverPanics
PROPERTIES
  WakeLeadsToReady
  ImplementsLatch
CHECK_DEADLOCK FALSE
