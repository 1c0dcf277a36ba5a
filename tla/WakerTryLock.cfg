SPECIFICATION Spec
CONSTANTS
  Wakers = {w1, w2, w3}
  Poller = Poller
  Nobody = Nobody
INVARIANT
  TryLockFree
