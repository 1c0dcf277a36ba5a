SPECIFICATION FairSpec
CONSTANTS
  s1 = s1
  l1 = l1
  Streams = {s1}
  Listeners = {l1}
  p1 = p1
  p2 = p2
  Pollers = {p1, p2}
  Programs <- MCPrograms
  Nobody = Nobody
  NUM_BLOCKS = 2
  NUM_ENTRIES = 1
  BUDGET = 1
INVARIANTS TypeOK PendingExact SlotOwnedOnce NoLostReadiness WakerOfOwner NetNeverPanics FreshSlotNeverEarly
PROPERTIES WriteHalfShutsDown ReadinessReachesTask
