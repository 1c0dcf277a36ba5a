SPECIFICATION FairSpec
CONSTANTS
  Sleeps = {s1, s2}
  Pollers = {p1}
  Entries = {e1, e2, e3}
  NoSleep = NoSleep
  NoEntry = NoEntry
  Millis = {0, 2}
  Instants = {1}
  MAX_CACHED = 1
  MaxDeadline = 3
  MaxNow = 2
INVARIANTS
  TypeOK
  ExpiresIsMin
  EntryOwnedOnce
  QueueNeverPanics
  FirstUseNeverEarly
  WaitingIsHeld
PROPERTY
  SleepEnds
