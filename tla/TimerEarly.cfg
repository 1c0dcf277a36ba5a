SPECIFICATION Spec
CONSTANTS
  Sleeps = {s1}
  Pollers = {p1}
  Entries = {e1, e2}
  NoSleep = NoSleep
  NoEntry = NoEntry
  Millis = {1, 2}
  Instants = {1}
  MAX_CACHED = 1
  MaxDeadline = 4
  MaxNow = 3
INVARIANT
  NeverEarly
