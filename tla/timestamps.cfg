SPECIFICATION Spec
CONSTANTS
  MaxClock = 2
  MaxSystemTime = 2
  MaxStamp = 3
  Nil = Nil
CHECK_DEADLOCK FALSE
INVARIANTS FormatsEveryTimestamp
