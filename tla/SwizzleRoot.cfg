CONSTANTS
  N = 4
  Fanout = 4
  MaxEvict = 1
  NoFrame = NoFrame
SPECIFICATION Spec
INVARIANT RootStays
CHECK_DEADLOCK FALSE
