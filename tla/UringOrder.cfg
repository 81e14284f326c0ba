CONSTANTS
  MaxFiles = 2
  Entries = 3
SPECIFICATION Spec
INVARIANT PrintedWasRead
CHECK_DEADLOCK FALSE
