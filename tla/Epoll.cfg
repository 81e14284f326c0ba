CONSTANT
  Harmless = {17, 18, 23, 28}
SPECIFICATION FairSpec
PROPERTY Notified
CHECK_DEADLOCK FALSE
