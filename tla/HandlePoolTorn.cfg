CONSTANTS
  Asked = 1
  GenMod = 4
  Outcomes <- HalfMoved
  MaxCap = 4
  MaxUses = 2
SPECIFICATION Spec
PROPERTY StaleIsNull
CHECK_DEADLOCK FALSE
