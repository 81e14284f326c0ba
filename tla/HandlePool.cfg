CONSTANTS
  Asked = 1
  GenMod = 2
  Outcomes <- Any
  MaxCap = 4
  MaxUses = 2
SPECIFICATION Spec
INVARIANT FreeList
PROPERTIES Answers Undisturbed
CHECK_DEADLOCK FALSE
