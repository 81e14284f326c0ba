CONSTANTS
  N = 4
  Fanout = 4
  MaxEvict = 5
  NoFrame = NoFrame
  Keys <- MCKeys
  KeyHash <- MCKeyHash
  Payload = {f1, f2}
  Addr = {a1, a2, a3, a4}
  Null = Null
  Size = 2
  Numbers = {2, 3}
  FirstCapacity = 2
  MaxNodes = 5
  Width = 4
  Words <- MCWords
  PageId = 2
  Data = {1, 2, 3, 4}
  MAX_NODES = 3
  MaxLength = 4
  LowerCase = {"i", "n"}
  Upper <- MCUpper
  Digits = {"1"}
  Spaces = {" "}
  Symbols <- MCSymbols
  Others = {}
  Keywords <- MCKeywords
  MaxText = 4
  MaxFiles = 4
  Entries = 3
  WordBits = 4
  ByteBits = 1
  FlagBits = 2
  Seed = 3
  GOLDEN = 5
  PRIME1 = 9
  PRIME2 = 11
  FMIX = 13
  ShiftA = 2
  ShiftB = 1
  ShiftC = 2
  ShiftD = 3
  Up = 1
  Down = 1
  NumCols = 4
  Int32 = {2, 4}
  Sample = {0, 6}
SYMMETRY Symmetry
SPECIFICATION AllSpec
INVARIANTS Cached ChainOwned FlatLowered RefLeads ListReloaded TextTiled KeysSeparate Accounted Quiet NoticesFailure
PROPERTIES OnlyRootWritten ChainMaps
CHECK_DEADLOCK FALSE
