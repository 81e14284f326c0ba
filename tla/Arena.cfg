CONSTANTS
  BufLen = 5
  Base = 1
  Word = 32
  Sizes = {0, 1, 3}
  Aligns = {1, 2}
  Ids = {1, 2}
  Temps = {t1}
SPECIFICATION Spec
INVARIANTS TypeOK Disjoint Intact Aligned
