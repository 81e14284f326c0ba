CONSTANTS
  Page <- Four
  Frame = {f1, f2}
  NoPage = NoPage
  NoFrame = NoFrame
  None = None
  Hash <- MCHash
  Cap = 3
SPECIFICATION Spec
INVARIANT Layout
PROPERTIES RefusedOnlyFull Refines
