CONSTANTS
  Page <- Wrapping
  Frame = {f1, f2}
  NoPage = NoPage
  NoFrame = NoFrame
  Hash <- MCHash
  InitCap = 4
  MaxCap = 8
  MaxFiles = 4
  Entries = 3
SPECIFICATION MCSpec
INVARIANTS TypeOK Layout Counted InFlight
PROPERTIES Refines Terminates Ends
