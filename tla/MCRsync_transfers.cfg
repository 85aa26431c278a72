SPECIFICATION FairSpec
CONSTANTS
  Jobs = {j1, j2}
  Cancellers = {c1}
  MaxQueue = 1
  MaxHistory = 1
  None = None
INVARIANTS
  RsyncInv
  HonestTransfer
PROPERTIES
  StopsWhenAsked
