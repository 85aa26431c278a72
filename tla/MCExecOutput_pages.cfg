SPECIFICATION Spec
CONSTANTS
  Width <- MixedWidths
  ChunkChars = 3
  OutputLimit = 5
  PageSizes = {1, 2, 4}
INVARIANTS
  TypeOK
  RetainsSuffix
  NoSilentLoss
  PollAdvances
PROPERTIES
  PageIsLongestRun
