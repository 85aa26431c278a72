SPECIFICATION FairSpec
CONSTANTS
  Jobs = {j1, s1}
  SyncJobs = {s1}
  Workers = {w1}
  Cancellers = {c1}
  QueueLimit = 1
  MaxJobs = 2
  NoJob = NoJob
PROPERTIES
  EveryJobEnds
  SyncCallersReturn
  CancelsReturn
  CloseDrains
