SPECIFICATION Spec
CONSTANTS
  Jobs = {j1, j2, s1}
  SyncJobs = {s1}
  Workers = {w1, w2}
  Cancellers = {}
  QueueLimit = 0
  MaxJobs = 2
  NoJob = NoJob
SYMMETRY Symmetry
INVARIANTS
  JobInv
  BoundedLoad
  LiveJobsRegistered
