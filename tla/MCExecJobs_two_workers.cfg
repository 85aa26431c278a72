SPECIFICATION Spec
CONSTANTS
  Jobs = {j1, j2}
  SyncJobs = {}
  Workers = {w1, w2}
  Cancellers = {c1}
  QueueLimit = 1
  MaxJobs = 3
  NoJob = NoJob
SYMMETRY Symmetry
INVARIANTS
  TypeOK
  RunningExact
  QueueExact
  NoOrphanChild
  HonestOutcome
  CancelWins
  SingleTerminator
PROPERTIES
  TerminalIsFinal
  ImplementsService
