SPECIFICATION Spec
CONSTANTS
  Jobs = {j1, j2}
  Cancellers = {c1}
  MaxQueue = 1
  MaxHistory = 1
  None = None
INVARIANT
  WorkerSurvives
