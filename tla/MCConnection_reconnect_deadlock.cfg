SPECIFICATION FairSpec
CONSTANTS
  Workers = {w1}
  FileThreads = {f1}
  Reconnectors = {r1, r2}
  ExecRequests = {e1}
  Modes = {TRUE}
  Free = Free
PROPERTIES
  ReconnectReturns
