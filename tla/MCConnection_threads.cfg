SPECIFICATION FairSpec
CONSTANTS
  Workers = {w1, w2}
  FileThreads = {f1}
  Reconnectors = {r1}
  ExecRequests = {e1}
  Modes = {TRUE, FALSE}
  Free = Free
INVARIANTS
  BrokerInv
  NoJobWhileReplacing
  AttemptsAreAlone
  SessionIsCurrent
PROPERTIES
  ImplementsBreaker
  ReconnectReturns
  FileRequestsReturn
  ExecRequestsEnd
