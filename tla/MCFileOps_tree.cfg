SPECIFICATION Spec
CONSTANTS
  Brokered = {c1, c2}
  Outsiders = {o1}
  Names = {a, b}
  Root = Root
  Subs = {d1}
  Stamps = {s1, s2}
  Old = Old
  Absent = Absent
  Servers = {TRUE, FALSE}
  Operations <- MCOperations
  a = a
  b = b
  s1 = s1
  s2 = s2
INVARIANTS
  FileInv
  HonoursExpectation
PROPERTIES
  ReplaceKeepsTarget
SYMMETRY Symmetry
CHECK_DEADLOCK FALSE
