SPECIFICATION Spec
CONSTANTS
  Paths = {p, q}
  Words = {Blank, w}
  Blank = Blank
  Opaque = Opaque
  Stamps = {m1, m2}
  Absent = Absent
  Slots = {h1, h2}
INVARIANTS
  CleanIsStored
