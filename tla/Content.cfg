CONSTANTS
  m1 = m1
  m2 = m2
  Handlers = {h1, h2}
  Pair = {i1, i2}
SPECIFICATION Spec
CONSTRAINT OneExcuse
SYMMETRY Symmetry
INVARIANT ReferentialsKept DiagnosticsKept CoursesKept
PROPERTY SettledStays
CHECK_DEADLOCK FALSE
