CONSTANTS
  t1 = t1
  t2 = t2
  Handlers = {h1, h2}
  Names = {n1, n2}
  People = {p1, p2}
SPECIFICATION Spec
CONSTRAINT OneExcuse
SYMMETRY Symmetry
INVARIANT CompaniesKept ConsoleAnswers WatchKept
PROPERTY DoneStaysDone
CHECK_DEADLOCK FALSE
