SPECIFICATION Spec
CONSTANTS
  main = main
  a1 = a1
  a2 = a2
  None = None
  Main = main
  Proc = {main, a1, a2}
  Port = {p1}
  Op = {o1, o2}
  Workers = 1
  Backlog = 1
  PortReuse = TRUE
  MaxCrash = 0
  MayReach <- Mutual
INVARIANT TerminatedStaysDead

SYMMETRY Symmetry
CHECK_DEADLOCK FALSE
