SPECIFICATION Spec
CONSTANTS
  main = main
  a1 = a1
  a2 = a2
  None = None
  Main = main
  Proc = {main, a1, a2}
  Port = {p1, p2}
  Op = {o1, o2, o3}
  Workers = 2
  Backlog = 1
  PortReuse = FALSE
  MaxCrash = 0
  MayReach <- Mutual
INVARIANTS TypeOK CallsAccountedFor TerminatedStaysDead JoinsOnlyStopped TerminateTakesTree
PROPERTY ImplementsRpc
SYMMETRY Symmetry
CHECK_DEADLOCK FALSE
