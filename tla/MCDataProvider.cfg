CONSTANTS
  p0 = p0
  p1 = p1
  p2 = p2
  p3 = p3
  p4 = p4
  p5 = p5
  p6 = p6
  q0 = q0
  NotCalled = NotCalled
  Absent = Absent
  N = 7
  Ranks <- MCRanks
  Group <- MCGroup
  InputCfgs <- MCInputCfgs
  Shapes <- MCShapes
SPECIFICATION Spec
CHECK_DEADLOCK FALSE
INVARIANT BatchCovered
