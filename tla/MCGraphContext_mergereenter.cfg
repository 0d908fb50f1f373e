CONSTANTS
  g1 = g1
  g2 = g2
  t1 = t1
  m1 = m1
  m2 = m2
  DefaultGraph = DefaultGraph
  NoGraph = NoGraph
  Ctx <- MCCtx
  Kind <- MCKind
  CreateNew <- MCCreateNew
  Tmp <- MCTmp
  MaxDepth = 3
  NestedReuse = TRUE
SYMMETRY MCSymmetry
SPECIFICATION Spec
INVARIANT StackMirror
