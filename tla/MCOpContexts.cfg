CONSTANTS
  o1 = o1
  o2 = o2
  o3 = o3
  None = None
  BoolArg = BoolArg
  NoObj = NoObj
  MaxDepth = 3
  Ctx <- MCCtx
SYMMETRY MCSymmetry
SPECIFICATION Spec
INVARIANT TypeOK
