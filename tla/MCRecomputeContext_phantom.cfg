CONSTANTS
  r1 = r1
  r2 = r2
  r3 = r3
  NoConfig = NoConfig
  Ctx <- MCCtx
  Configs <- MCConfigs
  MaxList = 4
SYMMETRY MCSymmetry
SPECIFICATION Spec


CHECK_DEADLOCK FALSE
INVARIANT EffectiveIsOpenBlocks
