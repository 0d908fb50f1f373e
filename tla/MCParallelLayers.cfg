CONSTANTS
  c1 = c1
  r1 = r1
  c2 = c2
  r2 = r2
  v1 = v1
  v2 = v2
  ln = ln
  NoValue = NoValue
  Absent = Absent
  N = 6
  NumEmbeddings = 12
  DataShape <- MCDataShape
  Layers <- MCLayers
  LayerKind <- MCLayerKind
  LayerCfg <- MCLayerCfg6
  GatherOutput <- MCGatherOutput
  HasBias <- MCHasBias
  InputCfgs <- MCInputCfgs6
SPECIFICATION Spec
INVARIANT TypeOK
INVARIANT NoBiasOnPartial
INVARIANT PureDPNoComm
INVARIANT ActShardsTile
PROPERTY ContractSpec
