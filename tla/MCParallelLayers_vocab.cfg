CONSTANTS
  c1 = c1
  r1 = r1
  c2 = c2
  r2 = r2
  v1 = v1
  v2 = v2
  ln = ln
  NoValue = NoValue
  Absent = Absent
  N = 4
  NumEmbeddings = 6
  DataShape <- MCDataShape
  Layers <- MCLayers
  LayerKind <- MCLayerKind
  LayerCfg <- MCLayerCfg
  GatherOutput <- MCGatherOutput
  HasBias <- MCHasBias
  InputCfgs <- MCInputCfgs
SPECIFICATION Spec
INVARIANT VocabWindowsPartition
