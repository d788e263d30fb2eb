SPECIFICATION Spec
CONSTANTS
  kTileDim = 4
  Kinds <- FusionKinds
  LoadShapes <- OneShape
  MaxOps = 4
  MaxPrints = 2
  Configs <- FusionConfigs
  ScratchpadTiles = 4
INVARIANTS
  SSAOrder
  PrintsPreserved
  AbsorbedOpsAreDead
  FusionComplete
