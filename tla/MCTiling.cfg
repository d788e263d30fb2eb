SPECIFICATION Spec
CONSTANTS
  kTileDim = 4
  Kinds <- TilingKinds
  LoadShapes <- TilingShapes
  MaxOps = 4
  MaxPrints = 1
  Configs <- TilingConfigs
  ScratchpadTiles = 12
INVARIANTS
  IRTypeOK
  IdsArePositions
  PrintsPreserved
  StagingIntact
  ReportNamesConsumer
  ReportCountsReads
