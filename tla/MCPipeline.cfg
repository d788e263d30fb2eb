SPECIFICATION PipelineSpec
CONSTANTS
  kTileDim = 2
  Kinds <- MCNone
  LoadShapes <- MCNone
  MaxOps = 0
  MaxPrints = 0
  Configs <- MCConfigs
  ScratchpadTiles = 4
  LeafWord <- MCLeafWord
  Factor <- MCFactor
  Programs <- MCPrograms
  HalfWord = 16777216
  BF16Unit = 4
  MemoryWords = 16
  HeadroomWords = 8
  ScratchpadWords = 16
  Wild <- MCWild
  MaxInstructions = 1000
  TransferBytes = {4}
  RuntimeCosts = {0}
INVARIANTS
  PaddingStaysZero
  LoadsReadOperands
PROPERTIES
  PrintsTheProgram
  OnlyTheResultChanges
