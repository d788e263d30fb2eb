SPECIFICATION FairSpec
CONSTANTS
  kTileDim = 2
  HalfWord = 32
  BF16Unit = 4
  MemoryWords = 6
  HeadroomWords = 4
  ScratchpadWords = 5
  Images <- MCPrograms
  LoadPhases <- LoadAgain
  Wild <- MCWild
  MaxInstructions = 40
  TransferBytes = {4, 8, 16}
  RuntimeCosts = {0}
INVARIANTS
  RunOutcome
  PrintsShowSoftmax
PROPERTIES
  ReturnsMatchCalls
  SoftmaxZeroesPadding
  Termination
