SPECIFICATION Spec
CONSTANTS
  kTileDim = 2
  HalfWord = 32
  BF16Unit = 4
  MemoryWords = 6
  HeadroomWords = 4
  ScratchpadWords = 5
  Images <- MCOutside
  LoadPhases <- LoadOnce
  Wild <- MCWild
  MaxInstructions = 6
  TransferBytes = {4, 8, 16}
  RuntimeCosts = {0}
PROPERTIES
  OutOfRangeIsDiagnosed
CHECK_DEADLOCK FALSE
