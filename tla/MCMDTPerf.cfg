SPECIFICATION PerfSpec
CONSTANTS
  MaxInstructions = 4
  TransferBytes <- MCTransferBytes
  RuntimeCosts <- MCRuntimeCosts
  TimelineLimit = 2
INVARIANTS
  PerfTypeOK
  RunsTileTheTrace
  PairingInv
  OverlapWithinBounds
  TimelineKeepsCycles
