SPECIFICATION PerfSpec
CONSTANTS
  MaxInstructions = 4
  TransferBytes <- MCTransferBytes
  RuntimeCosts <- MCRuntimeCosts
  TimelineLimit = 2
INVARIANTS
  PerformanceModelValidAfterRun
