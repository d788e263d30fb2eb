SPECIFICATION Spec
CONSTANTS
  kMaxDimension = 256
  kMaxBatch = 1024
  Sources <- MCSources
INVARIANTS
  RecoveryIsLocal
  OneErrorPerMistake
  CheckedProgramsLower
  LoweringKeepsMeaning
PROPERTIES
  EveryTurnConsumes
