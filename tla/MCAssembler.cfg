SPECIFICATION Spec
CONSTANTS
  Sources <- MCAll
  Again <- MCAgain
INVARIANTS
  LabelsNameInstructions
  AssembledIsWellFormed
PROPERTIES
  AssembleIsAFunction
