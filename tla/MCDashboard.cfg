SPECIFICATION Spec
CONSTANTS
  Conns = {"f1", "f2", "s"}
  Fetches = {"f1", "f2"}
  Stranger = "s"
  Backlog = 2
  MaxParts = 3
  MaxStops = 1
  MaxGestures = 2
  Sources = {"good", "bad"}
  Compiles = {"good", "empty"}
  Runs = {"good", "empty"}
  StrangeRequests <- MCStrangeRequests
INVARIANTS
  AnswersAreForTheText
  IdlePageIsReady
PROPERTIES
  CallsSettle
CHECK_DEADLOCK FALSE
