\* Two nodes, any two calls, failing database calls, Bull's retries, a crash that is one too many.
CONSTANTS
  n1 = n1
  n2 = n2
  n3 = n3
  Nodes <- TwoNodes
  Order <- TwoInOrder
  Critical <- OnlySecond
  Rollbackable <- FirstTwo
  NoNode = NoNode
  Commands = {c1, c2}
  Kinds = {"cancel", "pause", "resume"}
  Faults = TRUE
  MaxAttempts = 2
  StalledLimit = 0
  MaxCrashes = 1
SPECIFICATION Spec
SYMMETRY Symmetry
INVARIANTS SuccessIsEarned CancelNeverSucceeds RollbackMissesAtMostInFlight
PROPERTY ImplementsLifecycle
CHECK_DEADLOCK FALSE
