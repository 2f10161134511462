\* One cancel, no fault.
CONSTANTS
  n1 = n1
  n2 = n2
  n3 = n3
  Nodes <- TwoNodes
  Order <- TwoInOrder
  Critical <- OnlySecond
  Rollbackable <- FirstTwo
  NoNode = NoNode
  Commands = {c1}
  Kinds = {"cancel"}
  Faults = FALSE
  MaxAttempts = 1
  StalledLimit = 1
  MaxCrashes = 0
SPECIFICATION Spec
INVARIANT CancelledStays
CHECK_DEADLOCK FALSE
