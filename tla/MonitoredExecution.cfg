\* Two nodes, one call, failing database calls, a retry, a crash and its redelivery.
CONSTANTS
  n1 = n1
  n2 = n2
  Nodes <- TwoNodes
  Order <- TwoInOrder
  Critical <- OnlySecond
  Rollbackable <- OnlySecond
  NoNode = NoNode
  Commands = {c1}
  Kinds = {"cancel", "pause"}
  Faults = TRUE
  MaxAttempts = 2
  StalledLimit = 1
  MaxCrashes = 1
SPECIFICATION MonitorSpec
INVARIANTS NodeCountsAgree EveryStartIsCounted DoneIsNotActive VerdictIsLast
CHECK_DEADLOCK FALSE
