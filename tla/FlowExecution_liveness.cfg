\* Any two calls; a job redelivered after a crash, and given up after a second one; the
\* event loop is fair.
CONSTANTS
  n1 = n1
  n2 = n2
  n3 = n3
  Nodes <- TwoNodes
  Order <- TwoInOrder
  Critical <- OnlySecond
  Rollbackable <- FirstTwo
  NoNode = NoNode
  Commands = {c1, c2}
  Kinds = {"cancel", "pause", "resume"}
  Faults = FALSE
  MaxAttempts = 1
  StalledLimit = 1
  MaxCrashes = 2
SPECIFICATION FairSpec
PROPERTIES CancelEndsRun JobEndsOrWaits RowSettles
CHECK_DEADLOCK FALSE
