SPECIFICATION MCSpec
CONSTANTS
  Callers = {c1, c2}
  FlowIds = {f1, f2}
  Bodies <- MCBodies
  Updates <- MCUpdates
  MaxVersion = 2
  Same = Same
  Definitions <- MCDefinitions
  ByText <- MCByText
  Requests = {r1, r2}
  MaxBoots = 2
  MaxFailures = 1
SYMMETRY MCSymmetry
INVARIANTS
  TableIsConsistent BuiltInsAreListed RegisteredNodesSurvive CompatibleIsExecutable
PROPERTIES
  VersionsOnlyCount
CHECK_DEADLOCK FALSE
