SPECIFICATION MCSpec
CONSTANTS
  Nodes <- MCNodes
  NodeList <- MCNodeList
  TypeOf <- MCTypeOf
  Config <- MCConfig
  Stranger = 0
  Pins = {"data", "source"}
  MaxConnections = 3
  Fields = {"x", "x.y"}
  PathOf <- MCPathOf
  Absent = Absent
  Object = Object
  MaxItems = 2
  MaxConditions = 2
  MaxMatched = 2
  Executions = {"e1", "e2"}
  Flows <- MCFlows
  Names = {"a", "b"}
  Literals = {"4"}
  Undefined = Undefined
  MaxMaps = 6
  MaxTemplate = 3
INVARIANTS
  CyclesAreFound OrderRespectsConnections InputsComeFromSources
  TransformationsAgree ValidatedOperationsRun TemplatesAreFilledIn
PROPERTIES
  OnlyOneContextChanges
CHECK_DEADLOCK FALSE
