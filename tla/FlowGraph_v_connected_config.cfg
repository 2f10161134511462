SPECIFICATION MCSpec
CONSTANTS
  Nodes <- MCNodes
  NodeList <- MCNodeList
  TypeOf <- MCTypeOf
  Config <- MCConfig
  Stranger = 0
  Pins = {"data", "source"}
  MaxConnections = 1
  Fields = {"x", "x.y"}
  PathOf <- MCPathOf
  Absent = Absent
  Object = Object
  MaxItems = 1
  MaxConditions = 1
  MaxMatched = 1
  Executions = {"e1"}
  Flows <- MCFlows
  Names = {"a", "b"}
  Literals = {"4"}
  Undefined = Undefined
  MaxMaps = 2
  MaxTemplate = 1
INVARIANTS
  ConnectedNodesAreConfigured
CHECK_DEADLOCK FALSE
