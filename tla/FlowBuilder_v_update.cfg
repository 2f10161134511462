\* A flow is loaded, edited and submitted: is the drawing stored?
SPECIFICATION MCSpec
CONSTANTS
  Rows = {x, y}
  Retries = 1
  MaxFlights = 2
  SavedIds = {x, y}
  Details = {d1}
  Files <- MCFiles
  MaxNodes = 2
  NoFlow = NoFlow
  Types = {x, y}
  Shared = Shared
  NoType = NoType
  MaxAsked = 2
  Typed <- MCTyped
  Minutes = {30}
  Hours = {0}
  DaysOfMonth = {2}
  DaysOfWeek = {0}
  FlowChoices = {f1}
  NoChoice = NoChoice
  MaxTouches = 2
  MaxLists = 1
  Executions = {x, y}
  NoExecution = NoExecution
  Statuses = {"running", "failed"}
  MaxReconnectAttempts = 1
  MaxLoads = 2
  MaxChannel = 2
  Timers = {1, 2, 3, 4}
SYMMETRY MCSymmetry
INVARIANT SubmittedIsStored
CHECK_DEADLOCK FALSE
