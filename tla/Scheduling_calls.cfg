\* Two users with two calls in all, one round of the watcher, one fault, two minutes: does every row keep its job?
CONSTANTS
  s1 = s1
  s2 = s2
  Schedules = {s1, s2}
  Initial = {s1}
  Fresh = {s1}
  Rounds = {r1}
  Callers = {c1, c2}
  CallLists <- Lists
  Kinds = {"create", "enable", "disable", "retry", "deleteFlow"}
  MaxJobs = 2
  MaxRows = 2
  MaxNow = 1
  MaxCalls = 2
  MaxFaults = 1
  MaxBusy = 2
  JobAttempts = 1
  ScheduleAttempts = 2
  StalledLimit = 1
  Workers = 1
SPECIFICATION Spec
INVARIANTS PendingIsQueued RunningHasAWorker DisableLeavesOnlyRunJobs
SYMMETRY Symmetry
CHECK_DEADLOCK FALSE
