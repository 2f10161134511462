\* Two overlapping rounds over two schedules, one update or delete, one fault: is what is due served, and once?
CONSTANTS
  s1 = s1
  s2 = s2
  Schedules = {s1, s2}
  Initial = {s1, s2}
  Fresh = {}
  Rounds = {r1, r2}
  Callers = {c1}
  CallLists <- Lists
  Kinds = {"update", "delete"}
  MaxJobs = 2
  MaxRows = 2
  MaxNow = 1
  MaxCalls = 1
  MaxFaults = 1
  MaxBusy = 2
  JobAttempts = 1
  ScheduleAttempts = 1
  StalledLimit = 0
  Workers = 1
SPECIFICATION Spec
PROPERTIES DuplicateHasACause DueIsServed
CHECK_DEADLOCK FALSE
