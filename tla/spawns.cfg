SPECIFICATION MCSpec
CONSTANTS
  r1 = r1
  r2 = r2
  Requests <- MCRequests
  Linked <- MCLinked
  AskTTL = 1
  WakeWait = 1
  StartTimeout = 1
  DailyCap = 1
  Scheduled = {daily}
  Triggered = {limit}
  Subjects = {box, week}
  Allowances = {week}
  Inflight = {1}
  Period = 2
  MissedAfter = 1
  Never = 9
INVARIANTS OneSessionPerApproval CapKept OutcomesTold NothingSwallowed
PROPERTIES AsksEnd RoutinesFire
