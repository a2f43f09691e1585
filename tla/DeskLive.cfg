CONSTANTS
  Calls = {c1}
  PlanKeys = {p1}
  BandKeys = {}
  Reservation = 0
  DailyBudget = 0
  RollingBudget = 0
  BudgetDays = 1
  SlotLength = 1
  ReconsiderAge = 0
  MaxAttempts = 2
  InterruptAge = 1
  CircuitAge = 0
  SnapshotAge = 9
  LockWait = 0
  MaxTime = 2
  DayOf <- AfterHoliday
  RegularDays = {1, 3}
  Morning = {0, 2}
  Open = {0, 1, 2}
  Late = {1}
  Supervisor = s
  Workers = {w1}
  Limits <- Wide
  Moves <- Losing
  StopMove <- StopAt
  TargetMove = 1
  Expiries = {2}
  MaxLots = 1
  MaxHold = 9
  EntryCap = 2
  Cooldown = 0
  SpotAge = 0
  FreshAge = 0
  Controls = {"halt", "disable", "crash", "settle"}
SPECIFICATION DeskFairSpec
CHECK_DEADLOCK FALSE
PROPERTIES
  LateIsClosed
  HaltStopsSession
  AbandonedIsResolved
