CONSTANTS
  Calls = {c1, c2}
  PlanKeys = {p1}
  BandKeys = {}
  Reservation = 0
  DailyBudget = 0
  RollingBudget = 0
  BudgetDays = 1
  SlotLength = 1
  ReconsiderAge = 0
  MaxAttempts = 2
  InterruptAge = 9
  CircuitAge = 0
  SnapshotAge = 9
  LockWait = 1
  MaxTime = 2
  DayOf <- OneDay
  RegularDays = {1}
  Morning = {0, 1}
  Open = {0, 1, 2}
  Late = {2}
  Supervisor = s
  Workers = {w1}
  Limits <- Wide
  Moves <- Losing
  StopMove <- StopAt
  TargetMove = 1
  Expiries = {2}
  MaxLots = 1
  MaxHold = 9
  EntryCap = 2
  Cooldown = 0
  SpotAge = 1
  FreshAge = 1
  Controls = {"stop"}
SYMMETRY DeskSymmetry
SPECIFICATION DeskSpec
CHECK_DEADLOCK FALSE
INVARIANTS
  StopPreventsEntry
