CONSTANTS
  Calls = {c1, c2, c3, c4, c5}
  PlanKeys = {p1, p2}
  BandKeys = {}
  Reservation = 0
  DailyBudget = 9
  RollingBudget = 9
  BudgetDays = 1
  SlotLength = 1
  ReconsiderAge = 0
  MaxAttempts = 5
  InterruptAge = 9
  CircuitAge = 2
  SnapshotAge = 0
  LockWait = 0
  MaxTime = 6
  DayOf <- OneDay
  RegularDays = {1, 2}
  Morning = {0, 1, 2, 3}
  Open = {0, 1, 2, 3, 4}
  Late = {4}
SYMMETRY CallSymmetry
SPECIFICATION Spec
CHECK_DEADLOCK FALSE
PROPERTY OneProbeAtATime
