CONSTANTS
  Calls = {c1, c2, c3}
  PlanKeys = {p1}
  BandKeys = {b1}
  Reservation = 1
  DailyBudget = 2
  RollingBudget = 2
  BudgetDays = 2
  SlotLength = 1
  ReconsiderAge = 2
  MaxAttempts = 2
  InterruptAge = 1
  CircuitAge = 2
  SnapshotAge = 0
  LockWait = 1
  MaxTime = 5
  DayOf <- TwoDays
  RegularDays = {1, 2}
  Morning = {0, 1, 2, 3}
  Open = {0, 1, 2, 3, 4}
  Late = {4}
SYMMETRY CallSymmetry
SPECIFICATION Spec
CHECK_DEADLOCK FALSE
INVARIANTS
  BudgetHolds
  AttemptsKept
PROPERTIES
  NeverReplayed
