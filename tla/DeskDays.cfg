CONSTANTS
  Calls = {c1, c2}
  PlanKeys = {p1, p2}
  BandKeys = {}
  Reservation = 0
  DailyBudget = 0
  RollingBudget = 0
  BudgetDays = 1
  SlotLength = 1
  ReconsiderAge = 0
  MaxAttempts = 2
  InterruptAge = 9
  CircuitAge = 0
  SnapshotAge = 9
  LockWait = 0
  MaxTime = 3
  DayOf <- LateHoliday
  RegularDays = {1, 3}
  Morning = {0, 1, 3}
  Open = {0, 1, 3}
  Late = {2}
  Supervisor = s
  Workers = {w1}
  Limits <- BothLimits
  Moves <- Losing
  StopMove <- StopAt
  TargetMove = 1
  Expiries = {2}
  MaxLots = 2
  MaxHold = 9
  EntryCap = 2
  Cooldown = 1
  SpotAge = 0
  FreshAge = 0
  Controls = {"settle"}
  Symbols = {1, 2}
  Near <- LeavesStrike
  SpotAt <- StandsStill
  Capacity = 1
  EntryDelay = 1
  MaxHorizon = 1
  QuoteGrace = 1
  PositionLife = 4
  QuoteLife = 1
  SnapshotLife = 2
  PlanLife = 1
  OneShot = 1
  EntryOpens = 1
  SessionCloses = 5
  MaxRounds = 3
  MaxAnswers = 1
  Playbooks <- PlayedPlaybooks
  Contracts <- PlayedContracts
  StrikeCount = 1
  Charts <- PlayedCharts
  Offers <- PlayedOffers
  Spots = {1001, 989}
  Capital = 20000000
  LossPct = 1
  ProfitPct = 5
  ProfitCap = TRUE
  TradeStop = 40
  TradeTarget = 80
  Paise = 1000
  FixedCost = 5000
  BuyRate = 1
  SellRate = 2
  EntryLimit = 1
  BarMinutes = 2
  PatternLife = 2
  AnalysisLife = 1
  PlanTerm = 1
  QuoteAge = 1
  SampleLife = 0
  ExitPause = 2
  LastMinuteOfSession = 3
  Ending = 3
  TapeLength = 3
SYMMETRY DeskSymmetry
SPECIFICATION DaysSpec
CHECK_DEADLOCK FALSE
INVARIANTS
  LotsConserved
  AppliedIffEntered
  PhaseMatchesPosition
  TradesKept
  
  
PROPERTIES
  SoldOnOwnQuote
