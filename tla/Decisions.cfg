\* CHECK_DEADLOCK FALSE: the instants, the minutes and the session come to an end.
SPECIFICATION DecisionsSpec
CONSTANTS
  Requests = {}
  InitialCapital = 400900
  Slippage = 1  SlippageScale = 100
  Fee = 1  FeeScale = 100
  MaximumQuoteAge = 0
  Priority <- CorePriority
  MinimumConfidence = 1  RegimeConfidence = 1
  EmitCooldown = 2
  EarliestEntry = 0  LatestEntry = 7
  Scale = 100  CostPerPrice = 2  FeePerPrice = 1
  Atr = 15  AtrScale = 1
  StopMultiplier = 2  RewardMultiple = 2
  MinimumRewardRisk <- Whole
  SizingRisk <- Fiftieth  SizingQuantity = 9  LotSize = 1
  RiskPerTrade <- Fiftieth
  MaximumTradeRisk <- Fortieth
  MaximumOpenRisk <- TwentyFifth
  MaximumCorrelatedRisk <- TwentyFifth
  DailyLossR = 5  WeeklyLossR = 9
  DrawdownThrottle <- Twentieth  DrawdownHalt <- Tenth
  MaximumPositions = 2  MaximumQuantity = 9  MaximumTradesPerDay = 3
  LossStreakLimit = 1  LossCooldown = 1
  NoEntryBeforeClose = 1
  Quotes <- CoreQuotes
  ScoreInputs <- CoreScores
  Replies = {"timeout", "approve", "reject"}
  Attempts = 2
  DayLength = 9  SessionLength = 8
  LastInstant = 4  MaxGap = 1  MaxFailures = 1
  early = early  mid = mid  late = late  wrong = wrong
  Batches = {early, mid, late, wrong}
  BarsOf <- JournalBars
  SessionOpens = 0  SessionCloses = 4
  WarmUp = 1
  LastMinute = 4
  SplitEnds <- JournalSplits
  LabelMinutes = 1
  Decisions = {"d"}
  Sides = {"LONG"}
  Events = {"e"}
  Horizons = {1, 2}
  w1 = w1  w2 = w2
  Clerks = {w1, w2}
  Playbooks <- TradePlaybooks
  Contracts <- TradeContracts
  StrikeCount = 1
  Charts <- TradeCharts
  Offers <- TradeOffers
  Spots = {1001, 989}
  Capital = 120000000
  LossPct = 1  ProfitPct = 5  ProfitCap = TRUE
  TradeStop = 40  TradeTarget = 80
  Paise = 10000  FixedCost = 50000  BuyRate = 5  SellRate = 19
  EntryLimit = 2
  BarMinutes = 2
  PatternLife = 2  AnalysisLife = 1  PlanTerm = 1
  QuoteAge = 0  SampleLife = 1  ExitPause = 2
  LastMinuteOfSession = 6
  r1 = r1  r2 = r2  p = p  A = A  B = B
  Runs = {r1, r2}
  Proposals = {p}
  Accounts = {A, B}
  RunInputs <- PaperInputs
  Opening <- PaperOpening
  HaltScopes = {"global"}
  RiskSizes = {0, 1, 2}
  Charge = 1
  Scenarios <- StudyScenarios
  StudyCapital = 10
  Paths <- StudyPaths
  Gaps = {0, 2}
  StudyDay = 5
  MaxOpportunities = 4
  StartingCapital = 280
  SlippageRate = 1  SlippageBase = 4
  FeeRate = 1  FeeBase = 5
  TapeQuotes <- ShadowQuotes
  Masks = {{}, {"LONG"}, {"LONG", "SHORT"}}
  Rows = 5
  Readers = {"api", "worker"}
  ReadAttempts = 2
  MaxTokens = 3
  MaxApprovals = 2
SYMMETRY ClerkSymmetry
INVARIANTS
  EveryOrderIsOnRecord
  LimitsHold
  
  RecordsStand
  
  PlansHold
  LossesBudgeted
  BaselinesComparable
  RewardExplained
  ReadsHeal
PROPERTIES
  EntriesSeeTheirSession
  FillsAuthorised
CHECK_DEADLOCK FALSE
