CONSTANTS
  a = a
  b = b
  Symbols = {a, b}
  Patterns = {breakout}
  Prices <- Swing
  Stop = 2
  Target = 2
  Cost = 1
  Capital = 9
  Budget = 5
  LossLimit = 5
  ProfitLimit = 9
  MaxEntries = 2
  MaxSignals = 2
  Expiry = 2
  Cooldown = 1
  LastDay = 2
  DayLength = 4
  Horizon = 5
  TradingDays = {1, 2}
  Premarket = 0
  Opens = 0
  ObserveFrom = 1
  WindowStart = 1
  Cutoff = 2
  Flatten = 2
  ExitEnd = 3
  Closes = 3
  Incidents = {1}
  MaxBoot = 2
  Modes <- LifeMain
SPECIFICATION CashSpec
CHECK_DEADLOCK FALSE
PROPERTIES
  PriorDaysFirst
