\* CHECK_DEADLOCK FALSE: runs, deployments, requests, promotions and quotes come to an end.
SPECIFICATION ServicesSpec
CONSTANTS
  dog = dog  desk = desk  supervisor = supervisor
  UnitOrder <- RolloutOrder
  Supervisor = supervisor
  Watchdog = dog
  Opens <- RolloutOpens
  Closes <- RolloutCloses
  ApiOpens = {"cash"}
  Patience = 1
  Models = {"m1", "m2"}
  Bootstrapped = {"m1"}
  TrainingRuns = {"t1"}
  Trainers = {"w1", "w2"}
  MaxActivations = 3
  Probes = {"probe"}
  Observers = {"observing"}
  Reasons = {"TOKEN"}
  reports = reports  decision = decision
  Days = {1, 2}
  Workers = {reports, decision}
  Poison = {1}
  Batch = 1
  LeaseLength = 2
  RetryAge = 3
  RunLimit = 1
  Transient = 2
  long = long  short = short
  Requests <- SimulatorRequests
  InitialCapital = 3000
  Slippage = 1  SlippageScale = 100
  Fee = 1  FeeScale = 10
  MaximumQuoteAge = 1
INVARIANTS
  SimulatorBooksAgree
  SupervisedOption
  DuplicatesExplained
PROPERTIES
  SwapWhenFlat
  PromotedIsEvaluated
  GateAnswersInTime
  ReadinessHeals
  BacklogDrains
CHECK_DEADLOCK FALSE
