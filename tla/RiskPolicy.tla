----------------------------- MODULE RiskPolicy -----------------------------
(***************************************************************************)
(* Position sizing and the mandatory risk gates, as functions of a price,  *)
(* a portfolio and a plan.  Prices are ticks, money is in units of         *)
(* 1 / Scale of a tick; fractions of equity are <<part, whole>>.           *)
(***************************************************************************)
EXTENDS Integers, FiniteSetsExt

CONSTANTS
  Scale,               \* money units of one tick
  CostPerPrice,        \* of the money a price is worth: slippage and fee of one fill
  FeePerPrice,
  Atr, AtrScale,       \* the snapshot's atr_14, as a quotient
  StopMultiplier, RewardMultiple,
  MinimumRewardRisk,   \* a fraction
  SizingRisk,          \* min(risk_fraction, maximum_risk_fraction)
  SizingQuantity,
  LotSize,
  RiskPerTrade, MaximumTradeRisk, MaximumOpenRisk, MaximumCorrelatedRisk,
  DailyLossR, WeeklyLossR,
  DrawdownThrottle, DrawdownHalt,
  MaximumPositions,
  MaximumQuantity, MaximumTradesPerDay,
  LossStreakLimit, LossCooldown,
  NoEntryBeforeClose

\* What SizingRules, RiskConfig and HardLimits accept.
ASSUME RiskAssumption ==
  /\ {Scale, AtrScale, LotSize, SizingQuantity, MaximumPositions, MaximumQuantity,
      MaximumTradesPerDay, LossStreakLimit, LossCooldown} \subseteq Nat \ {0}
  /\ {CostPerPrice, FeePerPrice, Atr, StopMultiplier, RewardMultiple} \subseteq Nat
  /\ {SizingRisk, RiskPerTrade} \subseteq (Nat \ {0}) \X (Nat \ {0})

Part(x, fraction) == (x * fraction[1]) \div fraction[2]
Reaches(x, whole, fraction) == x * fraction[2] >= whole * fraction[1]
Exceeds(x, whole, fraction) == x * fraction[2] > whole * fraction[1]
WholeLots(q) == (q \div LotSize) * LotSize
Apart(a, b) == IF a > b THEN a - b ELSE b - a

\* process(): both fills' slippage and fees, twice over, and two ticks.
CostAllowance(mark) == mark * CostPerPrice * 4 + 2 * Scale
PerUnitLoss(entry, stop, cost) == Apart(entry, stop) * Scale + cost

----------------------------------------------------------------------------
(* calculate_plan(): the set of the plan, or of none.                      *)

\* The stop is rounded away from the entry.
StopOf(long, entry) ==
  IF long THEN (entry * AtrScale - Atr * StopMultiplier) \div AtrScale
  ELSE (entry * AtrScale + Atr * StopMultiplier + AtrScale - 1) \div AtrScale

TargetOf(long, entry, stop) ==
  IF long THEN entry + (entry - stop) * RewardMultiple ELSE entry - (stop - entry) * RewardMultiple

PlanFor(long, mark, equity, cash) ==
  LET stop == StopOf(long, mark)
      target == TargetOf(long, mark, stop)
      cost == CostAllowance(mark)
      loss == PerUnitLoss(mark, stop, cost)
      reward == Apart(target, mark) * Scale - cost
      quantity == WholeLots(Min({Part(equity, SizingRisk) \div loss,
                                 cash \div (mark * (Scale + FeePerPrice)), SizingQuantity}))
  IN  {plan \in {[long |-> long, entry |-> mark, stop |-> stop, target |-> target,
                  quantity |-> quantity]} :
         /\ equity > 0 /\ cash > 0
         /\ stop > 0 /\ target > 0
         /\ Reaches(reward, loss, MinimumRewardRisk)
         /\ quantity > 0}

----------------------------------------------------------------------------
(* DeterministicRiskPolicy.evaluate() over RiskEngine.evaluate().          *)

\* portfolio: equity, high watermark, realized of the day and the week, and the open
\* risk of each position; counters: orders of the day, consecutive losses, and when the
\* last one was.
Throttled(p) == Reaches(p.highWatermark - p.equity, p.highWatermark, DrawdownThrottle)

\* risk_per_trade, halved in a drawdown: the fraction of equity one trade may lose.
BaseRisk(p) == IF Throttled(p) THEN <<RiskPerTrade[1], RiskPerTrade[2] * 2>> ELSE RiskPerTrade
Budget(p) == Part(p.equity, BaseRisk(p))
OpenRisk(p) == MapThenSumSet(LAMBDA o : p.positions[o], DOMAIN p.positions)
Lost(result, p, limit) == Reaches(-result, p.equity, <<BaseRisk(p)[1] * limit, BaseRisk(p)[2]>>)

RiskQuantity(plan, p, cost) == WholeLots(Budget(p) \div PerUnitLoss(plan.entry, plan.stop, cost))

PortfolioAllows(plan, p, cost) ==
  LET loss == PerUnitLoss(plan.entry, plan.stop, cost) * RiskQuantity(plan, p, cost) IN
  /\ p.equity > 0 /\ p.highWatermark > 0
  /\ Cardinality(DOMAIN p.positions) < MaximumPositions
  /\ ~Reaches(p.highWatermark - p.equity, p.highWatermark, DrawdownHalt)
  /\ ~Lost(p.daily, p, DailyLossR) /\ ~Lost(p.weekly, p, WeeklyLossR)
  /\ ~Exceeds(OpenRisk(p) + loss, p.equity, MaximumOpenRisk)
  /\ ~Exceeds(OpenRisk(p) + loss, p.equity, MaximumCorrelatedRisk)

PaceAllows(counters, at) ==
  /\ counters.trades < MaximumTradesPerDay
  /\ counters.losses >= LossStreakLimit => at - counters.lastLoss >= LossCooldown

\* The quantity approved, capped at the plan's, or 0.
ApprovedQuantity(plan, p, counters, at, timeOfDay, closes) ==
  LET cost == CostAllowance(plan.entry)
      quantity == WholeLots(Min({RiskQuantity(plan, p, cost), MaximumQuantity, plan.quantity}))
      loss == PerUnitLoss(plan.entry, plan.stop, cost) * quantity
  IN  IF /\ 0 <= timeOfDay /\ timeOfDay < closes - NoEntryBeforeClose
         /\ PaceAllows(counters, at)
         /\ PortfolioAllows(plan, p, cost)
         /\ ~Exceeds(loss, p.equity, MaximumTradeRisk)
      THEN quantity ELSE 0
=============================================================================
