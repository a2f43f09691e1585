---------------------------- MODULE OptionTrades ----------------------------
(***************************************************************************)
(* One session of the option desk in prices and money: the plans a scan    *)
(* selects, the analyst's choice among them, the entry on a later quote    *)
(* and spot, and the sales.  Prices are ticks, money is in units of 1 /    *)
(* Paise of a tick, times are minutes, shares are per mille.               *)
(***************************************************************************)
EXTENDS Integers, FiniteSetsExt

CONSTANTS
  Playbooks,    \* pattern, strategy, regime, stop, target, reward, hold, costShare, by id
  Contracts,    \* kind, strike, lot, freeze, expiry, tradable and rank of its symbol
  StrikeCount,  \* 5
  Charts,       \* what analyse() may give
  Offers,       \* bid, ask and their sizes a quote may show
  Spots,        \* what the underlying may be at a later read
  Capital, LossPct, ProfitPct, ProfitCap,   \* the operator's limits, in per cent
  TradeStop, TradeTarget,
  Paise, FixedCost, BuyRate, SellRate,      \* of an order, and of the money it moves
  EntryLimit,
  BarMinutes,   \* 5
  PatternLife, AnalysisLife, PlanTerm, QuoteAge, SampleLife, ExitPause,
  LastMinuteOfSession   \* bound: the clock

ASSUME TradesAssumption ==
  /\ Capital \in Nat /\ Paise \in Nat /\ Paise % 1000 = 0
  /\ {FixedCost, BuyRate, SellRate} \subseteq Nat \ {0} /\ SellRate < Paise
  /\ {LossPct, TradeStop, TradeTarget} \subseteq Nat \ {0} /\ TradeStop < 1000
  /\ {PatternLife, AnalysisLife, PlanTerm, QuoteAge, ExitPause} \subseteq Nat
  /\ BarMinutes \in Nat \ {0}
  /\ PlanTerm < ExitPause   \* 120 s against 300 s
  /\ \A k \in Charts : \A p, q \in k.patterns : p.name = q.name => p = q
  /\ \A id \in DOMAIN Playbooks :
       /\ {Playbooks[id].stop, Playbooks[id].target} \subseteq Nat
       /\ Playbooks[id].reward \in (Nat \ {0}) \X (Nat \ {0})
  /\ \A c \in DOMAIN Contracts : {Contracts[c].lot, Contracts[c].freeze} \subseteq Nat
  /\ Offers \subseteq [bid : Nat, ask : Nat, bidSize : Nat, askSize : Nat]

VARIABLES
  clock,
  purse,     \* cash, realized_pnl, entries and last_exit of the session
  holding,   \* its position
  mind,      \* what the decision process holds: a selection, then a choice
  tally      \* ghosts: the exits, a sale under the stop, and what sizing leaves out

tradeVars == <<clock, purse, holding, mind, tally>>

Nothing == [symbol |-> "none"]
IdleMind == [step |-> "idle"]
NeverLeft == -1

TradesInit ==
  /\ clock = 0
  /\ purse = [cash |-> Capital, realized |-> 0, entries |-> 0, lastExit |-> NeverLeft]
  /\ holding = Nothing
  /\ mind = IdleMind
  /\ tally = [exits |-> 0, gapped |-> FALSE, slack |-> 0]

Least(m, n) == IF m < n THEN m ELSE n
Positive(x) == IF x > 0 THEN x ELSE 0
Away(m, n) == IF m > n THEN m - n ELSE n - m
RoundUp(a, b) == (a + b - 1) \div b
HalfEven(a, b) ==
  LET q == a \div b  r == 2 * (a % b)
  IN  IF r > b \/ (r = b /\ q % 2 = 1) THEN q + 1 ELSE q
Within(now, at, life) == now - at \in 0 .. life
Aged(at, life) == Within(clock, at, life)

----------------------------------------------------------------------------
(* options_risk.py: fills, fees, exits and sizes.                          *)

BuyFill(ask) == RoundUp(ask * 1001, 1000)
CappedFill(ask) == RoundUp(ask * 1005 * 1001, 1000000)
SellFill(bid) == (bid * 999) \div 1000

Worth(price, q) == price * q * Paise
BuyFees(price, q) == FixedCost + price * q * BuyRate
SellFees(price, q) == FixedCost + price * q * SellRate
Paid(fill, q) == Worth(fill, q) + BuyFees(fill, q)
Proceeds(fill, q) == Worth(fill, q) - SellFees(fill, q)

SessionLimitReached(pnl) ==
  pnl * 100 <= -(Capital * LossPct) \/ (ProfitCap /\ pnl * 100 >= Capital * ProfitPct)

\* exit_levels(): the stop, and the nearest target that pays the profile's reward on the
\* net risk; none where the costs take too much of it.
ExitLevels(profile, fill, q) ==
  LET stop == (fill * (1000 - Least(TradeStop, profile.stop))) \div 1000
      risk == Paid(fill, q) - Proceeds(stop, q)
      atLeast == RoundUp(fill * (1000 + Least(TradeTarget, profile.target)), 1000)
      paying == RoundUp((Paid(fill, q) + FixedCost) * profile.reward[2] + risk * profile.reward[1],
                        q * (Paise - SellRate) * profile.reward[2])
      target == Max({atLeast, paying})
      costs == BuyFees(fill, q) + SellFees(target, q)
  IN  {l \in {[stop |-> stop, target |-> target, risk |-> risk,
               reward |-> Proceeds(target, q) - Paid(fill, q)]} :
         l.risk > 0 /\ costs * 100 <= profile.costShare * Worth(target - fill, q)}

PerUnitPaid(fill) == fill * (Paise + BuyRate)
PerUnitRisk(fill) == fill * (TradeStop * (Paise \div 1000) + BuyRate + SellRate)
WholeLotsOf(units, contract) == (units \div contract.lot) * contract.lot

\* quantity_for(), money being the session's: a quarter of the capital, and a hundredth
\* of it or what is left of the day's loss at risk.
QuantityFor(money, contract, fill, offer) ==
  LET budget == Least(money.capital, Positive(money.capital * LossPct + 100 * money.realized))
  IN  WholeLotsOf(Min({Positive(Least(money.capital, 4 * money.cash) - 4 * FixedCost) \div (4 * PerUnitPaid(fill)),
                       Positive(budget - 200 * FixedCost) \div (100 * PerUnitRisk(fill)),
                       offer.askSize, offer.bidSize, contract.freeze - 1}), contract)

\* sizing_diagnostics(): what each constraint alone would allow, and the capital with
\* which one lot would fit.
Capacities(money, contract, fill, offer) ==
  [allocation |-> Positive(money.capital - 4 * FixedCost) \div (4 * PerUnitPaid(fill)),
   cash |-> Positive(money.cash - FixedCost) \div PerUnitPaid(fill),
   plannedRisk |-> Positive(money.capital - 200 * FixedCost) \div (100 * PerUnitRisk(fill)),
   dailyRisk |-> Positive(Positive(money.capital * LossPct + 100 * money.realized) - 200 * FixedCost)
                   \div (100 * PerUnitRisk(fill)),
   askDepth |-> offer.askSize, bidDepth |-> offer.bidSize, freezeLimit |-> contract.freeze - 1]

CapitalForALotOneFee(contract, fill) ==   \* mutant: the sale's fixed cost is left out
  LET atRisk == PerUnitRisk(fill) * contract.lot + FixedCost
  IN  Max({4 * (PerUnitPaid(fill) * contract.lot + FixedCost), 100 * atRisk,
           RoundUp(100 * atRisk, LossPct)})
CapitalForALot(contract, fill) ==
  LET atRisk == PerUnitRisk(fill) * contract.lot + 2 * FixedCost
  IN  Max({4 * (PerUnitPaid(fill) * contract.lot + FixedCost), 100 * atRisk,
           RoundUp(100 * atRisk, LossPct)})

Money == [capital |-> Capital, cash |-> purse.cash, realized |-> purse.realized]

----------------------------------------------------------------------------
(* options_market.py: contracts and quotes.                                *)

\* contracts_from_csv(): tradable, not expiring today (0), of the nearest expiry.
Listed ==
  LET eligible == {c \in DOMAIN Contracts : /\ Contracts[c].tradable /\ Contracts[c].expiry > 0
                                            /\ 0 < Contracts[c].lot
                                            /\ Contracts[c].lot < Contracts[c].freeze}
  IN  {c \in eligible : \A d \in eligible : Contracts[c].expiry <= Contracts[d].expiry}

\* snapshot(): the strikes nearest to the spot.
Strikes == {Contracts[c].strike : c \in Listed}
NearestStrikes(spot) ==
  {K \in SUBSET Strikes :
     /\ Cardinality(K) = Least(StrikeCount, Cardinality(Strikes))
     /\ \A k \in K, x \in Strikes \ K : Away(k, spot) <= Away(x, spot)}

\* executable_quote() and quote_quality_failures(), but for age.
SpreadOk(offer) ==
  /\ 0 < offer.bid /\ offer.bid <= offer.ask /\ (offer.ask - offer.bid) * 50 <= offer.ask
  /\ offer.bidSize > 0 /\ offer.askSize > 0
Deep(offer, c) == Least(offer.bidSize, offer.askSize) >= Contracts[c].lot

----------------------------------------------------------------------------
(* select_plans()                                                          *)

OwnTrend(pattern) == IF pattern.direction = "bullish" THEN "uptrend" ELSE "downtrend"

\* route_reasons(), of a chart read at the minute at with patterns of the minute madeAt.
Supports(chart, pattern, playbook) ==
  /\ chart.ready
  /\ CASE playbook.regime = "any" -> TRUE
       [] playbook.regime = "range" -> "range" \in {chart.regime5, chart.regime15}
       [] OTHER -> OwnTrend(pattern) \in {chart.regime5, chart.regime15}
  /\ playbook.strategy = "reversal" =>
       {chart.regime5, chart.regime15} \subseteq {"range", OwnTrend(pattern)}
  /\ chart.exhausted # pattern.direction

KindOf(pattern) == IF pattern.direction = "bullish" THEN "CE" ELSE "PE"
ChaseOf(chart, pattern) ==
  pattern.trigger + (IF pattern.direction = "bullish" THEN chart.atr \div 4 ELSE -(chart.atr \div 4))

InBounds(kind, spot, trigger, invalidation, chase) ==
  IF kind = "CE" THEN invalidation < trigger /\ trigger <= spot /\ spot <= chase
  ELSE chase <= spot /\ spot <= trigger /\ trigger < invalidation

\* Tighter spread first, then the nearer strike, then the symbol.
RanksBefore(c, d, offered, spot) ==
  LET spread(x, y) == (offered[x].ask - offered[x].bid) * offered[y].ask
      distance(x) == Away(Contracts[x].strike, spot)
  IN  \/ spread(c, d) < spread(d, c)
      \/ /\ spread(c, d) = spread(d, c)
         /\ \/ distance(c) < distance(d)
            \/ distance(c) = distance(d) /\ Contracts[c].rank <= Contracts[d].rank

UnexpiredAtOnce(plan) == plan.expires >= clock   \* mutant: it may end as it is made
Unexpired(plan) == plan.expires > clock

\* What a scan has read: a chart, when it and its patterns closed, and the quotes.
PlanFrom(scan, id, pattern, c) ==
  LET profile == Playbooks[id]
      offer == scan.offered[c]
      fill == BuyFill(offer.ask)
      q == QuantityFor(Money, Contracts[c], CappedFill(offer.ask), offer)
  IN  {p \in {[playbook |-> id, symbol |-> c, kind |-> KindOf(pattern), quantity |-> q,
               trigger |-> pattern.trigger, invalidation |-> pattern.invalidation,
               chase |-> ChaseOf(scan.chart, pattern),
               made |-> clock,
               expires |-> Min({scan.madeAt + PatternLife, scan.at + AnalysisLife, clock + PlanTerm}),
               limit |-> CappedFill(offer.ask), offer |-> offer, seen |-> Money]} :
         q > 0 /\ ExitLevels(profile, fill, q) # {} /\ Unexpired(p)}

PlansFor(scan, id) ==
  LET patterns == {p \in scan.chart.patterns :
                     /\ p.name = Playbooks[id].pattern
                     /\ Supports(scan.chart, p, Playbooks[id])
                     /\ Aged(scan.at, AnalysisLife) /\ Aged(scan.madeAt, PatternLife)
                     /\ InBounds(KindOf(p), scan.chart.spot, p.trigger, p.invalidation,
                                 ChaseOf(scan.chart, p))}
      usable(p) == {c \in scan.eligible : /\ Contracts[c].kind = KindOf(p)
                                         /\ SpreadOk(scan.offered[c]) /\ Deep(scan.offered[c], c)
                                         /\ PlanFrom(scan, id, p, c) # {}}
      first(p) == {c \in usable(p) : \A d \in usable(p) : RanksBefore(c, d, scan.offered, scan.chart.spot)}
  IN  UNION {UNION {PlanFrom(scan, id, p, c) : c \in first(p)} : p \in patterns}

SelectedPlans(scan) == UNION {PlansFor(scan, id) : id \in DOMAIN Playbooks}

\* The last five-minute candle closed by the minute at.
FiveMinuteClose(at) == (at \div BarMinutes) * BarMinutes

\* decide(): a scan and its selection; the analyst is asked where there is a plan, which
\* with a calendar that is not clear is evidence only.
ScanChart(chart, at, K, offered) ==
  LET scan == [chart |-> chart, at |-> at, madeAt |-> FiveMinuteClose(at), offered |-> offered,
               eligible |-> {c \in Listed : Contracts[c].strike \in K}]
  IN  /\ mind = IdleMind /\ SelectedPlans(scan) # {}
      /\ mind' = [step |-> "asked", plans |-> SelectedPlans(scan), spotAt |-> at,
                  spot |-> chart.spot]
      /\ UNCHANGED <<clock, purse, holding, tally>>

----------------------------------------------------------------------------
(* validate_plan() and _apply()                                            *)

\* What _apply() read before the lock: a quote, its stamp, the spot and its minute.
ValidatedAt(now, money, plan, read, spotAt) ==
  LET fill == BuyFill(read.offer.ask)
      c == Contracts[plan.symbol]
  IN  /\ plan.made <= now /\ now < plan.expires
      /\ Within(now, read.sampleAt, AnalysisLife) /\ read.sampleAt >= spotAt
      /\ InBounds(plan.kind, read.spot, plan.trigger, plan.invalidation, plan.chase)
      /\ Within(now, read.stamp, QuoteAge) /\ SpreadOk(read.offer)
      /\ fill <= plan.limit
      /\ plan.quantity <= QuantityFor(money, c, fill, read.offer)
      /\ \E l \in ExitLevels(Playbooks[plan.playbook], fill, plan.quantity) : l.reward > 0
Validated(plan, read, spotAt) == ValidatedAt(clock, Money, plan, read, spotAt)

MayEnterUnpaused(spotAt) ==   \* mutant: no cooldown after an exit
  /\ holding = Nothing /\ purse.entries < EntryLimit
  /\ Aged(spotAt, AnalysisLife) /\ ~SessionLimitReached(purse.realized)
MayEnter(spotAt) ==
  /\ holding = Nothing /\ purse.entries < EntryLimit
  /\ purse.lastExit # NeverLeft => clock - purse.lastExit >= ExitPause
  /\ Aged(spotAt, AnalysisLife) /\ ~SessionLimitReached(purse.realized)

\* The analyst names a plan; the process reads the spot and a quote of its contract.
Choose(plan, offer, stamp, spot, sampleAt) ==
  /\ mind.step = "asked" /\ plan \in mind.plans
  /\ Aged(sampleAt, SampleLife) /\ Aged(stamp, QuoteAge) /\ SpreadOk(offer)
  /\ mind' = [step |-> "read", plan |-> plan, spotAt |-> mind.spotAt,
              with |-> [offer |-> offer, stamp |-> stamp, spot |-> spot, sampleAt |-> sampleAt]]
  /\ UNCHANGED <<clock, purse, holding, tally>>

\* No trade, a refusal of any kind, an error or a kill.
Drop == mind # IdleMind /\ mind' = IdleMind /\ UNCHANGED <<clock, purse, holding, tally>>

EnterTrade ==
  /\ mind.step = "read"
  /\ MayEnter(mind.spotAt) /\ Validated(mind.plan, mind.with, mind.spotAt)
  /\ LET plan == mind.plan
         q == plan.quantity
         fill == BuyFill(mind.with.offer.ask)
         profile == Playbooks[plan.playbook]
     IN  \E levels \in ExitLevels(profile, fill, q) :
           /\ purse' = [purse EXCEPT !.cash = @ - Paid(fill, q), !.entries = @ + 1]
           /\ holding' = [symbol |-> plan.symbol, kind |-> plan.kind, quantity |-> q, left |-> q,
                          cost |-> Paid(fill, q), stop |-> levels.stop, target |-> levels.target,
                          risk |-> levels.risk, invalidation |-> plan.invalidation,
                          entered |-> clock, deadline |-> clock + profile.hold,
                          lastQuote |-> NeverLeft, pending |-> FALSE]
           /\ tally' = [tally EXCEPT !.slack = q * Paise]
  /\ mind' = IdleMind
  /\ UNCHANGED clock

----------------------------------------------------------------------------
(* _monitor() and _close()                                                 *)

\* underlying_exit(), of a sample that may be missing.
UnderlyingExit(position, now, spot, sampleAt) ==
  /\ Within(now, sampleAt, AnalysisLife) /\ sampleAt >= position.entered
  /\ IF position.kind = "CE" THEN spot <= position.invalidation ELSE spot >= position.invalidation
Invalidated(spot, sampleAt) == UnderlyingExit(holding, clock, spot, sampleAt)

Leaves(price, spot, sampleAt) ==
  \/ SessionLimitReached(purse.cash + Proceeds(price, holding.left) - Capital)
  \/ holding.pending
  \/ price <= holding.stop \/ price >= holding.target
  \/ Invalidated(spot, sampleAt)
  \/ clock >= holding.deadline

ShareWhole(q) == holding.cost * holding.left   \* mutant: a partial sale bears all that is left
\* entry_cost_remaining and its part sold, times the quantity bought.
Share(q) == holding.cost * q

\* Whole lots of what the bid displays, once per quote.
LotsBid(offer) == WholeLotsOf(Least(holding.left, offer.bidSize), Contracts[holding.symbol])
SellableAt(offer, stamp) ==
  /\ Aged(stamp, QuoteAge) /\ stamp # holding.lastQuote
  /\ LotsBid(offer) > 0 /\ SellFill(offer.bid) > 0

Sell(offer, stamp) ==
  LET q == LotsBid(offer)
      price == SellFill(offer.bid)
      realized == HalfEven(Proceeds(price, q) * holding.quantity - Share(q), holding.quantity)
  IN  /\ SellableAt(offer, stamp)
      /\ purse' = [purse EXCEPT !.cash = @ + Proceeds(price, q), !.realized = @ + realized,
                                !.lastExit = IF q = holding.left THEN clock ELSE @]
      /\ holding' = IF q = holding.left THEN Nothing
                    ELSE [holding EXCEPT !.left = @ - q, !.lastQuote = stamp, !.pending = TRUE]
      /\ tally' = [exits |-> tally.exits + 1, gapped |-> tally.gapped \/ price < holding.stop,
                   slack |-> tally.slack + IF q = holding.left THEN 1 ELSE FixedCost + 1]

\* told: the session is stopping.
MonitorPosition(offer, stamp, spot, sampleAt, told) ==
  /\ holding # Nothing
  /\ told \/ Leaves(SellFill(offer.bid), spot, sampleAt)
  /\ Sell(offer, stamp)
  /\ UNCHANGED <<clock, mind>>

Pass == clock < LastMinuteOfSession /\ clock' = clock + 1 /\ UNCHANGED <<purse, holding, mind, tally>>

TradesNext ==
  \/ \E chart \in Charts, at \in clock - SampleLife .. clock :
       /\ at >= 0
       /\ \E K \in NearestStrikes(chart.spot) :
            \E offered \in [{c \in Listed : Contracts[c].strike \in K} -> Offers] :
              ScanChart(chart, at, K, offered)
  \/ /\ mind.step = "asked"
     /\ \E plan \in mind.plans, offer \in Offers, stamp \in clock - QuoteAge .. clock,
           spot \in Spots, sampleAt \in clock - SampleLife .. clock :
          Choose(plan, offer, stamp, spot, sampleAt)
  \/ Drop \/ EnterTrade
  \/ \E offer \in Offers, stamp \in clock - QuoteAge .. clock, spot \in Spots,
        sampleAt \in clock - SampleLife .. clock, told \in BOOLEAN :
       MonitorPosition(offer, stamp, spot, sampleAt, told)
  \/ Pass

TradesSpec == TradesInit /\ [][TradesNext]_tradeVars

----------------------------------------------------------------------------
(* Properties.                                                             *)

\* A plan holds as it was made: at that instant, on the quote and spot it was made from,
\* the final check would let it in, though it sizes at a capped price and the check at
\* the quote's own (select_plans' "plan_valid_now").
PlansHoldAsMade ==
  mind.step = "asked" =>
    \A p \in mind.plans :
      p.made = clock /\ p.seen = Money =>
        Validated(p, [offer |-> p.offer, stamp |-> clock, spot |-> mind.spot,
                      sampleAt |-> mind.spotAt], mind.spotAt)

\* What a rejected size is explained with is true, of every contract and every quote that
\* select_plans() takes: the tightest constraint allows just what is bought, and the
\* capital named is the least with which a lot would fit.
FirmOffers == {offer \in Offers : SpreadOk(offer)}
CapitalIsLeast ==
  \A c \in Listed, offer \in FirmOffers :
    LET fill == CappedFill(offer.ask)
        contract == Contracts[c]
        needed == CapitalForALot(contract, fill)
        deep == [offer EXCEPT !.askSize = contract.lot, !.bidSize = contract.lot]
        with(capital) == QuantityFor([capital |-> capital, cash |-> capital, realized |-> 0],
                                     contract, fill, deep)
    IN  with(needed) = contract.lot /\ with(needed - 1) = 0

SizingExplained ==
  mind.step = "asked" =>
    /\ CapitalIsLeast
    /\ \A c \in Listed, offer \in FirmOffers :
         LET fill == CappedFill(offer.ask)
             all == Capacities(Money, Contracts[c], fill, offer)
         IN  QuantityFor(Money, Contracts[c], fill, offer)
               = WholeLotsOf(Min({all[k] : k \in DOMAIN all}), Contracts[c])

\* The plans put to the analyst are ones the desk can make, in the size it says they have.
PlansHold == PlansHoldAsMade /\ SizingExplained

\* An entry is made in the session its plan was made for: whatever was sold while the
\* analyst was asked, the cash and the results the plan was sized with are still those
\* it is bought with (a plan's life is shorter than the pause after an exit).
EntriesSeeTheirSession ==
  [][holding = Nothing /\ holding' # Nothing => mind.plan.seen = Money]_tradeVars

\* The day's loss stays within the limit, over any number of trades, as long as no sale
\* was under its stop; what the sizing leaves out is the stop's rounding to a tick and
\* the fixed cost of each further sale of one position.  A position's own risk is a
\* hundredth of the capital, with the same rounding; and sold out, cash and results
\* agree up to half a unit for each sale, however the position was sold in parts.
LossesBudgeted ==
  /\ holding # Nothing => 100 * (holding.risk - holding.quantity * Paise) <= Capital
  /\ holding = Nothing =>
       /\ tally.gapped \/ purse.realized + tally.slack >= -((Capital * LossPct) \div 100)
       /\ 2 * Away(purse.cash, Capital + purse.realized) <= tally.exits
=============================================================================
