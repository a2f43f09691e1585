----------------------------- MODULE TradesProofs -----------------------------
(***************************************************************************)
(* The option desk's trades and the replay of their evidence, for any      *)
(* contracts, charts, offers and limits: what a plan and a size promise,   *)
(* what is left of the day's loss, and what the recorded quotes and events *)
(* lead to.                                                                *)
(***************************************************************************)
EXTENDS ExitReplay, Sums, SequenceTheorems, NaturalsInduction, WellFoundedInduction

----------------------------------------------------------------------------
(* The option desk's session: what became of it since a plan was made.     *)

\* A plan is on the session as it is, or an exit since explains the difference; while
\* part of what was held is left, the exit is still to come.
Timely(p) ==
  /\ p.made \in Nat /\ p.made <= clock
  /\ p.expires \in Int /\ p.expires <= p.made + PlanTerm
  /\ \/ p.seen = Money
     \/ holding # Nothing
     \/ purse.lastExit # NeverLeft /\ purse.lastExit >= p.made

TradesInv ==
  /\ clock \in Nat /\ purse.lastExit \in Int
  /\ purse = [cash |-> purse.cash, realized |-> purse.realized, entries |-> purse.entries,
              lastExit |-> purse.lastExit]
  /\ holding # Nothing => holding = [x \in DOMAIN holding |-> holding[x]] /\ "left" \in DOMAIN holding
  /\ mind.step = "asked" => \A p \in mind.plans : Timely(p)
  /\ mind.step = "read" => Timely(mind.plan)

\* A plan ends within its life, and is on the session it was made on.
LEMMA PlanMade ==
  ASSUME NEW scan, scan.at \in Int, scan.madeAt \in Int, clock \in Nat,
         NEW p \in SelectedPlans(scan)
  PROVE  /\ p.made = clock /\ p.seen = Money
         /\ p.expires \in Int /\ p.expires <= clock + PlanTerm
<1>1. PICK id, pattern, c : p \in PlanFrom(scan, id, pattern, c)
  BY DEF SelectedPlans, PlansFor
<1>2. /\ p.made = clock /\ p.seen = Money
      /\ p.expires = Min({scan.madeAt + PatternLife, scan.at + AnalysisLife, clock + PlanTerm})
  BY <1>1 DEF PlanFrom
<1>3. /\ scan.madeAt + PatternLife \in Int /\ scan.at + AnalysisLife \in Int
      /\ clock + PlanTerm \in Int
  BY TradesAssumption
<1>4. PICK a, b, d : /\ a = scan.madeAt + PatternLife /\ b = scan.at + AnalysisLife
                     /\ d = clock + PlanTerm /\ a \in Int /\ b \in Int /\ d \in Int
  BY <1>3
<1>5. Min({a, b, d}) \in Int /\ Min({a, b, d}) <= d
  BY <1>4, LeastOfThree
<1>6. QED
  BY <1>2, <1>4, <1>5

LEMMA TradesStart == TradesInit => TradesInv
BY DEF TradesInit, TradesInv, NeverLeft, IdleMind

\* A step that leaves the session alone takes no plan from it.
LEMMA StillTimely ==
  ASSUME NEW p, Timely(p), clock \in Nat, clock' \in Nat, clock <= clock',
         UNCHANGED <<purse, holding>>
  PROVE  Timely(p)'
BY DEF Timely, Money

LEMMA ScanStep ==
  ASSUME TradesInv, NEW chart, NEW at \in Int, NEW K, NEW offered, ScanChart(chart, at, K, offered)
  PROVE  TradesInv'
<1>1. PICK scan : scan = [chart |-> chart, at |-> at, madeAt |-> FiveMinuteClose(at),
                          offered |-> offered,
                          eligible |-> {c \in Listed : Contracts[c].strike \in K}]
  OBVIOUS
<1>2. /\ mind' = [step |-> "asked", plans |-> SelectedPlans(scan), spotAt |-> at,
                  spot |-> chart.spot]
      /\ UNCHANGED <<clock, purse, holding>>
  BY <1>1 DEF ScanChart
<1>3. scan.at \in Int /\ scan.madeAt \in Int /\ clock \in Nat
  BY <1>1, TradesAssumption DEF FiveMinuteClose, TradesInv
<1>4. \A p \in SelectedPlans(scan) : Timely(p)
  BY <1>3, PlanMade DEF Timely
<1>5. mind'.step = "asked" /\ mind'.plans = SelectedPlans(scan)
  BY <1>2
<1>6. \A p \in mind'.plans : Timely(p)'
  BY <1>2, <1>3, <1>4, <1>5, StillTimely
<1>7. QED
  BY <1>2, <1>5, <1>6 DEF TradesInv

LEMMA ChooseStep ==
  ASSUME TradesInv, NEW plan, NEW offer, NEW stamp, NEW spot, NEW sampleAt,
         Choose(plan, offer, stamp, spot, sampleAt)
  PROVE  TradesInv'
<1>1. /\ mind.step = "asked" /\ plan \in mind.plans /\ UNCHANGED <<clock, purse, holding>>
      /\ mind'.step = "read" /\ mind'.plan = plan
  BY DEF Choose
<1>2. Timely(plan)'
  BY <1>1, StillTimely DEF TradesInv
<1>3. QED
  BY <1>1, <1>2 DEF TradesInv

LEMMA MonitorStep ==
  ASSUME TradesInv, NEW offer, NEW stamp, NEW spot, NEW sampleAt, NEW told,
         MonitorPosition(offer, stamp, spot, sampleAt, told)
  PROVE  TradesInv'
<1>1. /\ holding # Nothing /\ Sell(offer, stamp) /\ UNCHANGED <<clock, mind>>
  BY DEF MonitorPosition
<1>2. PICK paid, gained, left :
        /\ purse' = [purse EXCEPT !.cash = @ + paid, !.realized = @ + gained, !.lastExit = left]
        /\ \/ holding' = Nothing /\ left = clock
           \/ /\ \E q : holding' = [holding EXCEPT !.left = @ - q, !.lastQuote = stamp, !.pending = TRUE]
              /\ left = purse.lastExit
  BY <1>1 DEF Sell
<1>3. PICK cash, realized : purse' = [cash |-> cash, realized |-> realized,
                                      entries |-> purse.entries, lastExit |-> left]
  BY <1>2 DEF TradesInv
<1>4. purse'.lastExit = left /\ left \in Int
  <2>1. left \in {clock, purse.lastExit}
    BY <1>2
  <2>2. clock \in Int /\ purse.lastExit \in Int
    BY DEF TradesInv
  <2>3. QED
    BY ONLY <1>3, <2>1, <2>2
<1>5. /\ purse' = [cash |-> purse'.cash, realized |-> purse'.realized,
                   entries |-> purse'.entries, lastExit |-> purse'.lastExit]
  BY <1>3
<1>6. \/ holding' = Nothing /\ left = clock
      \/ /\ holding' # Nothing /\ "left" \in DOMAIN holding'
         /\ holding' = [x \in DOMAIN holding' |-> holding'[x]]
  <2>1. ASSUME NEW q, holding' = [holding EXCEPT !.left = @ - q, !.lastQuote = stamp, !.pending = TRUE]
        PROVE  DOMAIN holding' = DOMAIN holding /\ holding' = [x \in DOMAIN holding' |-> holding'[x]]
    BY <2>1
  <2>2. "left" \in DOMAIN holding /\ "left" \notin DOMAIN Nothing
    BY <1>1 DEF TradesInv, Nothing
  <2>3. QED
    BY <1>2, <2>1, <2>2
<1>7. ASSUME NEW p, Timely(p) PROVE Timely(p)'
  BY <1>1, <1>4, <1>6, <1>7 DEF Timely, TradesInv, NeverLeft
<1>8. QED
  BY <1>1, <1>4, <1>5, <1>6, <1>7 DEF TradesInv

LEMMA EnterStep ==
  ASSUME TradesInv, EnterTrade
  PROVE  TradesInv' /\ mind.plan.seen = Money
<1>1. /\ mind.step = "read" /\ MayEnter(mind.spotAt) /\ UNCHANGED clock
      /\ mind.plan.made <= clock /\ clock < mind.plan.expires
      /\ mind' = IdleMind
  BY DEF EnterTrade, Validated, ValidatedAt
<1>2. Timely(mind.plan) /\ clock \in Nat /\ purse.lastExit \in Int
  BY <1>1 DEF TradesInv
<1>3. mind.plan.seen = Money
  BY <1>1, <1>2, TradesAssumption DEF Timely, MayEnter
<1>4. PICK paid : purse' = [purse EXCEPT !.cash = @ - paid, !.entries = @ + 1]
  BY DEF EnterTrade
<1>5. PICK cash, entries : purse' = [cash |-> cash, realized |-> purse.realized,
                                     entries |-> entries, lastExit |-> purse.lastExit]
  BY <1>4 DEF TradesInv
<1>6. /\ purse'.lastExit \in Int
      /\ purse' = [cash |-> purse'.cash, realized |-> purse'.realized,
                   entries |-> purse'.entries, lastExit |-> purse'.lastExit]
  BY ONLY <1>2, <1>5
<1>7. /\ "left" \in DOMAIN holding' /\ holding' = [x \in DOMAIN holding' |-> holding'[x]]
  BY DEF EnterTrade
<1>8. QED
  BY <1>1, <1>2, <1>3, <1>6, <1>7 DEF TradesInv, IdleMind

LEMMA TradesStep ==
  TradesInv /\ [TradesNext]_tradeVars =>
    TradesInv' /\ (holding = Nothing /\ holding' # Nothing => mind.plan.seen = Money)
<1> SUFFICES ASSUME TradesInv, [TradesNext]_tradeVars
             PROVE  TradesInv' /\ (holding = Nothing /\ holding' # Nothing => mind.plan.seen = Money)
  OBVIOUS
<1>1. ASSUME NEW chart \in Charts, NEW at \in clock - SampleLife .. clock, at >= 0,
             NEW K, NEW offered, ScanChart(chart, at, K, offered)
      PROVE  TradesInv' /\ UNCHANGED holding
  <2>1. at \in Int
    OBVIOUS
  <2>2. QED
    BY <1>1, <2>1, ScanStep DEF ScanChart
<1>2. ASSUME NEW plan, NEW offer, NEW stamp, NEW spot, NEW sampleAt,
             Choose(plan, offer, stamp, spot, sampleAt)
      PROVE  TradesInv' /\ UNCHANGED holding
  BY <1>2, ChooseStep DEF Choose
<1>3. CASE Drop
  BY <1>3 DEF Drop, TradesInv, IdleMind
<1>4. CASE EnterTrade
  BY <1>4, EnterStep
<1>5. ASSUME NEW offer, NEW stamp, NEW spot, NEW sampleAt, NEW told,
             MonitorPosition(offer, stamp, spot, sampleAt, told)
      PROVE  TradesInv' /\ holding # Nothing
  BY <1>5, MonitorStep DEF MonitorPosition
<1>6. CASE Pass
  <2>1. clock \in Nat /\ clock' \in Nat /\ clock <= clock' /\ UNCHANGED <<purse, holding, mind>>
    BY <1>6 DEF Pass, TradesInv
  <2>2. \A p : Timely(p) => Timely(p)'
    BY <2>1, StillTimely
  <2>3. QED
    BY <2>1, <2>2 DEF TradesInv
<1>7. CASE UNCHANGED tradeVars
  BY <1>7 DEF tradeVars, TradesInv, Timely, Money
<1>8. QED
  BY <1>1, <1>2, <1>3, <1>4, <1>5, <1>6, <1>7 DEF TradesNext

\* Whatever is sold while the analyst is asked, an entry is made with the cash and the
\* results its plan was sized with: a plan's life is shorter than the pause an exit
\* imposes (validate_plan, entry_permission's cooldown).
THEOREM EntriesSeeTheirPlan == TradesSpec => EntriesSeeTheirSession
<1>1. TradesInv /\ [TradesNext]_tradeVars =>
        [holding = Nothing /\ holding' # Nothing => mind.plan.seen = Money]_tradeVars
  BY TradesStep
<1>2. TradesInv /\ [TradesNext]_tradeVars => TradesInv'
  BY TradesStep
<1>3. QED
  BY <1>1, <1>2, TradesStart, PTL DEF TradesSpec, EntriesSeeTheirSession

----------------------------------------------------------------------------
(* Whole numbers: rounding, quotients, and the least of several.           *)

LEMMA ModParts ==
  ASSUME NEW a \in Int, NEW n \in Nat \ {0}
  PROVE  a \div n \in Int /\ a % n \in Nat /\ a % n < n /\ a = (a \div n) * n + (a % n)
OBVIOUS

\* Rounding to the nearest is off by half a unit at most.
LEMMA Halved ==
  ASSUME NEW a \in Int, NEW n \in Nat \ {0}
  PROVE  LET h == HalfEven(a, n) IN
         h \in Int /\ 2 * (h * n - a) <= n /\ 2 * (a - h * n) <= n
<1>1. PICK q, m : q = a \div n /\ m = a % n
  OBVIOUS
<1>2. q \in Int /\ m \in Nat /\ m < n /\ a = q * n + m
  BY <1>1, ModParts
<1>3. PICK h : h = HalfEven(a, n)
  OBVIOUS
<1>4. \/ h = q + 1 /\ n <= 2 * m
      \/ h = q /\ 2 * m <= n
  BY <1>1, <1>2, <1>3 DEF HalfEven
<1>5. q * n \in Int /\ (q + 1) * n = q * n + n
  BY <1>2
<1>6. QED
  BY ONLY <1>2, <1>3, <1>4, <1>5, n \in Nat \ {0}, a \in Int

\* What a divisor goes into so often.
LEMMA FitsInto ==
  ASSUME NEW x \in Int, NEW n \in Nat \ {0}, NEW q \in Nat \ {0}, q <= x \div n
  PROVE  q * n <= x
<1>1. PICK d : d = x \div n
  OBVIOUS
<1>2. d \in Int /\ d * n <= x /\ q <= d
  BY <1>1, DivWithin
<1>3. q * n <= d * n /\ q * n \in Int /\ d * n \in Int
  BY <1>2, TimesMonotone
<1>4. QED
  BY <1>2, <1>3

LEMMA LeastOfFive ==
  ASSUME NEW a \in Int, NEW b \in Int, NEW c \in Int, NEW d \in Int, NEW e \in Int
  PROVE  LET m == Min({a, b, c, d, e}) IN
         m \in {a, b, c, d, e} /\ m <= a /\ m <= b /\ m <= c /\ m <= d /\ m <= e
<1>1. \E m \in {a, b, c, d, e} : \A y \in {a, b, c, d, e} : m <= y
  BY SMT
<1>2. QED
  BY <1>1 DEF Min

LEMMA LotsOfWithin ==
  ASSUME NEW units \in Int, NEW contract, contract.lot \in Nat \ {0}
  PROVE  WholeLotsOf(units, contract) \in Int /\ WholeLotsOf(units, contract) <= units
<1>1. PICK n : n = contract.lot /\ n \in Nat \ {0}
  OBVIOUS
<1>2. units \div n \in Int /\ (units \div n) * n <= units
  BY <1>1, DivWithin
<1>3. QED
  BY <1>1, <1>2 DEF WholeLotsOf

\* The money units of a price: positive rates, and thousandths that are whole.
LEMMA Rates ==
  \E k \in Nat \ {0} : Paise = 1000 * k /\ Paise \div 1000 = k
<1>1. Paise \in Nat /\ Paise % 1000 = 0 /\ SellRate \in Nat \ {0} /\ SellRate < Paise
  BY TradesAssumption
<1>2. QED
  BY <1>1

LEMMA RiskOfUnit ==
  ASSUME NEW fill \in Nat \ {0} PROVE PerUnitRisk(fill) \in Nat \ {0} /\ PerUnitPaid(fill) \in Nat \ {0}
<1>1. PICK k \in Nat \ {0} : Paise = 1000 * k /\ Paise \div 1000 = k
  BY Rates
<1>2. /\ BuyRate \in Nat \ {0} /\ SellRate \in Nat \ {0} /\ TradeStop \in Nat \ {0}
  BY TradesAssumption
<1>3. PICK u, v : u = TradeStop * k + BuyRate + SellRate /\ v = Paise + BuyRate
  OBVIOUS
<1>4. u \in Nat \ {0} /\ v \in Nat \ {0}
  BY <1>1, <1>2, <1>3
<1>5. fill * u \in Nat \ {0} /\ fill * v \in Nat \ {0}
  BY <1>4
<1>6. QED
  BY <1>1, <1>3, <1>5 DEF PerUnitRisk, PerUnitPaid

LEMMA SizeTypes ==
  ASSUME NEW money, {money.capital, money.cash, money.realized} \subseteq Int,
         NEW fill \in Nat \ {0}, NEW offer, {offer.askSize, offer.bidSize} \subseteq Int,
         NEW contract, contract.lot \in Nat \ {0}, contract.freeze \in Int
  PROVE  LET budget == Least(money.capital, Positive(money.capital * LossPct + 100 * money.realized))
             a == Positive(Least(money.capital, 4 * money.cash) - 4 * FixedCost) \div (4 * PerUnitPaid(fill))
             b == Positive(budget - 200 * FixedCost) \div (100 * PerUnitRisk(fill))
         IN  /\ a \in Int /\ b \in Int /\ budget \in Int
             /\ QuantityFor(money, contract, fill, offer) \in Int
             /\ QuantityFor(money, contract, fill, offer) <= b
<1>1. PICK budget, a, b, e :
        /\ budget = Least(money.capital, Positive(money.capital * LossPct + 100 * money.realized))
        /\ a = Positive(Least(money.capital, 4 * money.cash) - 4 * FixedCost) \div (4 * PerUnitPaid(fill))
        /\ b = Positive(budget - 200 * FixedCost) \div (100 * PerUnitRisk(fill))
        /\ e = contract.freeze - 1
  OBVIOUS
<1>2. PICK r, p : r = 100 * PerUnitRisk(fill) /\ p = 4 * PerUnitPaid(fill) /\ r \in Nat \ {0} /\ p \in Nat \ {0}
  BY RiskOfUnit
<1>3. FixedCost \in Nat /\ LossPct \in Nat /\ e \in Int
  BY <1>1, TradesAssumption
<1>4. budget \in Int /\ Positive(budget - 200 * FixedCost) \in Int
  <2>1. money.capital * LossPct + 100 * money.realized \in Int
    BY <1>3
  <2>2. QED
    BY <1>1, <1>3, <2>1 DEF Least, Positive
<1>5. Positive(Least(money.capital, 4 * money.cash) - 4 * FixedCost) \in Int
  BY <1>3 DEF Least, Positive
<1>6. a \in Int /\ b \in Int
  BY <1>1, <1>2, <1>4, <1>5, DivWithin
<1>7. PICK m : m = Min({a, b, offer.askSize, offer.bidSize, e})
  OBVIOUS
<1>8. m \in Int /\ m <= b
  <2>1. PICK k, l : k = offer.askSize /\ l = offer.bidSize /\ k \in Int /\ l \in Int
    OBVIOUS
  <2>2. m \in {a, b, k, l, e} /\ m <= b
    BY <1>3, <1>6, <1>7, <2>1, LeastOfFive
  <2>3. QED
    BY ONLY <1>3, <1>6, <2>1, <2>2
<1>9. QuantityFor(money, contract, fill, offer) = WholeLotsOf(m, contract)
  BY <1>1, <1>7 DEF QuantityFor
<1>10. QED
  BY <1>1, <1>4, <1>6, <1>8, <1>9, LotsOfWithin

\* What the sizing allows may lose a hundredth of the capital, and what is left of the day's loss.
LEMMA SizeCosts ==
  ASSUME NEW money, {money.capital, money.cash, money.realized} \subseteq Int,
         NEW fill \in Nat \ {0}, NEW offer, {offer.askSize, offer.bidSize} \subseteq Int,
         NEW contract, contract.lot \in Nat \ {0}, contract.freeze \in Int,
         NEW q \in Nat \ {0}, q <= QuantityFor(money, contract, fill, offer)
  PROVE  /\ 100 * (q * PerUnitRisk(fill)) + 200 * FixedCost <= money.capital
         /\ 100 * (q * PerUnitRisk(fill)) + 200 * FixedCost
              <= money.capital * LossPct + 100 * money.realized
<1>1. PICK day, budget, x, u : /\ day = money.capital * LossPct + 100 * money.realized
                               /\ budget = Least(money.capital, Positive(day))
                               /\ x = Positive(budget - 200 * FixedCost)
                               /\ u = PerUnitRisk(fill)
  OBVIOUS
<1>2. FixedCost \in Nat \ {0} /\ day \in Int /\ u \in Nat \ {0}
  BY <1>1, TradesAssumption, RiskOfUnit
<1>3. budget \in Int /\ x \in Int
  BY <1>1, <1>2 DEF Least, Positive
<1>4. q <= x \div (100 * u)
  <2>1. /\ QuantityFor(money, contract, fill, offer) \in Int
        /\ QuantityFor(money, contract, fill, offer) <= x \div (100 * u)
        /\ x \div (100 * u) \in Int
    BY <1>1, SizeTypes
  <2>2. QED
    BY <2>1
<1>5. q * (100 * u) <= x
  <2>1. PICK n : n = 100 * u /\ n \in Nat \ {0}
    BY <1>2
  <2>2. QED
    BY <1>3, <1>4, <2>1, FitsInto
<1>6. q * (100 * u) = 100 * (q * u) /\ q * u \in Nat \ {0}
  BY <1>2
<1>7. 100 * (q * u) + 200 * FixedCost <= budget
  BY ONLY <1>1, <1>2, <1>3, <1>5, <1>6 DEF Positive
<1>8. QED
  BY ONLY <1>1, <1>2, <1>3, <1>6, <1>7, {money.capital, money.cash, money.realized} \subseteq Int
     DEF Least, Positive

----------------------------------------------------------------------------
(* The option desk's money: what is left of the day's loss, and what cash  *)
(* and results differ by.                                                  *)

DayLoss == (Capital * LossPct) \div 100
Room == purse.realized + tally.slack + DayLoss
Drift == purse.cash - Capital - purse.realized

\* A plan the desk could make: of a listed contract, in a quantity.
Made(plan) ==
  plan.quantity \in Nat \ {0} /\ plan.symbol \in Listed /\ plan.playbook \in DOMAIN Playbooks

\* A position: what its stop brings back, once, of what it cost is what it risks.
HeldOK(h) ==
  /\ h = [symbol |-> h.symbol, kind |-> h.kind, quantity |-> h.quantity, left |-> h.left,
          cost |-> h.cost, stop |-> h.stop, target |-> h.target, risk |-> h.risk,
          invalidation |-> h.invalidation, entered |-> h.entered, deadline |-> h.deadline,
          lastQuote |-> h.lastQuote, pending |-> h.pending]
  /\ h.symbol \in Listed /\ h.quantity \in Nat \ {0} /\ h.left \in Nat \ {0}
  /\ h.left <= h.quantity
  /\ h.cost \in Int /\ h.stop \in Nat /\ h.risk \in Int
  /\ h.risk = h.cost - h.stop * h.quantity * (Paise - SellRate) + FixedCost
  /\ 100 * (h.risk - h.quantity * Paise) <= Capital

\* Of a position the day keeps the room for the risk of what is left, and the fixed cost of
\* the sales there have been; cash has paid for what is left.
Covered(h) ==
  /\ tally.gapped \/ h.left * h.risk + (h.quantity - h.left) * FixedCost <= h.quantity * Room
  /\ 2 * (h.quantity * Drift + h.cost * h.left) <= h.quantity * tally.exits
  /\ -(2 * (h.quantity * Drift + h.cost * h.left)) <= h.quantity * tally.exits

Flat ==
  /\ tally.gapped \/ 0 <= Room
  /\ 2 * Drift <= tally.exits /\ -(2 * Drift) <= tally.exits

PurseOK ==
  /\ purse = [cash |-> purse.cash, realized |-> purse.realized, entries |-> purse.entries,
              lastExit |-> purse.lastExit]
  /\ purse.cash \in Int /\ purse.realized \in Int
TallyOK ==
  /\ tally = [exits |-> tally.exits, gapped |-> tally.gapped, slack |-> tally.slack]
  /\ tally.exits \in Nat /\ tally.gapped \in BOOLEAN /\ tally.slack \in Int
MindOK ==
  /\ mind.step = "asked" => \A plan \in mind.plans : Made(plan)
  /\ mind.step = "read" => Made(mind.plan) /\ mind.with.offer \in Offers

MoneyInv ==
  /\ PurseOK /\ TallyOK /\ MindOK
  /\ holding = Nothing => Flat
  /\ holding # Nothing => HeldOK(holding) /\ Covered(holding)

\* A stop a tick under what the operator's share allows loses that share, and a tick.
LEMMA UnitAtStop ==
  ASSUME NEW fill \in Nat \ {0}, NEW s \in Nat, s <= TradeStop,
         NEW stop \in Int, stop = (fill * (1000 - s)) \div 1000
  PROVE  /\ stop \in Nat
         /\ (fill - stop) * Paise + fill * BuyRate + stop * SellRate <= PerUnitRisk(fill) + Paise
<1>1. PICK k \in Nat \ {0} : Paise = 1000 * k /\ Paise \div 1000 = k
  BY Rates
<1>2. PICK T, B, S : /\ T = TradeStop /\ B = BuyRate /\ S = SellRate
                     /\ T \in Nat \ {0} /\ B \in Nat \ {0} /\ S \in Nat \ {0} /\ T < 1000
  BY TradesAssumption
<1>3. PICK x : x = fill * s /\ x \in Nat
  OBVIOUS
<1>4. fill * (1000 - s) = 1000 * fill - x
  BY <1>3
<1>5. stop * 1000 <= 1000 * fill - x /\ 1000 * fill - x < stop * 1000 + 1000
  BY <1>3, <1>4, DivWithin
<1>6. 0 <= 1000 * fill - x
  <2>1. s * fill <= 1000 * fill
    BY <1>2, TimesMonotone
  <2>2. QED
    BY <1>3, <2>1
<1>7. stop \in Nat /\ stop <= fill /\ 1000 * (fill - stop) <= x + 1000
  BY <1>3, <1>5, <1>6
<1>8. PICK y : y = fill * T /\ y \in Nat /\ x <= y
  <2>1. s * fill <= T * fill
    BY <1>2, TimesMonotone
  <2>2. QED
    BY <1>2, <1>3, <2>1
<1>9. (1000 * (fill - stop)) * k <= (y + 1000) * k
  BY <1>1, <1>3, <1>7, <1>8, TimesMonotone
<1>10. stop * S <= fill * S
  BY <1>2, <1>7, TimesMonotone
<1>11. (fill - stop) * Paise = (1000 * (fill - stop)) * k
  BY <1>1, <1>7
<1>12. (y + 1000) * k = fill * (T * k) + Paise
  BY <1>1, <1>2, <1>8
<1>13. PerUnitRisk(fill) = fill * (T * k) + fill * B + fill * S
  BY <1>1, <1>2 DEF PerUnitRisk
<1>14. /\ fill * (T * k) \in Int /\ fill * B \in Int /\ fill * S \in Int /\ stop * S \in Int
       /\ (fill - stop) * Paise \in Int /\ Paise \in Int
  BY <1>1, <1>2, <1>7
<1>15. QED
  BY <1>2, <1>7, <1>9, <1>10, <1>11, <1>12, <1>13, <1>14

\* What a quantity risks, down to its stop and with both fixed costs.
LEMMA RiskAtStop ==
  ASSUME NEW fill \in Nat \ {0}, NEW q \in Nat \ {0}, NEW s \in Nat, s <= TradeStop,
         NEW stop \in Int, stop = (fill * (1000 - s)) \div 1000
  PROVE  LET risk == Paid(fill, q) - Proceeds(stop, q) IN
         /\ stop \in Nat /\ Paid(fill, q) \in Int /\ risk \in Int
         /\ risk = Paid(fill, q) - stop * q * (Paise - SellRate) + FixedCost
         /\ risk - q * Paise <= q * PerUnitRisk(fill) + 2 * FixedCost
<1>1. PICK P, B, S, F : /\ P = Paise /\ B = BuyRate /\ S = SellRate /\ F = FixedCost
                        /\ P \in Nat /\ B \in Nat /\ S \in Nat /\ F \in Nat
  BY TradesAssumption
<1>2. PICK r : r = PerUnitRisk(fill) /\ r \in Nat
  BY RiskOfUnit
<1>3. PICK u : u = (fill - stop) * P + fill * B + stop * S /\ u \in Int
  BY <1>1
<1>4. stop \in Nat /\ u <= r + P
  BY <1>1, <1>2, <1>3, UnitAtStop
<1>5. u * q <= (r + P) * q
  BY <1>1, <1>2, <1>3, <1>4, TimesMonotone
<1>6. Paid(fill, q) = fill * q * P + (F + fill * q * B) /\ Paid(fill, q) \in Int
  BY <1>1 DEF Paid, Worth, BuyFees
<1>7. Proceeds(stop, q) = stop * q * P - (F + stop * q * S) /\ Proceeds(stop, q) \in Int
  BY <1>1 DEF Proceeds, Worth, SellFees
<1>8. stop * q * (P - S) = stop * q * P - stop * q * S
  BY <1>1
<1>9. Paid(fill, q) - Proceeds(stop, q) = u * q + 2 * F
  <2>1. u * q = fill * q * P - stop * q * P + fill * q * B + stop * q * S
    BY <1>1, <1>3
  <2>2. /\ fill * q * P \in Int /\ stop * q * P \in Int /\ fill * q * B \in Int
        /\ stop * q * S \in Int
    BY <1>1
  <2>3. QED
    BY ONLY <1>1, <1>6, <1>7, <2>1, <2>2
<1>10. (r + P) * q = q * r + q * P /\ q * r \in Int /\ q * P \in Int /\ u * q \in Int
  BY <1>1, <1>2, <1>3
<1>11. /\ stop * q * P \in Int /\ stop * q * S \in Int
  BY <1>1
<1>12. QED
  BY <1>1, <1>2, <1>4, <1>5, <1>6, <1>7, <1>8, <1>9, <1>10, <1>11

LEMMA ListedContract ==
  ASSUME NEW c \in Listed
  PROVE  c \in DOMAIN Contracts /\ Contracts[c].lot \in Nat \ {0} /\ Contracts[c].freeze \in Int
<1>1. c \in DOMAIN Contracts /\ 0 < Contracts[c].lot
  BY DEF Listed
<1>2. {Contracts[c].lot, Contracts[c].freeze} \subseteq Nat
  BY <1>1, TradesAssumption
<1>3. QED
  BY <1>1, <1>2

LEMMA OfferTyped ==
  ASSUME NEW o \in Offers, SpreadOk(o)
  PROVE  /\ {o.askSize, o.bidSize} \subseteq Int /\ o.ask \in Nat \ {0}
         /\ BuyFill(o.ask) \in Nat \ {0} /\ CappedFill(o.ask) \in Nat \ {0}
<1>1. PICK a : a = o.ask
  OBVIOUS
<1>2. a \in Nat \ {0} /\ {o.askSize, o.bidSize} \subseteq Int
  BY <1>1, TradesAssumption DEF SpreadOk
<1>3. BuyFill(a) \in Nat \ {0}
  BY <1>2 DEF BuyFill, RoundUp
<1>4. CappedFill(a) \in Nat \ {0}
  BY <1>2 DEF CappedFill, RoundUp
<1>5. QED
  BY <1>1, <1>2, <1>3, <1>4

LEMMA MoneyTyped ==
  ASSUME PurseOK PROVE {Money.capital, Money.cash, Money.realized} \subseteq Int
BY TradesAssumption DEF PurseOK, Money

\* A sale down to the stop takes no more of the day's room than the risk of what is sold,
\* and the fixed cost that the other sales of the position were not counted with.
LEMMA SaleRoom ==
  ASSUME NEW Q \in Nat \ {0}, NEW left \in Nat \ {0}, left <= Q, NEW q \in Nat \ {0}, q <= left,
         NEW cost \in Int, NEW w \in Int, NEW F \in Nat, NEW risk \in Int,
         risk = cost - w * Q + F,
         NEW a \in Int, w * q - F <= a,
         NEW h \in Int, 2 * ((a * Q - cost * q) - h * Q) <= Q,
         NEW room \in Int, left * risk + (Q - left) * F <= Q * room
  PROVE  /\ (left - q) * risk + (Q - (left - q)) * F <= Q * (room + h + F + 1)
         /\ q = left => 0 <= room + h + 1
<1>1. (w * q - F) * Q <= a * Q
  BY TimesMonotone
<1>2. PICK wqQ : wqQ = w * q * Q /\ wqQ \in Int
  OBVIOUS
<1>3. (w * q - F) * Q = wqQ - F * Q
  BY <1>2
<1>4. PICK rq, cq, Fq, FQ, aQ, hQ, rl, Fl, roomQ :
        /\ rq = risk * q /\ cq = cost * q /\ Fq = F * q /\ FQ = F * Q /\ aQ = a * Q /\ hQ = h * Q
        /\ rl = left * risk /\ Fl = F * left /\ roomQ = Q * room
        /\ rq \in Int /\ cq \in Int /\ Fq \in Int /\ FQ \in Int /\ aQ \in Int /\ hQ \in Int
        /\ rl \in Int /\ Fl \in Int /\ roomQ \in Int
  OBVIOUS
<1>5. rq = cq - wqQ + Fq
  BY <1>2, <1>4
<1>6. 2 * (aQ - cq - hQ) <= Q
  BY <1>4
<1>7. (Q - left) * F = FQ - Fl
  BY <1>4
<1>8. rl + FQ - Fl <= roomQ
  BY <1>4, <1>7
<1>9. (left - q) * risk = rl - rq /\ (Q - (left - q)) * F = FQ - Fl + Fq
  BY <1>4
<1>10. /\ Q * (room + h + F + 1) = roomQ + hQ + FQ + Q
       /\ Q * (room + h + 1) = roomQ + hQ + Q
  BY <1>4
<1>11. wqQ - FQ <= aQ
  BY <1>1, <1>3, <1>4
<1>12. rl - rq + FQ - Fl + Fq <= roomQ + hQ + FQ + Q
  BY ONLY <1>2, <1>4, <1>5, <1>6, <1>8, <1>11, Q \in Nat \ {0}
<1>13. ASSUME q = left PROVE 0 <= room + h + 1
  <2>1. rl = rq /\ Fl = Fq
    BY <1>4, <1>13
  <2>2. 0 <= roomQ + hQ + Q
    BY ONLY <1>2, <1>4, <1>5, <1>6, <1>8, <1>11, <2>1, Q \in Nat \ {0}
  <2>3. 0 <= Q * (room + h + 1)
    BY <1>10, <2>2
  <2>4. SUFFICES ASSUME room + h + 1 <= -1 PROVE FALSE
    OBVIOUS
  <2>5. (room + h + 1) * Q <= (-1) * Q
    BY <2>4, TimesMonotone
  <2>6. QED
    BY <2>3, <2>5
<1>14. QED
  BY <1>4, <1>9, <1>10, <1>12, <1>13

\* A sale moves cash and results apart by half a unit, whatever part of the cost it bears.
LEMMA SaleDrift ==
  ASSUME NEW Q \in Nat \ {0}, NEW left \in Nat \ {0}, NEW q \in Nat \ {0}, q <= left,
         NEW cost \in Int, NEW a \in Int, NEW h \in Int,
         2 * ((a * Q - cost * q) - h * Q) <= Q, 2 * (h * Q - (a * Q - cost * q)) <= Q,
         NEW drift \in Int, NEW exits \in Nat,
         2 * (Q * drift + cost * left) <= Q * exits,
         -(2 * (Q * drift + cost * left)) <= Q * exits
  PROVE  /\ 2 * (Q * (drift + a - h) + cost * (left - q)) <= Q * (exits + 1)
         /\ -(2 * (Q * (drift + a - h) + cost * (left - q))) <= Q * (exits + 1)
         /\ q = left => 2 * (drift + a - h) <= exits + 1 /\ -(2 * (drift + a - h)) <= exits + 1
<1>1. PICK d, cl, cq, aQ, hQ, eQ :
        /\ d = Q * drift /\ cl = cost * left /\ cq = cost * q /\ aQ = a * Q /\ hQ = h * Q
        /\ eQ = Q * exits
        /\ d \in Int /\ cl \in Int /\ cq \in Int /\ aQ \in Int /\ hQ \in Int /\ eQ \in Int
  OBVIOUS
<1>2. /\ Q * (drift + a - h) = d + aQ - hQ /\ cost * (left - q) = cl - cq
      /\ Q * (exits + 1) = eQ + Q
  BY <1>1
<1>3. /\ 2 * (aQ - cq - hQ) <= Q /\ 2 * (hQ - (aQ - cq)) <= Q
      /\ 2 * (d + cl) <= eQ /\ -(2 * (d + cl)) <= eQ
  BY <1>1
<1>4. /\ 2 * (d + aQ - hQ + cl - cq) <= eQ + Q /\ -(2 * (d + aQ - hQ + cl - cq)) <= eQ + Q
  BY ONLY <1>1, <1>3, Q \in Nat
<1>5. ASSUME q = left
      PROVE  2 * (drift + a - h) <= exits + 1 /\ -(2 * (drift + a - h)) <= exits + 1
  <2>1. PICK x : x = drift + a - h /\ x \in Int
    OBVIOUS
  <2>2. 2 * (Q * x) <= Q * (exits + 1) /\ -(2 * (Q * x)) <= Q * (exits + 1)
    BY <1>1, <1>2, <1>4, <1>5, <2>1
  <2>3. 2 * x <= exits + 1
    <3> SUFFICES ASSUME exits + 2 <= 2 * x PROVE FALSE
      BY <2>1
    <3>1. (exits + 2) * Q <= (2 * x) * Q
      BY <2>1, TimesMonotone
    <3>2. QED
      BY <2>1, <2>2, <3>1
  <2>4. -(2 * x) <= exits + 1
    <3> SUFFICES ASSUME exits + 2 <= -(2 * x) PROVE FALSE
      BY <2>1
    <3>1. (exits + 2) * Q <= (-(2 * x)) * Q
      BY <2>1, TimesMonotone
    <3>2. QED
      BY <2>1, <2>2, <3>1
  <2>5. QED
    BY <2>1, <2>3, <2>4
<1>6. QED
  BY <1>1, <1>2, <1>4, <1>5

LEMMA MoneyStart == TradesInit => MoneyInv
<1> SUFFICES ASSUME TradesInit PROVE MoneyInv
  OBVIOUS
<1>1. Capital \in Nat /\ LossPct \in Nat /\ Capital * LossPct \in Nat
  BY TradesAssumption
<1>2. DayLoss \in Nat
  BY <1>1 DEF DayLoss
<1>3. /\ purse = [cash |-> Capital, realized |-> 0, entries |-> 0, lastExit |-> -1]
      /\ tally = [exits |-> 0, gapped |-> FALSE, slack |-> 0]
      /\ holding = Nothing /\ mind.step = "idle"
  BY DEF TradesInit, NeverLeft, IdleMind
<1>4. PurseOK /\ TallyOK /\ MindOK
  BY <1>1, <1>3 DEF PurseOK, TallyOK, MindOK
<1>5. Room = DayLoss /\ Drift = 0
  BY <1>1, <1>2, <1>3 DEF Room, Drift
<1>6. QED
  BY <1>2, <1>3, <1>4, <1>5 DEF MoneyInv, Flat

\* A plan of a scan is one the desk could make, of a quote it was offered.
LEMMA PlanIsMade ==
  ASSUME PurseOK, NEW scan, scan.eligible \subseteq Listed,
         \A c \in scan.eligible : scan.offered[c] \in Offers,
         NEW p \in SelectedPlans(scan)
  PROVE  Made(p)
<1>1. PICK id, pattern, c :
        /\ id \in DOMAIN Playbooks /\ c \in scan.eligible
        /\ p \in PlanFrom(scan, id, pattern, c) /\ SpreadOk(scan.offered[c])
  <2>1. PICK id \in DOMAIN Playbooks : p \in PlansFor(scan, id)
    BY DEF SelectedPlans
  <2>2. PICK pattern : \E c \in scan.eligible : p \in PlanFrom(scan, id, pattern, c)
                                                  /\ SpreadOk(scan.offered[c])
    BY <2>1 DEF PlansFor
  <2>3. QED
    BY <2>1, <2>2
<1>2. PICK offer, q : offer = scan.offered[c]
                      /\ q = QuantityFor(Money, Contracts[c], CappedFill(offer.ask), offer)
  OBVIOUS
<1>3. p.playbook = id /\ p.symbol = c /\ p.quantity = q /\ q > 0
  BY <1>1, <1>2 DEF PlanFrom
<1>4. /\ offer \in Offers /\ SpreadOk(offer) /\ c \in Listed
  BY <1>1, <1>2
<1>5. q \in Int
  <2>1. PICK fill, contract : fill = CappedFill(offer.ask) /\ contract = Contracts[c]
    OBVIOUS
  <2>2. /\ fill \in Nat \ {0} /\ {offer.askSize, offer.bidSize} \subseteq Int
        /\ contract.lot \in Nat \ {0} /\ contract.freeze \in Int
    BY <1>4, <2>1, OfferTyped, ListedContract
  <2>3. QuantityFor(Money, contract, fill, offer) \in Int
    BY <2>2, MoneyTyped, SizeTypes
  <2>4. QED
    BY <1>2, <2>1, <2>3
<1>6. QED
  BY <1>1, <1>3, <1>4, <1>5 DEF Made

LEMMA ScanMoney ==
  ASSUME MoneyInv, NEW chart, NEW at, NEW K,
         NEW offered \in [{c \in Listed : Contracts[c].strike \in K} -> Offers],
         ScanChart(chart, at, K, offered)
  PROVE  MoneyInv'
<1>1. PICK scan : scan = [chart |-> chart, at |-> at, madeAt |-> FiveMinuteClose(at),
                          offered |-> offered,
                          eligible |-> {c \in Listed : Contracts[c].strike \in K}]
  OBVIOUS
<1>2. /\ mind'.step = "asked" /\ mind'.plans = SelectedPlans(scan)
      /\ UNCHANGED <<clock, purse, holding, tally>>
  BY <1>1 DEF ScanChart
<1>3. scan.eligible \subseteq Listed /\ \A c \in scan.eligible : scan.offered[c] \in Offers
  BY <1>1
<1>4. \A p \in SelectedPlans(scan) : Made(p)
  BY <1>3, PlanIsMade DEF MoneyInv
<1>5. MindOK'
  BY <1>2, <1>4 DEF MindOK, Made
<1>6. PurseOK' /\ TallyOK'
  BY <1>2 DEF MoneyInv, PurseOK, TallyOK
<1>7. QED
  BY <1>2, <1>5, <1>6 DEF MoneyInv, Flat, HeldOK, Covered, Room, Drift

LEMMA EnterMoney ==
  ASSUME MoneyInv, EnterTrade
  PROVE  MoneyInv'
<1>1. PICK plan, q, offer, fill, profile, contract :
        /\ plan = mind.plan /\ q = plan.quantity /\ offer = mind.with.offer
        /\ fill = BuyFill(offer.ask) /\ profile = Playbooks[plan.playbook]
        /\ contract = Contracts[plan.symbol]
  OBVIOUS
<1>2. /\ mind.step = "read" /\ holding = Nothing /\ UNCHANGED clock /\ mind' = IdleMind
      /\ SpreadOk(offer) /\ q <= QuantityFor(Money, contract, fill, offer)
  BY <1>1 DEF EnterTrade, MayEnter, Validated, ValidatedAt
<1>3. PICK levels \in ExitLevels(profile, fill, q) :
        /\ purse' = [purse EXCEPT !.cash = @ - Paid(fill, q), !.entries = @ + 1]
        /\ holding' = [symbol |-> plan.symbol, kind |-> plan.kind, quantity |-> q, left |-> q,
                       cost |-> Paid(fill, q), stop |-> levels.stop, target |-> levels.target,
                       risk |-> levels.risk, invalidation |-> plan.invalidation,
                       entered |-> clock, deadline |-> clock + profile.hold,
                       lastQuote |-> NeverLeft, pending |-> FALSE]
        /\ tally' = [tally EXCEPT !.slack = q * Paise]
  BY <1>1 DEF EnterTrade
<1>4. /\ q \in Nat \ {0} /\ plan.symbol \in Listed /\ plan.playbook \in DOMAIN Playbooks
      /\ offer \in Offers
  BY <1>1, <1>2 DEF MoneyInv, MindOK, Made
<1>5. /\ fill \in Nat \ {0} /\ {offer.askSize, offer.bidSize} \subseteq Int
      /\ contract.lot \in Nat \ {0} /\ contract.freeze \in Int
  BY <1>1, <1>2, <1>4, OfferTyped, ListedContract
<1>6. PICK s : s = Least(TradeStop, profile.stop) /\ s \in Nat /\ s <= TradeStop
  <2>1. TradeStop \in Nat /\ profile.stop \in Nat
    BY <1>1, <1>4, TradesAssumption
  <2>2. QED
    BY <2>1 DEF Least
<1>7. PICK stop, risk : /\ stop = (fill * (1000 - s)) \div 1000
                        /\ risk = Paid(fill, q) - Proceeds(stop, q)
                        /\ levels.stop = stop /\ levels.risk = risk /\ stop \in Int
  <2>1. PICK stop : stop = (fill * (1000 - s)) \div 1000 /\ stop \in Int
    BY <1>5, <1>6, DivWithin
  <2>2. levels.stop = stop /\ levels.risk = Paid(fill, q) - Proceeds(stop, q)
    BY <1>6, <2>1 DEF ExitLevels
  <2>3. QED
    BY <2>1, <2>2
<1>8. /\ stop \in Nat /\ Paid(fill, q) \in Int /\ risk \in Int
      /\ risk = Paid(fill, q) - stop * q * (Paise - SellRate) + FixedCost
      /\ risk - q * Paise <= q * PerUnitRisk(fill) + 2 * FixedCost
  <2>1. PICK x : x = Paid(fill, q) - Proceeds(stop, q)
    OBVIOUS
  <2>2. /\ stop \in Nat /\ Paid(fill, q) \in Int /\ x \in Int
        /\ x = Paid(fill, q) - stop * q * (Paise - SellRate) + FixedCost
        /\ x - q * Paise <= q * PerUnitRisk(fill) + 2 * FixedCost
    BY <1>4, <1>5, <1>6, <1>7, <2>1, RiskAtStop
  <2>3. risk = x
    BY <1>7, <2>1
  <2>4. QED
    BY ONLY <2>2, <2>3
<1>9. /\ 100 * (q * PerUnitRisk(fill)) + 200 * FixedCost <= Capital
      /\ 100 * (q * PerUnitRisk(fill)) + 200 * FixedCost
           <= Capital * LossPct + 100 * purse.realized
  <2>1. Money.capital = Capital /\ Money.realized = purse.realized
    BY DEF Money
  <2>2. {Money.capital, Money.cash, Money.realized} \subseteq Int
    BY MoneyTyped DEF MoneyInv
  <2>3. /\ 100 * (q * PerUnitRisk(fill)) + 200 * FixedCost <= Money.capital
        /\ 100 * (q * PerUnitRisk(fill)) + 200 * FixedCost
             <= Money.capital * LossPct + 100 * Money.realized
    BY <1>2, <1>4, <1>5, <2>2, SizeCosts
  <2>4. QED
    BY <2>1, <2>3
<1>10. PICK cost, cash, realized, exits, gapped :
         /\ cost = Paid(fill, q) /\ cash = purse.cash /\ realized = purse.realized
         /\ exits = tally.exits /\ gapped = tally.gapped
         /\ cost \in Int /\ cash \in Int /\ realized \in Int /\ exits \in Nat
         /\ gapped \in BOOLEAN
  BY <1>8 DEF MoneyInv, PurseOK, TallyOK
<1>11. PICK entries : purse' = [cash |-> cash - cost, realized |-> realized,
                                entries |-> entries, lastExit |-> purse.lastExit]
  BY <1>3, <1>10 DEF MoneyInv, PurseOK
<1>12. tally' = [exits |-> exits, gapped |-> gapped, slack |-> q * Paise]
  BY <1>3, <1>10 DEF MoneyInv, TallyOK
<1>13. FixedCost \in Nat /\ Paise \in Nat /\ Capital \in Nat /\ LossPct \in Nat
       /\ PerUnitRisk(fill) \in Nat
  BY <1>5, TradesAssumption, RiskOfUnit
<1>14. PICK r, e, f : /\ r = q * PerUnitRisk(fill) /\ e = q * Paise /\ f = FixedCost
                      /\ r \in Int /\ e \in Nat /\ f \in Nat
  BY <1>4, <1>13
<1>15. 100 * (risk - e) <= Capital /\ 100 * (risk - e) <= Capital * LossPct + 100 * realized
  BY <1>8, <1>9, <1>10, <1>13, <1>14
<1>16. PurseOK' /\ TallyOK' /\ MindOK'
  BY <1>2, <1>10, <1>11, <1>12, <1>14 DEF PurseOK, TallyOK, MindOK, IdleMind
<1>17. HeldOK(holding)'
  <2> DEFINE h == holding'
  <2>1. /\ h = [symbol |-> h.symbol, kind |-> h.kind, quantity |-> h.quantity, left |-> h.left,
               cost |-> h.cost, stop |-> h.stop, target |-> h.target, risk |-> h.risk,
               invalidation |-> h.invalidation, entered |-> h.entered, deadline |-> h.deadline,
               lastQuote |-> h.lastQuote, pending |-> h.pending]
        /\ h.symbol = plan.symbol /\ h.quantity = q /\ h.left = q /\ h.cost = Paid(fill, q)
        /\ h.stop = levels.stop /\ h.risk = levels.risk
    BY <1>3
  <2>2. h.stop = stop /\ h.risk = risk /\ q * Paise = e
    BY <1>7, <1>14, <2>1
  <2> HIDE DEF h
  <2>3. h.symbol \in Listed /\ h.quantity \in Nat \ {0} /\ h.left \in Nat \ {0} /\ h.left <= h.quantity
    BY <1>4, <2>1
  <2>4. h.cost \in Int /\ h.stop \in Nat /\ h.risk \in Int
    BY <1>8, <2>1, <2>2
  <2>5. h.risk = h.cost - h.stop * h.quantity * (Paise - SellRate) + FixedCost
    BY <1>8, <2>1, <2>2
  <2>6. 100 * (h.risk - h.quantity * Paise) <= Capital
    BY <1>15, <2>1, <2>2
  <2>7. HeldOK(h)
    BY <2>1, <2>3, <2>4, <2>5, <2>6 DEF HeldOK
  <2>8. QED
    BY <2>7 DEF HeldOK, h
<1>18. PICK day : day = DayLoss /\ day \in Int /\ risk <= realized + e + day
  <2>1. PICK x : x = Capital * LossPct /\ x \in Int
    BY <1>13
  <2>2. PICK day : day = x \div 100 /\ day \in Int /\ x < day * 100 + 100
    BY <2>1, DivWithin
  <2>3. QED
    BY <1>8, <1>10, <1>14, <1>15, <2>1, <2>2 DEF DayLoss
<1>19. Room' = realized + e + day /\ Drift' = cash - cost - Capital - realized
       /\ Drift = cash - Capital - realized
  BY <1>10, <1>11, <1>12, <1>14, <1>18 DEF Room, Drift, DayLoss
<1>20. holding'.quantity = q /\ holding'.left = q /\ holding'.cost = cost
       /\ holding'.risk = risk /\ tally'.exits = exits
  BY <1>3, <1>7, <1>10, <1>12
<1>21. q * risk + (q - q) * FixedCost <= q * Room'
  <2>1. risk * q <= (realized + e + day) * q
    BY <1>4, <1>8, <1>10, <1>14, <1>18, TimesMonotone
  <2>2. QED
    BY <1>4, <1>8, <1>10, <1>13, <1>14, <1>18, <1>19, <2>1
<1>22. /\ 2 * (q * Drift' + cost * q) <= q * exits
       /\ -(2 * (q * Drift' + cost * q)) <= q * exits
  <2>1. 2 * Drift <= exits /\ -(2 * Drift) <= exits /\ Drift \in Int
    BY <1>2, <1>10, <1>13, <1>19 DEF MoneyInv, Flat
  <2>2. (2 * Drift) * q <= exits * q /\ (-(2 * Drift)) * q <= exits * q
    BY <1>4, <1>10, <2>1, TimesMonotone
  <2>3. PICK d : d = Drift /\ d \in Int
    BY <2>1
  <2>4. Drift' = d - cost
    BY <1>10, <1>13, <1>19, <2>3
  <2>5. q * (d - cost) + cost * q = d * q /\ d * q \in Int
    BY <1>4, <1>10, <2>3
  <2>6. QED
    BY <1>4, <1>10, <2>2, <2>3, <2>4, <2>5
<1>23. Covered(holding)'
  BY <1>20, <1>21, <1>22 DEF Covered
<1>24. holding' # Nothing
  <2>1. "left" \in DOMAIN holding' /\ "left" \notin DOMAIN Nothing
    BY <1>3 DEF Nothing
  <2>2. QED
    BY <2>1
<1>25. QED
  BY <1>16, <1>17, <1>23, <1>24 DEF MoneyInv

\* What a sale brings at its stop or above, its fixed cost taken.
LEMMA SoldAbove ==
  ASSUME NEW price \in Nat, NEW q \in Nat \ {0}, NEW stop \in Nat
  PROVE  /\ Proceeds(price, q) \in Int
         /\ stop * (Paise - SellRate) \in Int
         /\ stop <= price => stop * (Paise - SellRate) * q - FixedCost <= Proceeds(price, q)
<1>1. PICK P, S, F, n : /\ P = Paise /\ S = SellRate /\ F = FixedCost /\ n = P - S
                        /\ P \in Nat /\ S \in Nat /\ F \in Nat /\ n \in Nat
  BY TradesAssumption
<1>2. Proceeds(price, q) = price * q * P - (F + price * q * S)
  BY <1>1 DEF Proceeds, Worth, SellFees
<1>3. price * q * P - (F + price * q * S) = price * (n * q) - F
  BY <1>1
<1>4. PICK m : m = n * q /\ m \in Nat
  BY <1>1
<1>5. stop <= price => stop * m <= price * m
  BY <1>4, TimesMonotone
<1>6. stop * n * q = stop * m
  BY <1>1, <1>4
<1>7. stop * n \in Int /\ stop * m \in Int /\ price * m \in Int
  BY <1>1, <1>4
<1>8. QED
  BY <1>1, <1>2, <1>3, <1>4, <1>5, <1>6, <1>7

LEMMA SellMoney ==
  ASSUME MoneyInv, NEW offer \in Offers, NEW stamp, NEW spot, NEW sampleAt, NEW told,
         MonitorPosition(offer, stamp, spot, sampleAt, told)
  PROVE  MoneyInv'
<1>1. PICK q, price, a, h :
        /\ q = LotsBid(offer) /\ price = SellFill(offer.bid) /\ a = Proceeds(price, q)
        /\ h = HalfEven(a * holding.quantity - Share(q), holding.quantity)
  OBVIOUS
<1>2. /\ holding # Nothing /\ q > 0 /\ price > 0 /\ UNCHANGED <<clock, mind>>
      /\ purse' = [purse EXCEPT !.cash = @ + a, !.realized = @ + h,
                                !.lastExit = IF q = holding.left THEN clock ELSE @]
      /\ holding' = IF q = holding.left THEN Nothing
                    ELSE [holding EXCEPT !.left = @ - q, !.lastQuote = stamp, !.pending = TRUE]
      /\ tally' = [exits |-> tally.exits + 1, gapped |-> tally.gapped \/ price < holding.stop,
                   slack |-> tally.slack + IF q = holding.left THEN 1 ELSE FixedCost + 1]
  BY <1>1 DEF MonitorPosition, Sell, SellableAt
<1>3. HeldOK(holding) /\ Covered(holding) /\ PurseOK /\ TallyOK /\ MindOK
  BY <1>2 DEF MoneyInv
<1>4. PICK Q, left, cost, stop, risk :
        /\ Q = holding.quantity /\ left = holding.left /\ cost = holding.cost
        /\ stop = holding.stop /\ risk = holding.risk
        /\ Q \in Nat \ {0} /\ left \in Nat \ {0} /\ left <= Q
        /\ cost \in Int /\ stop \in Nat /\ risk \in Int
        /\ risk = cost - stop * Q * (Paise - SellRate) + FixedCost
        /\ 100 * (risk - Q * Paise) <= Capital
  BY <1>3 DEF HeldOK
<1>5. PICK cash, realized, exits, gapped, slack :
        /\ cash = purse.cash /\ realized = purse.realized
        /\ exits = tally.exits /\ gapped = tally.gapped /\ slack = tally.slack
        /\ cash \in Int /\ realized \in Int /\ exits \in Nat /\ gapped \in BOOLEAN /\ slack \in Int
  BY <1>3 DEF PurseOK, TallyOK
<1>6. q \in Nat \ {0} /\ q <= left
  <2>1. PICK contract, units : /\ contract = Contracts[holding.symbol]
                               /\ units = Least(holding.left, offer.bidSize)
                               /\ contract.lot \in Nat \ {0}
    BY <1>3, ListedContract DEF HeldOK
  <2>2. offer.bidSize \in Int
    BY TradesAssumption
  <2>3. units \in Int /\ units <= left
    BY <1>4, <2>1, <2>2 DEF Least
  <2>4. q = WholeLotsOf(units, contract)
    BY <1>1, <2>1 DEF LotsBid
  <2>5. q \in Int /\ q <= units
    BY <2>1, <2>3, <2>4, LotsOfWithin
  <2>6. QED
    BY <1>2, <1>4, <2>3, <2>5
<1>7. price \in Nat
  <2>1. PICK b : b = offer.bid /\ b \in Nat
    BY TradesAssumption
  <2>2. (b * 999) \div 1000 \in Int
    BY <2>1
  <2>3. QED
    BY <1>1, <1>2, <2>1, <2>2 DEF SellFill
<1>8. PICK w : /\ w = stop * (Paise - SellRate) /\ w \in Int /\ a \in Int
               /\ stop <= price => w * q - FixedCost <= a
  BY <1>1, <1>4, <1>6, <1>7, SoldAbove
<1>9. /\ h \in Int
      /\ 2 * (h * Q - (a * Q - cost * q)) <= Q /\ 2 * ((a * Q - cost * q) - h * Q) <= Q
  <2>1. PICK x : x = a * Q - cost * q /\ x \in Int
    BY <1>4, <1>6, <1>8
  <2>2. h = HalfEven(x, Q)
    BY <1>1, <1>4, <2>1 DEF Share
  <2>3. h \in Int /\ 2 * (h * Q - x) <= Q /\ 2 * (x - h * Q) <= Q
    BY <1>4, <2>1, <2>2, Halved
  <2>4. QED
    BY <2>1, <2>3
<1>10. PICK F, P, C, day : /\ F = FixedCost /\ F \in Nat /\ P = Paise - SellRate /\ P \in Int
                           /\ C = Capital /\ C \in Nat /\ day = DayLoss /\ day \in Int
  <2>1. FixedCost \in Nat /\ Paise \in Nat /\ SellRate \in Nat /\ Capital \in Nat /\ LossPct \in Nat
    BY TradesAssumption
  <2>2. PICK x : x = Capital * LossPct /\ x \in Int
    BY <2>1
  <2>3. x \div 100 \in Int
    BY <2>2
  <2>4. QED
    BY <2>1, <2>2, <2>3 DEF DayLoss
<1>11. risk = cost - w * Q + F
  <2>1. stop * Q * P = stop * P * Q
    BY <1>4, <1>10
  <2>2. QED
    BY <1>4, <1>8, <1>10, <2>1
<1>12. PICK sold, lastExit : /\ purse' = [cash |-> cash + a, realized |-> realized + h,
                                          entries |-> sold, lastExit |-> lastExit]
  BY <1>2, <1>3, <1>5 DEF PurseOK
<1>13. PICK more : /\ more = IF q = left THEN 1 ELSE F + 1
                   /\ more \in Nat
                   /\ tally' = [exits |-> exits + 1, gapped |-> gapped \/ price < stop,
                                slack |-> slack + more]
  BY <1>2, <1>4, <1>5, <1>10
<1>14. PurseOK' /\ TallyOK' /\ MindOK'
  <2>1. PurseOK'
    BY <1>5, <1>8, <1>9, <1>12 DEF PurseOK
  <2>2. TallyOK'
    BY <1>5, <1>13 DEF TallyOK
  <2>3. MindOK'
    BY <1>2, <1>3 DEF MindOK, Made
  <2>4. QED
    BY <2>1, <2>2, <2>3
<1>15. PICK room, drift : /\ room = realized + slack + day /\ drift = cash - C - realized
                          /\ room \in Int /\ drift \in Int
                          /\ Room = room /\ Drift = drift
                          /\ Room' = room + h + more /\ Drift' = drift + a - h
  BY <1>5, <1>8, <1>9, <1>10, <1>12, <1>13 DEF Room, Drift, DayLoss
<1>16. /\ gapped \/ left * risk + (Q - left) * F <= Q * room
       /\ 2 * (Q * drift + cost * left) <= Q * exits
       /\ -(2 * (Q * drift + cost * left)) <= Q * exits
  BY <1>3, <1>4, <1>5, <1>10, <1>15 DEF Covered
<1>17. ASSUME ~gapped, stop <= price
       PROVE  /\ (left - q) * risk + (Q - (left - q)) * F <= Q * (room + h + F + 1)
              /\ q = left => 0 <= room + h + 1
  BY ZenonT(40), <1>4, <1>6, <1>8, <1>9, <1>10, <1>11, <1>15, <1>16, <1>17, SaleRoom
<1>18. /\ 2 * (Q * (drift + a - h) + cost * (left - q)) <= Q * (exits + 1)
       /\ -(2 * (Q * (drift + a - h) + cost * (left - q))) <= Q * (exits + 1)
       /\ q = left => 2 * (drift + a - h) <= exits + 1 /\ -(2 * (drift + a - h)) <= exits + 1
  BY ZenonT(40), <1>4, <1>5, <1>6, <1>8, <1>9, <1>15, <1>16, SaleDrift
<1>19. tally'.exits = exits + 1 /\ (tally'.gapped <=> gapped \/ price < stop)
  BY <1>13
<1>20. CASE q = left
  <2>1. holding' = Nothing /\ more = 1
    BY <1>2, <1>4, <1>13, <1>20
  <2>2. Flat'
    BY <1>4, <1>7, <1>15, <1>17, <1>18, <1>19, <1>20, <2>1 DEF Flat
  <2>3. QED
    BY <1>14, <2>1, <2>2 DEF MoneyInv
<1>21. CASE q # left
  <2>1. PICK k : k = left - q /\ k \in Nat \ {0} /\ k <= Q
    BY <1>4, <1>6, <1>21
  <2>2. /\ holding' = [holding EXCEPT !.left = left - q, !.lastQuote = stamp, !.pending = TRUE]
        /\ more = F + 1
    BY <1>2, <1>4, <1>13, <1>21
  <2>3. holding' = [symbol |-> holding.symbol, kind |-> holding.kind, quantity |-> Q, left |-> k,
                    cost |-> cost, stop |-> stop, target |-> holding.target, risk |-> risk,
                    invalidation |-> holding.invalidation, entered |-> holding.entered,
                    deadline |-> holding.deadline, lastQuote |-> stamp, pending |-> TRUE]
    BY <1>3, <1>4, <2>1, <2>2 DEF HeldOK
  <2>4. HeldOK(holding)'
    BY <1>3, <1>4, <2>1, <2>3 DEF HeldOK
  <2>5. Covered(holding)'
    <3>1. /\ holding'.quantity = Q /\ holding'.left = k /\ holding'.cost = cost
          /\ holding'.risk = risk
      BY <2>3
    <3>2. Room' = room + h + F + 1
      BY <1>9, <1>10, <1>15, <2>2
    <3>3. ASSUME ~gapped, stop <= price
          PROVE  k * risk + (Q - k) * F <= Q * Room'
      BY <1>17, <2>1, <3>2, <3>3
    <3>4. /\ 2 * (Q * Drift' + cost * k) <= Q * tally'.exits
          /\ -(2 * (Q * Drift' + cost * k)) <= Q * tally'.exits
      BY <1>15, <1>18, <1>19, <2>1
    <3>5. QED
      BY <1>4, <1>7, <1>10, <1>19, <3>1, <3>3, <3>4 DEF Covered
  <2>6. holding' # Nothing
    <3>1. "left" \in DOMAIN holding' /\ "left" \notin DOMAIN Nothing
      BY <2>3 DEF Nothing
    <3>2. QED
      BY <3>1
  <2>7. QED
    BY <1>14, <2>4, <2>5, <2>6 DEF MoneyInv
<1>22. QED
  BY <1>20, <1>21

LEMMA MoneyStep == MoneyInv /\ [TradesNext]_tradeVars => MoneyInv'
<1> SUFFICES ASSUME MoneyInv, [TradesNext]_tradeVars PROVE MoneyInv'
  OBVIOUS
<1>1. ASSUME NEW chart, NEW at, NEW K,
             NEW offered \in [{c \in Listed : Contracts[c].strike \in K} -> Offers],
             ScanChart(chart, at, K, offered)
      PROVE  MoneyInv'
  BY <1>1, ScanMoney
<1>2. ASSUME NEW plan, NEW offer \in Offers, NEW stamp, NEW spot, NEW sampleAt,
             Choose(plan, offer, stamp, spot, sampleAt)
      PROVE  MoneyInv'
  <2>1. /\ mind.step = "asked" /\ plan \in mind.plans /\ UNCHANGED <<clock, purse, holding, tally>>
        /\ mind'.step = "read" /\ mind'.plan = plan /\ mind'.with.offer = offer
    BY <1>2 DEF Choose
  <2>2. MindOK'
    BY <2>1 DEF MoneyInv, MindOK, Made
  <2>3. QED
    BY <2>1, <2>2 DEF MoneyInv, PurseOK, TallyOK, Flat, HeldOK, Covered, Room, Drift
<1>3. CASE Drop
  <2>1. mind'.step = "idle" /\ UNCHANGED <<clock, purse, holding, tally>>
    BY <1>3 DEF Drop, IdleMind
  <2>2. QED
    BY <2>1 DEF MoneyInv, PurseOK, TallyOK, MindOK, Flat, HeldOK, Covered, Room, Drift
<1>4. CASE EnterTrade
  BY <1>4, EnterMoney
<1>5. ASSUME NEW offer \in Offers, NEW stamp, NEW spot, NEW sampleAt, NEW told,
             MonitorPosition(offer, stamp, spot, sampleAt, told)
      PROVE  MoneyInv'
  BY <1>5, SellMoney
<1>6. CASE UNCHANGED <<purse, holding, mind, tally>>
  BY <1>6 DEF MoneyInv, PurseOK, TallyOK, MindOK, Made, Flat, HeldOK, Covered, Room, Drift
<1>7. QED
  BY <1>1, <1>2, <1>3, <1>4, <1>5, <1>6 DEF TradesNext, Pass, tradeVars

\* However many trades a day has and however each is sold in parts, its loss stays within
\* the limit unless a sale was under its stop; a position risks a hundredth of the capital,
\* and sold out, cash and results agree (quantity_for, exit_levels, _close).
THEOREM LossesAreBudgeted == TradesSpec => []LossesBudgeted
<1>1. MoneyInv => LossesBudgeted
  <2> SUFFICES ASSUME MoneyInv PROVE LossesBudgeted
    OBVIOUS
  <2>1. holding # Nothing => 100 * (holding.risk - holding.quantity * Paise) <= Capital
    BY DEF MoneyInv, HeldOK
  <2>2. ASSUME holding = Nothing
        PROVE  /\ tally.gapped \/ purse.realized + tally.slack >= -((Capital * LossPct) \div 100)
               /\ 2 * Away(purse.cash, Capital + purse.realized) <= tally.exits
    <3>1. Flat /\ PurseOK /\ TallyOK
      BY <2>2 DEF MoneyInv
    <3>2. PICK day : day = (Capital * LossPct) \div 100 /\ day \in Int
      <4>1. PICK x : x = Capital * LossPct /\ x \in Int
        BY TradesAssumption
      <4>2. x \div 100 \in Int
        BY <4>1
      <4>3. QED
        BY <4>1, <4>2
    <3>3. Capital \in Nat
      BY TradesAssumption
    <3>4. QED
      BY <3>1, <3>2, <3>3 DEF Flat, PurseOK, TallyOK, Room, Drift, DayLoss, Away
  <2>3. QED
    BY <2>1, <2>2 DEF LossesBudgeted
<1>2. QED
  BY <1>1, MoneyStart, MoneyStep, PTL DEF TradesSpec

----------------------------------------------------------------------------
(* The option desk's plans: whole division, and what it makes of a size.   *)

LEMMA NoneFits ==
  ASSUME NEW x \in Int, NEW n \in Nat \ {0}, NEW d \in Int, x < d * n
  PROVE  x \div n < d
<1>1. PICK e : e = x \div n /\ e \in Int /\ e * n <= x
  BY DivWithin
<1>2. SUFFICES ASSUME d <= e PROVE FALSE
  BY <1>1
<1>3. d * n <= e * n
  BY <1>1, <1>2, TimesMonotone
<1>4. QED
  BY <1>1, <1>3

\* The dearer unit is bought less often.
LEMMA DivAntitone ==
  ASSUME NEW x \in Nat, NEW m \in Nat \ {0}, NEW n \in Nat \ {0}, m <= n
  PROVE  x \div n <= x \div m
<1>1. PICK d : d = x \div n /\ d \in Nat /\ d * n <= x
  BY DivWithin, DivNat
<1>2. m * d <= n * d
  BY <1>1, TimesMonotone
<1>3. d * m <= x
  BY <1>1, <1>2
<1>4. QED
  BY <1>1, <1>3, FitsBelow

LEMMA DivCancels ==
  ASSUME NEW x \in Int, NEW n \in Nat \ {0}
  PROVE  (4 * x) \div (4 * n) = x \div n
<1>1. PICK d : d = x \div n /\ d \in Int /\ d * n <= x /\ x < d * n + n
  BY DivWithin
<1>2. PICK m : m = 4 * n /\ m \in Nat \ {0} /\ d * m = 4 * (d * n)
  BY <1>1
<1>3. d * m <= 4 * x /\ 4 * x < d * m + m
  BY <1>1, <1>2
<1>4. QED
  BY <1>1, <1>2, <1>3, DivIs

LEMMA LotsMonotone ==
  ASSUME NEW m \in Int, NEW n \in Int, m <= n, NEW contract, contract.lot \in Nat \ {0}
  PROVE  WholeLotsOf(m, contract) <= WholeLotsOf(n, contract)
<1>1. PICK l : l = contract.lot /\ l \in Nat \ {0}
  OBVIOUS
<1>2. PICK d, e : d = m \div l /\ e = n \div l /\ d \in Int /\ e \in Int /\ d <= e
  BY <1>1, DivWithin, DivMonotone
<1>3. d * l <= e * l
  BY <1>1, <1>2, TimesMonotone
<1>4. QED
  BY <1>1, <1>2, <1>3 DEF WholeLotsOf

LEMMA CappedAbove ==
  ASSUME NEW a \in Nat \ {0} PROVE BuyFill(a) <= CappedFill(a)
<1>1. PICK d : d = (a * 1001 + 1000 - 1) \div 1000 /\ d \in Int /\ d * 1000 <= a * 1001 + 999
  <2>1. PICK y : y = a * 1001 + 1000 - 1 /\ y \in Int
    OBVIOUS
  <2>2. y \div 1000 \in Int /\ (y \div 1000) * 1000 <= y
    BY <2>1, DivWithin
  <2>3. QED
    BY <2>1, <2>2
<1>2. PICK x : x = a * 1005 * 1001 + 1000000 - 1 /\ x \in Int /\ d * 1000000 <= x
  BY <1>1
<1>3. d <= x \div 1000000
  BY <1>1, <1>2, FitsBelow
<1>4. QED
  BY <1>1, <1>2, <1>3 DEF BuyFill, CappedFill, RoundUp

\* A higher fill is bought in no larger quantity.
LEMMA DearerIsLess ==
  ASSUME NEW money, {money.capital, money.cash, money.realized} \subseteq Int,
         NEW f \in Nat \ {0}, NEW g \in Nat \ {0}, f <= g,
         NEW offer, {offer.askSize, offer.bidSize} \subseteq Int,
         NEW contract, contract.lot \in Nat \ {0}, contract.freeze \in Int
  PROVE  QuantityFor(money, contract, g, offer) <= QuantityFor(money, contract, f, offer)
<1>1. PICK x, y, c, d, e :
        /\ x = Positive(Least(money.capital, 4 * money.cash) - 4 * FixedCost)
        /\ y = Positive(Least(money.capital, Positive(money.capital * LossPct + 100 * money.realized))
                          - 200 * FixedCost)
        /\ c = offer.askSize /\ d = offer.bidSize /\ e = contract.freeze - 1
        /\ c \in Int /\ d \in Int /\ e \in Int
  OBVIOUS
<1>2. x \in Nat /\ y \in Nat
  <2>1. FixedCost \in Nat /\ LossPct \in Nat /\ money.capital * LossPct \in Int
    BY TradesAssumption
  <2>2. QED
    BY <1>1, <2>1 DEF Positive, Least
<1>3. /\ PerUnitPaid(f) <= PerUnitPaid(g) /\ PerUnitRisk(f) <= PerUnitRisk(g)
      /\ {PerUnitPaid(f), PerUnitPaid(g), PerUnitRisk(f), PerUnitRisk(g)} \subseteq Nat \ {0}
  <2>1. PICK k \in Nat \ {0} : Paise = 1000 * k /\ Paise \div 1000 = k
    BY Rates
  <2>2. PICK u, v : /\ u = TradeStop * (Paise \div 1000) + BuyRate + SellRate /\ v = Paise + BuyRate
                    /\ u \in Nat /\ v \in Nat
    BY <2>1, TradesAssumption
  <2>3. f * u <= g * u /\ f * v <= g * v
    BY <2>2, TimesMonotone
  <2>4. QED
    BY <2>2, <2>3, RiskOfUnit DEF PerUnitPaid, PerUnitRisk
<1>4. PICK pf, pg, rf, rg :
        /\ pf = 4 * PerUnitPaid(f) /\ pg = 4 * PerUnitPaid(g)
        /\ rf = 100 * PerUnitRisk(f) /\ rg = 100 * PerUnitRisk(g)
        /\ pf \in Nat \ {0} /\ pg \in Nat \ {0} /\ rf \in Nat \ {0} /\ rg \in Nat \ {0}
        /\ pf <= pg /\ rf <= rg
  BY <1>3
<1>5. PICK af, ag, bf, bg :
        /\ af = x \div pf /\ ag = x \div pg /\ bf = y \div rf /\ bg = y \div rg
        /\ af \in Int /\ ag \in Int /\ bf \in Int /\ bg \in Int /\ ag <= af /\ bg <= bf
  <2>1. x \div pf \in Int /\ x \div pg \in Int /\ y \div rf \in Int /\ y \div rg \in Int
    BY <1>2, <1>4, DivNat
  <2>2. x \div pg <= x \div pf
    BY <1>2, <1>4, DivAntitone
  <2>3. y \div rg <= y \div rf
    BY <1>2, <1>4, DivAntitone
  <2>4. QED
    BY <2>1, <2>2, <2>3
<1>6. PICK m, n : m = Min({af, bf, c, d, e}) /\ n = Min({ag, bg, c, d, e})
  OBVIOUS
<1>7. m \in {af, bf, c, d, e} /\ n \in {ag, bg, c, d, e}
      /\ n <= ag /\ n <= bg /\ n <= c /\ n <= d /\ n <= e
  <2>1. /\ af \in Int /\ ag \in Int /\ bf \in Int /\ bg \in Int
        /\ c \in Int /\ d \in Int /\ e \in Int
    BY <1>1, <1>5
  <2>2. m \in {af, bf, c, d, e}
    BY ONLY <1>6, <2>1, LeastOfFive
  <2>3. n \in {ag, bg, c, d, e} /\ n <= ag /\ n <= bg /\ n <= c /\ n <= d /\ n <= e
    BY ONLY <1>6, <2>1, LeastOfFive
  <2>4. QED
    BY <2>2, <2>3
<1>8. m \in Int /\ n \in Int /\ n <= m
  BY ONLY <1>1, <1>5, <1>7
<1>9. /\ QuantityFor(money, contract, f, offer) = WholeLotsOf(m, contract)
      /\ QuantityFor(money, contract, g, offer) = WholeLotsOf(n, contract)
  BY <1>1, <1>4, <1>5, <1>6 DEF QuantityFor
<1>10. QED
  BY <1>8, <1>9, LotsMonotone

LEMMA MaxOfTwo ==
  ASSUME NEW a \in Int, NEW b \in Int
  PROVE  Max({a, b}) \in {a, b} /\ a <= Max({a, b}) /\ b <= Max({a, b})
<1>1. \E m \in {a, b} : \A y \in {a, b} : y <= m
  BY SMT
<1>2. QED
  BY <1>1 DEF Max

\* A target pays: at it a position is worth more than it cost, with both fixed costs.
LEMMA TargetPays ==
  ASSUME NEW profile, {profile.stop, profile.target} \subseteq Nat,
         profile.reward \in (Nat \ {0}) \X (Nat \ {0}),
         NEW fill \in Nat \ {0}, NEW q \in Nat \ {0}, NEW l \in ExitLevels(profile, fill, q)
  PROVE  l.reward > 0
<1>1. PICK s : s = Least(TradeStop, profile.stop) /\ s \in Nat /\ s <= TradeStop
  <2>1. TradeStop \in Nat
    BY TradesAssumption
  <2>2. QED
    BY <2>1 DEF Least
<1>2. PICK stop, paid, risk :
        /\ stop = (fill * (1000 - s)) \div 1000 /\ stop \in Int
        /\ paid = Paid(fill, q) /\ risk = paid - Proceeds(stop, q)
        /\ paid \in Int /\ risk \in Int
  <2>1. PICK stop : stop = (fill * (1000 - s)) \div 1000 /\ stop \in Int
    BY <1>1, DivWithin
  <2>2. PICK risk : risk = Paid(fill, q) - Proceeds(stop, q)
    OBVIOUS
  <2>3. Paid(fill, q) \in Int /\ Paid(fill, q) - Proceeds(stop, q) \in Int
    BY <1>1, <2>1, RiskAtStop
  <2>4. QED
    BY <2>1, <2>2, <2>3
<1>3. PICK r1, r2, F, m, n :
        /\ r1 = profile.reward[1] /\ r2 = profile.reward[2] /\ F = FixedCost
        /\ m = q * (Paise - SellRate) /\ n = m * r2
        /\ r1 \in Nat \ {0} /\ r2 \in Nat \ {0} /\ F \in Nat /\ m \in Nat \ {0} /\ n \in Nat \ {0}
  <2>1. PICK x : x = Paise - SellRate /\ x \in Nat \ {0} /\ FixedCost \in Nat
    BY TradesAssumption
  <2>2. PICK r1, r2 : /\ r1 = profile.reward[1] /\ r2 = profile.reward[2]
                      /\ r1 \in Nat \ {0} /\ r2 \in Nat \ {0}
    OBVIOUS
  <2>3. q * x \in Nat \ {0}
    BY <2>1
  <2>4. (q * x) * r2 \in Nat \ {0}
    BY <2>2, <2>3
  <2>5. QED
    BY <2>1, <2>2, <2>3, <2>4
<1>4. PICK atLeast, x :
        /\ atLeast = RoundUp(fill * (1000 + Least(TradeTarget, profile.target)), 1000)
        /\ x = (paid + F) * r2 + risk * r1
  OBVIOUS
<1> PICK paying : paying = RoundUp(x, n)
  OBVIOUS
<1> PICK target : target = Max({atLeast, paying})
  OBVIOUS
<1>5. l.reward = Proceeds(target, q) - paid /\ risk > 0
  BY <1>1, <1>2, <1>3, <1>4 DEF ExitLevels
<1>6. atLeast \in Int
  <2>1. PICK t : t = fill * (1000 + Least(TradeTarget, profile.target)) /\ t \in Int
    <3>1. Least(TradeTarget, profile.target) \in Int
      BY TradesAssumption DEF Least
    <3>2. QED
      BY <3>1
  <2>2. QED
    BY <1>4, <2>1 DEF RoundUp
<1>7. x \in Int
  BY <1>2, <1>3, <1>4
<1>8. paying \in Int /\ x <= paying * n
  <2>1. PICK y : y = x + n - 1 /\ y \in Int
    BY <1>3, <1>7
  <2>2. y \div n \in Int /\ y < (y \div n) * n + n
    BY <1>3, <2>1, DivWithin
  <2>3. paying = y \div n
    BY <1>4, <2>1 DEF RoundUp
  <2>4. PICK p : p = paying * n /\ p \in Int
    BY <1>3, <2>2, <2>3
  <2>5. QED
    BY <1>3, <1>7, <2>1, <2>2, <2>3, <2>4
<1>9. target \in Int /\ paying <= target
  <2>1. target \in {atLeast, paying} /\ paying <= target
    BY <1>6, <1>8, MaxOfTwo
  <2>2. QED
    BY <1>6, <1>8, <2>1
<1>10. x <= target * n
  <2>1. paying * n <= target * n
    BY <1>3, <1>8, <1>9, TimesMonotone
  <2>2. paying * n \in Int /\ target * n \in Int
    BY <1>3, <1>8, <1>9
  <2>3. QED
    BY <1>7, <1>8, <2>1, <2>2
<1>11. Proceeds(target, q) = target * m - F
  <2>1. PICK P, S : P = Paise /\ S = SellRate /\ P \in Nat /\ S \in Nat
    BY TradesAssumption
  <2>2. Proceeds(target, q) = target * q * P - (F + target * q * S)
    BY <1>3, <2>1 DEF Proceeds, Worth, SellFees
  <2>3. target * (q * (P - S)) = target * q * P - target * q * S
    BY <1>9, <2>1
  <2>4. target * q * P \in Int /\ target * q * S \in Int
    BY <1>9, <2>1
  <2>5. QED
    BY <1>3, <2>1, <2>2, <2>3, <2>4
<1>12. PICK gain : gain = target * m - F - paid /\ gain \in Int /\ l.reward = gain
  BY <1>2, <1>3, <1>5, <1>9, <1>11
<1>13. gain * r2 = target * n - (paid + F) * r2
  BY <1>2, <1>3, <1>9, <1>12
<1>14. risk * r1 > 0
  BY <1>2, <1>3, <1>5
<1>15. gain * r2 > 0
  <2>1. /\ target * n \in Int /\ (paid + F) * r2 \in Int /\ risk * r1 \in Int
    BY <1>2, <1>3, <1>9
  <2>2. QED
    BY <1>4, <1>10, <1>13, <1>14, <2>1
<1>16. gain > 0
  <2> SUFFICES ASSUME gain <= 0 PROVE FALSE
    BY <1>12
  <2>1. gain * r2 <= 0 * r2
    BY <1>3, <1>12, TimesMonotone
  <2>2. PICK z : z = gain * r2 /\ z \in Int /\ 0 * r2 = 0
    BY <1>3, <1>12
  <2>3. QED
    BY <1>15, <2>1, <2>2
<1>17. QED
  BY <1>12, <1>16

\* What a plan says of the scan it is from: its quote, its size on the session it saw, its
\* levels, and the chart it was in the bounds of.
AsMade(p, spot, at) ==
  /\ Made(p) /\ p.offer \in Offers /\ SpreadOk(p.offer)
  /\ p.limit = CappedFill(p.offer.ask)
  /\ p.quantity = QuantityFor(p.seen, Contracts[p.symbol], p.limit, p.offer)
  /\ ExitLevels(Playbooks[p.playbook], BuyFill(p.offer.ask), p.quantity) # {}
  /\ p.made \in Int /\ p.made < p.expires
  /\ at \in Int /\ at <= p.made /\ p.made - at <= AnalysisLife
  /\ InBounds(p.kind, spot, p.trigger, p.invalidation, p.chase)

PlansInv ==
  mind.step = "asked" => \A p \in mind.plans : AsMade(p, mind.spot, mind.spotAt)

LEMMA PlanAsMade ==
  ASSUME PurseOK, NEW scan, scan.eligible \subseteq Listed, scan.at \in Int, clock \in Nat,
         \A c \in scan.eligible : scan.offered[c] \in Offers,
         NEW p \in SelectedPlans(scan)
  PROVE  AsMade(p, scan.chart.spot, scan.at)
<1>1. PICK id : id \in DOMAIN Playbooks /\ p \in PlansFor(scan, id)
  BY DEF SelectedPlans
<1>2. PICK pattern, c :
        /\ c \in scan.eligible /\ p \in PlanFrom(scan, id, pattern, c)
        /\ SpreadOk(scan.offered[c]) /\ Aged(scan.at, AnalysisLife)
        /\ InBounds(KindOf(pattern), scan.chart.spot, pattern.trigger, pattern.invalidation,
                    ChaseOf(scan.chart, pattern))
  BY <1>1 DEF PlansFor
<1>3. /\ p.playbook = id /\ p.symbol = c /\ p.kind = KindOf(pattern)
      /\ p.trigger = pattern.trigger /\ p.invalidation = pattern.invalidation
      /\ p.chase = ChaseOf(scan.chart, pattern) /\ p.made = clock
      /\ p.offer = scan.offered[c] /\ p.seen = Money /\ p.limit = CappedFill(scan.offered[c].ask)
      /\ p.quantity = QuantityFor(Money, Contracts[c], CappedFill(scan.offered[c].ask),
                                  scan.offered[c])
      /\ ExitLevels(Playbooks[id], BuyFill(scan.offered[c].ask), p.quantity) # {}
      /\ Unexpired(p)
  BY <1>2 DEF PlanFrom
<1>4. Made(p)
  BY PlanIsMade
<1>5. scan.at <= clock /\ clock - scan.at <= AnalysisLife
  BY <1>2, TradesAssumption DEF Aged, Within
<1>6. p.offer \in Offers /\ SpreadOk(p.offer)
  BY <1>2, <1>3
<1>7. p.made \in Int /\ p.made < p.expires
  BY <1>3 DEF Unexpired
<1>8. QED
  BY <1>2, <1>3, <1>4, <1>5, <1>6, <1>7 DEF AsMade

LEMMA PlansStep == TradesInv /\ MoneyInv /\ PlansInv /\ [TradesNext]_tradeVars => PlansInv'
<1> SUFFICES ASSUME TradesInv, MoneyInv, PlansInv, [TradesNext]_tradeVars PROVE PlansInv'
  OBVIOUS
<1>1. ASSUME NEW chart, NEW at \in Int, NEW K,
             NEW offered \in [{c \in Listed : Contracts[c].strike \in K} -> Offers],
             ScanChart(chart, at, K, offered)
      PROVE  PlansInv'
  <2>1. PICK scan : scan = [chart |-> chart, at |-> at, madeAt |-> FiveMinuteClose(at),
                            offered |-> offered,
                            eligible |-> {c \in Listed : Contracts[c].strike \in K}]
    OBVIOUS
  <2>2. mind' = [step |-> "asked", plans |-> SelectedPlans(scan), spotAt |-> at, spot |-> chart.spot]
    BY <1>1, <2>1 DEF ScanChart
  <2>3. /\ scan.eligible \subseteq Listed /\ \A c \in scan.eligible : scan.offered[c] \in Offers
        /\ scan.at = at /\ scan.chart = chart
    BY <2>1
  <2>4. PurseOK /\ clock \in Nat
    BY DEF MoneyInv, TradesInv
  <2>5. \A p \in SelectedPlans(scan) : AsMade(p, chart.spot, at)
    BY <2>3, <2>4, PlanAsMade
  <2>6. /\ mind'.plans = SelectedPlans(scan) /\ mind'.spot = chart.spot /\ mind'.spotAt = at
    BY <2>2
  <2>7. QED
    BY <2>5, <2>6 DEF PlansInv, AsMade, Made
<1>2. CASE mind'.step # "asked"
  BY <1>2 DEF PlansInv
<1>3. CASE UNCHANGED mind
  BY <1>3 DEF PlansInv, AsMade, Made
<1>4. ASSUME NEW plan, NEW offer, NEW stamp, NEW spot, NEW sampleAt,
             Choose(plan, offer, stamp, spot, sampleAt)
      PROVE  mind'.step # "asked"
  BY <1>4 DEF Choose
<1>5. Drop \/ EnterTrade => mind'.step # "asked"
  BY DEF Drop, EnterTrade, IdleMind
<1>6. ASSUME NEW offer, NEW stamp, NEW spot, NEW sampleAt, NEW told,
             MonitorPosition(offer, stamp, spot, sampleAt, told)
      PROVE  UNCHANGED mind
  BY <1>6 DEF MonitorPosition
<1>7. Pass \/ UNCHANGED tradeVars => UNCHANGED mind
  BY DEF Pass, tradeVars
<1>8. CASE \E chart \in Charts, at \in clock - SampleLife .. clock :
             /\ at >= 0
             /\ \E K \in NearestStrikes(chart.spot) :
                  \E offered \in [{c \in Listed : Contracts[c].strike \in K} -> Offers] :
                    ScanChart(chart, at, K, offered)
  BY <1>1, <1>8
<1>9. QED
  BY <1>2, <1>3, <1>4, <1>5, <1>6, <1>7, <1>8 DEF TradesNext

\* At the instant it is made, a plan passes the check its entry is made with.
LEMMA PlansAreAsMade == ASSUME MoneyInv, PlansInv, clock \in Nat PROVE PlansHoldAsMade
<1> SUFFICES ASSUME mind.step = "asked", NEW p \in mind.plans, p.made = clock, p.seen = Money
             PROVE  Validated(p, [offer |-> p.offer, stamp |-> clock, spot |-> mind.spot,
                                  sampleAt |-> mind.spotAt], mind.spotAt)
  BY DEF PlansHoldAsMade
<1>1. AsMade(p, mind.spot, mind.spotAt)
  BY DEF PlansInv
<1>2. PICK fill, capped, q, contract, offer, profile :
        /\ fill = BuyFill(p.offer.ask) /\ capped = CappedFill(p.offer.ask) /\ q = p.quantity
        /\ contract = Contracts[p.symbol] /\ offer = p.offer /\ profile = Playbooks[p.playbook]
  OBVIOUS
<1>3. /\ fill \in Nat \ {0} /\ capped \in Nat \ {0} /\ {offer.askSize, offer.bidSize} \subseteq Int
      /\ fill <= capped /\ contract.lot \in Nat \ {0} /\ contract.freeze \in Int
      /\ q \in Nat \ {0}
  <2>1. p.offer \in Offers /\ SpreadOk(p.offer) /\ p.symbol \in Listed /\ q \in Nat \ {0}
    BY <1>1, <1>2 DEF AsMade, Made
  <2>2. p.offer.ask \in Nat \ {0}
    BY <2>1, OfferTyped
  <2>3. fill <= capped
    BY <1>2, <2>2, CappedAbove
  <2>4. QED
    BY <1>2, <2>1, <2>3, OfferTyped, ListedContract
<1>4. q <= QuantityFor(Money, contract, fill, offer)
  <2>1. {Money.capital, Money.cash, Money.realized} \subseteq Int
    BY MoneyTyped DEF MoneyInv
  <2>2. QuantityFor(Money, contract, capped, offer) <= QuantityFor(Money, contract, fill, offer)
    BY <1>3, <2>1, DearerIsLess
  <2>3. q = QuantityFor(Money, contract, capped, offer)
    BY <1>1, <1>2 DEF AsMade
  <2>4. QED
    BY <2>2, <2>3
<1>5. \E l \in ExitLevels(profile, fill, q) : l.reward > 0
  <2>1. PICK l : l \in ExitLevels(profile, fill, q)
    BY <1>1, <1>2 DEF AsMade
  <2>2. /\ {profile.stop, profile.target} \subseteq Nat
        /\ profile.reward \in (Nat \ {0}) \X (Nat \ {0})
    BY <1>1, <1>2, TradesAssumption DEF AsMade, Made
  <2>3. l.reward > 0
    BY <1>3, <2>1, <2>2, TargetPays
  <2>4. QED
    BY <2>1, <2>3
<1>6. /\ p.made <= clock /\ clock < p.expires
      /\ Aged(mind.spotAt, AnalysisLife) /\ mind.spotAt >= mind.spotAt /\ Aged(clock, QuoteAge)
      /\ InBounds(p.kind, mind.spot, p.trigger, p.invalidation, p.chase)
      /\ SpreadOk(p.offer) /\ fill <= p.limit
  <2>1. QuoteAge \in Nat /\ AnalysisLife \in Nat
    BY TradesAssumption
  <2>2. QED
    BY <1>1, <1>2, <1>3, <2>1 DEF AsMade, Aged, Within
<1>7. QED
  BY <1>2, <1>4, <1>5, <1>6 DEF Validated, ValidatedAt, Within, Aged

LEMMA LeastOfSeven ==
  ASSUME NEW a \in Int, NEW b \in Int, NEW c \in Int, NEW d \in Int, NEW e \in Int,
         NEW f \in Int, NEW g \in Int
  PROVE  LET m == Min({a, b, c, d, e, f, g}) IN
         /\ m \in {a, b, c, d, e, f, g}
         /\ m <= a /\ m <= b /\ m <= c /\ m <= d /\ m <= e /\ m <= f /\ m <= g
<1>1. \E m \in {a, b, c, d, e, f, g} : \A y \in {a, b, c, d, e, f, g} : m <= y
  BY SMT
<1>2. QED
  BY <1>1 DEF Min

\* The least of two, divided.
LEMMA LeastDivided ==
  ASSUME NEW x \in Int, NEW y \in Int, NEW n \in Nat \ {0}, NEW m \in Int, m = Least(x, y),
         NEW d \in Int, d = x \div n, NEW e \in Int, e = y \div n
  PROVE  m \div n = Least(d, e)
<1>1. x \div n \in Int /\ y \div n \in Int
  BY DivWithin
<1>2. x <= y => x \div n <= y \div n
  BY DivMonotone
<1>3. y <= x => y \div n <= x \div n
  BY DivMonotone
<1>4. QED
  BY <1>1, <1>2, <1>3 DEF Least

\* Sizing takes the least of what each constraint of the diagnostics would allow.
LEMMA TightestBuys ==
  ASSUME NEW money, {money.capital, money.cash, money.realized} \subseteq Int,
         NEW fill \in Nat \ {0}, NEW offer, {offer.askSize, offer.bidSize} \subseteq Int,
         NEW contract, contract.lot \in Nat \ {0}, contract.freeze \in Int
  PROVE  LET all == Capacities(money, contract, fill, offer) IN
         QuantityFor(money, contract, fill, offer)
           = WholeLotsOf(Min({all[k] : k \in DOMAIN all}), contract)
<1>1. PICK F, day, p, r, cap, cash :
        /\ F = FixedCost /\ day = Positive(money.capital * LossPct + 100 * money.realized)
        /\ p = PerUnitPaid(fill) /\ r = 100 * PerUnitRisk(fill)
        /\ cap = money.capital /\ cash = money.cash
        /\ F \in Nat /\ day \in Nat /\ p \in Nat \ {0} /\ r \in Nat \ {0} /\ cap \in Int /\ cash \in Int
  <2>1. FixedCost \in Nat /\ LossPct \in Nat
    BY TradesAssumption
  <2>2. PICK x : x = money.capital * LossPct + 100 * money.realized /\ x \in Int
    BY <2>1
  <2>3. PerUnitPaid(fill) \in Nat \ {0} /\ 100 * PerUnitRisk(fill) \in Nat \ {0}
    BY RiskOfUnit
  <2>4. QED
    BY <2>1, <2>2, <2>3 DEF Positive
<1>2. PICK x1, x2, y1, y2 :
        /\ x1 = Positive(cap - 4 * F) /\ x2 = Positive(cash - F)
        /\ y1 = Positive(cap - 200 * F) /\ y2 = Positive(day - 200 * F)
        /\ x1 \in Int /\ x2 \in Int /\ y1 \in Int /\ y2 \in Int
  BY <1>1 DEF Positive
<1>3. /\ Positive(Least(cap, 4 * cash) - 4 * F) = Least(x1, 4 * x2)
      /\ Positive(Least(cap, day) - 200 * F) = Least(y1, y2)
  BY <1>1, <1>2 DEF Positive, Least
<1>4. PICK a1, a2, b1, b2, c, d, e :
        /\ a1 = x1 \div (4 * p) /\ a2 = x2 \div p /\ b1 = y1 \div r /\ b2 = y2 \div r
        /\ c = offer.askSize /\ d = offer.bidSize /\ e = contract.freeze - 1
        /\ a1 \in Int /\ a2 \in Int /\ b1 \in Int /\ b2 \in Int
        /\ c \in Int /\ d \in Int /\ e \in Int
  <2>1. PICK n : n = 4 * p /\ n \in Nat \ {0}
    BY <1>1
  <2>2. x1 \div n \in Int /\ x2 \div p \in Int /\ y1 \div r \in Int /\ y2 \div r \in Int
    BY ZenonT(40), <1>1, <1>2, <2>1, DivWithin
  <2>3. QED
    BY <2>1, <2>2
<1>5. PICK a, b : a = Least(a1, a2) /\ b = Least(b1, b2)
  OBVIOUS
<1>6. Least(x1, 4 * x2) \div (4 * p) = a /\ Least(y1, y2) \div r = b
  <2>1. PICK n, x4 : n = 4 * p /\ n \in Nat \ {0} /\ x4 = 4 * x2 /\ x4 \in Int
    BY <1>1, <1>2
  <2>2. x4 \div n = a2
    BY ZenonT(40), <1>1, <1>2, <1>4, <2>1, DivCancels
  <2>3. PICK u : u = Least(x1, x4) /\ u \in Int
    BY <1>2, <2>1 DEF Least
  <2>4. PICK v : v = Least(y1, y2) /\ v \in Int
    BY <1>2 DEF Least
  <2>5. /\ x1 \in Int /\ x4 \in Int /\ n \in Nat \ {0} /\ u \in Int /\ u = Least(x1, x4)
        /\ a1 \in Int /\ a1 = x1 \div n /\ a2 \in Int /\ a2 = x4 \div n
    BY <1>2, <1>4, <2>1, <2>2, <2>3
  <2>6. u \div n = Least(a1, a2)
    BY ONLY <2>5, LeastDivided
  <2>7. /\ y1 \in Int /\ y2 \in Int /\ r \in Nat \ {0} /\ v \in Int /\ v = Least(y1, y2)
        /\ b1 \in Int /\ b1 = y1 \div r /\ b2 \in Int /\ b2 = y2 \div r
    BY <1>1, <1>2, <1>4, <2>4
  <2>8. v \div r = Least(b1, b2)
    BY ONLY <2>7, LeastDivided
  <2>9. QED
    BY <1>5, <2>1, <2>3, <2>4, <2>6, <2>8
<1>7. QuantityFor(money, contract, fill, offer) = WholeLotsOf(Min({a, b, c, d, e}), contract)
  BY ZenonT(40), <1>1, <1>3, <1>4, <1>6 DEF QuantityFor
<1>8. PICK all : all = Capacities(money, contract, fill, offer)
  OBVIOUS
<1>9. {all[k] : k \in DOMAIN all} = {a1, a2, b1, b2, c, d, e}
  <2>1. all = [allocation |-> a1, cash |-> a2, plannedRisk |-> b1, dailyRisk |-> b2,
               askDepth |-> c, bidDepth |-> d, freezeLimit |-> e]
    BY <1>1, <1>2, <1>4, <1>8 DEF Capacities
  <2>2. QED
    BY <2>1
<1>10. Min({a, b, c, d, e}) = Min({a1, a2, b1, b2, c, d, e})
  <2>1. /\ a1 \in Int /\ a2 \in Int /\ b1 \in Int /\ b2 \in Int
        /\ c \in Int /\ d \in Int /\ e \in Int
    BY <1>4
  <2>2. /\ a \in {a1, a2} /\ a <= a1 /\ a <= a2 /\ b \in {b1, b2} /\ b <= b1 /\ b <= b2
        /\ a \in Int /\ b \in Int
    BY ONLY <1>5, <2>1 DEF Least
  <2>3. PICK m : m = Min({a, b, c, d, e})
    OBVIOUS
  <2>4. PICK n : n = Min({a1, a2, b1, b2, c, d, e})
    OBVIOUS
  <2>5. /\ m \in {a, b, c, d, e} /\ m <= a /\ m <= b /\ m <= c /\ m <= d /\ m <= e
    BY ONLY <2>1, <2>2, <2>3, LeastOfFive
  <2>6. /\ n \in {a1, a2, b1, b2, c, d, e}
        /\ n <= a1 /\ n <= a2 /\ n <= b1 /\ n <= b2 /\ n <= c /\ n <= d /\ n <= e
    BY ONLY <2>1, <2>4, LeastOfSeven
  <2>7. m \in Int /\ n \in Int /\ m <= n /\ n <= m
    BY ONLY <2>1, <2>2, <2>5, <2>6
  <2>8. QED
    BY ONLY <2>3, <2>4, <2>7
<1>11. QED
  BY <1>7, <1>8, <1>9, <1>10

\* What a capital alone, in cash and with nothing lost, buys of a contract offered a lot.
LEMMA SizedBy ==
  ASSUME NEW n \in Nat, NEW fill \in Nat \ {0},
         NEW contract, contract.lot \in Nat \ {0}, contract.freeze \in Int,
         NEW offer, offer.askSize = contract.lot, offer.bidSize = contract.lot
  PROVE  QuantityFor([capital |-> n, cash |-> n, realized |-> 0], contract, fill, offer)
           = WholeLotsOf(Min({Positive(n - 4 * FixedCost) \div (4 * PerUnitPaid(fill)),
                              Positive(n - 200 * FixedCost) \div (100 * PerUnitRisk(fill)),
                              contract.lot, contract.lot, contract.freeze - 1}), contract)
<1>1. PICK L : L = LossPct /\ L \in Nat \ {0}
  BY TradesAssumption
<1>2. n <= n * L /\ n * L \in Nat
  <2>1. 1 * n <= L * n
    BY <1>1, TimesMonotone
  <2>2. QED
    BY <1>1, <2>1
<1>3. PICK x : x = n * L /\ x \in Nat /\ n <= x
  BY <1>2
<1>4. Least(n, 4 * n) = n /\ Least(n, Positive(x + 100 * 0)) = n
  BY <1>3 DEF Least, Positive
<1>5. PICK money : money = [capital |-> n, cash |-> n, realized |-> 0]
  OBVIOUS
<1>6. money.capital = n /\ money.cash = n /\ money.realized = 0
  BY <1>5
<1>7. /\ Least(money.capital, 4 * money.cash) = n
      /\ Least(money.capital, Positive(money.capital * LossPct + 100 * money.realized)) = n
  BY <1>1, <1>3, <1>4, <1>6
<1>8. QED
  BY <1>5, <1>7 DEF QuantityFor

LEMMA MaxOfThree ==
  ASSUME NEW a \in Int, NEW b \in Int, NEW c \in Int
  PROVE  LET m == Max({a, b, c}) IN m \in {a, b, c} /\ a <= m /\ b <= m /\ c <= m
<1>1. \E m \in {a, b, c} : \A y \in {a, b, c} : y <= m
  BY SMT
<1>2. QED
  BY <1>1 DEF Max

\* The quotients of a sizing, and the least of them.
LEMMA SizedAs ==
  ASSUME NEW n \in Nat, NEW fill \in Nat \ {0},
         NEW contract, contract.lot \in Nat \ {0}, contract.freeze \in Int,
         NEW offer, offer.askSize = contract.lot, offer.bidSize = contract.lot
  PROVE  \E a, b \in Nat, m \in Int :
           /\ a = Positive(n - 4 * FixedCost) \div (4 * PerUnitPaid(fill))
           /\ b = Positive(n - 200 * FixedCost) \div (100 * PerUnitRisk(fill))
           /\ m \in {a, b, contract.lot, contract.freeze - 1}
           /\ m <= a /\ m <= b /\ m <= contract.lot
           /\ QuantityFor([capital |-> n, cash |-> n, realized |-> 0], contract, fill, offer)
                = WholeLotsOf(m, contract)
<1>1. PICK p, r, F : /\ p = 4 * PerUnitPaid(fill) /\ r = 100 * PerUnitRisk(fill) /\ F = FixedCost
                     /\ p \in Nat \ {0} /\ r \in Nat \ {0} /\ F \in Nat
  BY TradesAssumption, RiskOfUnit
<1>2. PICK x, y : /\ x = Positive(n - 4 * F) /\ y = Positive(n - 200 * F) /\ x \in Nat /\ y \in Nat
  BY <1>1 DEF Positive
<1>3. PICK a, b : a = x \div p /\ b = y \div r /\ a \in Nat /\ b \in Nat
  BY <1>1, <1>2, DivNat
<1>4. PICK lot, f : lot = contract.lot /\ f = contract.freeze - 1 /\ lot \in Int /\ f \in Int
  OBVIOUS
<1> PICK m : m = Min({a, b, lot, lot, f})
  OBVIOUS
<1>5. a \in Int /\ b \in Int
  BY <1>3
<1>6. m \in {a, b, lot, lot, f} /\ m <= a /\ m <= b /\ m <= lot
  BY ONLY m = Min({a, b, lot, lot, f}), <1>4, <1>5, LeastOfFive
<1>7. m \in Int
  BY ONLY <1>4, <1>5, <1>6
<1>8. QuantityFor([capital |-> n, cash |-> n, realized |-> 0], contract, fill, offer)
        = WholeLotsOf(m, contract)
  BY <1>1, <1>2, <1>3, <1>4, SizedBy
<1>9. QED
  BY <1>1, <1>2, <1>3, <1>4, <1>6, <1>7, <1>8

\* A lot fits in the capital the diagnostics name, and in no less.
LEMMA LeastCapital ==
  ASSUME NEW fill \in Nat \ {0},
         NEW contract, contract.lot \in Nat \ {0}, contract.freeze \in Int,
         contract.lot < contract.freeze,
         NEW offer, offer.askSize = contract.lot, offer.bidSize = contract.lot
  PROVE  LET n == CapitalForALot(contract, fill)
             with(capital) == QuantityFor([capital |-> capital, cash |-> capital, realized |-> 0],
                                          contract, fill, offer)
         IN  with(n) = contract.lot /\ with(n - 1) = 0
<1>1. PICK F, L, p, r, lot, f :
        /\ F = FixedCost /\ L = LossPct /\ p = PerUnitPaid(fill) /\ r = PerUnitRisk(fill)
        /\ lot = contract.lot /\ f = contract.freeze - 1
        /\ F \in Nat \ {0} /\ L \in Nat \ {0} /\ p \in Nat \ {0} /\ r \in Nat \ {0} /\ lot \in Nat \ {0}
        /\ f \in Nat /\ lot <= f
  BY TradesAssumption, RiskOfUnit
<1>2. PICK pl, rl : pl = p * lot /\ rl = r * lot /\ pl \in Nat \ {0} /\ rl \in Nat \ {0}
  BY <1>1
<1>3. PICK x, y : x = 4 * (pl + F) /\ y = 100 * (rl + 2 * F) /\ x \in Nat \ {0} /\ y \in Nat \ {0}
  BY <1>1, <1>2
<1>z. PICK z : z = RoundUp(y, L)
  OBVIOUS
<1>4. z \in Int /\ z <= y
  <2>1. PICK u : u = y + L - 1 /\ u \in Int
    BY <1>1, <1>3
  <2>2. u < (y + 1) * L
    <3>1. 1 * y <= L * y
      BY <1>1, <1>3, TimesMonotone
    <3>2. (y + 1) * L = L * y + L /\ L * y \in Int
      BY <1>1, <1>3
    <3>3. QED
      BY <1>1, <1>3, <2>1, <3>1, <3>2
  <2>3. u \div L \in Int /\ u \div L < y + 1
    BY <1>1, <1>3, <2>1, <2>2, DivWithin, NoneFits
  <2>4. z = u \div L
    BY <1>z, <2>1 DEF RoundUp
  <2>5. QED
    BY <1>3, <2>3, <2>4
<1>n. PICK n : n = Max({x, y, z})
  OBVIOUS
<1>5. n \in {x, y, z} /\ x <= n /\ y <= n
  <2>1. x \in Int /\ y \in Int /\ z \in Int
    BY <1>3, <1>4
  <2>2. QED
    BY ONLY <2>1, <1>n, MaxOfThree
<1>6. n \in Nat \ {0} /\ n \in {x, y}
  BY <1>3, <1>4, <1>5
<1>7. CapitalForALot(contract, fill) = n
  BY <1>1, <1>2, <1>3, <1>z, <1>n DEF CapitalForALot
<1>8. PICK p4, r100 : p4 = 4 * p /\ r100 = 100 * r /\ p4 \in Nat \ {0} /\ r100 \in Nat \ {0}
                      /\ lot * p4 = 4 * pl /\ lot * r100 = 100 * rl
  BY <1>1, <1>2
<1>9. QuantityFor([capital |-> n, cash |-> n, realized |-> 0], contract, fill, offer) = lot
  <2>1. PICK a, b \in Nat, m \in Int :
          /\ a = Positive(n - 4 * F) \div p4 /\ b = Positive(n - 200 * F) \div r100
          /\ m \in {a, b, lot, f} /\ m <= a /\ m <= b /\ m <= lot
          /\ QuantityFor([capital |-> n, cash |-> n, realized |-> 0], contract, fill, offer)
               = WholeLotsOf(m, contract)
    <3>1. PICK a, b \in Nat, m \in Int :
            /\ a = Positive(n - 4 * FixedCost) \div (4 * PerUnitPaid(fill))
            /\ b = Positive(n - 200 * FixedCost) \div (100 * PerUnitRisk(fill))
            /\ m \in {a, b, contract.lot, contract.freeze - 1}
            /\ m <= a /\ m <= b /\ m <= contract.lot
            /\ QuantityFor([capital |-> n, cash |-> n, realized |-> 0], contract, fill, offer)
                 = WholeLotsOf(m, contract)
      <4>1. n \in Nat
        BY <1>6
      <4>2. QED
        BY <4>1, SizedAs
    <3>2. QED
      BY <1>1, <1>8, <3>1
  <2>2. PICK u, v : /\ u = Positive(n - 4 * F) /\ v = Positive(n - 200 * F)
                    /\ u \in Int /\ v \in Int /\ lot * p4 <= u /\ lot * r100 <= v
    <3>1. 0 <= 4 * pl /\ 4 * pl <= n - 4 * F /\ 0 <= 100 * rl /\ 100 * rl <= n - 200 * F
      BY ONLY <1>1, <1>2, <1>3, <1>5, <1>6
    <3>2. n - 4 * F \in Int /\ n - 200 * F \in Int
      BY ONLY <1>1, <1>6
    <3>3. QED
      BY ONLY <1>2, <1>8, <3>1, <3>2 DEF Positive
  <2>3. lot <= a /\ lot <= b
    <3>1. lot \in Int /\ p4 \in Nat \ {0} /\ r100 \in Nat \ {0}
      BY <1>1, <1>8
    <3>2. lot <= u \div p4 /\ lot <= v \div r100
      BY ONLY <2>2, <3>1, FitsBelow
    <3>3. QED
      BY <2>1, <2>2, <3>2
  <2>4. m = lot
    BY ONLY <1>1, <2>1, <2>3
  <2>5. lot \div lot = 1
    BY <1>1, DivIs
  <2>6. QED
    BY <1>1, <2>1, <2>4, <2>5 DEF WholeLotsOf
<1>10. QuantityFor([capital |-> n - 1, cash |-> n - 1, realized |-> 0], contract, fill, offer) = 0
  <2>1. PICK k : k = n - 1 /\ k \in Nat
    BY <1>6
  <2>2. PICK a, b \in Nat, m \in Int :
          /\ a = Positive(k - 4 * F) \div p4 /\ b = Positive(k - 200 * F) \div r100
          /\ m \in {a, b, lot, f} /\ m <= a /\ m <= b /\ m <= lot
          /\ QuantityFor([capital |-> k, cash |-> k, realized |-> 0], contract, fill, offer)
               = WholeLotsOf(m, contract)
    <3>1. PICK a, b \in Nat, m \in Int :
            /\ a = Positive(k - 4 * FixedCost) \div (4 * PerUnitPaid(fill))
            /\ b = Positive(k - 200 * FixedCost) \div (100 * PerUnitRisk(fill))
            /\ m \in {a, b, contract.lot, contract.freeze - 1}
            /\ m <= a /\ m <= b /\ m <= contract.lot
            /\ QuantityFor([capital |-> k, cash |-> k, realized |-> 0], contract, fill, offer)
                 = WholeLotsOf(m, contract)
      <4>1. k \in Nat
        BY <2>1
      <4>2. QED
        BY <4>1, SizedAs
    <3>2. QED
      BY <1>1, <1>8, <3>1
  <2>3. a < lot \/ b < lot
    <3>1. CASE n = x
      <4>1. PICK u : u = Positive(k - 4 * F) /\ u \in Int /\ u < lot * p4
        BY ONLY <1>1, <1>2, <1>3, <1>8, <2>1, <3>1 DEF Positive
      <4>2. QED
        <5>1. lot \in Int /\ p4 \in Nat \ {0} /\ a = u \div p4
          BY <1>1, <1>8, <2>2, <4>1
        <5>2. u \div p4 < lot
          BY ONLY <4>1, <5>1, NoneFits
        <5>3. QED
          BY <5>1, <5>2
    <3>2. CASE n = y
      <4>1. PICK u : u = Positive(k - 200 * F) /\ u \in Int /\ u < lot * r100
        BY ONLY <1>1, <1>2, <1>3, <1>8, <2>1, <3>2 DEF Positive
      <4>2. QED
        <5>1. lot \in Int /\ r100 \in Nat \ {0} /\ b = u \div r100
          BY <1>1, <1>8, <2>2, <4>1
        <5>2. u \div r100 < lot
          BY ONLY <4>1, <5>1, NoneFits
        <5>3. QED
          BY <5>1, <5>2
    <3>3. QED
      BY <1>6, <3>1, <3>2
  <2>4. m \in Nat /\ m < lot
    BY ONLY <1>1, <2>2, <2>3
  <2>5. m \div lot = 0
    BY <1>1, <2>4, DivIs
  <2>6. QED
    BY <1>1, <2>1, <2>2, <2>5 DEF WholeLotsOf
<1>11. QED
  BY <1>1, <1>7, <1>9, <1>10

LEMMA SizesAreExplained == ASSUME MoneyInv PROVE SizingExplained
<1>1. ASSUME NEW c \in Listed, NEW offer \in FirmOffers
      PROVE  /\ CappedFill(offer.ask) \in Nat \ {0}
             /\ {offer.askSize, offer.bidSize} \subseteq Int
             /\ Contracts[c].lot \in Nat \ {0} /\ Contracts[c].freeze \in Int
             /\ Contracts[c].lot < Contracts[c].freeze
             /\ offer = [x \in DOMAIN offer |-> offer[x]]
             /\ {"askSize", "bidSize"} \subseteq DOMAIN offer
  <2>1. offer \in Offers /\ SpreadOk(offer)
    BY DEF FirmOffers
  <2>2. Contracts[c].lot < Contracts[c].freeze
    BY DEF Listed
  <2>3. offer = [bid |-> offer.bid, ask |-> offer.ask, bidSize |-> offer.bidSize,
                 askSize |-> offer.askSize]
    BY <2>1, TradesAssumption
  <2>4. QED
    BY <2>1, <2>2, <2>3, OfferTyped, ListedContract
<1>2. CapitalIsLeast
  <2> SUFFICES ASSUME NEW c \in Listed, NEW offer \in FirmOffers
               PROVE  LET fill == CappedFill(offer.ask)
                          contract == Contracts[c]
                          needed == CapitalForALot(contract, fill)
                          deep == [offer EXCEPT !.askSize = contract.lot, !.bidSize = contract.lot]
                          with(capital) == QuantityFor([capital |-> capital, cash |-> capital,
                                                        realized |-> 0], contract, fill, deep)
                      IN  with(needed) = contract.lot /\ with(needed - 1) = 0
    BY DEF CapitalIsLeast
  <2>1. PICK fill, contract : fill = CappedFill(offer.ask) /\ contract = Contracts[c]
    OBVIOUS
  <2>2. PICK deep : deep = [offer EXCEPT !.askSize = contract.lot, !.bidSize = contract.lot]
    OBVIOUS
  <2>3. /\ fill \in Nat \ {0} /\ contract.lot \in Nat \ {0} /\ contract.freeze \in Int
        /\ contract.lot < contract.freeze
    BY <1>1, <2>1
  <2>4. deep.askSize = contract.lot /\ deep.bidSize = contract.lot
    BY <1>1, <2>2
  <2>5. PICK n : n = CapitalForALot(contract, fill)
    OBVIOUS
  <2>6. /\ QuantityFor([capital |-> n, cash |-> n, realized |-> 0], contract, fill, deep)
             = contract.lot
        /\ QuantityFor([capital |-> n - 1, cash |-> n - 1, realized |-> 0], contract, fill, deep) = 0
    BY <2>3, <2>4, <2>5, LeastCapital
  <2>7. QED
    BY <2>1, <2>2, <2>5, <2>6
<1>3. ASSUME NEW c \in Listed, NEW offer \in FirmOffers
      PROVE  LET fill == CappedFill(offer.ask)
                 all == Capacities(Money, Contracts[c], fill, offer)
             IN  QuantityFor(Money, Contracts[c], fill, offer)
                   = WholeLotsOf(Min({all[k] : k \in DOMAIN all}), Contracts[c])
  <2>1. {Money.capital, Money.cash, Money.realized} \subseteq Int
    BY MoneyTyped DEF MoneyInv
  <2>2. PICK fill, contract : fill = CappedFill(offer.ask) /\ contract = Contracts[c]
    OBVIOUS
  <2>3. /\ fill \in Nat \ {0} /\ {offer.askSize, offer.bidSize} \subseteq Int
        /\ contract.lot \in Nat \ {0} /\ contract.freeze \in Int
    BY <1>1, <2>2
  <2>4. LET all == Capacities(Money, contract, fill, offer) IN
        QuantityFor(Money, contract, fill, offer)
          = WholeLotsOf(Min({all[k] : k \in DOMAIN all}), contract)
    BY <2>1, <2>3, TightestBuys
  <2>5. QED
    BY <2>2, <2>4
<1>4. QED
  BY <1>2, <1>3 DEF SizingExplained

\* At the instant it is made a plan passes the check that an entry is made with, though it
\* sizes at a capped price and the check at the quote's own; and what a rejected size is
\* explained with is true (select_plans, validate_plan, sizing_diagnostics).
THEOREM PlansAreKept == TradesSpec => []PlansHold
<1>1. TradesInit => TradesInv /\ MoneyInv /\ PlansInv
  <2>1. TradesInit => mind.step = "idle"
    BY DEF TradesInit, IdleMind
  <2>2. QED
    BY <2>1, TradesStart, MoneyStart DEF PlansInv
<1>2. TradesInv /\ MoneyInv /\ PlansInv /\ [TradesNext]_tradeVars
        => TradesInv' /\ MoneyInv' /\ PlansInv'
  BY TradesStep, MoneyStep, PlansStep
<1>3. TradesInv /\ MoneyInv /\ PlansInv => PlansHold
  <2>1. TradesInv => clock \in Nat
    BY DEF TradesInv
  <2>2. QED
    BY <2>1, PlansAreAsMade, SizesAreExplained DEF PlansHold
<1>4. QED
  BY <1>1, <1>2, <1>3, PTL DEF TradesSpec

----------------------------------------------------------------------------
(* Folds.  What FoldLeft makes of a longer sequence: one turn more.  The   *)
(* recursion is over the sets of indices that are left, the last first.    *)

Turn(kind, position, acc, x) ==
  IF kind = "walk" THEN WalkRow(position, acc, x)
  ELSE IF kind = "book" THEN AccountExit(position, acc, x)
  ELSE AddExit(acc, x)

IsFold(g, kind, position, base, f, S) ==
  g = [s \in SUBSET S |-> IF s = {} THEN base
                          ELSE Turn(kind, position, g[s \ {Max(s)}], f[Max(s)])]

\* A set of indices.
Indices(S) == IsFiniteSet(S) /\ S \subseteq Nat

LEMMA LastIndex ==
  ASSUME NEW S, Indices(S), NEW s \in SUBSET S, s # {}
  PROVE  Max(s) \in s
<1>1. IsFiniteSet(S) /\ S \subseteq Nat
  BY DEF Indices
<1>a. IsFiniteSet(s)
  BY <1>1, FS_Subset
<1>b. \A x \in s : x \in Int
  BY <1>1
<1>2. \E m \in s : \A y \in s : m >= y
  BY <1>a, <1>b, Largest
<1> QED
  BY <1>2 DEF Max

LEMMA FoldStep ==
  ASSUME NEW g, NEW kind, NEW position, NEW base, NEW f, NEW S, IsFold(g, kind, position, base, f, S),
         NEW s \in SUBSET S
  PROVE  /\ s = {} => g[s] = base
         /\ s # {} => g[s] = Turn(kind, position, g[s \ {Max(s)}], f[Max(s)])
BY DEF IsFold

LEMMA FoldEmpty ==
  ASSUME NEW g, NEW kind, NEW position, NEW base, NEW f, NEW S, IsFold(g, kind, position, base, f, S)
  PROVE  g[{}] = base
<1>1. {} \in SUBSET S
  OBVIOUS
<1> QED
  BY <1>1 DEF IsFold

LEMMA FoldUnique ==
  ASSUME NEW kind, NEW position, NEW base, NEW f, NEW h, NEW S, Indices(S),
         \A i \in S : f[i] = h[i], NEW g, IsFold(g, kind, position, base, f, S),
         NEW k, IsFold(k, kind, position, base, h, S)
  PROVE  g = k
<1> DEFINE T == {s \in SUBSET S : g[s] # k[s]}
<1>1. T = {}
  <2> SUFFICES ASSUME T # {} PROVE FALSE
    OBVIOUS
  <2>1. T \in SUBSET SUBSET S /\ IsFiniteSet(S)
    BY DEF Indices
  <2>2. PICK m \in T : \A u \in T : u \subseteq m => u = m
    <3> HIDE DEF T
    <3> QED
      BY <2>1, Smallest
  <2>a. m \in SUBSET S /\ g[m] # k[m]
    BY <2>2
  <2>b. g[{}] = base
    BY FoldEmpty
  <2>c. k[{}] = base
    BY FoldEmpty
  <2>3. m # {} /\ m \in SUBSET S
    BY <2>a, <2>b, <2>c
  <2>4. Max(m) \in m
    BY <2>3, LastIndex
  <2>5. m \ {Max(m)} \notin T /\ m \ {Max(m)} \in SUBSET S
    BY <2>2, <2>3, <2>4
  <2>6. g[m \ {Max(m)}] = k[m \ {Max(m)}] /\ f[Max(m)] = h[Max(m)]
    BY <2>3, <2>4, <2>5
  <2> QED
    BY <2>2, <2>3, <2>6, FoldStep
<1>2. \A s \in SUBSET S : g[s] = k[s]
  BY <1>1
<1>3. g = [s \in SUBSET S |-> g[s]] /\ k = [s \in SUBSET S |-> k[s]]
  BY DEF IsFold
<1> QED
  BY <1>2, <1>3

LEMMA FoldRestricted ==
  ASSUME NEW kind, NEW position, NEW base, NEW f, NEW S, NEW g, Indices(S),
         IsFold(g, kind, position, base, f, S), NEW U \in SUBSET S
  PROVE  IsFold([s \in SUBSET U |-> g[s]], kind, position, base, f, U)
<1> DEFINE h == [s \in SUBSET U |-> g[s]]
<1>1. ASSUME NEW s \in SUBSET U
      PROVE  h[s] = IF s = {} THEN base ELSE Turn(kind, position, h[s \ {Max(s)}], f[Max(s)])
  <2>1. s \in SUBSET S /\ s \ {Max(s)} \in SUBSET U
    OBVIOUS
  <2>2. h[s] = g[s] /\ h[s \ {Max(s)}] = g[s \ {Max(s)}]
    BY <2>1
  <2> HIDE DEF h
  <2> QED
    BY <2>1, <2>2, FoldStep
<1> QED
  BY <1>1 DEF IsFold

LEMMA FoldExists ==
  ASSUME NEW kind, NEW position, NEW base, NEW f, NEW S, Indices(S)
  PROVE  \E g : IsFold(g, kind, position, base, f, S)
<1> DEFINE Bad == {U \in SUBSET S : ~\E g : IsFold(g, kind, position, base, f, U)}
<1> SUFFICES ASSUME Bad # {} PROVE FALSE
  OBVIOUS
<1>a. Bad \in SUBSET SUBSET S /\ IsFiniteSet(S)
  BY DEF Indices
<1>1. PICK U \in Bad : \A V \in Bad : V \subseteq U => V = U
  <2> HIDE DEF Bad
  <2> QED
    BY <1>a, Smallest
<1>b. \A V \in SUBSET U : Indices(V)
  BY <1>1, FS_Subset DEF Indices
<1> DEFINE G(V) == CHOOSE g : IsFold(g, kind, position, base, f, V)
           Rest(s) == s \ {Max(s)}
           h == [s \in SUBSET U |-> IF s = {} THEN base
                                    ELSE Turn(kind, position, G(Rest(s))[Rest(s)], f[Max(s)])]
<1>2. ASSUME NEW V \in SUBSET U, V # U PROVE IsFold(G(V), kind, position, base, f, V)
  BY <1>1, <1>2
<1>3. ASSUME NEW s \in SUBSET U, s # {}
      PROVE  Rest(s) \in SUBSET U /\ Rest(s) # U /\ Rest(s) \subseteq s
  <2>1. Max(s) \in s
    BY <1>b, <1>3, LastIndex
  <2> QED
    BY <2>1
<1>4. ASSUME NEW V \in SUBSET U, V # U PROVE h[V] = G(V)[V]
  <2>1. IsFold(G(V), kind, position, base, f, V)
    BY <1>2, <1>4
  <2>2. CASE V = {}
    <3> HIDE DEF G
    <3>1. {} \in SUBSET V /\ h[{}] = base
      OBVIOUS
    <3>2. G(V)[{}] = base
      BY <2>1, FoldEmpty
    <3> QED
      BY <2>2, <3>1, <3>2
  <2>3. CASE V # {}
    <3> DEFINE W == Rest(V)
    <3>1. W \in SUBSET U /\ W # U /\ W \in SUBSET V
      BY <1>3, <2>3
    <3>2. IsFold(G(W), kind, position, base, f, W)
      BY <1>2, <3>1
    <3>3. IsFold([s \in SUBSET W |-> G(V)[s]], kind, position, base, f, W)
      BY <1>b, <2>1, <3>1, FoldRestricted
    <3>4. Indices(W)
      BY <1>b, <3>1
    <3> HIDE DEF G
    <3>5. G(W) = [s \in SUBSET W |-> G(V)[s]]
      BY <3>2, <3>3, <3>4, FoldUnique
    <3>6. G(W)[W] = G(V)[W]
      BY <3>5
    <3>7. G(V)[V] = Turn(kind, position, G(V)[W], f[Max(V)])
      BY <2>1, <2>3, FoldStep
    <3>8. h[V] = Turn(kind, position, G(W)[W], f[Max(V)])
      BY <2>3
    <3> QED
      BY <3>6, <3>7, <3>8
  <2> QED
    BY <2>2, <2>3
<1>5. ASSUME NEW s \in SUBSET U
      PROVE  h[s] = IF s = {} THEN base ELSE Turn(kind, position, h[Rest(s)], f[Max(s)])
  <2>1. CASE s = {}
    BY <2>1
  <2>2. CASE s # {}
    <3>1. h[s] = Turn(kind, position, G(Rest(s))[Rest(s)], f[Max(s)])
      BY <2>2
    <3>2. h[Rest(s)] = G(Rest(s))[Rest(s)]
      BY <1>3, <1>4, <2>2
    <3> HIDE DEF h, G
    <3> QED
      BY <2>2, <3>1, <3>2
  <2> QED
    BY <2>1, <2>2
<1>6. IsFold(h, kind, position, base, f, U)
  <2>1. h = [s \in SUBSET U |-> h[s]]
    OBVIOUS
  <2> HIDE DEF h
  <2> QED
    BY <1>5, <2>1 DEF IsFold
<1> QED
  BY <1>1, <1>6

\* What the fold makes of S.
FoldOf(kind, position, base, f, S) == (CHOOSE g : IsFold(g, kind, position, base, f, S))[S]

LEMMA FoldOfNothing ==
  ASSUME NEW kind, NEW position, NEW base, NEW f
  PROVE  FoldOf(kind, position, base, f, {}) = base
<1>1. Indices({})
  BY FS_EmptySet DEF Indices
<1>2. \E g : IsFold(g, kind, position, base, f, {})
  BY <1>1, FoldExists
<1>3. PICK g : g = (CHOOSE k : IsFold(k, kind, position, base, f, {}))
  OBVIOUS
<1>4. IsFold(g, kind, position, base, f, {})
  BY <1>2, <1>3
<1>5. g[{}] = base
  BY <1>4, FoldEmpty
<1> QED
  BY <1>3, <1>5 DEF FoldOf

\* One index more is one turn more.
LEMMA FoldOfMore ==
  ASSUME NEW kind, NEW position, NEW base, NEW f, NEW h, NEW n \in Nat,
         \A i \in 1 .. n : f[i] = h[i]
  PROVE  FoldOf(kind, position, base, h, 1 .. n + 1)
           = Turn(kind, position, FoldOf(kind, position, base, f, 1 .. n), h[n + 1])
<1>1. PICK S, U : S = 1 .. n /\ U = 1 .. n + 1
  OBVIOUS
<1>2. Indices(S) /\ Indices(U) /\ S \in SUBSET U
  BY <1>1, FS_Interval DEF Indices
<1>3. U # {} /\ U \in SUBSET U /\ S \in SUBSET S /\ Max(U) = n + 1 /\ U \ {n + 1} = S
  <2>1. n + 1 \in U /\ \A i \in U : n + 1 >= i
    BY <1>1
  <2>2. \A m \in U : (\A i \in U : m >= i) => m = n + 1
    BY <1>1, <2>1
  <2>3. Max(U) = n + 1
    BY <2>1, <2>2 DEF Max
  <2>4. U \ {n + 1} = S
    BY <1>1
  <2> QED
    BY <2>1, <2>3, <2>4
<1>4. PICK g : g = (CHOOSE k : IsFold(k, kind, position, base, h, U))
  OBVIOUS
<1>5. IsFold(g, kind, position, base, h, U)
  <2>1. \E k : IsFold(k, kind, position, base, h, U)
    BY <1>2, FoldExists
  <2> QED
    BY <1>4, <2>1
<1>6. PICK k : k = (CHOOSE j : IsFold(j, kind, position, base, f, S))
  OBVIOUS
<1>7. IsFold(k, kind, position, base, f, S)
  <2>1. \E j : IsFold(j, kind, position, base, f, S)
    BY <1>2, FoldExists
  <2> QED
    BY <1>6, <2>1
<1>8. IsFold([s \in SUBSET S |-> g[s]], kind, position, base, h, S)
  BY <1>2, <1>5, FoldRestricted
<1>9. k = [s \in SUBSET S |-> g[s]]
  <2>1. \A i \in S : f[i] = h[i]
    BY <1>1
  <2> QED
    BY <1>2, <1>7, <1>8, <2>1, FoldUnique
<1>10. k[S] = g[S]
  BY <1>3, <1>9
<1>11. g[U] = Turn(kind, position, g[S], h[n + 1])
  BY <1>3, <1>5, FoldStep
<1>12. FoldOf(kind, position, base, h, U) = g[U] /\ FoldOf(kind, position, base, f, S) = k[S]
  BY <1>4, <1>6 DEF FoldOf
<1> QED
  BY <1>1, <1>10, <1>11, <1>12

LEMMA FoldOfAppended ==
  ASSUME NEW kind, NEW position, NEW base, NEW T, NEW seq \in Seq(T), NEW x
  PROVE  FoldOf(kind, position, base, Append(seq, x), DOMAIN Append(seq, x))
           = Turn(kind, position, FoldOf(kind, position, base, seq, DOMAIN seq), x)
<1>1. PICK n \in Nat : n = Len(seq) /\ DOMAIN seq = 1 .. n
  OBVIOUS
<1>2. PICK h : h = Append(seq, x)
  OBVIOUS
<1>3. DOMAIN h = 1 .. n + 1 /\ h[n + 1] = x /\ \A i \in 1 .. n : seq[i] = h[i]
  BY <1>1, <1>2
<1>4. FoldOf(kind, position, base, h, 1 .. n + 1)
        = Turn(kind, position, FoldOf(kind, position, base, seq, 1 .. n), h[n + 1])
  <2>1. \A i \in 1 .. n : seq[i] = h[i]
    BY <1>3
  <2> QED
    BY <2>1, FoldOfMore
<1> QED
  BY <1>1, <1>2, <1>3, <1>4

\* The three folds of the replays, of any recorded sequence.
ExitsIn(events) == FoldLeft(AddExit, <<>>, events)
WalkStart(position) ==
  [left |-> position.quantity, pending |-> "none", lastStamp |-> NeverLeft, fills |-> <<>>]
WalkOver(position, rows) ==
  FoldLeft(LAMBDA walk, row : WalkRow(position, walk, row), WalkStart(position), rows)
BookStart(position) ==
  [left |-> position.quantity, cost |-> position.cost * position.quantity, matches |-> TRUE]
BookOver(position, exits) ==
  FoldLeft(LAMBDA b, e : AccountExit(position, b, e), BookStart(position), exits)

LEMMA ExitsFolded ==
  ASSUME NEW seq
  PROVE  ExitsIn(seq) = FoldOf("exits", Nothing, <<>>, seq, DOMAIN seq)
<1> DEFINE ByTurn(g) == g = [s \in SUBSET DOMAIN seq |->
                               IF s = {} THEN <<>> ELSE AddExit(g[s \ {Max(s)}], seq[Max(s)])]
<1>1. ASSUME NEW g PROVE ByTurn(g) <=> IsFold(g, "exits", Nothing, <<>>, seq, DOMAIN seq)
  BY DEF IsFold, Turn
<1>2. (CHOOSE g : ByTurn(g)) = (CHOOSE g : IsFold(g, "exits", Nothing, <<>>, seq, DOMAIN seq))
  <2> HIDE DEF ByTurn
  <2> QED
    BY <1>1
<1>3. ExitsIn(seq) = (CHOOSE g : ByTurn(g))[DOMAIN seq]
  BY DEF ExitsIn, FoldLeft, MapThenFoldSet
<1> QED
  BY <1>2, <1>3 DEF FoldOf

LEMMA WalkFolded ==
  ASSUME NEW position, NEW seq
  PROVE  WalkOver(position, seq) = FoldOf("walk", position, WalkStart(position), seq, DOMAIN seq)
<1> DEFINE ByTurn(g) == g = [s \in SUBSET DOMAIN seq |->
                               IF s = {} THEN WalkStart(position)
                               ELSE WalkRow(position, g[s \ {Max(s)}], seq[Max(s)])]
<1>1. ASSUME NEW g
      PROVE  ByTurn(g) <=> IsFold(g, "walk", position, WalkStart(position), seq, DOMAIN seq)
  BY DEF IsFold, Turn
<1>2. (CHOOSE g : ByTurn(g))
        = (CHOOSE g : IsFold(g, "walk", position, WalkStart(position), seq, DOMAIN seq))
  <2> HIDE DEF ByTurn
  <2> QED
    BY <1>1
<1>3. WalkOver(position, seq) = (CHOOSE g : ByTurn(g))[DOMAIN seq]
  BY DEF WalkOver, FoldLeft, MapThenFoldSet
<1> QED
  BY <1>2, <1>3 DEF FoldOf

LEMMA BookFolded ==
  ASSUME NEW position, NEW seq
  PROVE  BookOver(position, seq) = FoldOf("book", position, BookStart(position), seq, DOMAIN seq)
<1> DEFINE ByTurn(g) == g = [s \in SUBSET DOMAIN seq |->
                               IF s = {} THEN BookStart(position)
                               ELSE AccountExit(position, g[s \ {Max(s)}], seq[Max(s)])]
<1>1. ASSUME NEW g
      PROVE  ByTurn(g) <=> IsFold(g, "book", position, BookStart(position), seq, DOMAIN seq)
  BY DEF IsFold, Turn
<1>2. (CHOOSE g : ByTurn(g))
        = (CHOOSE g : IsFold(g, "book", position, BookStart(position), seq, DOMAIN seq))
  <2> HIDE DEF ByTurn
  <2> QED
    BY <1>1
<1>3. BookOver(position, seq) = (CHOOSE g : ByTurn(g))[DOMAIN seq]
  BY DEF BookOver, FoldLeft, MapThenFoldSet
<1> QED
  BY <1>2, <1>3 DEF FoldOf

\* What they start from, and what one more event, quote or exit makes of them.
LEMMA FoldsStart ==
  ASSUME NEW position
  PROVE  /\ ExitsIn(<<>>) = <<>>
         /\ WalkOver(position, <<>>) = WalkStart(position)
         /\ BookOver(position, <<>>) = BookStart(position)
<1>1. DOMAIN <<>> = {}
  OBVIOUS
<1> QED
  BY <1>1, ExitsFolded, WalkFolded, BookFolded, FoldOfNothing

LEMMA FoldsGrow ==
  ASSUME NEW position, NEW T, NEW seq \in Seq(T), NEW x
  PROVE  /\ ExitsIn(Append(seq, x)) = AddExit(ExitsIn(seq), x)
         /\ WalkOver(position, Append(seq, x)) = WalkRow(position, WalkOver(position, seq), x)
         /\ BookOver(position, Append(seq, x)) = AccountExit(position, BookOver(position, seq), x)
<1>1. PICK more : more = Append(seq, x)
  OBVIOUS
<1>2. ASSUME NEW kind, NEW base
      PROVE  FoldOf(kind, position, base, more, DOMAIN more)
               = Turn(kind, position, FoldOf(kind, position, base, seq, DOMAIN seq), x)
  BY <1>1, FoldOfAppended
<1>3. FoldOf("exits", Nothing, <<>>, more, DOMAIN more)
        = Turn("exits", Nothing, FoldOf("exits", Nothing, <<>>, seq, DOMAIN seq), x)
  BY <1>1, FoldOfAppended
<1>4. ExitsIn(more) = AddExit(ExitsIn(seq), x)
  BY <1>3, ExitsFolded DEF Turn
<1>5. WalkOver(position, more) = WalkRow(position, WalkOver(position, seq), x)
  BY <1>2, WalkFolded DEF Turn
<1>6. BookOver(position, more) = AccountExit(position, BookOver(position, seq), x)
  BY <1>2, BookFolded DEF Turn
<1> QED
  BY <1>1, <1>4, <1>5, <1>6

----------------------------------------------------------------------------
(* The replays of a session's evidence.                                    *)

\* The exits as the walk makes them.
Fill(e) == [reason |-> e.reason, price |-> e.price, quantity |-> e.quantity, stamp |-> e.stamp]
FillsIn(exits) == [i \in DOMAIN exits |-> Fill(exits[i])]

\* What replay_fills() asks of an entry.
EntryMatches(e) ==
  LET fill == BuyFill(e.read.offer.ask)
  IN  /\ ValidatedAt(e.at, e.plan.seen, e.plan, e.read, e.spotAt)
      /\ e.position.quantity = e.plan.quantity
      /\ e.position.cost = Paid(fill, e.plan.quantity)
      /\ \E l \in ExitLevels(Playbooks[e.plan.playbook], fill, e.plan.quantity) :
           e.position.stop = l.stop /\ e.position.target = l.target

\* What no sale changes of a position.
SameTrade(p, h) ==
  /\ h.symbol = p.symbol /\ h.kind = p.kind /\ h.quantity = p.quantity /\ h.cost = p.cost
  /\ h.stop = p.stop /\ h.target = p.target /\ h.invalidation = p.invalidation
  /\ h.entered = p.entered /\ h.deadline = p.deadline

\* Until it is bought, every plan was sized with the money there still is.
NotYet ==
  /\ holding = Nothing /\ quoteTape = <<>> /\ hidden = FALSE
  /\ mind.step = "asked" => \A p \in mind.plans : p.seen = Money
  /\ mind.step = "read" => mind.plan.seen = Money

\* The book of the recorded exits holds what the position does.
BookKept(p) ==
  /\ BookOver(p, Exits).matches = TRUE
  /\ holding # Nothing =>
       /\ BookOver(p, Exits).left = holding.left
       /\ BookOver(p, Exits).cost = holding.cost * holding.left

\* The walk of the recorded quotes has sold what the desk has.
WalkKept(p) ==
  /\ WalkOver(p, quoteTape).fills = FillsIn(Exits)
  /\ holding = Nothing => WalkOver(p, quoteTape).left = 0 /\ Exits # <<>>
  /\ holding # Nothing => WalkOver(p, quoteTape) = [left |-> holding.left, pending |-> ExitPending,
                                               lastStamp |-> holding.lastQuote,
                                               fills |-> FillsIn(Exits)]

SinceBought(e) ==
  /\ e.kind = "paper_entry" /\ EntryMatches(e)
  /\ mind = IdleMind
  /\ holding # Nothing => SameTrade(e.position, holding) /\ holding.entered <= clock
                          /\ holding.entered \in Int
  /\ BookKept(e.position)
  /\ hidden = FALSE => WalkKept(e.position)

ReplayInv ==
  /\ MoneyInv /\ clock \in Nat /\ hidden \in BOOLEAN
  /\ \E T : quoteTape \in Seq(T)
  /\ \E T : ledger \in Seq(T)
  /\ \E T : Exits \in Seq(T)
  /\ ledger = <<>> => NotYet
  /\ ledger # <<>> => SinceBought(ledger[1])

LEMMA ReplayOpens == ReplayInit => ReplayInv
<1> SUFFICES ASSUME ReplayInit PROVE ReplayInv
  OBVIOUS
<1>1. TradesInit /\ quoteTape = <<>> /\ ledger = <<>> /\ hidden = FALSE
  BY DEF ReplayInit
<1>2. MoneyInv
  BY <1>1, MoneyStart
<1>3. clock = 0 /\ holding = Nothing /\ mind.step = "idle"
  BY <1>1 DEF TradesInit, IdleMind
<1>4. Exits = <<>>
  BY <1>1, FoldsStart DEF Exits, ExitsIn
<1>5. quoteTape \in Seq({}) /\ ledger \in Seq({}) /\ Exits \in Seq({})
  BY <1>1, <1>4
<1>6. NotYet
  BY <1>1, <1>3 DEF NotYet
<1> QED
  BY <1>1, <1>2, <1>3, <1>5, <1>6 DEF ReplayInv

\* A step that leaves the evidence and the position leaves what they replay to.
LEMMA NothingRecorded ==
  ASSUME ReplayInv, UNCHANGED <<quoteTape, ledger, hidden, holding>>, MoneyInv', clock' \in Nat,
         clock <= clock', ledger # <<>> => mind' = mind, ledger = <<>> => NotYet'
  PROVE  ReplayInv'
<1>1. Exits' = Exits /\ ExitPending' = ExitPending
  BY DEF Exits, ExitPending
<1>2. ASSUME ledger # <<>> PROVE SinceBought(ledger[1])'
  <2>1. PICK e : e = ledger[1]
    OBVIOUS
  <2>2. SinceBought(e) /\ mind' = mind
    BY <1>2, <2>1 DEF ReplayInv
  <2>3. BookKept(e.position)'
    BY <1>1, <2>2 DEF SinceBought, BookKept
  <2>4. hidden = FALSE => WalkKept(e.position)'
    BY <1>1, <2>2 DEF SinceBought, WalkKept
  <2>5. holding' # Nothing => SameTrade(e.position, holding') /\ holding'.entered <= clock'
                              /\ holding'.entered \in Int
    BY <2>2 DEF SinceBought, ReplayInv
  <2> QED
    BY <1>1, <2>1, <2>2, <2>3, <2>4, <2>5 DEF SinceBought
<1> QED
  BY <1>1, <1>2 DEF ReplayInv

LEMMA ReplayScans ==
  ASSUME ReplayInv, NEW chart, NEW offered \in [Listed -> Offers], ledger = <<>>,
         ScanChart(chart, clock, Strikes, offered), UNCHANGED <<quoteTape, ledger, hidden>>
  PROVE  ReplayInv'
<1>1. {c \in Listed : Contracts[c].strike \in Strikes} = Listed
  BY DEF Strikes
<1>2. MoneyInv'
  <2>1. PICK K : K = Strikes
    OBVIOUS
  <2>2. offered \in [{c \in Listed : Contracts[c].strike \in K} -> Offers]
    BY <1>1, <2>1
  <2>3. ScanChart(chart, clock, K, offered) /\ MoneyInv
    BY <2>1 DEF ReplayInv
  <2> QED
    BY <2>2, <2>3, ScanMoney
<1>3. PICK scan : /\ mind'.step = "asked" /\ mind'.plans = SelectedPlans(scan)
                  /\ UNCHANGED <<clock, purse, holding, tally>>
  BY DEF ScanChart
<1>4. \A p \in SelectedPlans(scan) : p.seen = Money
  BY DEF SelectedPlans, PlansFor, PlanFrom
<1>5. Money' = Money
  BY <1>3 DEF Money
<1>6. NotYet'
  BY <1>3, <1>4, <1>5 DEF ReplayInv, NotYet
<1> QED
  BY <1>2, <1>3, <1>6, NothingRecorded DEF ReplayInv

LEMMA ReplayChooses ==
  ASSUME ReplayInv, NEW plan, NEW offer \in Offers, NEW spot,
         Choose(plan, offer, clock, spot, clock), UNCHANGED <<quoteTape, ledger, hidden>>
  PROVE  ReplayInv'
<1>1. /\ mind.step = "asked" /\ plan \in mind.plans /\ UNCHANGED <<clock, purse, holding, tally>>
      /\ mind'.step = "read" /\ mind'.plan = plan /\ mind'.with.offer = offer
  BY DEF Choose
<1>2. MindOK'
  BY <1>1 DEF ReplayInv, MoneyInv, MindOK, Made
<1>3. MoneyInv'
  BY <1>1, <1>2 DEF ReplayInv, MoneyInv, PurseOK, TallyOK, Flat, HeldOK, Covered, Room, Drift
<1>4. ledger = <<>>
  BY <1>1 DEF ReplayInv, SinceBought, IdleMind
<1>5. Money' = Money
  BY <1>1 DEF Money
<1>6. NotYet'
  BY <1>1, <1>4, <1>5 DEF ReplayInv, NotYet
<1> QED
  BY <1>1, <1>3, <1>4, <1>6, NothingRecorded DEF ReplayInv

LEMMA ReplayPasses ==
  ASSUME ReplayInv, Pass, UNCHANGED <<quoteTape, ledger, hidden>>
  PROVE  ReplayInv'
<1>1. clock' = clock + 1 /\ UNCHANGED <<purse, holding, mind, tally>>
  BY DEF Pass
<1>2. MoneyInv'
  BY <1>1 DEF ReplayInv, MoneyInv, PurseOK, TallyOK, MindOK, Made, Flat, HeldOK, Covered, Room, Drift
<1>3. Money' = Money
  BY <1>1 DEF Money
<1>4. ledger = <<>> => NotYet'
  BY <1>1, <1>3 DEF ReplayInv, NotYet
<1>5. clock' \in Nat /\ clock <= clock'
  BY <1>1 DEF ReplayInv
<1> QED
  BY <1>1, <1>2, <1>4, <1>5, NothingRecorded

LEMMA HeldIsHeld == ASSUME NEW h, HeldOK(h) PROVE h # Nothing
<1>1. "left" \in DOMAIN h
  BY DEF HeldOK
<1>2. "left" \notin DOMAIN Nothing
  BY DEF Nothing
<1> QED
  BY <1>1, <1>2

LEMMA ReplayBuys ==
  ASSUME ReplayInv, Bought
  PROVE  ReplayInv'
<1>1. PICK e : /\ e = [kind |-> "paper_entry", at |-> clock, plan |-> mind.plan,
                       read |-> mind.with, spotAt |-> mind.spotAt, position |-> holding']
               /\ ledger' = Append(ledger, e) /\ UNCHANGED <<quoteTape, hidden>> /\ EnterTrade
  BY DEF Bought
<1>2. /\ mind.step = "read" /\ mind' = IdleMind /\ clock' = clock
      /\ Validated(mind.plan, mind.with, mind.spotAt)
  BY <1>1 DEF EnterTrade
<1>3. ledger = <<>> /\ quoteTape = <<>> /\ hidden = FALSE /\ mind.plan.seen = Money /\ MoneyInv
  BY <1>2 DEF ReplayInv, SinceBought, NotYet, IdleMind
<1>4. ledger' = <<e>> /\ ledger'[1] = e /\ ledger' # <<>> /\ ledger' \in Seq({e})
  BY <1>1, <1>3
<1>5. MoneyInv'
  BY <1>1, <1>3, EnterMoney
<1>6. PICK levels, p :
        /\ levels \in ExitLevels(Playbooks[mind.plan.playbook], BuyFill(mind.with.offer.ask),
                                 mind.plan.quantity)
        /\ p = holding'
        /\ p = [symbol |-> mind.plan.symbol, kind |-> mind.plan.kind,
                quantity |-> mind.plan.quantity, left |-> mind.plan.quantity,
                cost |-> Paid(BuyFill(mind.with.offer.ask), mind.plan.quantity),
                stop |-> levels.stop, target |-> levels.target, risk |-> levels.risk,
                invalidation |-> mind.plan.invalidation, entered |-> clock,
                deadline |-> clock + Playbooks[mind.plan.playbook].hold,
                lastQuote |-> NeverLeft, pending |-> FALSE]
  BY <1>1 DEF EnterTrade
<1>7. /\ p.quantity = mind.plan.quantity /\ p.left = p.quantity /\ p.lastQuote = NeverLeft
      /\ p.cost = Paid(BuyFill(mind.with.offer.ask), mind.plan.quantity)
      /\ p.stop = levels.stop /\ p.target = levels.target /\ p.entered = clock
      /\ p.pending = FALSE
  BY <1>6
<1>8. p # Nothing
  <2>1. "left" \in DOMAIN p
    BY <1>6
  <2>2. "left" \notin DOMAIN Nothing
    BY DEF Nothing
  <2> QED
    BY <2>1, <2>2
<1>9. EntryMatches(e)
  <2>1. ValidatedAt(e.at, e.plan.seen, e.plan, e.read, e.spotAt)
    BY <1>1, <1>2, <1>3 DEF Validated
  <2>2. e.position = p /\ e.plan = mind.plan /\ e.read = mind.with
    BY <1>1, <1>6
  <2> QED
    BY <1>6, <1>7, <2>1, <2>2 DEF EntryMatches
<1>10. Exits' = <<>>
  <2>1. Exits' = ExitsIn(Append(<<>>, e))
    BY <1>1, <1>3 DEF Exits, ExitsIn
  <2>2. ExitsIn(Append(<<>>, e)) = AddExit(<<>>, e)
    BY FoldsStart, FoldsGrow, EmptySeq
  <2>3. e.kind = "paper_entry"
    BY <1>1
  <2> QED
    BY <2>1, <2>2, <2>3 DEF AddExit
<1>11. quoteTape' = <<>> /\ e.position = p /\ e.kind = "paper_entry" /\ hidden' = FALSE
  BY <1>1, <1>3, <1>6
<1>12. BookKept(p)'
  BY <1>6, <1>7, <1>10, FoldsStart DEF BookKept, BookStart
<1>13. WalkKept(p)'
  <2>1. ExitPending' = "none"
    BY <1>6, <1>7 DEF ExitPending
  <2>2. FillsIn(Exits') = <<>>
    BY <1>10 DEF FillsIn
  <2>3. WalkOver(p, quoteTape') = [left |-> p.left, pending |-> "none", lastStamp |-> p.lastQuote,
                              fills |-> <<>>]
    BY <1>7, <1>11, FoldsStart DEF WalkStart
  <2> QED
    BY <1>6, <1>8, <2>1, <2>2, <2>3 DEF WalkKept
<1>14. SinceBought(e)'
  BY <1>2, <1>6, <1>7, <1>9, <1>11, <1>12, <1>13 DEF SinceBought, SameTrade, ReplayInv
<1>15. quoteTape' \in Seq({}) /\ Exits' \in Seq({})
  BY <1>10, <1>11
<1>16. (\E T : quoteTape \in Seq(T))' /\ (\E T : ledger \in Seq(T))' /\ (\E T : Exits \in Seq(T))'
  BY <1>4, <1>15
<1>17. (ledger = <<>> => NotYet)' /\ (ledger # <<>> => SinceBought(ledger[1]))'
  BY <1>4, <1>14
<1>18. clock' \in Nat /\ hidden' \in BOOLEAN
  BY <1>2, <1>11 DEF ReplayInv
<1> QED
  BY <1>5, <1>16, <1>17, <1>18 DEF ReplayInv

\* Reasons are looked through in order: lists that say the same give the same.
LEMMA LeastOfSix == ASSUME NEW E \in SUBSET (1 .. 6), E # {} PROVE Min(E) \in E
<1>1. \E m \in E : \A y \in E : m <= y
  <2>1. CASE 1 \in E
    BY <2>1
  <2>2. CASE 1 \notin E /\ 2 \in E
    BY <2>2
  <2>3. CASE {1, 2} \cap E = {} /\ 3 \in E
    BY <2>3
  <2>4. CASE {1, 2, 3} \cap E = {} /\ 4 \in E
    BY <2>4
  <2>5. CASE {1, 2, 3, 4} \cap E = {} /\ 5 \in E
    BY <2>5
  <2>6. CASE {1, 2, 3, 4, 5} \cap E = {}
    <3>1. \A x \in E : x \in 1 .. 6 /\ x \notin {1, 2, 3, 4, 5}
      BY <2>6
    <3>2. \A x \in E : x = 6
      BY <3>1
    <3>3. PICK x \in E : TRUE
      OBVIOUS
    <3>4. x = 6 /\ \A y \in E : y = 6 /\ x <= y
      BY <3>2
    <3> QED
      BY <3>4
  <2> QED
    BY <2>1, <2>2, <2>3, <2>4, <2>5, <2>6
<1> QED
  BY <1>1 DEF Min

LEMMA SameFirst ==
  ASSUME NEW l, NEW m, DOMAIN l = 1 .. 6, DOMAIN m = 1 .. 6,
         \A i \in 1 .. 6 : (l[i][1] <=> m[i][1]) /\ l[i][2] = m[i][2]
  PROVE  FirstReason(l) = FirstReason(m)
<1>1. PICK E : E = {i \in 1 .. 6 : l[i][1]} /\ E = {i \in 1 .. 6 : m[i][1]}
  OBVIOUS
<1>2. FirstReason(l) = (IF E = {} THEN "none" ELSE l[Min(E)][2])
      /\ FirstReason(m) = (IF E = {} THEN "none" ELSE m[Min(E)][2])
  BY <1>1 DEF FirstReason
<1>3. E # {} => Min(E) \in 1 .. 6
  BY <1>1, LeastOfSix
<1> QED
  BY <1>2, <1>3

LEMMA FirstStands ==
  ASSUME NEW l, DOMAIN l = 1 .. 6, l[1][1]
  PROVE  FirstReason(l) = l[1][2]
<1>1. PICK E : E = {i \in 1 .. 6 : l[i][1]}
  OBVIOUS
<1>2. 1 \in E /\ E \in SUBSET (1 .. 6)
  BY <1>1
<1>3. Min(E) = 1
  <2>1. 1 \in E /\ \A y \in E : 1 <= y
    BY <1>2
  <2>2. \A m \in E : (\A y \in E : m <= y) => m = 1
    BY <1>2
  <2> QED
    BY <2>1, <2>2 DEF Min
<1>4. FirstReason(l) = IF E = {} THEN "none" ELSE l[Min(E)][2]
  BY <1>1 DEF FirstReason
<1> QED
  BY <1>2, <1>3, <1>4

\* The desk leaves for the reason the walk gives, unless it is halted.
LEMMA SameReasons ==
  ASSUME NEW p, SameTrade(p, holding), NEW row, row.at = clock, NEW told, NEW walk,
         walk.pending = ExitPending
  PROVE  /\ Halted(row, told) => DeskReason(row, told) = "session_stop"
         /\ ~Halted(row, told) => DeskReason(row, told) = WalkReason(p, walk, row)
<1> DEFINE price == SellFill(row.offer.bid)
           l == << <<Halted(row, told) \/ clock >= Ending, "session_stop">>,
                   <<ExitPending # "none", ExitPending>>,
                   <<price <= holding.stop, "stop_loss">>,
                   <<price >= holding.target, "take_profit">>,
                   <<Invalidated(row.spot, row.spotAt), "underlying_invalidation">>,
                   <<clock >= holding.deadline, "playbook_time_exit">> >>
           m == << <<row.at >= Ending, "session_stop">>,
                   <<walk.pending # "none", walk.pending>>,
                   <<price <= p.stop, "stop_loss">>,
                   <<price >= p.target, "take_profit">>,
                   <<UnderlyingExit(p, row.at, row.spot, row.spotAt), "underlying_invalidation">>,
                   <<row.at >= p.deadline, "playbook_time_exit">> >>
<1>1. DeskReason(row, told) = FirstReason(l) /\ WalkReason(p, walk, row) = FirstReason(m)
  BY DEF DeskReason, WalkReason
<1>2. DOMAIN l = 1 .. 6 /\ DOMAIN m = 1 .. 6
  OBVIOUS
<1>3. l[1][1] <=> (Halted(row, told) \/ clock >= Ending)
  OBVIOUS
<1>4. l[1][2] = "session_stop"
  OBVIOUS
<1>5. ASSUME ~Halted(row, told), NEW i \in 1 .. 6
      PROVE  (l[i][1] <=> m[i][1]) /\ l[i][2] = m[i][2]
  <2>1. /\ p.stop = holding.stop /\ p.target = holding.target /\ p.deadline = holding.deadline
        /\ p.kind = holding.kind /\ p.entered = holding.entered
        /\ p.invalidation = holding.invalidation
    BY DEF SameTrade
  <2>2. UnderlyingExit(p, row.at, row.spot, row.spotAt) <=> Invalidated(row.spot, row.spotAt)
    BY <2>1 DEF UnderlyingExit, Invalidated
  <2> HIDE DEF price
  <2>3. l[1][1] <=> m[1][1]
    BY <1>5
  <2>4. (l[2][1] <=> m[2][1]) /\ l[2][2] = m[2][2]
    OBVIOUS
  <2>5. (l[3][1] <=> m[3][1]) /\ (l[4][1] <=> m[4][1])
    BY <2>1
  <2>6. l[5][1] <=> m[5][1]
    BY <2>2
  <2>7. l[6][1] <=> m[6][1]
    BY <2>1
  <2>8. /\ l[1][2] = m[1][2] /\ l[3][2] = m[3][2] /\ l[4][2] = m[4][2] /\ l[5][2] = m[5][2]
        /\ l[6][2] = m[6][2]
    OBVIOUS
  <2>9. i = 1 \/ i = 2 \/ i = 3 \/ i = 4 \/ i = 5 \/ i = 6
    OBVIOUS
  <2> HIDE DEF l, m
  <2> QED
    BY <2>3, <2>4, <2>5, <2>6, <2>7, <2>8, <2>9
<1> HIDE DEF l, m
<1>6. ASSUME Halted(row, told) PROVE DeskReason(row, told) = "session_stop"
  BY <1>1, <1>2, <1>3, <1>4, <1>6, FirstStands
<1>7. ASSUME ~Halted(row, told) PROVE DeskReason(row, told) = WalkReason(p, walk, row)
  BY <1>1, <1>2, <1>5, <1>7, SameFirst
<1> QED
  BY <1>6, <1>7

LEMMA FillsGrow ==
  ASSUME NEW T, NEW exits \in Seq(T), NEW e
  PROVE  FillsIn(Append(exits, e)) = Append(FillsIn(exits), Fill(e))
<1>1. PICK n \in Nat : n = Len(exits) /\ DOMAIN exits = 1 .. n
  OBVIOUS
<1>2. PICK more : /\ more = Append(exits, e) /\ DOMAIN more = 1 .. n + 1 /\ more[n + 1] = e
                  /\ \A i \in 1 .. n : more[i] = exits[i]
  <2>1. PICK more : more = Append(exits, e)
    OBVIOUS
  <2>2. DOMAIN more = 1 .. n + 1 /\ more[n + 1] = e /\ \A i \in 1 .. n : more[i] = exits[i]
    BY <1>1, <2>1
  <2> QED
    BY <2>1, <2>2
<1>3. PICK f : f = FillsIn(exits)
  OBVIOUS
<1>a. PICK V : V = {Fill(exits[i]) : i \in 1 .. n}
  OBVIOUS
<1>b. f = [i \in 1 .. n |-> Fill(exits[i])]
  BY <1>1, <1>3 DEF FillsIn
<1>4. f \in [1 .. n -> V] /\ f \in Seq(V) /\ Len(f) = n
  <2>1. \A i \in 1 .. n : Fill(exits[i]) \in V
    BY <1>a
  <2>2. f \in [1 .. n -> V]
    <3> HIDE DEF Fill
    <3> QED
      BY <1>b, <2>1
  <2> QED
    BY <2>2
<1>5. PICK g : g = Append(f, Fill(e))
  OBVIOUS
<1>6. g = [i \in 1 .. n + 1 |-> IF i = n + 1 THEN Fill(e) ELSE f[i]]
  <2>1. PICK x : x = Fill(e)
    OBVIOUS
  <2>2. PICK W : W = V \cup {x} /\ f \in Seq(W) /\ x \in W
    <3>1. f \in Seq(V \cup {x})
      BY <1>4
    <3> QED
      BY <3>1
  <2>3. /\ g \in Seq(W) /\ Len(g) = n + 1 /\ g[n + 1] = x
        /\ \A i \in 1 .. n : g[i] = f[i]
    BY <1>4, <1>5, <2>1, <2>2
  <2>4. g = [i \in 1 .. n + 1 |-> g[i]]
    BY <2>3
  <2>5. \A i \in 1 .. n + 1 : g[i] = IF i = n + 1 THEN x ELSE f[i]
    BY <2>3
  <2> QED
    BY <2>1, <2>4, <2>5
<1>7. FillsIn(more) = [i \in 1 .. n + 1 |-> Fill(more[i])]
  BY <1>2 DEF FillsIn
<1>8. \A i \in 1 .. n + 1 : Fill(more[i]) = IF i = n + 1 THEN Fill(e) ELSE f[i]
  <2> SUFFICES ASSUME NEW i \in 1 .. n + 1
               PROVE  Fill(more[i]) = IF i = n + 1 THEN Fill(e) ELSE f[i]
    OBVIOUS
  <2>1. i # n + 1 => i \in 1 .. n /\ f[i] = Fill(exits[i]) /\ more[i] = exits[i]
    BY <1>b, <1>2
  <2> QED
    BY <1>2, <2>1
<1>9. FillsIn(more) = g
  BY <1>6, <1>7, <1>8
<1> QED
  BY <1>2, <1>3, <1>5, <1>9

\* A sale is accounted by replay_fills() as _close() booked it: its share of the cost that
\* is left is the share of the cost there was.
Booked(p, b, left, cost, q, e) ==
  /\ b.matches = TRUE /\ b.left = left /\ b.cost = cost * left
  /\ e.quantity = q /\ e.price = SellFill(e.offer.bid)
  /\ q = WholeLotsOf(Least(left, e.offer.bidSize), Contracts[p.symbol])
  /\ e.pnl = HalfEven(Proceeds(e.price, q) * p.quantity - cost * q, p.quantity)
  /\ e.closed = (q = left)

LEMMA FillKept ==
  ASSUME NEW p, NEW b, NEW left \in Nat \ {0}, NEW cost \in Int, NEW q \in Nat \ {0}, NEW e,
         Booked(p, b, left, cost, q, e)
  PROVE  AccountExit(p, b, e) = [left |-> left - q, cost |-> cost * (left - q), matches |-> TRUE]
<1>b. /\ b.matches = TRUE /\ b.left = left /\ b.cost = cost * left
      /\ e.quantity = q /\ e.price = SellFill(e.offer.bid) /\ q > 0 /\ q \in Int
      /\ q = WholeLotsOf(Least(left, e.offer.bidSize), Contracts[p.symbol])
      /\ e.pnl = HalfEven(Proceeds(e.price, q) * p.quantity - cost * q, p.quantity)
      /\ e.closed = (q = left)
  BY DEF Booked
<1>1. (b.cost * q) \div b.left = cost * q
  <2>1. PICK x, d : x = (cost * left) * q /\ d = cost * q /\ x \in Int /\ d \in Int
    BY <1>b
  <2>2. d * left = x
    BY <2>1
  <2>3. x \div left = d
    BY <2>1, <2>2, DivIs
  <2> QED
    BY <1>b, <2>1, <2>3
<1>2. b.cost - cost * q = cost * (left - q)
  BY <1>b
<1>3. /\ b.matches /\ q = WholeLotsOf(Least(b.left, e.offer.bidSize), Contracts[p.symbol])
      /\ e.pnl = HalfEven(Proceeds(e.price, q) * p.quantity - (b.cost * q) \div b.left, p.quantity)
      /\ e.closed = (q = b.left)
  BY <1>b, <1>1
<1>4. PICK basis : basis = (b.cost * q) \div b.left
  OBVIOUS
<1>5. (/\ b.matches /\ q = WholeLotsOf(Least(b.left, e.offer.bidSize), Contracts[p.symbol])
       /\ q > 0 /\ e.price = SellFill(e.offer.bid)
       /\ e.pnl = HalfEven(Proceeds(e.price, q) * p.quantity - basis, p.quantity)
       /\ e.closed = (q = b.left)) = TRUE
  BY <1>b, <1>3, <1>4
<1>6. AccountExit(p, b, e) = [left |-> b.left - q, cost |-> b.cost - basis, matches |-> TRUE]
  BY <1>b, <1>4, <1>5 DEF AccountExit
<1> QED
  BY <1>b, <1>1, <1>2, <1>4, <1>6

\* A quote on which the desk does not sell, the walk does not sell on either.
LEMMA NotSold ==
  ASSUME ReplayInv, holding # Nothing, NEW row, row.at = clock, NEW told,
         quoteTape' = Append(quoteTape, row), ~Leaving(row, told), UNCHANGED <<tradeVars, ledger, hidden>>
  PROVE  ReplayInv'
<1>1. PICK e : e = ledger[1] /\ ledger # <<>> /\ SinceBought(e)
  BY DEF ReplayInv, NotYet
<1>2. PICK p : p = e.position
  OBVIOUS
<1>3. SameTrade(p, holding) /\ BookKept(p) /\ (hidden = FALSE => WalkKept(p))
  BY <1>1, <1>2 DEF SinceBought
<1>4. UNCHANGED <<clock, purse, holding, mind, tally>>
  BY DEF tradeVars
<1>5. Exits' = Exits /\ ExitPending' = ExitPending
  BY <1>4 DEF Exits, ExitPending
<1>6. PICK T : quoteTape \in Seq(T)
  BY DEF ReplayInv
<1>7. PICK more : more = quoteTape' /\ more = Append(quoteTape, row) /\ more \in Seq(T \cup {row})
  BY <1>6
<1>8. ASSUME hidden = FALSE PROVE WalkKept(p)'
  <2>1. PICK walk : walk = WalkOver(p, quoteTape)
    OBVIOUS
  <2>2. walk = [left |-> holding.left, pending |-> ExitPending, lastStamp |-> holding.lastQuote,
                fills |-> FillsIn(Exits)]
    BY <1>3, <1>8, <2>1 DEF WalkKept
  <2>3. WalkOver(p, more) = WalkRow(p, walk, row)
    BY <1>6, <1>7, <2>1, FoldsGrow
  <2>4. ASSUME IsQuote(p.entered, row), NewQuote(walk, row), SellFill(row.offer.bid) > 0,
               WalkReason(p, walk, row) # "none",
               WholeLotsOf(Least(walk.left, row.offer.bidSize), Contracts[p.symbol]) > 0
        PROVE  FALSE
    <3>1. Aged(row.stamp, QuoteAge) /\ row.stamp # holding.lastQuote
      BY <2>2, <2>4 DEF IsQuote, NewQuote, Aged
    <3>2. LotsBid(row.offer) > 0
      BY <1>3, <2>2, <2>4 DEF LotsBid, SameTrade
    <3>3. SellableAt(row.offer, row.stamp)
      BY <2>4, <3>1, <3>2 DEF SellableAt
    <3>4. walk.pending = ExitPending
      BY <2>2
    <3>5. DeskReason(row, told) # "none"
      BY <1>3, <2>4, <3>4, SameReasons
    <3> QED
      BY <3>3, <3>5 DEF Leaving
  <2>5. WalkRow(p, walk, row) = walk
    BY <2>4 DEF WalkRow
  <2>6. WalkOver(p, quoteTape') = walk
    BY <1>7, <2>3, <2>5
  <2> QED
    BY <1>3, <1>4, <1>5, <1>8, <2>1, <2>6 DEF WalkKept
<1>9. BookKept(p)'
  BY <1>3, <1>4, <1>5 DEF BookKept
<1>10. SinceBought(e)'
  BY <1>1, <1>2, <1>4, <1>8, <1>9 DEF SinceBought
<1>11. MoneyInv'
  BY <1>4 DEF ReplayInv, MoneyInv, PurseOK, TallyOK, MindOK, Made, Flat, HeldOK, Covered, Room, Drift
<1>12. (\E S : quoteTape \in Seq(S))' /\ (\E S : ledger \in Seq(S))' /\ (\E S : Exits \in Seq(S))'
  BY <1>5, <1>7 DEF ReplayInv
<1>13. (ledger = <<>> => NotYet)' /\ (ledger # <<>> => SinceBought(ledger[1]))'
  BY <1>1, <1>10
<1> QED
  BY <1>4, <1>11, <1>12, <1>13 DEF ReplayInv

\* The lots that are sold are some of those held.
LEMMA LotsSold ==
  ASSUME HeldOK(holding), NEW offer \in Offers, LotsBid(offer) > 0
  PROVE  LotsBid(offer) \in Nat \ {0} /\ LotsBid(offer) <= holding.left
<1>1. PICK contract, units : /\ contract = Contracts[holding.symbol]
                             /\ units = Least(holding.left, offer.bidSize)
                             /\ contract.lot \in Nat \ {0}
  BY ListedContract DEF HeldOK
<1>2. PICK left : left = holding.left /\ left \in Nat
  BY DEF HeldOK
<1>3. offer.bidSize \in Int
  BY TradesAssumption
<1>4. units \in Int /\ units <= left
  BY <1>1, <1>2, <1>3 DEF Least
<1>5. PICK q : q = LotsBid(offer) /\ q = WholeLotsOf(units, contract) /\ q > 0
  BY <1>1 DEF LotsBid
<1>6. q \in Int /\ q <= units
  BY <1>1, <1>4, <1>5, LotsOfWithin
<1> QED
  BY <1>2, <1>4, <1>5, <1>6

\* A sale turns the walk as it turns the desk, and the book of its exits.
LEMMA Sold ==
  ASSUME ReplayInv, holding # Nothing, NEW row, row.at = clock, row.offer \in Offers,
         row.stamp \in Int, NEW told, quoteTape' = Append(quoteTape, row), SoldOn(row, told)
  PROVE  ReplayInv'
<1>1. PICK e : e = ledger[1] /\ ledger # <<>> /\ SinceBought(e)
  BY DEF ReplayInv, NotYet
<1>2. PICK p : p = e.position
  OBVIOUS
<1>3. SameTrade(p, holding) /\ BookKept(p) /\ (hidden = FALSE => WalkKept(p)) /\ mind = IdleMind
      /\ holding.entered <= clock /\ holding.entered \in Int /\ HeldOK(holding) /\ PurseOK
  BY <1>1, <1>2 DEF SinceBought, ReplayInv, MoneyInv
<1>4. PICK q, price, h :
        /\ q = LotsBid(row.offer) /\ price = SellFill(row.offer.bid)
        /\ h = HalfEven(Proceeds(price, q) * holding.quantity - Share(q), holding.quantity)
  OBVIOUS
<1>5. /\ SellableAt(row.offer, row.stamp) /\ UNCHANGED <<clock, mind>>
      /\ purse' = [purse EXCEPT !.cash = @ + Proceeds(price, q), !.realized = @ + h,
                                !.lastExit = IF q = holding.left THEN clock ELSE @]
      /\ holding' = IF q = holding.left THEN Nothing
                    ELSE [holding EXCEPT !.left = @ - q, !.lastQuote = row.stamp, !.pending = TRUE]
  BY <1>4 DEF SoldOn, MonitorPosition, Sell
<1>6. PICK x : /\ x = [kind |-> "paper_exit", reason |-> DeskReason(row, told),
                       quantity |-> LotsBid(row.offer), price |-> SellFill(row.offer.bid),
                       offer |-> row.offer, stamp |-> row.stamp,
                       pnl |-> purse'.realized - purse.realized, closed |-> holding' = Nothing]
               /\ ledger' = Append(ledger, x)
  BY DEF SoldOn
<1>7. MoneyInv'
  <2>1. PICK also : MonitorPosition(row.offer, row.stamp, row.spot, row.spotAt, also)
    BY DEF SoldOn
  <2> QED
    BY <2>1, SellMoney DEF ReplayInv
<1>8. q \in Nat \ {0} /\ q > 0 /\ q <= holding.left
  BY <1>3, <1>4, <1>5, LotsSold DEF SellableAt
<1>9. PICK left, cost : /\ left = holding.left /\ cost = holding.cost
                        /\ left \in Nat \ {0} /\ cost \in Int
  BY <1>3 DEF HeldOK
<1>10. q = left => holding' = Nothing
  BY <1>5, <1>9
<1>11. q # left => /\ holding' = [holding EXCEPT !.left = @ - q, !.lastQuote = row.stamp,
                                                 !.pending = TRUE]
                   /\ holding'.left = left - q /\ holding'.lastQuote = row.stamp
                   /\ holding'.pending = TRUE /\ holding'.cost = cost
                   /\ SameTrade(p, holding') /\ holding'.entered = holding.entered
                   /\ holding' # Nothing
  <2>1. "left" \notin DOMAIN Nothing
    BY DEF Nothing
  <2>2. PICK old, now : old = holding /\ now = holding' /\ HeldOK(old)
    BY <1>3
  <2>3. ASSUME q # left
        PROVE  now = [old EXCEPT !.left = @ - q, !.lastQuote = row.stamp, !.pending = TRUE]
    BY <1>5, <1>9, <2>2, <2>3
  <2>4. ASSUME q # left
        PROVE  /\ now.left = left - q /\ now.lastQuote = row.stamp
               /\ now.pending = TRUE /\ now.cost = cost /\ "left" \in DOMAIN now
               /\ now.symbol = old.symbol /\ now.kind = old.kind /\ now.quantity = old.quantity
               /\ now.cost = old.cost /\ now.stop = old.stop /\ now.target = old.target
               /\ now.invalidation = old.invalidation /\ now.entered = old.entered
               /\ now.deadline = old.deadline
    BY <1>9, <2>2, <2>3, <2>4 DEF HeldOK
  <2> QED
    BY <1>3, <2>1, <2>2, <2>3, <2>4 DEF SameTrade
<1>12. x.closed = (q = left)
  BY <1>6, <1>10, <1>11
<1>13. x.pnl = HalfEven(Proceeds(x.price, q) * p.quantity - cost * q, p.quantity)
  <2>1. PICK realized, Q : /\ realized = purse.realized /\ realized \in Int
                           /\ Q = holding.quantity /\ Q = p.quantity
    BY <1>3 DEF PurseOK, SameTrade
  <2>2. purse'.realized = realized + h
    BY <1>3, <1>5, <2>1 DEF PurseOK
  <2>3. PICK after : after = purse'.realized /\ after \in Int
    BY <1>7 DEF MoneyInv, PurseOK
  <2>4. h = HalfEven(Proceeds(price, q) * Q - cost * q, Q)
    BY <1>4, <1>9, <2>1 DEF Share
  <2>5. h \in Int
    <3>1. price \in Int /\ Q \in Nat \ {0}
      <4>1. PICK offer \in Offers : offer = row.offer
        OBVIOUS
      <4>2. offer.bid \in Nat
        BY TradesAssumption
      <4>a. PICK b : b = row.offer.bid /\ b \in Nat
        BY <4>1, <4>2
      <4>b. (b * 999) \div 1000 \in Int
        BY <4>a
      <4>3. price \in Int
        BY <1>4, <4>a, <4>b DEF SellFill
      <4> QED
        BY <1>3, <2>1, <4>3 DEF HeldOK
    <3>2. PICK a : a = Proceeds(price, q) /\ a \in Int
      <4>a. SellRate \in Nat /\ Paise \in Nat /\ FixedCost \in Nat
        BY TradesAssumption
      <4>1. PICK s, i, f : s = SellRate /\ i = Paise /\ f = FixedCost
                           /\ s \in Int /\ i \in Int /\ f \in Int
        BY <4>a
      <4>2. price * q * i - (f + price * q * s) \in Int
        BY <1>8, <3>1, <4>1
      <4> QED
        BY <4>1, <4>2 DEF Proceeds, Worth, SellFees
    <3>3. PICK y : y = a * Q - cost * q /\ y \in Int
      BY <1>8, <1>9, <3>1, <3>2
    <3>4. h = HalfEven(y, Q)
      BY <2>4, <3>2, <3>3
    <3> QED
      BY <3>1, <3>3, <3>4, Halved
  <2>6. x.pnl = h
    <3>1. x.pnl = after - realized
      BY <1>6, <2>1, <2>3
    <3> QED
      BY <2>1, <2>2, <2>3, <2>5, <3>1
  <2>7. x.price = price
    BY <1>4, <1>6
  <2> QED
    BY <2>1, <2>4, <2>6, <2>7
<1>14. /\ x.quantity = q /\ x.offer = row.offer /\ x.price = SellFill(x.offer.bid)
       /\ x.stamp = row.stamp /\ x.reason = DeskReason(row, told) /\ x.kind = "paper_exit"
  BY <1>4, <1>6
<1>15. q = WholeLotsOf(Least(left, x.offer.bidSize), Contracts[p.symbol])
  BY <1>3, <1>4, <1>9, <1>14 DEF LotsBid, SameTrade
<1>16. PICK T, U, V : ledger \in Seq(T) /\ quoteTape \in Seq(U) /\ Exits \in Seq(V)
  BY DEF ReplayInv
<1>17. Exits' = Append(Exits, x)
  <2>1. PICK more : more = ledger' /\ more = Append(ledger, x)
    BY <1>6
  <2>2. ExitsIn(more) = AddExit(ExitsIn(ledger), x)
    BY <1>16, <2>1, FoldsGrow
  <2>3. Exits' = ExitsIn(more) /\ Exits = ExitsIn(ledger)
    BY <2>1 DEF Exits, ExitsIn
  <2> QED
    BY <1>14, <2>2, <2>3 DEF AddExit
<1>18. BookKept(p)'
  <2>1. PICK b : /\ b = BookOver(p, Exits) /\ b.matches = TRUE /\ b.left = left
                 /\ b.cost = cost * left
    BY <1>3, <1>9 DEF BookKept
  <2>2. AccountExit(p, b, x) = [left |-> left - q, cost |-> cost * (left - q), matches |-> TRUE]
    <3>1. Booked(p, b, left, cost, q, x)
      BY <1>12, <1>13, <1>14, <1>15, <2>1 DEF Booked
    <3> QED
      BY <1>8, <1>9, <3>1, FillKept
  <2>3. BookOver(p, Exits') = [left |-> left - q, cost |-> cost * (left - q), matches |-> TRUE]
    BY <1>16, <1>17, <2>1, <2>2, FoldsGrow
  <2> QED
    BY <1>10, <1>11, <2>3 DEF BookKept
<1>19. PICK events, rows : /\ events = ledger' /\ events = Append(ledger, x)
                           /\ rows = quoteTape' /\ rows = Append(quoteTape, row)
  BY <1>6
<1>20. /\ events \in Seq(T \cup {x}) /\ rows \in Seq(U \cup {row})
       /\ events # <<>> /\ events[1] = ledger[1] /\ Last(events) = x
  <2>1. events \in Seq(T \cup {x}) /\ rows \in Seq(U \cup {row})
    BY <1>16, <1>19
  <2>2. PICK n \in Nat : n = Len(ledger)
    BY <1>16
  <2>3. n # 0
    BY <1>1, <1>16, <2>2, EmptySeq
  <2>4. Len(events) = n + 1 /\ events[n + 1] = x
    BY <1>16, <1>19, <2>2
  <2>5. events[1] = ledger[1]
    BY <1>16, <1>19, <2>2, <2>3
  <2>6. Len(events) # 0
    BY <2>2, <2>4
  <2>7. events # <<>>
    BY <2>6, EmptySeq
  <2>8. Last(events) = x
    BY <2>4 DEF Last
  <2> QED
    BY <2>1, <2>5, <2>7, <2>8
<1>21. ASSUME hidden' = FALSE PROVE WalkKept(p)'
  <2>1. hidden = FALSE /\ ~Halted(row, told) /\ ~(row.stamp < holding.entered)
    BY <1>21 DEF SoldOn, ReplayInv
  <2>2. PICK walk : /\ walk = WalkOver(p, quoteTape)
                    /\ walk = [left |-> left, pending |-> ExitPending,
                               lastStamp |-> holding.lastQuote, fills |-> FillsIn(Exits)]
    BY <1>3, <1>9, <2>1 DEF WalkKept
  <2>3. PICK reason : reason = WalkReason(p, walk, row)
    OBVIOUS
  <2>4. DeskReason(row, told) = reason /\ reason # "none"
    <3>1. DeskReason(row, told) = WalkReason(p, walk, row)
      <4>1. walk.pending = ExitPending
        BY <2>2
      <4> QED
        BY <1>3, <2>1, <4>1, SameReasons
    <3> QED
      BY <2>3, <3>1 DEF SoldOn, Leaving
  <2>5. IsQuote(p.entered, row)
    <3>1. p.entered = holding.entered /\ Within(row.at, row.stamp, QuoteAge)
      BY <1>3, <1>5 DEF SameTrade, SellableAt, Aged
    <3>2. clock \in Nat
      BY DEF ReplayInv
    <3> QED
      BY <1>3, <2>1, <3>1, <3>2 DEF IsQuote
  <2>6. NewQuote(walk, row) /\ price > 0 /\ walk.left > 0 /\ walk.left = left
    BY <1>4, <1>5, <1>9, <2>2 DEF SellableAt, NewQuote
  <2>7. q = WholeLotsOf(Least(walk.left, row.offer.bidSize), Contracts[p.symbol])
    BY <1>14, <1>15, <2>6
  <2>8. PICK fill : /\ fill = [reason |-> reason, price |-> price, quantity |-> q,
                               stamp |-> row.stamp]
                    /\ fill = Fill(x)
    BY <1>4, <1>14, <2>4 DEF Fill
  <2>9. WalkRow(p, walk, row) = [left |-> left - q, pending |-> reason, lastStamp |-> row.stamp,
                                 fills |-> Append(walk.fills, fill)]
    BY <1>4, <1>8, <2>3, <2>4, <2>5, <2>6, <2>7, <2>8 DEF WalkRow
  <2>10. FillsIn(Exits') = Append(FillsIn(Exits), fill)
    BY <1>16, <1>17, <2>8, FillsGrow
  <2>11. WalkOver(p, quoteTape') = [left |-> left - q, pending |-> reason, lastStamp |-> row.stamp,
                               fills |-> FillsIn(Exits')]
    <3>a. WalkOver(p, Append(quoteTape, row)) = WalkRow(p, WalkOver(p, quoteTape), row)
      BY <1>16, FoldsGrow
    <3>1. WalkOver(p, rows) = WalkRow(p, walk, row)
      BY <1>19, <2>2, <3>a
    <3>2. walk.fills = FillsIn(Exits)
      BY <2>2
    <3> QED
      BY <1>19, <2>9, <2>10, <3>1, <3>2
  <2>12. Exits' # <<>>
    BY <1>16, <1>17
  <2>13. q # left => ExitPending' = reason
    BY <1>11, <1>14, <1>19, <1>20, <2>4 DEF ExitPending
  <2>14. holding' = Nothing => left - q = 0
    BY <1>9, <1>11
  <2> QED
    BY <1>10, <1>11, <2>11, <2>12, <2>13, <2>14 DEF WalkKept
<1>22. SinceBought(e)'
  <2>1. holding' # Nothing => /\ SameTrade(p, holding') /\ holding'.entered <= clock'
                              /\ holding'.entered \in Int
    BY <1>3, <1>5, <1>10, <1>11
  <2>2. e.kind = "paper_entry" /\ EntryMatches(e) /\ mind' = IdleMind
    BY <1>1, <1>3, <1>5 DEF SinceBought
  <2> QED
    BY <1>2, <1>18, <1>21, <2>1, <2>2 DEF SinceBought
<1>23. (\E S : quoteTape \in Seq(S))' /\ (\E S : ledger \in Seq(S))' /\ (\E S : Exits \in Seq(S))'
  <2>1. Exits' \in Seq(V \cup {x})
    BY <1>16, <1>17
  <2> QED
    BY <1>19, <1>20, <2>1
<1>24. (ledger = <<>> => NotYet)' /\ (ledger # <<>> => SinceBought(ledger[1]))'
  BY <1>1, <1>19, <1>20, <1>22
<1>25. clock' \in Nat /\ hidden' \in BOOLEAN
  <2>1. hidden \in BOOLEAN /\ Halted(row, told) \in BOOLEAN
    BY DEF ReplayInv, Halted
  <2> QED
    BY <1>5, <2>1 DEF SoldOn, ReplayInv
<1> QED
  BY <1>7, <1>23, <1>24, <1>25 DEF ReplayInv

LEMMA ReplaySteps == ReplayInv /\ [ReplayNext]_replayVars => ReplayInv'
<1> SUFFICES ASSUME ReplayInv, [ReplayNext]_replayVars PROVE ReplayInv'
  OBVIOUS
<1>1. ASSUME NEW chart \in Charts, NEW offered \in [Listed -> Offers], ledger = <<>>,
             ScanChart(chart, clock, Strikes, offered), UNCHANGED <<quoteTape, ledger, hidden>>
      PROVE  ReplayInv'
  BY <1>1, ReplayScans
<1>2. ASSUME NEW offer \in Offers, NEW spot \in Spots, NEW plan \in mind.plans,
             Choose(plan, offer, clock, spot, clock), UNCHANGED <<quoteTape, ledger, hidden>>
      PROVE  ReplayInv'
  BY <1>2, ReplayChooses
<1>3. ASSUME Pass, UNCHANGED <<quoteTape, ledger, hidden>> PROVE ReplayInv'
  BY <1>3, ReplayPasses
<1>4. ASSUME Bought PROVE ReplayInv'
  BY <1>4, ReplayBuys
<1>5. ASSUME NEW offer \in Offers, NEW stamp \in clock - QuoteAge .. clock, NEW spot,
             NEW spotAt, NEW told, Watch(offer, stamp, spot, spotAt, told)
      PROVE  ReplayInv'
  <2>1. PICK row : row = [at |-> clock, offer |-> offer, stamp |-> stamp, spot |-> spot,
                          spotAt |-> spotAt]
    OBVIOUS
  <2>2. /\ holding # Nothing /\ quoteTape' = Append(quoteTape, row)
        /\ \/ SoldOn(row, told)
           \/ ~Leaving(row, told) /\ UNCHANGED <<tradeVars, ledger, hidden>>
    BY <1>5, <2>1 DEF Watch
  <2>3. row.at = clock /\ row.offer \in Offers /\ row.stamp = stamp
    BY <2>1
  <2>4. row.stamp \in Int
    BY <2>3, TradesAssumption DEF ReplayInv
  <2>5. ASSUME SoldOn(row, told) PROVE ReplayInv'
    BY <2>2, <2>3, <2>4, <2>5, Sold
  <2>6. ASSUME ~Leaving(row, told), UNCHANGED <<tradeVars, ledger, hidden>> PROVE ReplayInv'
    BY <2>2, <2>3, <2>6, NotSold
  <2> QED
    BY <2>2, <2>5, <2>6
<1>6. ASSUME UNCHANGED replayVars PROVE ReplayInv'
  <2>1. UNCHANGED <<clock, purse, holding, mind, tally, quoteTape, ledger, hidden>>
    BY <1>6 DEF replayVars, tradeVars
  <2>2. MoneyInv'
    BY <2>1 DEF ReplayInv, MoneyInv, PurseOK, TallyOK, MindOK, Made, Flat, HeldOK, Covered, Room, Drift
  <2>3. ledger = <<>> => NotYet'
    BY <2>1 DEF ReplayInv, NotYet, Money
  <2>4. clock' \in Nat /\ clock <= clock'
    BY <2>1 DEF ReplayInv
  <2> QED
    BY <2>1, <2>2, <2>3, <2>4, NothingRecorded
<1> QED
  BY <1>1, <1>2, <1>3, <1>4, <1>5, <1>6 DEF ReplayNext

LEMMA ReplayInvAgrees == ReplayInv => ReplayAgrees
<1> SUFFICES ASSUME ReplayInv, ledger # <<>>
             PROVE  /\ EntryStatus = "match" /\ FillsStatus = "match"
                    /\ ~hidden => /\ WalkExit(EntryEvent.position).fills = Recorded
                                  /\ holding = Nothing => ExitPathStatus = "match"
  BY DEF ReplayAgrees
<1>1. PICK e : e = ledger[1] /\ e = EntryEvent /\ SinceBought(e)
  BY DEF ReplayInv, EntryEvent
<1>2. PICK p : p = e.position /\ BookKept(p) /\ (hidden = FALSE => WalkKept(p))
  BY <1>1 DEF SinceBought
<1>3. EntryStatus = "match"
  <2>1. EntryMatches(e)
    BY <1>1 DEF SinceBought
  <2> QED
    BY <1>1, <2>1 DEF EntryStatus, EntryMatches
<1>4. FillsStatus = "match"
  <2>1. BookOver(p, Exits).matches = TRUE
    BY <1>2 DEF BookKept
  <2>2. FillsStatus = IF BookOver(p, Exits).matches THEN "match" ELSE "mismatch"
    BY <1>1, <1>2 DEF FillsStatus, BookOver, BookStart
  <2> QED
    BY <2>1, <2>2
<1>5. ASSUME ~hidden
      PROVE  /\ WalkExit(EntryEvent.position).fills = Recorded
             /\ holding = Nothing => ExitPathStatus = "match"
  <2>1. WalkKept(p)
    BY <1>2, <1>5 DEF ReplayInv
  <2>2. WalkExit(p) = WalkOver(p, quoteTape)
    BY DEF WalkExit, WalkOver, WalkStart
  <2>3. FillsIn(Exits) = Recorded
    BY DEF FillsIn, Fill, Recorded
  <2>4. PICK walked : walked = WalkExit(p) /\ walked.fills = Recorded
    BY <2>1, <2>2, <2>3 DEF WalkKept
  <2>5. ASSUME holding = Nothing PROVE ExitPathStatus = "match"
    <3>1. walked.left = 0 /\ Exits # <<>>
      BY <2>1, <2>2, <2>4, <2>5 DEF WalkKept
    <3> QED
      BY <1>1, <1>2, <2>4, <3>1 DEF ExitPathStatus
  <2> QED
    BY <1>1, <1>2, <2>4, <2>5
<1> QED
  BY <1>3, <1>4, <1>5

\* A session's own evidence replays: every entry is let in again, every sale is accounted
\* as it was booked, and the tape alone leads to the exits the desk made.
THEOREM EvidenceReplays == ReplaySpec => []ReplayAgrees
<1>1. ReplayInit => ReplayInv
  BY ReplayOpens
<1>2. ReplayInv /\ [ReplayNext]_replayVars => ReplayInv'
  BY ReplaySteps
<1>3. ReplayInv => ReplayAgrees
  BY ReplayInvAgrees
<1> QED
  BY <1>1, <1>2, <1>3, PTL DEF ReplaySpec
=============================================================================
