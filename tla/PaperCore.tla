----------------------------- MODULE PaperCore -----------------------------
(***************************************************************************)
(* The paper decision core: one serialized caller processes instants in    *)
(* order, with a quote, the models' scores and a critic's review, over the *)
(* simulator's ledger, the journal and the audit log, none of which commit *)
(* together.  A step that fails leaves what it wrote before, and the       *)
(* instant may be processed again.                                         *)
(***************************************************************************)
EXTENDS PaperSimulator, MetaDecision, RiskPolicy

CONSTANTS
  Quotes,        \* bid and ask of the execution quotes that may arrive
  ScoreInputs,   \* what the models may say at an instant
  Replies,       \* what the provider may answer to one attempt of the critic's call
  Attempts,
  DayLength,     \* instants of a day; a session is [0, SessionLength)
  SessionLength,
  LastInstant,   \* bounds: instants processed, and how far one follows the last
  MaxGap,
  MaxFailures    \* bound: steps that fail part-way

ASSUME CoreAssumption ==
  /\ SlippageScale = FeeScale /\ Scale = FeeScale
  /\ CostPerPrice = Slippage + Fee /\ FeePerPrice = Fee
  /\ Quotes \subseteq (Nat \ {0}) \X (Nat \ {0})
  /\ DayLength \in Nat \ {0} /\ {SessionLength, EmitCooldown, LastInstant, MaxGap} \subseteq Nat

VARIABLES
  last,       \* the curve's last instant
  peak,       \* high_watermark
  previous,   \* candidates submitted by this run
  journal,    \* candidates the journal holds a REVIEW and a meta decision for
  audit,      \* the critic's approvals and the risk policy's, with the instant
  failures

coreVars == <<simulatorVars, last, peak, previous, journal, audit, failures>>

CoreInit ==
  /\ SimulatorInit
  /\ last = 0 /\ peak = InitialCapital /\ previous = {} /\ journal = {} /\ audit = {}
  /\ failures = 0

TimeOfDay(at) == at % DayLength
DayOf(at) == at \div DayLength
SessionEnd(at) == DayOf(at) * DayLength + SessionLength

----------------------------------------------------------------------------
(* LLMGateway._call(): attempts until one answers; only a well-formed one  *)
(* that cites supplied sources counts.                                     *)

GatewayAnswer(replies) ==
  LET answered == {i \in DOMAIN replies : replies[i] # "timeout"}
  IN  IF answered = {} THEN "uncertain" ELSE replies[Min(answered)]

Verdicts == {GatewayAnswer(replies) = "approve" : replies \in [1 .. Attempts -> Replies]}

----------------------------------------------------------------------------
(* _portfolio(): what the risk policy is told of a ledger.                 *)

Closed(b) == {o \in DOMAIN b.orders : b.orders[o].status = "CLOSED"}
ExitOf(b, o) == b.orders[o].fills[2].at
Orders(b, day) == {o \in DOMAIN b.orders : DayOf(b.orders[o].submitted) = day}
ResultOn(b, day) ==
  MapThenSumSet(LAMBDA o : Net(b.orders[o]), {o \in Closed(b) : DayOf(ExitOf(b, o)) = day})

OpenRiskOf(order) ==
  LET from == IF order.status = "PENDING" THEN order.terms.entry ELSE order.entry
  IN  Apart(from, order.terms.stop) * order.terms.quantity * Scale

PositionsFilled(b) ==   \* mutant: what is not filled yet is no position
  [o \in {x \in Live(b) : b.orders[x].status \in Entered} |-> OpenRiskOf(b.orders[o])]
Positions(b) == [o \in Live(b) |-> OpenRiskOf(b.orders[o])]

Portfolio(b, watermark, at) ==
  [equity |-> Equity(b), highWatermark |-> watermark, daily |-> ResultOn(b, DayOf(at)),
   weekly |-> MapThenSumSet(LAMBDA o : Net(b.orders[o]), Closed(b)),
   positions |-> Positions(b)]

\* The losses since the last closed trade that was none, latest exit first; exits at one
\* instant come in the order of identities, which are hashes.
Streaks(b) ==
  {s \in SUBSET Closed(b) :
     /\ \A o \in s : Net(b.orders[o]) < 0 /\ \A x \in Closed(b) \ s : ExitOf(b, x) <= ExitOf(b, o)
     /\ s = Closed(b) \/ \E x \in Closed(b) \ s :
                           /\ Net(b.orders[x]) >= 0
                           /\ \A y \in Closed(b) \ s : ExitOf(b, y) <= ExitOf(b, x)}

CountersFilled(b, streak, at) ==   \* mutant: an order counts for the day once it is filled
  [trades |-> Cardinality({o \in Orders(b, DayOf(at)) : b.orders[o].fills # <<>>}),
   losses |-> Cardinality(streak),
   lastLoss |-> IF streak = {} THEN 0 ELSE Max({ExitOf(b, o) : o \in streak})]
Counters(b, streak, at) ==
  [trades |-> Cardinality(Orders(b, DayOf(at))), losses |-> Cardinality(streak),
   lastLoss |-> IF streak = {} THEN 0 ELSE Max({ExitOf(b, o) : o \in streak})]

----------------------------------------------------------------------------
(* process()                                                               *)

QuoteRequest(at, quote) ==
  [id |-> <<"quote", at>>, kind |-> "quote", at |-> at, quoted |-> at,
   bid |-> quote[1], ask |-> quote[2]]

QuotedLedgers(ledger, at, quote) ==
  IF quote = <<>> THEN {ledger} ELSE After(ledger, QuoteRequest(at, quote))

MarkOf(quote, candidate) == IF candidate.direction = "LONG" THEN quote[2] ELSE quote[1]

PlansOn(b, candidate, quote) ==
  PlanFor(candidate.direction = "LONG", MarkOf(quote, candidate), Equity(b), b.cash)

\* proposal_for_risk(): a review of exactly this plan, made at this instant.
BoundAnyPlan(review, candidate, plan, at) ==   \* mutant: the plan may have been recalculated
  review.candidate = candidate /\ review.at = at
Bound(review, candidate, plan, at) ==
  review.candidate = candidate /\ review.at = at /\ review.plan = plan

SubmitRequest(candidate, plan, budget, at) ==
  [id |-> <<"submit", candidate>>, kind |-> "submit", order |-> candidate, at |-> at,
   terms |-> [long |-> plan.long, entry |-> plan.entry, stop |-> plan.stop, target |-> plan.target,
              quantity |-> plan.quantity, budget |-> budget, ends |-> SessionEnd(at)]]

EndRequest(at) == [id |-> <<"session", at>>, kind |-> "end", at |-> at]
EndedLedgers(ledger, at) ==
  IF TimeOfDay(at) >= SessionLength THEN After(ledger, EndRequest(at)) ELSE {ledger}

Larger(m, n) == IF m > n THEN m ELSE n

\* The quantities DeterministicRiskPolicy.evaluate() may approve of the plan.
RiskQuantities(b, plan, watermark, at) ==
  {ApprovedQuantity(plan, Portfolio(b, watermark, at), Counters(b, streak, at), at,
                    TimeOfDay(at), SessionLength) : streak \in Streaks(b)}

Keep(ledger) == book' = ledger.book /\ events' = ledger.events

\* Its end: the session's end, the curve and the decision's audit entry, which may fail.
Finish(ledger, at, fails) ==
  /\ \E l \in EndedLedgers(ledger, at) : Keep(l)
  /\ last' = IF fails THEN last ELSE at
  /\ failures' = IF fails THEN failures + 1 ELSE failures

\* Nothing to trade, or no quote to trade on, or no review that binds.
Abstain(ledger, at, chosen, watermark, fails) ==
  /\ journal' = journal \cup chosen
  /\ peak' = watermark
  /\ Finish(ledger, at, fails)
  /\ UNCHANGED previous

\* The journal, or the audit of a risk verdict, fails: process() raises there.
Raise(ledger, chosen, watermark) ==
  /\ Keep(ledger)
  /\ journal' = journal \cup chosen
  /\ peak' = watermark
  /\ failures' = failures + 1
  /\ UNCHANGED <<last, previous>>

Submit(ledger, at, candidate, plan, watermark, fails) ==
  /\ journal' = journal \cup {candidate}
  /\ peak' = watermark
  /\ previous' = previous \cup {candidate}
  /\ \E l \in After(ledger, SubmitRequest(candidate, plan, Budget(Portfolio(ledger.book, watermark, at)), at)) :
       Finish(l, at, fails)

\* The risk verdict, its audit entry, and the order where it grants the plan whole.
Judge(ledger, at, candidate, plan, watermark, known, where) ==
  \/ /\ where = "risk"
     /\ Raise(ledger, {candidate}, watermark) /\ audit' = known
  \/ /\ where # "risk"
     /\ \E quantity \in RiskQuantities(ledger.book, plan, watermark, at) :
          /\ audit' = known \cup {v \in {[kind |-> "risk", at |-> at, candidate |-> candidate,
                                         quantity |-> quantity]} : quantity > 0}
          /\ IF quantity = plan.quantity
             THEN Submit(ledger, at, candidate, plan, watermark, where = "end")
             ELSE Abstain(ledger, at, {candidate}, watermark, where = "end")

\* After the quote: candidate, plan, and the critic's review the caller gave.
Decide(ledger, at, quote, chosen, review, known, where) ==
  LET watermark == Larger(peak, Equity(ledger.book))
      Plans(candidate) == {p \in PlansOn(ledger.book, candidate, quote) :
                             \E r \in review : Bound(r, candidate, p, at)}
  IN  CASE where = "journal" -> Raise(ledger, {}, peak) /\ audit' = known
        [] where # "journal" /\ (chosen = {} \/ quote = <<>>) ->
             Abstain(ledger, at, chosen, peak, where = "end") /\ audit' = known
        [] OTHER ->
             \E candidate \in chosen :
               \/ /\ Plans(candidate) = {}
                  /\ Abstain(ledger, at, chosen, watermark, where = "end") /\ audit' = known
               \/ \E plan \in Plans(candidate) :
                    Judge(ledger, at, candidate, plan, watermark, known, where)

\* TradeCritic.critique() of the plan the caller works out before the quote is applied.
Reviews(at, quote, chosen) ==
  IF quote = <<>> THEN {}
  ELSE UNION {{[kind |-> "critic", at |-> at, candidate |-> c, plan |-> p] :
                 p \in PlansOn(book, c, quote)} : c \in chosen}

\* The review given is of this instant, asked for just before, or one of an earlier one.
\* Without sound checks the policy abstains, as it does on scores with no candidate.
Process(at, quote, scores, approves, where) ==
  LET chosen == Chosen(scores, at, TimeOfDay(at), previous)
      fresh == {r \in Reviews(at, quote, chosen) : approves}
      known == audit \cup fresh
  IN  /\ last < at
      /\ where # "none" => failures < MaxFailures
      /\ \E review \in {fresh} \cup {{a} : a \in {x \in audit : x.kind = "critic"}},
            ledger \in QuotedLedgers(Ledger, at, quote) :
           Decide(ledger, at, quote, chosen, review, known, where)

CoreNext ==
  \E at \in last + 1 .. Min({last + MaxGap, LastInstant}), quote \in Quotes \cup {<<>>},
     scores \in ScoreInputs, approves \in Verdicts,
     where \in {"none", "journal", "risk", "end"} :
       Process(at, quote, scores, approves, where)

CoreSpec == CoreInit /\ [][CoreNext]_coreVars

----------------------------------------------------------------------------
(* Properties.                                                             *)

\* Whatever fails between its stores and however often an instant is processed, an order
\* in the ledger is one the journal holds, whose very plan the critic had approved and
\* the risk policy granted at the instant it was submitted (process, authorize).
EveryOrderIsOnRecord ==
  \A o \in DOMAIN book.orders :
    LET order == book.orders[o] IN
    /\ o \in journal
    /\ \E a \in audit :
         /\ a.kind = "critic" /\ a.at = order.submitted /\ a.candidate = o
         /\ a.plan = [x \in {"long", "entry", "stop", "target", "quantity"} |-> order.terms[x]]
    /\ \E a \in audit :
         /\ a.kind = "risk" /\ a.at = order.submitted /\ a.candidate = o
         /\ a.quantity = order.terms.quantity

\* What the live orders may lose at their stops, planned or filled at another price than
\* planned, never exceeds the positions' number times the risk of one trade at the peak
\* (_portfolio, RiskEngine.evaluate, the fill's risk gate).
OpenRiskBounded ==
  /\ Cardinality(Live(book)) <= MaximumPositions
  /\ MapThenSumSet(LAMBDA o : OpenRiskOf(book.orders[o]), Live(book))
       <= MaximumPositions * Part(peak, RiskPerTrade)

\* The pace: orders of a day, the pause after losses in a row, and the pause between two
\* candidates of one strategy and direction, all read off the ledger itself.
LossesBefore(t) == {o \in Closed(book) : ExitOf(book, o) <= t}
InARow(t) ==
  {o \in LossesBefore(t) :
     \A x \in LossesBefore(t) : ExitOf(book, x) >= ExitOf(book, o) => Net(book.orders[x]) < 0}

PaceHolds ==
  /\ \A d \in 0 .. DayOf(LastInstant) : Cardinality(Orders(book, d)) <= MaximumTradesPerDay
  /\ \A o \in DOMAIN book.orders :
       LET t == book.orders[o].submitted IN
       /\ Cardinality(InARow(t)) >= LossStreakLimit =>
            \A x \in InARow(t) : t - ExitOf(book, x) >= LossCooldown
       /\ \A x \in DOMAIN book.orders :
            x # o /\ x.strategy = o.strategy /\ x.direction = o.direction =>
              Apart(book.orders[x].submitted, t) >= EmitCooldown

\* The limits of policy are kept by every route from scores to fills, whatever fills when:
\* the money at risk, and the pace (RiskEngine, PaperDecisionCore.process).
LimitsHold == OpenRiskBounded /\ PaceHolds
=============================================================================
