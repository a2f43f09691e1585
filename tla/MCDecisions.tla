----------------------------- MODULE MCDecisions -----------------------------
(***************************************************************************)
(* What decides and what it decides on: the paper core over its simulator, *)
(* the ledger of approved proposals, the history with its journal and      *)
(* datasets, the option desk's trades, the studies of policies, and the    *)
(* broker's reads.  They share no state; the initial state chooses one,    *)
(* and only that one moves.                                                *)
(***************************************************************************)
EXTENDS TLC, PaperCore, DecisionJournal, TrainingDatasets, OptionTrades, PaperBook, Baselines,
        ShadowEnvironment, BrokerReads

CONSTANTS r1, r2, p, A, B, early, mid, late, wrong, w1, w2

VARIABLE focus

\* One strategy against another, and the quotes: at the price, at a stop, at a target.
Said(direction) == [direction |-> direction, confidence |-> IF direction = "none" THEN 0 ELSE 1]
Scores(regime, trend, breakout, reversion) ==
  [regime |-> regime, probability |-> 1, trend |-> Said(trend), breakout |-> Said(breakout),
   mean_reversion |-> Said(reversion)]
CoreScores ==
  {Scores("UPTREND", "LONG", "LONG", "none"), Scores("RANGE", "none", "none", "SHORT")}
CorePriority == <<"trend", "breakout", "mean_reversion">>
CoreQuotes == {<<100, 101>>, <<70, 71>>, <<163, 164>>}
Whole == <<1, 1>>
Tenth == <<1, 10>>
Twentieth == <<1, 20>>
TwentyFifth == <<1, 25>>
Fortieth == <<1, 40>>
Fiftieth == <<1, 50>>

\* A decision alone after each step that leaves no order: the others are the same state.
CoreStep == CoreNext /\ (book'.orders = <<>> => events' = events)

\* Four batches: one contradicts another, and the last is only ever seen live.
JournalBars ==
  (early :> (0 :> 10)) @@ (mid :> (1 :> 11 @@ 2 :> 12)) @@ (wrong :> (2 :> 9)) @@ (late :> (3 :> 12))
ClerkSymmetry == Permutations({w1, w2})
JournalSplits == <<3, 5, 6>>
JournalStep == JournalNext /\ late \notin DOMAIN raw'

\* Two runs buy for one proposal on two accounts, or both sell the same unit.
RunOf(account0, buys, price) ==
  [p |-> p, acct |-> account0, buy |-> buys, qty |-> 1, price |-> price]
PaperInputs ==
  { (r1 :> RunOf(A, TRUE, 12)) @@ (r2 :> RunOf(B, TRUE, 12)),
    (r1 :> RunOf(A, FALSE, 24)) @@ (r2 :> RunOf(A, FALSE, 24)) }
PaperOpening ==
  (A :> [cash |-> 26, qty |-> 1, basis |-> 12, realized |-> 0])
    @@ (B :> [cash |-> 30, qty |-> 1, basis |-> 12, realized |-> 0])

\* A breakout one may still buy, one that has run away, and a rejection to sell; quotes
\* at the price, at a stop with the depth of one lot, and past a target.
TradePlaybooks ==
  ("breakout" :> [pattern |-> "breakout", strategy |-> "momentum", regime |-> "trend", stop |-> 40,
                  target |-> 80, reward |-> <<3, 2>>, hold |-> 3, costShare |-> 35])
    @@ ("rejection" :> [pattern |-> "rejection", strategy |-> "reversal", regime |-> "range",
                        stop |-> 30, target |-> 60, reward |-> <<5, 4>>, hold |-> 2, costShare |-> 35])
Option(kind, strike, rank) ==
  [kind |-> kind, strike |-> strike, lot |-> 5, freeze |-> 50, expiry |-> 2, tradable |-> TRUE,
   rank |-> rank]
TradeContracts ==
  ("call" :> Option("CE", 1000, 1)) @@ ("put" :> Option("PE", 1000, 2))
    @@ ("far call" :> Option("CE", 1100, 3))
Breakout ==
  [name |-> "breakout", direction |-> "bullish", strategy |-> "momentum", trigger |-> 1000,
   invalidation |-> 990]
Rejection ==
  [name |-> "rejection", direction |-> "bearish", strategy |-> "reversal", trigger |-> 1000,
   invalidation |-> 1010]
Chart(spot, regime, pattern) ==
  [ready |-> TRUE, spot |-> spot, atr |-> 20, regime5 |-> regime, regime15 |-> "range",
   exhausted |-> "none", patterns |-> {pattern}]
TradeCharts ==
  {Chart(1002, "uptrend", Breakout), Chart(1008, "uptrend", Breakout), Chart(998, "range", Rejection)}
Offer(bid, ask, bidSize, askSize) == [bid |-> bid, ask |-> ask, bidSize |-> bidSize, askSize |-> askSize]
TradeOffers == {Offer(199, 200, 20, 20), Offer(193, 196, 5, 20), Offer(222, 225, 20, 20)}

\* A choice that is refused as soon as it is read is a Drop.
TradesStep ==
  /\ TradesNext
  /\ (mind.step = "asked" /\ mind'.step = "read") => Validated(mind'.plan, mind'.with, mind'.spotAt)

\* The tapes hold no quote, no way out, a gain, a sale that does not pay its charges, and
\* a loss that comes later to a poor book.
Scenario(cap, cooldown, window) == [cap |-> cap, cooldown |-> cooldown, window |-> window]
StudyScenarios ==
  ("production" :> Scenario(3, 2, "enforce")) @@ ("cap_4" :> Scenario(1, 2, "enforce"))
    @@ ("cap_6" :> Scenario(2, 2, "enforce")) @@ ("cooldown_off" :> Scenario(3, 0, "enforce"))
    @@ ("event_window_ignored" :> Scenario(3, 2, "ignore"))
Found(cost, closes, proceeds) == [cost |-> cost, closes |-> closes, proceeds |-> proceeds]
StudyPaths ==
  { 0 :> Found(0, 0, 0), 0 :> Found(9, 0, 0), 0 :> Found(8, 1, 10), 0 :> Found(1, 1, -1),
    0 :> Found(9, 2, 8) @@ 10 :> Found(9, 1, 6) }

ShadowQuotes == {[bid |-> 10, ask |-> 11], [bid |-> 4, ask |-> 4], [bid |-> 20, ask |-> 21]}

DecisionsInit ==
  /\ focus \in {"core", "book", "journal", "trades", "study", "shadow", "broker"}
  /\ CoreInit /\ JournalInit /\ TradesInit /\ PaperInit
  /\ BaselinesInit /\ ShadowInit /\ BrokerInit
  /\ focus # "book" => input = CHOOSE i \in RunInputs : TRUE
  /\ focus # "shadow" => row = CHOOSE r \in TapeRows : TRUE

DecisionsNext ==
  /\ UNCHANGED focus
  /\ \/ /\ focus = "core" /\ CoreStep
        /\ UNCHANGED <<paperVars, journalVars, tradeVars,
                       baselineVars, shadowVars, brokerVars>>
     \/ /\ focus = "book" /\ PaperNext
        /\ UNCHANGED <<coreVars, journalVars, tradeVars,
                       baselineVars, shadowVars, brokerVars>>
     \/ /\ focus = "journal" /\ JournalStep
        /\ UNCHANGED <<coreVars, paperVars, tradeVars,
                       baselineVars, shadowVars, brokerVars>>
     \/ /\ focus = "trades" /\ TradesStep
        /\ UNCHANGED <<coreVars, paperVars, journalVars,
                       baselineVars, shadowVars, brokerVars>>
     \/ /\ focus = "study" /\ BaselinesNext
        /\ UNCHANGED <<coreVars, paperVars, journalVars,
                       tradeVars, shadowVars, brokerVars>>
     \/ /\ focus = "shadow" /\ ShadowNext
        /\ UNCHANGED <<coreVars, paperVars, journalVars,
                       tradeVars, baselineVars, brokerVars>>
     \/ /\ focus = "broker" /\ BrokerNext
        /\ UNCHANGED <<coreVars, paperVars, journalVars,
                       tradeVars, baselineVars, shadowVars>>

decisionsVars ==
  <<focus, coreVars, paperVars, journalVars, tradeVars,
    baselineVars, shadowVars, brokerVars>>

DecisionsSpec == DecisionsInit /\ [][DecisionsNext]_decisionsVars
=============================================================================
