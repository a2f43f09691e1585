------------------------------ MODULE Baselines ------------------------------
(***************************************************************************)
(* unbiased_baselines(): one stream of measured opportunities put before   *)
(* three policies in every scenario, a book of paper money for each.       *)
(***************************************************************************)
EXTENDS Integers, Sequences, FiniteSetsExt

CONSTANTS
  Scenarios,        \* BASELINE_SCENARIOS, by name: cap, cooldown and window
  StudyCapital,
  Paths,            \* what the tape holds for a plan, from some money on: cost, closes, proceeds
  Gaps,             \* between opportunities; two plans of one scan have none
  StudyDay,         \* the length of a day
  MaxOpportunities  \* bound

ASSUME BaselineAssumption ==
  /\ StudyCapital \in Nat /\ StudyDay \in Nat \ {0} /\ Gaps \subseteq Nat
  /\ \A s \in DOMAIN Scenarios : {Scenarios[s].cap, Scenarios[s].cooldown} \subseteq Nat
  /\ \A path \in Paths :
       /\ 0 \in DOMAIN path /\ DOMAIN path \subseteq Nat
       /\ \A t \in DOMAIN path : {path[t].cost, path[t].closes} \subseteq Nat /\ path[t].proceeds \in Int

VARIABLES
  studied,   \* the time of the latest opportunity, how many there were, those not chosen by the AI
  books      \* _portfolio()'s state for each scenario and policy

baselineVars == <<studied, books>>

Policies == {"ai", "deterministic", "hold"}
Never == -StudyDay

\* vetoes and exclusions are counts; spacing depends on open_until, which is last_exit too.
NewBook ==
  [cash |-> StudyCapital, realized |-> 0, lastExit |-> Never, trades |-> <<>>, vetoes |-> 0,
   exclusions |-> 0, holds |-> 0]

BaselinesInit ==
  /\ studied = [at |-> 0, count |-> 0, unbought |-> 0]
  /\ books = [s \in DOMAIN Scenarios |-> [p \in Policies |-> NewBook]]

StudyDayOf(t) == t \div StudyDay
TradesOn(book, day) == {i \in DOMAIN book.trades : StudyDayOf(book.trades[i].at) = day}

----------------------------------------------------------------------------
\* _measurable_opportunities(): an occurrence is a plan of a scan, whose copy in a paid call
\* is not another; a shadow plan is one the event window blocks, and is not put to the AI;
\* an item of before may have lost its time or its capital.
Items == {item \in [kind : {"plan", "shadow", "unmeasurable"}, bought : BOOLEAN] :
            item.bought => item.kind = "plan"}

Vetoed(scenario, book, item, now) ==
  \/ now < book.lastExit                                              \* ONE_POSITION_ACTIVE
  \/ Cardinality(TradesOn(book, StudyDayOf(now))) >= scenario.cap          \* DAILY_ENTRY_CAP
  \/ book.lastExit # Never /\ now - book.lastExit < scenario.cooldown \* POST_EXIT_COOLDOWN
  \/ scenario.window = "enforce" /\ item.kind = "shadow"              \* HIGH_IMPACT_EVENT_WINDOW

\* The money sets the levels, and so the way out, which changes at some amounts of it.
FoundBy(path, money) == path[Max({t \in DOMAIN path : t <= money})]

\* _enter() and walk_exit(): no quote to buy on, more than there is, or no way out (0).
Missing(book, path) ==
  \/ book.cash < 0
  \/ LET found == FoundBy(path, book.cash)
     IN  found.cost = 0 \/ found.cost > book.cash \/ found.closes = 0

TradedUntil(end, book, now, found) ==
  [book EXCEPT
     !.cash = @ - found.cost + found.proceeds,
     !.realized = @ + (found.proceeds - found.cost),
     !.lastExit = end,
     !.trades = Append(@, [at |-> now, until |-> now + found.closes, proceeds |-> found.proceeds,
                           pnl |-> found.proceeds - found.cost])]
TradedFromEntry(book, now, found) ==   \* mutant: the pause starts with the entry
  TradedUntil(now, book, now, found)
Traded(book, now, found) == TradedUntil(now + found.closes, book, now, found)

\* _portfolio(), of the next opportunity in time.
Considered(scenario, policy, book, item, now, path) ==
  IF item.kind = "unmeasurable" THEN [book EXCEPT !.exclusions = @ + 1]
  ELSE IF policy = "hold" \/ (policy = "ai" /\ ~item.bought) THEN [book EXCEPT !.holds = @ + 1]
  ELSE IF Vetoed(scenario, book, item, now) THEN [book EXCEPT !.vetoes = @ + 1]
  ELSE IF Missing(book, path) THEN [book EXCEPT !.exclusions = @ + 1]
  ELSE Traded(book, now, FoundBy(path, book.cash))

Consider(item, gap, path) ==
  LET now == studied.at + gap IN
  /\ studied.count < MaxOpportunities
  /\ studied' = [at |-> now, count |-> studied.count + 1,
                 unbought |-> studied.unbought + IF item.kind # "unmeasurable" /\ ~item.bought
                                                 THEN 1 ELSE 0]
  /\ books' = [s \in DOMAIN Scenarios |->
                 [p \in Policies |-> Considered(Scenarios[s], p, books[s][p], item, now, path)]]

BaselinesNext == \E item \in Items, gap \in Gaps, path \in Paths : Consider(item, gap, path)

BaselinesSpec == BaselinesInit /\ [][BaselinesNext]_baselineVars

----------------------------------------------------------------------------
NetOf(trades) == MapThenSumSet(LAMBDA i : trades[i].pnl, DOMAIN trades)

\* The books can be set against one another ("One frozen opportunity stream, three
\* policies"): each has classified every opportunity once ('unclassified': 0) and has the
\* money of its trades, and pays for none what it has not; no two of its trades overlap or
\* follow sooner than its pause, nor are there more in a day than its cap; a looser cap adds
\* to a day's trades and changes none; and an AI that bought every plan is the
\* deterministic policy.
BaselinesComparable ==
  studied.count > 0 => \A s \in DOMAIN Scenarios :
    /\ \A p \in Policies :
         LET book == books[s][p] IN
         /\ Len(book.trades) + book.holds + book.vetoes + book.exclusions = studied.count
         /\ book.cash = StudyCapital + NetOf(book.trades) /\ book.realized = NetOf(book.trades)
         /\ book.cash >= IF book.trades = <<>> THEN 0 ELSE book.trades[Len(book.trades)].proceeds
         /\ \A i \in 2 .. Len(book.trades) :
              book.trades[i].at >= book.trades[i - 1].until + Scenarios[s].cooldown
         /\ \A day \in 0 .. StudyDayOf(studied.at) :
              Cardinality(TradesOn(book, day)) <= Scenarios[s].cap
         /\ \A t \in DOMAIN Scenarios :
              /\ Scenarios[t].cooldown = Scenarios[s].cooldown
              /\ Scenarios[t].window = Scenarios[s].window
              /\ Scenarios[t].cap >= Scenarios[s].cap
              => \A i \in TradesOn(book, 0) :
                   i \in DOMAIN books[t][p].trades /\ books[t][p].trades[i] = book.trades[i]
    /\ books[s]["hold"].trades = <<>>
    /\ studied.unbought = 0 => books[s]["ai"] = books[s]["deterministic"]
=============================================================================
