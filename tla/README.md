# kiwiT in TLA+

kiwiT is a paper-trading system for Indian markets: a Bank Nifty options desk
that asks an AI analyst for decisions, an intraday cash desk, an approval
workflow over a paper ledger, and the research, model and operations code
around them. No real order is ever placed. This directory models its core as
TLA+ modules, checks them with TLC, and proves their main safety properties
with TLAPS.

File names below are relative to `src/src/kiwit/` unless they say otherwise.

## 1. Inventory

### 1.1 The Bank Nifty desk (`banknifty.py`, `options_*.py`, `playbooks.py`)

Six systemd one-shots and an HTTP API share a few PostgreSQL rows. Everything
that reads and then writes them does so inside `BankNiftyStore.locked()`, one
transaction under one advisory lock; every network call (market data, broker,
analyst, SMTP) is made with the lock free.

| process | entry point | schedule | start timeout |
|---|---|---|---|
| decision worker | `run_once` | each minute 09:30-15:45, Mon-Fri | 110 s |
| supervisor | `supervise` -> `_monitor` | each minute 09:20-15:30, Mon-Fri | 45 s |
| observer | `observe` | each minute 09:20-15:30, Mon-Fri | 100 s |
| readiness | readiness check | 09:00-09:19, then hourly | 45 s |
| reports | `report_backlog` | every 15 minutes, all days | 45 s |
| watchdog | health check, restarts the API | each minute | - |
| API | `start`, `stop`, `settle_expired_position`, `status` | on request | - |

* **Paid-call ledger**: rows of `banknifty_ai_calls`. Hard: processes wait for the
  model for seconds, may be killed there, and come back after their row was
  reconciled; budgets must count what is not yet known. Correct when budgets are
  ceilings, one market event is paid for a bounded number of times, and a settled
  row is final.
* **Session and position**: the latest `banknifty_sessions` row with its position
  field, the learning record of each day, entry and exit events. Hard: `_monitor`
  reads the position, leaves the lock for a quote and comes back; two processes run
  it; a decision is made for a session that stops meanwhile; an exit sells part of
  the position. Correct when lots balance, no position is left in a session nobody
  works on, entries keep to the cap and to their own day, and every session is wound
  down at the end of its day or under a halt.
* **Plans, money, evidence**: a plan is selected on one quote, validated on a later
  one, sized, sold, and replayed from a tape. Correct when losses stay inside the
  budget and the replay tells what was booked.
* **Report backlog**: `banknifty_daily_reports` rows under a five-minute lease; the
  run may die between the mail server's acceptance and the row's update.
* **Readiness, incidents, heartbeats**: rows updated in separate transactions by two
  timers and followed by an alert. Correct when the record heals after any kill.
* **Observer, tape, quote tracking**: snapshots, owed quotes under a capacity, and
  the study of decisions made later from them.

### 1.2 The cash desk (`intraday.py`, `paper_session.py`, `session_orchestrator.py`)

A session per account and day, intraday signals, and an orchestrator with a SQLite
file of its own that arms a boot, fails closed and reconciles older days. Hard: the
SQLite transaction commits inside the PostgreSQL one and a kill may fall between the
two; several signals are reviewed in one tick; a feed may be dead when positions must
be sold. Correct when money adds up, entries are consented to and inside the approved
budget, a stop is final and an old session is settled.

### 1.3 Paper ledger, workflow, audit (`paper_trading.py`, `langgraph_workflow.py`, `audit.py`)

A proposal passes validation, risk and a human interrupt before `execute` books a fill
under an advisory lock; a graph node may be re-run after a crash; the audit log is a
hash chain appended to without a lock. Correct when a proposal has at most one fill, a
halt orders before or after it, and the log tells what the ledger did.

### 1.4 The paper core, history, models, operations

* **Paper core and simulator** (`unified_backtest.py`, `meta_decision.py`,
  `risk_policy.py`, `paper_simulator.py`, `execution_boundary.py`): four stores that do
  not commit together; commands may be repeated or contradicted.
* **Journal, history, datasets** (`decision_journal.py`, `market_history.py`,
  `ml/datasets.py`): point-in-time reads of one file, later writes to another.
* **Studies** (`options_evidence_gates.py`, `rl/shadow.py`): two policies over one
  stream must be comparable; a learner's reward must be explained by its trades.
* **Broker reads** (`brokers/groww.py`): one token file, written in place by two
  processes.
* **Deployment gate** (`deployment_gate.py`, `scripts/.../remote_deploy.sh`): SHARE
  locks held while workers that want them drain.
* **Model registry and promotion** (`ml/framework.py`, `ml/promotion.py`).

The hazards all this is exposed to, each at its line, are in `PROJECT.json`.

## 2. Modules

| module | models |
|---|---|
| `DeskClock` | the wall clock, the calendar and the windows tested by time of day |
| `AiCalls` | the paid-call ledger, and on its own: any workers, any order |
| `BankNiftyDesk` | session, position, learning record, workers, supervisor, operators; extends `AiCalls` |
| `PaperMandate` | abstract: what one approval authorises |
| `OptionTrades` | one session of the desk in prices and money: charts, plans, validation, sizing, fills, sales |
| `ExitReplay` | the session's evidence and `replay_fills`, `walk_exit`; extends `OptionTrades` |
| `MarketTape` | the observer's tape, owed quotes, and `counterfactual` |
| `DeskReports` | the report backlog |
| `DeskReadiness` | readiness rows, incidents, heartbeats |
| `CashDesk` | sessions, signals and the orchestrator over them |
| `PaperBook` | ledger, approval graph and audit log |
| `RiskPolicy`, `MetaDecision` | sizing and gates; from scores to one candidate |
| `PaperSimulator`, `PaperCore` | the simulator; the core over it, `MetaDecision` and `RiskPolicy` |
| `MarketHistory`, `DecisionJournal`, `TrainingDatasets` | the candle file, the journal over it, the datasets built from it |
| `Baselines`, `ShadowEnvironment` | the study of policies; the learner's environment |
| `BrokerReads` | the shared token file and the retries of a read |
| `Rollout` | `quiesce()` and the deployment script against timers, workers and the API |
| `ModelRegistry` | registry, learning jobs, promotion, rollback |
| `MC*` | instances for TLC |
| `Sums`, `*Proofs` | lemmas on sums and whole numbers; theorems and their TLAPS proofs |

How they compose:

* `BankNiftyDesk` uses the statements of `AiCalls` (`ReserveCall`, `SettleCompleted`,
  `ApplyCall`, `RejectCall`, `Interrupt`) inside the actions of its processes.
  `LedgerKept` (proved) says the result keeps to the ledger's own specification, so
  what is shown of the ledger holds of the desk. `MandateHonoured` (proved) says the
  desk implements `PaperMandate`.
* `PaperCore` calls the simulator's events, `MetaDecision` and `RiskPolicy` as
  operators and has their state; `MCServices` checks the simulator on its own,
  with repeated, late and contradicting commands.
* `CashDesk` holds both the desk and the orchestrator that drives it.
* `MCServices`, `MCDecisions` and `MCDeskDays` put components that share no state side
  by side: the initial state chooses the one that moves (`focus`), so a run explores
  their state spaces one after another, not their product.

### 2.1 How a state corresponds to the program

**The option desk.** One action per section under `locked()`. A process's memory
between two sections is `proc[p]`: the step it is at (`pc`), the enabled flag it read
at its start (`en`), the position a monitor is fetching a quote for (`seen`, `tape`)
and what a scan carries to its reservation and entry (`day`, `spot`, `key`, `call`).
A handler reads its clock before it waits for the lock, so every action takes a clock
read `t`: any tick from `LockWait` ticks ago to now, and not before the process's last
step. `run_once` is `RunStart`, `MonitorRead` and `MonitorCommit`, `Scan`/`ScanEnds`,
`ReserveFor`/`ReserveRefused`, `SettleFor`, then `ApplyIgnored`, `ApplyAdvice`, `Enter`
or `ApplyRefused`, and `RejectFor`, its error handler. Between any two a process may be
killed (`Crash`). `_apply` raises on the first test that fails and the transaction
rolls back, so `ApplyRefused` leaves the ledger alone. `fills` and `overtaken` are the
event log: entry and exit events by call, and the calls in flight at a stop.

**The option desk in money.** `OptionTrades` has Decimal arithmetic as exact integers:
prices in ticks, money in 1/`Paise` of a tick, with the fee rates as constants and the
fills' 0.1 % and the spread's 2 % as the literals of the code. Charts with detected
patterns are inputs; at most one pattern of a name per analysis. A scan, an answer and
an entry are separate steps with the clock, quotes and spot moving between; whatever
refuses or kills a scan is `Drop`. `ExitReplay` adds the recorded tape: a walk knows
nothing of halts and limits, of quotes stamped before the entry or of exits on a later
day, which the code's own `limitations` text discloses; `hidden` marks such sessions.

**The tape.** `recorded_at` keeps the first time a row was written while a re-observed
row takes later candidates, so candidates whose stamps exceed it drop out of a study;
`TapeStands` therefore compares prefixes of the current tape. Spot and nearest strikes
are functions of the minute chosen by the instance; a killed answer is not studied.

**The cash desk.** Every entry point is one PostgreSQL transaction under the account's
lock, so a handler is an operator from the desk record to the set of desks it may leave
(`MonitorExits`, `TickSession`, `CreateSignals`, `Observe`, ...), and an action is one
handler. `Broken` gives what an exception leaves: its savepoints up to there. The
orchestrator's SQLite commit comes first: `Commit(r, d)` writes the rows and then the
desk, or, at an incident, not the desk. Two modes: with the orchestrator (`lifecycle`)
and without. A RUN given under a new boot before the boot's first tick is revoked by
that tick; reconciliation counts the signals of its own day. One unit is traded per
signal; slippage is in `Cost`.

**The paper book.** One action per statement of `execute` that others may interleave
with, per node of the graph (checkpointed when it returns) and per step of an append to
the log (look-up, last hash, write). The quote a run executes on is validated before
the human interrupt, which may last for days. Resuming with another answer leaves the
first answer in the log. The chain may fork, since the last hash is read without a lock;
what is said of the log is said of a log whose chain holds (`Chained`). The database's
`CHECK (cash_balance >= 0)` refuses a fill the cash does not cover (`Accepted`);
average prices in the instances divide exactly.

**The paper core.** Instants are processed in order by one caller; journal, simulator,
audit and boundary commit one after another and any of them may fail. A model check
that is missing or unsound is a score with no candidate; the weekly window is one week;
equal exit times are ordered by hash in the code, hence nondeterministically here; the
custom ranker is left out. `authorize()` never compares the meta decision's
`evaluated_at` with now. A failed final audit lets the instant be processed again.

**The simulator.** Orders are walked in a fixed order. A short's cash may go negative;
nothing is claimed of it.

**Journal, history, datasets.** One instrument and session, candles by the minute. A
clerk reads the history in one step and writes the journal in another. Horizons outside
the session have an outcome of their own.

**Studies.** In `Baselines` what entering and walking an exit find is a step function of the
book's money (`FoundBy`): the money sets the levels of the exit; a sale may bring less than
its charges, and a book without money enters nothing. The reasons of a veto are counted together; a tie is a gap of 0; records without
measurement are left out by the code as here. `ShadowEnvironment` trades one unit under
any policy; `compare_shadow` is not modelled.

**Broker reads.** The token file is written in place (a reader may see half of it),
removed by whoever is refused, and `chmod` of a removed file fails a read. The number
of tokens asked for is not claimed to be bounded.

**Rollout.** The script step by step, with failing commands, a lost lock connection and
restoration; "desk" stands for the trading workers; a previous release exists. The
comment at `remote_deploy.sh:181` covers the option desk only: the cash exits' timer is
restarted after the API.

**Registry.** Champions of other kinds may change after an evaluation; the base
registry's `rollback` picks by id order and can re-activate a model that a restore took
away (`ml/framework.py:169`), outside the promotion workflow's promises.

**Readiness.** The check runs 09:00-09:19 and the observer from 09:20, but an operator
may start either by hand, so both interleave.

**Reports.** A run reads its clock once and judges every timestamp by it. Timers are
kept as ticks left from now, a timer below every age at `Past`, which keeps the state
space finite without a last tick. Two failed reports with equal attempts whose waits
both ran out are taken in date order here and by their expired stamp in the code.

### 2.2 Bounds

Bounds of the models are named as such where they are declared (`MaxTime`, `LockWait`,
`SnapshotAge`, `MaxLots`, `Controls`, `Transient`, `MaxSignals`, `MaxBoot`, `Incidents`,
`LastInstant`, `MaxFailures`, `LastMinute`, `MaxOpportunities`, `MaxActivations`,
`MaxTokens`, ...). All other constants are the program's own, at small values that keep
their order. Ids that the code treats alike are interchangeable, and runs without
liveness use symmetry. Instances whose clock or stream ends say `CHECK_DEADLOCK FALSE`.

`NightAssumption` (in `BankNiftyDesk`): no wait for the lock that begins before 15:00
and no snapshot used in the entry window reaches across midnight. The waits are bounded
by start timeouts of at most 110 s and snapshots by 180 s.

## 3. What is checked

| run | instance | what it shows |
|---|---|---|
| `AiCallsSafe` | 3 calls, a plan and a band event, two days in one rolling window, 6 ticks, clocks one tick late | `BudgetHolds`: budgets are ceilings; `AttemptsKept`: an event has a bounded number of attempts, spaced, one in flight; `NeverReplayed`: settled rows are final |
| `DeskRace` | two workers, the supervisor, an operator who stops and resumes, two calls, cap 1 | the desk implements the ledger (`LedgerKept`) and the mandate (`MandateHonoured`) |
| `DeskDays` (2.5 M states) | one worker and the supervisor, two calls, two lots, a day, a holiday, the next session, a contract that expires, a tight and a wide limit; the tape of one session; a session's replay | `LotsConserved`, `AppliedIffEntered`, `PhaseMatchesPosition`, `TradesKept`, `SoldOnOwnQuote` with partial exits, expiry and settlement; `TapeStands`; `ReplayAgrees` |
| `DeskLive` | one worker, the supervisor, two days, halts, disabling, kills, settlement | `LateIsClosed`, `HaltStopsSession`, `AbandonedIsResolved` |
| `CashDesk` (340 k) | two days of four clock points, two instruments, two signals, an incident early and one late on the first day, one reboot, with and without the orchestrator | `MoneyKept`, `CompletedIsFlat`, `EntryUnderConsent`, `StopIsFinal`, `OverdueSettles` |
| `Services` | three units and two books; two models and two trainers; one observer and one check; two days and two reporters, one day's mail refused for ever; the simulator with two orders and contradicting, late and repeated commands | `SwapWhenFlat`, `SupervisedOption`, `GateAnswersInTime`; `PromotedIsEvaluated`; `ReadinessHeals`; `DuplicatesExplained`, `BacklogDrains`; `SimulatorBooksAgree` |
| `Decisions` (800 k) | five instants and a failing store; two runs over one proposal; four batches and two clerks; a session with a call, a put and a far call; every stream of four opportunities; five rows of tape; two readers of one token | `EveryOrderIsOnRecord`, `LimitsHold`, `PaperRecordsAgree`, `FillsAuthorised`, `RecordsStand`, `SplitsAreSealed`, `PlansHold`, `LossesBudgeted`, `EntriesSeeTheirSession`, `BaselinesComparable`, `RewardExplained`, `ReadsHeal` |

Why these are enough: a race on the desk needs two processes and one position, a stale
quote two positions, a partial exit two lots, an overnight session two days, a cap of
one the second worker; the rolling window a second day, the attempt limit three calls;
joint overspending in one cash tick two signals, a lapsed consent one reboot, a torn
commit one incident in the window; two runs of one proposal make a race for its fill;
a contradicted candle needs a second batch, a leak between splits a label that ends in
the next one. Each property has a mutant of the code (a dropped guard, an off-by-one, a
missing reset, a swapped order, marked `mutant:`) that its run refutes, so none holds
for want of the interesting case.

### 3.1 Where the program and its documents differ

Five runs expect a violation; each states a sentence of a document or the name of a
test, and TLC shows a behaviour of the code that contradicts it.

* `AiCallsProbe` / `OneProbeAtATime`: the circuit looks at three *failed* rows, so the
  recovery probe itself closes it while it is unanswered, and a second call may be
  reserved.
* `DeskStopRace` / `StopPreventsEntry`: an operator stop followed by the permitted
  same-day resume while the model is thinking lets the old call enter.
* `DeskQuote` / `QuoteFilledOnce`: only the last exit quote is remembered; a slow
  monitor with an older fresh quote sells against it a second time.
* `DeskLesson` / `LessonIsFinal`: a flat stop writes the day's record with no entries,
  and the trades of the resumed session never reach it.
* `CashPriorDay` / `PriorDaysFirst`: `control(RUN)` looks at today's row only, so a
  session opens while an older day is unfinished, and the next tick, closing that day,
  ends it. (`EntryUnderConsent` still holds: the tick closes older days before it lets
  anything be entered.)

Seen, and not stated as properties: a triggered exit that cannot be sold at once is not
latched (`banknifty.py:894`, no text promises that it is); a delivery killed every time
never counts as an attempt (`options_operations.py:113`); the quote validated before a
human interrupt is the one executed on (`langgraph_workflow.py:196`).

### 3.2 Fairness

* Option desk: the timers start the supervisor every minute and its runs are short, so
  `MonitorRead(Supervisor)` is weakly fair; a run may be killed or overtaken between its
  two locks, but not every time, so `MonitorCommit(Supervisor)` is strongly fair. A
  worker's run ends, by its own steps or by its start timeout: weak fairness of the
  disjunction, which promises no particular step. Nothing is promised of operators, of
  the market or of kills.
* Cash desk: time goes on, and runs on which the feed answers and nothing fails come up
  again and again (`[]<>sound`), which the run's last day always allows.
* Reports: time passes, runs are started, and of the runs that claim, mail or record
  some get that far (strong fairness per report). A mail server that hangs beyond the
  start timeout every single time is outside this assumption.
* Readiness: observers and checks go on (`WF(Observe)`, `WF(CheckStep)`). Rollout: the
  gate's own next step (`WF(GateStep)`); workers promise nothing, so only the gate's
  timeout ends its wait.

The `*Fairness` of the modules and that of `MCServices` are the same formulas, the
latter for the component that moves.

## 4. What is proved

TLC shows a property on an instance; the theorems below hold for every value of the
constants that meets the assumptions. A theorem is named with the property it states.

### 4.1 Assumptions

Each is named, in the module that declares the constants, and evaluated by TLC in the
runs of that module's instances. Most only say what kind of thing a constant is. Those
that say more:

* `CallAssumption`: the calls are finitely many (any number), at least one attempt is
  allowed per event and a slot lasts at least a tick.
* `DeskAssumption`: the supervisor is not one of the workers.
* `NightAssumption` (see 2.2): used by `TradesAreKept` alone.
* `SnapshotAssumption`: the ledger alone takes snapshots of a bounded age, the desk puts
  no bound on a worker's age; with the ledger's bound beyond the clock's end the desk can
  implement it. The ledger's theorems hold for every bound, so nothing is lost.
* `ReportsAssumption`: a run ends before its lease does (`RunLimit < LeaseLength`: start
  timeouts of 110 s and 45 s against `LEASE_SECONDS` = 300).
* `RolloutAssumption`: the supervisor and the watchdog are units of the script's list and
  the supervisor opens nothing.
* `SimulatorAssumption`: quantities and prices of a command are what `submit()` and
  `on_quote()` validate before it becomes an event (`RequestOK`), and slippage is a
  fraction below one, as `FillRules` demands.
* `RiskAssumption`: what `SizingRules`, `RiskConfig` and `HardLimits` accept: fractions,
  limits and lots are positive, costs are not negative. `CoreAssumption`: the core and the
  simulator share one money unit and one cost model, a quote's bid and ask are positive
  ticks, and instants are naturals.
* `PaperBookAssumption`: finitely many runs; what a run is given is well formed.
* `JournalAssumption`: horizons are whole minutes. `BrokerAssumption`: the processes are
  finitely many (any number).
* `TradesAssumption`: lives and pauses are whole minutes, and a plan expires before the
  pause after an exit is over (`PlanTerm < ExitPause`: 120 s in `playbooks.py`,
  `COOLDOWN_SECONDS` = 300 in `options_policy.py`); rates and limits are positive, a share
  in per mille is a whole number of money units (`Paise`), and profiles, contracts and
  quotes are of naturals, a reward of two positive ones (a playbook's `live_exit`,
  `contracts_from_csv`).
* `TapeAssumption`: a service's time limit is within a study's window, and from the first
  entry to the close is within the time a position's contract is tracked (110 s against
  63 minutes; 360 minutes in `track_plans`).
* `BaselineAssumption`: times, caps, pauses and costs are naturals, and a day has a length.
  `ShadowAssumption`: prices, rates and their bases are naturals, a bid is positive and not
  above the ask, rates are below one, and an episode has two rows.
* `CashAssumption`: prices, limits and budgets are naturals; a day and the run of days
  are not empty.

### 4.2 Theorems

**`AiCallsProofs`** (any calls, budgets, calendars, lock waits)

* `TypeCorrect`, `NoReplay` (`NeverReplayed`), `ChargeRetained`.
* `BudgetKept` (`BudgetHolds`). The budgets are sums over rows, and a reservation is
  tested against what is booked *now* while others settle later. Inductive:
  `BudgetInv` = types, `ReservedInFull` (a row in flight is charged its reservation) and
  `WithinCaps`; a settlement can then only lower a sum (`Sums`).
* `EventsNotOverpaid` (`AttemptsKept`). Needs `AttemptInv`: slots are distinct, every row
  of an event but the latest is resolved, and there are at most `MaxAttempts` rows.

**`BankNiftyDeskProofs`** (any workers, lots, limits, calendars, market moves)

* `DeskTypeCorrect`, `NothingStranded` (`PhaseMatchesPosition`), `EntriesAreApplied`
  (`AppliedIffEntered`), `LotsBalance` (`LotsConserved`): conjuncts of one inductive
  invariant, `DeskInv`; none of them is inductive alone, because a sale needs the type
  of the position it sells and an entry needs the row of its call.
* `SalesUseOwnQuote` (`SoldOnOwnQuote`).
* `TradesAreKept` (`TradesKept`). Inductive: `TradeInv` over `DeskInv`, i.e. `DayBook`
  (the record of a day: entries opened on their own day in the window, closed before the
  next is opened, at most one open, counted by the session), `MemoryInOrder` (what a
  monitor remembers is no later than what the record says) and `ScansInOrder` (what a
  worker carries is of the day of its scan). The argument is about clocks: a handler's
  clock read may be older than the last commit by the lock wait, so the order of two
  entries does not follow from the order of their reads but from the cooldown tested
  against the stored exit.
* `DeskKeepsLedger` (`LedgerKept`): refinement of `AiCalls`, each action of the desk
  mapped to a statement of the ledger or a stutter. `DeskWithinBudget` transfers
  `BudgetHolds` and `AttemptsKept` to the desk with it.
* `TapeIsStudied` (`TapeStands`), of the tape beside the desk. Inductive: `TapeInv`, i.e.
  `Promised` (whatever an answer, or the scan that waits for one, depends on is tracked
  long enough, and a row marked opened is some answer's position) and `RoundsAsk` (every
  round, the one under way included, has asked for it or lists it as overflow). A round
  fixes what it asks for before its quotes arrive and an answer is dated before its plans
  are tracked anew; that nothing falls between rests on the scan's own tracking and on
  `OneShot <= Window`. That positions come first under the capacity is a count: whatever
  precedes an opened contract is another answer's position (`PositionIsSelected`). That
  studies are final needs no history: the first row of a prefix is the first of the whole
  tape (`FirstOfPrefix`, by a least element of the naturals).
* `DeskHonoursMandate` (`MandateHonoured`): refinement of `PaperMandate`: an entry maps to
  `Enter`, a committed exit, a stop or a settlement to `Wind`, a permitted resume to
  `Revive`, a start to `Grant`, the rest to stutters.

**`PaperBookProofs`** (any runs, proposals, accounts, crashes)

* `PaperTypeCorrect`, `FillsAreAuthorised` (`FillsAuthorised`), from `PaperInv`: what a
  run has checked stays true under the locks it holds until it commits.
* `PaperRecordsStand` (`PaperRecordsAgree`), from two further invariants. `BooksInv`:
  who is between check and commit excludes the others of his account, and the account's
  cash, position and result equal the sums over its orders. `TrailInv`: which events of
  a run are in the log follows from its node (`Reached`, `InNode`), in that order
  (`LogOrdered`), each once if the chain holds (`OnceIfChained`). The last needs that an
  append reads the tail after its look-up: then a chain that holds has no append
  between the two.

**`ServicesProofs`** (any days, runs, leases; units, exposures, patience; trainers, models)

* `ReportsTypeCorrect`, `LeaseExcludes`, `MailedOnce` (`DuplicatesExplained`), from
  `ReportsInv`: whoever mails holds a lease that outlives him, an outcome once recorded
  stays, and copies beyond the first equal the records lost.
* `RolloutTypeCorrect`, `SwapsWhenFlat` (`SwapWhenFlat`), `OptionSupervised`
  (`SupervisedOption`), from `RolloutInv`, which relates the step of the script to what it
  has stopped, to the locks that are held and to what the script believes of a lock
  connection that may be lost.
* `RegistryTypeCorrect`, `PromotionsAreEvaluated` (`PromotedIsEvaluated`), from
  `RegistryInv`.

**`DecisionsProofs`** (any commands, samples, prices, failures; batches, sessions, clerks,
horizons; processes, tokens, approvals)

* `JournalStands` (`RecordsStand`). The property speaks of rows on record; inductive is
  `RecordsInv`, which says the same of every row a clerk has computed and not written yet,
  and that the rest of what clerks hold is well formed. It stands from the read to the
  write because the history only `Grows`: a stored candle is never replaced and keeps its
  sources, so a run of candles that was complete when read is read again as it was
  (`RunStays`), whatever a late batch adds to its past.
* `SplitsStaySealed` (`SplitsAreSealed`). Of a history of any shape (`HistoryOK`): a read
  whose clock is before a split's end does not tell the history from what was known of it
  then (`SameBefore`), and purging bounds every clock of the split so.
* `BooksStand` (`SimulatorBooksAgree`). Inductive: `SoundLedger`, i.e. each order's fills are
  what its status says and by events that are known and not after the book's clock
  (`OrderSound`), and cash with what the orders hold equals capital with results, as a
  `Total` over the orders. A quote may enter one order and leave another, so on its round
  the invariant is about the orders met so far, and the others are as they were before the
  quote (`QuotedSound`); hence no order leaves by the quote it was entered by.
* `OrdersAreOnRecord` (`EveryOrderIsOnRecord`), from `CoreInv`: the book is well formed and
  every order in it is `Recorded`. Two facts carry it through each store that may fail.
  The journal and the audit log only grow; and every simulator event but a submission
  `Keeps` the orders, their terms and their instants. A quote's part of the second is a
  fold over the live orders: that it has a value, whatever the order they are taken in,
  and keeps what each of its steps keeps, is proved as for a sum in `Sums`, by a smallest
  counterexample (`RoundExists`, `QuotedKeeps`).
* `LimitsAreKept` (`LimitsHold`). The policy judges a plan on a portfolio that the next
  quote changes, so what it granted has to survive fills at other prices, exits and later
  grants. Inductive: `LimitsInv`, i.e. of the ledger, the peak and the candidates so far
  (`Within`): every order that may still lose `Fits` its own budget, which is at most the
  peak's share of risk, and was submitted at its candidate's instant, on a quote of that
  instant, after the pause that the losses before it asked for (`Placed`). Three arguments
  carry it. The risk gate of a fill prices the stop *with* slippage and fees, so the risk
  from the fill to the planned stop is below the budget that was granted (`GateFits`, by
  `SlippedDown` and `SlippedUp`); a grant's whole lots cost no more than that budget
  (`Granted`). The pause is told from the trades closed up to the submission, and a later
  exit cannot join them: an order is submitted on a quote of its instant, so a *new* quote
  is later than every submission (`QuotedWithin`, `RestedStill`). And the streak the policy
  reads, whichever way exits of one instant are ordered, contains every loss that the
  ledger counts in the row (`PaceRests`). The sum over live orders is then bounded by
  their number times the peak's share (`TotalBounded`).
* `BaselinesCompare` (`BaselinesComparable`). Inductive: `StudyInv`, i.e. of every book
  `BookFair` (what the property says of one book, and the last exit it remembers is that of
  its last trade) and of every two whose scenarios differ in the cap `Aligned`: on the first
  day they are the same book, counts and money included, until the tighter one is at its
  cap. Then it is vetoed for the rest of that day, and the looser one only appends.
* `RewardIsExplained` (`RewardExplained`). Inductive: `ShadowInv`, i.e. what was paid and
  received is the net result less what the position at hand cost (`Invested`), a long one
  is covered by the money before it, and `FallsHold`: the peak and the drawdown kept step
  by step are those of all the equities seen. That the penalties, added up as differences,
  are the drawdown itself is arithmetic of fractions in lowest terms, proved from the
  definition by a greatest common divisor (`ReducedExists`, `LowestCanonical`,
  `PlusMinus`).
* `ReadsSettle` (`ReadsHeal`). Inductive: `BrokerInv`, i.e. `TokensOwn` (a token not yet
  in the file is known to the process it was issued to only), `RefusedGone` (a refused
  token does not come back once its process cleared the file, since whoever still has a
  token to write has another one) and `RejectionsBounded`, the accounting: a process's
  rejections, and the other processes that may still write a token of before the
  approval, and one if the read at hand is bound to be rejected, are together never more
  than there are processes. A write of such a token dooms readers and leaves one writer
  less; a rejection after a refresh takes its doom.

**`TradesProofs`** (any contracts, charts, offers, limits, number of trades and of quotes)

* `EntriesSeeTheirPlan` (`EntriesSeeTheirSession`), from `TradesInv`: a plan the analyst
  has in hand is `Timely`, i.e. sized on the money the session has now, or something is
  held, or an exit was made since the plan was. The last excludes an entry, because the
  pause after an exit outlives the plan.
* `LossesAreBudgeted` (`LossesBudgeted`), inductive: `MoneyInv`. While a position is held,
  the day keeps room for the risk of what is left of it and for the fixed cost of each
  sale of it (`Covered`), scaled by the quantity bought because a sale bears its share of
  the cost only up to half a unit (`Halved`); sold out, the terms cancel (`SaleRoom`,
  `SaleDrift`). An entry starts within the room since the size divides what is left of the
  day by the risk of a unit at its stop, a tick more at most (`SizeCosts`, `RiskAtStop`).
  The bound would not be inductive on what was realized alone: a partial sale books a loss
  whose rest is still held.
* `PlansAreKept` (`PlansHold`), with `PlansInv`: what a plan says of its scan (`AsMade`).
  A plan is sized at a capped fill and checked at the quote's own, which is no higher
  (`CappedAbove`) and so buys no less (`DearerIsLess`), at a target that pays
  (`TargetPays`, by rounding up over both fixed costs). The diagnostics' seven capacities
  have the same least as the five terms of the size (`TightestBuys`), and a lot fits in
  the capital they name and not in a unit less (`LeastCapital`).
* `EvidenceReplays` (`ReplayAgrees`). The replays are folds over what was recorded, so the
  proof needs what one record more does to a fold. `FoldLeft` is a recursive function on
  sets of indices; that it has a value for every finite set, only one, and the same on a
  prefix of a longer sequence (`FoldExists`, `FoldUnique`, `FoldRestricted`) is proved by a
  smallest counterexample, and gives `FoldsGrow`: the walk, the book and the list of exits
  of one row more are one turn more. Inductive is `ReplayInv`: before the entry every plan
  was sized with the money there is (`NotYet`); after it (`SinceBought`) the fold of the
  exits has the lots and the cost of the position (`BookKept`), and the fold of the tape
  has its lots, its pending reason and its last quote and has made its exits (`WalkKept`).
  The property compares the ends of both and is not inductive: that two walks made the
  same exits so far does not say that they go on so. A quote on which the desk does not
  sell turns no walk (`NotSold`: its reasons, in their order, are the walk's unless the
  session is halted, `SameReasons`), one on which it sells turns both alike (`Sold`); the
  share of the cost `replay_fills` takes from what is left is the share of all there was
  (`FillKept`). The theorem puts no bound on the quotes or on the parts of a sale.

**`CashDeskProofs`** (any symbols, signals, days, boots)

* `CashTypeCorrect`, `MoneyIsKept` (`MoneyKept`), `CompletedStaysFlat`
  (`CompletedIsFlat`). A handler is a composition of operators whose exception may cut
  it at any savepoint, so the proof is about one relation: `Leads(d, e, allowed)`, what
  any part of a handler may do to a desk record. It is transitive, every call a handler
  makes satisfies it, and it carries `Sound` (types, `Balanced`, `Settled`, `Budgeted`)
  from `d` to `e`; `CashInv` then follows action by action. The budget is the delicate
  part: a tick reviews several signals, so each entry must have seen what the earlier
  ones of the same tick spent (`ReviewsLead`).
* `StopsAreFinal` (`StopIsFinal`) and `EntriesAreConsented` (`EntryUnderConsent`): action
  properties from the same relation. Consent is the conjunction of what the tick tested
  (day, halt, boot, older days closed), kept by `TodayLeads` and `OlderLead` up to the
  entry itself.

**`Sums`**: facts about `Total`, the sum of weights over a finite set, that the money
proofs share: it changes with one of its terms, with one more element, is monotone, and
is at most the number of weights times a bound on each. The induction is
by a smallest counterexample, on the definition by recursive function. Facts of whole
numbers that several modules need (division, the least of a few) are there too.

### 4.3 What is only model-checked

* Liveness (`LateIsClosed`, `HaltStopsSession`, `AbandonedIsResolved`, `OverdueSettles`,
  `GateAnswersInTime`, `ReadinessHeals`, `BacklogDrains`) and whatever depends on
  `ENABLED`: the temporal backend has no rule for fairness over actions with parameters.
* The violations of 3.1, which are behaviours and not theorems.

Induction over data is out of reach only where a lemma would need an operator as its
parameter. The folds of the replays are therefore proved about with their three turns
named by a tag (`Turn`), and the sum over orders in `Sums` on its own definition.

## 5. Plan

Every safety property and every action property of a passing run is proved. Liveness
stays with TLC. What could still be added:

1. The walk of a session that was halted, once the evidence records the halt.
2. The event calendar's second look at execution, and the shadow plans of a calendar that
   is not clear.

## 6. What is not modelled, and why

* **Data that no property reads**: chart evidence, indicator arithmetic, the analyst's
  wording, report figures, mail texts and layout are inputs or are left out. Training,
  features and calibrated scores are floating point and come in as inputs.
* **PostgreSQL**: transactions, row and advisory locks are the atomicity of the actions;
  a crash loses an uncommitted transaction. Isolation anomalies matter where the code
  runs several statements without the lock, and there the statements are separate
  actions.
* **AI analyst client** (`options_ai.py`): a network call and the parsing of its answer;
  its outcome is an input of `AiCalls`.
* **Offline market data pipeline** (`marketdata/pipeline.py` and its neighbours): batch
  processing of files by one process.
* **HTTP API, sessions, observability** (`api.py`, `auth.py`, `observability.py`): handlers
  that forward to the components above.
* **Document search and small registries** (`rag.py`, `intelligence.py`, `strategy.py`):
  index look-ups with no state that other parts rely on.
* **Smaller pieces of modelled parts**: the CSV candle cache, the event calendar's second
  look at execution, `compare_shadow`, the custom ranker, the in-memory `workflow.py` and
  `execution.py`, and how checkpoints are stored.
