------------------------------- MODULE CashDesk -------------------------------
(***************************************************************************)
(* The cash paper desk: a day-scoped session an operator approves (RUN),   *)
(* the signals it may enter, and the worker that works them, either alone  *)
(* (run_once) or under the session orchestrator, which keeps one row per   *)
(* market day in a SQLite file of its own.  Every entry point takes the    *)
(* account's advisory lock inside one PostgreSQL transaction, so each is   *)
(* one action; but the SQLite transaction inside it commits first, and a   *)
(* process lost between the two commits leaves the rows without the desk   *)
(* (a torn commit).                                                        *)
(*                                                                         *)
(* A handler is an operator from the desk record to the set of desks it    *)
(* may leave.  One unit of stock is traded per signal; prices are small    *)
(* integers, slippage is part of Cost, and a quote is fresh until the      *)
(* clock moves on.  The clock counts the boundaries of the trading day.    *)
(***************************************************************************)
EXTENDS Integers, FiniteSets, FiniteSetsExt

CONSTANTS
  Symbols,      \* settings.symbols
  Patterns,     \* setups _create_signal recognises
  Prices,       \* symbol -> prices its quotes may show
  Stop, Target, \* distances of the stop and of the target from the fill
  Cost,         \* COST_RATE of one side, paid by session trades only
  Capital,      \* the account's simulated cash
  Budget, LossLimit, ProfitLimit,   \* an approved session
  MaxEntries,   \* MAX_ENTRIES
  MaxSignals,   \* bound of the model: signals ever created
  Expiry, Cooldown,                 \* life of a pending signal; pause after an exit
  LastDay, DayLength, Horizon,      \* bounds of the model: days, clock points of a day, last point
  TradingDays,  \* the exchange calendar
  Premarket, Opens, ObserveFrom, WindowStart, Cutoff, Flatten, ExitEnd, Closes,
  MaxBoot,      \* bound of the model: reboots or releases
  Incidents,    \* bound of the model: clock points at which something may go wrong
  Modes         \* [lifecycle, auto]: KIWIT_SESSION_CONFIG set; account kiwit-paper-auto

Days == 1 .. LastDay
Slots == 1 .. MaxSignals
Times == 0 .. Horizon
Nobody == 0       \* no boot, no session
Never == -1

ASSUME CashAssumption ==
  /\ {Stop, Target, Cost, Capital, Budget, LossLimit, ProfitLimit, MaxEntries, MaxSignals,
      Expiry, Cooldown, Horizon} \subseteq Nat
  /\ {LastDay, DayLength, MaxBoot} \subseteq Nat \ {0}
  /\ Symbols # {} /\ Patterns # {}
  /\ Horizon < LastDay * DayLength
  /\ Prices \in [Symbols -> (SUBSET Nat) \ {{}}] /\ TradingDays \subseteq Days
  /\ Incidents \subseteq Nat /\ Modes \subseteq [lifecycle : BOOLEAN, auto : BOOLEAN]
  /\ {Premarket, Opens, ObserveFrom, WindowStart, Cutoff, Flatten, ExitEnd, Closes} \subseteq Nat
  /\ Premarket <= Opens /\ Opens <= ObserveFrom /\ ObserveFrom < Cutoff
  /\ WindowStart < Cutoff /\ Cutoff <= Flatten /\ Flatten < ExitEnd /\ ExitEnd <= Closes
  /\ Closes < DayLength

VARIABLES
  now,      \* clock point, counted over all days
  mode,     \* the deployment's configuration
  boot,     \* consent epoch: hash of boot id and release
  halted,   \* an active row of system_halts in the account's scopes
  rows,     \* market_sessions in SQLite, by day
  desk,     \* PostgreSQL: [sess, sig, cash, realized, quote, recon]
  sound     \* the last step was a worker run with every quote, no exception and no kill

cashVars == <<now, mode, boot, halted, rows, desk, sound>>

Day == now \div DayLength + 1
Phase == now % DayLength

Open(st) == st \in {"armed", "running", "stopping"}
NoRow == [st |-> "none", armed |-> Nobody, warmed |-> Nobody]
NoSignal == [st |-> "free", sym |-> CHOOSE s \in Symbols : TRUE, of |-> Nobody,
             pat |-> CHOOSE p \in Patterns : TRUE, at |-> 0, fill |-> 0, out |-> Never, pnl |-> 0]
-----------------------------------------------------------------------------
(* The session's figures.                                                   *)

Summed(f) == MapThenSumSet(LAMBDA i : f[i], DOMAIN f)
ActiveDays(d) == {k \in Days : Open(d.sess[k])}
SignalsOf(d, k, sts) == {i \in Slots : d.sig[i].of = k /\ d.sig[i].st \in sts}
Fee(g) == IF g.of = Nobody THEN 0 ELSE Cost
\* _session_totals(): realized results, and open entries marked at the last bid.
Marked(d, g) == IF g.st = "exited" THEN g.pnl ELSE d.quote[g.sym].bid - Cost - (g.fill + Cost)
Pnl(d, k) == Summed([i \in SignalsOf(d, k, {"entered", "exited"}) |-> Marked(d, d.sig[i])])
Exposure(d, k) == Summed([i \in SignalsOf(d, k, {"entered"}) |-> d.sig[i].fill + Cost])
Entries(d, k) == Cardinality(SignalsOf(d, k, {"entered", "exited"}))
AllFresh(d, k) == \A i \in SignalsOf(d, k, {"entered"}) : d.quote[d.sig[i].sym].fresh
PnlEnds(d, k) == Pnl(d, k) <= -LossLimit \/ Pnl(d, k) >= ProfitLimit
\* session_quantity() allows at least one unit: what is left of the budget after
\* losses and open entries, and of the cash.
AffordableGross(d, k, fill) ==   \* mutant: open entries still count as budget
  fill + Cost <= Min({Budget + Min({Pnl(d, k), 0}), d.cash})
Affordable(d, k, fill) ==
  fill + Cost <= Min({Budget + Min({Pnl(d, k), 0}) - Exposure(d, k), d.cash})

SetSession(d, k, st) == [d EXCEPT !.sess[k] = st]
Expire(d, S) == [d EXCEPT !.sig = [i \in Slots |->
                  IF i \in S /\ d.sig[i].st = "pending" THEN [d.sig[i] EXCEPT !.st = "expired"]
                  ELSE d.sig[i]]]
\* expires_at: a fixed life, but never past the end of executable quotes
ExpiresAt(g) == Min({g.at + Expiry, (g.at \div DayLength) * DayLength + ExitEnd})
Overdue(d) == {i \in Slots : ExpiresAt(d.sig[i]) <= now}
-----------------------------------------------------------------------------
(* monitor_exits(): entered signals in scope are sold at a fresh bid, inside *)
(* market hours, when forced or when the stop, the target or the flatten     *)
(* time says so; then every overdue pending signal expires.                  *)

ExitDue(d, g) ==
  LET q == d.quote[g.sym]
  IN q.bid <= g.fill - Stop \/ q.bid >= g.fill + Target \/ Phase >= Flatten
Leaving(d, scope, forced) ==
  {i \in scope : /\ d.sig[i].st = "entered"
                 /\ d.quote[d.sig[i].sym].fresh
                 /\ WindowStart <= Phase /\ Phase < ExitEnd
                 /\ forced \/ ExitDue(d, d.sig[i])}
SaleResult(d, g) == d.quote[g.sym].bid - g.fill - Fee(g) - Fee(g)
Proceeds(d, g) == d.quote[g.sym].bid - Fee(g)
SellFeeless(d, X) ==   \* mutant: the exit fee is booked as a loss but not taken from the cash
  [d EXCEPT !.sig = [i \in Slots |-> IF i \in X
                       THEN [d.sig[i] EXCEPT !.st = "exited", !.out = now, !.pnl = SaleResult(d, d.sig[i])]
                       ELSE d.sig[i]],
            !.cash = @ + Summed([i \in X |-> Proceeds(d, d.sig[i]) + Fee(d.sig[i])]),
            !.realized = @ + Summed([i \in X |-> SaleResult(d, d.sig[i])])]
Sell(d, X) ==
  [d EXCEPT !.sig = [i \in Slots |-> IF i \in X
                       THEN [d.sig[i] EXCEPT !.st = "exited", !.out = now, !.pnl = SaleResult(d, d.sig[i])]
                       ELSE d.sig[i]],
            !.cash = @ + Summed([i \in X |-> Proceeds(d, d.sig[i])]),
            !.realized = @ + Summed([i \in X |-> SaleResult(d, d.sig[i])])]
MonitorExits(d, scope, forced) ==
  LET sold == Sell(d, Leaving(d, scope, forced)) IN Expire(sold, Overdue(sold))
-----------------------------------------------------------------------------
(* review(approved) with session_entry_terms(): what an entry needs, given   *)
(* the session signals E entered just before it in the same tick.            *)

Enter(d, E) ==
  [d EXCEPT !.sig = [i \in Slots |-> IF i \in E
                       THEN [d.sig[i] EXCEPT !.st = "entered", !.fill = d.quote[d.sig[i].sym].bid]
                       ELSE d.sig[i]],
            !.cash = @ - Summed([i \in E |-> d.quote[d.sig[i].sym].bid + Fee(d.sig[i])])]
EntryOpen(d, i) ==   \* common to both callers
  /\ d.sig[i].st = "pending" /\ now < ExpiresAt(d.sig[i])
  /\ ~halted
  /\ d.quote[d.sig[i].sym].fresh
SessionTerms(d, k, i) ==
  /\ d.sess[k] \in {"armed", "running"}
  /\ Day = k /\ WindowStart <= Phase /\ Phase < Cutoff
  /\ d.sig[i].of = k
  /\ AllFresh(d, k) /\ ~PnlEnds(d, k) /\ Entries(d, k) < MaxEntries
  /\ Affordable(d, k, d.quote[d.sig[i].sym].bid)
\* The pending signals of the session, oldest first, each under the terms its
\* predecessors leave.
Reviews(d, k) ==
  LET pending == SignalsOf(d, k, {"pending"})
      Before(E, i) == Enter(d, {j \in E : j < i})
  IN {Enter(d, E) : E \in {E \in SUBSET pending : \A i \in pending :
        i \in E <=> EntryOpen(Before(E, i), i) /\ SessionTerms(Before(E, i), k, i)}}
-----------------------------------------------------------------------------
(* session_tick(): end the session for a reason and close its positions, or  *)
(* pause, wait, or review what is pending.                                   *)

MustEndOnLimits(d, k) ==   \* mutant: an operator's stop is forgotten by the next tick
  Day # k \/ Phase >= Flatten \/ PnlEnds(d, k) \/ Entries(d, k) >= MaxEntries
MustEndToday(d, k) ==   \* mutant: a session left over from an earlier day is taken up again
  d.sess[k] = "stopping" \/ Phase >= Flatten \/ PnlEnds(d, k) \/ Entries(d, k) >= MaxEntries
MustEnd(d, k) ==
  \/ d.sess[k] = "stopping"
  \/ Day # k \/ Phase >= Flatten
  \/ PnlEnds(d, k)
  \/ Entries(d, k) >= MaxEntries
WindDownAtOnce(d, k) ==   \* mutant: completed whether or not the positions could be sold
  LET sold == MonitorExits(SetSession(d, k, "stopping"), SignalsOf(d, k, {"entered"}), TRUE)
  IN SetSession(Expire(sold, SignalsOf(sold, k, {"pending"})), k, "completed")

WindDown(d, k) ==
  LET sold == MonitorExits(SetSession(d, k, "stopping"), SignalsOf(d, k, {"entered"}), TRUE)
      left == SignalsOf(sold, k, {"entered"}) # {}
  IN SetSession(Expire(sold, SignalsOf(sold, k, {"pending"})), k,
                IF left THEN "stopping" ELSE "completed")
TickSession(d, k, allowed) ==
  CASE MustEnd(d, k) -> {WindDown(d, k)}
    [] ~MustEnd(d, k) /\ ~AllFresh(d, k) -> {SetSession(d, k, "running")}
    [] ~MustEnd(d, k) /\ AllFresh(d, k) /\ Phase < WindowStart -> {SetSession(d, k, "armed")}
    [] ~MustEnd(d, k) /\ AllFresh(d, k) /\ Phase >= Cutoff -> {SetSession(d, k, "running")}
    [] OTHER -> IF allowed THEN {SetSession(e, k, "running") : e \in Reviews(d, k)} ELSE {d}
SessionTick(d, allowed) ==
  IF ActiveDays(d) = {} THEN {d} ELSE UNION {TickSession(d, k, allowed) : k \in ActiveDays(d)}
-----------------------------------------------------------------------------
(* _create_signal(): one symbol whose quotes show a setup.                   *)

Busy(d, k, s) ==
  \E i \in Slots : /\ d.sig[i].of = k /\ d.sig[i].sym = s
                   /\ \/ d.sig[i].st \in {"pending", "entered"}
                      \/ d.sig[i].st = "exited" /\ d.sig[i].out > now - Cooldown
\* The unique indexes: per session, symbol and instant, or per day and pattern.
Duplicate(d, k, s, p) ==
  \E i \in Slots : /\ d.sig[i].st # "free" /\ d.sig[i].sym = s /\ d.sig[i].of = k
                   /\ IF k = Nobody THEN d.sig[i].at \div DayLength + 1 = Day /\ d.sig[i].pat = p
                                    ELSE d.sig[i].at = now
MayCreate(d, k, s, p) ==
  /\ IF k = Nobody THEN ~mode.auto /\ d.sess[Day] = "none"
                   ELSE d.sess[k] # "stopping" /\ k = Day /\ ~Busy(d, k, s)
  /\ WindowStart <= Phase /\ Phase < Cutoff
  /\ d.quote[s].fresh
  /\ ~Duplicate(d, k, s, p)
Free(d) == {i \in Slots : d.sig[i].st = "free"}
Injective(f) == \A s, r \in DOMAIN f : f[s] = f[r] => s = r
Created(d, k, slot, pat) ==
  [d EXCEPT !.sig = [i \in Slots |->
     IF \E s \in DOMAIN slot : slot[s] = i
     THEN LET s == CHOOSE s \in DOMAIN slot : slot[s] = i
          IN [NoSignal EXCEPT !.st = "pending", !.sym = s, !.of = k, !.pat = pat[s], !.at = now]
     ELSE d.sig[i]]]
\* Any of the symbols may show a setup on this run; signals of one run carry the
\* same time, so they are later reviewed in any order.
CreateSignals(d) ==
  LET k == IF ActiveDays(d) = {} THEN Nobody ELSE Max(ActiveDays(d))
      First(n) == {i \in Free(d) : Cardinality({j \in Free(d) : j < i}) < n}
      Setups == {pat \in UNION {[T -> Patterns] : T \in SUBSET Symbols} :
                   /\ Cardinality(DOMAIN pat) <= Cardinality(Free(d))
                   /\ \A s \in DOMAIN pat : MayCreate(d, k, s, pat[s])}
  IN UNION {{Created(d, k, slot, pat) :
               slot \in {f \in [DOMAIN pat -> First(Cardinality(DOMAIN pat))] : Injective(f)}}
            : pat \in Setups}
-----------------------------------------------------------------------------
(* The worker's work, alone (run_once) or as the orchestrator's observe().   *)

Ingested(d, q) ==
  [d EXCEPT !.quote = [s \in Symbols |->
     IF q[s] = Never THEN @[s] ELSE [fresh |-> TRUE, bid |-> q[s]]]]
Arrived(q) == \A s \in Symbols : q[s] # Never
Feeds == {q \in [Symbols -> UNION {Prices[s] : s \in Symbols} \cup {Never}] :
            \A s \in Symbols : q[s] \in Prices[s] \cup {Never}}
Observe(d, allowed) ==
  LET first == SessionTick(MonitorExits(d, Slots, FALSE), allowed)
  IN IF ~allowed THEN first
     ELSE UNION {SessionTick(e, TRUE) : e \in UNION {CreateSignals(f) : f \in first}}
\* An exception rolls back its own savepoint and keeps those before it.
Broken(d, allowed) ==
  LET sold == MonitorExits(d, Slots, FALSE)
      first == SessionTick(sold, allowed)
  IN {d, sold} \cup first \cup (IF allowed THEN UNION {CreateSignals(e) : e \in first} ELSE {})

Reconciled(d) ==
  LET today == {i \in Slots : d.sig[i].st # "free" /\ d.sig[i].at \div DayLength + 1 = Day}
      clear == \A i \in today : d.sig[i].st \notin {"entered", "pending"}
  IN [d EXCEPT !.recon[Day] = IF clear THEN "balanced" ELSE "attention_required"]
-----------------------------------------------------------------------------
(* The orchestrator's tick(): older unfinished days first, then today.       *)

Unfinished(r) == {k \in 1 .. Day - 1 : r[k].st \notin {"none", "COMPLETE"}}
\* IntradaySessionBackend.close(): the active session, whatever its day, is stopped.
StopActive(d) == [d EXCEPT !.sess = [k \in Days |-> IF Open(@[k]) THEN "stopping" ELSE @[k]]]
CloseDesk(d) == SessionTick(StopActive(d), FALSE)
BrokenClose(d) == {d, StopActive(d)}
Flat(d) == \A i \in Slots : d.sig[i].st # "entered"
ClosedRow(row, d) ==
  [row EXCEPT !.armed = Nobody, !.st = IF Flat(d) THEN "COMPLETE" ELSE "CLOSING"]
ErrorRow(row) == [row EXCEPT !.armed = Nobody, !.st = "ERROR"]

\* The rows and desks after the older days: a day that stays unfinished ends the tick.
OlderDays(d, r, broken) ==
  LET old == Unfinished(r)
      one == Min(old)
  IN IF old = {} THEN {[rows |-> r, desk |-> d, on |-> TRUE]}
     ELSE IF broken
     THEN {[rows |-> [r EXCEPT ![one] = ErrorRow(@)], desk |-> e, on |-> FALSE] : e \in BrokenClose(d)}
     ELSE {[rows |-> IF Flat(e) THEN [k \in Days |-> IF k \in old THEN ClosedRow(r[k], e) ELSE r[k]]
                                ELSE [r EXCEPT ![one] = ClosedRow(@, e)],
            desk |-> e, on |-> Flat(e)] : e \in CloseDesk(d)}

\* Consent given under an earlier boot lapses on the first tick that notices it.
Revoked(row) == IF row.warmed \notin {Nobody, boot} THEN [row EXCEPT !.armed = Nobody] ELSE row
Mark(r, row) == [r EXCEPT ![Day] = row]
ConsentsAnyBoot(row) == row.armed # Nobody /\ Phase < Cutoff   \* mutant
Consents(row) == row.armed = boot /\ Phase < Cutoff

Today(d, r, healthy, broken) ==
  LET row == Revoked(r[Day])
      warm == [row EXCEPT !.warmed = boot]
      allowed == Consents(warm)
      ready == healthy /\ Phase < ObserveFrom
      Save(new, D) == {[rows |-> Mark(r, new), desk |-> e] : e \in D}
  IN CASE row.st = "COMPLETE" -> Save(row, {d})
       [] row.st # "COMPLETE" /\ Phase >= Closes ->
            IF broken THEN Save(ErrorRow(row), BrokenClose(d))
            ELSE UNION {Save(ClosedRow(row, e), {e}) : e \in CloseDesk(d)}
       [] row.st # "COMPLETE" /\ Phase < Premarket -> Save([row EXCEPT !.st = "WAITING"], {d})
       [] row.st # "COMPLETE" /\ Premarket <= Phase /\ Phase < Closes /\ (~healthy \/ ready) ->
            IF broken THEN Save(ErrorRow(row), IF ~ready /\ Phase >= Opens THEN Broken(d, FALSE) ELSE {d})
            ELSE IF ready THEN Save([warm EXCEPT !.st = "READY"], {d})
            ELSE Save([row EXCEPT !.st = "BLOCKED_DEPENDENCIES", !.armed = Nobody],
                      IF Phase >= Opens THEN Observe(d, FALSE) ELSE {d})
       [] OTHER ->
            IF broken THEN Save(ErrorRow(row), {d}) \cup Save(ErrorRow(warm), Broken(d, allowed))
            ELSE Save([warm EXCEPT !.st = IF allowed THEN "OBSERVING" ELSE "OBSERVING_NO_ENTRIES"],
                      Observe(d, allowed))

\* Actual quotes validate the broker; history and halts complete the readiness.
Healthy(q, ready) == Arrived(q) /\ ~halted /\ ready
TickOutcomes(q, ready, broken) ==
  UNION {IF o.on /\ Day \in TradingDays
         THEN Today(o.desk, o.rows, Healthy(q, ready), broken)
         ELSE {[rows |-> o.rows, desk |-> o.desk]} : o \in OlderDays(Ingested(desk, q), rows, broken)}
-----------------------------------------------------------------------------
CashInit ==
  /\ now = 0 /\ mode \in Modes /\ boot = 1 /\ halted = FALSE /\ sound = FALSE
  /\ rows = [k \in Days |-> NoRow]
  /\ desk = [sess |-> [k \in Days |-> "none"], sig |-> [i \in Slots |-> NoSignal],
             cash |-> Capital, realized |-> 0,
             quote |-> [s \in Symbols |-> [fresh |-> FALSE, bid |-> CHOOSE p \in Prices[s] : TRUE]],
             recon |-> [k \in Days |-> "none"]]

\* The SQLite commit, then the PostgreSQL commit, or a kill between the two.
Commit(r, d) == rows' = r /\ desk' \in {d} \cup (IF now \in Incidents THEN {desk} ELSE {})

\* run_once() under the orchestrator
Tick(q, ready, broken) ==
  /\ mode.lifecycle /\ (broken => now \in Incidents)
  /\ \E o \in TickOutcomes(q, ready, broken) :
       /\ Commit(o.rows, o.desk)
       /\ sound' = (Arrived(q) /\ ready /\ ~broken /\ desk' = o.desk)
  /\ UNCHANGED <<now, mode, boot, halted>>

\* run_once() without it: its own window, one transaction
RunOnce(q, broken) ==
  /\ ~mode.lifecycle /\ WindowStart <= Phase /\ (broken => now \in Incidents)
  /\ LET d == Ingested(desk, q) IN
       desk' \in IF broken THEN Broken(d, Phase < Cutoff)
                 ELSE IF Phase < Closes THEN Observe(d, Phase < Cutoff)
                 ELSE {Reconciled(e) : e \in Observe(d, FALSE)}
  /\ sound' = (Arrived(q) /\ ~broken)
  /\ UNCHANGED <<now, mode, boot, halted, rows>>

\* The orchestrator's control(RUN), a SQLite transaction of its own.
RunAllowed(q, ready) ==
  /\ Healthy(q, ready)
  /\ Day \in TradingDays /\ Premarket <= Phase /\ Phase < Cutoff
  /\ rows[Day].st # "COMPLETE"
Armed ==
  [rows EXCEPT ![Day] = [rows[Day] EXCEPT !.armed = boot, !.st = IF @ = "none" THEN "WAITING" ELSE @]]

\* start_session(): a new session of the day
StartSession(q, ready) ==
  /\ desk.sess[Day] = "none" /\ Phase < Cutoff
  /\ ~halted /\ ActiveDays(desk) = {} /\ Flat(desk) /\ Budget <= desk.cash
  /\ mode.lifecycle => RunAllowed(q, ready)
  /\ LET d == IF mode.lifecycle THEN Ingested(desk, q) ELSE desk
     IN Commit(IF mode.lifecycle THEN Armed ELSE rows, Expire(SetSession(d, Day, "armed"), Slots))
  /\ UNCHANGED <<now, mode, boot, halted>> /\ sound' = FALSE

\* start_session() again on the same day only renews the consent
RepeatRun(q, ready) ==
  /\ mode.lifecycle /\ desk.sess[Day] # "none" /\ RunAllowed(q, ready)
  /\ Commit(Armed, Ingested(desk, q))
  /\ UNCHANGED <<now, mode, boot, halted>> /\ sound' = FALSE

StopSession ==
  /\ Commit([k \in Days |-> [rows[k] EXCEPT !.armed = Nobody]], StopActive(desk))
  /\ UNCHANGED <<now, mode, boot, halted>> /\ sound' = FALSE

\* review() by an operator: signals of a session are not his to approve
EntryPermitted(q, ready) ==
  mode.lifecycle =>
    /\ Day \in TradingDays /\ ObserveFrom <= Phase /\ Phase < Cutoff
    /\ rows[Day].armed = boot /\ Healthy(q, ready)
Approve(i, q, ready) ==
  /\ EntryPermitted(q, ready)
  /\ LET d == IF mode.lifecycle THEN Ingested(desk, q) ELSE desk IN
       /\ EntryOpen(d, i) /\ d.sig[i].of = Nobody /\ ActiveDays(d) = {}
       /\ d.quote[d.sig[i].sym].bid <= d.cash
       /\ desk' = Enter(d, {i})
  /\ UNCHANGED <<now, mode, boot, halted, rows>> /\ sound' = FALSE
Reject(i) ==
  /\ desk.sig[i].st = "pending" /\ now < ExpiresAt(desk.sig[i])
  /\ desk' = [desk EXCEPT !.sig[i].st = "rejected"]
  /\ UNCHANGED <<now, mode, boot, halted, rows>> /\ sound' = FALSE

\* The environment: halts, reboots and releases, time.
SetHalt == now \in Incidents /\ halted' = ~halted /\ UNCHANGED <<now, mode, boot, rows, desk>> /\ sound' = FALSE
Reboot == now \in Incidents /\ boot < MaxBoot /\ boot' = boot + 1 /\ UNCHANGED <<now, mode, halted, rows, desk>> /\ sound' = FALSE
Advance ==
  /\ now + 1 \in Times
  /\ now' = now + 1
  /\ desk' = [desk EXCEPT !.quote = [s \in Symbols |-> [@[s] EXCEPT !.fresh = FALSE]]]
  /\ UNCHANGED <<mode, boot, halted, rows>> /\ sound' = FALSE

CashNext ==
  \/ \E q \in Feeds, ready, broken \in BOOLEAN : Tick(q, ready, broken)
  \/ \E q \in Feeds, broken \in BOOLEAN : RunOnce(q, broken)
  \/ \E q \in Feeds, ready \in BOOLEAN : StartSession(q, ready) \/ RepeatRun(q, ready)
  \/ StopSession
  \/ \E i \in Slots, q \in Feeds, ready \in BOOLEAN : Approve(i, q, ready)
  \/ \E i \in Slots : Reject(i)
  \/ SetHalt \/ Reboot \/ Advance

CashSpec == CashInit /\ [][CashNext]_cashVars
-----------------------------------------------------------------------------
(* Correctness.                                                             *)

\* The values every record field ranges over: no handler leaves a status the
\* schema's CHECK constraints would refuse.
CashTypeOK ==
  /\ now \in Times /\ mode \in Modes /\ boot \in 1 .. MaxBoot /\ {halted, sound} \subseteq BOOLEAN
  /\ rows \in [Days -> [st : {"none", "WAITING", "READY", "OBSERVING", "OBSERVING_NO_ENTRIES",
                              "BLOCKED_DEPENDENCIES", "CLOSING", "COMPLETE", "ERROR"},
                        armed : 0 .. MaxBoot, warmed : 0 .. MaxBoot]]
  /\ desk \in [sess : [Days -> {"none", "armed", "running", "stopping", "completed"}],
               sig : [Slots -> [st : {"free", "pending", "entered", "exited", "expired", "rejected"},
                                sym : Symbols, of : 0 .. LastDay, pat : Patterns, at : Times,
                                fill : Nat, out : Times \cup {Never}, pnl : Int]],
               cash : Int, realized : Int,
               quote : [Symbols -> [fresh : BOOLEAN, bid : Nat]],
               recon : [Days -> {"none", "balanced", "attention_required"}]]

Held(d) == {i \in Slots : d.sig[i].st = "entered"}
BooksAgree ==
  desk.cash = Capital + desk.realized
              - Summed([i \in Held(desk) |-> desk.sig[i].fill + Fee(desk.sig[i])])

\* A session reported completed holds no position and no decision that could still
\* open one, also after stale feeds, exceptions and kills (session_tick).
CompletedIsFlat ==
  \A k \in Days : desk.sess[k] = "completed" => SignalsOf(desk, k, {"pending", "entered"}) = {}

SpentWithinBudget == \A k \in Days : Exposure(desk, k) <= Budget

\* Cash, realized profit and open positions tell one story: the account's cash is its
\* capital plus realized results less what the open entries cost, whatever order fills,
\* torn commits and forced exits came in; and signals reviewed together in one tick cannot
\* jointly exceed what the operator approved, with no leverage (review, monitor_exits).
MoneyKept == BooksAgree /\ SpentWithinBudget

\* A session signal is entered only on the session's day, before it was told to
\* stop, with no halt, and, under the orchestrator, on consent given since the last
\* reboot and with every earlier day closed.
EntryUnderConsent ==
  [][\A i \in Slots :
       LET k == desk'.sig[i].of
       IN desk'.sig[i].st = "entered" /\ desk.sig[i].st # "entered" /\ k # Nobody =>
            /\ k = Day /\ ~halted /\ desk.sess[k] \in {"armed", "running"}
            /\ mode.lifecycle => /\ rows[k].armed = boot
                                 /\ \A j \in 1 .. k - 1 : rows'[j].st \in {"none", "COMPLETE"}]_cashVars

\* A session told to stop is never authorised again, on no path: it stays stopping
\* until its positions are sold and then stays completed.
StopIsFinal ==
  [][\A k \in Days :
       /\ desk.sess[k] = "stopping" => desk'.sess[k] \in {"stopping", "completed"}
       /\ desk.sess[k] = "completed" => desk'.sess[k] = "completed"]_cashVars

\* docs/SESSION_ORCHESTRATOR.md: "Unfinished previous days are reconciled before any
\* new session, even on holidays."
PriorDaysFirst ==
  [][\A k \in Days : desk.sess[k] = "none" /\ desk'.sess[k] = "armed" =>
       Unfinished(rows) = {}]_cashVars

\* Time goes on to the last day's window, and runs on which the feed answers and
\* nothing fails come up again and again: such a run is always possible there.
CashFairSpec == CashSpec /\ WF_cashVars(Advance) /\ []<>sound

\* A session whose day is over does not stay open for ever: whatever kept its
\* positions (a dead feed, kills, a reboot, a torn commit), they are sold in a later
\* window and the session completes.
OverdueSettles ==
  \A k \in 1 .. LastDay - 1 :
    (Day > k /\ Open(desk.sess[k])) ~> (desk.sess[k] = "completed")
=============================================================================
