---------------------------- MODULE BankNiftyDesk ----------------------------
(***************************************************************************)
(* The Bank Nifty paper desk: one session record, at most one open option  *)
(* position, the paid-call ledger of AiCalls, and the processes that share *)
(* them.  Decision workers (run_once) and the supervisor (supervise) are   *)
(* systemd one-shots that read the session under the advisory lock, leave  *)
(* it for the network, and take it again to commit; the API starts, stops  *)
(* and settles in between.  Every section under BankNiftyStore.locked() is *)
(* one action, every unlocked stretch is a boundary between two actions.   *)
(*                                                                         *)
(* Money is counted in whole units per lot: a sale of n lots at a move m   *)
(* adds n * m, fees included.  Prices, plans, charts and learning evidence *)
(* are inputs that may take any value.                                     *)
(***************************************************************************)
EXTENDS AiCalls

CONSTANTS
  Supervisor,   \* the exit supervisor: supervise() on its own timer
  Workers,      \* decision workers: run_once()
  Limits,       \* [loss, cap, capped]: limits an operator may approve
  Moves,        \* net result per lot of selling at the quoted bid
  StopMove,     \* the position's stop
  TargetMove,   \* the position's target
  Expiries,     \* expiry days of the contracts offered
  MaxLots,      \* bound of the model: lots of one position
  MaxHold,      \* max_hold_minutes
  EntryCap,     \* ENTRY_CAP
  Cooldown,     \* COOLDOWN_SECONDS after an exit
  SpotAge,      \* age of the underlying a decision is made and executed on (180 s)
  FreshAge,     \* age of an executable quote (90 s)
  Controls      \* bound of the model: interventions an instance explores

Procs == {Supervisor} \cup Workers
NoCall == "none"
Never == -1

ASSUME DeskAssumption ==
  /\ Supervisor \notin Workers
  /\ NoCall \notin Calls
  /\ Limits # {} /\ Limits \subseteq [loss : Nat, cap : Nat, capped : BOOLEAN]
  /\ Moves \cup {StopMove, TargetMove} \subseteq Int
  /\ Expiries \subseteq Nat
  /\ {MaxLots, MaxHold, EntryCap, Cooldown, SpotAge, FreshAge} \subseteq Nat
  /\ Controls \subseteq {"stop", "halt", "disable", "enable", "crash", "settle"}

\* No wait for the lock and no snapshot reaches across the night: a lock wait
\* that begins before 15:00 ends the same day, and a snapshot used in the entry
\* window (from 09:30) is minutes old.
ASSUME NightAssumption ==
  /\ \A t \in Morning, u \in Time : Recent(t, u, LockWait) => DayOf[t] = DayOf[u]
  /\ \A t \in EntryWindow, u \in Time : Recent(u, t, SpotAge) => DayOf[t] = DayOf[u]

\* Nothing bounds how long a worker that has scanned takes to reserve its call.
ASSUME SnapshotAssumption == SnapshotAge >= MaxTime

VARIABLES
  session,    \* the latest row of banknifty_sessions
  position,   \* its "position" field
  learned,    \* banknifty_learning_days
  fills,      \* call id -> its paper_entry and paper_exit events
  overtaken,  \* calls that were in flight at an operator stop_requested event
  halted,     \* an active row of system_halts in the desk's scopes
  enabled,    \* KIWIT_BANKNIFTY_AI_ENABLED in the environment file
  trade,      \* provider time of the contract's last trade: its quote's stamp
  proc        \* what each process holds in memory

deskVars == <<now, calls, session, position, learned, fills, overtaken, halted,
              enabled, trade, proc>>

NoSession ==
  [day |-> 0, st |-> "none", limits |-> CHOOSE l \in Limits : TRUE, entries |-> 0,
   resumes |-> 0, realized |-> 0, lastExit |-> Never]
NoPosition ==
  [id |-> NoCall, lots |-> 0, exp |-> 0, pending |-> FALSE, lastQuote |-> Never, deadline |-> 0]
NoLesson == [learnt |-> FALSE, realized |-> 0, entries |-> 0]
NoFill == [in |-> Never, out |-> Never, bought |-> 0, sold |-> 0, quotes |-> {}]
Idle ==
  [pc |-> "idle", en |-> FALSE, since |-> 0, seen |-> NoCall, tape |-> Never, day |-> 0,
   spot |-> 0, key |-> Undecided, call |-> NoCall]

Held == position.id # NoCall
Active(st) == st \in {"running", "stopping"}
LimitReached(l, pnl) == pnl <= -l.loss \/ (l.capped /\ pnl >= l.cap)
CooledEarly(t) == session.lastExit # Never => t - session.lastExit >= Cooldown - 1   \* mutant
Cooled(t) == session.lastExit # Never => t - session.lastExit >= Cooldown

\* finalize_learning(): only a completed flat session, only the first time.
Finalize(s, flat) ==
  IF s.st = "completed" /\ flat /\ ~learned[s.day].learnt
  THEN [learned EXCEPT ![s.day] = [learnt |-> TRUE, realized |-> s.realized, entries |-> s.entries]]
  ELSE learned

\* A process's clock read also follows its own previous step.
ReadsOf(p) == {t \in Reads : t >= proc[p].since}
Step(p, r) == proc' = [proc EXCEPT ![p] = r]
-----------------------------------------------------------------------------
DeskInit ==
  /\ now = 0 /\ calls = [c \in Calls |-> UnusedRow]
  /\ session = NoSession /\ position = NoPosition
  /\ learned = [d \in Days |-> NoLesson]
  /\ fills = [c \in Calls |-> NoFill]
  /\ overtaken = {} /\ halted = FALSE /\ enabled = TRUE /\ trade = 0
  /\ proc = [p \in Procs |-> Idle]

\* start() on the day of the session: other limits are refused, a flat untouched
\* session is resumed once, anything else is returned as it is.
ResumeAgain(l) ==   \* mutant: resumed any number of times, whatever was traded
  /\ \E t \in Reads \cap Morning : session.day = DayOf[t]
  /\ session.st = "completed" /\ session.limits = l /\ ~Held
  /\ learned' = Finalize(session, ~Held)
  /\ session' = [session EXCEPT !.st = "running", !.resumes = 1]
  /\ UNCHANGED <<now, calls, position, fills, overtaken, halted, enabled, trade, proc>>

Resume(l) ==
  /\ \E t \in Reads \cap Morning : session.day = DayOf[t]
  /\ session.st = "completed" /\ session.limits = l /\ ~Held
  /\ session.entries = 0 /\ session.realized = 0 /\ session.resumes = 0
  /\ learned' = Finalize(session, ~Held)
  /\ session' = [session EXCEPT !.st = "running", !.resumes = 1]
  /\ UNCHANGED <<now, calls, position, fills, overtaken, halted, enabled, trade, proc>>

\* start() on a later day, once the older session is reconciled.
Approve(l) ==
  /\ \E t \in Reads \cap Morning :
       /\ DayOf[t] # session.day /\ DayOf[t] \in RegularDays
       /\ session' = [NoSession EXCEPT !.day = DayOf[t], !.st = "running", !.limits = l]
  /\ session.st \in {"none", "completed"} /\ ~Held
  /\ enabled /\ ~halted
  /\ learned' = IF session.st = "none" THEN learned ELSE Finalize(session, ~Held)
  /\ UNCHANGED <<now, calls, position, fills, overtaken, halted, enabled, trade, proc>>

\* stop()
Stop ==
  /\ "stop" \in Controls
  /\ Active(session.st)
  /\ session' = [session EXCEPT !.st = IF Held THEN "stopping" ELSE "completed"]
  /\ learned' = Finalize(session', ~Held)
  /\ overtaken' = overtaken \cup {c \in Calls : calls[c].st \in InFlight}
  /\ UNCHANGED <<now, calls, position, fills, halted, enabled, trade, proc>>

\* settle_expired_position(): the residual named must still be the open one.
SettleExpired(c) ==
  /\ "settle" \in Controls
  /\ position.id = c
  /\ \E t \in Reads : position.exp < DayOf[t]
  /\ \E m \in Moves :
       session' = [session EXCEPT !.st = "completed", !.realized = @ + position.lots * m]
  /\ fills' = [fills EXCEPT ![c].sold = @ + position.lots]
  /\ position' = NoPosition
  /\ learned' = Finalize(session', TRUE)
  /\ UNCHANGED <<now, calls, overtaken, halted, enabled, trade, proc>>
-----------------------------------------------------------------------------
\* run_once() begins: abandoned calls are reconciled in a transaction of its own.
RunStart(w) ==
  /\ proc[w].pc = "idle"
  /\ \E t \in Reads : Interrupt(t)
  /\ Step(w, [Idle EXCEPT !.pc = "starting", !.en = enabled, !.since = now])
  /\ UNCHANGED <<now, session, position, learned, fills, overtaken, halted, enabled, trade>>

\* report_backlog() reconciles them too: from the reports timer, and again in the
\* middle of every run_once().
SweepCalls ==
  /\ Reconcile
  /\ UNCHANGED <<session, position, learned, fills, overtaken, halted, enabled, trade, proc>>

\* _monitor(), first lock: see which position there is to value.
MonitorRead(p) ==
  /\ proc[p].pc = IF p = Supervisor THEN "idle" ELSE "starting"
  /\ Active(session.st)
  /\ Step(p, [Idle EXCEPT !.pc = "quoting", !.since = now, !.seen = position.id, !.tape = trade,
                          !.en = IF p = Supervisor THEN enabled ELSE proc[p].en])
  /\ UNCHANGED <<now, calls, session, position, learned, fills, overtaken, halted, enabled, trade>>

\* The reasons _monitor() has to sell, given the session's state st after the
\* end-of-day and halt tests.
Trigger(st, t, move, invalid) ==
  \/ st = "stopping"
  \/ LimitReached(session.limits, session.realized + position.lots * move)
  \/ position.pending
  \/ move <= StopMove \/ move >= TargetMove
  \/ invalid
  \/ t >= position.deadline

\* A quote values the position only if it was fetched for that position and is
\* still fresh.
ValuedAnyway(p, t, stamp) == Held /\ Recent(stamp, t, FreshAge)   \* mutant
Valued(p, t, stamp) ==
  Held /\ position.id = proc[p].seen /\ Recent(stamp, t, FreshAge)

\* _close(): lots sold against a quote of this stamp showing this depth.
Sellable(t, stamp, depth) ==
  IF /\ t \in MarketWindow
     /\ position.exp >= DayOf[t]
     /\ stamp # position.lastQuote
  THEN IF depth < position.lots THEN depth ELSE position.lots
  ELSE 0

AfterSaleKept(t, stamp, sold) ==   \* mutant: a sold-out position is not cleared
  IF sold = 0 THEN position ELSE [position EXCEPT !.lots = @ - sold, !.lastQuote = stamp]
AfterSale(t, stamp, sold) ==
  IF sold = 0 THEN position
  ELSE IF sold = position.lots THEN NoPosition
  ELSE [position EXCEPT !.lots = @ - sold, !.pending = TRUE, !.lastQuote = stamp]

RecordAll(t, stamp, sold) ==   \* mutant: the lots asked for, not those filled
  IF sold = 0 THEN fills
  ELSE [fills EXCEPT ![position.id].sold = @ + position.lots,
                     ![position.id].quotes = @ \cup {stamp}]
Sale(f, t, stamp, sold) ==
  [f EXCEPT !.sold = @ + sold, !.quotes = @ \cup {stamp},
            !.out = IF sold = position.lots THEN t ELSE @]

Record(t, stamp, sold) ==
  IF sold = 0 THEN fills
  ELSE [fills EXCEPT ![position.id] = Sale(fills[position.id], t, stamp, sold)]

WindingDownAtWill(p, t) ==   \* mutant: the end of the session's day goes unseen
  ~proc[p].en \/ halted
WindingDownUnhalted(p, t) ==   \* mutant: halts only block entries
  session.day # DayOf[t] \/ t \in Late \/ ~proc[p].en
WindingDown(p, t) ==
  session.day # DayOf[t] \/ t \in Late \/ ~proc[p].en \/ halted

\* _monitor(), second lock, with the quote fetched while it was free.
MonitorCommit(p) ==
  /\ proc[p].pc = "quoting" /\ Active(session.st)
  /\ \E t \in ReadsOf(p), stamp \in {proc[p].tape, trade}, move \in Moves,
        depth \in 0 .. MaxLots, invalid \in BOOLEAN :
       LET st == IF WindingDown(p, t) THEN "stopping" ELSE session.st
           sold == IF Valued(p, t, stamp) /\ Trigger(st, t, move, invalid)
                   THEN Sellable(t, stamp, depth) ELSE 0
           flat == sold = position.lots
       IN /\ session' = [session EXCEPT
               !.st = IF flat /\ st = "stopping" THEN "completed" ELSE st,
               !.realized = @ + sold * move,
               !.lastExit = IF Held /\ flat THEN t ELSE @]
          /\ position' = AfterSale(t, stamp, sold)
          /\ fills' = Record(t, stamp, sold)
          /\ learned' = Finalize(session', flat)
  /\ Step(p, IF p # Supervisor /\ session'.st = "running" /\ proc[p].en
             THEN [Idle EXCEPT !.pc = "monitored", !.en = TRUE, !.since = now, !.day = session.day]
             ELSE Idle)
  /\ UNCHANGED <<now, calls, overtaken, halted, enabled, trade>>

\* Either lock of _monitor() may find no session left to work on.
MonitorNothing(p) ==
  /\ proc[p].pc \in {"starting", "quoting"} /\ ~Active(session.st)
  /\ Step(p, Idle)
  /\ UNCHANGED <<now, calls, session, position, learned, fills, overtaken, halted, enabled, trade>>
-----------------------------------------------------------------------------
\* entry_gate(): authority to spend a call on a new entry.
EntryGate(t) ==
  /\ session.entries < EntryCap
  /\ ~LimitReached(session.limits, session.realized)
  /\ Cooled(t)

\* decision_event(): what a call would be made for, a new set of plans or a new band of the
\* position's price.
EventKeys == IF Held THEN BandKeys ELSE PlanKeys

\* run_once(), the scan: a snapshot taken in the entry window leads to a call
\* only while the same session still runs and the event may be paid for.
Scan(w) ==
  /\ proc[w].pc = "monitored"
  /\ session.day = proc[w].day /\ session.st = "running"
  /\ \E t \in ReadsOf(w), k \in EventKeys :
       /\ (proc[w].since .. t) \cap EntryWindow # {}
       /\ Held \/ EntryGate(t)
       /\ Eligible(session.day, k, t)
       /\ \E spot \in {u \in Time : Recent(u, t, SpotAge)} :
            Step(w, [proc[w] EXCEPT !.pc = "scanned", !.since = now, !.key = k, !.spot = spot])
  /\ UNCHANGED <<now, calls, session, position, learned, fills, overtaken, halted, enabled, trade>>

\* A scan that leads to no call: window closed, feed down, session stopped,
\* shadow scan, no material change.
ScanEnds(w) ==
  /\ proc[w].pc = "monitored"
  /\ Step(w, Idle)
  /\ UNCHANGED <<now, calls, session, position, learned, fills, overtaken, halted, enabled, trade>>

Authorised(w, t) ==
  /\ session.st = "running" /\ session.day = DayOf[t] /\ ~halted
  /\ CanReserve(session.day, proc[w].key, t)

ReserveUnchecked(w) ==   \* mutant: the scan's verdict is trusted under the lock
  /\ proc[w].pc = "scanned" /\ session.st = "running"
  /\ \E t \in ReadsOf(w), c \in Calls \ Used :
       /\ calls' = [calls EXCEPT ![c] =
            [UnusedRow EXCEPT !.st = "reserved", !.day = session.day, !.created = t,
                              !.seen = proc[w].spot, !.key = proc[w].key, !.charge = Reservation]]
       /\ Step(w, [proc[w] EXCEPT !.pc = "deciding", !.since = now, !.call = c])
  /\ UNCHANGED <<now, session, position, learned, fills, overtaken, halted, enabled, trade>>

ReserveFor(w) ==
  /\ proc[w].pc = "scanned"
  /\ \E t \in ReadsOf(w), c \in Calls :
       /\ Authorised(w, t)
       /\ ReserveCall(c, session.day, proc[w].key, proc[w].spot, t)
       /\ Step(w, [proc[w] EXCEPT !.pc = "deciding", !.since = now, !.call = c])
  /\ UNCHANGED <<now, session, position, learned, fills, overtaken, halted, enabled, trade>>

ReserveRefused(w) ==
  /\ proc[w].pc = "scanned"
  /\ \E t \in ReadsOf(w) : ~Authorised(w, t)
  /\ Step(w, Idle)
  /\ UNCHANGED <<now, calls, session, position, learned, fills, overtaken, halted, enabled, trade>>

\* The analyst answers, or the request fails.
SettleFor(w) ==
  /\ proc[w].pc = "deciding"
  /\ \/ /\ \E a \in Actions, usage \in 0 .. Reservation : SettleCompleted(proc[w].call, a, usage)
        /\ Step(w, [proc[w] EXCEPT !.pc = "settled", !.since = now])
     \/ /\ \E dispatched \in BOOLEAN : SettleFailed(proc[w].call, dispatched)
        /\ Step(w, [proc[w] EXCEPT !.pc = "rejecting", !.since = now])
  /\ UNCHANGED <<now, session, position, learned, fills, overtaken, halted, enabled, trade>>
-----------------------------------------------------------------------------
\* _apply() returns without effect when the session it was decided for no longer
\* runs or its row was reconciled meanwhile.
Current(w) ==
  /\ session.day = proc[w].day /\ session.st = "running"
  /\ calls[proc[w].call].st = "completed"

ApplyIgnored(w) ==
  /\ proc[w].pc = "settled" /\ ~Current(w)
  /\ Step(w, Idle)
  /\ UNCHANGED <<now, calls, session, position, learned, fills, overtaken, halted, enabled, trade>>

\* HOLD, and EXIT which is advisory.
ApplyAdvice(w) ==
  /\ proc[w].pc = "settled" /\ Current(w)
  /\ calls[proc[w].call].action # "BUY"
  /\ ApplyCall(proc[w].call)
  /\ Step(w, Idle)
  /\ UNCHANGED <<now, session, position, learned, fills, overtaken, halted, enabled, trade>>

EntryStale(w, t) ==   \* mutant: the decision's spot may have any age
  /\ ~Held /\ t \in EntryWindow /\ ~halted /\ proc[w].en /\ Cooled(t)
  /\ session.entries < EntryCap
EntryAllowed(w, t) ==
  /\ ~Held
  /\ t \in EntryWindow /\ ~halted /\ proc[w].en
  /\ session.entries < EntryCap
  /\ Cooled(t)
  /\ Recent(proc[w].spot, t, SpotAge)
  /\ ~LimitReached(session.limits, session.realized)

\* BUY: the call is applied and the position opened in one transaction.
Enter(w) ==
  LET c == proc[w].call IN
  /\ proc[w].pc = "settled" /\ Current(w)
  /\ calls[c].action = "BUY"
  /\ ApplyCall(c)
  /\ \E t \in ReadsOf(w), lots \in 1 .. MaxLots, exp \in Expiries :
       /\ EntryAllowed(w, t) /\ exp > session.day
       /\ position' = [NoPosition EXCEPT !.id = c, !.lots = lots, !.exp = exp, !.deadline = t + MaxHold]
       /\ fills' = [fills EXCEPT ![c].in = t, ![c].bought = lots]
  /\ session' = [session EXCEPT !.entries = @ + 1]
  /\ Step(w, Idle)
  /\ UNCHANGED <<now, learned, overtaken, halted, enabled, trade>>

\* BUY or EXIT refused: a failed quote, or any test of _apply() that raises and
\* rolls the whole transaction back, the 'applied' update included.
ApplyRefusedCommitted(w) ==   \* mutant: the refusal is not rolled back
  /\ proc[w].pc = "settled" /\ Current(w) /\ calls[proc[w].call].action # "HOLD"
  /\ ApplyCall(proc[w].call)
  /\ Step(w, [proc[w] EXCEPT !.pc = "rejecting", !.since = now])
  /\ UNCHANGED <<now, session, position, learned, fills, overtaken, halted, enabled, trade>>

ApplyRefused(w) ==
  /\ proc[w].pc = "settled" /\ calls[proc[w].call].action # "HOLD"
  /\ Step(w, [proc[w] EXCEPT !.pc = "rejecting", !.since = now])
  /\ UNCHANGED <<now, calls, session, position, learned, fills, overtaken, halted, enabled, trade>>

\* The error handler of run_once().
RejectFor(w) ==
  /\ proc[w].pc = "rejecting"
  /\ RejectCall(proc[w].call)
  /\ Step(w, Idle)
  /\ UNCHANGED <<now, session, position, learned, fills, overtaken, halted, enabled, trade>>
-----------------------------------------------------------------------------
\* A one-shot is killed, or its host restarts: only its memory is lost.
Crash(p) ==
  /\ "crash" \in Controls /\ proc[p].pc # "idle"
  /\ Step(p, Idle)
  /\ UNCHANGED <<now, calls, session, position, learned, fills, overtaken, halted, enabled, trade>>

\* Operators halt and release, or edit the environment the next process reads.
Halt ==
  /\ "halt" \in Controls /\ halted' = ~halted
  /\ UNCHANGED <<now, calls, session, position, learned, fills, overtaken, enabled, trade, proc>>

Toggle ==
  /\ (IF enabled THEN "disable" ELSE "enable") \in Controls
  /\ enabled' = ~enabled
  /\ UNCHANGED <<now, calls, session, position, learned, fills, overtaken, halted, trade, proc>>

\* The market: the contract trades, and the clock moves on.
Trade ==
  /\ trade < now /\ trade' = now
  /\ UNCHANGED <<now, calls, session, position, learned, fills, overtaken, halted, enabled, proc>>

Advance ==
  /\ now < MaxTime /\ now' = now + 1
  /\ UNCHANGED <<calls, session, position, learned, fills, overtaken, halted, enabled, trade, proc>>

Monitor(p) == MonitorRead(p) \/ MonitorCommit(p) \/ MonitorNothing(p)
Decide(w) ==
  \/ RunStart(w) \/ Scan(w) \/ ScanEnds(w) \/ ReserveFor(w) \/ ReserveRefused(w) \/ SettleFor(w)
  \/ ApplyIgnored(w) \/ ApplyAdvice(w) \/ Enter(w) \/ ApplyRefused(w) \/ RejectFor(w)

DeskNext ==
  \/ \E l \in Limits : Resume(l) \/ Approve(l)
  \/ Stop
  \/ \E c \in Calls : SettleExpired(c)
  \/ \E p \in Procs : Monitor(p) \/ Crash(p)
  \/ \E w \in Workers : Decide(w)
  \/ SweepCalls \/ Halt \/ Toggle \/ Trade \/ Advance

DeskSpec == DeskInit /\ [][DeskNext]_deskVars

\* The timers keep starting the one-shots and some runs of the supervisor
\* finish; a worker's run ends, by its own steps or killed by its start timeout;
\* the clock goes on.  Nothing is promised of operators or of the market.
DeskFairSpec ==
  /\ DeskSpec
  /\ WF_deskVars(Advance)
  /\ WF_deskVars(MonitorRead(Supervisor))
  /\ SF_deskVars(MonitorCommit(Supervisor))
  /\ \A w \in Workers : WF_deskVars(Monitor(w) \/ Decide(w) \/ Crash(w))
-----------------------------------------------------------------------------
SessionRow ==
  [day : Nat, st : {"none", "running", "stopping", "completed"}, limits : Limits,
   entries : Nat, resumes : {0, 1}, realized : Int, lastExit : Time \cup {Never}]

PositionRow ==
  [id : Calls, lots : 1 .. MaxLots, exp : Expiries, pending : BOOLEAN,
   lastQuote : Time \cup {Never}, deadline : Nat]

Memory ==
  [pc : {"idle", "starting", "quoting", "monitored", "scanned", "deciding", "settled", "rejecting"},
   en : BOOLEAN, since : Time, seen : Calls \cup {NoCall}, tape : Time \cup {Never},
   day : Nat, spot : Time, key : PlanKeys \cup BandKeys \cup {Undecided}, call : Calls \cup {NoCall}]

FillRow ==
  [in : Time \cup {Never}, out : Time \cup {Never}, bought : Nat, sold : Nat,
   quotes : SUBSET (Time \cup {Never})]

BooksOK ==
  /\ session \in SessionRow /\ (session.st # "none" => session.day \in Days)
  /\ position \in PositionRow \cup {NoPosition}
  /\ learned \in [Days -> [learnt : BOOLEAN, realized : Int, entries : Nat]]
  /\ fills \in [Calls -> FillRow]
  /\ overtaken \subseteq Calls

\* A process past its reservation holds the id of its call, and no process has
\* read a clock ahead of time.
MemoryOK ==
  /\ proc \in [Procs -> Memory]
  /\ \A p \in Procs :
       /\ proc[p].since <= now
       /\ proc[p].pc \in {"deciding", "settled", "rejecting"} => proc[p].call \in Calls

\* Every field holds a value of its kind: in particular lots never go negative
\* and no completed sale leaves a position with nothing in it.
DeskTypeOK ==
  /\ TypeOK /\ BooksOK /\ MemoryOK
  /\ halted \in BOOLEAN /\ enabled \in BOOLEAN /\ trade \in Time

\* What was bought under a decision is what was sold plus what is still held:
\* monitors that race on one position never sell a lot twice or lose one.
LotsConserved ==
  \A c \in Calls :
    fills[c].bought = fills[c].sold + (IF position.id = c THEN position.lots ELSE 0)

\* A BUY is marked applied exactly when its position was opened: no refusal,
\* crash, reconciliation or stop leaves one without the other.
AppliedIffEntered ==
  \A c \in Calls :
    fills[c].bought > 0 <=> (calls[c].st = "applied" /\ calls[c].action = "BUY")

\* The counter the entry cap is tested on is the number of positions opened on
\* the session's day, through restarts, resumes and concurrent workers.
EntriesCounted ==
  /\ session.entries <= EntryCap
  /\ session.entries =
       Cardinality({c \in Calls : fills[c].bought > 0 /\ DayOf[fills[c].in] = session.day})

\* A session is stopping only while it still has something to sell, and never
\* completes on an open position: no race of stop(), monitors, settlement and a
\* late entry strands a position in a session nobody works on.
PhaseMatchesPosition ==
  /\ session.st = "stopping" => Held
  /\ session.st \in {"none", "completed"} => ~Held

\* Positions of one day follow one another with the cooldown between them, by
\* the clocks in the event log, although both clocks are read before the lock.
Follows(e, c) == fills[c].out # Never /\ fills[e].in >= fills[c].out + Cooldown
TradesAreSequential ==
  \A c, e \in Calls :
    /\ c # e /\ fills[c].bought > 0 /\ fills[e].bought > 0
    /\ DayOf[fills[c].in] = DayOf[fills[e].in]
    => Follows(c, e) \/ Follows(e, c)

\* An entry is booked to the day it was really made on, inside the entry window,
\* even when the session of an earlier day was never wound down: _apply() does
\* not look at the date, the age of the decision's spot has to be enough.
EntryOnItsOwnDay ==
  \A c \in Calls :
    fills[c].bought > 0 => fills[c].in \in EntryWindow /\ DayOf[fills[c].in] = calls[c].day

\* The trades of a day: each made on its day and in its window, one after the other with
\* the cooldown between, and no more of them than the counted cap (_apply, _close).
TradesKept == TradesAreSequential /\ EntryOnItsOwnDay /\ EntriesCounted

\* A quote was fetched for the position it is used on: a monitor that was
\* overtaken by an exit and a new entry sells nothing of the new position.
SoldOnOwnQuote ==
  [][\A c \in Calls :
       (fills'[c].quotes # fills[c].quotes) =>
         \E p \in Procs : proc[p].pc = "quoting" /\ proc[p].seen = c /\ proc'[p].pc # "quoting"]_deskVars

\* The session is wound down on its own day's end: none is still open to new
\* entries once 15:15 has come and the supervisor has had its turn.
LateIsClosed == (session.st = "running" /\ now \in Late) ~> session.st # "running"

\* A safety halt that stays on stops the session, whatever the workers do.
HaltStopsSession == (session.st = "running" /\ halted) ~> (session.st # "running" \/ ~halted)

\* The desk implements the mandate an operator gave it.
Mandate ==
  INSTANCE PaperMandate WITH phase <- session.st, held <- position.lots,
                             entries <- session.entries, resumed <- session.resumes = 1
MandateHonoured == Mandate!MandateSpec

\* The desk's processes keep to the ledger of AiCalls, so every property of that
\* ledger holds of the desk.
LedgerKept == Spec

\* test_stop_during_ai_inference_prevents_entry: an operator stop while a call is
\* being decided keeps that call from opening a position.
StopPreventsEntry == \A c \in overtaken : fills[c].bought = 0

\* BANKNIFTY_PLAYBOOKS.md: a finished session's daily record holds its realized
\* P&L and entries.
LessonIsFinal ==
  (session.st = "completed" /\ session.entries > 0) =>
    learned[session.day] = [learnt |-> TRUE, realized |-> session.realized,
                            entries |-> session.entries]

\* test_partial_stop_exit_and_no_same_quote_double_fill: a quote is sold against
\* once.
QuoteFilledOnce ==
  [][\A c \in Calls :
       (position.id = c /\ fills'[c].sold > fills[c].sold /\ position.exp >= DayOf[now])
         => fills'[c].quotes # fills[c].quotes]_deskVars
=============================================================================
