------------------------------- MODULE AiCalls -------------------------------
(***************************************************************************)
(* The paid-call ledger of the Bank Nifty desk: the rows of                *)
(* banknifty_ai_calls and the six statements that write them.  Every       *)
(* statement runs inside BankNiftyStore.locked(), so each is one atomic    *)
(* action; between them any number of workers may be waiting on the model, *)
(* be killed, or be overtaken.  A worker has no state of its own here: a   *)
(* row's status is all the statements look at, so a worker that died is    *)
(* one whose row nobody settles, and a slow one settles it late.           *)
(***************************************************************************)
EXTENDS DeskClock, FiniteSetsExt

CONSTANTS
  Calls,          \* call ids (uuid4), each used at most once
  PlanKeys,       \* event keys of an eligible plan set
  BandKeys,       \* event keys of a position's near-stop / near-target band
  Reservation,    \* charge held by an unsettled call (RESERVATION)
  DailyBudget,    \* DAILY_BUDGET
  RollingBudget,  \* ROLLING_BUDGET
  BudgetDays,     \* BUDGET_DAYS
  SlotLength,     \* ticks of a call slot (120 s)
  ReconsiderAge,  \* RECONSIDER_SECONDS
  MaxAttempts,    \* MAX_EVENT_ATTEMPTS
  InterruptAge,   \* ten minutes
  CircuitAge,     \* fifteen minutes
  SnapshotAge,    \* bound of the model: oldest snapshot a call is reserved for
  LockWait        \* bound of the model: ticks a worker waits for the lock

ASSUME CallAssumption ==
  /\ IsFiniteSet(Calls)
  /\ {Reservation, DailyBudget, RollingBudget, ReconsiderAge, InterruptAge,
      CircuitAge, SnapshotAge, LockWait} \subseteq Nat
  /\ {BudgetDays, SlotLength, MaxAttempts} \subseteq Nat \ {0}

Actions == {"BUY", "HOLD", "EXIT"}
Undecided == "undecided"
InFlight == {"reserved", "completed"}
Terminal == {"failed", "applied", "rejected", "interrupted"}

VARIABLE calls   \* call id -> row of banknifty_ai_calls

CallRow ==
  [st : {"unused"} \cup InFlight \cup Terminal, day : Nat, created : Nat,
   seen : Nat, key : PlanKeys \cup BandKeys \cup {Undecided},
   charge : Nat, action : Actions \cup {Undecided}]

UnusedRow ==
  [st |-> "unused", day |-> 0, created |-> 0, seen |-> 0, key |-> Undecided,
   charge |-> 0, action |-> Undecided]

Used == {c \in Calls : calls[c].st # "unused"}
OfDay(d) == {c \in Used : calls[c].day = d}
Attempts(d, k) == {c \in OfDay(d) : calls[c].key = k}
Newest(S) == CHOOSE c \in S : \A e \in S : calls[e].created <= calls[c].created
Slot(t) == t \div SlotLength
Spent(S) == MapThenSumSet(LAMBDA c : calls[c].charge, S)
-----------------------------------------------------------------------------
\* reconsider_event: the newest attempt of this key decides whether the same
\* market event may be paid for again.
RetryableUnanswered(c) ==   \* mutant: an unanswered call is no obstacle
  calls[c].st \in {"failed", "interrupted", "rejected", "reserved"}
Retryable(c) ==
  \/ calls[c].st \in {"failed", "interrupted", "rejected"}
  \/ calls[c].st = "applied" /\ calls[c].action = "HOLD" /\ calls[c].key \in PlanKeys

Eligible(d, k, t) ==
  LET A == Attempts(d, k) IN
  A # {} =>
    /\ Cardinality(A) < MaxAttempts
    /\ Retryable(Newest(A))
    /\ t >= calls[Newest(A)].created + ReconsiderAge

\* The last three calls of the day by slot, and the circuit they may open.
LastThree(d) ==
  {c \in OfDay(d) :
     Cardinality({e \in OfDay(d) : Slot(calls[e].created) > Slot(calls[c].created)}) < 3}

CircuitOpen(d, t) ==
  LET R == LastThree(d) IN
  /\ Cardinality(R) = 3
  /\ \A c \in R : calls[c].st = "failed"
  /\ t < calls[Newest(R)].seen + CircuitAge

WithinBudgetSoFar(d, t) ==   \* mutant: the call about to be made is not counted
  /\ Spent(OfDay(d)) <= DailyBudget
  /\ Spent({c \in Used : calls[c].day > DayOf[t] - BudgetDays}) <= RollingBudget
WithinBudget(d, t) ==
  /\ Spent(OfDay(d)) + Reservation <= DailyBudget
  /\ Spent({c \in Used : calls[c].day > DayOf[t] - BudgetDays}) + Reservation <= RollingBudget

SlotFree(t) == \A c \in Used : Slot(calls[c].created) # Slot(t)

CanReserve(d, k, t) ==
  /\ Eligible(d, k, t)
  /\ ~CircuitOpen(d, t)
  /\ WithinBudget(d, t)
  /\ SlotFree(t)
-----------------------------------------------------------------------------
\* reserve(): the row is inserted, at the full reservation, before any network
\* I/O.  t is the clock the worker read, seen the time of its market snapshot.
ReserveCall(c, d, k, seen, t) ==
  /\ calls[c].st = "unused"
  /\ CanReserve(d, k, t)
  /\ calls' = [calls EXCEPT ![c] =
       [st |-> "reserved", day |-> d, created |-> t, seen |-> seen, key |-> k,
        charge |-> Reservation, action |-> Undecided]]

\* settle(): both outcomes only touch a row that is still reserved; a row
\* reconciled in the meantime stays as it is and the statement does nothing.
SettleAnyway(c, a, usage) ==   \* mutant: a late answer revives an interrupted call
  calls' = [calls EXCEPT ![c].st = "completed", ![c].action = a, ![c].charge = usage]
SettleCompleted(c, a, usage) ==
  calls' = IF calls[c].st = "reserved"
           THEN [calls EXCEPT ![c].st = "completed", ![c].action = a, ![c].charge = usage]
           ELSE calls

SettleFailed(c, dispatched) ==
  calls' = IF calls[c].st = "reserved"
           THEN [calls EXCEPT ![c].st = "failed",
                              ![c].charge = IF dispatched THEN Reservation ELSE 0]
           ELSE calls

\* _apply(): UPDATE ... SET state='applied' WHERE state='completed'.
ApplyCall(c) ==
  /\ calls[c].st = "completed"
  /\ calls' = [calls EXCEPT ![c].st = "applied"]

\* The error handler of run_once: completed -> rejected, else nothing.
RejectCall(c) ==
  calls' = IF calls[c].st = "completed" THEN [calls EXCEPT ![c].st = "rejected"] ELSE calls

\* reconcile_interrupted_calls(): every abandoned row older than ten minutes.
AbandonedUnanswered(c, t) ==   \* mutant: a call answered but never applied is left
  calls[c].st = "reserved" /\ calls[c].created < t - InterruptAge
Abandoned(c, t) == calls[c].st \in InFlight /\ calls[c].created < t - InterruptAge

Interrupt(t) ==
  calls' = [c \in Calls |-> IF Abandoned(c, t) THEN [calls[c] EXCEPT !.st = "interrupted"]
                            ELSE calls[c]]
-----------------------------------------------------------------------------
\* The ledger alone, under workers that may do any of these at any time.
\* Clock reads a handler may have made before it got the desk's lock.
Reads == {t \in Time : Recent(t, now, LockWait)}

Init == now = 0 /\ calls = [c \in Calls |-> UnusedRow]

Reserve(c) ==
  /\ \E t \in Reads, k \in PlanKeys \cup BandKeys :
       \E seen \in {u \in Time : Recent(u, t, SnapshotAge)} : ReserveCall(c, DayOf[t], k, seen, t)
  /\ UNCHANGED now

Settle(c) ==
  /\ calls[c].st # "unused"
  /\ \/ \E a \in Actions, usage \in 0 .. Reservation : SettleCompleted(c, a, usage)
     \/ \E dispatched \in BOOLEAN : SettleFailed(c, dispatched)
  /\ UNCHANGED now

Apply(c) == ApplyCall(c) /\ UNCHANGED now
Reject(c) == calls[c].st # "unused" /\ RejectCall(c) /\ UNCHANGED now
Reconcile == (\E t \in Reads : Interrupt(t)) /\ UNCHANGED now
Tick == now < MaxTime /\ now' = now + 1 /\ UNCHANGED calls

Next ==
  \/ \E c \in Calls : Reserve(c) \/ Settle(c) \/ Apply(c) \/ Reject(c)
  \/ Reconcile
  \/ Tick

callVars == <<now, calls>>
Spec == Init /\ [][Next]_callVars
-----------------------------------------------------------------------------
\* Every row is well formed: a used row was written at a tick of the clock on
\* the day it is booked to, and never holds more than its reservation.
TypeOK ==
  /\ now \in Time
  /\ calls \in [Calls -> CallRow]
  /\ \A c \in Calls : calls[c].created \in Time /\ calls[c].charge <= Reservation

\* The $5 day and the $50 rolling window are ceilings whatever the workers do:
\* reservations are booked before the network, so calls in flight, killed or
\* failed after dispatch are inside the sum (reserve's two budget tests).
BudgetHolds ==
  \A d \in Days :
    /\ Spent(OfDay(d)) <= DailyBudget
    /\ Spent({c \in Used : calls[c].day \in (d - BudgetDays + 1) .. d}) <= RollingBudget

\* One market event is paid for at most MAX_EVENT_ATTEMPTS times a day, across
\* polling, restarts and a second worker racing through the same scan.
AttemptsBounded ==
  \A d \in Days, k \in PlanKeys \cup BandKeys : Cardinality(Attempts(d, k)) <= MaxAttempts

\* Two workers never have the same market event in flight together: the key is
\* rechecked under the reservation lock, not only in the scan.
OneInFlightPerKey ==
  \A c, e \in Used :
    (c # e /\ calls[c].day = calls[e].day /\ calls[c].key = calls[e].key)
      => ~(calls[c].st \in InFlight /\ calls[e].st \in InFlight)

\* Two attempts at one event are RECONSIDER_SECONDS apart, even when the
\* workers' clocks were read long before they got the lock.
RetriesAreSpaced ==
  \A c, e \in Used :
    (c # e /\ calls[c].day = calls[e].day /\ calls[c].key = calls[e].key)
      => \/ calls[c].created >= calls[e].created + ReconsiderAge
         \/ calls[e].created >= calls[c].created + ReconsiderAge

\* What one market event may cost, by any number of workers: its attempts are bounded,
\* spaced, and never two at a time (reserve, reconsider_event).
AttemptsKept == AttemptsBounded /\ OneInFlightPerKey /\ RetriesAreSpaced

\* A call once failed, applied, rejected or interrupted is never replayed: no
\* late settle, apply, reject or reconciliation changes its row again.
NeverReplayed ==
  [][\A c \in Calls : calls[c].st \in Terminal => calls'[c] = calls[c]]_callVars

\* An interrupted call keeps what was held when its process was lost, so a
\* crash can never hand money back to the budget.
InterruptRetainsCharge ==
  [][\A c \in Calls : calls'[c].st = "interrupted" => calls'[c].charge = calls[c].charge]_callVars

\* A call left behind by a killed worker does not stay unresolved: ten minutes
\* on it is interrupted, which is what lets its event be reviewed again.
AbandonedIsResolved ==
  \A c \in Calls :
    (calls[c].st \in InFlight /\ calls[c].created + InterruptAge < MaxTime)
      ~> calls[c].st \in Terminal

\* docs/OPTIONS_OPERATIONS.md: three successive failures open the circuit for
\* fifteen minutes, "after which one new eligible call can probe recovery".  A
\* call made that long after three failures is the probe; while it is
\* unanswered no second call is made.
Probe(c) ==
  LET before == {f \in OfDay(calls[c].day) : calls[f].created < calls[c].created} IN
  /\ calls[c].st = "reserved"
  /\ Cardinality(before) >= 3
  /\ \A f \in before : /\ calls[f].st = "failed"
                        /\ calls[f].seen + CircuitAge <= calls[c].created

OneProbeAtATime ==
  [][\A e \in Calls :
       (calls[e].st = "unused" /\ calls'[e].st = "reserved") => ~\E c \in Calls : Probe(c)]_callVars
=============================================================================
