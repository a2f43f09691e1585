---------------------------- MODULE AiCallsProofs ----------------------------
(***************************************************************************)
(* What is proved of the paid-call ledger for every number of calls and    *)
(* workers, every clock and calendar, and every budget and age.            *)
(***************************************************************************)
EXTENDS AiCalls, Sums, TLAPS

USE DEF Recent

\* The amounts and ages are natural numbers, and so are ticks and days.
LEMMA Numbers ==
  /\ Reservation \in Nat /\ SnapshotAge \in Nat /\ InterruptAge \in Nat
  /\ MaxTime \in Nat /\ Time \subseteq Nat /\ DayOf \in [Time -> Nat]
BY ClockAssumption, CallAssumption DEF Time

\* The ledger starts well formed.
LEMMA InitType == Init => TypeOK
<1> SUFFICES ASSUME Init PROVE TypeOK
    OBVIOUS
<1>1. now \in Time
  BY ClockAssumption DEF Init, Time
<1>2. UnusedRow \in CallRow
  BY DEF UnusedRow, CallRow
<1>3. \A c \in Calls : calls[c] = UnusedRow
  BY DEF Init
<1>4. 0 \in Time /\ 0 <= Reservation
  BY Numbers DEF Time
<1> QED
  BY <1>1, <1>2, <1>3, <1>4 DEF Init, TypeOK, UnusedRow

\* A statement that rewrites one row leaves the ledger well formed when the new
\* row is a row with a clock tick and at most the reservation on it.
LEMMA RowWritten ==
  ASSUME TypeOK, NEW c \in Calls, NEW r \in CallRow, r.created \in Time,
         r.charge <= Reservation, calls' = [calls EXCEPT ![c] = r], now' \in Time
  PROVE  TypeOK'
BY DEF TypeOK

LEMMA ReserveType ==
  ASSUME TypeOK, NEW c \in Calls, NEW d \in Nat, NEW k \in PlanKeys \cup BandKeys \cup {Undecided},
         NEW seen \in Nat, NEW t \in Time, ReserveCall(c, d, k, seen, t), now' \in Time
  PROVE  TypeOK'
<1> DEFINE r == [st |-> "reserved", day |-> d, created |-> t, seen |-> seen, key |-> k,
                 charge |-> Reservation, action |-> Undecided]
<1>1. Time \subseteq Nat
  BY DEF Time
<1>2. r \in CallRow
  BY <1>1, Numbers DEF CallRow, InFlight
<1>3. r.created \in Time /\ r.charge <= Reservation
  BY Numbers
<1>4. calls' = [calls EXCEPT ![c] = r]
  BY DEF ReserveCall
<1> HIDE DEF r
<1> QED
  BY <1>2, <1>3, <1>4, RowWritten

LEMMA SettleCompletedType ==
  ASSUME TypeOK, NEW c \in Calls, NEW a \in Actions, NEW usage \in 0 .. Reservation,
         SettleCompleted(c, a, usage), now' \in Time
  PROVE  TypeOK'
<1>1. CASE calls[c].st = "reserved"
  <2> DEFINE r == [calls[c] EXCEPT !.st = "completed", !.action = a, !.charge = usage]
  <2>1. calls[c] \in CallRow /\ calls[c].created \in Time
    BY DEF TypeOK
  <2>a. usage \in Nat /\ usage <= Reservation
    BY Numbers
  <2>b. r \in CallRow
    BY <2>1, <2>a DEF CallRow, InFlight
  <2>c. r.created = calls[c].created /\ r.charge = usage
    BY <2>1 DEF CallRow
  <2>2. r \in CallRow /\ r.created \in Time /\ r.charge <= Reservation
    BY <2>1, <2>a, <2>b, <2>c
  <2>3. calls' = [calls EXCEPT ![c] = r]
    BY <1>1, <2>1 DEF SettleCompleted, TypeOK, CallRow
  <2> HIDE DEF r
  <2> QED
    BY <2>2, <2>3, RowWritten
<1>2. CASE calls[c].st # "reserved"
  BY <1>2 DEF SettleCompleted, TypeOK
<1> QED
  BY <1>1, <1>2

LEMMA SettleFailedType ==
  ASSUME TypeOK, NEW c \in Calls, NEW dispatched \in BOOLEAN,
         SettleFailed(c, dispatched), now' \in Time
  PROVE  TypeOK'
<1>1. CASE calls[c].st = "reserved"
  <2> DEFINE r == [calls[c] EXCEPT !.st = "failed",
                                   !.charge = IF dispatched THEN Reservation ELSE 0]
  <2>1. calls[c] \in CallRow /\ calls[c].created \in Time
    BY DEF TypeOK
  <2> DEFINE kept == IF dispatched THEN Reservation ELSE 0
  <2>a. kept \in Nat /\ kept <= Reservation
    BY Numbers
  <2>b. r \in CallRow
    BY <2>1, <2>a DEF CallRow, Terminal
  <2>c. r.created = calls[c].created /\ r.charge = kept
    BY <2>1 DEF CallRow
  <2>2. r \in CallRow /\ r.created \in Time /\ r.charge <= Reservation
    BY <2>1, <2>a, <2>b, <2>c
  <2>3. calls' = [calls EXCEPT ![c] = r]
    BY <1>1, <2>1 DEF SettleFailed, TypeOK, CallRow
  <2> HIDE DEF r
  <2> QED
    BY <2>2, <2>3, RowWritten
<1>2. CASE calls[c].st # "reserved"
  BY <1>2 DEF SettleFailed, TypeOK
<1> QED
  BY <1>1, <1>2

\* Applying, rejecting and interrupting change a row's status and nothing else.
LEMMA ApplyType ==
  ASSUME TypeOK, NEW c \in Calls, ApplyCall(c), now' \in Time
  PROVE  TypeOK'
<1> DEFINE r == [calls[c] EXCEPT !.st = "applied"]
<1>1. calls[c] \in CallRow /\ calls[c].created \in Time /\ calls[c].charge <= Reservation
  BY DEF TypeOK
<1>2. r \in CallRow /\ r.created \in Time /\ r.charge <= Reservation
  BY <1>1 DEF CallRow, Terminal
<1>3. calls' = [calls EXCEPT ![c] = r]
  BY DEF ApplyCall
<1> HIDE DEF r
<1> QED
  BY <1>2, <1>3, RowWritten

LEMMA RejectType ==
  ASSUME TypeOK, NEW c \in Calls, RejectCall(c), now' \in Time
  PROVE  TypeOK'
<1>1. CASE calls[c].st = "completed"
  <2> DEFINE r == [calls[c] EXCEPT !.st = "rejected"]
  <2>1. calls[c] \in CallRow /\ calls[c].created \in Time /\ calls[c].charge <= Reservation
    BY DEF TypeOK
  <2>2. r \in CallRow /\ r.created \in Time /\ r.charge <= Reservation
    BY <2>1 DEF CallRow, Terminal
  <2>3. calls' = [calls EXCEPT ![c] = r]
    BY <1>1 DEF RejectCall
  <2> HIDE DEF r
  <2> QED
    BY <2>2, <2>3, RowWritten
<1>2. CASE calls[c].st # "completed"
  BY <1>2 DEF RejectCall, TypeOK
<1> QED
  BY <1>1, <1>2

LEMMA InterruptType ==
  ASSUME TypeOK, NEW t \in Time, Interrupt(t), now' \in Time
  PROVE  TypeOK'
<1> SUFFICES ASSUME NEW c \in Calls
             PROVE  calls'[c] \in CallRow /\ calls'[c].created \in Time
                    /\ calls'[c].charge <= Reservation
  BY DEF TypeOK, Interrupt
<1>1. calls[c] \in CallRow /\ calls[c].created \in Time /\ calls[c].charge <= Reservation
  BY DEF TypeOK
<1>2. calls'[c] = calls[c] \/ calls'[c] = [calls[c] EXCEPT !.st = "interrupted"]
  BY DEF Interrupt
<1> QED
  BY <1>1, <1>2 DEF CallRow, Terminal

\* TypeOK: whatever the workers do, every row stays well formed and never holds
\* more than its reservation.
THEOREM TypeCorrect == Spec => []TypeOK
<1>1. TypeOK /\ [Next]_callVars => TypeOK'
  <2> SUFFICES ASSUME TypeOK, [Next]_callVars PROVE TypeOK'
    OBVIOUS
  <2>0. UNCHANGED now => now' \in Time
    BY DEF TypeOK
  <2>1. ASSUME NEW c \in Calls, Reserve(c) PROVE TypeOK'
    <3>1. PICK t \in Reads, k \in PlanKeys \cup BandKeys :
            \E seen \in {u \in Time : Recent(u, t, SnapshotAge)} :
              ReserveCall(c, DayOf[t], k, seen, t)
      BY <2>1 DEF Reserve
    <3>2. t \in Time /\ DayOf[t] \in Nat
      BY Numbers DEF Reads
    <3> QED
      BY <2>0, <2>1, <3>1, <3>2, Numbers, ReserveType DEF Reserve
  <2>2. ASSUME NEW c \in Calls, Settle(c) PROVE TypeOK'
    BY <2>0, <2>2, SettleCompletedType, SettleFailedType DEF Settle
  <2>3. ASSUME NEW c \in Calls, Apply(c) PROVE TypeOK'
    BY <2>0, <2>3, ApplyType DEF Apply
  <2>4. ASSUME NEW c \in Calls, Reject(c) PROVE TypeOK'
    BY <2>0, <2>4, RejectType DEF Reject
  <2>5. CASE Reconcile
    BY <2>0, <2>5, InterruptType DEF Reconcile, Reads
  <2>6. CASE Tick
    BY <2>6, Numbers DEF Tick, TypeOK, Time
  <2>7. CASE UNCHANGED callVars
    BY <2>7 DEF callVars, TypeOK
  <2> QED
    BY <2>1, <2>2, <2>3, <2>4, <2>5, <2>6, <2>7 DEF Next
<1> QED
  BY <1>1, InitType, PTL DEF Spec
-----------------------------------------------------------------------------
\* NeverReplayed: the statements' own guards are enough, for any interleaving:
\* no late settle, apply, reject or reconciliation touches a resolved row.
THEOREM NoReplay == Spec => NeverReplayed
<1>1. TypeOK /\ [Next]_callVars
        => [\A c \in Calls : calls[c].st \in Terminal => calls'[c] = calls[c]]_callVars
  <2> SUFFICES ASSUME TypeOK, Next, NEW c \in Calls, calls[c].st \in Terminal
               PROVE  calls'[c] = calls[c]
    BY DEF callVars
  <2>0. calls \in [Calls -> CallRow]
    BY DEF TypeOK
  <2>1. calls[c].st \notin {"unused", "reserved", "completed"}
    BY DEF Terminal
  <2>2. ASSUME NEW e \in Calls, Reserve(e) PROVE calls'[c] = calls[c]
    BY <2>0, <2>1, <2>2 DEF Reserve, ReserveCall
  <2>3. ASSUME NEW e \in Calls, Settle(e) PROVE calls'[c] = calls[c]
    BY <2>0, <2>1, <2>3 DEF Settle, SettleCompleted, SettleFailed
  <2>4. ASSUME NEW e \in Calls, Apply(e) PROVE calls'[c] = calls[c]
    BY <2>0, <2>1, <2>4 DEF Apply, ApplyCall
  <2>5. ASSUME NEW e \in Calls, Reject(e) PROVE calls'[c] = calls[c]
    BY <2>0, <2>1, <2>5 DEF Reject, RejectCall
  <2>6. CASE Reconcile
    BY <2>0, <2>1, <2>6 DEF Reconcile, Interrupt, Abandoned, InFlight
  <2>7. CASE Tick
    BY <2>7 DEF Tick
  <2> QED
    BY <2>2, <2>3, <2>4, <2>5, <2>6, <2>7 DEF Next
<1> QED
  BY <1>1, TypeCorrect, PTL DEF Spec, NeverReplayed

\* InterruptRetainsCharge: a crash never hands money back to the budget, since
\* only the reconciliation interrupts and it leaves the charge alone.
THEOREM ChargeRetained == Spec => InterruptRetainsCharge
<1>1. TypeOK /\ [Next]_callVars
        => [\A c \in Calls : calls'[c].st = "interrupted" =>
              calls'[c].charge = calls[c].charge]_callVars
  <2> SUFFICES ASSUME TypeOK, Next, NEW c \in Calls, calls'[c].st = "interrupted"
               PROVE  calls'[c].charge = calls[c].charge
    BY DEF callVars
  <2>0. calls \in [Calls -> CallRow]
    BY DEF TypeOK
  <2>1. ASSUME NEW e \in Calls, Reserve(e) PROVE calls'[c] = calls[c]
    BY <2>0, <2>1 DEF Reserve, ReserveCall, CallRow
  <2>2. ASSUME NEW e \in Calls, Settle(e) PROVE calls'[c] = calls[c]
    BY ZenonT(40), <2>0, <2>2 DEF Settle, SettleCompleted, SettleFailed, CallRow
  <2>3. ASSUME NEW e \in Calls, Apply(e) PROVE calls'[c] = calls[c]
    BY <2>0, <2>3 DEF Apply, ApplyCall, CallRow
  <2>4. ASSUME NEW e \in Calls, Reject(e) PROVE calls'[c] = calls[c]
    BY <2>0, <2>4 DEF Reject, RejectCall, CallRow
  <2>5. CASE Reconcile
    BY <2>0, <2>5 DEF Reconcile, Interrupt, CallRow
  <2>6. CASE Tick
    BY <2>6 DEF Tick
  <2> QED
    BY <2>1, <2>2, <2>3, <2>4, <2>5, <2>6 DEF Next
<1> QED
  BY <1>1, TypeCorrect, PTL DEF Spec, InterruptRetainsCharge
-----------------------------------------------------------------------------
\* Money: what the rows r booked on the days W hold.
Charges(r) == [c \in Calls |-> r[c].charge]
Booked(r, W) == {c \in Calls : r[c].st # "unused" /\ r[c].day \in W}
Cost(r, W) == Total(Charges(r), Booked(r, W))

\* The sum the statements test, written over the charges alone.
LEMMA SpentIsTotal ==
  ASSUME NEW r, NEW S \in SUBSET Calls
  PROVE  MapThenSumSet(LAMBDA c : r[c].charge, S) = Total(Charges(r), S)
<1> DEFINE ByRow(g) == g = [s \in SUBSET S |-> IF s = {} THEN 0
                              ELSE r[Pick(s)].charge + g[s \ {Pick(s)}]]
<1>1. ASSUME NEW s \in SUBSET S, s # {}
      PROVE  r[Pick(s)].charge = Charges(r)[Pick(s)]
  BY <1>1, Picked DEF Charges
<1>2. ASSUME NEW g PROVE ByRow(g) <=> IsSum(g, Charges(r), S)
  <2>1. [s \in SUBSET S |-> IF s = {} THEN 0 ELSE r[Pick(s)].charge + g[s \ {Pick(s)}]]
          = [s \in SUBSET S |-> IF s = {} THEN 0
                                ELSE Charges(r)[Pick(s)] + g[s \ {Pick(s)}]]
    BY <1>1
  <2> QED
    BY <2>1 DEF IsSum
<1>3. (CHOOSE g : ByRow(g)) = (CHOOSE g : IsSum(g, Charges(r), S))
  <2> HIDE DEF ByRow
  <2> QED
    BY <1>2
<1>4. Total(Charges(r), S) = (CHOOSE g : IsSum(g, Charges(r), S))[S]
  BY DEF Total, MapThenSumSet, MapThenFoldSet, IsSum, Pick
<1>5. MapThenSumSet(LAMBDA c : r[c].charge, S) = (CHOOSE g : ByRow(g))[S]
  BY DEF MapThenSumSet, MapThenFoldSet, Pick
<1> QED
  BY <1>3, <1>4, <1>5

LEMMA BookedFinite ==
  ASSUME NEW r, NEW W
  PROVE  IsFiniteSet(Booked(r, W)) /\ Booked(r, W) \in SUBSET Calls
BY CallAssumption, FS_Subset DEF Booked

LEMMA CostType ==
  ASSUME NEW r \in [Calls -> CallRow], NEW W
  PROVE  /\ \A c \in Booked(r, W) : Charges(r)[c] = r[c].charge /\ Charges(r)[c] \in Nat
         /\ Cost(r, W) \in Nat
<1>1. \A c \in Booked(r, W) : Charges(r)[c] = r[c].charge /\ Charges(r)[c] \in Nat
  BY DEF Booked, Charges, CallRow
<1> QED
  BY <1>1, BookedFinite, TotalType DEF Cost

\* Booking nothing new and raising no charge raises no sum.
LEMMA CostNotRaised ==
  ASSUME NEW r \in [Calls -> CallRow], NEW q \in [Calls -> CallRow], NEW W,
         Booked(q, W) = Booked(r, W), \A c \in Booked(r, W) : q[c].charge <= r[c].charge
  PROVE  Cost(q, W) <= Cost(r, W)
<1>1. \A c \in Booked(r, W) : /\ Charges(q)[c] \in Nat /\ Charges(r)[c] \in Nat
                              /\ Charges(q)[c] <= Charges(r)[c]
  BY CostType
<1> QED
  BY <1>1, BookedFinite, TotalMonotone DEF Cost

\* A new row adds its charge to every span of days it is booked in.
LEMMA CostRaised ==
  ASSUME NEW r \in [Calls -> CallRow], NEW q \in [Calls -> CallRow], NEW W, NEW c \in Calls,
         r[c].st = "unused", q[c].st # "unused", q[c].day \in W,
         \A e \in Calls \ {c} : q[e] = r[e]
  PROVE  Cost(q, W) = q[c].charge + Cost(r, W)
<1>1. Booked(q, W) = Booked(r, W) \cup {c} /\ c \notin Booked(r, W)
  BY DEF Booked
<1>2. \A e \in Booked(r, W) \cup {c} : Charges(q)[e] \in Nat
  BY <1>1, CostType
<1>3. Total(Charges(q), Booked(q, W)) = Charges(q)[c] + Total(Charges(q), Booked(r, W))
  BY <1>1, <1>2, BookedFinite, TotalWith
<1>4. \A e \in Booked(r, W) : Charges(q)[e] = Charges(r)[e]
  BY <1>1 DEF Booked, Charges
<1>5. Total(Charges(q), Booked(r, W)) = Total(Charges(r), Booked(r, W))
  <2>1. \A e \in Booked(r, W) :
          /\ Charges(q)[e] \in Nat /\ Charges(r)[e] \in Nat
          /\ Charges(q)[e] <= Charges(r)[e] /\ Charges(r)[e] <= Charges(q)[e]
    BY <1>2, <1>4
  <2>2. /\ Total(Charges(q), Booked(r, W)) <= Total(Charges(r), Booked(r, W))
        /\ Total(Charges(r), Booked(r, W)) <= Total(Charges(q), Booked(r, W))
    BY <2>1, BookedFinite, TotalMonotone
  <2>3. /\ Total(Charges(q), Booked(r, W)) \in Nat
        /\ Total(Charges(r), Booked(r, W)) \in Nat
    BY <2>1, BookedFinite, TotalType
  <2> QED
    BY <2>2, <2>3
<1>6. Charges(q)[c] = q[c].charge
  BY DEF Charges
<1> QED
  BY <1>3, <1>5, <1>6 DEF Cost

\* Fewer days hold no more.
LEMMA CostOfPart ==
  ASSUME NEW r \in [Calls -> CallRow], NEW V, NEW W, Booked(r, V) \subseteq Booked(r, W)
  PROVE  Cost(r, V) <= Cost(r, W)
BY CostType, BookedFinite, TotalOfPart DEF Cost

\* The budgets, over any rows.
RollingDays(d) == (d - BudgetDays + 1) .. d
Since(d) == {n \in Nat : n > d - BudgetDays}
WithinCaps(r) ==
  \A d \in Days : Cost(r, {d}) <= DailyBudget /\ Cost(r, RollingDays(d)) <= RollingBudget

\* A worker's call is paid for in full until it is settled.
ReservedInFull == \A c \in Calls : calls[c].st = "reserved" => calls[c].charge = Reservation

LEMMA BudgetView ==
  ASSUME TypeOK
  PROVE  /\ BudgetHolds <=> WithinCaps(calls)
         /\ \A d \in Nat, t \in Time :
              WithinBudget(d, t) <=> /\ Cost(calls, {d}) + Reservation <= DailyBudget
                                     /\ Cost(calls, Since(DayOf[t])) + Reservation <= RollingBudget
<1>1. \A d : OfDay(d) = Booked(calls, {d})
  BY DEF OfDay, Used, Booked
<1>2. \A d : {c \in Used : calls[c].day \in (d - BudgetDays + 1) .. d} = Booked(calls, RollingDays(d))
  BY DEF Used, Booked, RollingDays
<1>3. \A d : {c \in Used : calls[c].day > d - BudgetDays} = Booked(calls, Since(d))
  BY DEF Used, Booked, Since, TypeOK, CallRow
<1>4. \A W : Spent(Booked(calls, W)) = Cost(calls, W)
  BY SpentIsTotal, BookedFinite DEF Spent, Cost
<1> QED
  BY <1>1, <1>2, <1>3, <1>4 DEF BudgetHolds, WithinBudget, WithinCaps

\* A step that books no new row and raises no charge keeps within the budgets.
LEMMA CapsKept ==
  ASSUME NEW r \in [Calls -> CallRow], NEW q \in [Calls -> CallRow], WithinCaps(r),
         \A c \in Calls : /\ q[c].st = "unused" <=> r[c].st = "unused"
                          /\ q[c].day = r[c].day /\ q[c].charge <= r[c].charge
  PROVE  WithinCaps(q)
<1>1. ASSUME NEW W PROVE Cost(q, W) <= Cost(r, W) /\ Cost(q, W) \in Nat /\ Cost(r, W) \in Nat
  <2>1. Booked(q, W) = Booked(r, W)
    BY DEF Booked
  <2> QED
    BY <2>1, CostNotRaised, CostType DEF Booked
<1>2. DailyBudget \in Nat /\ RollingBudget \in Nat
  BY CallAssumption
<1> QED
  BY <1>1, <1>2 DEF WithinCaps

\* reserve(): the two tests cover the new row, for its own day and for every
\* window of days that holds it.
LEMMA CapsReserved ==
  ASSUME NEW r \in [Calls -> CallRow], NEW q \in [Calls -> CallRow], WithinCaps(r),
         NEW c \in Calls, r[c].st = "unused", q[c].st # "unused", q[c].charge = Reservation,
         \A e \in Calls \ {c} : q[e] = r[e],
         Cost(r, {q[c].day}) + Reservation <= DailyBudget,
         Cost(r, Since(q[c].day)) + Reservation <= RollingBudget
  PROVE  WithinCaps(q)
<1> SUFFICES ASSUME NEW d \in Days
             PROVE  Cost(q, {d}) <= DailyBudget /\ Cost(q, RollingDays(d)) <= RollingBudget
  BY DEF WithinCaps
<1>a. /\ DailyBudget \in Nat /\ RollingBudget \in Nat /\ Reservation \in Nat
      /\ BudgetDays \in Nat /\ d \in Nat /\ q[c].day \in Nat
  BY CallAssumption, Numbers DEF Days, CallRow
<1>b. ASSUME NEW W, q[c].day \notin W PROVE Cost(q, W) <= Cost(r, W)
  <2>1. Booked(q, W) = Booked(r, W) /\ \A e \in Booked(r, W) : q[e].charge <= r[e].charge
    <3>1. c \notin Booked(q, W) /\ c \notin Booked(r, W)
      BY <1>b DEF Booked
    <3> QED
      BY <3>1 DEF Booked, CallRow
  <2> QED
    BY <2>1, CostNotRaised
<1>c. ASSUME NEW W PROVE Cost(q, W) \in Nat /\ Cost(r, W) \in Nat
  BY CostType
<1>1. Cost(q, {d}) <= DailyBudget
  <2>1. CASE d = q[c].day
    <3>1. Cost(q, {d}) = q[c].charge + Cost(r, {d})
      BY <2>1, CostRaised
    <3> QED
      BY <2>1, <3>1, <1>a, <1>c
  <2>2. CASE d # q[c].day
    BY <2>2, <1>a, <1>b, <1>c DEF WithinCaps
  <2> QED
    BY <2>1, <2>2
<1>2. Cost(q, RollingDays(d)) <= RollingBudget
  <2>1. CASE q[c].day \in RollingDays(d)
    <3>1. Cost(q, RollingDays(d)) = q[c].charge + Cost(r, RollingDays(d))
      BY <2>1, CostRaised
    <3>2. RollingDays(d) \cap Nat \subseteq Since(q[c].day)
      BY <2>1, <1>a DEF RollingDays, Since
    <3>3. Booked(r, RollingDays(d)) \subseteq Booked(r, Since(q[c].day))
      BY <3>2 DEF Booked, CallRow
    <3>4. Cost(r, RollingDays(d)) <= Cost(r, Since(q[c].day))
      BY <3>3, CostOfPart
    <3> QED
      BY <3>1, <3>4, <1>a, <1>c
  <2>2. CASE q[c].day \notin RollingDays(d)
    <3>1. Cost(q, RollingDays(d)) <= Cost(r, RollingDays(d)) /\ Cost(r, RollingDays(d)) <= RollingBudget
      BY <2>2, <1>b DEF WithinCaps
    <3> QED
      BY <3>1, <1>a, <1>c
  <2> QED
    BY <2>1, <2>2
<1> QED
  BY <1>1, <1>2

LEMMA CapsInit == Init => WithinCaps(calls)
<1> SUFFICES ASSUME Init, NEW W PROVE Cost(calls, W) = 0
  BY CallAssumption DEF WithinCaps
<1>1. Booked(calls, W) = {}
  BY DEF Init, UnusedRow, Booked
<1> QED
  BY <1>1, TotalEmpty DEF Cost

BudgetInv == TypeOK /\ ReservedInFull /\ WithinCaps(calls)

LEMMA BudgetStep == BudgetInv /\ TypeOK' /\ [Next]_callVars => ReservedInFull' /\ WithinCaps(calls')
<1> SUFFICES ASSUME BudgetInv, TypeOK', [Next]_callVars
             PROVE  ReservedInFull' /\ WithinCaps(calls')
  OBVIOUS
<1>a. calls \in [Calls -> CallRow] /\ calls' \in [Calls -> CallRow] /\ WithinCaps(calls)
  BY DEF BudgetInv, TypeOK
<1>b. \A c \in Calls : calls[c].charge \in Nat /\ calls[c].charge <= Reservation /\ Reservation \in Nat
  BY Numbers DEF BudgetInv, TypeOK, CallRow
<1>1. ASSUME NEW c \in Calls, Reserve(c) PROVE ReservedInFull' /\ WithinCaps(calls')
  <2>1. PICK t \in Time, k \in PlanKeys \cup BandKeys, seen \in Time :
          ReserveCall(c, DayOf[t], k, seen, t)
    BY <1>1 DEF Reserve, Reads
  <2>2. /\ calls[c].st = "unused" /\ calls'[c].st = "reserved"
        /\ calls'[c].charge = Reservation /\ calls'[c].day = DayOf[t]
        /\ \A e \in Calls \ {c} : calls'[e] = calls[e]
    BY <2>1, <1>a DEF ReserveCall
  <2>3. DayOf[t] \in Nat
    BY Numbers
  <2>4. /\ Cost(calls, {DayOf[t]}) + Reservation <= DailyBudget
        /\ Cost(calls, Since(DayOf[t])) + Reservation <= RollingBudget
    BY <2>1, <2>3, BudgetView DEF ReserveCall, CanReserve, BudgetInv
  <2>5. WithinCaps(calls')
    BY <1>a, <2>2, <2>4, CapsReserved
  <2> QED
    BY <2>2, <2>5 DEF ReservedInFull, BudgetInv
<1>2. ASSUME \A c \in Calls : /\ calls'[c].st = "unused" <=> calls[c].st = "unused"
                              /\ calls'[c].day = calls[c].day
                              /\ calls'[c].charge <= calls[c].charge
                              /\ calls'[c].st = "reserved" => calls'[c] = calls[c]
      PROVE  ReservedInFull' /\ WithinCaps(calls')
  BY <1>2, <1>a, CapsKept DEF ReservedInFull, BudgetInv
<1>3. ASSUME NEW c \in Calls, Settle(c) PROVE ReservedInFull' /\ WithinCaps(calls')
  <2>1. CASE \E a \in Actions, usage \in 0 .. Reservation : SettleCompleted(c, a, usage)
    <3>1. PICK a \in Actions, usage \in 0 .. Reservation : SettleCompleted(c, a, usage)
      BY <2>1
    <3>2. CASE calls[c].st = "reserved"
      <4>1. calls[c].charge = Reservation
        BY <3>2 DEF BudgetInv, ReservedInFull
      <4>2. /\ \A e \in Calls \ {c} : calls'[e] = calls[e]
            /\ calls'[c].st = "completed" /\ calls'[c].day = calls[c].day
            /\ calls'[c].charge = usage
        BY <3>1, <3>2, <1>a DEF SettleCompleted, CallRow
      <4> QED
        BY <3>2, <4>1, <4>2, <1>b, <1>2
    <3>3. CASE calls[c].st # "reserved"
      BY <3>1, <3>3, <1>b, <1>2 DEF SettleCompleted
    <3> QED
      BY <3>2, <3>3
  <2>2. CASE \E dispatched \in BOOLEAN : SettleFailed(c, dispatched)
    <3>1. PICK dispatched \in BOOLEAN : SettleFailed(c, dispatched)
      BY <2>2
    <3>2. CASE calls[c].st = "reserved"
      <4>1. calls[c].charge = Reservation
        BY <3>2 DEF BudgetInv, ReservedInFull
      <4>2. /\ \A e \in Calls \ {c} : calls'[e] = calls[e]
            /\ calls'[c].st = "failed" /\ calls'[c].day = calls[c].day
            /\ calls'[c].charge = IF dispatched THEN Reservation ELSE 0
        BY <3>1, <3>2, <1>a DEF SettleFailed, CallRow
      <4> QED
        BY <3>2, <4>1, <4>2, <1>b, <1>2
    <3>3. CASE calls[c].st # "reserved"
      BY <3>1, <3>3, <1>b, <1>2 DEF SettleFailed
    <3> QED
      BY <3>2, <3>3
  <2> QED
    BY <1>3, <2>1, <2>2 DEF Settle
<1>4. ASSUME NEW c \in Calls, Apply(c) PROVE ReservedInFull' /\ WithinCaps(calls')
  BY <1>4, <1>a, <1>b, <1>2 DEF Apply, ApplyCall, CallRow
<1>5. ASSUME NEW c \in Calls, Reject(c) PROVE ReservedInFull' /\ WithinCaps(calls')
  BY <1>5, <1>a, <1>b, <1>2 DEF Reject, RejectCall, CallRow
<1>6. CASE Reconcile
  BY <1>6, <1>a, <1>b, <1>2 DEF Reconcile, Interrupt, Abandoned, InFlight, CallRow
<1>7. CASE UNCHANGED calls
  BY <1>7, <1>b, <1>2
<1> QED
  BY <1>1, <1>3, <1>4, <1>5, <1>6, <1>7 DEF Next, Tick, callVars

\* BudgetHolds: reservations are booked before the network, so no interleaving
\* of workers, crash, failure or late answer takes a day or a rolling window of
\* days over its ceiling, for any budgets and any number of calls.
THEOREM BudgetKept == Spec => []BudgetHolds
<1>1. Init => BudgetInv
  BY InitType, CapsInit DEF BudgetInv, ReservedInFull, Init, UnusedRow
<1>2. BudgetInv /\ TypeOK' /\ [Next]_callVars => BudgetInv'
  <2> SUFFICES ASSUME BudgetInv, TypeOK', [Next]_callVars PROVE BudgetInv'
    OBVIOUS
  <2>1. ReservedInFull' /\ WithinCaps(calls')
    BY BudgetStep
  <2> QED
    BY <2>1 DEF BudgetInv
<1>3. BudgetInv => BudgetHolds
  BY BudgetView DEF BudgetInv
<1> QED
  BY <1>1, <1>2, <1>3, TypeCorrect, PTL DEF Spec
-----------------------------------------------------------------------------
\* Attempts at one market event.
Rows(r, d, k) == {c \in Calls : r[c].st # "unused" /\ r[c].day = d /\ r[c].key = k}

\* No two calls were made in one slot, so the newest attempt of an event is
\* unique, and every older one was resolved, and aged, before it was made.
SlotsDistinct(r) ==
  \A c, e \in Calls :
    (c # e /\ r[c].st # "unused" /\ r[e].st # "unused") => Slot(r[c].created) # Slot(r[e].created)

OlderResolved(r) ==
  \A c, e \in Calls :
    /\ r[c].st # "unused" /\ r[e].st # "unused"
    /\ r[c].day = r[e].day /\ r[c].key = r[e].key /\ r[e].created < r[c].created
    => /\ r[e].st \notin InFlight
       /\ r[c].created >= r[e].created + ReconsiderAge

FewRows(r) ==
  \A d \in Nat, k \in PlanKeys \cup BandKeys : Cardinality(Rows(r, d, k)) <= MaxAttempts

LEMMA RowsFinite ==
  ASSUME NEW r, NEW d, NEW k
  PROVE  IsFiniteSet(Rows(r, d, k)) /\ Cardinality(Rows(r, d, k)) \in Nat
BY CallAssumption, FS_Subset, FS_CardinalityType DEF Rows

\* A nonempty set of used rows has a newest one.
LEMMA NewestExists ==
  ASSUME TypeOK, NEW S \in SUBSET Calls, S # {}
  PROVE  Newest(S) \in S /\ \A e \in S : calls[e].created <= calls[Newest(S)].created
<1> DEFINE D == {MaxTime - calls[c].created : c \in S}
<1>1. \A c \in S : calls[c].created \in Time /\ calls[c].created \in Nat /\ calls[c].created <= MaxTime
  BY Numbers DEF TypeOK, Time
<1>2. D \subseteq Nat /\ D # {}
  BY <1>1, Numbers
<1>3. PICK n \in D : \A m \in D : <<m, n>> \notin OpToRel(<, Nat)
  <2> HIDE DEF D
  <2> QED
    BY <1>2, NatLessThanWellFounded, WFMin
<1>4. \A m \in D : n <= m
  <2> HIDE DEF D
  <2> SUFFICES ASSUME NEW m \in D, m < n PROVE FALSE
    BY <1>2
  <2>1. <<m, n>> \in OpToRel(<, Nat)
    BY <1>2 DEF OpToRel
  <2> QED
    BY <1>3, <2>1
<1>5. PICK c \in S : n = MaxTime - calls[c].created
  BY <1>3
<1>6. ASSUME NEW e \in S PROVE calls[e].created <= calls[c].created
  <2>1. n <= MaxTime - calls[e].created
    BY <1>4
  <2> HIDE DEF D
  <2> QED
    BY <1>1, <1>5, <2>1, Numbers
<1> QED
  BY <1>6 DEF Newest

\* reconsider_event() under the lock: when it lets an event be paid for again,
\* every earlier attempt at it is resolved and ReconsiderAge old.
LEMMA EligibleClears ==
  ASSUME TypeOK, SlotsDistinct(calls), OlderResolved(calls), NEW d \in Nat, NEW k, NEW t \in Time,
         Eligible(d, k, t), NEW e \in Rows(calls, d, k)
  PROVE  calls[e].st \notin InFlight /\ t >= calls[e].created + ReconsiderAge
<1> DEFINE A == Attempts(d, k)
           n == Newest(A)
<1>1. A = Rows(calls, d, k) /\ A \in SUBSET Calls
  BY DEF Attempts, OfDay, Used, Rows
<1>2. n \in A /\ calls[e].created <= calls[n].created /\ e \in A
  BY <1>1, NewestExists
<1>3. Retryable(n) /\ t >= calls[n].created + ReconsiderAge
  BY <1>2 DEF Eligible
<1>4. calls[n].st \notin InFlight
  BY <1>3 DEF Retryable, InFlight
<1>5. calls[e].created \in Nat /\ calls[n].created \in Nat /\ t \in Nat /\ ReconsiderAge \in Nat
  BY <1>1, <1>2, Numbers, CallAssumption DEF TypeOK
<1> HIDE DEF A, n
<1>6. CASE e = n
  BY <1>3, <1>4, <1>6
<1>7. CASE e # n
  <2>1. calls[e].created # calls[n].created
    BY <1>1, <1>2, <1>7 DEF SlotsDistinct, Rows
  <2>2. calls[e].st \notin InFlight
    BY <1>1, <1>2, <1>5, <2>1 DEF OlderResolved, Rows
  <2> QED
    BY <1>2, <1>3, <1>5, <2>2
<1> QED
  BY <1>6, <1>7

AttemptInv == SlotsDistinct(calls) /\ OlderResolved(calls) /\ FewRows(calls)

\* A statement that books no row, and puts none back in flight, keeps it all.
LEMMA AttemptsUndisturbed ==
  ASSUME AttemptInv,
         \A c \in Calls : /\ calls'[c].st = "unused" <=> calls[c].st = "unused"
                          /\ calls'[c].day = calls[c].day /\ calls'[c].key = calls[c].key
                          /\ calls'[c].created = calls[c].created
                          /\ calls'[c].st \in InFlight => calls[c].st \in InFlight
  PROVE  AttemptInv'
<1>1. SlotsDistinct(calls')
  BY DEF AttemptInv, SlotsDistinct
<1>2. OlderResolved(calls')
  BY DEF AttemptInv, OlderResolved
<1>3. \A d, k : Rows(calls', d, k) = Rows(calls, d, k)
  BY DEF Rows
<1>4. FewRows(calls')
  BY <1>3 DEF AttemptInv, FewRows
<1> QED
  BY <1>1, <1>2, <1>4 DEF AttemptInv

LEMMA AttemptReserved ==
  ASSUME TypeOK, TypeOK', AttemptInv, NEW c \in Calls, NEW d \in Nat,
         NEW k \in PlanKeys \cup BandKeys, NEW seen \in Time, NEW t \in Time,
         ReserveCall(c, d, k, seen, t)
  PROVE  AttemptInv'
<1>a. /\ calls[c].st = "unused" /\ calls'[c].st = "reserved" /\ calls'[c].day = d
      /\ calls'[c].key = k /\ calls'[c].created = t
      /\ \A e \in Calls \ {c} : calls'[e] = calls[e]
  BY DEF ReserveCall, TypeOK
<1>b. Eligible(d, k, t) /\ SlotFree(t)
  BY DEF ReserveCall, CanReserve
<1>c. \A e \in Calls : calls[e].created \in Nat /\ t \in Nat /\ ReconsiderAge \in Nat
  BY Numbers, CallAssumption DEF TypeOK
<1>1. SlotsDistinct(calls')
  BY <1>a, <1>b DEF AttemptInv, SlotsDistinct, SlotFree, Used
<1>2. OlderResolved(calls')
  <2> SUFFICES ASSUME NEW x \in Calls, NEW e \in Calls,
                      calls'[x].st # "unused", calls'[e].st # "unused",
                      calls'[x].day = calls'[e].day, calls'[x].key = calls'[e].key,
                      calls'[e].created < calls'[x].created
               PROVE  /\ calls'[e].st \notin InFlight
                      /\ calls'[x].created >= calls'[e].created + ReconsiderAge
    BY DEF OlderResolved
  <2>1. CASE x # c /\ e # c
    BY <1>a, <2>1 DEF AttemptInv, OlderResolved
  <2>2. CASE x = c /\ e # c
    <3>1. e \in Rows(calls, d, k)
      BY <1>a, <2>2 DEF Rows
    <3> QED
      BY <1>a, <1>b, <2>2, <3>1, EligibleClears DEF AttemptInv
  <2>3. CASE e = c /\ x # c
    <3>1. x \in Rows(calls, d, k)
      BY <1>a, <2>3 DEF Rows
    <3>2. t >= calls[x].created + ReconsiderAge
      BY <1>b, <3>1, EligibleClears DEF AttemptInv
    <3> QED
      BY <1>a, <1>c, <2>3, <3>2
  <2>4. CASE e = c /\ x = c
    BY <1>a, <1>c, <2>4
  <2> QED
    BY <2>1, <2>2, <2>3, <2>4
<1>3. FewRows(calls')
  <2> SUFFICES ASSUME NEW n \in Nat, NEW j \in PlanKeys \cup BandKeys
               PROVE  Cardinality(Rows(calls', n, j)) <= MaxAttempts
    BY DEF FewRows
  <2>1. CASE n = d /\ j = k
    <3>1. Rows(calls', n, j) = Rows(calls, d, k) \cup {c} /\ c \notin Rows(calls, d, k)
      BY <1>a, <2>1 DEF Rows
    <3>2. Cardinality(Rows(calls', n, j)) = Cardinality(Rows(calls, d, k)) + 1
      BY <3>1, RowsFinite, FS_AddElement
    <3>3. Attempts(d, k) = Rows(calls, d, k)
      BY DEF Attempts, OfDay, Used, Rows
    <3>4. Rows(calls, d, k) # {} => Cardinality(Rows(calls, d, k)) < MaxAttempts
      BY <1>b, <3>3 DEF Eligible
    <3>5. Rows(calls, d, k) = {} => Cardinality(Rows(calls, d, k)) = 0
      BY FS_EmptySet
    <3> QED
      BY <3>2, <3>4, <3>5, RowsFinite, CallAssumption
  <2>2. CASE ~(n = d /\ j = k)
    <3>1. Rows(calls', n, j) = Rows(calls, n, j)
      BY <1>a, <2>2 DEF Rows
    <3> QED
      BY <3>1 DEF AttemptInv, FewRows
  <2> QED
    BY <2>1, <2>2
<1> QED
  BY <1>1, <1>2, <1>3 DEF AttemptInv

LEMMA AttemptInit == Init => AttemptInv
<1> SUFFICES ASSUME Init PROVE AttemptInv
  OBVIOUS
<1>1. \A c \in Calls : calls[c].st = "unused"
  BY DEF Init, UnusedRow
<1>2. \A d, k : Rows(calls, d, k) = {}
  BY <1>1 DEF Rows
<1> QED
  BY <1>1, <1>2, FS_EmptySet, CallAssumption
     DEF AttemptInv, SlotsDistinct, OlderResolved, FewRows

LEMMA AttemptStep == TypeOK /\ TypeOK' /\ AttemptInv /\ [Next]_callVars => AttemptInv'
<1> SUFFICES ASSUME TypeOK, TypeOK', AttemptInv, [Next]_callVars PROVE AttemptInv'
  OBVIOUS
<1>a. calls \in [Calls -> CallRow]
  BY DEF TypeOK
<1>1. ASSUME NEW c \in Calls, Reserve(c) PROVE AttemptInv'
  <2>1. PICK t \in Time, k \in PlanKeys \cup BandKeys, seen \in Time :
          ReserveCall(c, DayOf[t], k, seen, t)
    BY <1>1 DEF Reserve, Reads
  <2> QED
    BY <2>1, Numbers, AttemptReserved
<1>2. ASSUME NEW c \in Calls, Settle(c) PROVE AttemptInv'
  <2>1. ASSUME NEW a \in Actions, NEW usage \in 0 .. Reservation, SettleCompleted(c, a, usage)
        PROVE  AttemptInv'
    BY <2>1, <1>a, AttemptsUndisturbed DEF SettleCompleted, CallRow, InFlight
  <2>2. ASSUME NEW dispatched \in BOOLEAN, SettleFailed(c, dispatched)
        PROVE  AttemptInv'
    BY <2>2, <1>a, AttemptsUndisturbed DEF SettleFailed, CallRow, InFlight
  <2> QED
    BY <1>2, <2>1, <2>2 DEF Settle
<1>3. ASSUME NEW c \in Calls, Apply(c) PROVE AttemptInv'
  BY <1>3, <1>a, AttemptsUndisturbed DEF Apply, ApplyCall, CallRow, InFlight
<1>4. ASSUME NEW c \in Calls, Reject(c) PROVE AttemptInv'
  BY <1>4, <1>a, AttemptsUndisturbed DEF Reject, RejectCall, CallRow, InFlight
<1>5. CASE Reconcile
  BY <1>5, <1>a, AttemptsUndisturbed DEF Reconcile, Interrupt, Abandoned, CallRow, InFlight
<1>6. CASE UNCHANGED calls
  BY <1>6, AttemptsUndisturbed
<1> QED
  BY <1>1, <1>2, <1>3, <1>4, <1>5, <1>6 DEF Next, Tick, callVars

\* AttemptsKept: the event is reconsidered under the reservation lock, so
\* workers that race through one scan never have it in flight together, never
\* pay for it within ReconsiderAge of an earlier attempt, and never more than
\* MaxAttempts times a day, however late their clocks were read.
THEOREM EventsNotOverpaid == Spec => []AttemptsKept
<1>1. TypeOK /\ AttemptInv => AttemptsKept
  <2> SUFFICES ASSUME TypeOK, AttemptInv PROVE AttemptsKept
    OBVIOUS
  <2>1. AttemptsBounded
    <3>1. Days \subseteq Nat
      BY Numbers DEF Days
    <3>2. \A d, k : Attempts(d, k) = Rows(calls, d, k)
      BY DEF Attempts, OfDay, Used, Rows
    <3> QED
      BY <3>1, <3>2 DEF AttemptsBounded, AttemptInv, FewRows
  <2>2. ASSUME NEW c \in Used, NEW e \in Used, c # e, calls[c].day = calls[e].day,
               calls[c].key = calls[e].key
        PROVE  /\ ~(calls[c].st \in InFlight /\ calls[e].st \in InFlight)
               /\ \/ calls[c].created >= calls[e].created + ReconsiderAge
                  \/ calls[e].created >= calls[c].created + ReconsiderAge
    <3>1. calls[c].created # calls[e].created
      BY <2>2 DEF AttemptInv, SlotsDistinct, Used
    <3>2. calls[c].created \in Nat /\ calls[e].created \in Nat
      BY Numbers DEF TypeOK, Used
    <3>3. CASE calls[c].created < calls[e].created
      BY <2>2, <3>3 DEF AttemptInv, OlderResolved, Used
    <3>4. CASE calls[e].created < calls[c].created
      BY <2>2, <3>4 DEF AttemptInv, OlderResolved, Used
    <3> QED
      BY <3>1, <3>2, <3>3, <3>4
  <2> QED
    BY <2>1, <2>2 DEF AttemptsKept, OneInFlightPerKey, RetriesAreSpaced
<1> QED
  BY <1>1, AttemptInit, AttemptStep, TypeCorrect, PTL DEF Spec
=============================================================================
