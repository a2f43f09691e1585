------------------------- MODULE BankNiftyDeskProofs -------------------------
(***************************************************************************)
(* What is proved of the desk for any number of workers and calls, any     *)
(* limits, moves and expiries, any clock and calendar: that its books are  *)
(* well formed and balance, that a decision is applied exactly when its    *)
(* position was opened, that a session's state agrees with its position,   *)
(* that the desk implements the mandate of PaperMandate and the ledger of  *)
(* AiCalls, that a sale uses a quote of its own position, and that the     *)
(* trades of a day keep to its window, cap and cooldown; and of the tape   *)
(* beside it, that what a day leaves can be studied.                       *)
(***************************************************************************)
EXTENDS BankNiftyDesk, MarketTape, AiCallsProofs, WellFoundedInduction

\* The amounts of the desk are natural numbers.
LEMMA DeskNumbers ==
  /\ MaxLots \in Nat /\ MaxHold \in Nat /\ EntryCap \in Nat /\ Cooldown \in Nat
  /\ Moves \subseteq Int /\ Expiries \subseteq Nat
  /\ NoCall \notin Calls /\ Supervisor \in Procs /\ Workers \subseteq Procs
BY DeskAssumption DEF Procs

LEMMA ReadsAreTicks == Reads \subseteq Time /\ \A p \in Procs : ReadsOf(p) \subseteq Time
BY DEF Reads, ReadsOf

LEMMA NoSessionType == NoSession \in SessionRow
<1>1. \E l \in Limits : TRUE
  BY DeskAssumption
<1> QED
  BY <1>1 DEF NoSession, SessionRow

LEMMA IdleType == Idle \in Memory /\ Idle.since = 0 /\ Idle.pc = "idle"
<1>1. 0 \in Time
  BY Numbers DEF Time
<1> QED
  BY <1>1 DEF Idle, Memory

LEMMA DeskInitType == DeskInit => DeskTypeOK
<1> SUFFICES ASSUME DeskInit PROVE DeskTypeOK
    OBVIOUS
<1>1. TypeOK
  BY InitType DEF DeskInit, Init
<1>2. BooksOK
  <2>1. session \in SessionRow /\ session.st = "none"
    BY NoSessionType DEF DeskInit, NoSession
  <2>2. position = NoPosition /\ overtaken = {}
    BY DEF DeskInit
  <2>3. learned \in [Days -> [learnt : BOOLEAN, realized : Int, entries : Nat]]
    BY DEF DeskInit, NoLesson
  <2>4. fills \in [Calls -> FillRow]
    BY DEF DeskInit, NoFill, FillRow
  <2> QED
    BY <2>1, <2>2, <2>3, <2>4 DEF BooksOK
<1>3. MemoryOK
  BY IdleType DEF DeskInit, MemoryOK
<1>4. 0 \in Time
  BY Numbers DEF Time
<1> QED
  BY <1>1, <1>2, <1>3, <1>4 DEF DeskInit, DeskTypeOK
-----------------------------------------------------------------------------
\* A process moves on to a memory of its kind.
LEMMA StepType ==
  ASSUME MemoryOK, NEW p \in Procs, NEW r \in Memory, Step(p, r), now' = now,
         r.since <= now, r.pc \in {"deciding", "settled", "rejecting"} => r.call \in Calls
  PROVE  MemoryOK'
BY DEF MemoryOK, Step

LEMMA StepIdle ==
  ASSUME MemoryOK, TypeOK, NEW p \in Procs, Step(p, Idle), now' = now
  PROVE  MemoryOK'
<1>1. Idle.since <= now
  BY IdleType, Numbers DEF TypeOK, Time
<1> QED
  BY <1>1, IdleType, StepType

\* finalize_learning() leaves the learning record well formed.
LEMMA FinalizeType ==
  ASSUME BooksOK, NEW s \in SessionRow, s.st # "none" => s.day \in Days, NEW flat \in BOOLEAN
  PROVE  Finalize(s, flat) \in [Days -> [learnt : BOOLEAN, realized : Int, entries : Nat]]
BY DEF BooksOK, Finalize, SessionRow

\* Nothing of MemoryOK depends on anything but the processes and the clock.
LEMMA MemoryKept ==
  ASSUME MemoryOK, UNCHANGED <<now, proc>>
  PROVE  MemoryOK'
BY DEF MemoryOK

LEMMA LedgerSame ==
  ASSUME TypeOK, UNCHANGED <<now, calls>>
  PROVE  TypeOK'
BY DEF TypeOK

LEMMA BooksSame ==
  ASSUME BooksOK, UNCHANGED <<session, position, learned, fills, overtaken>>
  PROVE  BooksOK'
BY DEF BooksOK

LEMMA ResumeType ==
  ASSUME DeskTypeOK, NEW l \in Limits, Resume(l)
  PROVE  DeskTypeOK'
<1>1. TypeOK' /\ MemoryOK'
  BY LedgerSame, MemoryKept DEF Resume, DeskTypeOK
<1>2. BooksOK'
  <2>1. session' \in SessionRow /\ session'.st # "none" /\ session'.day \in Days
    BY DEF DeskTypeOK, BooksOK, Resume, SessionRow
  <2>2. learned' \in [Days -> [learnt : BOOLEAN, realized : Int, entries : Nat]]
    BY FinalizeType DEF DeskTypeOK, BooksOK, Resume, Held
  <2> QED
    BY <2>1, <2>2 DEF DeskTypeOK, BooksOK, Resume
<1> QED
  BY <1>1, <1>2 DEF DeskTypeOK, Resume

LEMMA ApproveType ==
  ASSUME DeskTypeOK, NEW l \in Limits, Approve(l)
  PROVE  DeskTypeOK'
<1>1. TypeOK' /\ MemoryOK'
  BY LedgerSame, MemoryKept DEF Approve, DeskTypeOK
<1>2. BooksOK'
  <2>1. PICK t \in Time :
          session' = [NoSession EXCEPT !.day = DayOf[t], !.st = "running", !.limits = l]
    BY ReadsAreTicks DEF Approve
  <2>2. DayOf[t] \in Nat /\ DayOf[t] \in Days
    BY Numbers DEF Days
  <2>a. NoSession \in SessionRow
    BY NoSessionType
  <2>b. session' \in SessionRow
    BY <2>1, <2>2, <2>a DEF SessionRow
  <2>c. session'.day = DayOf[t]
    BY <2>1, <2>a DEF SessionRow
  <2>3. session' \in SessionRow /\ session'.day \in Days
    BY <2>2, <2>b, <2>c
  <2>4. learned' \in [Days -> [learnt : BOOLEAN, realized : Int, entries : Nat]]
    BY FinalizeType DEF DeskTypeOK, BooksOK, Approve, Held
  <2> QED
    BY <2>3, <2>4 DEF DeskTypeOK, BooksOK, Approve
<1> QED
  BY <1>1, <1>2 DEF DeskTypeOK, Approve

LEMMA StopType ==
  ASSUME DeskTypeOK, Stop
  PROVE  DeskTypeOK'
<1>1. TypeOK' /\ MemoryOK'
  BY LedgerSame, MemoryKept DEF Stop, DeskTypeOK
<1>2. BooksOK'
  <2>1. session' \in SessionRow /\ session'.day \in Days
    BY DEF DeskTypeOK, BooksOK, Stop, SessionRow, Active
  <2>2. learned' \in [Days -> [learnt : BOOLEAN, realized : Int, entries : Nat]]
    BY <2>1, FinalizeType DEF DeskTypeOK, Stop, Held
  <2> QED
    BY <2>1, <2>2 DEF DeskTypeOK, BooksOK, Stop
<1> QED
  BY <1>1, <1>2 DEF DeskTypeOK, Stop

LEMMA SettleExpiredType ==
  ASSUME DeskTypeOK, NEW c \in Calls, SettleExpired(c), session.st # "none"
  PROVE  DeskTypeOK'
<1>1. TypeOK' /\ MemoryOK'
  BY LedgerSame, MemoryKept DEF SettleExpired, DeskTypeOK
<1>2. BooksOK'
  <2>1. PICK m \in Moves :
          session' = [session EXCEPT !.st = "completed",
                                     !.realized = session.realized + position.lots * m]
    BY DEF SettleExpired
  <2>2. position \in PositionRow
    BY DeskNumbers DEF DeskTypeOK, BooksOK, SettleExpired, NoPosition
  <2>3. position.lots \in Nat /\ m \in Int
    BY <2>2, DeskNumbers DEF PositionRow
  <2> DEFINE total == session.realized + position.lots * m
  <2>4. total \in Int
    BY <2>3 DEF DeskTypeOK, BooksOK, SessionRow
  <2>5. session' \in SessionRow /\ session'.day \in Days
    <3>1. session' = [session EXCEPT !.st = "completed", !.realized = total]
      BY <2>1
    <3> HIDE DEF total
    <3> QED
      BY <2>4, <3>1 DEF DeskTypeOK, BooksOK, SessionRow
  <2>6. learned' \in [Days -> [learnt : BOOLEAN, realized : Int, entries : Nat]]
    BY <2>5, FinalizeType DEF DeskTypeOK, SettleExpired
  <2>7. fills' \in [Calls -> FillRow]
    BY <2>3 DEF DeskTypeOK, BooksOK, SettleExpired, FillRow
  <2> QED
    BY <2>5, <2>6, <2>7 DEF DeskTypeOK, BooksOK, SettleExpired
<1> QED
  BY <1>1, <1>2 DEF DeskTypeOK, SettleExpired
-----------------------------------------------------------------------------
LEMMA RunStartType ==
  ASSUME DeskTypeOK, NEW w \in Workers, RunStart(w)
  PROVE  DeskTypeOK'
<1>1. TypeOK'
  <2>1. PICK t \in Time : Interrupt(t)
    BY ReadsAreTicks DEF RunStart
  <2>2. now' \in Time
    BY DEF RunStart, DeskTypeOK, TypeOK
  <2> QED
    BY <2>1, <2>2, InterruptType DEF DeskTypeOK
<1>2. MemoryOK'
  <2> DEFINE r == [Idle EXCEPT !.pc = "starting", !.en = enabled, !.since = now]
  <2>1. r \in Memory /\ r.since = now /\ r.pc = "starting"
    BY IdleType DEF DeskTypeOK, TypeOK, Memory
  <2>2. Step(w, r) /\ now' = now /\ w \in Procs
    BY DeskNumbers DEF RunStart
  <2>3. now \in Nat
    BY Numbers DEF DeskTypeOK, TypeOK
  <2> HIDE DEF r
  <2> QED
    BY <2>1, <2>2, <2>3, StepType DEF DeskTypeOK
<1>3. BooksOK'
  BY BooksSame DEF RunStart, DeskTypeOK
<1> QED
  BY <1>1, <1>2, <1>3 DEF DeskTypeOK, RunStart

LEMMA SweepCallsType ==
  ASSUME DeskTypeOK, SweepCalls
  PROVE  DeskTypeOK'
<1>1. TypeOK'
  <2>1. PICK t \in Time : Interrupt(t)
    BY ReadsAreTicks DEF SweepCalls, Reconcile
  <2>2. now' \in Time
    BY DEF SweepCalls, Reconcile, DeskTypeOK, TypeOK
  <2> QED
    BY <2>1, <2>2, InterruptType DEF DeskTypeOK
<1>2. MemoryOK' /\ BooksOK'
  BY MemoryKept, BooksSame DEF SweepCalls, Reconcile, DeskTypeOK
<1> QED
  BY <1>1, <1>2 DEF DeskTypeOK, SweepCalls

LEMMA MonitorReadType ==
  ASSUME DeskTypeOK, NEW p \in Procs, MonitorRead(p)
  PROVE  DeskTypeOK'
<1>1. TypeOK' /\ BooksOK'
  BY LedgerSame, BooksSame DEF MonitorRead, DeskTypeOK
<1>2. MemoryOK'
  <2> DEFINE on == IF p = Supervisor THEN enabled ELSE proc[p].en
             r == [Idle EXCEPT !.pc = "quoting", !.since = now, !.seen = position.id,
                               !.tape = trade, !.en = on]
  <2>1. position.id \in Calls \cup {NoCall}
    BY DEF DeskTypeOK, BooksOK, PositionRow, NoPosition
  <2>2. on \in BOOLEAN
    BY DEF DeskTypeOK, MemoryOK, Memory
  <2>3. r \in Memory /\ r.since = now /\ r.pc = "quoting"
    BY <2>1, <2>2, IdleType DEF DeskTypeOK, TypeOK, Memory
  <2>4. Step(p, r) /\ now' = now
    BY DEF MonitorRead
  <2>5. now \in Nat
    BY Numbers DEF DeskTypeOK, TypeOK
  <2> HIDE DEF r
  <2> QED
    BY <2>3, <2>4, <2>5, StepType DEF DeskTypeOK
<1> QED
  BY <1>1, <1>2 DEF DeskTypeOK, MonitorRead

\* A sale takes at most the lots held; it clears the position when it takes all.
LEMMA SaleBounds ==
  ASSUME BooksOK, NEW t, NEW stamp, NEW depth \in 0 .. MaxLots
  PROVE  /\ position.lots \in Nat
         /\ Sellable(t, stamp, depth) \in 0 .. position.lots
<1>1. position.lots \in Nat
  BY DeskNumbers DEF BooksOK, PositionRow, NoPosition
<1> QED
  BY <1>1, DeskNumbers DEF Sellable

LEMMA AfterSaleType ==
  ASSUME BooksOK, NEW t, NEW stamp \in Time \cup {Never}, NEW sold \in 0 .. position.lots
  PROVE  /\ AfterSale(t, stamp, sold) \in PositionRow \cup {NoPosition}
         /\ sold = position.lots => AfterSale(t, stamp, sold) = NoPosition
         /\ sold # position.lots =>
              /\ AfterSale(t, stamp, sold).id = position.id
              /\ AfterSale(t, stamp, sold).lots = position.lots - sold
<1>1. position.lots \in Nat
  BY DeskNumbers DEF BooksOK, PositionRow, NoPosition
<1>2. CASE position = NoPosition
  BY <1>2 DEF AfterSale, NoPosition
<1>3. CASE position \in PositionRow
  <2>1. position.lots \in 1 .. MaxLots
    BY <1>3 DEF PositionRow
  <2>2. CASE sold = 0
    BY <1>3, <2>1, <2>2, DeskNumbers DEF AfterSale
  <2>3. CASE sold = position.lots
    BY <2>1, <2>3, DeskNumbers DEF AfterSale
  <2>4. CASE sold # 0 /\ sold # position.lots
    <3> DEFINE r == [position EXCEPT !.lots = @ - sold, !.pending = TRUE, !.lastQuote = stamp]
    <3>1. AfterSale(t, stamp, sold) = r
      BY <2>4 DEF AfterSale
    <3>2. position.lots - sold \in 1 .. MaxLots
      BY <2>1, <2>4, DeskNumbers
    <3>3. r \in PositionRow /\ r.id = position.id /\ r.lots = position.lots - sold
      BY <1>3, <3>2 DEF PositionRow
    <3> QED
      BY <2>4, <3>1, <3>3
  <2> QED
    BY <2>2, <2>3, <2>4
<1> QED
  BY <1>2, <1>3 DEF BooksOK

LEMMA SaleType ==
  ASSUME NEW f \in FillRow, NEW t \in Time, NEW stamp \in Time \cup {Never}, NEW sold \in Nat
  PROVE  /\ Sale(f, t, stamp, sold) \in FillRow
         /\ Sale(f, t, stamp, sold).sold = f.sold + sold
         /\ Sale(f, t, stamp, sold).bought = f.bought
         /\ Sale(f, t, stamp, sold).quotes = f.quotes \cup {stamp}
<1> DEFINE q == f.quotes \cup {stamp}
           o == IF sold = position.lots THEN t ELSE f.out
           n == f.sold + sold
<1>1. q \in SUBSET (Time \cup {Never}) /\ o \in Time \cup {Never} /\ n \in Nat
  BY DEF FillRow
<1>2. Sale(f, t, stamp, sold) = [f EXCEPT !.sold = n, !.quotes = q, !.out = o]
  BY DEF Sale
<1> HIDE DEF q, o, n
<1>3. /\ [f EXCEPT !.sold = n, !.quotes = q, !.out = o] \in FillRow
      /\ [f EXCEPT !.sold = n, !.quotes = q, !.out = o].sold = n
      /\ [f EXCEPT !.sold = n, !.quotes = q, !.out = o].bought = f.bought
      /\ [f EXCEPT !.sold = n, !.quotes = q, !.out = o].quotes = q
  BY <1>1 DEF FillRow
<1> QED
  BY <1>2, <1>3 DEF n, q

LEMMA RecordType ==
  ASSUME BooksOK, NEW t \in Time, NEW stamp \in Time \cup {Never},
         NEW sold \in 0 .. position.lots
  PROVE  Record(t, stamp, sold) \in [Calls -> FillRow]
<1>1. CASE sold = 0
  BY <1>1 DEF Record, BooksOK
<1>2. CASE sold # 0
  <2>1. position \in PositionRow
    BY <1>2 DEF BooksOK, NoPosition
  <2>2. position.id \in Calls /\ position.lots \in Nat
    BY <2>1, DeskNumbers DEF PositionRow
  <2>3. sold \in Nat
    BY <2>2
  <2>4. fills[position.id] \in FillRow
    BY <2>2 DEF BooksOK
  <2>5. Sale(fills[position.id], t, stamp, sold) \in FillRow
    BY <2>3, <2>4, SaleType
  <2> QED
    BY <1>2, <2>2, <2>5 DEF Record, BooksOK
<1> QED
  BY <1>1, <1>2

\* What a monitor writes: sold lots leave the position, and the session it found
\* running or stopping is stopping, completed when flat, or still running.
LEMMA CommitFacts ==
  ASSUME DeskTypeOK, NEW p \in Procs, MonitorCommit(p)
  PROVE  \E t \in Time, stamp \in Time \cup {Never}, sold \in 0 .. position.lots,
            st \in {"running", "stopping"}, total \in Int, exit \in Time \cup {Never} :
           /\ session.st = "stopping" => st = "stopping"
           /\ session' = [session EXCEPT
                !.st = IF sold = position.lots /\ st = "stopping" THEN "completed" ELSE st,
                !.realized = total, !.lastExit = exit]
           /\ position' = AfterSale(t, stamp, sold)
           /\ fills' = Record(t, stamp, sold)
           /\ learned' = Finalize(session', sold = position.lots)
<1>1. PICK t \in ReadsOf(p), stamp \in {proc[p].tape, trade}, move \in Moves,
           depth \in 0 .. MaxLots, invalid \in BOOLEAN :
        LET st == IF WindingDown(p, t) THEN "stopping" ELSE session.st
            sold == IF Valued(p, t, stamp) /\ Trigger(st, t, move, invalid)
                    THEN Sellable(t, stamp, depth) ELSE 0
            flat == sold = position.lots
        IN /\ session' = [session EXCEPT
                !.st = IF flat /\ st = "stopping" THEN "completed" ELSE st,
                !.realized = @ + sold * move,
                !.lastExit = IF Held /\ flat THEN t ELSE @]
           /\ position' = AfterSale(t, stamp, sold)
           /\ fills' = Record(t, stamp, sold)
           /\ learned' = Finalize(session', flat)
  BY DEF MonitorCommit
<1> DEFINE st == IF WindingDown(p, t) THEN "stopping" ELSE session.st
           sold == IF Valued(p, t, stamp) /\ Trigger(st, t, move, invalid)
                   THEN Sellable(t, stamp, depth) ELSE 0
           total == session.realized + sold * move
           exit == IF Held /\ sold = position.lots THEN t ELSE session.lastExit
<1>2. sold \in 0 .. position.lots /\ position.lots \in Nat
  BY SaleBounds DEF DeskTypeOK
<1>3. t \in Time /\ stamp \in Time \cup {Never} /\ move \in Int
  BY ReadsAreTicks, DeskNumbers DEF DeskTypeOK, MemoryOK, Memory
<1>4. st \in {"running", "stopping"} /\ (session.st = "stopping" => st = "stopping")
  BY DEF MonitorCommit, Active
<1>5. session.realized \in Int /\ session.lastExit \in Time \cup {Never}
  BY DEF DeskTypeOK, BooksOK, SessionRow
<1>6. sold * move \in Int
  <2>1. sold \in Int
    BY <1>2
  <2> HIDE DEF sold
  <2> QED
    BY <1>3, <2>1
<1>7. total \in Int /\ exit \in Time \cup {Never}
  BY <1>3, <1>5, <1>6
<1>8. /\ session' = [session EXCEPT
           !.st = IF sold = position.lots /\ st = "stopping" THEN "completed" ELSE st,
           !.realized = total, !.lastExit = exit]
      /\ position' = AfterSale(t, stamp, sold)
      /\ fills' = Record(t, stamp, sold)
      /\ learned' = Finalize(session', sold = position.lots)
  BY <1>1
<1> HIDE DEF sold, st, total, exit
<1> QED
  BY <1>2, <1>3, <1>4, <1>7, <1>8

LEMMA MonitorCommitType ==
  ASSUME DeskTypeOK, NEW p \in Procs, MonitorCommit(p)
  PROVE  DeskTypeOK'
<1>1. TypeOK'
  BY LedgerSame DEF MonitorCommit, DeskTypeOK
<1>2. PICK t \in Time, stamp \in Time \cup {Never}, sold \in 0 .. position.lots,
           st \in {"running", "stopping"}, total \in Int, exit \in Time \cup {Never} :
        /\ session.st = "stopping" => st = "stopping"
        /\ session' = [session EXCEPT
             !.st = IF sold = position.lots /\ st = "stopping" THEN "completed" ELSE st,
             !.realized = total, !.lastExit = exit]
        /\ position' = AfterSale(t, stamp, sold)
        /\ fills' = Record(t, stamp, sold)
        /\ learned' = Finalize(session', sold = position.lots)
  BY CommitFacts
<1>3. BooksOK'
  <2>1. session \in SessionRow /\ session.day \in Days
    BY DEF DeskTypeOK, BooksOK, MonitorCommit, Active
  <2>2. session' \in SessionRow /\ session'.day \in Days
    <3> DEFINE after == IF sold = position.lots /\ st = "stopping" THEN "completed" ELSE st
    <3>1. session' = [session EXCEPT !.st = after, !.realized = total, !.lastExit = exit]
      BY <1>2
    <3>2. after \in {"running", "stopping", "completed"}
      OBVIOUS
    <3> HIDE DEF after
    <3> QED
      BY <2>1, <3>1, <3>2 DEF SessionRow
  <2>3. learned' \in [Days -> [learnt : BOOLEAN, realized : Int, entries : Nat]]
    BY <1>2, <2>2, FinalizeType DEF DeskTypeOK
  <2>4. position' \in PositionRow \cup {NoPosition}
    BY <1>2, AfterSaleType DEF DeskTypeOK
  <2>5. fills' \in [Calls -> FillRow]
    BY <1>2, RecordType DEF DeskTypeOK
  <2>6. overtaken' \subseteq Calls
    BY DEF DeskTypeOK, BooksOK, MonitorCommit
  <2> QED
    BY <2>2, <2>3, <2>4, <2>5, <2>6 DEF BooksOK
<1>4. MemoryOK'
  <2> DEFINE r == [Idle EXCEPT !.pc = "monitored", !.en = TRUE, !.since = now, !.day = session.day]
  <2>1. now \in Time /\ now \in Nat /\ session.day \in Nat
    BY Numbers DEF DeskTypeOK, TypeOK, BooksOK, SessionRow
  <2>2. r \in Memory /\ r.since = now /\ r.pc = "monitored"
    BY <2>1, IdleType DEF Memory
  <2>3. (Step(p, r) \/ Step(p, Idle)) /\ now' = now
    BY DEF MonitorCommit
  <2> HIDE DEF r
  <2>4. CASE Step(p, r)
    BY <2>1, <2>2, <2>3, <2>4, StepType DEF DeskTypeOK
  <2>5. CASE Step(p, Idle)
    BY <2>3, <2>5, StepIdle DEF DeskTypeOK
  <2> QED
    BY <2>3, <2>4, <2>5
<1> QED
  BY <1>1, <1>3, <1>4 DEF DeskTypeOK, MonitorCommit

\* Steps that end a run and touch nothing else.
LEMMA EndsRunType ==
  ASSUME DeskTypeOK, NEW p \in Procs, Step(p, Idle),
         UNCHANGED <<now, calls, session, position, learned, fills, overtaken, halted, enabled, trade>>
  PROVE  DeskTypeOK'
BY LedgerSame, BooksSame, StepIdle DEF DeskTypeOK
-----------------------------------------------------------------------------
LEMMA ScanType ==
  ASSUME DeskTypeOK, NEW w \in Workers, Scan(w)
  PROVE  DeskTypeOK'
<1>1. TypeOK' /\ BooksOK'
  BY LedgerSame, BooksSame DEF Scan, DeskTypeOK
<1>2. MemoryOK'
  <2>1. PICK k \in PlanKeys \cup BandKeys, spot \in Time :
          Step(w, [proc[w] EXCEPT !.pc = "scanned", !.since = now, !.key = k, !.spot = spot])
    BY DEF Scan, EventKeys
  <2> DEFINE r == [proc[w] EXCEPT !.pc = "scanned", !.since = now, !.key = k, !.spot = spot]
  <2>2. w \in Procs /\ proc[w] \in Memory /\ now \in Time /\ now \in Nat
    BY DeskNumbers, Numbers DEF DeskTypeOK, TypeOK, MemoryOK
  <2>3. r \in Memory /\ r.since = now /\ r.pc = "scanned"
    BY <2>2 DEF Memory
  <2>4. Step(w, r) /\ now' = now
    BY <2>1 DEF Scan, EventKeys
  <2> HIDE DEF r
  <2> QED
    BY <2>2, <2>3, <2>4, StepType DEF DeskTypeOK
<1> QED
  BY <1>1, <1>2 DEF DeskTypeOK, Scan

LEMMA ReserveForType ==
  ASSUME DeskTypeOK, NEW w \in Workers, ReserveFor(w)
  PROVE  DeskTypeOK'
<1>1. PICK t \in Time, c \in Calls :
        /\ ReserveCall(c, session.day, proc[w].key, proc[w].spot, t)
        /\ Step(w, [proc[w] EXCEPT !.pc = "deciding", !.since = now, !.call = c])
  BY ReadsAreTicks, DeskNumbers DEF ReserveFor
<1>2. w \in Procs /\ proc[w] \in Memory /\ now \in Time /\ now \in Nat /\ now' = now
  BY DeskNumbers, Numbers DEF DeskTypeOK, TypeOK, MemoryOK, ReserveFor
<1>3. TypeOK'
  <2>1. session.day \in Nat /\ proc[w].spot \in Nat
        /\ proc[w].key \in PlanKeys \cup BandKeys \cup {Undecided}
    BY <1>2, Numbers DEF DeskTypeOK, BooksOK, SessionRow, Memory, Time
  <2> QED
    BY <1>1, <1>2, <2>1, ReserveType DEF DeskTypeOK
<1>4. MemoryOK'
  <2> DEFINE r == [proc[w] EXCEPT !.pc = "deciding", !.since = now, !.call = c]
  <2>1. r \in Memory /\ r.since = now /\ r.call = c
    BY <1>2 DEF Memory
  <2>2. Step(w, r)
    BY <1>1
  <2> HIDE DEF r
  <2> QED
    BY <1>2, <2>1, <2>2, StepType DEF DeskTypeOK
<1>5. BooksOK'
  BY BooksSame DEF ReserveFor, DeskTypeOK
<1> QED
  BY <1>3, <1>4, <1>5 DEF DeskTypeOK, ReserveFor

\* Steps of a worker that keep its call and move its program counter on.
LEMMA MoveOnType ==
  ASSUME MemoryOK, TypeOK, NEW w \in Workers, NEW next \in {"settled", "rejecting"},
         proc[w].pc \in {"deciding", "settled", "rejecting"},
         Step(w, [proc[w] EXCEPT !.pc = next, !.since = now]), now' = now
  PROVE  MemoryOK'
<1> DEFINE r == [proc[w] EXCEPT !.pc = next, !.since = now]
<1>1. w \in Procs /\ proc[w] \in Memory /\ proc[w].call \in Calls /\ now \in Time /\ now \in Nat
  BY DeskNumbers, Numbers DEF MemoryOK, TypeOK
<1>2. r \in Memory /\ r.since = now /\ r.call = proc[w].call
  BY <1>1 DEF Memory
<1>3. Step(w, r)
  OBVIOUS
<1> HIDE DEF r
<1> QED
  BY <1>1, <1>2, <1>3, StepType

LEMMA SettleForType ==
  ASSUME DeskTypeOK, NEW w \in Workers, SettleFor(w)
  PROVE  DeskTypeOK'
<1>1. proc[w].call \in Calls /\ now' \in Time /\ now' = now
  BY DeskNumbers DEF DeskTypeOK, TypeOK, MemoryOK, SettleFor
<1>2. TypeOK'
  BY <1>1, SettleCompletedType, SettleFailedType DEF SettleFor, DeskTypeOK
<1>3. MemoryOK'
  BY <1>1, MoveOnType DEF SettleFor, DeskTypeOK
<1>4. BooksOK'
  BY BooksSame DEF SettleFor, DeskTypeOK
<1> QED
  BY <1>2, <1>3, <1>4 DEF DeskTypeOK, SettleFor

LEMMA ApplyAdviceType ==
  ASSUME DeskTypeOK, NEW w \in Workers, ApplyAdvice(w)
  PROVE  DeskTypeOK'
<1>1. w \in Procs /\ proc[w].call \in Calls /\ now' \in Time /\ now' = now
  BY DeskNumbers DEF DeskTypeOK, TypeOK, MemoryOK, ApplyAdvice
<1>2. TypeOK' /\ MemoryOK' /\ BooksOK'
  BY <1>1, ApplyType, StepIdle, BooksSame DEF ApplyAdvice, DeskTypeOK
<1> QED
  BY <1>2 DEF DeskTypeOK, ApplyAdvice

LEMMA RejectForType ==
  ASSUME DeskTypeOK, NEW w \in Workers, RejectFor(w)
  PROVE  DeskTypeOK'
<1>1. w \in Procs /\ proc[w].call \in Calls /\ now' \in Time /\ now' = now
  BY DeskNumbers DEF DeskTypeOK, TypeOK, MemoryOK, RejectFor
<1>2. TypeOK' /\ MemoryOK' /\ BooksOK'
  BY <1>1, RejectType, StepIdle, BooksSame DEF RejectFor, DeskTypeOK
<1> QED
  BY <1>2 DEF DeskTypeOK, RejectFor

LEMMA ApplyRefusedType ==
  ASSUME DeskTypeOK, NEW w \in Workers, ApplyRefused(w)
  PROVE  DeskTypeOK'
<1>1. TypeOK' /\ MemoryOK' /\ BooksOK'
  BY LedgerSame, MoveOnType, BooksSame DEF ApplyRefused, DeskTypeOK
<1> QED
  BY <1>1 DEF DeskTypeOK, ApplyRefused

\* The entry: its position, its fill record and the counter.
LEMMA EnterFacts ==
  ASSUME DeskTypeOK, NEW w \in Workers, Enter(w)
  PROVE  /\ proc[w].call \in Calls /\ now' = now
         /\ session' = [session EXCEPT !.entries = session.entries + 1]
         /\ \E t \in Time, lots \in 1 .. MaxLots, exp \in Expiries :
              /\ EntryAllowed(w, t)
              /\ position' = [id |-> proc[w].call, lots |-> lots, exp |-> exp, pending |-> FALSE,
                              lastQuote |-> Never, deadline |-> t + MaxHold]
              /\ position' \in PositionRow
              /\ fills' = [fills EXCEPT ![proc[w].call] =
                             [fills[proc[w].call] EXCEPT !.in = t, !.bought = lots]]
<1>1. w \in Procs /\ proc[w].call \in Calls
  BY DeskNumbers DEF DeskTypeOK, MemoryOK, Enter
<1>2. PICK t \in Time, lots \in 1 .. MaxLots, exp \in Expiries :
        /\ EntryAllowed(w, t)
        /\ position' = [NoPosition EXCEPT !.id = proc[w].call, !.lots = lots, !.exp = exp,
                                          !.deadline = t + MaxHold]
        /\ fills' = [fills EXCEPT ![proc[w].call].in = t, ![proc[w].call].bought = lots]
  BY ReadsAreTicks, <1>1 DEF Enter
<1>3. position' = [id |-> proc[w].call, lots |-> lots, exp |-> exp, pending |-> FALSE,
                   lastQuote |-> Never, deadline |-> t + MaxHold]
  BY <1>2 DEF NoPosition
<1>4. t + MaxHold \in Nat
  BY DeskNumbers DEF Time
<1>5. position' \in PositionRow
  BY <1>1, <1>3, <1>4 DEF PositionRow
<1>6. fills' = [fills EXCEPT ![proc[w].call] =
                  [fills[proc[w].call] EXCEPT !.in = t, !.bought = lots]]
  BY <1>1, <1>2 DEF DeskTypeOK, BooksOK
<1>7. session' = [session EXCEPT !.entries = session.entries + 1] /\ now' = now
  BY DEF Enter
<1> QED
  BY <1>1, <1>2, <1>3, <1>5, <1>6, <1>7

LEMMA EnterType ==
  ASSUME DeskTypeOK, NEW w \in Workers, Enter(w)
  PROVE  DeskTypeOK'
<1>1. w \in Procs /\ proc[w].call \in Calls /\ now' \in Time /\ now' = now
  BY DeskNumbers DEF DeskTypeOK, TypeOK, MemoryOK, Enter
<1>2. TypeOK' /\ MemoryOK'
  BY <1>1, ApplyType, StepIdle DEF Enter, DeskTypeOK
<1>3. BooksOK'
  <2>1. session' \in SessionRow /\ session'.st = session.st /\ session'.day = session.day
    <3>1. session' = [session EXCEPT !.entries = session.entries + 1]
      BY EnterFacts
    <3> QED
      BY <3>1 DEF DeskTypeOK, BooksOK, SessionRow
  <2>2. PICK t \in Time, lots \in 1 .. MaxLots :
          /\ position' \in PositionRow
          /\ fills' = [fills EXCEPT ![proc[w].call] =
                         [fills[proc[w].call] EXCEPT !.in = t, !.bought = lots]]
    <3>1. PICK t \in Time, lots \in 1 .. MaxLots, exp \in Expiries :
            /\ EntryAllowed(w, t)
            /\ position' = [id |-> proc[w].call, lots |-> lots, exp |-> exp, pending |-> FALSE,
                            lastQuote |-> Never, deadline |-> t + MaxHold]
            /\ position' \in PositionRow
            /\ fills' = [fills EXCEPT ![proc[w].call] =
                           [fills[proc[w].call] EXCEPT !.in = t, !.bought = lots]]
      BY EnterFacts
    <3> QED
      BY <3>1
  <2> DEFINE r == [fills[proc[w].call] EXCEPT !.in = t, !.bought = lots]
  <2>a. fills[proc[w].call] \in FillRow /\ lots \in Nat
    BY <1>1, DeskNumbers DEF DeskTypeOK, BooksOK
  <2>3. r \in FillRow
    BY <2>a DEF FillRow
  <2>4. fills' = [fills EXCEPT ![proc[w].call] = r]
    BY <2>2
  <2> HIDE DEF r
  <2>5. fills' \in [Calls -> FillRow]
    BY <2>3, <2>4 DEF DeskTypeOK, BooksOK
  <2> QED
    BY <2>1, <2>2, <2>5 DEF DeskTypeOK, BooksOK, Enter
<1> QED
  BY <1>2, <1>3 DEF DeskTypeOK, Enter

\* The operators, the market and the clock.
LEMMA SurroundingsType ==
  ASSUME DeskTypeOK, Halt \/ Toggle \/ Trade
  PROVE  DeskTypeOK'
<1>1. TypeOK' /\ MemoryOK' /\ BooksOK'
  BY LedgerSame, MemoryKept, BooksSame DEF Halt, Toggle, Trade, DeskTypeOK
<1> QED
  BY <1>1 DEF DeskTypeOK, TypeOK, Halt, Toggle, Trade

LEMMA AdvanceType ==
  ASSUME DeskTypeOK, Advance
  PROVE  DeskTypeOK'
<1>1. now \in Nat /\ now' = now + 1 /\ now' \in Time
  BY Numbers DEF DeskTypeOK, TypeOK, Advance, Time
<1>2. TypeOK'
  BY <1>1 DEF DeskTypeOK, TypeOK, Advance
<1>3. MemoryOK'
  BY <1>1 DEF DeskTypeOK, MemoryOK, Memory, Advance, Time
<1>4. BooksOK'
  BY BooksSame DEF Advance, DeskTypeOK
<1> QED
  BY <1>2, <1>3, <1>4 DEF DeskTypeOK, Advance
-----------------------------------------------------------------------------
(***************************************************************************)
(* The inductive invariant.  None of the four is inductive alone: an entry *)
(* balances only because a call that is not yet applied bought nothing,    *)
(* and because a session that lets it in holds nothing.                    *)
(***************************************************************************)
DeskInv == DeskTypeOK /\ PhaseMatchesPosition /\ AppliedIffEntered /\ LotsConserved

LEMMA DeskInitInv == DeskInit => DeskInv
<1> SUFFICES ASSUME DeskInit PROVE DeskInv
  OBVIOUS
<1>1. DeskTypeOK
  BY DeskInitType
<1>2. PhaseMatchesPosition
  BY DEF DeskInit, PhaseMatchesPosition, NoSession, Held, NoPosition
<1>3. AppliedIffEntered
  BY DEF DeskInit, AppliedIffEntered, NoFill, UnusedRow
<1>4. LotsConserved
  BY DeskNumbers DEF DeskInit, LotsConserved, NoFill, NoPosition
<1> QED
  BY <1>1, <1>2, <1>3, <1>4 DEF DeskInv

LEMMA TypeStep == DeskInv /\ [DeskNext]_deskVars => DeskTypeOK'
<1> SUFFICES ASSUME DeskInv, [DeskNext]_deskVars PROVE DeskTypeOK'
  OBVIOUS
<1>0. DeskTypeOK
  BY DEF DeskInv
<1>1. ASSUME NEW l \in Limits, Resume(l) \/ Approve(l) PROVE DeskTypeOK'
  BY <1>0, <1>1, ResumeType, ApproveType
<1>2. CASE Stop
  BY <1>0, <1>2, StopType
<1>3. ASSUME NEW c \in Calls, SettleExpired(c) PROVE DeskTypeOK'
  <2>1. session.st # "none"
    BY <1>3, DeskNumbers DEF DeskInv, PhaseMatchesPosition, SettleExpired, Held
  <2> QED
    BY <1>0, <1>3, <2>1, SettleExpiredType
<1>4. ASSUME NEW p \in Procs, Monitor(p) \/ Crash(p) PROVE DeskTypeOK'
  <2>1. CASE MonitorRead(p)
    BY <1>0, <2>1, MonitorReadType
  <2>2. CASE MonitorCommit(p)
    BY <1>0, <2>2, MonitorCommitType
  <2>3. CASE MonitorNothing(p) \/ Crash(p)
    BY <1>0, <2>3, EndsRunType DEF MonitorNothing, Crash
  <2> QED
    BY <1>4, <2>1, <2>2, <2>3 DEF Monitor
<1>5. ASSUME NEW w \in Workers, Decide(w) PROVE DeskTypeOK'
  <2>0. w \in Procs
    BY DeskNumbers
  <2>1. CASE RunStart(w) \/ Scan(w) \/ ReserveFor(w)
    BY <1>0, <2>1, RunStartType, ScanType, ReserveForType
  <2>2. CASE SettleFor(w) \/ ApplyAdvice(w) \/ Enter(w)
    BY <1>0, <2>2, SettleForType, ApplyAdviceType, EnterType
  <2>3. CASE ApplyRefused(w) \/ RejectFor(w)
    BY <1>0, <2>3, ApplyRefusedType, RejectForType
  <2>4. CASE ScanEnds(w) \/ ReserveRefused(w) \/ ApplyIgnored(w)
    BY <1>0, <2>0, <2>4, EndsRunType DEF ScanEnds, ReserveRefused, ApplyIgnored
  <2> QED
    BY <1>5, <2>1, <2>2, <2>3, <2>4 DEF Decide
<1>6. CASE Halt \/ Toggle \/ Trade
  BY <1>0, <1>6, SurroundingsType
<1>7. CASE Advance
  BY <1>0, <1>7, AdvanceType
<1>8. CASE SweepCalls
  BY <1>0, <1>8, SweepCallsType
<1>9. CASE UNCHANGED deskVars
  <2>1. TypeOK' /\ BooksOK' /\ MemoryOK'
    BY <1>0, <1>9, LedgerSame, BooksSame, MemoryKept DEF deskVars, DeskTypeOK
  <2> QED
    BY <1>0, <1>9, <2>1 DEF deskVars, DeskTypeOK
<1> QED
  BY <1>1, <1>2, <1>3, <1>4, <1>5, <1>6, <1>7, <1>8, <1>9 DEF DeskNext

\* Every step is one that opens a position, one that sells, or one that leaves
\* position and fills alone.
LEMMA PositionSteps ==
  ASSUME [DeskNext]_deskVars
  PROVE  \/ \E w \in Workers : Enter(w)
         \/ \E p \in Procs : MonitorCommit(p)
         \/ \E c \in Calls : SettleExpired(c)
         \/ UNCHANGED <<position, fills>>
BY DEF DeskNext, deskVars, Resume, Approve, Stop, Monitor, MonitorRead, MonitorNothing, Crash,
       Decide, RunStart, Scan, ScanEnds, ReserveFor, ReserveRefused, SettleFor, ApplyIgnored,
       ApplyAdvice, ApplyRefused, RejectFor, SweepCalls, Halt, Toggle, Trade, Advance

\* Every step is one of five that write the session, or leaves it and the
\* position alone.
LEMMA SessionSteps ==
  ASSUME [DeskNext]_deskVars
  PROVE  \/ \E w \in Workers : Enter(w)
         \/ \E p \in Procs : MonitorCommit(p)
         \/ \E c \in Calls : SettleExpired(c)
         \/ \E l \in Limits : Resume(l) \/ Approve(l)
         \/ Stop
         \/ UNCHANGED <<session, position>>
BY DEF DeskNext, deskVars, Monitor, MonitorRead, MonitorNothing, Crash, Decide, RunStart, Scan,
       ScanEnds, ReserveFor, ReserveRefused, SettleFor, ApplyIgnored, ApplyAdvice, ApplyRefused,
       RejectFor, SweepCalls, Halt, Toggle, Trade, Advance

LEMMA PhaseStep == DeskInv /\ [DeskNext]_deskVars => PhaseMatchesPosition'
<1> SUFFICES ASSUME DeskInv, [DeskNext]_deskVars PROVE PhaseMatchesPosition'
  OBVIOUS
<1>0. DeskTypeOK /\ PhaseMatchesPosition
  BY DEF DeskInv
<1>1. ASSUME NEW w \in Workers, Enter(w) PROVE PhaseMatchesPosition'
  <2>1. session' = [session EXCEPT !.entries = session.entries + 1]
    BY <1>0, <1>1, EnterFacts
  <2>2. session'.st = session.st /\ session.st = "running"
    BY <1>0, <1>1, <2>1 DEF Enter, Current, DeskTypeOK, BooksOK, SessionRow
  <2> QED
    BY <2>2 DEF PhaseMatchesPosition
<1>2. ASSUME NEW p \in Procs, MonitorCommit(p) PROVE PhaseMatchesPosition'
  <2>1. PICK t \in Time, stamp \in Time \cup {Never}, sold \in 0 .. position.lots,
             st \in {"running", "stopping"}, total \in Int, exit \in Time \cup {Never} :
          /\ session.st = "stopping" => st = "stopping"
          /\ session' = [session EXCEPT
               !.st = IF sold = position.lots /\ st = "stopping" THEN "completed" ELSE st,
               !.realized = total, !.lastExit = exit]
          /\ position' = AfterSale(t, stamp, sold)
          /\ fills' = Record(t, stamp, sold)
          /\ learned' = Finalize(session', sold = position.lots)
    BY <1>0, <1>2, CommitFacts
  <2>2. session'.st = IF sold = position.lots /\ st = "stopping" THEN "completed" ELSE st
    BY <1>0, <2>1 DEF DeskTypeOK, BooksOK, SessionRow
  <2>3. sold = position.lots => position' = NoPosition
    BY <1>0, <2>1, AfterSaleType DEF DeskTypeOK
  <2>4. sold # position.lots => position'.id = position.id
    BY <1>0, <2>1, AfterSaleType DEF DeskTypeOK
  <2>5. sold # position.lots => position.id # NoCall
    BY <1>0, DeskNumbers DEF DeskTypeOK, BooksOK, PositionRow, NoPosition
  <2> QED
    BY <2>1, <2>2, <2>3, <2>4, <2>5 DEF PhaseMatchesPosition, Held, NoPosition
<1>3. ASSUME NEW c \in Calls, SettleExpired(c) PROVE PhaseMatchesPosition'
  <2>1. session'.st = "completed" /\ position' = NoPosition
    BY <1>0, <1>3 DEF SettleExpired, DeskTypeOK, BooksOK, SessionRow
  <2> QED
    BY <2>1 DEF PhaseMatchesPosition, Held, NoPosition
<1>4. ASSUME NEW l \in Limits, Resume(l) \/ Approve(l) PROVE PhaseMatchesPosition'
  <2>1. session'.st = "running"
    BY <1>0, <1>4, NoSessionType
       DEF Resume, Approve, DeskTypeOK, BooksOK, SessionRow
  <2> QED
    BY <2>1 DEF PhaseMatchesPosition
<1>5. CASE Stop
  <2>1. session'.st = (IF Held THEN "stopping" ELSE "completed") /\ position' = position
    BY <1>0, <1>5 DEF Stop, DeskTypeOK, BooksOK, SessionRow
  <2> QED
    BY <2>1 DEF PhaseMatchesPosition, Held
<1>6. CASE UNCHANGED <<session, position>>
  BY <1>0, <1>6 DEF PhaseMatchesPosition, Held
<1> QED
  BY <1>1, <1>2, <1>3, <1>4, <1>5, <1>6, SessionSteps
-----------------------------------------------------------------------------
\* A sale changes no purchase, and books what leaves the position.
LEMMA CommitFills ==
  ASSUME DeskTypeOK, LotsConserved, NEW p \in Procs, MonitorCommit(p), NEW c \in Calls
  PROVE  /\ fills'[c].bought = fills[c].bought
         /\ fills'[c].bought =
              fills'[c].sold + (IF position'.id = c THEN position'.lots ELSE 0)
<1>1. PICK t \in Time, stamp \in Time \cup {Never}, sold \in 0 .. position.lots,
           st \in {"running", "stopping"}, total \in Int, exit \in Time \cup {Never} :
        /\ session.st = "stopping" => st = "stopping"
        /\ session' = [session EXCEPT
             !.st = IF sold = position.lots /\ st = "stopping" THEN "completed" ELSE st,
             !.realized = total, !.lastExit = exit]
        /\ position' = AfterSale(t, stamp, sold)
        /\ fills' = Record(t, stamp, sold)
        /\ learned' = Finalize(session', sold = position.lots)
  BY CommitFacts
<1>2. /\ fills \in [Calls -> FillRow] /\ position.lots \in Nat
      /\ fills[c].sold \in Nat /\ fills[c].bought \in Nat
  BY DeskNumbers DEF DeskTypeOK, BooksOK, FillRow, PositionRow, NoPosition
<1>3. fills[c].bought = fills[c].sold + (IF position.id = c THEN position.lots ELSE 0)
  BY DEF LotsConserved
<1>4. /\ sold = position.lots => position' = NoPosition
      /\ sold # position.lots => position'.id = position.id /\ position'.lots = position.lots - sold
  BY <1>1, AfterSaleType DEF DeskTypeOK
<1>5. NoPosition.id # c
  BY DeskNumbers DEF NoPosition
<1>6. CASE sold = 0
  <2>1. fills' = fills /\ position' = position
    BY <1>1, <1>6 DEF Record, AfterSale
  <2> QED
    BY <1>3, <2>1
<1>7. CASE sold # 0 /\ position.id # c
  <2>1. fills'[c] = fills[c]
    BY <1>1, <1>2, <1>7 DEF Record
  <2>2. position'.id # c
    BY <1>4, <1>5, <1>7
  <2> QED
    BY <1>3, <1>7, <2>1, <2>2
<1>8. CASE sold # 0 /\ position.id = c
  <2>1. fills'[c] = Sale(fills[c], t, stamp, sold)
    BY <1>1, <1>2, <1>8 DEF Record
  <2>2. sold \in Nat /\ fills[c] \in FillRow
    BY <1>2
  <2>3. fills'[c].sold = fills[c].sold + sold /\ fills'[c].bought = fills[c].bought
    <3>1. ASSUME NEW f \in FillRow
          PROVE  /\ Sale(f, t, stamp, sold).sold = f.sold + sold
                 /\ Sale(f, t, stamp, sold).bought = f.bought
      BY <2>2 DEF Sale, FillRow
    <3> QED
      BY <2>1, <2>2, <3>1
  <2>4. CASE sold = position.lots
    BY <1>2, <1>3, <1>4, <1>5, <1>8, <2>3, <2>4
  <2>5. CASE sold # position.lots
    BY <1>2, <1>3, <1>4, <1>8, <2>3, <2>5
  <2> QED
    BY <2>4, <2>5
<1> QED
  BY <1>6, <1>7, <1>8

LEMMA SettleFills ==
  ASSUME DeskTypeOK, LotsConserved, NEW e \in Calls, SettleExpired(e), NEW c \in Calls
  PROVE  /\ fills'[c].bought = fills[c].bought
         /\ fills'[c].bought =
              fills'[c].sold + (IF position'.id = c THEN position'.lots ELSE 0)
<1>1. /\ fills \in [Calls -> FillRow] /\ position.lots \in Nat
      /\ fills[c].sold \in Nat /\ fills[c].bought \in Nat
  BY DeskNumbers DEF DeskTypeOK, BooksOK, FillRow, PositionRow, NoPosition
<1>2. fills[c].bought = fills[c].sold + (IF position.id = c THEN position.lots ELSE 0)
  BY DEF LotsConserved
<1>3. position.id = e /\ position' = NoPosition /\ NoPosition.id # c
  BY DeskNumbers DEF SettleExpired, NoPosition
<1>4. fills' = [fills EXCEPT ![e] = [fills[e] EXCEPT !.sold = fills[e].sold + position.lots]]
  BY <1>1 DEF SettleExpired
<1>5. CASE c = e
  <2>1. fills'[c] = [fills[c] EXCEPT !.sold = fills[c].sold + position.lots]
    BY <1>1, <1>4, <1>5
  <2>2. fills'[c].sold = fills[c].sold + position.lots /\ fills'[c].bought = fills[c].bought
    BY <1>1, <2>1 DEF FillRow
  <2> QED
    BY <1>1, <1>2, <1>3, <1>5, <2>2
<1>6. CASE c # e
  <2>1. fills'[c] = fills[c]
    BY <1>1, <1>4, <1>6
  <2> QED
    BY <1>2, <1>3, <1>6, <2>1
<1> QED
  BY <1>5, <1>6

\* What an entry buys was not bought before.
LEMMA EnterFills ==
  ASSUME DeskInv, NEW w \in Workers, Enter(w), NEW c \in Calls
  PROVE  /\ fills'[c].bought =
              fills'[c].sold + (IF position'.id = c THEN position'.lots ELSE 0)
         /\ c = proc[w].call => fills'[c].bought > 0
         /\ c # proc[w].call => fills'[c].bought = fills[c].bought
<1> DEFINE e == proc[w].call
<1>1. e \in Calls /\ position.id = NoCall /\ NoCall # c
  BY EnterFacts, DeskNumbers DEF DeskInv, EntryAllowed, Held
<1>2. PICK t \in Time, lots \in 1 .. MaxLots, exp \in Expiries :
        /\ EntryAllowed(w, t)
        /\ position' = [id |-> e, lots |-> lots, exp |-> exp, pending |-> FALSE,
                        lastQuote |-> Never, deadline |-> t + MaxHold]
        /\ position' \in PositionRow
        /\ fills' = [fills EXCEPT ![e] = [fills[e] EXCEPT !.in = t, !.bought = lots]]
  BY EnterFacts DEF DeskInv
<1>3. /\ fills \in [Calls -> FillRow] /\ fills[c].sold \in Nat /\ fills[c].bought \in Nat
      /\ lots \in Nat /\ lots > 0
  BY DeskNumbers DEF DeskInv, DeskTypeOK, BooksOK, FillRow
<1>4. fills[c].bought = fills[c].sold
  <2>1. position.id # c
    BY <1>1
  <2>2. fills[c].bought = fills[c].sold + 0
    BY <2>1 DEF DeskInv, LotsConserved
  <2> QED
    BY <1>3, <2>2
<1>5. position'.id = e /\ position'.lots = lots
  BY <1>2
<1>6. CASE c = e
  <2>1. calls[c].st = "completed"
    BY <1>6 DEF Enter, Current
  <2>2. ~(fills[c].bought > 0)
    BY <2>1 DEF DeskInv, AppliedIffEntered
  <2>3. fills[c].sold = 0
    BY <1>3, <1>4, <2>2
  <2>4. fills'[c] = [fills[c] EXCEPT !.in = t, !.bought = lots]
    BY <1>2, <1>3, <1>6
  <2>5. fills'[c].bought = lots /\ fills'[c].sold = fills[c].sold
    BY <1>3, <2>4 DEF FillRow
  <2> QED
    BY <1>3, <1>5, <1>6, <2>3, <2>5
<1>7. CASE c # e
  <2>1. fills'[c] = fills[c]
    BY <1>2, <1>3, <1>7
  <2> QED
    BY <1>3, <1>4, <1>5, <1>7, <2>1
<1> QED
  BY <1>6, <1>7

LEMMA LotsStep == DeskInv /\ [DeskNext]_deskVars => LotsConserved'
<1> SUFFICES ASSUME DeskInv, [DeskNext]_deskVars, NEW c \in Calls
             PROVE  fills'[c].bought =
                      fills'[c].sold + (IF position'.id = c THEN position'.lots ELSE 0)
  BY DEF LotsConserved
<1>1. ASSUME NEW w \in Workers, Enter(w) 
      PROVE  fills'[c].bought =
               fills'[c].sold + (IF position'.id = c THEN position'.lots ELSE 0)
  BY <1>1, EnterFills
<1>2. ASSUME NEW p \in Procs, MonitorCommit(p) 
      PROVE  fills'[c].bought =
               fills'[c].sold + (IF position'.id = c THEN position'.lots ELSE 0)
  BY <1>2, CommitFills DEF DeskInv
<1>3. ASSUME NEW e \in Calls, SettleExpired(e) 
      PROVE  fills'[c].bought =
               fills'[c].sold + (IF position'.id = c THEN position'.lots ELSE 0)
  BY <1>3, SettleFills DEF DeskInv
<1>4. CASE UNCHANGED <<position, fills>>
  BY <1>4 DEF DeskInv, LotsConserved
<1> QED
  BY <1>1, <1>2, <1>3, <1>4, PositionSteps

LEMMA AppliedStep == DeskInv /\ [DeskNext]_deskVars => AppliedIffEntered'
<1> DEFINE Bought(c) == calls[c].st = "applied" /\ calls[c].action = "BUY"
<1> SUFFICES ASSUME DeskInv, [DeskNext]_deskVars, NEW c \in Calls
             PROVE  fills'[c].bought > 0 <=> Bought(c)'
  BY DEF AppliedIffEntered
<1>0. /\ fills[c].bought > 0 <=> Bought(c)
      /\ calls \in [Calls -> CallRow] /\ calls[c] \in CallRow
  BY DEF DeskInv, AppliedIffEntered, DeskTypeOK, TypeOK
<1>1. ASSUME NEW w \in Workers, Enter(w) PROVE fills'[c].bought > 0 <=> Bought(c)'
  <2>1. CASE c = proc[w].call
    <3>1. fills'[c].bought > 0
      BY <1>1, <2>1, EnterFills
    <3>2. calls' = [calls EXCEPT ![c].st = "applied"] /\ calls[c].action = "BUY"
      BY <1>1, <2>1 DEF Enter, ApplyCall
    <3>3. Bought(c)'
      BY <1>0, <3>2 DEF CallRow
    <3> QED
      BY <3>1, <3>3
  <2>2. CASE c # proc[w].call
    <3>1. fills'[c].bought = fills[c].bought
      BY <1>1, <2>2, EnterFills
    <3>2. calls'[c] = calls[c]
      BY <1>0, <1>1, <2>2 DEF Enter, ApplyCall
    <3> QED
      BY <1>0, <3>1, <3>2
  <2> QED
    BY <2>1, <2>2
<1>2. ASSUME NEW p \in Procs, MonitorCommit(p) PROVE fills'[c].bought > 0 <=> Bought(c)'
  BY <1>0, <1>2, CommitFills DEF DeskInv, MonitorCommit
<1>3. ASSUME NEW e \in Calls, SettleExpired(e) PROVE fills'[c].bought > 0 <=> Bought(c)'
  BY <1>0, <1>3, SettleFills DEF DeskInv, SettleExpired
<1>4. ASSUME NEW w \in Workers, RunStart(w) PROVE fills'[c].bought > 0 <=> Bought(c)'
  BY <1>0, <1>4 DEF RunStart, Interrupt, Abandoned, InFlight, CallRow
<1>5. ASSUME NEW w \in Workers, ReserveFor(w) PROVE fills'[c].bought > 0 <=> Bought(c)'
  <2>1. PICK e \in Calls : /\ calls[e].st = "unused"
                           /\ \E r : r.st = "reserved" /\ calls' = [calls EXCEPT ![e] = r]
    BY <1>5 DEF ReserveFor, ReserveCall
  <2> QED
    BY <1>0, <1>5, <2>1 DEF ReserveFor
<1>6. ASSUME NEW w \in Workers, SettleFor(w) PROVE fills'[c].bought > 0 <=> Bought(c)'
  <2>1. fills' = fills
    BY <1>6 DEF SettleFor
  <2> DEFINE e == proc[w].call
             Answered == calls[c].st = "reserved" /\ calls'[c].st \in {"completed", "failed"}
  <2>2. ASSUME NEW a \in Actions, NEW usage \in 0 .. Reservation, SettleCompleted(e, a, usage)
        PROVE  calls'[c] = calls[c] \/ Answered
    BY <1>0, <2>2 DEF SettleCompleted, CallRow
  <2>3. ASSUME NEW dispatched \in BOOLEAN, SettleFailed(e, dispatched)
        PROVE  calls'[c] = calls[c] \/ Answered
    BY <1>0, <2>3 DEF SettleFailed, CallRow
  <2>4. calls'[c] = calls[c] \/ Answered
    BY <1>6, <2>2, <2>3 DEF SettleFor
  <2> QED
    BY <1>0, <2>1, <2>4
<1>7. ASSUME NEW w \in Workers, ApplyAdvice(w) PROVE fills'[c].bought > 0 <=> Bought(c)'
  <2>1. fills' = fills
    BY <1>7 DEF ApplyAdvice
  <2>2. Bought(c)' <=> Bought(c)
    BY <1>0, <1>7 DEF ApplyAdvice, ApplyCall, CallRow
  <2> QED
    BY <1>0, <2>1, <2>2
<1>8. ASSUME NEW w \in Workers, RejectFor(w) PROVE fills'[c].bought > 0 <=> Bought(c)'
  <2>1. fills' = fills
    BY <1>8 DEF RejectFor
  <2>2. Bought(c)' <=> Bought(c)
    BY <1>0, <1>8 DEF RejectFor, RejectCall, CallRow
  <2> QED
    BY <1>0, <2>1, <2>2
<1>9. CASE SweepCalls
  BY <1>0, <1>9 DEF SweepCalls, Reconcile, Interrupt, Abandoned, InFlight, CallRow
<1>10. CASE UNCHANGED <<calls, fills>>
  BY <1>0, <1>10
<1> QED
  BY <1>1, <1>2, <1>3, <1>4, <1>5, <1>6, <1>7, <1>8, <1>9, <1>10
  DEF DeskNext, deskVars, Resume, Approve, Stop, Monitor, MonitorRead, MonitorNothing, Crash,
      Decide, Scan, ScanEnds, ReserveRefused, ApplyIgnored, ApplyRefused, Halt, Toggle, Trade,
      Advance

LEMMA DeskInductive == DeskInv /\ [DeskNext]_deskVars => DeskInv'
BY TypeStep, PhaseStep, AppliedStep, LotsStep DEF DeskInv

LEMMA DeskInvariant == DeskSpec => []DeskInv
BY DeskInitInv, DeskInductive, PTL DEF DeskSpec

\* DeskTypeOK: lots never go negative, no sale leaves an empty position behind,
\* and a worker past its reservation always has a call to settle.
THEOREM DeskTypeCorrect == DeskSpec => []DeskTypeOK
BY DeskInvariant, PTL DEF DeskInv

\* PhaseMatchesPosition: no session is stopping on nothing or over on something,
\* however stop(), the monitors, a late entry and a settlement interleave.
THEOREM NothingStranded == DeskSpec => []PhaseMatchesPosition
BY DeskInvariant, PTL DEF DeskInv

\* AppliedIffEntered: a decision and its position commit together or not at all.
THEOREM EntriesAreApplied == DeskSpec => []AppliedIffEntered
BY DeskInvariant, PTL DEF DeskInv

\* LotsConserved: what racing monitors sell of a position is what was bought.
THEOREM LotsBalance == DeskSpec => []LotsConserved
BY DeskInvariant, PTL DEF DeskInv
-----------------------------------------------------------------------------
\* The lots the mandate sees are those of the open position, none without one.
HeldLots == IF Held THEN position.lots \in 1 .. MaxLots ELSE position.lots = 0

LEMMA LotsHeld == DeskTypeOK => HeldLots
BY DeskNumbers DEF DeskTypeOK, BooksOK, HeldLots, Held, PositionRow, NoPosition

LEMMA MandateStep ==
  ASSUME DeskInv, HeldLots, HeldLots', PhaseMatchesPosition', [DeskNext]_deskVars
  PROVE  [Mandate!MandateNext]_(Mandate!mandate)
<1> DEFINE Kept == session'.entries = session.entries /\ session'.resumes = session.resumes
           Same == /\ session'.st = session.st /\ position'.lots = position.lots
                   /\ session'.entries = session.entries /\ session'.resumes = session.resumes
           Goal == [Mandate!MandateNext]_(Mandate!mandate)
<1>0. /\ session \in SessionRow /\ PhaseMatchesPosition /\ DeskTypeOK
      /\ session.st \in {"none", "running", "stopping", "completed"}
      /\ position.lots \in Nat /\ EntryCap \in Nat /\ MaxLots \in Nat
  BY DeskNumbers DEF DeskInv, DeskTypeOK, BooksOK, SessionRow, PositionRow, NoPosition
<1>s. Same => Goal
  BY DEF Mandate!mandate
<1>w. ASSUME session.st \in {"running", "stopping"}, Kept,
             position'.lots \in 0 .. position.lots,
             session'.st \in {session.st, "stopping", "completed"}
      PROVE  Goal
  <2>1. session'.st = "completed" => position'.lots = 0
    BY DEF PhaseMatchesPosition, HeldLots
  <2>2. session'.st = "stopping" => position'.lots > 0
    BY <1>0 DEF PhaseMatchesPosition, HeldLots
  <2>3. Mandate!Wind
    BY <1>w, <2>1, <2>2 DEF Mandate!Wind
  <2> QED
    BY <2>3 DEF Mandate!MandateNext
<1>1. ASSUME NEW l \in Limits, Resume(l) PROVE Goal
  <2>1. /\ session'.st = "running" /\ session'.resumes = 1
        /\ session'.entries = session.entries /\ position' = position
    BY <1>0, <1>1 DEF Resume, SessionRow
  <2>2. Mandate!Revive
    BY <1>1, <2>1 DEF Resume, HeldLots, Mandate!Revive
  <2> QED
    BY <2>2 DEF Mandate!MandateNext
<1>2. ASSUME NEW l \in Limits, Approve(l) PROVE Goal
  <2>1. /\ session'.st = "running" /\ session'.resumes = 0 /\ session'.entries = 0
        /\ position' = position
    BY <1>2, NoSessionType DEF Approve, NoSession
  <2>2. Mandate!Grant
    BY <1>2, <2>1 DEF Approve, HeldLots, Mandate!Grant
  <2> QED
    BY <2>2 DEF Mandate!MandateNext
<1>3. CASE Stop
  <2>1. /\ session'.st \in {"stopping", "completed"} /\ Kept /\ position' = position
        /\ session.st \in {"running", "stopping"}
    BY <1>0, <1>3 DEF Stop, Active, SessionRow
  <2> QED
    BY <1>0, <1>w, <2>1
<1>4. ASSUME NEW c \in Calls, SettleExpired(c) PROVE Goal
  <2>1. /\ session'.st = "completed" /\ Kept /\ position'.lots = 0
    BY <1>0, <1>4 DEF SettleExpired, SessionRow, NoPosition
  <2>2. session.st \in {"running", "stopping"}
    BY <1>0, <1>4, DeskNumbers DEF SettleExpired, PhaseMatchesPosition, Held
  <2> QED
    BY <1>0, <1>w, <2>1, <2>2
<1>5. ASSUME NEW p \in Procs, MonitorCommit(p) PROVE Goal
  <2>1. PICK t \in Time, stamp \in Time \cup {Never}, sold \in 0 .. position.lots,
             st \in {"running", "stopping"}, total \in Int, exit \in Time \cup {Never} :
          /\ session.st = "stopping" => st = "stopping"
          /\ session' = [session EXCEPT
               !.st = IF sold = position.lots /\ st = "stopping" THEN "completed" ELSE st,
               !.realized = total, !.lastExit = exit]
          /\ position' = AfterSale(t, stamp, sold)
          /\ fills' = Record(t, stamp, sold)
          /\ learned' = Finalize(session', sold = position.lots)
    BY <1>0, <1>5, CommitFacts
  <2>2. /\ session'.st = (IF sold = position.lots /\ st = "stopping" THEN "completed" ELSE st)
        /\ Kept
    BY <1>0, <2>1 DEF SessionRow
  <2>3. session.st \in {"running", "stopping"}
    BY <1>5 DEF MonitorCommit, Active
  <2>4. session'.st \in {session.st, "stopping", "completed"}
    BY <2>1, <2>2, <2>3
  <2>5. /\ sold = position.lots => position' = NoPosition
        /\ sold # position.lots => position'.lots = position.lots - sold
    BY <1>0, <2>1, AfterSaleType DEF DeskTypeOK
  <2>6. position'.lots \in 0 .. position.lots
    BY <1>0, <2>5 DEF NoPosition
  <2> QED
    BY <1>w, <2>2, <2>3, <2>4, <2>6
<1>6. ASSUME NEW w \in Workers, Enter(w) PROVE Goal
  <2>1. session' = [session EXCEPT !.entries = session.entries + 1]
    BY <1>0, <1>6, EnterFacts
  <2>2. /\ session'.entries = session.entries + 1 /\ session'.st = session.st
        /\ session'.resumes = session.resumes
    BY <1>0, <2>1 DEF SessionRow
  <2>3. session.st = "running" /\ ~Held /\ session.entries < EntryCap
    BY <1>6 DEF Enter, Current, EntryAllowed
  <2>4. position'.lots \in 1 .. MaxLots
    <3>1. PICK t \in Time, lots \in 1 .. MaxLots, exp \in Expiries :
            /\ EntryAllowed(w, t)
            /\ position' = [id |-> proc[w].call, lots |-> lots, exp |-> exp, pending |-> FALSE,
                            lastQuote |-> Never, deadline |-> t + MaxHold]
            /\ position' \in PositionRow
            /\ fills' = [fills EXCEPT ![proc[w].call] =
                           [fills[proc[w].call] EXCEPT !.in = t, !.bought = lots]]
      BY <1>0, <1>6, EnterFacts
    <3> QED
      BY <3>1 DEF PositionRow
  <2>5. Mandate!Enter
    BY <2>2, <2>3, <2>4 DEF HeldLots, Mandate!Enter
  <2> QED
    BY <2>5 DEF Mandate!MandateNext
<1>7. CASE UNCHANGED <<session, position>>
  BY <1>7, <1>s
<1> QED
  BY <1>1, <1>2, <1>3, <1>4, <1>5, <1>6, <1>7, SessionSteps

\* MandateHonoured: the desk implements the mandate an operator gave it, for any
\* number of workers: entries never exceed the cap, never add to a position and
\* never follow the end of a mandate that was used.
THEOREM DeskHonoursMandate == DeskSpec => MandateHonoured
<1>1. DeskInit => Mandate!MandateInit
  BY DEF DeskInit, NoSession, NoPosition, Mandate!MandateInit
<1>2. DeskInv => HeldLots /\ PhaseMatchesPosition
  BY LotsHeld DEF DeskInv
<1>3. DeskInv /\ HeldLots /\ HeldLots' /\ PhaseMatchesPosition' /\ [DeskNext]_deskVars
        => [Mandate!MandateNext]_(Mandate!mandate)
  BY MandateStep
<1> QED
  BY <1>1, <1>2, <1>3, DeskInvariant, PTL DEF DeskSpec, MandateHonoured, Mandate!MandateSpec
-----------------------------------------------------------------------------
\* A worker away from the desk has an event to pay for, and a snapshot no newer
\* than its own last step.
Scanned(r) == r.key \in PlanKeys \cup BandKeys /\ r.spot <= r.since
ScansInOrder == \A p \in Procs : proc[p].pc = "scanned" => Scanned(proc[p])

\* What a step puts into the memory of a process; a process that goes idle, starts or
\* rejects a call takes nothing with it.
Answered(w) ==
  proc[w].pc = "deciding" /\ Step(w, [proc[w] EXCEPT !.pc = "settled", !.since = now])
Monitored(p) ==
  /\ MonitorCommit(p)
  /\ Step(p, [Idle EXCEPT !.pc = "monitored", !.en = TRUE, !.since = now, !.day = session.day])
Forgets(p) == \E r : r.pc \in {"idle", "starting", "rejecting"} /\ Step(p, r)

LEMMA MemorySteps ==
  ASSUME DeskTypeOK, [DeskNext]_deskVars
  PROVE  \/ \E w \in Workers : Scan(w) \/ ReserveFor(w) \/ (Answered(w) /\ SettleFor(w))
         \/ \E p \in Procs : MonitorRead(p) \/ Monitored(p) \/ Forgets(p)
         \/ UNCHANGED proc
<1>a. \A p \in Procs : Step(p, Idle) => Forgets(p)
  <2>1. Idle.pc = "idle"
    BY DEF Idle
  <2> QED
    BY <2>1 DEF Forgets
<1>b. ASSUME NEW p \in Procs, Step(p, [proc[p] EXCEPT !.pc = "rejecting", !.since = now])
      PROVE  Forgets(p)
  <2> DEFINE next == [proc[p] EXCEPT !.pc = "rejecting", !.since = now]
  <2>1. next.pc = "rejecting" /\ Step(p, next)
    BY <1>b DEF DeskTypeOK, MemoryOK, Memory
  <2> HIDE DEF next
  <2> QED
    BY <2>1 DEF Forgets
<1>1. ASSUME NEW w \in Workers, Decide(w), ~Scan(w), ~ReserveFor(w), ~(Answered(w) /\ SettleFor(w))
      PROVE  Forgets(w)
  <2>0. w \in Procs
    BY DeskNumbers
  <2>1. CASE RunStart(w)
    <3> DEFINE next == [Idle EXCEPT !.pc = "starting", !.en = enabled, !.since = now]
    <3>1. next.pc = "starting" /\ Step(w, next)
      BY <2>1 DEF RunStart, Idle
    <3> HIDE DEF next
    <3> QED
      BY <3>1 DEF Forgets
  <2>2. CASE SettleFor(w)
    BY <2>0, <2>2, <1>1, <1>b DEF SettleFor, Answered
  <2>3. CASE ApplyRefused(w)
    BY <2>0, <2>3, <1>b DEF ApplyRefused
  <2> QED
    BY <2>0, <1>1, <1>a, <2>1, <2>2, <2>3
    DEF Decide, ScanEnds, ReserveRefused, ApplyIgnored, ApplyAdvice, Enter, RejectFor
<1>2. ASSUME NEW p \in Procs, Monitor(p) \/ Crash(p), ~MonitorRead(p), ~Monitored(p)
      PROVE  Forgets(p)
  BY <1>2, <1>a DEF Monitor, MonitorCommit, MonitorNothing, Crash, Monitored
<1>3. Workers \subseteq Procs
  BY DeskNumbers
<1> QED
  BY <1>1, <1>2, <1>3 DEF DeskNext, deskVars, Resume, Approve, Stop, SettleExpired, SweepCalls,
     Halt, Toggle, Trade, Advance

LEMMA ScanFacts ==
  ASSUME DeskTypeOK, NEW w \in Workers, Scan(w)
  PROVE  /\ now' = now
         /\ \E k \in PlanKeys \cup BandKeys, spot \in Time :
              /\ Recent(spot, now, MaxTime)
              /\ proc' = [proc EXCEPT ![w] =
                   [proc[w] EXCEPT !.pc = "scanned", !.since = now, !.key = k, !.spot = spot]]
<1>0. PICK t \in ReadsOf(w), k \in EventKeys :
        \E spot \in {u \in Time : Recent(u, t, SpotAge)} :
          Step(w, [proc[w] EXCEPT !.pc = "scanned", !.since = now, !.key = k, !.spot = spot])
  BY DEF Scan
<1>1. PICK spot \in Time :
        /\ Recent(spot, t, SpotAge)
        /\ Step(w, [proc[w] EXCEPT !.pc = "scanned", !.since = now, !.key = k, !.spot = spot])
  BY <1>0
<1>2. t \in Time /\ t <= now /\ now \in Time /\ spot \in Time /\ spot <= t
  BY <1>1 DEF ReadsOf, Reads, Recent, DeskTypeOK, TypeOK
<1>3. Recent(spot, now, MaxTime)
  BY <1>2, Numbers DEF Time, Recent
<1>4. k \in PlanKeys \cup BandKeys
  BY DEF EventKeys
<1>5. proc' = [proc EXCEPT ![w] =
         [proc[w] EXCEPT !.pc = "scanned", !.since = now, !.key = k, !.spot = spot]]
  BY <1>1 DEF Step
<1>6. now' = now
  BY DEF Scan
<1> QED
  BY <1>3, <1>4, <1>5, <1>6

LEMMA ScansStep == DeskTypeOK /\ ScansInOrder /\ [DeskNext]_deskVars => ScansInOrder'
<1> SUFFICES ASSUME DeskTypeOK, ScansInOrder, [DeskNext]_deskVars, NEW q \in Procs,
                    proc'[q].pc = "scanned"
             PROVE  Scanned(proc'[q])
  BY DEF ScansInOrder
<1>0. proc \in [Procs -> Memory]
  BY DEF DeskTypeOK, MemoryOK
<1>1. ASSUME NEW w \in Workers, Scan(w) PROVE Scanned(proc'[q])
  <2>1. PICK k \in PlanKeys \cup BandKeys, spot \in Time :
          /\ Recent(spot, now, MaxTime)
          /\ proc' = [proc EXCEPT ![w] =
               [proc[w] EXCEPT !.pc = "scanned", !.since = now, !.key = k, !.spot = spot]]
    BY <1>1, ScanFacts
  <2>2. CASE q = w
    BY <1>0, <2>1, <2>2 DEF Memory, Scanned, Recent
  <2>3. CASE q # w
    BY <1>0, <2>1, <2>3 DEF ScansInOrder
  <2> QED
    BY <2>2, <2>3
<1>2. ASSUME NEW p \in Procs, NEW r, Step(p, r), r.pc # "scanned" PROVE Scanned(proc'[q])
  BY <1>0, <1>2 DEF Step, ScansInOrder
<1>3. ASSUME NEW w \in Workers, ReserveFor(w) PROVE Scanned(proc'[q])
  <2>1. PICK c \in Calls : Step(w, [proc[w] EXCEPT !.pc = "deciding", !.since = now, !.call = c])
    BY <1>3 DEF ReserveFor
  <2>2. w \in Procs /\ [proc[w] EXCEPT !.pc = "deciding", !.since = now, !.call = c].pc = "deciding"
    BY <1>0, DeskNumbers DEF Memory
  <2> QED
    BY <1>2, <2>1, <2>2
<1>4. ASSUME NEW w \in Workers, Answered(w) PROVE Scanned(proc'[q])
  <2>1. w \in Procs /\ [proc[w] EXCEPT !.pc = "settled", !.since = now].pc = "settled"
    BY <1>0, DeskNumbers DEF Memory
  <2> QED
    BY <1>2, <1>4, <2>1 DEF Answered
<1>5. ASSUME NEW p \in Procs, MonitorRead(p) PROVE Scanned(proc'[q])
  <2> DEFINE r == [Idle EXCEPT !.pc = "quoting", !.since = now, !.seen = position.id,
                     !.tape = trade, !.en = IF p = Supervisor THEN enabled ELSE proc[p].en]
  <2>1. r.pc = "quoting" /\ Step(p, r)
    BY <1>5 DEF MonitorRead, Idle
  <2> HIDE DEF r
  <2> QED
    BY <1>2, <2>1
<1>6. ASSUME NEW p \in Procs, Monitored(p) \/ Forgets(p) PROVE Scanned(proc'[q])
  <2>1. [Idle EXCEPT !.pc = "monitored", !.en = TRUE, !.since = now, !.day = session.day].pc
          = "monitored"
    BY DEF Idle
  <2> QED
    BY <1>2, <1>6, <2>1 DEF Monitored, Forgets
<1>7. CASE UNCHANGED proc
  BY <1>7 DEF ScansInOrder
<1> QED
  BY <1>1, <1>3, <1>4, <1>5, <1>6, <1>7, MemorySteps

\* Every step of the desk is a statement of the ledger, or does not touch it.
LEMMA LedgerStep == DeskTypeOK /\ ScansInOrder /\ [DeskNext]_deskVars => [Next]_callVars
<1> SUFFICES ASSUME DeskTypeOK, ScansInOrder, [DeskNext]_deskVars PROVE [Next]_callVars
  OBVIOUS
<1>1. ASSUME NEW w \in Workers, Decide(w) PROVE [Next]_callVars
  <2>0. w \in Procs /\ proc[w] \in Memory
    BY DeskNumbers DEF DeskTypeOK, MemoryOK
  <2>1. CASE RunStart(w)
    BY <2>1 DEF RunStart, Reconcile, Next
  <2>2. CASE ReserveFor(w)
    <3>1. PICK t \in ReadsOf(w), c \in Calls :
            Authorised(w, t) /\ ReserveCall(c, session.day, proc[w].key, proc[w].spot, t)
      BY <2>2 DEF ReserveFor
    <3>2. t \in Reads /\ t \in Time /\ t >= proc[w].since
      BY <3>1 DEF ReadsOf, Reads
    <3>3. proc[w].key \in PlanKeys \cup BandKeys /\ proc[w].spot <= proc[w].since
      BY <2>0, <2>2 DEF ReserveFor, ScansInOrder, Scanned
    <3>4. proc[w].spot \in Time /\ proc[w].since \in Time
      BY <2>0 DEF Memory
    <3>5. Recent(proc[w].spot, t, SnapshotAge)
      BY <3>2, <3>3, <3>4, Numbers, SnapshotAssumption DEF Time, Recent
    <3>6. session.day = DayOf[t] /\ UNCHANGED now
      BY <2>2, <3>1 DEF Authorised, ReserveFor
    <3>7. Reserve(c)
      BY <3>1, <3>2, <3>3, <3>4, <3>5, <3>6 DEF Reserve
    <3> QED
      BY <3>7 DEF Next
  <2>3. CASE SettleFor(w)
    <3>1. proc[w].call \in Calls /\ UNCHANGED now
      BY <2>0, <2>3 DEF DeskTypeOK, MemoryOK, SettleFor
    <3>2. CASE calls[proc[w].call].st = "unused"
      BY <2>3, <3>1, <3>2 DEF SettleFor, SettleCompleted, SettleFailed, callVars
    <3>3. CASE calls[proc[w].call].st # "unused"
      <4>1. Settle(proc[w].call)
        BY <2>3, <3>1, <3>3 DEF SettleFor, Settle
      <4> QED
        BY <3>1, <4>1 DEF Next
    <3> QED
      BY <3>2, <3>3
  <2>4. CASE ApplyAdvice(w) \/ Enter(w)
    <3>1. proc[w].call \in Calls /\ Apply(proc[w].call)
      BY <2>0, <2>4 DEF DeskTypeOK, MemoryOK, ApplyAdvice, Enter, Apply
    <3> QED
      BY <3>1 DEF Next
  <2>5. CASE RejectFor(w)
    <3>1. proc[w].call \in Calls /\ RejectCall(proc[w].call) /\ UNCHANGED now
      BY <2>0, <2>5 DEF DeskTypeOK, MemoryOK, RejectFor
    <3>2. CASE calls[proc[w].call].st = "unused"
      BY <3>1, <3>2 DEF RejectCall, callVars
    <3>3. CASE calls[proc[w].call].st # "unused"
      BY <3>1, <3>3 DEF Reject, Next
    <3> QED
      BY <3>2, <3>3
  <2>6. CASE Scan(w) \/ ScanEnds(w) \/ ReserveRefused(w) \/ ApplyIgnored(w) \/ ApplyRefused(w)
    BY <2>6 DEF Scan, ScanEnds, ReserveRefused, ApplyIgnored, ApplyRefused, callVars
  <2> QED
    BY <1>1, <2>1, <2>2, <2>3, <2>4, <2>5, <2>6 DEF Decide
<1>2. CASE SweepCalls
  BY <1>2 DEF SweepCalls, Next
<1>3. CASE Advance
  BY <1>3 DEF Advance, Tick, Next
<1>4. CASE UNCHANGED <<now, calls>>
  BY <1>4 DEF callVars
<1> QED
  BY <1>1, <1>2, <1>3, <1>4 DEF DeskNext, deskVars, Resume, Approve, Stop, SettleExpired, Monitor,
     MonitorRead, MonitorCommit, MonitorNothing, Crash, Halt, Toggle, Trade

\* LedgerKept: the desk's workers, monitors, reports and operators do nothing to
\* the paid-call ledger that AiCalls does not allow, so what is proved of the
\* ledger is true of the desk.
THEOREM DeskKeepsLedger == DeskSpec => LedgerKept
<1>1. DeskInit => Init /\ ScansInOrder
  BY IdleType DEF DeskInit, Init, ScansInOrder
<1>2. DeskSpec => []ScansInOrder
  BY <1>1, ScansStep, DeskTypeCorrect, PTL DEF DeskSpec
<1> QED
  BY <1>1, <1>2, LedgerStep, DeskTypeCorrect, PTL DEF DeskSpec, LedgerKept, Spec

\* BudgetHolds and AttemptsKept of the desk: concurrent workers, kills, late
\* answers and restarts keep the paid calls within both budgets, and one market
\* event is never paid for twice at once, too soon or too often.
THEOREM DeskWithinBudget == DeskSpec => [](BudgetHolds /\ AttemptsKept)
BY DeskKeepsLedger, BudgetKept, EventsNotOverpaid, PTL DEF LedgerKept
-----------------------------------------------------------------------------
\* SoldOnOwnQuote: a sale is made on a quote fetched for the very position it is
\* made of, so a monitor overtaken by an exit and a new entry sells none of it.
THEOREM SalesUseOwnQuote == DeskSpec => SoldOnOwnQuote
<1> DEFINE Own == \A c \in Calls :
             (fills'[c].quotes # fills[c].quotes) =>
               \E p \in Procs : proc[p].pc = "quoting" /\ proc[p].seen = c /\ proc'[p].pc # "quoting"
<1>1. DeskInv /\ [DeskNext]_deskVars => [Own]_deskVars
  <2> SUFFICES ASSUME DeskInv, [DeskNext]_deskVars, NEW c \in Calls,
                      fills'[c].quotes # fills[c].quotes
               PROVE  \E p \in Procs : proc[p].pc = "quoting" /\ proc[p].seen = c
                                       /\ proc'[p].pc # "quoting"
    OBVIOUS
  <2>0. fills \in [Calls -> FillRow] /\ proc \in [Procs -> Memory]
    BY DEF DeskInv, DeskTypeOK, BooksOK, MemoryOK
  <2>1. ASSUME NEW w \in Workers, Enter(w) PROVE FALSE
    <3>0. DeskTypeOK /\ Enter(w)
      BY <2>1 DEF DeskInv
    <3>1. PICK t \in Time, lots \in 1 .. MaxLots, exp \in Expiries :
            /\ EntryAllowed(w, t)
            /\ position' = [id |-> proc[w].call, lots |-> lots, exp |-> exp, pending |-> FALSE,
                            lastQuote |-> Never, deadline |-> t + MaxHold]
            /\ position' \in PositionRow
            /\ fills' = [fills EXCEPT ![proc[w].call] =
                           [fills[proc[w].call] EXCEPT !.in = t, !.bought = lots]]
      BY <3>0, EnterFacts
    <3> QED
      BY <2>0, <3>1 DEF FillRow
  <2>2. ASSUME NEW e \in Calls, SettleExpired(e) PROVE FALSE
    BY <2>0, <2>2 DEF SettleExpired, FillRow
  <2>3. ASSUME NEW p \in Procs, MonitorCommit(p)
        PROVE  proc[p].pc = "quoting" /\ proc[p].seen = c /\ proc'[p].pc # "quoting"
    <3>1. \E t, stamp, sold : /\ sold # 0 => Valued(p, t, stamp)
                             /\ fills' = Record(t, stamp, sold)
      <4>1. PICK t \in ReadsOf(p), stamp \in {proc[p].tape, trade}, move \in Moves,
                 depth \in 0 .. MaxLots, invalid \in BOOLEAN :
              LET st == IF WindingDown(p, t) THEN "stopping" ELSE session.st
                  sold == IF Valued(p, t, stamp) /\ Trigger(st, t, move, invalid)
                          THEN Sellable(t, stamp, depth) ELSE 0
              IN  fills' = Record(t, stamp, sold)
        BY <2>3 DEF MonitorCommit
      <4> DEFINE st == IF WindingDown(p, t) THEN "stopping" ELSE session.st
                 sold == IF Valued(p, t, stamp) /\ Trigger(st, t, move, invalid)
                         THEN Sellable(t, stamp, depth) ELSE 0
      <4>2. fills' = Record(t, stamp, sold)
        BY <4>1
      <4>3. sold # 0 => Valued(p, t, stamp)
        OBVIOUS
      <4> HIDE DEF sold
      <4> QED
        BY <4>2, <4>3
    <3>2. PICK t, stamp, sold : /\ sold # 0 => Valued(p, t, stamp)
                                /\ fills' = Record(t, stamp, sold)
      BY <3>1
    <3>2a. sold # 0
      BY <3>2 DEF Record
    <3>2b. position.id = c
      BY <2>0, <3>2, <3>2a DEF Record
    <3>3. proc[p].seen = c
      BY <3>2, <3>2a, <3>2b DEF Valued
    <3>4. proc'[p].pc # "quoting"
      BY <2>0, <2>3 DEF MonitorCommit, Step, Idle
    <3> QED
      BY <2>3, <3>3, <3>4 DEF MonitorCommit
  <2> QED
    BY <2>1, <2>2, <2>3, PositionSteps
<1> QED
  BY <1>1, DeskInvariant, PTL DEF DeskSpec, SoldOnOwnQuote
-----------------------------------------------------------------------------
(***************************************************************************)
(* The trades of a day.  TradesKept needs to know of every position that   *)
(* it was opened on the day its call was reserved, that those of the       *)
(* session's day are closed by the time the session remembers unless one   *)
(* is open, and that a worker's session, snapshot, call and clock agree.   *)
(***************************************************************************)

\* The session belongs to a day that has come.
SessionDated == session.st # "none" => session.day <= DayOf[now]

\* A position was opened at a tick of the past, in the window of the day its
\* call was reserved on, under this session or an earlier one.
Opened(c) ==
  /\ session.st # "none"
  /\ fills[c].in \in EntryWindow /\ fills[c].in <= now
  /\ DayOf[fills[c].in] = calls[c].day /\ calls[c].day <= session.day

\* The open position is of this session, expires on a later day and was never out;
\* no more was what nobody bought.
OpenNow ==
  Held => /\ fills[position.id].out = Never
          /\ calls[position.id].day = session.day
          /\ position.exp > session.day
Unsold == \A c \in Calls : fills[c].bought = 0 => fills[c].out = Never

\* A position of this session that is no longer open was either sold by the
\* clock lastExit remembers, or settled on a later day.
ClosedBefore(c) ==
  position.id # c /\ calls[c].day = session.day =>
    \/ session.day < DayOf[now]
    \/ /\ fills[c].out # Never /\ session.lastExit # Never
       /\ fills[c].out <= session.lastExit

OneByOne ==
  \A c, e \in Calls :
    c # e /\ fills[c].bought > 0 /\ fills[e].bought > 0 /\ calls[c].day = calls[e].day
      => Follows(c, e) \/ Follows(e, c)

EntriesOf(d) == {c \in Calls : fills[c].bought > 0 /\ calls[c].day = d}

DayBook ==
  /\ SessionDated
  /\ \A c \in Calls : fills[c].bought > 0 => Opened(c) /\ ClosedBefore(c)
  /\ OpenNow /\ Unsold /\ OneByOne
  /\ session.entries <= EntryCap /\ session.entries = Cardinality(EntriesOf(session.day))

\* A monitor that is away fetching a quote has seen the position it is for.
QuoteFollows(r) ==
  r.pc = "quoting" /\ r.seen # NoCall =>
    fills[r.seen].bought > 0 /\ fills[r.seen].in <= r.since

\* A worker's session, snapshot, call and clock are in order.
Called(r) ==
  /\ calls[r.call].st # "unused"
  /\ r.day <= calls[r.call].day /\ calls[r.call].day <= session.day
  /\ calls[r.call].day = DayOf[calls[r.call].created]
  /\ r.spot <= calls[r.call].created /\ calls[r.call].created <= r.since
WorkerInOrder(r) ==
  /\ r.pc \in {"monitored", "scanned", "deciding", "settled"} =>
       session.st # "none" /\ r.day <= session.day
  /\ r.pc \in {"deciding", "settled"} => Called(r)

MemoryInOrder == \A p \in Procs : QuoteFollows(proc[p]) /\ WorkerInOrder(proc[p])

TradeInv == ScansInOrder /\ DayBook /\ MemoryInOrder

LEMMA DaysGrow == \A t, u \in Time : t <= u => DayOf[t] <= DayOf[u] /\ DayOf[t] \in Nat /\ DayOf[u] \in Nat
BY ClockAssumption

LEMMA WindowTicks == \A t \in EntryWindow : t \in Time /\ t \in Morning /\ t \in Nat
BY ClockAssumption, Numbers DEF EntryWindow

\* A row once used keeps its day and the clock it was made by.
LEMMA RowsStand ==
  ASSUME DeskTypeOK, ScansInOrder, [DeskNext]_deskVars, NEW c \in Calls, calls[c].st # "unused"
  PROVE  calls'[c].st # "unused" /\ calls'[c].day = calls[c].day /\ calls'[c].created = calls[c].created
<1>0. calls \in [Calls -> CallRow] /\ calls[c] \in CallRow
  BY DEF DeskTypeOK, TypeOK
<1>1. CASE UNCHANGED callVars
  BY <1>1 DEF callVars
<1>2. ASSUME NEW e \in Calls, Reserve(e) PROVE calls'[c] = calls[c]
  BY <1>0, <1>2 DEF Reserve, ReserveCall
<1>3. ASSUME NEW e \in Calls, Settle(e)
      PROVE  calls'[c].st # "unused" /\ calls'[c].day = calls[c].day /\ calls'[c].created = calls[c].created
  <2>1. ASSUME NEW a \in Actions, NEW usage \in 0 .. Reservation, SettleCompleted(e, a, usage)
        PROVE  calls'[c].st # "unused" /\ calls'[c].day = calls[c].day /\ calls'[c].created = calls[c].created
    BY <1>0, <2>1 DEF SettleCompleted, CallRow
  <2>2. ASSUME NEW dispatched \in BOOLEAN, SettleFailed(e, dispatched)
        PROVE  calls'[c].st # "unused" /\ calls'[c].day = calls[c].day /\ calls'[c].created = calls[c].created
    BY <1>0, <2>2 DEF SettleFailed, CallRow
  <2> QED
    BY <1>3, <2>1, <2>2 DEF Settle
<1>4. ASSUME NEW e \in Calls, Apply(e) \/ Reject(e)
      PROVE  calls'[c].st # "unused" /\ calls'[c].day = calls[c].day /\ calls'[c].created = calls[c].created
  BY <1>0, <1>4 DEF Apply, ApplyCall, Reject, RejectCall, CallRow
<1>5. ASSUME Reconcile
      PROVE  calls'[c].st # "unused" /\ calls'[c].day = calls[c].day /\ calls'[c].created = calls[c].created
  BY <1>0, <1>5 DEF Reconcile, Interrupt, CallRow
<1> QED
  BY <1>1, <1>2, <1>3, <1>4, <1>5, LedgerStep DEF Next, Tick

\* In particular the call of a position keeps its day.
LEMMA BoughtDaysStand ==
  ASSUME DeskInv, ScansInOrder, [DeskNext]_deskVars
  PROVE  \A c \in Calls : fills[c].bought > 0 => calls'[c].day = calls[c].day
BY RowsStand DEF DeskInv, AppliedIffEntered

\* What the clock and the books are worth to the arithmetic.
LEMMA DeskValues ==
  ASSUME DeskTypeOK
  PROVE  /\ now \in Time /\ now \in Nat /\ DayOf[now] \in Nat
         /\ session.day \in Nat /\ session.entries \in Nat
         /\ session.lastExit \in Time \cup {Never}
         /\ \A c \in Calls : /\ fills[c] \in FillRow /\ calls[c] \in CallRow
                             /\ calls[c].day \in Nat /\ fills[c].bought \in Nat
                             /\ fills[c].in \in Time \cup {Never}
                             /\ fills[c].out \in Time \cup {Never}
         /\ position = NoPosition \/ position \in PositionRow
BY Numbers DEF DeskTypeOK, TypeOK, BooksOK, SessionRow, FillRow, CallRow

LEMMA ClockForward ==
  ASSUME DeskTypeOK, [DeskNext]_deskVars
  PROVE  now' \in Time /\ now <= now' /\ DayOf[now] <= DayOf[now'] /\ DayOf[now'] \in Nat
<1>1. now \in Time /\ now' \in Time /\ now <= now'
  <2>1. now \in Time /\ now \in Nat
    BY DeskValues
  <2>2. now' = now \/ (now < MaxTime /\ now' = now + 1)
    BY DEF DeskNext, deskVars, Resume, Approve, Stop, SettleExpired, Monitor, MonitorRead,
       MonitorCommit, MonitorNothing, Crash, Decide, RunStart, Scan, ScanEnds, ReserveFor,
       ReserveRefused, SettleFor, ApplyIgnored, ApplyAdvice, Enter, ApplyRefused, RejectFor,
       SweepCalls, Reconcile, Halt, Toggle, Trade, Advance
  <2> QED
    BY <2>1, <2>2, Numbers DEF Time
<1> QED
  BY <1>1, DaysGrow

LEMMA DayBookInit == DeskInit => DayBook
<1> SUFFICES ASSUME DeskInit PROVE DayBook
  OBVIOUS
<1>1. /\ \A c \in Calls : fills[c].bought = 0 /\ fills[c].out = Never
      /\ session.st = "none" /\ session.entries = 0 /\ position.id = NoCall
  BY DEF DeskInit, NoFill, NoSession, NoPosition
<1>2. EntriesOf(session.day) = {}
  BY <1>1 DEF EntriesOf
<1>3. Cardinality({}) = 0 /\ 0 <= EntryCap
  BY FS_EmptySet, DeskNumbers
<1> QED
  BY <1>1, <1>2, <1>3 DEF DayBook, SessionDated, OpenNow, Unsold, OneByOne, Held

\* The open position was bought.
LEMMA HeldWasBought ==
  ASSUME DeskInv, Held
  PROVE  /\ position \in PositionRow /\ position.id \in Calls
         /\ position.lots \in Nat /\ position.lots > 0 /\ fills[position.id].bought > 0
<1>1. position \in PositionRow
  BY DeskValues DEF DeskInv, Held, NoPosition
<1>2. position.id \in Calls /\ position.lots \in Nat /\ position.lots > 0
  BY <1>1, DeskNumbers DEF PositionRow
<1>3. fills[position.id].bought = fills[position.id].sold + position.lots
  BY <1>2 DEF DeskInv, LotsConserved
<1>4. fills[position.id].sold \in Nat
  BY <1>2, DeskValues DEF DeskInv, FillRow
<1> QED
  BY <1>1, <1>2, <1>3, <1>4

\* A step that leaves the positions alone and the session on its day.
LEMMA DayBookFrame ==
  ASSUME DeskInv, DayBook, ScansInOrder, [DeskNext]_deskVars, UNCHANGED <<position, fills>>,
         session'.day = session.day, session'.lastExit = session.lastExit,
         session'.entries = session.entries, session'.st = "none" <=> session.st = "none"
  PROVE  DayBook'
<1>1. \A c \in Calls : fills[c].bought > 0 => calls'[c].day = calls[c].day
  BY BoughtDaysStand
<1>2. now' \in Time /\ now <= now' /\ DayOf[now] <= DayOf[now'] /\ DayOf[now'] \in Nat /\ DeskTypeOK
  BY ClockForward DEF DeskInv
<1>3. now \in Nat /\ DayOf[now] \in Nat /\ session.day \in Nat /\ now' \in Nat
  BY <1>2, DeskValues, Numbers
<1>4. SessionDated'
  BY <1>2, <1>3 DEF DayBook, SessionDated
<1>5. ASSUME NEW c \in Calls, fills'[c].bought > 0 PROVE Opened(c)' /\ ClosedBefore(c)'
  <2>1. Opened(c) /\ ClosedBefore(c) /\ calls'[c].day = calls[c].day
    BY <1>1, <1>5 DEF DayBook
  <2>2. fills[c].in <= now' /\ EntryWindow' = EntryWindow
    <3>1. fills[c].in \in Nat
      BY <2>1, WindowTicks DEF Opened
    <3> QED
      BY <1>2, <1>3, <2>1, <3>1, Numbers DEF Opened, EntryWindow
  <2>3. session.day < DayOf[now] => session.day < DayOf[now']
    BY <1>2, <1>3
  <2> QED
    BY <2>1, <2>2, <2>3 DEF Opened, ClosedBefore
<1>6. OpenNow'
  <2>1. Held => position.id \in Calls /\ fills[position.id].bought > 0
    BY HeldWasBought
  <2> QED
    BY <1>1, <2>1 DEF DayBook, OpenNow, Held
<1>7. Unsold' /\ OneByOne'
  BY <1>1 DEF DayBook, Unsold, OneByOne, Follows
<1>8. EntriesOf(session.day)' = EntriesOf(session.day)
  BY <1>1 DEF EntriesOf
<1> QED
  BY <1>4, <1>5, <1>6, <1>7, <1>8 DEF DayBook

\* start() on a later day: nothing was bought on it yet.
LEMMA DayBookApprove ==
  ASSUME DeskInv, DayBook, NEW l \in Limits, Approve(l)
  PROVE  DayBook'
<1>0. DeskTypeOK /\ now \in Time /\ DayOf[now] \in Nat /\ session.day \in Nat
  BY DeskValues DEF DeskInv
<1>1. PICK t \in Reads \cap Morning :
        /\ DayOf[t] # session.day
        /\ session' = [NoSession EXCEPT !.day = DayOf[t], !.st = "running", !.limits = l]
  BY DEF Approve
<1>2. UNCHANGED <<now, calls, position, fills>> /\ session.st \in {"none", "completed"} /\ ~Held
  BY DEF Approve
<1>3. DayOf[t] = DayOf[now]
  BY <1>0, <1>1, NightAssumption DEF Reads
<1>4. session'.day = DayOf[now] /\ session'.st = "running" /\ session'.entries = 0
  BY <1>1, <1>3 DEF NoSession
<1>5. session.st # "none" => session.day < DayOf[now]
  BY <1>0, <1>1, <1>3 DEF DayBook, SessionDated
<1>6. ASSUME NEW c \in Calls, fills[c].bought > 0
      PROVE  calls[c].day < DayOf[now] /\ Opened(c) /\ calls[c].day \in Nat
  BY <1>0, <1>5, <1>6, DeskValues DEF DayBook, Opened
<1>7. SessionDated'
  BY <1>0, <1>2, <1>4 DEF SessionDated
<1>8. ASSUME NEW c \in Calls, fills'[c].bought > 0 PROVE Opened(c)' /\ ClosedBefore(c)'
  BY <1>0, <1>2, <1>4, <1>6, <1>8 DEF Opened, ClosedBefore
<1>9. OpenNow' /\ Unsold' /\ OneByOne'
  BY <1>2 DEF DayBook, OpenNow, Unsold, OneByOne, Follows, Held
<1>10. EntriesOf(session.day)' = {}
  BY <1>0, <1>2, <1>4, <1>6 DEF EntriesOf
<1>11. Cardinality({}) = 0 /\ 0 <= EntryCap
  BY FS_EmptySet, DeskNumbers
<1> QED
  BY <1>4, <1>7, <1>8, <1>9, <1>10, <1>11 DEF DayBook

\* settle_expired_position(): the position settled is of an earlier day.
LEMMA DayBookSettle ==
  ASSUME DeskInv, DayBook, NEW e \in Calls, SettleExpired(e)
  PROVE  DayBook'
<1>0. /\ DeskTypeOK /\ now \in Time /\ DayOf[now] \in Nat /\ session.day \in Nat
      /\ session \in SessionRow /\ fills \in [Calls -> FillRow]
  BY DeskValues DEF DeskInv, DeskTypeOK, BooksOK
<1>1. PICK t \in Reads : position.exp < DayOf[t]
  BY DEF SettleExpired
<1>2. position.id = e /\ Held /\ UNCHANGED <<now, calls>> /\ position' = NoPosition
  BY DeskNumbers DEF SettleExpired, Held
<1>3. /\ session'.day = session.day /\ session'.lastExit = session.lastExit
      /\ session'.entries = session.entries /\ session'.st = "completed"
  BY <1>0 DEF SettleExpired, SessionRow
<1>4. ASSUME NEW c \in Calls
      PROVE  /\ fills'[c].in = fills[c].in /\ fills'[c].out = fills[c].out
             /\ fills'[c].bought = fills[c].bought
  BY <1>0 DEF SettleExpired, FillRow
<1>5. session.day < DayOf[now]
  <2>1. t \in Time /\ t <= now /\ DayOf[t] <= DayOf[now] /\ DayOf[t] \in Nat
    BY <1>0, <1>1, DaysGrow DEF Reads, Recent
  <2>2. position.exp \in Nat /\ session.day < position.exp
    BY <1>2, HeldWasBought, DeskNumbers DEF DayBook, OpenNow, PositionRow
  <2> QED
    BY <1>0, <1>1, <2>1, <2>2
<1>6. session.st # "none"
  BY <1>2, HeldWasBought DEF DayBook, Opened
<1>7. SessionDated'
  BY <1>2, <1>3, <1>6 DEF DayBook, SessionDated
<1>8. ASSUME NEW c \in Calls, fills'[c].bought > 0 PROVE Opened(c)' /\ ClosedBefore(c)'
  BY <1>2, <1>3, <1>4, <1>5, <1>8 DEF DayBook, Opened, ClosedBefore, EntryWindow
<1>9. OpenNow'
  BY <1>2, DeskNumbers DEF OpenNow, Held, NoPosition
<1>10. Unsold' /\ OneByOne'
  BY <1>2, <1>4 DEF DayBook, Unsold, OneByOne, Follows
<1>11. EntriesOf(session.day)' = EntriesOf(session.day)
  BY <1>2, <1>3, <1>4 DEF EntriesOf
<1> QED
  BY <1>3, <1>7, <1>8, <1>9, <1>10, <1>11 DEF DayBook

\* What a monitor commits, with the clock it was read by: a sale is of the
\* position it has seen, and the session remembers when the last lot went.
LEMMA CommitTrade ==
  ASSUME DeskTypeOK, NEW p \in Procs, MonitorCommit(p)
  PROVE  \E t \in ReadsOf(p), stamp \in Time \cup {Never}, sold \in 0 .. position.lots :
           /\ sold # 0 => Held /\ position.id = proc[p].seen
           /\ session'.lastExit = IF Held /\ sold = position.lots THEN t ELSE session.lastExit
           /\ position' = AfterSale(t, stamp, sold)
           /\ fills' = Record(t, stamp, sold)
<1>1. PICK t \in ReadsOf(p), stamp \in {proc[p].tape, trade}, move \in Moves,
           depth \in 0 .. MaxLots, invalid \in BOOLEAN :
        LET st == IF WindingDown(p, t) THEN "stopping" ELSE session.st
            sold == IF Valued(p, t, stamp) /\ Trigger(st, t, move, invalid)
                    THEN Sellable(t, stamp, depth) ELSE 0
            flat == sold = position.lots
        IN /\ session' = [session EXCEPT
                !.st = IF flat /\ st = "stopping" THEN "completed" ELSE st,
                !.realized = @ + sold * move,
                !.lastExit = IF Held /\ flat THEN t ELSE @]
           /\ position' = AfterSale(t, stamp, sold)
           /\ fills' = Record(t, stamp, sold)
           /\ learned' = Finalize(session', flat)
  BY DEF MonitorCommit
<1> DEFINE st == IF WindingDown(p, t) THEN "stopping" ELSE session.st
           sold == IF Valued(p, t, stamp) /\ Trigger(st, t, move, invalid)
                   THEN Sellable(t, stamp, depth) ELSE 0
<1>2. sold \in 0 .. position.lots
  BY SaleBounds DEF DeskTypeOK
<1>3. stamp \in Time \cup {Never}
  BY DEF DeskTypeOK, MemoryOK, Memory
<1>4. sold # 0 => Held /\ position.id = proc[p].seen
  BY DEF Valued
<1>5. session'.lastExit = IF Held /\ sold = position.lots THEN t ELSE session.lastExit
  BY <1>1 DEF DeskTypeOK, BooksOK, SessionRow
<1>6. position' = AfterSale(t, stamp, sold) /\ fills' = Record(t, stamp, sold)
  BY <1>1
<1> HIDE DEF sold
<1> QED
  BY <1>2, <1>3, <1>4, <1>5, <1>6

\* _monitor() and _close(): the position that goes was entered after every other
\* one of the session had gone.
LEMMA DayBookCommit ==
  ASSUME DeskInv, DayBook, MemoryInOrder, NEW p \in Procs, MonitorCommit(p)
  PROVE  DayBook'
<1>0. /\ DeskTypeOK /\ now \in Time /\ now \in Nat /\ session.day \in Nat
      /\ session \in SessionRow /\ fills \in [Calls -> FillRow] /\ proc \in [Procs -> Memory]
  BY DeskValues DEF DeskInv, DeskTypeOK, BooksOK, MemoryOK
<1>1. PICK t \in ReadsOf(p), stamp \in Time \cup {Never}, sold \in 0 .. position.lots :
        /\ sold # 0 => Held /\ position.id = proc[p].seen
        /\ session'.lastExit = IF Held /\ sold = position.lots THEN t ELSE session.lastExit
        /\ position' = AfterSale(t, stamp, sold)
        /\ fills' = Record(t, stamp, sold)
  BY <1>0, CommitTrade
<1>2. /\ session'.day = session.day /\ session'.entries = session.entries
      /\ session.st # "none" /\ UNCHANGED <<now, calls>>
  <2>1. session'.day = session.day /\ session'.entries = session.entries
    BY ZenonT(40), <1>0, CommitFacts DEF SessionRow
  <2> QED
    BY <2>1 DEF MonitorCommit, Active
<1>3. SessionDated'
  BY <1>2 DEF DayBook, SessionDated
<1>4. CASE sold = 0
  <2>1. position' = position /\ fills' = fills
    BY <1>1, <1>4 DEF AfterSale, Record
  <2>2. session'.lastExit = session.lastExit
    BY <1>1, <1>4, HeldWasBought
  <2>3. ASSUME NEW c \in Calls, fills'[c].bought > 0 PROVE Opened(c)' /\ ClosedBefore(c)'
    <3>1. session'.st # "none"
      BY <1>0, <1>2, CommitFacts DEF SessionRow
    <3> QED
      BY <1>2, <2>1, <2>2, <2>3, <3>1 DEF DayBook, Opened, ClosedBefore, EntryWindow
  <2>4. OpenNow' /\ Unsold' /\ OneByOne' /\ EntriesOf(session.day)' = EntriesOf(session.day)
    BY <1>2, <2>1 DEF DayBook, OpenNow, Held, Unsold, OneByOne, Follows, EntriesOf
  <2> QED
    BY <1>2, <1>3, <2>3, <2>4 DEF DayBook
<1>5. CASE sold # 0
  <2> DEFINE o == position.id
  <2>1. Held /\ o = proc[p].seen /\ o \in Calls /\ position \in PositionRow
        /\ fills[o].bought > 0 /\ fills[o].out = Never /\ calls[o].day = session.day
        /\ position.exp > session.day
    BY <1>1, <1>5, HeldWasBought DEF DayBook, OpenNow
  <2>2. t \in Time /\ t \in Nat /\ fills[o].in <= t /\ fills[o].in \in Nat
    <3>1. fills[o].in <= proc[p].since
      BY <2>1, DeskNumbers DEF MemoryInOrder, QuoteFollows, MonitorCommit
    <3>2. fills[o].in \in Nat
      BY <2>1, WindowTicks DEF DayBook, Opened
    <3>3. proc[p].since \in Nat /\ t >= proc[p].since /\ t \in Time /\ t \in Nat
      BY <1>0, <1>1, Numbers DEF Memory, ReadsOf, Reads
    <3> QED
      BY <3>1, <3>2, <3>3
  <2>3. /\ \A c \in Calls : /\ fills'[c].in = fills[c].in /\ fills'[c].bought = fills[c].bought
                            /\ c # o => fills'[c].out = fills[c].out
        /\ fills'[o].out = IF sold = position.lots THEN t ELSE fills[o].out
    <3>1. fills' = [fills EXCEPT ![o] = Sale(fills[o], t, stamp, sold)]
      BY <1>1, <1>5 DEF Record
    <3>2. ASSUME NEW f \in FillRow
          PROVE  /\ Sale(f, t, stamp, sold).in = f.in /\ Sale(f, t, stamp, sold).bought = f.bought
                 /\ Sale(f, t, stamp, sold).out = IF sold = position.lots THEN t ELSE f.out
      BY DEF Sale, FillRow
    <3>3. fills[o] \in FillRow /\ fills'[o] = Sale(fills[o], t, stamp, sold)
      BY <1>0, <2>1, <3>1
    <3>4. \A c \in Calls : c # o => fills'[c] = fills[c]
      BY <1>0, <3>1
    <3> QED
      BY <3>2, <3>3, <3>4
  <2>4. OneByOne' /\ Unsold'
    <3>1. ASSUME NEW c \in Calls, NEW e \in Calls, c # e, fills[c].bought > 0, fills[e].bought > 0,
                 calls[c].day = calls[e].day, Follows(c, e)
          PROVE  Follows(c, e)'
      BY <2>1, <2>3, <3>1 DEF Follows
    <3>2. OneByOne'
      BY <1>2, <2>3, <3>1 DEF DayBook, OneByOne
    <3>3. Unsold'
      BY <2>1, <2>3 DEF DayBook, Unsold
    <3> QED
      BY <3>2, <3>3
  <2>5. EntriesOf(session.day)' = EntriesOf(session.day)
    BY <1>2, <2>3 DEF EntriesOf
  <2>6. ASSUME NEW c \in Calls, fills[c].bought > 0 PROVE Opened(c)'
    <3>1. session'.st # "none"
      BY <1>0, <1>2, CommitFacts DEF SessionRow
    <3> QED
      BY <1>2, <2>3, <2>6, <3>1 DEF DayBook, Opened, EntryWindow
  <2>7. CASE sold = position.lots
    <3>1. position' = NoPosition /\ session'.lastExit = t /\ ~Held'
      BY <1>1, <1>5, <2>1, <2>7 DEF AfterSale, Held, NoPosition
    <3>2. OpenNow'
      BY <3>1 DEF OpenNow
    <3>3. t # Never
      BY <2>2 DEF Never
    <3>4. ASSUME NEW c \in Calls, fills[c].bought > 0, calls[c].day = session.day, c # o
          PROVE  session.day < DayOf[now] \/ (fills[c].out # Never /\ fills[c].out <= t)
      <4>1. Follows(o, c) \/ Follows(c, o)
        BY <2>1, <3>4 DEF DayBook, OneByOne
      <4>2. fills[c].out # Never /\ fills[o].in >= fills[c].out + Cooldown
        BY <2>1, <4>1 DEF Follows
      <4>3. fills[c].out \in Nat
        BY <1>0, <4>2, DeskValues, Numbers
      <4> QED
        BY <2>2, <4>2, <4>3, DeskNumbers
    <3>5. ASSUME NEW c \in Calls, fills[c].bought > 0 PROVE ClosedBefore(c)'
      <4>1. CASE c = o
        BY <2>2, <2>3, <2>7, <3>1, <3>3, <4>1 DEF ClosedBefore
      <4>2. CASE c # o
        BY <1>2, <2>3, <3>1, <3>3, <3>4, <3>5, <4>2 DEF ClosedBefore
      <4> QED
        BY <4>1, <4>2
    <3> QED
      BY <1>2, <1>3, <2>3, <2>4, <2>5, <2>6, <3>2, <3>5 DEF DayBook
  <2>8. CASE sold # position.lots
    <3>1. position'.id = o /\ position'.exp = position.exp /\ session'.lastExit = session.lastExit
      BY <1>1, <1>5, <2>1, <2>8 DEF AfterSale, PositionRow
    <3>2. OpenNow'
      BY <1>2, <2>1, <2>3, <2>8, <3>1 DEF OpenNow
    <3>3. ASSUME NEW c \in Calls, fills[c].bought > 0 PROVE ClosedBefore(c)'
      BY <1>2, <2>3, <3>1, <3>3 DEF DayBook, ClosedBefore
    <3> QED
      BY <1>2, <1>3, <2>3, <2>4, <2>5, <2>6, <3>2, <3>3 DEF DayBook
  <2> QED
    BY <2>7, <2>8
<1> QED
  BY <1>4, <1>5

\* _apply() on a BUY: the age of the decision's spot puts the entry on the day of the
\* session, and the cooldown puts it after every other position of it.
LEMMA DayBookEnter ==
  ASSUME DeskInv, DayBook, MemoryInOrder, NEW w \in Workers, Enter(w)
  PROVE  DayBook'
<1>a. proc[w].call \in Calls
  BY DeskNumbers DEF DeskInv, DeskTypeOK, MemoryOK, Enter
<1> PICK n \in Calls : n = proc[w].call
  BY <1>a
<1> DEFINE r == proc[w]
<1>0. /\ DeskTypeOK /\ now \in Time /\ now \in Nat /\ session.day \in Nat /\ session.entries \in Nat
      /\ session \in SessionRow /\ fills \in [Calls -> FillRow] /\ calls \in [Calls -> CallRow]
      /\ w \in Procs /\ n = r.call /\ r \in Memory
  BY DeskNumbers, DeskValues DEF DeskInv, DeskTypeOK, TypeOK, BooksOK, MemoryOK, Enter
<1>1. PICK t \in ReadsOf(w), lots \in 1 .. MaxLots, exp \in Expiries :
        /\ EntryAllowed(w, t) /\ exp > session.day
        /\ position' = [NoPosition EXCEPT !.id = n, !.lots = lots, !.exp = exp,
                                          !.deadline = t + MaxHold]
        /\ fills' = [fills EXCEPT ![n].in = t, ![n].bought = lots]
  BY DEF Enter
<1>2. UNCHANGED now /\ session.st = "running" /\ session.day = r.day /\ ~Held /\ calls[n].st = "completed"
  BY <1>1 DEF Enter, Current, EntryAllowed
<1>3. session' = [session EXCEPT !.entries = session.entries + 1]
  BY DEF Enter
<1>4. /\ session'.day = session.day /\ session'.st = session.st /\ session'.lastExit = session.lastExit
      /\ session'.entries = session.entries + 1
  BY <1>0, <1>3 DEF SessionRow
<1>5. position'.id = n /\ position'.exp = exp
  BY <1>1 DEF NoPosition
<1>6. /\ fills'[n].in = t /\ fills'[n].bought = lots /\ fills'[n].out = fills[n].out
      /\ \A c \in Calls : c # n => fills'[c] = fills[c]
      /\ lots > 0
  BY <1>0, <1>1, DeskNumbers DEF FillRow
<1>7. \A c \in Calls : calls'[c].day = calls[c].day
  BY <1>0 DEF Enter, ApplyCall, CallRow
<1>8. ~(fills[n].bought > 0) /\ fills[n].bought = 0
  <2>1. ~(fills[n].bought > 0)
    BY <1>0, <1>2 DEF DeskInv, AppliedIffEntered
  <2> QED
    BY <1>0, <2>1, DeskValues
<1>9. t \in Time /\ t \in Nat /\ t <= now /\ r.since <= t /\ t \in EntryWindow /\ DayOf[t] = DayOf[now]
  <2>1. t \in Reads /\ t \in Time /\ t <= now /\ r.since <= t /\ t \in EntryWindow
    BY <1>1 DEF ReadsOf, Reads, Recent, EntryAllowed
  <2>2. t \in Morning
    BY <2>1, WindowTicks
  <2> QED
    BY <1>0, <2>1, <2>2, NightAssumption, Numbers DEF Reads
<1>10. calls[n].day = session.day /\ DayOf[t] = session.day
  <2>1. Called(r)
    BY <1>0 DEF MemoryInOrder, WorkerInOrder, Enter
  <2>2. calls[n].day = session.day /\ calls[n].day \in Nat
    BY <1>0, <1>2, <2>1, DeskValues DEF Called
  <2>3. r.spot \in Time /\ r.since \in Time /\ calls[n].created \in Time
    BY <1>0 DEF Memory, DeskTypeOK, TypeOK
  <2>a. r.since \in Nat /\ calls[n].created \in Nat
    BY <2>3, Numbers
  <2>b. r.spot <= calls[n].created /\ calls[n].created <= r.since
    BY <2>1 DEF Called
  <2>4. r.spot <= calls[n].created /\ calls[n].created <= t
    BY <1>9, <2>a, <2>b
  <2>5. DayOf[r.spot] = DayOf[t]
    BY <1>1, <1>9, <2>3, NightAssumption DEF EntryAllowed
  <2>6. DayOf[r.spot] <= DayOf[calls[n].created] /\ DayOf[calls[n].created] <= DayOf[t]
    BY <1>9, <2>3, <2>4, DaysGrow
  <2>c. DayOf[calls[n].created] \in Nat /\ DayOf[t] \in Nat
    BY <1>9, <2>3, Numbers
  <2>7. DayOf[calls[n].created] = DayOf[t]
    BY <2>5, <2>6, <2>c
  <2> QED
    BY <2>1, <2>2, <2>7 DEF Called
<1>11. SessionDated'
  BY <1>2, <1>4 DEF DayBook, SessionDated
<1>12. ASSUME NEW c \in Calls, fills'[c].bought > 0 PROVE Opened(c)'
  <2>1. CASE c = n
    BY <1>0, <1>2, <1>4, <1>6, <1>7, <1>9, <1>10, <2>1 DEF Opened, EntryWindow
  <2>2. CASE c # n
    BY <1>2, <1>4, <1>6, <1>7, <1>12, <2>2 DEF DayBook, Opened, EntryWindow
  <2> QED
    BY <2>1, <2>2
<1>13. \A c \in Calls : position.id # c
  BY <1>2, DeskNumbers DEF Held
<1>14. ASSUME NEW c \in Calls, fills'[c].bought > 0 PROVE ClosedBefore(c)'
  <2>1. CASE c = n
    BY <1>5, <2>1 DEF ClosedBefore
  <2>2. CASE c # n
    BY <1>2, <1>4, <1>6, <1>7, <1>13, <1>14, <2>2 DEF DayBook, ClosedBefore
  <2> QED
    BY <2>1, <2>2
<1>15. OpenNow' /\ Unsold'
  BY <1>0, <1>1, <1>4, <1>5, <1>6, <1>7, <1>8, <1>10 DEF DayBook, OpenNow, Unsold
<1>16. OneByOne'
  <2>1. ASSUME NEW c \in Calls, c # n, fills[c].bought > 0, calls[c].day = calls[n].day
        PROVE  Follows(n, c)'
    <3>1. fills[c].out # Never /\ session.lastExit # Never /\ fills[c].out <= session.lastExit
      BY <1>0, <1>9, <1>10, <1>13, <2>1 DEF DayBook, ClosedBefore
    <3>2. t - session.lastExit >= Cooldown
      BY <1>1, <3>1 DEF EntryAllowed, Cooled
    <3>3. fills[c].out \in Nat /\ session.lastExit \in Nat
      BY <1>0, <3>1, DeskValues, Numbers
    <3>4. t >= fills[c].out + Cooldown
      BY <1>9, <3>1, <3>2, <3>3, DeskNumbers
    <3>5. fills'[c].out = fills[c].out /\ fills'[n].in = t
      BY <1>6, <2>1
    <3> HIDE DEF r
    <3> QED
      BY <3>1, <3>4, <3>5 DEF Follows
  <2>2. ASSUME NEW c \in Calls, NEW e \in Calls, c # e, c # n, e # n, fills'[c].bought > 0,
               fills'[e].bought > 0, calls'[c].day = calls'[e].day
        PROVE  Follows(c, e)' \/ Follows(e, c)'
    BY <1>6, <1>7, <2>2 DEF DayBook, OneByOne, Follows
  <2>3. SUFFICES ASSUME NEW c \in Calls, NEW e \in Calls, c # e, fills'[c].bought > 0,
                        fills'[e].bought > 0, calls'[c].day = calls'[e].day
                 PROVE  Follows(c, e)' \/ Follows(e, c)'
    BY DEF OneByOne
  <2> QED
    BY <1>6, <1>7, <2>1, <2>2, <2>3
<1>17. session'.entries <= EntryCap /\ session'.entries = Cardinality(EntriesOf(session.day))'
  <2>1. EntriesOf(session.day)' = EntriesOf(session.day) \cup {n}
    <3>1. ASSUME NEW c \in Calls
          PROVE  c \in EntriesOf(session.day)' <=> c \in EntriesOf(session.day) \cup {n}
      BY <1>4, <1>6, <1>7, <1>10 DEF EntriesOf
    <3> QED
      BY <1>0, <3>1 DEF EntriesOf
  <2>2. n \notin EntriesOf(session.day) /\ EntriesOf(session.day) \subseteq Calls
    BY <1>8 DEF EntriesOf
  <2>3. IsFiniteSet(EntriesOf(session.day))
    BY <2>2, CallAssumption, FS_Subset
  <2>4. Cardinality(EntriesOf(session.day) \cup {n}) = Cardinality(EntriesOf(session.day)) + 1
    BY <2>2, <2>3, FS_AddElement
  <2>5. session.entries < EntryCap
    BY <1>1 DEF EntryAllowed
  <2> QED
    BY <1>0, <1>4, <2>1, <2>4, <2>5, DeskNumbers DEF DayBook
<1> QED
  BY <1>11, <1>12, <1>14, <1>15, <1>16, <1>17 DEF DayBook

LEMMA DayBookStep ==
  ASSUME DeskInv, TradeInv, [DeskNext]_deskVars
  PROVE  DayBook'
<1>0. DayBook /\ ScansInOrder /\ MemoryInOrder /\ session \in SessionRow
  BY DEF TradeInv, DeskInv, DeskTypeOK, BooksOK
<1>1. ASSUME NEW w \in Workers, Enter(w) PROVE DayBook'
  BY <1>0, <1>1, DayBookEnter
<1>2. ASSUME NEW p \in Procs, MonitorCommit(p) PROVE DayBook'
  BY <1>0, <1>2, DayBookCommit
<1>3. ASSUME NEW c \in Calls, SettleExpired(c) PROVE DayBook'
  BY <1>0, <1>3, DayBookSettle
<1>4. ASSUME NEW l \in Limits, Resume(l) PROVE DayBook'
  BY <1>0, <1>4, DayBookFrame DEF Resume, SessionRow
<1>5. ASSUME NEW l \in Limits, Approve(l) PROVE DayBook'
  BY <1>0, <1>5, DayBookApprove
<1>6. CASE Stop
  BY <1>0, <1>6, DayBookFrame DEF Stop, Active, SessionRow
<1>7. CASE UNCHANGED <<session, position, fills>>
  BY <1>0, <1>7, DayBookFrame
<1> QED
  BY <1>1, <1>2, <1>3, <1>4, <1>5, <1>6, <1>7, PositionSteps, SessionSteps

\* The session only goes on, and what was bought stays bought.
LEMMA DeskForward ==
  ASSUME DeskInv, TradeInv, [DeskNext]_deskVars
  PROVE  /\ session.st # "none" => session'.st # "none" /\ session.day <= session'.day
         /\ \A c \in Calls : fills[c].bought > 0 => fills'[c].bought > 0 /\ fills'[c].in = fills[c].in
<1>0. DayBook /\ MemoryInOrder /\ session \in SessionRow /\ fills \in [Calls -> FillRow] /\ DeskTypeOK
  BY DEF TradeInv, DeskInv, DeskTypeOK, BooksOK
<1>1. session.st # "none" => session'.st # "none" /\ session.day <= session'.day
  <2>0. session.day \in Nat /\ now \in Time
    BY <1>0, DeskValues
  <2>1. ASSUME NEW w \in Workers, Enter(w)
        PROVE  session'.st = session.st /\ session'.day = session.day
    BY <1>0, <2>1, EnterFacts DEF SessionRow
  <2>2. ASSUME NEW p \in Procs, MonitorCommit(p)
        PROVE  session'.st # "none" /\ session'.day = session.day
    BY ZenonT(40), <1>0, <2>2, CommitFacts DEF SessionRow
  <2>3. ASSUME NEW c \in Calls, SettleExpired(c)
        PROVE  session'.st # "none" /\ session'.day = session.day
    BY <1>0, <2>3 DEF SettleExpired, SessionRow
  <2>4. ASSUME NEW l \in Limits, Resume(l) PROVE session'.st # "none" /\ session'.day = session.day
    BY <1>0, <2>4 DEF Resume, SessionRow
  <2>5. ASSUME NEW l \in Limits, Approve(l), session.st # "none"
        PROVE  session'.st # "none" /\ session.day <= session'.day
    <3>1. PICK t \in Reads \cap Morning :
            session' = [NoSession EXCEPT !.day = DayOf[t], !.st = "running", !.limits = l]
      BY <2>5 DEF Approve
    <3>2. DayOf[t] = DayOf[now]
      BY <2>0, NightAssumption DEF Reads
    <3>3. session'.day = DayOf[now] /\ session'.st = "running"
      BY <3>1, <3>2 DEF NoSession
    <3> QED
      BY <1>0, <2>5, <3>3 DEF DayBook, SessionDated
  <2>6. CASE Stop
    BY <1>0, <2>6 DEF Stop, SessionRow
  <2>7. CASE UNCHANGED session
    BY <2>0, <2>7
  <2> QED
    BY <2>0, <2>1, <2>2, <2>3, <2>4, <2>5, <2>6, <2>7, SessionSteps
<1>2. ASSUME NEW c \in Calls, fills[c].bought > 0
      PROVE  fills'[c].bought > 0 /\ fills'[c].in = fills[c].in
  <2>1. ASSUME NEW w \in Workers, Enter(w) PROVE fills'[c] = fills[c]
    <3>1. c # proc[w].call
      BY <1>2, <2>1 DEF DeskInv, AppliedIffEntered, Enter, Current
    <3> QED
      BY ZenonT(40), <1>0, <2>1, <3>1, EnterFacts
  <2>2. ASSUME NEW p \in Procs, MonitorCommit(p)
        PROVE  fills'[c].bought > 0 /\ fills'[c].in = fills[c].in
    <3>1. PICK t \in Time, stamp \in Time \cup {Never}, sold \in 0 .. position.lots :
            fills' = Record(t, stamp, sold)
      BY <1>0, <2>2, CommitFacts
    <3>2. ASSUME NEW f \in FillRow
          PROVE  Sale(f, t, stamp, sold).in = f.in /\ Sale(f, t, stamp, sold).bought = f.bought
      BY DEF Sale, FillRow
    <3> QED
      BY <1>0, <1>2, <3>1, <3>2 DEF Record
  <2>3. ASSUME NEW e \in Calls, SettleExpired(e)
        PROVE  fills'[c].bought > 0 /\ fills'[c].in = fills[c].in
    BY <1>0, <1>2, <2>3 DEF SettleExpired, FillRow
  <2>4. CASE UNCHANGED fills
    BY <1>2, <2>4
  <2> QED
    BY <1>2, <2>1, <2>2, <2>3, <2>4, PositionSteps
<1> QED
  BY <1>1, <1>2

\* A memory in order stays so while its process does nothing.
LEMMA MemoryStands ==
  ASSUME DeskInv, TradeInv, [DeskNext]_deskVars, NEW q \in Procs, proc'[q] = proc[q]
  PROVE  QuoteFollows(proc[q])' /\ WorkerInOrder(proc[q])'
<1>0. /\ DeskTypeOK /\ ScansInOrder /\ proc[q] \in Memory /\ session \in SessionRow
      /\ QuoteFollows(proc[q]) /\ WorkerInOrder(proc[q])
  BY DEF TradeInv, DeskInv, DeskTypeOK, BooksOK, MemoryOK, MemoryInOrder
<1> PICK r \in Memory : r = proc[q]
  BY <1>0
<1>1. QuoteFollows(proc[q])'
  BY <1>0, DeskForward DEF QuoteFollows, Memory
<1>2. r.pc \in {"monitored", "scanned", "deciding", "settled"} =>
        session'.st # "none" /\ r.day <= session'.day
  <2>1. DeskTypeOK'
    BY TypeStep
  <2>2. session.day \in Nat /\ session'.day \in Nat /\ r.day \in Nat
    BY <1>0, <2>1 DEF DeskTypeOK, BooksOK, SessionRow, Memory
  <2>3. r.pc \in {"monitored", "scanned", "deciding", "settled"} =>
          session.st # "none" /\ r.day <= session.day
    BY <1>0 DEF WorkerInOrder
  <2> QED
    BY <2>2, <2>3, DeskForward
<1>3. r.pc \in {"deciding", "settled"} => Called(r)'
  <2>1. SUFFICES ASSUME r.pc \in {"deciding", "settled"} PROVE Called(r)'
    OBVIOUS
  <2>2. r.call \in Calls /\ Called(r)
    BY <1>0, <2>1 DEF WorkerInOrder, DeskTypeOK, MemoryOK
  <2> PICK c \in Calls : c = r.call
    BY <2>2
  <2>3. calls'[c].st # "unused" /\ calls'[c].day = calls[c].day /\ calls'[c].created = calls[c].created
    BY <1>0, <2>2, RowsStand DEF Called
  <2>4. calls[c].day <= session'.day
    <3>1. DeskTypeOK'
      BY TypeStep
    <3>2. session.day \in Nat /\ session'.day \in Nat /\ calls[c].day \in Nat
      BY <1>0, <3>1 DEF DeskTypeOK, TypeOK, BooksOK, SessionRow, CallRow
    <3>3. session.st # "none" /\ calls[c].day <= session.day
      BY <1>0, <2>1, <2>2 DEF WorkerInOrder, Called
    <3> QED
      BY <3>2, <3>3, DeskForward
  <2> QED
    BY <2>2, <2>3, <2>4 DEF Called
<1> QED
  BY <1>1, <1>2, <1>3 DEF WorkerInOrder

LEMMA ReadInOrder ==
  ASSUME DeskInv, TradeInv, NEW p \in Procs, MonitorRead(p)
  PROVE  QuoteFollows(proc[p])' /\ WorkerInOrder(proc[p])'
<1>1. /\ proc'[p].pc = "quoting" /\ proc'[p].since = now /\ proc'[p].seen = position.id
      /\ UNCHANGED fills
  BY DEF MonitorRead, Step, Idle, DeskInv, DeskTypeOK, MemoryOK
<1>2. Held => fills[position.id].bought > 0 /\ fills[position.id].in <= now
  BY HeldWasBought DEF TradeInv, DayBook, Opened
<1> QED
  BY <1>1, <1>2 DEF QuoteFollows, WorkerInOrder, Held

LEMMA MonitoredInOrder ==
  ASSUME DeskInv, TradeInv, [DeskNext]_deskVars, NEW p \in Procs, Monitored(p)
  PROVE  QuoteFollows(proc[p])' /\ WorkerInOrder(proc[p])'
<1>1. proc'[p].pc = "monitored" /\ proc'[p].day = session.day
  BY DEF Monitored, Step, Idle, DeskInv, DeskTypeOK, MemoryOK
<1>2. session.st # "none"
  BY DEF Monitored, MonitorCommit, Active
<1> QED
  BY <1>1, <1>2, DeskForward DEF QuoteFollows, WorkerInOrder

LEMMA ForgottenInOrder ==
  ASSUME DeskInv, NEW p \in Procs, Forgets(p)
  PROVE  QuoteFollows(proc[p])' /\ WorkerInOrder(proc[p])'
<1>1. proc'[p].pc \in {"idle", "starting", "rejecting"}
  BY DEF Forgets, Step, DeskInv, DeskTypeOK, MemoryOK
<1> QED
  BY <1>1 DEF QuoteFollows, WorkerInOrder

LEMMA ScannedInOrder ==
  ASSUME DeskInv, NEW w \in Workers, Scan(w)
  PROVE  QuoteFollows(proc[w])' /\ WorkerInOrder(proc[w])'
<1>1. proc'[w].pc = "scanned" /\ proc'[w].day = proc[w].day
  BY DeskNumbers DEF Scan, Step, DeskInv, DeskTypeOK, MemoryOK, Memory
<1>2. session' = session /\ session.st = "running" /\ session.day = proc[w].day /\ session.day \in Nat
  BY DeskValues DEF Scan, DeskInv
<1> QED
  BY <1>1, <1>2 DEF QuoteFollows, WorkerInOrder

\* reserve(): the scan's snapshot is no newer than the row, the row no newer than the
\* worker's clock.
LEMMA ReservedInOrder ==
  ASSUME DeskInv, TradeInv, NEW w \in Workers, ReserveFor(w)
  PROVE  QuoteFollows(proc[w])' /\ WorkerInOrder(proc[w])'
<1>0. w \in Procs /\ proc[w] \in Memory /\ calls \in [Calls -> CallRow] /\ DeskTypeOK
      /\ now \in Nat /\ session.day \in Nat /\ proc \in [Procs -> Memory]
  BY DeskNumbers, DeskValues DEF DeskInv, DeskTypeOK, TypeOK, MemoryOK
<1>1. PICK t \in ReadsOf(w), c \in Calls :
        /\ Authorised(w, t)
        /\ ReserveCall(c, session.day, proc[w].key, proc[w].spot, t)
        /\ Step(w, [proc[w] EXCEPT !.pc = "deciding", !.since = now, !.call = c])
  BY DEF ReserveFor
<1>2. /\ proc'[w].pc = "deciding" /\ proc'[w].since = now /\ proc'[w].call = c
      /\ proc'[w].day = proc[w].day /\ proc'[w].spot = proc[w].spot
  BY <1>0, <1>1 DEF Step, Memory
<1>3. calls'[c].st = "reserved" /\ calls'[c].day = session.day /\ calls'[c].created = t
  BY <1>0, <1>1 DEF ReserveCall
<1>4. session' = session /\ session.st # "none" /\ session.day = DayOf[t]
  BY <1>1 DEF ReserveFor, Authorised
<1>5. proc[w].day <= session.day /\ proc[w].spot <= proc[w].since
  BY <1>0 DEF TradeInv, MemoryInOrder, WorkerInOrder, ScansInOrder, Scanned, ReserveFor
<1>6. proc[w].spot <= t /\ t <= now
  <2>1. t >= proc[w].since /\ t <= now /\ t \in Nat
    BY <1>1, ReadsAreTicks, Numbers DEF ReadsOf, Reads, Recent
  <2>2. proc[w].spot \in Nat /\ proc[w].since \in Nat
    BY <1>0, Numbers DEF Memory
  <2> QED
    BY <1>5, <2>1, <2>2
<1>7. Called(proc[w])'
  BY <1>0, <1>2, <1>3, <1>4, <1>5, <1>6 DEF Called
<1> QED
  BY <1>2, <1>4, <1>5, <1>7 DEF QuoteFollows, WorkerInOrder

LEMMA AnsweredInOrder ==
  ASSUME DeskInv, TradeInv, [DeskNext]_deskVars, NEW w \in Workers, SettleFor(w), Answered(w)
  PROVE  QuoteFollows(proc[w])' /\ WorkerInOrder(proc[w])'
<1>0. w \in Procs /\ proc[w] \in Memory /\ proc \in [Procs -> Memory] /\ DeskTypeOK /\ ScansInOrder
      /\ WorkerInOrder(proc[w]) /\ proc[w].pc = "deciding" /\ proc[w].call \in Calls
      /\ proc[w].since <= now /\ now \in Nat
  BY DeskNumbers, DeskValues DEF DeskInv, DeskTypeOK, MemoryOK, TradeInv, MemoryInOrder, SettleFor
<1> PICK c \in Calls : c = proc[w].call
  BY <1>0
<1>1. /\ proc'[w].pc = "settled" /\ proc'[w].since = now /\ proc'[w].call = c
      /\ proc'[w].day = proc[w].day /\ proc'[w].spot = proc[w].spot
  BY <1>0 DEF Answered, Step, Memory
<1>2. Called(proc[w]) /\ proc[w].day <= session.day /\ session.st # "none"
  BY <1>0 DEF WorkerInOrder
<1>3. calls'[c].st # "unused" /\ calls'[c].day = calls[c].day /\ calls'[c].created = calls[c].created
  BY <1>0, <1>2, RowsStand DEF Called
<1>4. session' = session
  BY DEF SettleFor
<1>5. calls[c].created <= now
  <2>1. calls[c].created <= proc[w].since
    BY <1>2 DEF Called
  <2>2. calls[c].created \in Nat /\ proc[w].since \in Nat
    BY <1>0, Numbers DEF DeskTypeOK, TypeOK, Memory
  <2> QED
    BY <1>0, <2>1, <2>2
<1>6. Called(proc[w])'
  BY <1>1, <1>2, <1>3, <1>4, <1>5 DEF Called
<1> QED
  BY <1>1, <1>2, <1>4, <1>6 DEF QuoteFollows, WorkerInOrder

LEMMA MemoryInOrderStep ==
  ASSUME DeskInv, TradeInv, [DeskNext]_deskVars
  PROVE  MemoryInOrder'
<1> SUFFICES ASSUME NEW q \in Procs PROVE QuoteFollows(proc[q])' /\ WorkerInOrder(proc[q])'
  BY DEF MemoryInOrder
<1>0. proc \in [Procs -> Memory] /\ Workers \subseteq Procs /\ DeskTypeOK
  BY DeskNumbers DEF DeskInv, DeskTypeOK, MemoryOK
<1>1. CASE proc'[q] = proc[q]
  BY <1>1, MemoryStands
<1>2. CASE proc'[q] # proc[q]
  <2>1. ASSUME NEW p \in Procs, NEW r, Step(p, r) PROVE p = q
    BY <1>0, <1>2, <2>1 DEF Step
  <2>2. ASSUME NEW w \in Workers, Scan(w) PROVE QuoteFollows(proc[q])' /\ WorkerInOrder(proc[q])'
    <3>1. w = q
      BY <1>0, <2>1, <2>2 DEF Scan
    <3> QED
      BY <2>2, <3>1, ScannedInOrder
  <2>3. ASSUME NEW w \in Workers, ReserveFor(w)
        PROVE  QuoteFollows(proc[q])' /\ WorkerInOrder(proc[q])'
    <3>1. w = q
      BY <1>0, <2>1, <2>3 DEF ReserveFor
    <3> QED
      BY <2>3, <3>1, ReservedInOrder
  <2>4. ASSUME NEW w \in Workers, SettleFor(w), Answered(w)
        PROVE  QuoteFollows(proc[q])' /\ WorkerInOrder(proc[q])'
    <3>1. w = q
      BY <1>0, <2>1, <2>4 DEF Answered
    <3> QED
      BY <2>4, <3>1, AnsweredInOrder
  <2>5. ASSUME NEW p \in Procs, MonitorRead(p)
        PROVE  QuoteFollows(proc[q])' /\ WorkerInOrder(proc[q])'
    <3>1. p = q
      BY <2>1, <2>5 DEF MonitorRead
    <3> QED
      BY <2>5, <3>1, ReadInOrder
  <2>6. ASSUME NEW p \in Procs, Monitored(p)
        PROVE  QuoteFollows(proc[q])' /\ WorkerInOrder(proc[q])'
    <3>1. p = q
      BY <2>1, <2>6 DEF Monitored
    <3> QED
      BY <2>6, <3>1, MonitoredInOrder
  <2>7. ASSUME NEW p \in Procs, Forgets(p)
        PROVE  QuoteFollows(proc[q])' /\ WorkerInOrder(proc[q])'
    <3>1. p = q
      BY <2>1, <2>7 DEF Forgets
    <3> QED
      BY <2>7, <3>1, ForgottenInOrder
  <2> QED
    BY <1>0, <1>2, <2>2, <2>3, <2>4, <2>5, <2>6, <2>7, MemorySteps
<1> QED
  BY <1>1, <1>2

LEMMA TradeInit == DeskInit => TradeInv
<1> SUFFICES ASSUME DeskInit PROVE TradeInv
  OBVIOUS
<1>1. \A p \in Procs : proc[p] = Idle /\ Idle.pc = "idle"
  BY DEF DeskInit, Idle
<1>2. ScansInOrder /\ MemoryInOrder
  BY <1>1 DEF ScansInOrder, MemoryInOrder, QuoteFollows, WorkerInOrder
<1> QED
  BY <1>2, DayBookInit DEF TradeInv

LEMMA TradeInvariant == DeskSpec => []TradeInv
<1>1. DeskInv /\ TradeInv /\ [DeskNext]_deskVars => TradeInv'
  BY ScansStep, DayBookStep, MemoryInOrderStep DEF TradeInv, DeskInv
<1> QED
  BY <1>1, TradeInit, DeskInvariant, PTL DEF DeskSpec

\* TradesKept: whatever workers, monitors, kills and operators do, and wherever in
\* the wait for the lock the clocks were read, the trades of a day are made on it and
\* in its window, one after the other with the cooldown between, and counted.
THEOREM TradesAreKept == DeskSpec => []TradesKept
<1>1. DeskInv /\ TradeInv => TradesKept
  <2> SUFFICES ASSUME DeskInv, TradeInv PROVE TradesKept
    OBVIOUS
  <2>1. DayBook
    BY DEF TradeInv
  <2>2. \A c \in Calls : fills[c].bought > 0 =>
          fills[c].in \in EntryWindow /\ DayOf[fills[c].in] = calls[c].day
    BY <2>1 DEF DayBook, Opened
  <2>3. TradesAreSequential
    BY <2>1, <2>2 DEF DayBook, OneByOne, TradesAreSequential
  <2>4. EntriesOf(session.day)
          = {c \in Calls : fills[c].bought > 0 /\ DayOf[fills[c].in] = session.day}
    BY <2>2 DEF EntriesOf
  <2>5. EntriesCounted
    BY <2>1, <2>4 DEF DayBook, EntriesCounted
  <2> QED
    BY <2>2, <2>3, <2>5 DEF TradesKept, EntryOnItsOwnDay
<1> QED
  BY <1>1, DeskInvariant, TradeInvariant, PTL

----------------------------------------------------------------------------
(* The tape.  The study of an answer takes the first row of those that     *)
(* serve, so rows written down later change no outcome once there is one.  *)

\* Rows have a time of the spot and a time they were written down.
Dated == \A k \in DOMAIN tape : k \in Nat /\ tape[k].recorded \in Nat

LEMMA LeastOf ==
  ASSUME NEW S, S \subseteq Nat, S # {}
  PROVE  \E m \in S : \A n \in S : m <= n
<1>1. PICK m \in S : \A n \in S : <<n, m>> \notin OpToRel(<, Nat)
  BY NatLessThanWellFounded, WFMin
<1>2. \A n \in S : ~(n < m)
  BY <1>1 DEF OpToRel
<1> QED  BY <1>2

LEMMA FirstExists ==
  ASSUME Dated, NEW rows, rows \subseteq DOMAIN tape, rows # {}
  PROVE  FirstOf(rows) \in rows /\ \A j \in rows : Sooner(FirstOf(rows), j)
<1> DEFINE times == {n \in Nat : \E k \in rows : tape[k].recorded = n}
<1>1. times # {} /\ times \subseteq Nat
  BY DEF Dated
<1>2. PICK m \in times : \A n \in times : m <= n
  <2> HIDE DEF times
  <2> QED  BY <1>1, LeastOf
<1> DEFINE soonest == {k \in rows : tape[k].recorded = m}
<1>3. soonest # {} /\ soonest \subseteq Nat
  BY <1>2 DEF Dated
<1>4. PICK k \in soonest : \A j \in soonest : k <= j
  <2> HIDE DEF soonest
  <2> QED  BY <1>3, LeastOf
<1>5. \A j \in rows : Sooner(k, j)
  BY <1>2, <1>4 DEF Sooner, Dated
<1> QED  BY <1>4, <1>5 DEF FirstOf

LEMMA FirstIsOne ==
  ASSUME Dated, NEW rows, rows \subseteq DOMAIN tape, NEW k \in rows, \A j \in rows : Sooner(k, j)
  PROVE  FirstOf(rows) = k
<1>1. FirstOf(rows) \in rows /\ Sooner(FirstOf(rows), k) /\ Sooner(k, FirstOf(rows))
  BY FirstExists
<1>2. /\ k \in Nat /\ tape[k].recorded \in Nat
      /\ FirstOf(rows) \in Nat /\ tape[FirstOf(rows)].recorded \in Nat
  BY <1>1 DEF Dated
<1> QED  BY <1>1, <1>2 DEF Sooner

\* The first of a prefix of the tape is the first of all of it.
LEMMA FirstOfPrefix ==
  ASSUME Dated, NEW rows, rows \subseteq DOMAIN tape, NEW t \in Nat, NEW early,
         early = {k \in rows : tape[k].recorded <= t}, early # {}
  PROVE  FirstOf(early) = FirstOf(rows)
<1>1. FirstOf(early) \in early /\ \A j \in early : Sooner(FirstOf(early), j)
  BY FirstExists
<1>2. \A j \in rows : Sooner(FirstOf(early), j)
  <2> SUFFICES ASSUME NEW j \in rows, j \notin early PROVE Sooner(FirstOf(early), j)
    BY <1>1
  <2>1. tape[j].recorded > t /\ tape[FirstOf(early)].recorded <= t
    BY <1>1 DEF Dated
  <2> QED  BY <2>1, <1>1 DEF Sooner, Dated
<1> QED  BY <1>1, <1>2, FirstIsOne

LEMMA StudyOfPrefix ==
  ASSUME Dated, NEW t \in Nat, NEW s, NEW call, NEW horizon, NEW part,
         part = {k \in DOMAIN tape : tape[k].recorded <= t},
         Study(part, s, call, horizon) # <<>>
  PROVE  Study(part, s, call, horizon) = Study(DOMAIN tape, s, call, horizon)
<1> DEFINE end == Min({call.at + EntryDelay, call.created + PlanLife - 1})
           Entries(p) == {k \in QuotesOf(p, s, call.at, end) : tape[k].recorded - k \in 0 .. SnapshotLife}
           ExitFrom(p) == tape[FirstOf(Entries(p))].recorded + horizon
           Exits(p, due) == {k \in QuotesOf(p, s, due, due + QuoteGrace) : tape[k].recorded < SessionCloses}
           all == DOMAIN tape
<1>1. \A p : Study(p, s, call, horizon) =
        IF Entries(p) = {} \/ Exits(p, ExitFrom(p)) = {} THEN <<>>
        ELSE <<FirstOf(Entries(p)), FirstOf(Exits(p, ExitFrom(p)))>>
  BY DEF Study
<1>2. /\ Entries(all) \subseteq all
      /\ Entries(part) = {k \in Entries(all) : tape[k].recorded <= t}
  BY DEF QuotesOf
<1>3. \A due : /\ Exits(all, due) \subseteq all
               /\ Exits(part, due) = {k \in Exits(all, due) : tape[k].recorded <= t}
  BY DEF QuotesOf
<1> HIDE DEF Entries, Exits
<1>4. Entries(part) # {} /\ Exits(part, ExitFrom(part)) # {}
  BY <1>1
<1>5. FirstOf(Entries(part)) = FirstOf(Entries(all))
  BY <1>2, <1>4, FirstOfPrefix
<1>6. ExitFrom(part) = ExitFrom(all)
  BY <1>5
<1>7. FirstOf(Exits(part, ExitFrom(all))) = FirstOf(Exits(all, ExitFrom(all)))
  <2> DEFINE due == ExitFrom(all)
  <2>1. Exits(part, due) # {}
    BY <1>4, <1>6
  <2> HIDE DEF Sale
  <2>2. FirstOf(Exits(part, due)) = FirstOf(Exits(all, due))
    BY <2>1, <1>3, FirstOfPrefix
  <2> QED  BY <2>2
<1>8. Entries(all) # {} /\ Exits(all, ExitFrom(all)) # {}
  BY <1>2, <1>3, <1>4, <1>6
<1> QED  BY <1>1, <1>4, <1>5, <1>6, <1>7, <1>8

----------------------------------------------------------------------------
(* What is tracked is only tracked for longer.  The invariant: whatever an *)
(* answer, or a scan that waits for one, depends on is kept for as long as *)
(* a study or the position may need it; and every round since has asked    *)
(* for it or has listed it as overflow.                                    *)

TrackedOK ==
  /\ DOMAIN tracked \subseteq Symbols
  /\ tracked \in [DOMAIN tracked -> [opened : BOOLEAN, first : Nat, until : Nat]]

RowFields == {"recorded", "live", "candidates", "decision"}
RowShape(r) == r = [f \in RowFields |-> r[f]]
RowsOK ==
  /\ IsFiniteSet(DOMAIN tape)
  /\ \A k \in DOMAIN tape :
       /\ k \in Nat /\ tape[k].recorded \in Nat
       /\ RowShape(tape[k])
       /\ DOMAIN tape[k].candidates \subseteq Symbols
       /\ tape[k].decision # NoDecision => tape[k].candidates = tape[k].decision.on

Paying == worker.step \in {"ask", "settled", "apply"}   \* the scan waits for, or has, its answer
Told == worker.step \in {"settled", "apply"}

ObserverOK ==
  /\ observer = [step |-> observer.step, begun |-> observer.begun, asked |-> observer.asked,
                 overflow |-> observer.overflow]
  /\ observer.step \in {"idle", "fetch"}
  /\ observer.step = "fetch" => observer.begun \in 0 .. minute

WorkerOK ==
  /\ worker = [step |-> worker.step, begun |-> worker.begun, row |-> worker.row,
               candidates |-> worker.candidates, plans |-> worker.plans,
               answered |-> worker.answered]
  /\ worker.step \in {"idle", "read", "ask", "settled", "apply"}
  /\ worker.step # "idle" =>
       /\ worker.begun \in EntryOpens .. minute /\ minute <= worker.begun + OneShot
       /\ DOMAIN worker.candidates \subseteq Symbols
       /\ worker.plans \subseteq Symbols
  /\ Told => worker.answered \in worker.begun .. minute

AnswersOK ==
  /\ IsFiniteSet(answers)
  /\ \A c \in answers :
       /\ c.at \in 0 .. minute /\ c.opened \in -1 .. minute
       /\ c.plans \subseteq Symbols
       /\ c.opened # -1 => c.bought \in Symbols

Positions == {c \in answers : c.opened # -1}
Kept(s, until) == s \in DOMAIN tracked /\ until <= tracked[s].until

Promised ==
  /\ \A c \in answers : \A s \in c.plans : Kept(s, c.at + Window)
  /\ \A c \in Positions : Kept(c.bought, SessionCloses) /\ tracked[c.bought].opened
  /\ \A s \in DOMAIN tracked : tracked[s].opened => \E c \in Positions : c.bought = s
  /\ Paying => \A s \in worker.plans : Kept(s, worker.begun + Window)
  /\ worker.step = "apply" => \A s \in worker.plans : Kept(s, worker.answered + Window)

AskedOf(c, begun, asked, overflow) ==
  /\ begun \in c.at + 1 .. c.at + Window => c.plans \subseteq asked \cup overflow
  /\ c.opened \in 0 .. begun - 1 /\ Cardinality(Positions) <= Capacity => c.bought \in asked

\* What a round has asked for, of the answers there are and of the one to come.
Asks(begun, asked, overflow) ==
  /\ begun \in 0 .. minute
  /\ \A c \in answers : AskedOf(c, begun, asked, overflow)
  /\ Told /\ begun > worker.answered => worker.plans \subseteq asked \cup overflow

RoundsAsk ==
  /\ \A r \in rounds : Asks(r.begun, r.asked, r.overflow)
  /\ observer.step = "fetch" => Asks(observer.begun, observer.asked, observer.overflow)

TapeInv ==
  /\ minute \in 0 .. SessionCloses
  /\ TrackedOK /\ RowsOK /\ ObserverOK /\ WorkerOK /\ AnswersOK /\ Promised /\ RoundsAsk

LEMMA TapeNumbers ==
  /\ {Capacity, OneShot, Window, PositionLife, EntryOpens, SessionCloses} \subseteq Nat
  /\ OneShot <= Window /\ SessionCloses <= EntryOpens + PositionLife
  /\ Symbols \subseteq Nat
BY TapeAssumption DEF Window

LEMMA LaterOfTwo ==
  ASSUME NEW a \in Int, NEW b \in Int
  PROVE  Max({a, b}) \in {a, b} /\ a <= Max({a, b}) /\ b <= Max({a, b})
<1>1. \E m \in {a, b} : \A y \in {a, b} : m >= y
  BY SMT
<1> QED  BY <1>1 DEF Max

\* TrackedFor(): nothing is tracked for less time, and only an opened position's contract
\* becomes one.
LEMMA TrackingLasts ==
  ASSUME TrackedOK, NEW symbols \in SUBSET Symbols, NEW at \in Nat, NEW length \in Nat,
         NEW opened \in BOOLEAN, NEW rows, rows = TrackedFor(tracked, symbols, at, length, opened)
  PROVE  /\ DOMAIN rows = DOMAIN tracked \cup symbols
         /\ rows \in [DOMAIN rows -> [opened : BOOLEAN, first : Nat, until : Nat]]
         /\ \A s \in DOMAIN tracked : tracked[s].until <= rows[s].until
         /\ \A s \in symbols : at + length <= rows[s].until
         /\ \A s \in DOMAIN rows :
              rows[s].opened <=> \/ s \in DOMAIN tracked /\ tracked[s].opened
                                 \/ s \in symbols /\ opened
<1> DEFINE Old(s) == IF s \in DOMAIN tracked THEN tracked[s]
                     ELSE [opened |-> FALSE, first |-> at, until |-> at + length]
           New(s) == [Old(s) EXCEPT !.opened = @ \/ opened, !.until = Max({@, at + length})]
<1>1. rows = [s \in DOMAIN tracked \cup symbols |-> IF s \notin symbols THEN tracked[s] ELSE New(s)]
  BY DEF TrackedFor
<1>2. \A s : Old(s) \in [opened : BOOLEAN, first : Nat, until : Nat]
  BY DEF TrackedOK
<1>3. ASSUME NEW s
      PROVE  /\ New(s) \in [opened : BOOLEAN, first : Nat, until : Nat]
             /\ Old(s).until <= New(s).until /\ at + length <= New(s).until
             /\ New(s).opened <=> (Old(s).opened \/ opened)
  <2> HIDE DEF Old
  <2>1. PICK later : later = Max({Old(s).until, at + length})
    OBVIOUS
  <2>2. later \in Nat /\ Old(s).until <= later /\ at + length <= later
    BY <1>2, <2>1, LaterOfTwo
  <2>3. New(s) = [Old(s) EXCEPT !.opened = Old(s).opened \/ opened, !.until = later]
    BY <1>2, <2>1
  <2> QED  BY <1>2, <2>2, <2>3
<1>4. \A s \in DOMAIN tracked \cup symbols : rows[s] = IF s \notin symbols THEN tracked[s] ELSE New(s)
  BY <1>1
<1>5. DOMAIN rows = DOMAIN tracked \cup symbols
  BY <1>1
<1>6. \A s \in DOMAIN tracked : Old(s) = tracked[s]
  OBVIOUS
<1>7. \A s : s \notin DOMAIN tracked => Old(s).opened = FALSE
  OBVIOUS
<1> HIDE DEF New, Old
<1>8. \A s \in DOMAIN rows : rows[s] \in [opened : BOOLEAN, first : Nat, until : Nat]
  BY <1>3, <1>4, <1>5 DEF TrackedOK
<1>9. rows \in [DOMAIN rows -> [opened : BOOLEAN, first : Nat, until : Nat]]
  BY <1>1, <1>8
<1>10. \A s \in DOMAIN tracked : tracked[s].until <= rows[s].until
  BY <1>3, <1>4, <1>6 DEF TrackedOK
<1>11. \A s \in symbols : at + length <= rows[s].until
  BY <1>3, <1>4
<1>12. ASSUME NEW s \in DOMAIN rows
       PROVE  rows[s].opened <=> \/ s \in DOMAIN tracked /\ tracked[s].opened
                                 \/ s \in symbols /\ opened
  BY <1>3, <1>4, <1>5, <1>6, <1>7
<1> QED  BY <1>5, <1>9, <1>10, <1>11, <1>12

\* What is due is asked for or is listed as overflow.
LEMMA DueIsListed ==
  ASSUME NEW at
  PROVE  Selected(at) \cup (Due(at) \ Selected(at)) = Due(at)
BY DEF Selected

\* Contracts of positions come first, and there are no more of them than positions.
LEMMA PositionIsSelected ==
  ASSUME TapeInv, NEW c \in Positions, Cardinality(Positions) <= Capacity
  PROVE  c.bought \in Selected(minute)
<1> DEFINE b == c.bought
           ahead == {t \in Due(minute) : Precedes(t, b)}
           others == Positions \ {c}
           holder == [s \in ahead |-> CHOOSE d \in Positions : d.bought = s]
<1>1. b \in DOMAIN tracked /\ tracked[b].opened /\ SessionCloses <= tracked[b].until
  BY DEF TapeInv, Promised, Kept
<1>2. b \in Due(minute)
  BY <1>1, TapeNumbers DEF Due, TapeInv, TrackedOK
<1>3. \A s \in ahead : s \in DOMAIN tracked /\ tracked[s].opened /\ s # b
  <2> SUFFICES ASSUME NEW s \in ahead PROVE tracked[s].opened /\ s # b
    BY DEF Due
  <2>1. s \in DOMAIN tracked /\ s \in Nat /\ b \in Nat
    BY <1>1, TapeNumbers DEF Due, TapeInv, TrackedOK
  <2>2. Precedes(s, b)
    OBVIOUS
  <2>3. tracked[s] \in [opened : BOOLEAN, first : Nat, until : Nat]
        /\ tracked[b] \in [opened : BOOLEAN, first : Nat, until : Nat]
    BY <1>1, <2>1 DEF TapeInv, TrackedOK
  <2>4. s # b
    BY <2>1, <2>2, <2>3 DEF Precedes
  <2>5. tracked[s].opened
    BY <1>1, <2>2, <2>3 DEF Precedes
  <2> QED  BY <2>4, <2>5
<1>4. \A s \in ahead : holder[s] \in Positions /\ holder[s].bought = s
  <2> SUFFICES ASSUME NEW s \in ahead PROVE holder[s] \in Positions /\ holder[s].bought = s
    OBVIOUS
  <2>1. \E d \in Positions : d.bought = s
    BY <1>3 DEF TapeInv, Promised
  <2> QED  BY <2>1
<1>5. holder \in Injection(ahead, others)
  <2> HIDE DEF ahead
  <2>1. \A s \in ahead : holder[s] \in others
    BY <1>3, <1>4
  <2>2. holder \in [ahead -> others]
    BY <2>1
  <2>3. \A s, t \in ahead : holder[s] = holder[t] => s = t
    BY <1>4
  <2> QED  BY <2>2, <2>3 DEF Injection, IsInjective
<1>6. IsFiniteSet(Positions)
  BY FS_Subset DEF TapeInv, AnswersOK, Positions
<1>7. IsFiniteSet(others) /\ Cardinality(others) = Cardinality(Positions) - 1
  BY <1>6, FS_RemoveElement
<1>8. Cardinality(ahead) <= Cardinality(others) /\ IsFiniteSet(ahead)
  <2> HIDE DEF ahead, others, holder
  <2> QED  BY <1>5, <1>7, FS_Injection
<1>9. Cardinality(ahead) \in Nat /\ Cardinality(Positions) \in Nat
  BY <1>6, <1>8, FS_CardinalityType
<1>10. Cardinality(ahead) < Capacity
  BY <1>7, <1>8, <1>9, TapeNumbers
<1> QED  BY <1>2, <1>10 DEF Selected

----------------------------------------------------------------------------
(* Every step keeps the invariant.                                         *)

TracksOn ==
  /\ TrackedOK'
  /\ \A s \in DOMAIN tracked : s \in DOMAIN tracked' /\ tracked[s].until <= tracked'[s].until
OpensNothing ==
  \A s \in DOMAIN tracked' : tracked'[s].opened <=> s \in DOMAIN tracked /\ tracked[s].opened

LEMMA TrackTracksOn ==
  ASSUME TapeInv, NEW symbols \in SUBSET Symbols, NEW at \in Nat, tracked' = Track(tracked, symbols, at)
  PROVE  TracksOn /\ OpensNothing /\ \A s \in symbols : Kept(s, at + Window)'
<1> PICK opened \in BOOLEAN : opened = FALSE
  OBVIOUS
<1>1. tracked' = TrackedFor(tracked, symbols, at, Window, opened)
  BY DEF Track
<1>2. TrackedOK /\ Window \in Nat
  BY TapeNumbers DEF TapeInv
<1> PICK rows : rows = tracked'
  OBVIOUS
<1>3. /\ DOMAIN rows = DOMAIN tracked \cup symbols
      /\ rows \in [DOMAIN rows -> [opened : BOOLEAN, first : Nat, until : Nat]]
      /\ \A s \in DOMAIN tracked : tracked[s].until <= rows[s].until
      /\ \A s \in symbols : at + Window <= rows[s].until
      /\ \A s \in DOMAIN rows :
           rows[s].opened <=> \/ s \in DOMAIN tracked /\ tracked[s].opened
                              \/ s \in symbols /\ opened
  BY <1>1, <1>2, TrackingLasts
<1> QED  BY <1>2, <1>3 DEF TracksOn, OpensNothing, TrackedOK, Kept

LEMMA KeptOn ==
  ASSUME TapeInv, TracksOn, NEW s, NEW until \in Int, Kept(s, until)
  PROVE  Kept(s, until)'
<1>1. s \in DOMAIN tracked' /\ tracked[s].until \in Nat /\ tracked'[s].until \in Nat
      /\ until <= tracked[s].until /\ tracked[s].until <= tracked'[s].until
  BY DEF TapeInv, TrackedOK, TracksOn, Kept
<1>2. until <= tracked'[s].until
  BY <1>1
<1> QED  BY <1>1, <1>2 DEF Kept

\* What was promised of the answers stays so, as long as no position is opened.
LEMMA PromisesLast ==
  ASSUME TapeInv, TracksOn, OpensNothing, answers' = answers
  PROVE  /\ \A c \in answers : \A s \in c.plans : Kept(s, c.at + Window)'
         /\ \A c \in Positions : Kept(c.bought, SessionCloses)' /\ tracked'[c.bought].opened
         /\ \A s \in DOMAIN tracked' : tracked'[s].opened => \E c \in Positions : c.bought = s
         /\ Positions' = Positions
<1>1. ASSUME NEW c \in answers, NEW s \in c.plans PROVE Kept(s, c.at + Window)'
  <2>1. c.at + Window \in Int /\ Kept(s, c.at + Window)
    BY TapeNumbers DEF TapeInv, AnswersOK, Promised
  <2> QED  BY <2>1, KeptOn
<1>2. ASSUME NEW c \in Positions PROVE Kept(c.bought, SessionCloses)' /\ tracked'[c.bought].opened
  <2>1. SessionCloses \in Int /\ Kept(c.bought, SessionCloses) /\ tracked[c.bought].opened
    BY TapeNumbers DEF TapeInv, Promised
  <2>2. Kept(c.bought, SessionCloses)'
    BY <2>1, KeptOn
  <2> QED  BY <2>1, <2>2 DEF Kept, OpensNothing
<1>3. \A s \in DOMAIN tracked' : tracked'[s].opened => \E c \in Positions : c.bought = s
  BY DEF OpensNothing, TapeInv, Promised
<1> QED  BY <1>1, <1>2, <1>3 DEF Positions

LEMMA BeginRoundStep == ASSUME TapeInv, BeginRound PROVE TapeInv'
<1>1. UNCHANGED <<minute, tape, tracked, worker, answers, rounds>>
      /\ observer' = [step |-> "fetch", begun |-> minute, asked |-> Selected(minute),
                      overflow |-> Due(minute) \ Selected(minute)]
  BY DEF BeginRound
<1>2. /\ minute' \in 0 .. SessionCloses
      /\ TrackedOK' /\ RowsOK' /\ WorkerOK' /\ AnswersOK' /\ Promised'
  BY <1>1 DEF TapeInv, TrackedOK, RowsOK, WorkerOK, AnswersOK, Promised, Kept, Positions, Told, Paying
<1>3. ObserverOK'
  BY <1>1 DEF ObserverOK, TapeInv
<1>4. minute \in Nat
  BY TapeNumbers DEF TapeInv
<1>5. Asks(minute, Selected(minute), Due(minute) \ Selected(minute))
  <2>1. ASSUME NEW s, NEW until \in Int, Kept(s, until), minute <= until PROVE s \in Due(minute)
    BY <1>4, <2>1 DEF Due, Kept, TapeInv, TrackedOK
  <2>2. ASSUME NEW c \in answers
        PROVE  AskedOf(c, minute, Selected(minute), Due(minute) \ Selected(minute))
    <3>1. ASSUME minute \in c.at + 1 .. c.at + Window
          PROVE  c.plans \subseteq Selected(minute) \cup (Due(minute) \ Selected(minute))
      <4>1. c.at + Window \in Int /\ \A s \in c.plans : Kept(s, c.at + Window)
        BY TapeNumbers DEF TapeInv, AnswersOK, Promised
      <4> QED  BY <3>1, <4>1, <2>1, DueIsListed
    <3>2. ASSUME c.opened \in 0 .. minute - 1, Cardinality(Positions) <= Capacity
          PROVE  c.bought \in Selected(minute)
      <4>1. c \in Positions
        BY <3>2 DEF Positions
      <4> QED  BY <3>2, <4>1, PositionIsSelected
    <3> QED  BY <3>1, <3>2 DEF AskedOf
  <2>3. ASSUME Told PROVE worker.plans \subseteq Selected(minute) \cup (Due(minute) \ Selected(minute))
    <3>1. worker.begun \in Int /\ minute <= worker.begun + OneShot
      BY <2>3, TapeNumbers DEF TapeInv, WorkerOK, Told
    <3>2. \A s \in worker.plans : Kept(s, worker.begun + Window)
      BY <2>3 DEF TapeInv, Promised, Told, Paying
    <3>3. worker.begun + Window \in Int /\ minute <= worker.begun + Window
      BY <1>4, <3>1, TapeNumbers
    <3> QED  BY <2>1, <3>2, <3>3, DueIsListed
  <2> QED  BY <1>4, <2>2, <2>3 DEF Asks
<1>6. RoundsAsk'
  <2>1. \A r \in rounds : Asks(r.begun, r.asked, r.overflow)
    BY DEF TapeInv, RoundsAsk
  <2> QED  BY <1>1, <1>5, <2>1 DEF RoundsAsk, Asks, AskedOf, Positions, Told
<1> QED  BY <1>2, <1>3, <1>6 DEF TapeInv

LEMMA RecordRoundStep ==
  ASSUME TapeInv, NEW quoted \in SUBSET Symbols, RecordRound(quoted)
  PROVE  TapeInv'
<1> DEFINE near == Near[observer.begun]
           at == SpotAt[minute]
           fetched == Fetched(quoted)
<1>1. /\ UNCHANGED <<minute, worker, answers>>
      /\ observer.step = "fetch"
      /\ tracked' = Track(tracked, quoted \cap near, observer.begun)
      /\ tape' = TapeWith(at, Observed(RowAt(at), fetched))
      /\ rounds' = rounds \cup
           {[begun |-> observer.begun, asked |-> observer.asked, overflow |-> observer.overflow]}
      /\ observer' = [Watching EXCEPT !.begun = observer.begun]
  BY DEF RecordRound
<1>2. minute \in Minutes /\ minute \in Nat /\ observer.begun \in Nat
  BY <1>1, TapeNumbers DEF TapeInv, ObserverOK, Minutes
<1>3. TracksOn /\ OpensNothing
  BY <1>1, <1>2, TrackTracksOn
<1>4. at \in Nat
  BY <1>2, TapeAssumption
<1>5. RowsOK'
  <2>1. DOMAIN fetched = quoted
    BY DEF Fetched
  <2> DEFINE old == RowAt(at)
             new == Observed(old, fetched)
  <2>2. /\ old.recorded \in Nat
        /\ RowShape(old)
        /\ DOMAIN old.candidates \subseteq Symbols
        /\ old.decision # NoDecision => old.candidates = old.decision.on
    <3>1. CASE at \in DOMAIN tape
      BY <3>1 DEF RowAt, TapeInv, RowsOK
    <3>2. CASE at \notin DOMAIN tape
      <4>1. old = [recorded |-> minute, live |-> FALSE, candidates |-> <<>>, decision |-> NoDecision]
        BY <3>2 DEF RowAt
      <4>2. DOMAIN <<>> = {}
        OBVIOUS
      <4> QED  BY <1>2, <4>1, <4>2 DEF RowFields, RowShape
    <3> QED  BY <3>1, <3>2
  <2> HIDE DEF old, fetched
  <2>3. /\ new.recorded \in Nat
        /\ RowShape(new)
        /\ DOMAIN new.candidates \subseteq Symbols
        /\ new.decision # NoDecision => new.candidates = new.decision.on
    <3> DEFINE x == IF old.decision = NoDecision THEN fetched ELSE old.candidates
    <3>1. new = [old EXCEPT !.candidates = x, !.live = TRUE]
      BY <2>2 DEF Observed, RowFields, RowShape
    <3> HIDE DEF new, x
    <3>2. /\ RowShape(new)
          /\ new.recorded = old.recorded /\ new.candidates = x /\ new.decision = old.decision
      BY <2>2, <3>1 DEF RowFields, RowShape
    <3> QED  BY <2>1, <2>2, <3>2 DEF x
  <2> HIDE DEF new
  <2>4. tape' = TapeWith(at, new)
    BY <1>1 DEF new, old
  <2>5. /\ DOMAIN tape' = DOMAIN tape \cup {at} /\ tape'[at] = new
        /\ \A k \in DOMAIN tape : k # at => tape'[k] = tape[k]
    BY <2>4 DEF TapeWith
  <2>6. IsFiniteSet(DOMAIN tape')
    BY <2>5, FS_AddElement DEF TapeInv, RowsOK
  <2>7. ASSUME NEW k \in DOMAIN tape'
        PROVE  /\ k \in Nat /\ tape'[k].recorded \in Nat
               /\ RowShape(tape'[k])
               /\ DOMAIN tape'[k].candidates \subseteq Symbols
               /\ tape'[k].decision # NoDecision => tape'[k].candidates = tape'[k].decision.on
    <3>1. CASE k = at  BY <3>1, <1>4, <2>3, <2>5
    <3>2. CASE k # at  BY <3>2, <2>5 DEF TapeInv, RowsOK
    <3> QED  BY <3>1, <3>2
  <2> QED  BY <2>6, <2>7 DEF RowsOK
<1>6. WorkerOK' /\ AnswersOK'
  BY <1>1 DEF TapeInv, WorkerOK, AnswersOK, Told
<1>7. ObserverOK'
  BY <1>1 DEF ObserverOK, Watching
<1>8. Promised'
  <2> PICK w : w = worker
    OBVIOUS
  <2>1. Paying => \A s \in w.plans : Kept(s, w.begun + Window)'
    <3> SUFFICES ASSUME Paying, NEW s \in w.plans PROVE Kept(s, w.begun + Window)'
      OBVIOUS
    <3>1. w.begun + Window \in Int /\ Kept(s, w.begun + Window)
      BY TapeNumbers DEF TapeInv, Promised, WorkerOK, Paying
    <3> QED  BY <1>3, <3>1, KeptOn
  <2>2. w.step = "apply" => \A s \in w.plans : Kept(s, w.answered + Window)'
    <3> SUFFICES ASSUME w.step = "apply", NEW s \in w.plans PROVE Kept(s, w.answered + Window)'
      OBVIOUS
    <3>1. w.answered + Window \in Int /\ Kept(s, w.answered + Window)
      BY TapeNumbers DEF TapeInv, Promised, WorkerOK, Told
    <3> QED  BY <1>3, <3>1, KeptOn
  <2>3. worker' = w /\ answers' = answers /\ (Paying' <=> Paying)
    BY <1>1 DEF Paying
  <2> QED  BY <1>1, <1>3, <2>1, <2>2, <2>3, PromisesLast DEF Promised
<1>9. RoundsAsk'
  <2>1. ASSUME NEW begun, NEW asked, NEW overflow, Asks(begun, asked, overflow)
        PROVE  Asks(begun, asked, overflow)'
    BY <1>1, <2>1 DEF Asks, AskedOf, Positions, Told
  <2>2. ASSUME NEW r \in rounds' PROVE Asks(r.begun, r.asked, r.overflow)
    <3>1. CASE r \in rounds
      BY <3>1 DEF TapeInv, RoundsAsk
    <3>2. CASE r \notin rounds
      <4>1. r.begun = observer.begun /\ r.asked = observer.asked /\ r.overflow = observer.overflow
        BY <1>1, <3>2
      <4>2. Asks(observer.begun, observer.asked, observer.overflow)
        BY <1>1 DEF TapeInv, RoundsAsk
      <4> QED  BY <4>1, <4>2
    <3> QED  BY <3>1, <3>2
  <2>3. observer'.step = "idle"
    BY <1>1 DEF Watching
  <2> QED  BY <2>1, <2>2, <2>3 DEF RoundsAsk
<1> QED  BY <1>1, <1>3, <1>5, <1>6, <1>7, <1>8, <1>9 DEF TapeInv, TracksOn

LEMMA LoseRoundStep == ASSUME TapeInv, LoseRound PROVE TapeInv'
BY DEF LoseRound, Watching, TapeInv, TrackedOK, RowsOK, ObserverOK, WorkerOK, AnswersOK, Promised,
       RoundsAsk, Asks, AskedOf, Kept, Positions, Told, Paying

LEMMA ReadSnapshotStep == ASSUME TapeInv, ReadSnapshot PROVE TapeInv'
<1>1. /\ UNCHANGED <<minute, tape, tracked, observer, answers, rounds>>
      /\ minute >= EntryOpens /\ LiveRows # {}
      /\ worker' = [Waiting EXCEPT !.step = "read", !.begun = minute, !.row = Max(LiveRows),
                                   !.candidates = tape[Max(LiveRows)].candidates]
  BY DEF ReadSnapshot
<1>2. Max(LiveRows) \in DOMAIN tape
  <2>1. IsFiniteSet(LiveRows) /\ LiveRows \subseteq DOMAIN tape /\ \A k \in LiveRows : k \in Int
    BY FS_Subset DEF LiveRows, TapeInv, RowsOK
  <2>2. \E m \in LiveRows : \A k \in LiveRows : m >= k
    BY <1>1, <2>1, Largest
  <2> QED  BY <2>1, <2>2 DEF Max
<1>3. WorkerOK'
  <2>1. minute \in EntryOpens .. minute /\ minute <= minute + OneShot
    BY <1>1, TapeNumbers DEF TapeInv
  <2>2. DOMAIN tape[Max(LiveRows)].candidates \subseteq Symbols
    BY <1>2 DEF TapeInv, RowsOK
  <2> QED  BY <1>1, <2>1, <2>2 DEF WorkerOK, Waiting, Told
<1>4. TrackedOK' /\ RowsOK' /\ ObserverOK' /\ AnswersOK'
  BY <1>1 DEF TapeInv, TrackedOK, RowsOK, ObserverOK, AnswersOK
<1>5. Promised' /\ RoundsAsk'
  BY <1>1 DEF TapeInv, Promised, RoundsAsk, Asks, AskedOf, Kept, Positions, Told, Paying, Waiting
<1> QED  BY <1>1, <1>3, <1>4, <1>5 DEF TapeInv

LEMMA RecordScanStep ==
  ASSUME TapeInv, NEW plans \in SUBSET Symbols, NEW asks \in BOOLEAN, RecordScan(plans, asks)
  PROVE  TapeInv'
<1> DEFINE near == {s \in DOMAIN worker.candidates : worker.candidates[s].near}
<1>1. /\ UNCHANGED <<minute, observer, answers, rounds>>
      /\ worker.step = "read" /\ plans \subseteq near
      /\ tracked' = Track(tracked, near, minute)
      /\ tape' = [tape EXCEPT ![worker.row] = Decided(@, worker.candidates, plans)]
      /\ worker' = IF asks THEN [worker EXCEPT !.step = "ask", !.plans = plans]
                   ELSE [Waiting EXCEPT !.begun = worker.begun]
  BY DEF RecordScan
<1>2. near \subseteq Symbols /\ DOMAIN worker.candidates \subseteq Symbols
      /\ worker.begun \in EntryOpens .. minute /\ minute <= worker.begun + OneShot
  BY <1>1 DEF TapeInv, WorkerOK
<1>3. minute \in Nat /\ worker.begun \in Nat
  BY <1>2, TapeNumbers DEF TapeInv
<1>4. TracksOn /\ OpensNothing /\ \A s \in near : Kept(s, minute + Window)'
  <2> HIDE DEF near
  <2> QED  BY <1>1, <1>2, <1>3, TrackTracksOn
<1>5. RowsOK'
  <2> DEFINE new == Decided(tape[worker.row], worker.candidates, plans)
  <2>1. /\ DOMAIN tape' = DOMAIN tape
        /\ \A k \in DOMAIN tape : tape'[k] = IF k = worker.row THEN new ELSE tape[k]
    BY <1>1
  <2>2. ASSUME worker.row \in DOMAIN tape
        PROVE  /\ new.recorded \in Nat
               /\ RowShape(new)
               /\ DOMAIN new.candidates \subseteq Symbols
               /\ new.candidates = new.decision.on
    <3> DEFINE decision == [plans |-> plans, on |-> worker.candidates]
    <3>1. /\ tape[worker.row].recorded \in Nat
          /\ RowShape(tape[worker.row])
      BY <2>2 DEF TapeInv, RowsOK
    <3>2. new = [tape[worker.row] EXCEPT !.candidates = worker.candidates, !.decision = decision]
      BY DEF Decided
    <3>3. decision.on = worker.candidates
      OBVIOUS
    <3> HIDE DEF new, decision
    <3>4. /\ RowShape(new) /\ new.recorded = tape[worker.row].recorded
          /\ new.candidates = worker.candidates /\ new.decision = decision
      BY <3>1, <3>2 DEF RowFields, RowShape
    <3> QED  BY <1>2, <3>1, <3>3, <3>4
  <2> HIDE DEF new
  <2> QED  BY <2>1, <2>2 DEF TapeInv, RowsOK
<1>6. WorkerOK'
  <2>1. CASE asks
    <3>1. worker' = [worker EXCEPT !.step = "ask", !.plans = plans]
      BY <1>1, <2>1
    <3> QED  BY <1>1, <1>2, <3>1 DEF TapeInv, WorkerOK, Told
  <2>2. CASE ~asks
    BY <1>1, <2>2 DEF WorkerOK, Told, Waiting
  <2> QED  BY <2>1, <2>2
<1>7. ObserverOK' /\ AnswersOK'
  BY <1>1 DEF TapeInv, ObserverOK, AnswersOK
<1>8. Promised'
  <2> PICK w : w = worker
    OBVIOUS
  <2>1. ASSUME NEW s \in plans PROVE Kept(s, w.begun + Window)'
    <3>1. s \in DOMAIN tracked' /\ minute + Window <= tracked'[s].until /\ tracked'[s].until \in Nat
      BY <1>1, <1>4 DEF Kept, TracksOn, TrackedOK
    <3>2. w.begun + Window <= tracked'[s].until
      BY <1>2, <1>3, <3>1, TapeNumbers
    <3> QED  BY <3>1, <3>2 DEF Kept
  <2>3. Paying' => worker'.plans = plans /\ worker'.begun = w.begun
    BY <1>1 DEF Paying, Waiting, TapeInv, WorkerOK
  <2>2. worker'.step # "apply"
    BY <1>1 DEF Waiting, TapeInv, WorkerOK
  <2> QED  BY <1>1, <1>4, <2>1, <2>2, <2>3, PromisesLast DEF Promised
<1>9. RoundsAsk'
  <2>1. ~Told'
    BY <1>1 DEF Told, Waiting, TapeInv, WorkerOK
  <2> QED  BY <1>1, <2>1 DEF TapeInv, RoundsAsk, Asks, AskedOf, Positions
<1> QED  BY <1>1, <1>4, <1>5, <1>6, <1>7, <1>8, <1>9 DEF TapeInv, TracksOn

LEMMA AnswerStep == ASSUME TapeInv, Answer PROVE TapeInv'
<1>1. UNCHANGED <<minute, tape, tracked, observer, answers, rounds>>
      /\ worker.step = "ask" /\ worker' = [worker EXCEPT !.step = "settled", !.answered = minute]
  BY DEF Answer
<1>2. /\ worker'.step = "settled" /\ worker'.answered = minute /\ worker'.begun = worker.begun
      /\ worker'.plans = worker.plans
  BY <1>1 DEF TapeInv, WorkerOK
<1>3. minute \in Nat
  BY TapeNumbers DEF TapeInv
<1>4. WorkerOK'
  <2>1. /\ worker' = [step |-> worker'.step, begun |-> worker'.begun, row |-> worker'.row,
                      candidates |-> worker'.candidates, plans |-> worker'.plans,
                      answered |-> worker'.answered]
        /\ worker'.candidates = worker.candidates
    BY <1>1 DEF TapeInv, WorkerOK
  <2>2. /\ worker.begun \in EntryOpens .. minute /\ minute <= worker.begun + OneShot
        /\ DOMAIN worker.candidates \subseteq Symbols /\ worker.plans \subseteq Symbols
    BY <1>1 DEF TapeInv, WorkerOK
  <2>3. minute \in worker.begun .. minute
    BY <1>3, <2>2, TapeNumbers
  <2> QED  BY <1>1, <1>2, <2>1, <2>2, <2>3 DEF WorkerOK
<1>5. TrackedOK' /\ RowsOK' /\ ObserverOK' /\ AnswersOK'
  BY <1>1 DEF TapeInv, TrackedOK, RowsOK, ObserverOK, AnswersOK
<1>6. Promised'
  BY <1>1, <1>2 DEF TapeInv, Promised, Kept, Positions, Paying
<1>7. RoundsAsk'
  <2>1. ASSUME NEW begun, NEW asked, NEW overflow, Asks(begun, asked, overflow)
        PROVE  Asks(begun, asked, overflow)'
    BY <1>1, <1>2, <1>3, <2>1 DEF Asks, AskedOf, Positions
  <2> QED  BY <1>1, <2>1 DEF TapeInv, RoundsAsk
<1> QED  BY <1>1, <1>4, <1>5, <1>6, <1>7 DEF TapeInv

LEMMA TrackAnswerStep == ASSUME TapeInv, TrackAnswer PROVE TapeInv'
<1>1. UNCHANGED <<minute, tape, observer, answers, rounds>>
      /\ worker.step = "settled" /\ worker' = [worker EXCEPT !.step = "apply"]
      /\ tracked' = Track(tracked, worker.plans, minute)
  BY DEF TrackAnswer
<1> PICK w : w = worker
  OBVIOUS
<1>2. /\ worker'.step = "apply" /\ worker'.answered = w.answered /\ worker'.begun = w.begun
      /\ worker'.plans = w.plans
  BY <1>1 DEF TapeInv, WorkerOK
<1>3. /\ minute \in Nat /\ w.plans \subseteq Symbols /\ w.begun \in Nat /\ w.answered \in Nat
      /\ w.answered <= minute /\ w.begun <= minute
  BY <1>1, TapeNumbers DEF TapeInv, WorkerOK, Told
<1>4. TracksOn /\ OpensNothing /\ \A s \in w.plans : Kept(s, minute + Window)'
  BY <1>1, <1>3, TrackTracksOn
<1>5. WorkerOK'
  BY <1>1 DEF TapeInv, WorkerOK, Told
<1>6. RowsOK' /\ ObserverOK' /\ AnswersOK'
  BY <1>1 DEF TapeInv, RowsOK, ObserverOK, AnswersOK
<1>7. Promised'
  <2>1. ASSUME NEW s \in w.plans, NEW until \in Int, until <= minute + Window PROVE Kept(s, until)'
    <3>1. s \in DOMAIN tracked' /\ minute + Window <= tracked'[s].until /\ tracked'[s].until \in Nat
      BY <1>1, <1>4 DEF Kept, TracksOn, TrackedOK
    <3> QED  BY <2>1, <3>1, <1>3, TapeNumbers DEF Kept
  <2>2. \A s \in w.plans : Kept(s, w.begun + Window)' /\ Kept(s, w.answered + Window)'
    <3>1. /\ w.begun + Window \in Int /\ w.begun + Window <= minute + Window
          /\ w.answered + Window \in Int /\ w.answered + Window <= minute + Window
      BY <1>3, TapeNumbers
    <3> QED  BY <2>1, <3>1
  <2> QED  BY <1>1, <1>2, <1>4, <2>2, PromisesLast DEF Promised
<1>8. RoundsAsk'
  <2>1. ASSUME NEW begun, NEW asked, NEW overflow, Asks(begun, asked, overflow)
        PROVE  Asks(begun, asked, overflow)'
    BY <1>1, <1>2, <2>1 DEF Asks, AskedOf, Positions, Told
  <2> QED  BY <1>1, <2>1 DEF TapeInv, RoundsAsk
<1> QED  BY <1>1, <1>4, <1>5, <1>6, <1>7, <1>8 DEF TapeInv, TracksOn

\* An answer is concluded: its plans are kept as long as a study needs them, and every
\* round since has asked for them; and if it opens a position, that is kept to the close.
LEMMA ConcludeStep ==
  ASSUME TapeInv, NEW bought, NEW opened, Concludes(bought, opened), TracksOn,
         opened = -1 \/ (opened = minute /\ bought \in worker.plans),
         opened # -1 => Kept(bought, SessionCloses)',
         \A s \in DOMAIN tracked' :
           tracked'[s].opened <=> \/ s \in DOMAIN tracked /\ tracked[s].opened
                                  \/ opened # -1 /\ s = bought
  PROVE  TapeInv'
<1> PICK new : new = [at |-> worker.answered, created |-> worker.begun, plans |-> worker.plans,
                      bought |-> bought, opened |-> opened]
  OBVIOUS
<1>1. /\ UNCHANGED <<minute, tape, observer, rounds>> /\ worker.step = "apply"
      /\ answers' = answers \cup {new} /\ worker' = [Waiting EXCEPT !.begun = worker.begun]
  BY DEF Concludes
<1>2. /\ new.at = worker.answered /\ new.plans = worker.plans /\ new.bought = bought
      /\ new.opened = opened
  OBVIOUS
<1>3. /\ minute \in Nat /\ new.at \in 0 .. minute /\ new.plans \subseteq Symbols
  BY <1>1, <1>2, TapeNumbers DEF TapeInv, WorkerOK, Told
<1>4. worker'.step = "idle"
  BY <1>1 DEF Waiting
<1>5. RowsOK' /\ ObserverOK'
  BY <1>1 DEF TapeInv, RowsOK, ObserverOK
<1>6. WorkerOK'
  BY <1>1 DEF WorkerOK, Waiting, Told
<1>7. AnswersOK'
  <2>1. new.opened \in -1 .. minute /\ (new.opened # -1 => new.bought \in Symbols)
    BY <1>2, <1>3
  <2>2. IsFiniteSet(answers')
    BY <1>1, FS_AddElement DEF TapeInv, AnswersOK
  <2> QED  BY <1>1, <1>3, <2>1, <2>2 DEF TapeInv, AnswersOK
<1>8. Positions' = Positions \cup {c \in {new} : opened # -1}
  BY <1>1, <1>2 DEF Positions
<1>9. Promised'
  <2>1. ASSUME NEW c \in answers' PROVE \A s \in c.plans : Kept(s, c.at + Window)'
    <3> SUFFICES ASSUME NEW s \in c.plans PROVE Kept(s, c.at + Window)'
      OBVIOUS
    <3>1. c.at + Window \in Int
      BY <1>1, <1>3, TapeNumbers DEF TapeInv, AnswersOK
    <3>2. Kept(s, c.at + Window)
      BY <1>1, <1>2 DEF TapeInv, Promised
    <3> QED  BY <3>1, <3>2, KeptOn
  <2>2. ASSUME NEW c \in Positions' PROVE Kept(c.bought, SessionCloses)' /\ tracked'[c.bought].opened
    <3>1. CASE c \in Positions
      <4>1. SessionCloses \in Int /\ Kept(c.bought, SessionCloses) /\ tracked[c.bought].opened
        BY <3>1, TapeNumbers DEF TapeInv, Promised
      <4>2. Kept(c.bought, SessionCloses)'
        BY <4>1, KeptOn
      <4> QED  BY <4>1, <4>2 DEF Kept
    <3>2. CASE c \notin Positions
      <4>1. c.bought = bought /\ opened # -1
        BY <1>2, <1>8, <3>2
      <4> QED  BY <4>1 DEF Kept
    <3> QED  BY <3>1, <3>2
  <2>3. ASSUME NEW s \in DOMAIN tracked', tracked'[s].opened PROVE \E c \in Positions' : c.bought = s
    <3>1. CASE s \in DOMAIN tracked /\ tracked[s].opened
      BY <1>8, <3>1 DEF TapeInv, Promised
    <3>2. CASE opened # -1 /\ s = bought
      BY <1>2, <1>8, <3>2
    <3> QED  BY <2>3, <3>1, <3>2
  <2> QED  BY <1>4, <2>1, <2>2, <2>3 DEF Promised, Paying
<1>10. RoundsAsk'
  <2>1. Cardinality(Positions') <= Capacity => Cardinality(Positions) <= Capacity
    <3>1. IsFiniteSet(Positions') /\ Positions \subseteq Positions'
      BY <1>7, <1>8, FS_Subset DEF AnswersOK, Positions
    <3>2. /\ Cardinality(Positions) <= Cardinality(Positions') /\ Cardinality(Positions) \in Nat
          /\ Cardinality(Positions') \in Nat
      BY <3>1, FS_Subset, FS_CardinalityType
    <3> QED  BY <3>2, TapeNumbers
  <2>2. ASSUME NEW begun, NEW asked, NEW overflow, Asks(begun, asked, overflow)
        PROVE  Asks(begun, asked, overflow)'
    <3>1. begun \in 0 .. minute
      BY <2>2 DEF Asks
    <3>2. ASSUME NEW c \in answers' PROVE AskedOf(c, begun, asked, overflow)'
      <4>1. CASE c \in answers
        BY <2>1, <2>2, <4>1 DEF Asks, AskedOf
      <4>2. CASE c = new
        <5>1. ~(new.opened \in 0 .. begun - 1)
          BY <1>2, <1>3, <3>1
        <5>2. begun \in new.at + 1 .. new.at + Window => new.plans \subseteq asked \cup overflow
          BY <1>1, <1>2, <1>3, <2>2, <3>1, TapeNumbers DEF Asks, Told
        <5> QED  BY <4>2, <5>1, <5>2 DEF AskedOf
      <4> QED  BY <1>1, <4>1, <4>2
    <3> QED  BY <1>1, <1>4, <3>1, <3>2 DEF Asks, Told
  <2> QED  BY <1>1, <2>2 DEF TapeInv, RoundsAsk
<1> QED  BY <1>1, <1>5, <1>6, <1>7, <1>9, <1>10 DEF TapeInv, TracksOn

LEMMA ApplyAnswerStep == ASSUME TapeInv, ApplyAnswer PROVE TapeInv'
<1>1. CASE Concludes(0, -1) /\ UNCHANGED tracked
  <2>1. TracksOn
    BY <1>1 DEF TapeInv, TrackedOK, TracksOn
  <2>2. \A s \in DOMAIN tracked' :
          tracked'[s].opened <=> \/ s \in DOMAIN tracked /\ tracked[s].opened
                                 \/ -1 # -1 /\ s = 0
    BY <1>1
  <2> QED  BY <1>1, <2>1, <2>2, ConcludeStep
<1>2. ASSUME NEW s \in worker.plans, Concludes(s, minute),
             tracked' = TrackedFor(tracked, {s}, minute, PositionLife, TRUE)
      PROVE  TapeInv'
  <2>1. worker.step = "apply"
    BY <1>2 DEF Concludes
  <2>2. /\ minute \in Nat /\ s \in Symbols /\ TrackedOK
        /\ SessionCloses <= minute + PositionLife
    BY <2>1, TapeNumbers DEF TapeInv, WorkerOK
  <2> PICK opened \in BOOLEAN : opened = TRUE
    OBVIOUS
  <2> PICK rows : rows = tracked'
    OBVIOUS
  <2>3. /\ {s} \in SUBSET Symbols /\ PositionLife \in Nat
        /\ rows = TrackedFor(tracked, {s}, minute, PositionLife, opened)
    BY <1>2, <2>2, TapeNumbers
  <2>4. /\ DOMAIN rows = DOMAIN tracked \cup {s}
        /\ rows \in [DOMAIN rows -> [opened : BOOLEAN, first : Nat, until : Nat]]
        /\ \A t \in DOMAIN tracked : tracked[t].until <= rows[t].until
        /\ \A t \in {s} : minute + PositionLife <= rows[t].until
        /\ \A t \in DOMAIN rows :
             rows[t].opened <=> \/ t \in DOMAIN tracked /\ tracked[t].opened
                                \/ t \in {s} /\ opened
    BY <2>2, <2>3, TrackingLasts
  <2>5. TracksOn
    BY <2>2, <2>4 DEF TracksOn, TrackedOK
  <2>6. Kept(s, SessionCloses)'
    <3>1. s \in DOMAIN rows /\ minute + PositionLife <= rows[s].until /\ rows[s].until \in Nat
      BY <2>4
    <3>2. SessionCloses <= rows[s].until
      BY <2>2, <3>1, TapeNumbers
    <3> QED  BY <3>1, <3>2 DEF Kept
  <2>7. minute # -1
    BY <2>2
  <2>8. \A t \in DOMAIN tracked' :
          tracked'[t].opened <=> \/ t \in DOMAIN tracked /\ tracked[t].opened
                                 \/ minute # -1 /\ t = s
    BY <2>4, <2>7
  <2> QED  BY <1>2, <2>5, <2>6, <2>8, ConcludeStep
<1> QED  BY <1>1, <1>2 DEF ApplyAnswer

LEMMA RejectAnswerStep == ASSUME TapeInv, RejectAnswer PROVE TapeInv'
<1>1. Concludes(0, -1) /\ worker.step = "apply"
  BY DEF RejectAnswer, Concludes
<1>2. minute \in Nat /\ worker.plans \in SUBSET Symbols
  BY <1>1, TapeNumbers DEF TapeInv, WorkerOK
<1>3. TracksOn /\ OpensNothing
  <2>1. CASE tracked' = tracked
    BY <2>1 DEF TapeInv, TrackedOK, TracksOn, OpensNothing
  <2>2. CASE tracked' = Track(tracked, worker.plans, minute)
    BY <1>2, <2>2, TrackTracksOn
  <2> QED  BY <2>1, <2>2 DEF RejectAnswer
<1>4. \A s \in DOMAIN tracked' :
        tracked'[s].opened <=> \/ s \in DOMAIN tracked /\ tracked[s].opened
                               \/ -1 # -1 /\ s = 0
  BY <1>3 DEF OpensNothing
<1> QED  BY <1>1, <1>3, <1>4, ConcludeStep

LEMMA LoseScanStep == ASSUME TapeInv, LoseScan PROVE TapeInv'
<1>1. UNCHANGED <<minute, tape, tracked, observer, answers, rounds>> /\ worker'.step = "idle"
      /\ worker' = [Waiting EXCEPT !.begun = worker.begun]
  BY DEF LoseScan, Waiting
<1>2. WorkerOK'
  BY <1>1 DEF WorkerOK, Waiting, Told
<1> QED  BY <1>1, <1>2 DEF TapeInv, TrackedOK, RowsOK, ObserverOK, AnswersOK, Promised, RoundsAsk,
                Asks, AskedOf, Kept, Positions, Told, Paying

LEMMA TapePassStep == ASSUME TapeInv, TapePass PROVE TapeInv'
<1>1. /\ UNCHANGED <<tape, tracked, observer, worker, answers, rounds>>
      /\ minute' = minute + 1 /\ minute < SessionCloses
      /\ worker.step # "idle" => minute - worker.begun < OneShot
  BY DEF TapePass
<1>2. minute \in Nat /\ minute' \in 0 .. SessionCloses
  BY <1>1, TapeNumbers DEF TapeInv
<1>3. TrackedOK' /\ RowsOK' /\ Promised'
  BY <1>1 DEF TapeInv, TrackedOK, RowsOK, Promised, Kept, Positions, Told, Paying
<1>4. ObserverOK'
  BY <1>1, <1>2 DEF TapeInv, ObserverOK
<1>5. WorkerOK'
  <2>1. ASSUME worker.step # "idle"
        PROVE  worker.begun \in EntryOpens .. minute + 1 /\ minute + 1 <= worker.begun + OneShot
    BY <1>1, <1>2, <2>1, TapeNumbers DEF TapeInv, WorkerOK
  <2>2. ASSUME Told PROVE worker.answered \in worker.begun .. minute + 1
    <3>1. worker.answered \in worker.begun .. minute /\ worker.begun \in EntryOpens .. minute
      BY <2>2 DEF TapeInv, WorkerOK, Told
    <3> QED  BY <1>2, <3>1, TapeNumbers
  <2> QED  BY <1>1, <2>1, <2>2 DEF TapeInv, WorkerOK, Told
<1>6. AnswersOK'
  <2>1. ASSUME NEW c \in answers PROVE c.at \in 0 .. minute + 1 /\ c.opened \in -1 .. minute + 1
    BY <1>2 DEF TapeInv, AnswersOK
  <2> QED  BY <1>1, <2>1 DEF TapeInv, AnswersOK
<1>7. RoundsAsk'
  <2>1. ASSUME NEW begun, NEW asked, NEW overflow, Asks(begun, asked, overflow)
        PROVE  Asks(begun, asked, overflow)'
    <3>1. begun \in 0 .. minute + 1
      BY <1>2, <2>1 DEF Asks
    <3> QED  BY <1>1, <2>1, <3>1 DEF Asks, AskedOf, Positions, Told
  <2> QED  BY <1>1, <2>1 DEF TapeInv, RoundsAsk
<1> QED  BY <1>2, <1>3, <1>4, <1>5, <1>6, <1>7 DEF TapeInv

LEMMA TapeBegins == TapeInit => TapeInv
<1> SUFFICES ASSUME TapeInit PROVE TapeInv
  OBVIOUS
<1>1. DOMAIN tracked = {} /\ DOMAIN tape = {}
  BY DEF TapeInit
<1>2. TrackedOK /\ RowsOK
  <2>1. \A s \in DOMAIN tracked : tracked[s] \in [opened : BOOLEAN, first : Nat, until : Nat]
    BY <1>1
  <2>2. tracked = [s \in DOMAIN tracked |-> tracked[s]]
    BY <1>1 DEF TapeInit
  <2>3. tracked \in [DOMAIN tracked -> [opened : BOOLEAN, first : Nat, until : Nat]]
    BY <2>1, <2>2
  <2> QED  BY <1>1, <2>3, FS_EmptySet DEF TrackedOK, RowsOK
<1>3. ObserverOK /\ WorkerOK
  BY DEF TapeInit, Watching, Waiting, ObserverOK, WorkerOK, Told
<1>4. AnswersOK /\ Promised /\ RoundsAsk
  BY <1>1, FS_EmptySet DEF TapeInit, Watching, Waiting, AnswersOK, Positions, Promised, Paying, RoundsAsk
<1> QED  BY <1>2, <1>3, <1>4, TapeNumbers DEF TapeInv, TapeInit

LEMMA TapeStep == TapeInv /\ [TapeNext]_tapeVars => TapeInv'
<1> SUFFICES ASSUME TapeInv, [TapeNext]_tapeVars PROVE TapeInv'
  OBVIOUS
<1>1. CASE BeginRound  BY <1>1, BeginRoundStep
<1>2. CASE LoseRound  BY <1>2, LoseRoundStep
<1>3. ASSUME NEW quoted \in SUBSET Symbols, RecordRound(quoted) PROVE TapeInv'
  BY <1>3, RecordRoundStep
<1>4. CASE ReadSnapshot  BY <1>4, ReadSnapshotStep
<1>5. CASE Answer  BY <1>5, AnswerStep
<1>6. CASE TrackAnswer  BY <1>6, TrackAnswerStep
<1>7. CASE ApplyAnswer  BY <1>7, ApplyAnswerStep
<1>8. CASE RejectAnswer  BY <1>8, RejectAnswerStep
<1>9. CASE LoseScan  BY <1>9, LoseScanStep
<1>10. ASSUME NEW plans \in SUBSET Symbols, NEW asks \in BOOLEAN, RecordScan(plans, asks) PROVE TapeInv'
  BY <1>10, RecordScanStep
<1>11. CASE TapePass  BY <1>11, TapePassStep
<1>12. CASE UNCHANGED tapeVars
  BY <1>12 DEF tapeVars, TapeInv, TrackedOK, RowsOK, ObserverOK, WorkerOK, AnswersOK, Promised,
               RoundsAsk, Asks, AskedOf, Kept, Positions, Told, Paying
<1> QED
  BY <1>1, <1>2, <1>3, <1>4, <1>5, <1>6, <1>7, <1>8, <1>9, <1>10, <1>11, <1>12 DEF TapeNext

LEMMA TapeHolds == TapeInv => TapeStands
<1> SUFFICES ASSUME TapeInv PROVE TapeStands
  OBVIOUS
<1>1. RoundsCoverPlans /\ PositionsComeFirst
  BY DEF TapeInv, RoundsAsk, Asks, AskedOf, RoundsCoverPlans, PositionsComeFirst, Positions
<1>2. DecisionsKeepQuotes
  BY DEF TapeInv, RowsOK, DecisionsKeepQuotes
<1>3. StudiesAreFinal
  <2>1. Dated /\ minute \in Nat
    BY TapeNumbers DEF TapeInv, RowsOK, Dated
  <2>2. \A t \in 0 .. minute : t \in Nat
    BY <2>1
  <2> QED  BY <2>1, <2>2, StudyOfPrefix DEF StudiesAreFinal
<1> QED  BY <1>1, <1>2, <1>3 DEF TapeStands

\* Any decision of a day can be studied from the tape, in any day (MarketTape: observe(),
\* track_plans(), tracking_status(), the worker's scan and settlement, counterfactual()).
THEOREM TapeIsStudied == TapeSpec => []TapeStands
<1>1. TapeInit => TapeInv  BY TapeBegins
<1>2. TapeInv /\ [TapeNext]_tapeVars => TapeInv'  BY TapeStep
<1>3. TapeInv => TapeStands  BY TapeHolds
<1> QED  BY <1>1, <1>2, <1>3, PTL DEF TapeSpec
===============================================================================
