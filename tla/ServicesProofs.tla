---------------------------- MODULE ServicesProofs ----------------------------
(***************************************************************************)
(* Safety of the services around the desks, each for any values of its     *)
(* constants: the report backlog, the model registry and the deployment    *)
(* barrier.  They share no state.                                          *)
(***************************************************************************)
EXTENDS DeskReports, ModelRegistry, Rollout, TLAPS

-------------------------------------------------------------------------------
(***************************************************************************)
(* Safety of the report backlog, for every set of days and processes and   *)
(* every lease longer than a process lives.  The invariant says what a     *)
(* lease means: the process that is mailing or about to record a report is *)
(* its holder, with as much lease left as it has not yet lived, and a      *)
(* day's copies are accounted for by its row or by that one process.       *)
(***************************************************************************)

Delivering(w) == run[w].pc \in {"sending", "recording"}

LeaseHeld ==
  \A w \in Workers : Delivering(w) =>
    /\ run[w].day \in Days
    /\ row[run[w].day].lease = w
    /\ row[run[w].day].left = LeaseLength - run[w].age
    /\ row[run[w].day].st \in {"pending", "failed"}

OutcomeKept ==
  \A w \in Workers : IF run[w].pc = "recording" THEN run[w].outcome \in {"sent", "failed"}
                     ELSE run[w].outcome = "none"

Accepted(d) == row[d].st = "sent" \/ \E w \in Workers : run[w].outcome = "sent" /\ run[w].day = d
CopiesExact == \A d \in Days : copies[d] = IF Accepted(d) THEN 1 ELSE 0

ReportsInv == ReportsTypeOK /\ LeaseHeld /\ OutcomeKept /\ CopiesExact

\* A held report is out of reach of every other claim: the lease outlives its
\* holder.
LEMMA HeldIsIneligible ==
  ASSUME ReportsTypeOK, LeaseHeld, NEW v \in Workers, NEW w \in Workers, Delivering(v)
  PROVE  ~Eligible(w, run[v].day)
<1>1. run[v].age \in 0 .. RunLimit /\ run[w].age \in 0 .. RunLimit  BY DEF ReportsTypeOK, RunMemory
<1>2. row[run[v].day].left = LeaseLength - run[v].age  BY DEF LeaseHeld
<1>3. LeaseLength \in Nat /\ RunLimit \in Nat /\ RunLimit < LeaseLength  BY ReportsAssumption
<1> QED  BY <1>1, <1>2, <1>3 DEF Eligible

\* One process at most delivers a report.
LEMMA OneDeliverer ==
  ASSUME LeaseHeld
  PROVE  NoConcurrentSend
BY DEF LeaseHeld, Delivering, NoConcurrentSend

\* A new report: its day has no row, so nobody delivers it and no copy exists.
LEMMA BeginStep ==
  ASSUME ReportsInv, NEW w \in Workers, Begin(w)
  PROVE  ReportsInv'
<1> DEFINE oldest == {d \in Missing : Cardinality({e \in Missing : e < d}) < Batch}
<1>1. /\ run[w].pc = "idle"
      /\ row' = [d \in Days |-> IF d \in oldest THEN [NoReport EXCEPT !.st = "pending"] ELSE row[d]]
      /\ run' = [run EXCEPT ![w] = [NoRun EXCEPT !.pc = "claiming"]]
      /\ due' = due /\ copies' = copies
  BY DEF Begin, Go
<1>2. \A d \in oldest : row[d].st = "absent"  BY DEF Missing
<1> HIDE DEF oldest
<1>3. RunLimit \in Nat /\ LeaseLength \in Nat /\ RetryAge \in Nat /\ Transient \in Nat
  BY ReportsAssumption
<1>4. [NoReport EXCEPT !.st = "pending"] =
        [st |-> "pending", attempts |-> 0, lease |-> Nobody, left |-> Past, wait |-> Past]
  BY DEF NoReport
<1>5. [NoRun EXCEPT !.pc = "claiming"] = [pc |-> "claiming", age |-> 0, day |-> NoDay, outcome |-> "none"]
  BY DEF NoRun
<1>6. ReportsTypeOK'
  <2>1. [NoReport EXCEPT !.st = "pending"] \in ReportRow  BY <1>3, <1>4 DEF ReportRow, Past
  <2>2. [NoRun EXCEPT !.pc = "claiming"] \in RunMemory  BY <1>3, <1>5 DEF RunMemory
  <2> QED  BY <1>1, <1>4, <2>1, <2>2 DEF ReportsInv, ReportsTypeOK
<1>7. LeaseHeld'  BY <1>1, <1>2, <1>5 DEF ReportsInv, ReportsTypeOK, ReportRow, LeaseHeld, Delivering
<1>8. OutcomeKept'  BY <1>1, <1>5 DEF ReportsInv, ReportsTypeOK, OutcomeKept
<1>9. ASSUME NEW d \in Days  PROVE Accepted(d)' <=> Accepted(d)
  <2>1. row'[d].st = "sent" <=> row[d].st = "sent"  BY <1>1, <1>2, <1>4
  <2>2. run[w].outcome = "none"  BY <1>1 DEF ReportsInv, OutcomeKept
  <2>3. \A v \in Workers : run'[v].outcome = run[v].outcome /\ (v # w => run'[v] = run[v])
    BY <1>1, <1>5, <2>2 DEF ReportsInv, ReportsTypeOK
  <2> QED  BY <2>1, <2>2, <2>3 DEF Accepted
<1>10. CopiesExact'  BY <1>1, <1>9 DEF ReportsInv, CopiesExact
<1> QED  BY <1>6, <1>7, <1>8, <1>10 DEF ReportsInv

\* A claim: the day was nobody's, and becomes the claimer's for a whole lease.
LEMMA ClaimStep ==
  ASSUME ReportsInv, NEW w \in Workers, Claim(w)
  PROVE  ReportsInv'
<1>1. PICK d \in Days :
        /\ run[w].pc = "claiming" /\ Eligible(w, d)
        /\ row' = [row EXCEPT ![d].lease = w, ![d].left = LeaseLength - run[w].age]
        /\ run' = [run EXCEPT ![w] = [run[w] EXCEPT !.pc = "sending", !.day = d]]
        /\ due' = due /\ copies' = copies
  BY DEF Claim, Go
<1>2. RunLimit \in Nat /\ LeaseLength \in Nat /\ RetryAge \in Nat /\ RunLimit < LeaseLength
  BY ReportsAssumption
<1>3. run[w].age \in 0 .. RunLimit /\ row[d].st \in {"pending", "failed"}
  BY <1>1 DEF ReportsInv, ReportsTypeOK, ReportRow, RunMemory, Eligible
<1>4. \A v \in Workers : Delivering(v) => run[v].day # d
  BY <1>1, HeldIsIneligible DEF ReportsInv
<1>5. ReportsTypeOK'
  <2>1. LeaseLength - run[w].age \in Past .. LeaseLength  BY <1>2, <1>3 DEF Past
  <2>2. [row[d] EXCEPT !.lease = w, !.left = LeaseLength - run[w].age] \in ReportRow
    BY <2>1 DEF ReportsInv, ReportsTypeOK, ReportRow
  <2>3. [run[w] EXCEPT !.pc = "sending", !.day = d] \in RunMemory
    BY DEF ReportsInv, ReportsTypeOK, RunMemory
  <2>4. row' = [row EXCEPT ![d] = [row[d] EXCEPT !.lease = w, !.left = LeaseLength - run[w].age]]
    BY <1>1 DEF ReportsInv, ReportsTypeOK, ReportRow
  <2>5. row'[d].st = row[d].st /\ \A e \in Days : e # d => row'[e] = row[e]
    BY <2>4 DEF ReportsInv, ReportsTypeOK, ReportRow
  <2> QED  BY <1>1, <1>3, <2>2, <2>3, <2>4, <2>5 DEF ReportsInv, ReportsTypeOK
<1>6. LeaseHeld'
  BY <1>1, <1>3, <1>4 DEF ReportsInv, ReportsTypeOK, LeaseHeld, Delivering
<1>7. OutcomeKept'  BY <1>1 DEF ReportsInv, ReportsTypeOK, OutcomeKept
<1>8. ASSUME NEW e \in Days  PROVE Accepted(e)' <=> Accepted(e)
  <2>1. row'[e].st = row[e].st  BY <1>1 DEF ReportsInv, ReportsTypeOK
  <2>2. run[w].outcome = "none"  BY <1>1 DEF ReportsInv, OutcomeKept
  <2>3. \A v \in Workers : run'[v].outcome = run[v].outcome /\ (v # w => run'[v] = run[v])
    BY <1>1 DEF ReportsInv, ReportsTypeOK
  <2> QED  BY <2>1, <2>2, <2>3 DEF Accepted
<1>9. CopiesExact'  BY <1>1, <1>8 DEF ReportsInv, CopiesExact
<1> QED  BY <1>5, <1>6, <1>7, <1>9 DEF ReportsInv

\* A mail accepted is a copy; no other process can hold one of that day.
LEMMA SendStep ==
  ASSUME ReportsInv, NEW w \in Workers, NEW d \in Days, NEW outcome \in {"sent", "failed"},
         Send(w, d, outcome)
  PROVE  ReportsInv'
<1>1. /\ run[w].pc = "sending" /\ run[w].day = d
      /\ copies' = IF outcome = "sent" THEN [copies EXCEPT ![d] = @ + 1] ELSE copies
      /\ run' = [run EXCEPT ![w] = [run[w] EXCEPT !.pc = "recording", !.outcome = outcome]]
      /\ due' = due /\ row' = row
  BY DEF Send, Go
<1>2. ReportsTypeOK'
  <2>1. [run[w] EXCEPT !.pc = "recording", !.outcome = outcome] \in RunMemory
    BY DEF ReportsInv, ReportsTypeOK, RunMemory
  <2>2. copies' \in [Days -> Nat]  BY <1>1 DEF ReportsInv, ReportsTypeOK
  <2> QED  BY <1>1, <2>1, <2>2 DEF ReportsInv, ReportsTypeOK
<1>3. LeaseHeld'  BY <1>1 DEF ReportsInv, ReportsTypeOK, LeaseHeld, Delivering
<1>4. OutcomeKept'  BY <1>1 DEF ReportsInv, ReportsTypeOK, OutcomeKept
<1>5. row[d].st # "sent" /\ run[w].outcome = "none"
  BY <1>1 DEF ReportsInv, LeaseHeld, Delivering, OutcomeKept
<1>6. /\ run'[w].outcome = outcome /\ run'[w].day = d
      /\ \A v \in Workers : v # w => run'[v] = run[v]
  BY <1>1 DEF ReportsInv, ReportsTypeOK
<1>7. \A v \in Workers : run[v].outcome = "sent" => run[v].day # d
  <2> SUFFICES ASSUME NEW v \in Workers, run[v].outcome = "sent"  PROVE run[v].day # d
    OBVIOUS
  <2>1. run[v].pc = "recording"  BY DEF ReportsInv, OutcomeKept
  <2> QED  BY <1>1, <1>5, <2>1 DEF ReportsInv, LeaseHeld, Delivering
<1>8. ASSUME NEW e \in Days  PROVE copies'[e] = IF Accepted(e)' THEN 1 ELSE 0
  <2>1. CASE e = d /\ outcome = "sent"
    <3>1. ~Accepted(d) /\ Accepted(d)'  BY <1>1, <1>5, <1>6, <1>7, <2>1 DEF Accepted
    <3>2. copies[d] = 0  BY <3>1 DEF ReportsInv, CopiesExact
    <3>3. copies'[d] = copies[d] + 1  BY <1>1, <2>1 DEF ReportsInv, ReportsTypeOK
    <3> QED  BY <2>1, <3>1, <3>2, <3>3
  <2>2. CASE ~(e = d /\ outcome = "sent")
    <3>1. Accepted(e)' <=> Accepted(e)  BY <1>1, <1>5, <1>6, <2>2 DEF Accepted
    <3>2. copies'[e] = copies[e]  BY <1>1, <2>2 DEF ReportsInv, ReportsTypeOK
    <3> QED  BY <3>1, <3>2 DEF ReportsInv, CopiesExact
  <2> QED  BY <2>1, <2>2
<1>9. CopiesExact'  BY <1>8 DEF CopiesExact
<1> QED  BY <1>2, <1>3, <1>4, <1>9 DEF ReportsInv

\* A recorded outcome moves the account of the copy from the process to the row.
LEMMA RecordStep ==
  ASSUME ReportsInv, NEW w \in Workers, NEW d \in Days, RecordOutcome(w, d)
  PROVE  ReportsInv'
<1> DEFINE new == [st |-> run[w].outcome, attempts |-> Capped(row[d].attempts), lease |-> Nobody,
                   left |-> Past,
                   wait |-> IF run[w].outcome = "sent" THEN Past ELSE RetryAge - run[w].age]
<1>1. run[w].pc = "recording" /\ run[w].day = d  BY DEF RecordOutcome
<1>2. row[d].lease = w /\ row[d].st \in {"pending", "failed"}
  BY <1>1 DEF ReportsInv, LeaseHeld, Delivering
<1>3. run[w].outcome \in {"sent", "failed"}  BY <1>1 DEF ReportsInv, OutcomeKept
<1>4. /\ row' = [row EXCEPT ![d] = new] /\ run' = [run EXCEPT ![w] = NoRun]
      /\ due' = due /\ copies' = copies
  BY <1>2 DEF RecordOutcome, Go
<1>5. RunLimit \in Nat /\ LeaseLength \in Nat /\ RetryAge \in Nat /\ Transient \in Nat
  BY ReportsAssumption
<1>6. run[w].age \in 0 .. RunLimit /\ row[d].attempts \in 0 .. Transient + 1
  BY DEF ReportsInv, ReportsTypeOK, ReportRow, RunMemory
<1>7. Capped(row[d].attempts) \in 0 .. Transient + 1  BY <1>5, <1>6 DEF Capped
<1>8. new \in ReportRow  BY <1>3, <1>5, <1>6, <1>7 DEF Past, ReportRow
<1>9. new.st = run[w].outcome /\ new.lease = Nobody  OBVIOUS
<1> HIDE DEF new
<1>10. ReportsTypeOK'
  <2>1. NoRun \in RunMemory  BY <1>5 DEF NoRun, RunMemory
  <2> QED  BY <1>4, <1>8, <1>9, <2>1 DEF ReportsInv, ReportsTypeOK
<1>11. \A v \in Workers : v # w /\ Delivering(v) => run[v].day # d
  BY <1>2 DEF ReportsInv, LeaseHeld
<1>12. LeaseHeld'
  BY <1>4, <1>11 DEF ReportsInv, ReportsTypeOK, LeaseHeld, Delivering, NoRun
<1>13. OutcomeKept'  BY <1>4 DEF ReportsInv, ReportsTypeOK, OutcomeKept, NoRun
<1>14. /\ row'[d].st = run[w].outcome /\ run'[w].outcome = "none"
       /\ \A v \in Workers : v # w => run'[v] = run[v]
       /\ \A e \in Days : e # d => row'[e] = row[e]
  BY <1>4, <1>9 DEF ReportsInv, ReportsTypeOK, NoRun
<1>15. \A v \in Workers : v # w /\ run[v].outcome = "sent" => run[v].day # d
  BY <1>11 DEF ReportsInv, OutcomeKept, Delivering
<1>16. ASSUME NEW e \in Days  PROVE Accepted(e)' <=> Accepted(e)
  <2>1. CASE e = d  BY <1>1, <1>2, <1>14, <1>15, <2>1 DEF Accepted
  <2>2. CASE e # d  BY <1>1, <1>14, <2>2 DEF Accepted
  <2> QED  BY <2>1, <2>2
<1>17. CopiesExact'  BY <1>4, <1>16 DEF ReportsInv, CopiesExact
<1> QED  BY <1>10, <1>12, <1>13, <1>17 DEF ReportsInv

\* A process killed, or one with nothing to claim, takes its copy out of account.
LEMMA KillStep ==
  ASSUME ReportsInv, NEW w \in Workers, Kill(w) \/ ClaimNothing(w)
  PROVE  ReportsInv'
<1>1. /\ run' = [run EXCEPT ![w] = NoRun] /\ due' = due /\ row' = row
      /\ copies' = IF run[w].outcome = "sent" THEN [copies EXCEPT ![run[w].day] = @ - 1] ELSE copies
  BY DEF Kill, ClaimNothing, Go, ReportsInv, OutcomeKept
<1>2. /\ run'[w].outcome = "none" /\ run'[w].pc = "idle"
      /\ \A v \in Workers : v # w => run'[v] = run[v]
  BY <1>1 DEF ReportsInv, ReportsTypeOK, NoRun
<1>3. LeaseHeld'  BY <1>1, <1>2 DEF ReportsInv, LeaseHeld, Delivering
<1>4. OutcomeKept'  BY <1>2 DEF ReportsInv, OutcomeKept
<1>5. ASSUME NEW e \in Days
      PROVE  copies'[e] \in Nat /\ copies'[e] = IF Accepted(e)' THEN 1 ELSE 0
  <2>1. CASE run[w].outcome = "sent" /\ e = run[w].day
    <3>1. run[w].pc = "recording"  BY <2>1 DEF ReportsInv, OutcomeKept
    <3>2. row[e].lease = w /\ row[e].st # "sent"
      BY <2>1, <3>1 DEF ReportsInv, LeaseHeld, Delivering
    <3>3. \A v \in Workers : v # w /\ run[v].outcome = "sent" => run[v].day # e
      BY <3>2 DEF ReportsInv, OutcomeKept, LeaseHeld, Delivering
    <3>4. Accepted(e) /\ ~Accepted(e)'  BY <1>1, <1>2, <2>1, <3>2, <3>3 DEF Accepted
    <3>5. copies[e] = 1  BY <3>4 DEF ReportsInv, CopiesExact
    <3>6. copies'[e] = copies[e] - 1  BY <1>1, <2>1 DEF ReportsInv, ReportsTypeOK
    <3> QED  BY <3>4, <3>5, <3>6
  <2>2. CASE ~(run[w].outcome = "sent" /\ e = run[w].day)
    <3>1. Accepted(e)' <=> Accepted(e)  BY <1>1, <1>2, <2>2 DEF Accepted
    <3>2. copies'[e] = copies[e]  BY <1>1, <2>2 DEF ReportsInv, ReportsTypeOK
    <3> QED  BY <3>1, <3>2 DEF ReportsInv, ReportsTypeOK, CopiesExact
  <2> QED  BY <2>1, <2>2
<1>6. ReportsTypeOK'
  <2>1. NoRun \in RunMemory  BY ReportsAssumption DEF NoRun, RunMemory
  <2>2. DOMAIN copies' = Days /\ copies' = [e \in Days |-> copies'[e]]
    BY <1>1 DEF ReportsInv, ReportsTypeOK
  <2>3. copies' \in [Days -> Nat]  BY <1>5, <2>2
  <2> QED  BY <1>1, <2>1, <2>3 DEF ReportsInv, ReportsTypeOK
<1>7. CopiesExact'  BY <1>5 DEF CopiesExact
<1> QED  BY <1>3, <1>4, <1>6, <1>7 DEF ReportsInv

\* A tick takes one from a holder's lease and adds one to its age.
LEMMA TickStep ==
  ASSUME ReportsInv, Tick
  PROVE  ReportsInv'
<1>1. /\ \A w \in Workers : run[w].age < RunLimit
      /\ run' = [w \in Workers |-> IF run[w].pc = "idle" THEN run[w] ELSE [run[w] EXCEPT !.age = @ + 1]]
      /\ row' = [d \in Days |-> [row[d] EXCEPT !.left = Less(@), !.wait = Less(@)]]
      /\ due' = due /\ copies' = copies
  BY DEF Tick
<1>2. RunLimit \in Nat /\ LeaseLength \in Nat /\ RetryAge \in Nat /\ RunLimit < LeaseLength
  BY ReportsAssumption
<1>3. ReportsTypeOK'
  <2>1. \A n \in Past .. LeaseLength : Less(n) \in Past .. LeaseLength  BY <1>2 DEF Less, Past
  <2>2. \A n \in Past .. RetryAge : Less(n) \in Past .. RetryAge  BY <1>2 DEF Less, Past
  <2>3. ASSUME NEW w \in Workers
        PROVE  (IF run[w].pc = "idle" THEN run[w] ELSE [run[w] EXCEPT !.age = @ + 1]) \in RunMemory
    <3>1. run[w] \in RunMemory /\ run[w].age \in 0 .. RunLimit /\ run[w].age < RunLimit
      BY <1>1 DEF ReportsInv, ReportsTypeOK, RunMemory
    <3>2. run[w].age + 1 \in 0 .. RunLimit  BY <1>2, <3>1
    <3> QED  BY <3>1, <3>2 DEF RunMemory
  <2>4. ASSUME NEW d \in Days
        PROVE  [row[d] EXCEPT !.left = Less(@), !.wait = Less(@)] \in ReportRow
    BY <2>1, <2>2 DEF ReportsInv, ReportsTypeOK, ReportRow
  <2>5. \A d \in Days : row'[d].st = row[d].st /\ row'[d].lease = row[d].lease
    BY <1>1 DEF ReportsInv, ReportsTypeOK, ReportRow
  <2> QED  BY <1>1, <2>3, <2>4, <2>5 DEF ReportsInv, ReportsTypeOK
<1>4. \A d \in Days : /\ row'[d].st = row[d].st /\ row'[d].lease = row[d].lease
                      /\ row'[d].left = Less(row[d].left)
  BY <1>1 DEF ReportsInv, ReportsTypeOK, ReportRow
<1>5. \A w \in Workers : /\ run'[w].pc = run[w].pc /\ run'[w].day = run[w].day
                         /\ run'[w].outcome = run[w].outcome
                         /\ run[w].pc # "idle" => run'[w].age = run[w].age + 1
  BY <1>1 DEF ReportsInv, ReportsTypeOK, RunMemory
<1>6. LeaseHeld'
  <2> SUFFICES ASSUME NEW w \in Workers, Delivering(w)'
               PROVE  /\ run'[w].day \in Days
                      /\ row'[run'[w].day].lease = w
                      /\ row'[run'[w].day].left = LeaseLength - run'[w].age
                      /\ row'[run'[w].day].st \in {"pending", "failed"}
    BY DEF LeaseHeld
  <2>1. Delivering(w) /\ run[w].pc # "idle"  BY <1>5 DEF Delivering
  <2>2. /\ run[w].day \in Days /\ row[run[w].day].lease = w
        /\ row[run[w].day].left = LeaseLength - run[w].age
        /\ row[run[w].day].st \in {"pending", "failed"}
    BY <2>1 DEF ReportsInv, LeaseHeld
  <2>3. run[w].age \in Nat /\ run[w].age < RunLimit
    <3>1. run[w] \in RunMemory  BY DEF ReportsInv, ReportsTypeOK
    <3>2. run[w].age \in Nat  BY <3>1 DEF RunMemory
    <3> QED  BY <1>1, <3>2
  <2>4. Less(LeaseLength - run[w].age) = LeaseLength - (run[w].age + 1)
    BY <1>2, <2>3 DEF Less, Past
  <2> QED  BY <1>4, <1>5, <2>1, <2>2, <2>4
<1>7. OutcomeKept'  BY <1>5 DEF ReportsInv, OutcomeKept
<1>8. \A d \in Days : Accepted(d)' <=> Accepted(d)  BY <1>4, <1>5 DEF Accepted
<1>9. CopiesExact'  BY <1>1, <1>8 DEF ReportsInv, CopiesExact
<1> QED  BY <1>3, <1>6, <1>7, <1>9 DEF ReportsInv

LEMMA ReportsInvariant == Spec => []ReportsInv
<1>1. Init => ReportsInv
  <2> SUFFICES ASSUME Init  PROVE ReportsInv
    OBVIOUS
  <2>1. RunLimit \in Nat /\ LeaseLength \in Nat /\ RetryAge \in Nat /\ Transient \in Nat
    BY ReportsAssumption
  <2>2. ReportsTypeOK  BY <2>1 DEF Init, NoReport, NoRun, ReportsTypeOK, ReportRow, RunMemory, Past
  <2>3. LeaseHeld /\ OutcomeKept  BY DEF Init, NoRun, LeaseHeld, OutcomeKept, Delivering
  <2>4. CopiesExact  BY DEF Init, NoReport, NoRun, CopiesExact, Accepted
  <2> QED  BY <2>2, <2>3, <2>4 DEF ReportsInv
<1>2. ReportsInv /\ [Next]_vars => ReportsInv'
  <2> SUFFICES ASSUME ReportsInv, [Next]_vars  PROVE ReportsInv'
    OBVIOUS
  <2>1. ASSUME NEW d \in Days, BecomesDue(d)  PROVE ReportsInv'
    BY <2>1 DEF BecomesDue, ReportsInv, ReportsTypeOK, LeaseHeld, OutcomeKept, CopiesExact,
                Accepted, Delivering
  <2>2. CASE UNCHANGED vars
    BY <2>2 DEF vars, ReportsInv, ReportsTypeOK, LeaseHeld, OutcomeKept, CopiesExact,
                Accepted, Delivering
  <2> QED  BY <2>1, <2>2, BeginStep, ClaimStep, KillStep, SendStep, RecordStep, TickStep
           DEF Next, DeliverReport
<1> QED  BY <1>1, <1>2, PTL DEF Spec

\* Every field of a row and of a process's memory holds a value of its kind, and
\* a report that was sent is leased to nobody.
THEOREM ReportsTypeCorrect == Spec => []ReportsTypeOK
<1>1. ReportsInv => ReportsTypeOK  BY DEF ReportsInv
<1> QED  BY <1>1, ReportsInvariant, PTL

\* No two processes ever mail one report together, however many run the backlog.
THEOREM LeaseExcludes == Spec => []NoConcurrentSend
<1>1. ReportsInv => NoConcurrentSend  BY OneDeliverer DEF ReportsInv
<1> QED  BY <1>1, ReportsInvariant, PTL

\* Beyond the copies a killed process lost the record of, a report is mailed once.
THEOREM MailedOnce == Spec => []DuplicatesExplained
<1>1. ReportsInv => DuplicatesExplained
  BY DEF ReportsInv, CopiesExact, Accepted, DuplicatesExplained
<1> QED  BY <1>1, ReportsInvariant, PTL

-------------------------------------------------------------------------------
(***************************************************************************)
(* Promotions, for any number of models, runs, trainers and activations.   *)
(* The invariant: a stored evaluation is of the job's challenger, a trainer *)
(* that compares holds the job's challenger too, and so a job's challenger *)
(* and evaluation belong together whenever the operator reads them.        *)
(***************************************************************************)

Busy == [step : {"trained", "registered", "comparing"}, job : DOMAIN jobs, model : Models]
JobRows == [challenger : MaybeModels, evaluation : [of : MaybeModels, passed : BOOLEAN]]
ActionRows == [job : DOMAIN jobs, action : {"PROMOTE", "ROLLBACK"}, previous : artifacts,
               target : artifacts, activation : Nat]

EvaluationsAreOwn ==
  \A j \in DOMAIN jobs : jobs[j].evaluation # NoEvaluation =>
    /\ jobs[j].challenger \in Models /\ jobs[j].evaluation.of = jobs[j].challenger
    /\ jobs[j].evaluation.passed => jobs[j].evaluation.of # j.champion

ComparesChallenger ==
  \A w \in Trainers : trainer[w].step = "comparing" =>
    trainer[w].model = jobs[trainer[w].job].challenger

ActionsChange == \A i \in DOMAIN actions : actions[i].target # actions[i].previous

RegistryInv == RegistryTypeOK /\ EvaluationsAreOwn /\ ComparesChallenger /\ ActionsChange

\* Rows on record stay rows when jobs and models are added.
LEMMA RowsStayRows ==
  ASSUME NEW S, NEW T, S \subseteq T, NEW rows \in Seq(S)
  PROVE  rows \in Seq(T) /\ \A i \in DOMAIN rows : rows[i] \in S
OBVIOUS

LEMMA RegistryInitial == RegistryInit => RegistryInv
<1> SUFFICES ASSUME RegistryInit PROVE RegistryInv
  OBVIOUS
<1>1. jobs = [plan \in {} |-> NoEvaluation] /\ DOMAIN jobs = {}  BY DEF RegistryInit
<1>2. activations = <<>> /\ activeId = 0 /\ actions = <<>> /\ artifacts = Bootstrapped
  BY DEF RegistryInit
<1>3. \A w \in Trainers : trainer[w] = Resting /\ trainer[w].step = "idle"
  BY DEF RegistryInit, Resting
<1>4. RegistryTypeOK  BY <1>1, <1>2, <1>3, RegistryAssumption DEF RegistryTypeOK
<1>5. EvaluationsAreOwn  BY <1>1 DEF EvaluationsAreOwn
<1>6. ComparesChallenger  BY <1>3 DEF ComparesChallenger
<1>7. ActionsChange  BY <1>2 DEF ActionsChange
<1> QED  BY <1>4, <1>5, <1>6, <1>7 DEF RegistryInv

\* An activation, of a registered model, with or without an action on record.
LEMMA ActivationStep ==
  ASSUME RegistryInv, NEW m, Activated(m), UNCHANGED <<artifacts, jobs, trainer>>,
         \/ actions' = actions
         \/ \E a \in ActionRows : a.target # a.previous /\ actions' = Append(actions, a)
  PROVE  RegistryInv'
<1>1. m \in artifacts /\ activations' = Append(activations, m) /\ activeId' = Len(activations')
  BY DEF Activated
<1>2. activations' \in Seq(artifacts') /\ activeId' \in 0 .. Len(activations')
  BY <1>1 DEF RegistryInv, RegistryTypeOK
<1>3. actions \in Seq(ActionRows)  BY DEF RegistryInv, RegistryTypeOK, ActionRows
<1>4. actions' \in Seq(ActionRows) /\ ActionsChange'
  <2>1. CASE actions' = actions  BY <1>3, <2>1 DEF RegistryInv, ActionsChange
  <2>2. CASE \E a \in ActionRows : a.target # a.previous /\ actions' = Append(actions, a)
    <3>1. PICK a \in ActionRows : a.target # a.previous /\ actions' = Append(actions, a)  BY <2>2
    <3> QED  BY <1>3, <3>1 DEF RegistryInv, ActionsChange
  <2> QED  BY <2>1, <2>2
<1>5. RegistryTypeOK'
  BY <1>2, <1>4 DEF RegistryInv, RegistryTypeOK, ActionRows, MaybeModels
<1>6. EvaluationsAreOwn' /\ ComparesChallenger'
  BY DEF RegistryInv, EvaluationsAreOwn, ComparesChallenger
<1> QED  BY <1>4, <1>5, <1>6 DEF RegistryInv

LEMMA CurrentIsRegistered ==
  ASSUME RegistryTypeOK, Current # NoModel
  PROVE  Current \in artifacts /\ Current \in Models
BY DEF Current, RegistryTypeOK

\* A new plan adds a job without challenger or evaluation.
LEMMA PlanStep ==
  ASSUME RegistryInv, NEW n \in TrainingRuns, Plan(n)
  PROVE  RegistryInv'
<1> DEFINE plan == [run |-> n, champion |-> Current]
<1>1. /\ plan \notin DOMAIN jobs
      /\ DOMAIN jobs' = DOMAIN jobs \cup {plan}
      /\ jobs'[plan] = [challenger |-> NoModel, evaluation |-> NoEvaluation]
      /\ \A j \in DOMAIN jobs : jobs'[j] = jobs[j]
      /\ UNCHANGED <<artifacts, activations, activeId, actions, trainer>>
  BY DEF Plan
<1>2. plan \in Plans  BY CurrentIsRegistered DEF Plan, RegistryInv, Plans
<1>3. jobs'[plan] \in JobRows
  BY <1>1 DEF JobRows, NoEvaluation, MaybeModels
<1>4. \A j \in DOMAIN jobs : jobs[j] \in JobRows  BY DEF RegistryInv, RegistryTypeOK, JobRows
<1> HIDE DEF plan
<1>5. RegistryTypeOK'
  <2>1. actions' \in Seq(ActionRows')
    <3>1. ActionRows \subseteq ActionRows'  BY <1>1 DEF ActionRows
    <3>2. actions \in Seq(ActionRows)  BY DEF RegistryInv, RegistryTypeOK, ActionRows
    <3> QED  BY <1>1, <3>1, <3>2, RowsStayRows
  <2>2. \A w \in Trainers : trainer'[w] = Resting \/ trainer'[w] \in Busy'
    BY <1>1 DEF RegistryInv, RegistryTypeOK, Busy
  <2>3. \A j \in DOMAIN jobs' : jobs'[j] \in JobRows  BY <1>1, <1>3, <1>4
  <2>4. DOMAIN jobs' \subseteq Plans  BY <1>1, <1>2 DEF RegistryInv, RegistryTypeOK
  <2>5. artifacts' \subseteq Models /\ activations' \in Seq(artifacts') /\ activeId' \in 0 .. Len(activations')
    BY <1>1 DEF RegistryInv, RegistryTypeOK
  <2> QED  BY <2>1, <2>2, <2>3, <2>4, <2>5 DEF RegistryTypeOK, ActionRows, Busy, JobRows
<1>6. EvaluationsAreOwn'
  BY <1>1 DEF RegistryInv, EvaluationsAreOwn
<1>7. ComparesChallenger'
  BY <1>1 DEF RegistryInv, RegistryTypeOK, ComparesChallenger, Resting
<1>8. ActionsChange'  BY <1>1 DEF RegistryInv, ActionsChange
<1> QED  BY <1>5, <1>6, <1>7, <1>8 DEF RegistryInv

\* A trainer takes up a job, goes on with it, or lets it go.
LEMMA TrainerMoves ==
  ASSUME RegistryInv, NEW w \in Trainers, NEW t \in Busy \cup {Resting},
         t.step = "comparing" => t.model = jobs[t.job].challenger,
         trainer' = [trainer EXCEPT ![w] = t],
         UNCHANGED <<activations, activeId, jobs, actions>>,
         artifacts \subseteq artifacts', artifacts' \subseteq Models
  PROVE  RegistryInv'
<1>1. \A v \in Trainers : trainer'[v] = Resting \/ trainer'[v] \in Busy'
  <2>1. \A v \in Trainers : trainer[v] = Resting \/ trainer[v] \in Busy
    BY DEF RegistryInv, RegistryTypeOK, Busy
  <2>2. \A v \in Trainers : trainer'[v] = IF v = w /\ w \in DOMAIN trainer THEN t ELSE trainer[v]
    OBVIOUS
  <2>3. Busy' = Busy  BY DEF Busy
  <2> QED  BY <2>1, <2>2, <2>3
<1>2. actions' \in Seq(ActionRows')
  <2>1. ActionRows \subseteq ActionRows'  BY DEF ActionRows
  <2>2. actions \in Seq(ActionRows)  BY DEF RegistryInv, RegistryTypeOK, ActionRows
  <2> QED  BY <2>1, <2>2, RowsStayRows
<1>3. activations' \in Seq(artifacts')  BY DEF RegistryInv, RegistryTypeOK
<1>4. RegistryTypeOK'
  BY <1>1, <1>2, <1>3 DEF RegistryInv, RegistryTypeOK, ActionRows, Busy, MaybeModels
<1>5. EvaluationsAreOwn' /\ ActionsChange'  BY DEF RegistryInv, EvaluationsAreOwn, ActionsChange
<1>6. ComparesChallenger'  BY DEF RegistryInv, ComparesChallenger
<1> QED  BY <1>4, <1>5, <1>6 DEF RegistryInv

\* A trainer stores its result in its job and is done.
LEMMA TrainerStores ==
  ASSUME RegistryInv, NEW w \in Trainers, trainer[w] \in Busy, NEW result \in JobRows,
         jobs' = [jobs EXCEPT ![trainer[w].job] = result],
         result.challenger # jobs[trainer[w].job].challenger
            => jobs[trainer[w].job].challenger = NoModel,
         result.evaluation # NoEvaluation =>
            /\ result.challenger \in Models /\ result.evaluation.of = result.challenger
            /\ result.evaluation.passed => result.evaluation.of # trainer[w].job.champion,
         trainer' = [trainer EXCEPT ![w] = Resting],
         UNCHANGED <<artifacts, activations, activeId, actions>>
  PROVE  RegistryInv'
<1>1. trainer[w].job \in DOMAIN jobs /\ DOMAIN jobs' = DOMAIN jobs  BY DEF Busy
<1>2. \A j \in DOMAIN jobs : jobs'[j] = IF j = trainer[w].job THEN result ELSE jobs[j]  BY <1>1
<1>3. \A v \in Trainers : /\ trainer'[v] = Resting \/ (trainer'[v] = trainer[v] /\ trainer[v] \in Busy)
  BY DEF RegistryInv, RegistryTypeOK, Busy
<1>4. RegistryTypeOK'
  <2>1. \A j \in DOMAIN jobs' : jobs'[j] \in JobRows
    BY <1>1, <1>2 DEF RegistryInv, RegistryTypeOK, JobRows
  <2>2. actions' \in Seq(ActionRows') /\ Busy' = Busy
    BY <1>1 DEF RegistryInv, RegistryTypeOK, ActionRows, Busy
  <2>3. \A v \in Trainers : trainer'[v] = Resting \/ trainer'[v] \in Busy'  BY <1>3, <2>2
  <2> QED  BY <1>1, <2>1, <2>2, <2>3 DEF RegistryInv, RegistryTypeOK, ActionRows, Busy, JobRows
<1>5. EvaluationsAreOwn'  BY <1>1, <1>2 DEF RegistryInv, EvaluationsAreOwn
<1>6. ComparesChallenger'
  <2> SUFFICES ASSUME NEW v \in Trainers, trainer'[v].step = "comparing"
               PROVE  trainer'[v].model = jobs'[trainer'[v].job].challenger
    BY DEF ComparesChallenger
  <2>1. trainer'[v] = trainer[v] /\ trainer[v] \in Busy  BY <1>3 DEF Resting
  <2>2. trainer[v].job \in DOMAIN jobs /\ trainer[v].model \in Models  BY <2>1 DEF Busy
  <2>3. trainer[v].model = jobs[trainer[v].job].challenger
    BY <2>1 DEF RegistryInv, ComparesChallenger
  <2>4. jobs[trainer[v].job].challenger # NoModel  BY <2>2, <2>3, RegistryAssumption
  <2> QED  BY <1>2, <2>1, <2>2, <2>3, <2>4
<1>7. ActionsChange'  BY DEF RegistryInv, ActionsChange
<1> QED  BY <1>4, <1>5, <1>6, <1>7 DEF RegistryInv

LEMMA RegistryInductive ==
  ASSUME RegistryInv, [RegistryNext]_registryVars
  PROVE  RegistryInv'
<1>1. ASSUME NEW m \in Models, Activate(m)  PROVE RegistryInv'
  BY <1>1, ActivationStep DEF Activate
<1>2. CASE Rollback
  <2>1. activeId' \in 0 .. Len(activations)  BY <1>2 DEF Rollback, RegistryInv, RegistryTypeOK
  <2>2. RegistryTypeOK'  BY <1>2, <2>1 DEF Rollback, RegistryInv, RegistryTypeOK, MaybeModels
  <2> QED  BY <1>2, <2>2 DEF Rollback, RegistryInv, EvaluationsAreOwn, ComparesChallenger, ActionsChange
<1>3. ASSUME NEW n \in TrainingRuns, Plan(n)  PROVE RegistryInv'
  BY <1>3, PlanStep
<1>4. ASSUME NEW w \in Trainers, NEW j \in DOMAIN jobs, BeginRetrain(w, j)  PROVE RegistryInv'
  <2>1. PICK m \in Models : trainer' = [trainer EXCEPT ![w] = [step |-> "trained", job |-> j, model |-> m]]
    BY <1>4 DEF BeginRetrain
  <2>2. [step |-> "trained", job |-> j, model |-> m] \in Busy  BY DEF Busy
  <2>3. artifacts' = artifacts /\ artifacts \subseteq Models
    BY <1>4 DEF BeginRetrain, RegistryInv, RegistryTypeOK
  <2> QED  BY <1>4, <2>1, <2>2, <2>3, TrainerMoves DEF BeginRetrain
<1>5. ASSUME NEW w \in Trainers, NEW j \in DOMAIN jobs, BeginCompare(w, j)  PROVE RegistryInv'
  <2> DEFINE t == [step |-> "comparing", job |-> j, model |-> jobs[j].challenger]
  <2>1. t \in Busy  BY <1>5 DEF BeginCompare, Busy, RegistryInv, RegistryTypeOK, MaybeModels
  <2>2. artifacts' = artifacts /\ artifacts \subseteq Models /\ trainer' = [trainer EXCEPT ![w] = t]
    BY <1>5 DEF BeginCompare, RegistryInv, RegistryTypeOK
  <2> QED  BY <1>5, <2>1, <2>2, TrainerMoves DEF BeginCompare
<1>6. ASSUME NEW w \in Trainers, Register(w)  PROVE RegistryInv'
  <2>1. trainer[w] \in Busy  BY <1>6 DEF Register, RegistryInv, RegistryTypeOK, Busy, Resting
  <2> DEFINE t == [trainer[w] EXCEPT !.step = "registered"]
  <2>2. t \in Busy /\ t.step = "registered"  BY <2>1 DEF Busy
  <2>3. trainer' = [trainer EXCEPT ![w] = t]  BY <1>6 DEF Register
  <2>4. artifacts' = artifacts \cup {trainer[w].model} /\ trainer[w].model \in Models
    BY <1>6, <2>1 DEF Register, Busy
  <2>5. artifacts \subseteq artifacts' /\ artifacts' \subseteq Models
    BY <2>4 DEF RegistryInv, RegistryTypeOK
  <2> HIDE DEF t
  <2> QED  BY <1>6, <2>2, <2>3, <2>5, TrainerMoves DEF Register
<1>7. ASSUME NEW w \in Trainers, FinishRetrain(w)  PROVE RegistryInv'
  <2>1. trainer[w] \in Busy  BY <1>7 DEF FinishRetrain, RegistryInv, RegistryTypeOK, Busy, Resting
  <2>2. trainer[w].job \in DOMAIN jobs /\ trainer[w].model \in Models  BY <2>1 DEF Busy
  <2> DEFINE old == jobs[trainer[w].job]
             result == [old EXCEPT !.challenger = ChallengerSet(@, trainer[w].model)]
  <2>3. old \in JobRows  BY <2>2 DEF RegistryInv, RegistryTypeOK, JobRows
  <2>4. jobs' = [jobs EXCEPT ![trainer[w].job] = result]  BY <1>7 DEF FinishRetrain
  <2>5. result \in JobRows /\ result.evaluation = old.evaluation
        /\ result.challenger = IF old.challenger = NoModel THEN trainer[w].model ELSE old.challenger
    BY <2>2, <2>3 DEF JobRows, ChallengerSet, MaybeModels
  <2>6. old.evaluation # NoEvaluation =>
          /\ old.challenger \in Models /\ old.evaluation.of = old.challenger
          /\ old.evaluation.passed => old.evaluation.of # trainer[w].job.champion
    BY <2>2 DEF RegistryInv, EvaluationsAreOwn
  <2>7. result.challenger # old.challenger => old.challenger = NoModel  BY <2>5
  <2>8. result.evaluation # NoEvaluation =>
          /\ result.challenger \in Models /\ result.evaluation.of = result.challenger
          /\ result.evaluation.passed => result.evaluation.of # trainer[w].job.champion
    BY <2>5, <2>6, RegistryAssumption
  <2> HIDE DEF result
  <2> QED  BY <1>7, <2>1, <2>4, <2>5, <2>7, <2>8, TrainerStores DEF FinishRetrain
<1>8. ASSUME NEW w \in Trainers, FinishCompare(w)  PROVE RegistryInv'
  <2>1. trainer[w] \in Busy  BY <1>8 DEF FinishCompare, RegistryInv, RegistryTypeOK, Busy, Resting
  <2>2. trainer[w].job \in DOMAIN jobs /\ trainer[w].model \in Models  BY <2>1 DEF Busy
  <2>3. PICK gatesPass \in BOOLEAN :
          jobs' = [jobs EXCEPT ![trainer[w].job].evaluation =
                     IF @ # NoEvaluation THEN @
                     ELSE [of |-> trainer[w].model,
                           passed |-> gatesPass /\ trainer[w].model # trainer[w].job.champion]]
    BY <1>8 DEF FinishCompare
  <2> DEFINE old == jobs[trainer[w].job]
             new == IF old.evaluation # NoEvaluation THEN old.evaluation
                    ELSE [of |-> trainer[w].model,
                          passed |-> gatesPass /\ trainer[w].model # trainer[w].job.champion]
             result == [old EXCEPT !.evaluation = new]
  <2>4. old \in JobRows  BY <2>2 DEF RegistryInv, RegistryTypeOK, JobRows
  <2>5. jobs' = [jobs EXCEPT ![trainer[w].job] = result]  BY <2>3
  <2>6. new \in [of : MaybeModels, passed : BOOLEAN]
    BY <2>2, <2>4 DEF JobRows, MaybeModels
  <2>7. trainer[w].model = old.challenger
    BY <1>8 DEF FinishCompare, RegistryInv, ComparesChallenger
  <2>8. old.evaluation # NoEvaluation =>
          /\ old.challenger \in Models /\ old.evaluation.of = old.challenger
          /\ old.evaluation.passed => old.evaluation.of # trainer[w].job.champion
    BY <2>2 DEF RegistryInv, EvaluationsAreOwn
  <2>9. new # NoEvaluation =>
          /\ old.challenger \in Models /\ new.of = old.challenger
          /\ new.passed => new.of # trainer[w].job.champion
    BY <2>2, <2>7, <2>8
  <2> HIDE DEF new
  <2>10. result \in JobRows /\ result.evaluation = new /\ result.challenger = old.challenger
    BY <2>4, <2>6 DEF JobRows
  <2> HIDE DEF result
  <2> QED  BY <1>8, <2>1, <2>5, <2>9, <2>10, TrainerStores DEF FinishCompare
<1>9. ASSUME NEW w \in Trainers, TrainerStops(w)  PROVE RegistryInv'
  <2>1. artifacts' = artifacts /\ artifacts \subseteq Models /\ Resting.step # "comparing"
    BY <1>9 DEF TrainerStops, RegistryInv, RegistryTypeOK, Resting
  <2> QED  BY <1>9, <2>1, TrainerMoves DEF TrainerStops
<1>10. ASSUME NEW j \in DOMAIN jobs, ApproveAndPromote(j)  PROVE RegistryInv'
  <2> DEFINE a == [job |-> j, action |-> "PROMOTE", previous |-> j.champion,
                   target |-> jobs[j].challenger, activation |-> activeId']
  <2>1. jobs[j].evaluation # NoEvaluation  BY <1>10 DEF ApproveAndPromote, NoEvaluation
  <2>2. jobs[j].challenger # j.champion
    BY <1>10, <2>1 DEF ApproveAndPromote, RegistryInv, EvaluationsAreOwn
  <2>3. j.champion \in Models
    BY DEF RegistryInv, RegistryTypeOK, Plans
  <2>4. j.champion \in artifacts
    BY <1>10, <2>3, CurrentIsRegistered, RegistryAssumption DEF ApproveAndPromote, RegistryInv
  <2>5. jobs[j].challenger \in artifacts  BY <1>10 DEF ApproveAndPromote, Activated
  <2>6. activeId' \in Nat
    BY <1>10, <2>5 DEF ApproveAndPromote, Activated, RegistryInv, RegistryTypeOK
  <2>7. a \in ActionRows /\ a.target # a.previous  BY <2>2, <2>4, <2>5, <2>6 DEF ActionRows
  <2>8. actions' = Append(actions, a)  BY <1>10 DEF ApproveAndPromote, Record
  <2> HIDE DEF a
  <2> QED  BY <1>10, <2>7, <2>8, ActivationStep DEF ApproveAndPromote
<1>11. ASSUME NEW i \in DOMAIN actions, Restore(i)  PROVE RegistryInv'
  <2> DEFINE a == [job |-> actions[i].job, action |-> "ROLLBACK", previous |-> actions[i].target,
                   target |-> actions[i].previous, activation |-> activeId']
  <2>1. actions[i] \in ActionRows
    <3>1. actions \in Seq(ActionRows)  BY DEF RegistryInv, RegistryTypeOK, ActionRows
    <3> QED  BY <3>1, RowsStayRows
  <2>2. actions[i].target # actions[i].previous  BY DEF RegistryInv, ActionsChange
  <2>3. activeId' \in Nat
    BY <1>11, <2>1 DEF Restore, Activated, RegistryInv, RegistryTypeOK, ActionRows
  <2>4. a \in ActionRows /\ a.target # a.previous  BY <2>1, <2>2, <2>3 DEF ActionRows
  <2>5. actions' = Append(actions, a)  BY <1>11 DEF Restore, Record
  <2> HIDE DEF a
  <2> QED  BY <1>11, <2>4, <2>5, ActivationStep DEF Restore
<1>12. CASE UNCHANGED registryVars
  BY <1>12 DEF registryVars, RegistryInv, RegistryTypeOK, EvaluationsAreOwn, ComparesChallenger,
               ActionsChange, MaybeModels
<1> QED
  BY <1>1, <1>2, <1>3, <1>4, <1>5, <1>6, <1>7, <1>8, <1>9, <1>10, <1>11, <1>12 DEF RegistryNext

\* One result at most is added to learning_actions, and it is a promotion of what
\* the job's evaluation passed, or undoes one.
LEMMA PromotionStep ==
  ASSUME RegistryInv, [RegistryNext]_registryVars,
         NEW i \in DOMAIN actions' \ DOMAIN actions
  PROVE  LET a == actions'[i]  evaluation == jobs[a.job].evaluation IN
         /\ Current = a.previous /\ a.target # a.previous /\ activations'[activeId'] = a.target
         /\ a.action = "PROMOTE" =>
              /\ evaluation.passed /\ evaluation.of = a.target /\ a.previous = a.job.champion
              /\ ~Promoted(a.job)
         /\ a.action = "ROLLBACK" =>
              \E k \in DOMAIN actions : /\ actions[k].action = "PROMOTE" /\ actions[k].job = a.job
                                        /\ actions[k].previous = a.target
                                        /\ actions[k].target = a.previous
<1>1. actions \in Seq(ActionRows) /\ activations \in Seq(artifacts)
  BY DEF RegistryInv, RegistryTypeOK, ActionRows
<1>2. \/ \E j \in DOMAIN jobs : ApproveAndPromote(j)
      \/ \E k \in DOMAIN actions : Restore(k)
  BY DEF RegistryNext, registryVars, Activate, Rollback, Plan, BeginRetrain, BeginCompare, Register,
         FinishRetrain, FinishCompare, TrainerStops
<1>3. ASSUME NEW m, Activated(m)  PROVE activations'[activeId'] = m
  BY <1>1, <1>3 DEF Activated
<1>4. ASSUME NEW j \in DOMAIN jobs, ApproveAndPromote(j)
      PROVE  /\ actions'[i] = [job |-> j, action |-> "PROMOTE", previous |-> j.champion,
                               target |-> jobs[j].challenger, activation |-> activeId']
             /\ jobs[j].evaluation.of = jobs[j].challenger /\ jobs[j].challenger # j.champion
  <2>1. jobs[j].evaluation # NoEvaluation  BY <1>4 DEF ApproveAndPromote, NoEvaluation
  <2>2. jobs[j].evaluation.of = jobs[j].challenger /\ jobs[j].challenger # j.champion
    BY <1>4, <2>1 DEF ApproveAndPromote, RegistryInv, EvaluationsAreOwn
  <2>3. actions' = Append(actions, [job |-> j, action |-> "PROMOTE", previous |-> j.champion,
                                    target |-> jobs[j].challenger, activation |-> activeId'])
    BY <1>4 DEF ApproveAndPromote, Record
  <2>4. i = Len(actions) + 1  BY <1>1, <2>3
  <2> QED  BY <1>1, <2>2, <2>3, <2>4
<1>5. ASSUME NEW k \in DOMAIN actions, Restore(k)
      PROVE  /\ actions'[i] = [job |-> actions[k].job, action |-> "ROLLBACK",
                               previous |-> actions[k].target, target |-> actions[k].previous,
                               activation |-> activeId']
             /\ actions[k].target # actions[k].previous
  <2>1. actions' = Append(actions, [job |-> actions[k].job, action |-> "ROLLBACK",
                                    previous |-> actions[k].target, target |-> actions[k].previous,
                                    activation |-> activeId'])
    BY <1>5 DEF Restore, Record
  <2>2. i = Len(actions) + 1  BY <1>1, <2>1
  <2> QED  BY <1>1, <2>1, <2>2 DEF RegistryInv, ActionsChange
<1>6. CASE \E j \in DOMAIN jobs : ApproveAndPromote(j)
  <2>1. PICK j \in DOMAIN jobs : ApproveAndPromote(j)  BY <1>6
  <2>2. Current = j.champion /\ jobs[j].evaluation.passed /\ ~Promoted(j)
        /\ activations'[activeId'] = jobs[j].challenger
    BY <1>3, <2>1 DEF ApproveAndPromote
  <2>3. actions'[i] = [job |-> j, action |-> "PROMOTE", previous |-> j.champion,
                       target |-> jobs[j].challenger, activation |-> activeId']
        /\ jobs[j].evaluation.of = jobs[j].challenger /\ jobs[j].challenger # j.champion
    BY <1>4, <2>1
  <2>4. /\ actions'[i].job = j /\ actions'[i].action = "PROMOTE"
        /\ actions'[i].previous = j.champion /\ actions'[i].target = jobs[j].challenger
    BY <2>3
  <2> QED  BY <2>2, <2>3, <2>4
<1>7. CASE \E k \in DOMAIN actions : Restore(k)
  <2>1. PICK k \in DOMAIN actions : Restore(k)  BY <1>7
  <2>2. Current = actions[k].target /\ actions[k].action = "PROMOTE"
        /\ activations'[activeId'] = actions[k].previous
    BY <1>3, <2>1 DEF Restore
  <2>3. /\ actions'[i].job = actions[k].job /\ actions'[i].action = "ROLLBACK"
        /\ actions'[i].previous = actions[k].target /\ actions'[i].target = actions[k].previous
        /\ actions[k].target # actions[k].previous
    BY <1>5, <2>1
  <2> QED  BY <2>2, <2>3
<1> QED  BY <1>2, <1>6, <1>7

\* Registry rows are well formed: every activation and action is of a registered
\* model, and a process only holds jobs that exist.
THEOREM RegistryTypeCorrect == RegistrySpec => []RegistryTypeOK
<1>1. RegistryInv => RegistryTypeOK  BY DEF RegistryInv
<1> QED  BY <1>1, RegistryInitial, RegistryInductive, PTL DEF RegistrySpec

\* A promotion activates what the job's stored evaluation compared and passed,
\* over the champion it was compared with; a restoration undoes a promotion.
THEOREM PromotionsAreEvaluated == RegistrySpec => PromotedIsEvaluated
<1>1. RegistryInv /\ [RegistryNext]_registryVars =>
        [\A i \in DOMAIN actions' \ DOMAIN actions :
           LET a == actions'[i]  evaluation == jobs[a.job].evaluation IN
           /\ Current = a.previous /\ a.target # a.previous /\ activations'[activeId'] = a.target
           /\ a.action = "PROMOTE" =>
                /\ evaluation.passed /\ evaluation.of = a.target /\ a.previous = a.job.champion
                /\ ~Promoted(a.job)
           /\ a.action = "ROLLBACK" =>
                \E k \in DOMAIN actions : /\ actions[k].action = "PROMOTE" /\ actions[k].job = a.job
                                          /\ actions[k].previous = a.target
                                          /\ actions[k].target = a.previous]_registryVars
  BY PromotionStep
<1> QED  BY <1>1, RegistryInitial, RegistryInductive, PTL DEF RegistrySpec, PromotedIsEvaluated

-------------------------------------------------------------------------------
(***************************************************************************)
(* The deployment barrier, for any units, exposures and patience.          *)
(***************************************************************************)

AllQuiet ==
  exposed = {} /\ ~api /\ timers = {} /\ \A u \in Units : worker[u] = "idle"
Watched == Supervisor \in timers \cup gate.failures
Waiting == script.pc \in {"gate", "rollbackGate"}
Active == gate.pc \in GateSteps
ChangedSteps ==
  {"stopping", "stopApi", "draining", "stopApiAgain", "confirming", "restoring", "restoreApi"}
LockSteps == {"judging", "stopping", "stopApi", "draining", "stopApiAgain", "confirming"}

\* What the barrier's locks mean, and how far it has got.
LocksHold ==
  /\ Active => Waiting
  /\ gate.pc \notin LockSteps => gate.locks = "none"
  /\ gate.changed <=> gate.pc \in ChangedSteps
  /\ gate.locks = "held" => \A u \in Units : worker[u] # "writing"
  /\ gate.locks = "held" /\ gate.pc # "judging" => exposed = {}

Progress ==
  /\ gate.pc \in {"stopping", "draining", "restoring"} => gate.i \in DOMAIN UnitOrder
  /\ gate.pc = "stopping" => \A k \in DOMAIN UnitOrder : k < gate.i => UnitOrder[k] \notin timers
  /\ gate.pc \in {"stopApi", "draining", "stopApiAgain", "confirming"} => timers = {}
  /\ gate.pc = "draining" =>
       \A k \in DOMAIN UnitOrder : k < gate.i => worker[UnitOrder[k]] = "idle"
  /\ gate.pc \in {"stopApiAgain", "confirming"} => \A u \in Units : worker[u] = "idle"
  /\ gate.pc \in LockSteps \cup {"locking"} => gate.failures = {}
  /\ gate.pc \in {"restoring", "restoreApi"} => gate.failures \subseteq gate.timers

\* The supervisor's timer is active, or will be restored, or all is quiet.
Remembered ==
  \/ Supervisor \in gate.timers
  \/ script.pc = "rollbackGate" /\ AllQuiet /\ gate.timers = {} /\ ~gate.api

SupervisorKept ==
  /\ gate.pc \in {"locking", "judging"} =>
       Supervisor \in timers \/ (script.pc = "rollbackGate" /\ AllQuiet)
  /\ gate.changed => Remembered
  /\ (gate.pc = "restoring" /\ gate.i > 1) \/ gate.pc = "restoreApi" =>
       (Supervisor \in gate.timers => Watched)

\* What each step of the script may rely on.
ScriptKnows ==
  /\ Waiting /\ gate.pc = "quiet" => AllQuiet
  /\ script.pc = "prepare" => gate.pc = "idle" /\ Watched
  /\ script.pc = "gate" /\ gate.pc = "deferred" => Watched
  /\ script.pc = "deferred" => Watched
  /\ script.pc = "rollbackGate" /\ gate.pc = "deferred" =>
       Watched \/ (AllQuiet /\ gate.failures = {})
  /\ script.pc = "kept" => Watched \/ (AllQuiet /\ gate.failures = {})
  /\ script.pc \in {"swap", "supervisor", "rollback", "rollbackSupervisor"} => AllQuiet
  /\ script.pc \in {"api", "ready", "timers", "deployed", "rollbackApi", "rollbackTimers",
                    "rolledBack"} => Supervisor \in timers
  /\ script.pc # "prepare" => Supervisor \in script.timers
  /\ Waiting => gate.pc # "idle"

LEMMA UnitFacts ==
  /\ Len(UnitOrder) \in Nat \ {0} /\ DOMAIN UnitOrder = 1 .. Len(UnitOrder)
  /\ \A k \in 1 .. Len(UnitOrder) : UnitOrder[k] \in Units
  /\ \A u \in Units : \E k \in 1 .. Len(UnitOrder) : UnitOrder[k] = u
  BY RolloutAssumption DEF Units

LEMMA GateTypes ==
  ASSUME RolloutTypeOK
  PROVE  gate \in GateRow /\ Patience \in Nat
  BY RolloutAssumption DEF RolloutTypeOK

RolloutInv == RolloutTypeOK /\ LocksHold /\ Progress /\ SupervisorKept /\ ScriptKnows

LEMMA FireTimerKeeps ==
  ASSUME RolloutInv, NEW u \in Units, FireTimer(u)
  PROVE  RolloutInv'
<1>1. RolloutTypeOK'
  BY RolloutAssumption, UnitFacts DEF FireTimer, RolloutInv, RolloutTypeOK, GateRow, GateSteps,
     ScriptSteps, WorkerStates
<1>2. LocksHold'
  BY RolloutAssumption, UnitFacts DEF FireTimer, RolloutInv, RolloutTypeOK, LocksHold, Active,
     Waiting, GateSteps, LockSteps, ChangedSteps
<1>3. Progress'
  BY RolloutAssumption, UnitFacts DEF FireTimer, RolloutInv, RolloutTypeOK, LocksHold, Progress,
     GateRow, LockSteps
<1>4. SupervisorKept'
  BY RolloutAssumption, UnitFacts DEF FireTimer, RolloutInv, RolloutTypeOK, LocksHold, Progress,
     SupervisorKept, ScriptKnows, Remembered, Watched, Waiting, Active, AllQuiet, GateSteps,
     LockSteps, ChangedSteps
<1>5. ScriptKnows'
  BY RolloutAssumption, UnitFacts DEF FireTimer, RolloutInv, RolloutTypeOK, LocksHold, Progress,
     SupervisorKept, ScriptKnows, Remembered, Watched, Waiting, Active, AllQuiet, GateSteps,
     ChangedSteps
<1> QED  BY <1>1, <1>2, <1>3, <1>4, <1>5 DEF RolloutInv

LEMMA BeginWriteKeeps ==
  ASSUME RolloutInv, NEW u \in Units, BeginWrite(u)
  PROVE  RolloutInv'
<1>1. RolloutTypeOK'
  BY RolloutAssumption, UnitFacts DEF BeginWrite, Locked, RolloutInv, RolloutTypeOK, GateRow,
     GateSteps, ScriptSteps, WorkerStates
<1>2. LocksHold'
  BY RolloutAssumption, UnitFacts DEF BeginWrite, Locked, RolloutInv, RolloutTypeOK, LocksHold,
     Active, Waiting, GateSteps, LockSteps, ChangedSteps
<1>3. Progress'
  BY RolloutAssumption, UnitFacts DEF BeginWrite, Locked, RolloutInv, RolloutTypeOK, LocksHold,
     Progress, GateRow, LockSteps
<1>4. SupervisorKept'
  BY RolloutAssumption, UnitFacts DEF BeginWrite, Locked, RolloutInv, RolloutTypeOK, LocksHold,
     Progress, SupervisorKept, ScriptKnows, Remembered, Watched, Waiting, Active, AllQuiet,
     GateSteps, LockSteps, ChangedSteps
<1>5. ScriptKnows'
  BY RolloutAssumption, UnitFacts DEF BeginWrite, Locked, RolloutInv, RolloutTypeOK, LocksHold,
     Progress, SupervisorKept, ScriptKnows, Remembered, Watched, Waiting, Active, AllQuiet,
     GateSteps, ChangedSteps
<1> QED  BY <1>1, <1>2, <1>3, <1>4, <1>5 DEF RolloutInv

LEMMA CommitWriteKeeps ==
  ASSUME RolloutInv, NEW u \in Units, CommitWrite(u)
  PROVE  RolloutInv'
<1>1. RolloutTypeOK'
  BY RolloutAssumption, UnitFacts DEF CommitWrite, RolloutInv, RolloutTypeOK, GateRow, GateSteps,
     ScriptSteps, WorkerStates
<1>2. LocksHold'
  BY RolloutAssumption, UnitFacts DEF CommitWrite, RolloutInv, RolloutTypeOK, LocksHold, Active,
     Waiting, GateSteps, LockSteps, ChangedSteps
<1>3. Progress'
  BY RolloutAssumption, UnitFacts DEF CommitWrite, RolloutInv, RolloutTypeOK, LocksHold, Progress,
     GateRow, LockSteps
<1>4. SupervisorKept'
  BY RolloutAssumption, UnitFacts DEF CommitWrite, RolloutInv, RolloutTypeOK, LocksHold, Progress,
     SupervisorKept, ScriptKnows, Remembered, Watched, Waiting, Active, AllQuiet, GateSteps,
     LockSteps, ChangedSteps
<1>5. ScriptKnows'
  BY RolloutAssumption, UnitFacts DEF CommitWrite, RolloutInv, RolloutTypeOK, LocksHold, Progress,
     SupervisorKept, ScriptKnows, Remembered, Watched, Waiting, Active, AllQuiet, GateSteps,
     ChangedSteps
<1> QED  BY <1>1, <1>2, <1>3, <1>4, <1>5 DEF RolloutInv

LEMMA EndWorkerKeeps ==
  ASSUME RolloutInv, NEW u \in Units, EndWorker(u)
  PROVE  RolloutInv'
<1>1. RolloutTypeOK'
  BY RolloutAssumption, UnitFacts DEF EndWorker, RolloutInv, RolloutTypeOK, GateRow, GateSteps,
     ScriptSteps, WorkerStates
<1>2. LocksHold'
  BY RolloutAssumption, UnitFacts DEF EndWorker, RolloutInv, RolloutTypeOK, LocksHold, Active,
     Waiting, GateSteps, LockSteps, ChangedSteps
<1>3. Progress'
  BY RolloutAssumption, UnitFacts DEF EndWorker, RolloutInv, RolloutTypeOK, LocksHold, Progress,
     GateRow, LockSteps
<1>4. SupervisorKept'
  BY RolloutAssumption, UnitFacts DEF EndWorker, RolloutInv, RolloutTypeOK, LocksHold, Progress,
     SupervisorKept, ScriptKnows, Remembered, Watched, Waiting, Active, AllQuiet, GateSteps,
     LockSteps, ChangedSteps
<1>5. ScriptKnows'
  BY RolloutAssumption, UnitFacts DEF EndWorker, RolloutInv, RolloutTypeOK, LocksHold, Progress,
     SupervisorKept, ScriptKnows, Remembered, Watched, Waiting, Active, AllQuiet, GateSteps,
     ChangedSteps
<1> QED  BY <1>1, <1>2, <1>3, <1>4, <1>5 DEF RolloutInv

LEMMA WatchdogKeeps ==
  ASSUME RolloutInv, WatchdogRestartsApi
  PROVE  RolloutInv'
<1>1. RolloutTypeOK'
  BY RolloutAssumption, UnitFacts DEF WatchdogRestartsApi, RolloutInv, RolloutTypeOK, GateRow,
     GateSteps, ScriptSteps, WorkerStates
<1>2. LocksHold'
  BY RolloutAssumption, UnitFacts DEF WatchdogRestartsApi, RolloutInv, RolloutTypeOK, LocksHold,
     Active, Waiting, GateSteps, LockSteps, ChangedSteps
<1>3. Progress'
  BY RolloutAssumption, UnitFacts DEF WatchdogRestartsApi, RolloutInv, RolloutTypeOK, LocksHold,
     Progress, GateRow, LockSteps
<1>4. SupervisorKept'
  BY RolloutAssumption, UnitFacts DEF WatchdogRestartsApi, RolloutInv, RolloutTypeOK, LocksHold,
     Progress, SupervisorKept, ScriptKnows, Remembered, Watched, Waiting, Active, AllQuiet,
     GateSteps, LockSteps, ChangedSteps
<1>5. ScriptKnows'
  BY RolloutAssumption, UnitFacts DEF WatchdogRestartsApi, RolloutInv, RolloutTypeOK, LocksHold,
     Progress, SupervisorKept, ScriptKnows, Remembered, Watched, Waiting, Active, AllQuiet,
     GateSteps, ChangedSteps
<1> QED  BY <1>1, <1>2, <1>3, <1>4, <1>5 DEF RolloutInv

LEMMA ApiEntersKeeps ==
  ASSUME RolloutInv, NEW e, ApiEnters(e)
  PROVE  RolloutInv'
<1>1. RolloutTypeOK'
  BY RolloutAssumption, UnitFacts DEF ApiEnters, Locked, RolloutInv, RolloutTypeOK, GateRow,
     GateSteps, ScriptSteps, WorkerStates
<1>2. LocksHold'
  BY RolloutAssumption, UnitFacts DEF ApiEnters, Locked, RolloutInv, RolloutTypeOK, LocksHold,
     Active, Waiting, GateSteps, LockSteps, ChangedSteps
<1>3. Progress'
  BY RolloutAssumption, UnitFacts DEF ApiEnters, Locked, RolloutInv, RolloutTypeOK, LocksHold,
     Progress, GateRow, LockSteps
<1>4. SupervisorKept'
  BY RolloutAssumption, UnitFacts DEF ApiEnters, Locked, RolloutInv, RolloutTypeOK, LocksHold,
     Progress, SupervisorKept, ScriptKnows, Remembered, Watched, Waiting, Active, AllQuiet,
     GateSteps, LockSteps, ChangedSteps
<1>5. ScriptKnows'
  BY RolloutAssumption, UnitFacts DEF ApiEnters, Locked, RolloutInv, RolloutTypeOK, LocksHold,
     Progress, SupervisorKept, ScriptKnows, Remembered, Watched, Waiting, Active, AllQuiet,
     GateSteps, ChangedSteps
<1> QED  BY <1>1, <1>2, <1>3, <1>4, <1>5 DEF RolloutInv

LEMMA LoseKeeps ==
  ASSUME RolloutInv, LoseConnection
  PROVE  RolloutInv'
<1>1. RolloutTypeOK'
  BY RolloutAssumption, UnitFacts DEF LoseConnection, Locked, RolloutInv, RolloutTypeOK, GateRow,
     GateSteps, ScriptSteps, WorkerStates
<1>2. LocksHold'
  BY RolloutAssumption, UnitFacts DEF LoseConnection, Locked, RolloutInv, RolloutTypeOK,
     LocksHold, Active, Waiting, GateSteps, LockSteps, ChangedSteps
<1>3. Progress'
  BY RolloutAssumption, UnitFacts DEF LoseConnection, Locked, RolloutInv, RolloutTypeOK,
     LocksHold, Progress, GateRow, LockSteps
<1>4. SupervisorKept'
  BY RolloutAssumption, UnitFacts DEF LoseConnection, Locked, RolloutInv, RolloutTypeOK,
     LocksHold, Progress, SupervisorKept, ScriptKnows, Remembered, Watched, Waiting, Active,
     AllQuiet, GateSteps, LockSteps, ChangedSteps
<1>5. ScriptKnows'
  BY RolloutAssumption, UnitFacts DEF LoseConnection, Locked, RolloutInv, RolloutTypeOK,
     LocksHold, Progress, SupervisorKept, ScriptKnows, Remembered, Watched, Waiting, Active,
     AllQuiet, GateSteps, ChangedSteps
<1> QED  BY <1>1, <1>2, <1>3, <1>4, <1>5 DEF RolloutInv

LEMMA RestoreApiKeeps ==
  ASSUME RolloutInv, RestoreApi
  PROVE  RolloutInv'
<1>1. RolloutTypeOK'
  BY RolloutAssumption, UnitFacts DEF RestoreApi, NoGate, RolloutInv, RolloutTypeOK, GateRow,
     GateSteps, ScriptSteps, WorkerStates
<1>2. LocksHold'
  BY RolloutAssumption, UnitFacts DEF RestoreApi, NoGate, RolloutInv, RolloutTypeOK, LocksHold,
     Active, Waiting, GateSteps, LockSteps, ChangedSteps
<1>3. Progress'
  BY RolloutAssumption, UnitFacts DEF RestoreApi, NoGate, RolloutInv, RolloutTypeOK, LocksHold,
     Progress, GateRow, LockSteps
<1>4. SupervisorKept'
  BY RolloutAssumption, UnitFacts DEF RestoreApi, NoGate, RolloutInv, RolloutTypeOK, LocksHold,
     Progress, SupervisorKept, ScriptKnows, Remembered, Watched, Waiting, Active, AllQuiet,
     GateSteps, LockSteps, ChangedSteps
<1>5. ScriptKnows'
  BY RolloutAssumption, UnitFacts DEF RestoreApi, NoGate, RolloutInv, RolloutTypeOK, LocksHold,
     Progress, SupervisorKept, ScriptKnows, Remembered, Watched, Waiting, Active, AllQuiet,
     GateSteps, ChangedSteps
<1> QED  BY <1>1, <1>2, <1>3, <1>4, <1>5 DEF RolloutInv

LEMMA AbortKeeps ==
  ASSUME RolloutInv, Abort, gate.pc \in LockSteps \cup {"locking"},
         UNCHANGED <<timers, worker, api, exposed, script, release>>
  PROVE  RolloutInv'
<1>1. CASE gate.changed
  <2>1. /\ gate' \in GateRow
        /\ gate'.pc = "restoring" /\ gate'.locks = "none" /\ gate'.i = 1
        /\ gate'.polls = 0 /\ gate'.timers = gate.timers /\ gate'.api = gate.api
        /\ gate'.changed = gate.changed /\ gate'.failures = gate.failures
    BY <1>1, GateTypes DEF Abort, RolloutInv, GateRow, GateSteps
  <2>2. UNCHANGED <<timers, worker, api, exposed, script, release>>
    BY <1>1 DEF Abort
  <2>3. RolloutTypeOK'
    BY <1>1, <2>1, <2>2, RolloutAssumption, UnitFacts DEF RolloutInv, RolloutTypeOK, GateRow,
       GateSteps, ScriptSteps, WorkerStates
  <2>4. LocksHold'
    BY <1>1, <2>1, <2>2, RolloutAssumption, UnitFacts DEF RolloutInv, RolloutTypeOK, LocksHold,
       Active, Waiting, GateSteps, LockSteps, ChangedSteps
  <2>5. Progress'
    BY <1>1, <2>1, <2>2, RolloutAssumption, UnitFacts DEF RolloutInv, RolloutTypeOK, LocksHold,
       Progress, GateRow, LockSteps
  <2>6. SupervisorKept'
    BY <1>1, <2>1, <2>2, RolloutAssumption, UnitFacts DEF RolloutInv, RolloutTypeOK, LocksHold,
       Progress, SupervisorKept, ScriptKnows, Remembered, Watched, Waiting, Active, AllQuiet,
       GateSteps, LockSteps, ChangedSteps
  <2>7. ScriptKnows'
    BY <1>1, <2>1, <2>2, RolloutAssumption, UnitFacts DEF RolloutInv, RolloutTypeOK, LocksHold,
       Progress, SupervisorKept, ScriptKnows, Remembered, Watched, Waiting, Active, AllQuiet,
       GateSteps, ChangedSteps
  <2> QED  BY <2>3, <2>4, <2>5, <2>6, <2>7 DEF RolloutInv
<1>2. CASE ~gate.changed
  <2>1. /\ gate' \in GateRow
        /\ gate'.pc = "deferred" /\ gate'.locks = "none" /\ gate'.i = 1
        /\ gate'.polls = 0 /\ gate'.timers = {} /\ gate'.api = FALSE
        /\ gate'.changed = FALSE /\ gate'.failures = {}
    BY <1>2, GateTypes DEF Abort, NoGate, RolloutInv, GateRow, GateSteps
  <2>2. UNCHANGED <<timers, worker, api, exposed, script, release>>
    BY <1>2 DEF Abort, NoGate
  <2>3. RolloutTypeOK'
    BY <1>2, <2>1, <2>2, RolloutAssumption, UnitFacts DEF RolloutInv, RolloutTypeOK, GateRow,
       GateSteps, ScriptSteps, WorkerStates
  <2>4. LocksHold'
    BY <1>2, <2>1, <2>2, RolloutAssumption, UnitFacts DEF RolloutInv, RolloutTypeOK, LocksHold,
       Active, Waiting, GateSteps, LockSteps, ChangedSteps
  <2>5. Progress'
    BY <1>2, <2>1, <2>2, RolloutAssumption, UnitFacts DEF RolloutInv, RolloutTypeOK, LocksHold,
       Progress, GateRow, LockSteps
  <2>6. SupervisorKept'
    BY <1>2, <2>1, <2>2, RolloutAssumption, UnitFacts DEF RolloutInv, RolloutTypeOK, LocksHold,
       Progress, SupervisorKept, ScriptKnows, Remembered, Watched, Waiting, Active, AllQuiet,
       GateSteps, LockSteps, ChangedSteps
  <2>7. ScriptKnows'
    BY <1>2, <2>1, <2>2, RolloutAssumption, UnitFacts DEF RolloutInv, RolloutTypeOK, LocksHold,
       Progress, SupervisorKept, ScriptKnows, GateRow, GateSteps, ScriptSteps, WorkerStates,
       ChangedSteps, LockSteps, Active, Waiting, Watched, AllQuiet, Remembered
  <2> QED  BY <2>3, <2>4, <2>5, <2>6, <2>7 DEF RolloutInv
<1> QED  BY <1>1, <1>2

LEMMA LockTablesKeeps ==
  ASSUME RolloutInv, LockTables
  PROVE  RolloutInv'
<1>1. CASE gate' = [gate EXCEPT !.pc = "judging", !.locks = "held"] /\ \A u \in Units : worker[u] # "writing"
  <2>1. /\ gate' \in GateRow
        /\ gate'.pc = "judging" /\ gate'.locks = "held" /\ gate'.i = gate.i
        /\ gate'.polls = gate.polls /\ gate'.timers = gate.timers /\ gate'.api = gate.api
        /\ gate'.changed = gate.changed /\ gate'.failures = gate.failures
    BY <1>1, GateTypes DEF LockTables, RolloutInv, GateRow, GateSteps
  <2>2. UNCHANGED <<timers, worker, api, exposed, script, release>> /\ gate.pc = "locking"
        /\ \A x \in Units : worker[x] # "writing"
    BY <1>1 DEF LockTables
  <2>3. RolloutTypeOK'
    BY <1>1, <2>1, <2>2, RolloutAssumption, UnitFacts DEF RolloutInv, RolloutTypeOK, GateRow,
       GateSteps, ScriptSteps, WorkerStates
  <2>4. LocksHold'
    BY <1>1, <2>1, <2>2, RolloutAssumption, UnitFacts DEF RolloutInv, RolloutTypeOK, LocksHold,
       Active, Waiting, GateSteps, LockSteps, ChangedSteps
  <2>5. Progress'
    BY <1>1, <2>1, <2>2, RolloutAssumption, UnitFacts DEF RolloutInv, RolloutTypeOK, LocksHold,
       Progress, GateRow, LockSteps
  <2>6. SupervisorKept'
    BY <1>1, <2>1, <2>2, RolloutAssumption, UnitFacts DEF RolloutInv, RolloutTypeOK, LocksHold,
       Progress, SupervisorKept, ScriptKnows, Remembered, Watched, Waiting, Active, AllQuiet,
       GateSteps, LockSteps, ChangedSteps
  <2>7. ScriptKnows'
    BY <1>1, <2>1, <2>2, RolloutAssumption, UnitFacts DEF RolloutInv, RolloutTypeOK, LocksHold,
       Progress, SupervisorKept, ScriptKnows, Remembered, Watched, Waiting, Active, AllQuiet,
       GateSteps, ChangedSteps
  <2> QED  BY <2>3, <2>4, <2>5, <2>6, <2>7 DEF RolloutInv
<1>2. CASE Abort /\ UNCHANGED <<timers, worker, api, exposed, script, release>>
  BY <1>2, AbortKeeps DEF LockTables, LockSteps
<1> QED  BY <1>1, <1>2 DEF LockTables

LEMMA JudgeKeeps ==
  ASSUME RolloutInv, JudgeExposure
  PROVE  RolloutInv'
<1>1. CASE /\ exposed = {}
           /\ gate' = [gate EXCEPT !.pc = "stopping", !.i = 1, !.timers = timers, !.api = api,
                                   !.changed = TRUE]
  <2>1. /\ gate' \in GateRow
        /\ gate'.pc = "stopping" /\ gate'.locks = gate.locks /\ gate'.i = 1
        /\ gate'.polls = gate.polls /\ gate'.timers = timers /\ gate'.api = api
        /\ gate'.changed = TRUE /\ gate'.failures = gate.failures
    BY <1>1, GateTypes DEF JudgeExposure, RolloutInv, RolloutTypeOK, GateRow, GateSteps
  <2>2. UNCHANGED <<timers, worker, api, exposed, script, release>> /\ gate.pc = "judging" /\ exposed = {}
    BY <1>1 DEF JudgeExposure
  <2>3. RolloutTypeOK'
    BY <1>1, <2>1, <2>2, RolloutAssumption, UnitFacts DEF RolloutInv, RolloutTypeOK, GateRow,
       GateSteps, ScriptSteps, WorkerStates
  <2>4. LocksHold'
    BY <1>1, <2>1, <2>2, RolloutAssumption, UnitFacts DEF RolloutInv, RolloutTypeOK, LocksHold,
       Active, Waiting, GateSteps, LockSteps, ChangedSteps
  <2>5. Progress'
    BY <1>1, <2>1, <2>2, RolloutAssumption, UnitFacts DEF RolloutInv, RolloutTypeOK, LocksHold,
       Progress, GateRow, LockSteps
  <2>6. SupervisorKept'
    BY <1>1, <2>1, <2>2, RolloutAssumption, UnitFacts DEF RolloutInv, RolloutTypeOK, LocksHold,
       Progress, SupervisorKept, ScriptKnows, Remembered, Watched, Waiting, Active, AllQuiet,
       GateSteps, LockSteps, ChangedSteps
  <2>7. ScriptKnows'
    BY <1>1, <2>1, <2>2, RolloutAssumption, UnitFacts DEF RolloutInv, RolloutTypeOK, LocksHold,
       Progress, SupervisorKept, ScriptKnows, Remembered, Watched, Waiting, Active, AllQuiet,
       GateSteps, ChangedSteps
  <2> QED  BY <2>3, <2>4, <2>5, <2>6, <2>7 DEF RolloutInv
<1>2. CASE Abort /\ UNCHANGED <<timers, worker, api, exposed, script, release>>
  BY <1>2, AbortKeeps DEF JudgeExposure, LockSteps
<1> QED  BY <1>1, <1>2 DEF JudgeExposure

LEMMA StopTimerKeeps ==
  ASSUME RolloutInv, StopTimer
  PROVE  RolloutInv'
<1>1. CASE /\ timers' = timers \ {UnitOrder[gate.i]} /\ gate.i < Len(UnitOrder)
           /\ gate' = [gate EXCEPT !.i = @ + 1]
  <2>1. /\ gate' \in GateRow
        /\ gate'.pc = gate.pc /\ gate'.locks = gate.locks /\ gate'.i = gate.i + 1
        /\ gate'.polls = gate.polls /\ gate'.timers = gate.timers /\ gate'.api = gate.api
        /\ gate'.changed = gate.changed /\ gate'.failures = gate.failures
    BY <1>1, GateTypes DEF StopTimer, RolloutInv, GateRow, GateSteps
  <2>2. /\ UNCHANGED <<worker, api, exposed, script, release>>
        /\ timers' = timers \ {UnitOrder[gate.i]} /\ gate.pc = "stopping"
    BY <1>1 DEF StopTimer
  <2>3. RolloutTypeOK'
    BY <1>1, <2>1, <2>2, RolloutAssumption, UnitFacts DEF RolloutInv, RolloutTypeOK, GateRow,
       GateSteps, ScriptSteps, WorkerStates
  <2>4. LocksHold'
    BY <1>1, <2>1, <2>2, RolloutAssumption, UnitFacts DEF RolloutInv, RolloutTypeOK, LocksHold,
       Active, Waiting, GateSteps, LockSteps, ChangedSteps
  <2>5. Progress'
    BY <1>1, <2>1, <2>2, RolloutAssumption, UnitFacts DEF RolloutInv, RolloutTypeOK, LocksHold,
       Progress, GateRow, LockSteps
  <2>6. SupervisorKept'
    BY <1>1, <2>1, <2>2, RolloutAssumption, UnitFacts DEF RolloutInv, RolloutTypeOK, LocksHold,
       Progress, SupervisorKept, ScriptKnows, Remembered, Watched, Waiting, Active, AllQuiet,
       GateSteps, LockSteps, ChangedSteps
  <2>7. ScriptKnows'
    BY <1>1, <2>1, <2>2, RolloutAssumption, UnitFacts DEF RolloutInv, RolloutTypeOK, LocksHold,
       Progress, SupervisorKept, ScriptKnows, Remembered, Watched, Waiting, Active, AllQuiet,
       GateSteps, ChangedSteps
  <2> QED  BY <2>3, <2>4, <2>5, <2>6, <2>7 DEF RolloutInv
<1>2. CASE /\ timers' = timers \ {UnitOrder[gate.i]} /\ ~(gate.i < Len(UnitOrder))
           /\ Gate("stopApi")
  <2>1. /\ gate' \in GateRow
        /\ gate'.pc = "stopApi" /\ gate'.locks = gate.locks /\ gate'.i = 1
        /\ gate'.polls = gate.polls /\ gate'.timers = gate.timers /\ gate'.api = gate.api
        /\ gate'.changed = gate.changed /\ gate'.failures = gate.failures
    BY <1>2, GateTypes DEF StopTimer, Gate, RolloutInv, GateRow, GateSteps
  <2>2. /\ UNCHANGED <<worker, api, exposed, script, release>>
        /\ timers' = timers \ {UnitOrder[gate.i]} /\ gate.pc = "stopping"
        /\ timers' = {}
    <3>1. gate.i = Len(UnitOrder)
      BY <1>2, UnitFacts DEF StopTimer, RolloutInv, Progress
    <3>2. ASSUME NEW x \in timers'  PROVE FALSE
      <4>1. PICK k \in 1 .. Len(UnitOrder) : UnitOrder[k] = x
        BY <1>2, UnitFacts DEF RolloutInv, RolloutTypeOK
      <4>2. k < gate.i
        BY <1>2, <3>1, <4>1, UnitFacts
      <4> QED  BY <1>2, <4>1, <4>2, UnitFacts DEF StopTimer, RolloutInv, Progress
    <3> QED  BY <1>2, <3>2 DEF StopTimer, Gate
  <2>3. RolloutTypeOK'
    BY <1>2, <2>1, <2>2, RolloutAssumption, UnitFacts DEF RolloutInv, RolloutTypeOK, GateRow,
       GateSteps, ScriptSteps, WorkerStates
  <2>4. LocksHold'
    BY <1>2, <2>1, <2>2, RolloutAssumption, UnitFacts DEF RolloutInv, RolloutTypeOK, LocksHold,
       Active, Waiting, GateSteps, LockSteps, ChangedSteps
  <2>5. Progress'
    BY <1>2, <2>1, <2>2, RolloutAssumption, UnitFacts DEF RolloutInv, RolloutTypeOK, LocksHold,
       Progress, GateRow, LockSteps
  <2>6. SupervisorKept'
    BY <1>2, <2>1, <2>2, RolloutAssumption, UnitFacts DEF RolloutInv, RolloutTypeOK, LocksHold,
       Progress, SupervisorKept, ScriptKnows, Remembered, Watched, Waiting, Active, AllQuiet,
       GateSteps, LockSteps, ChangedSteps
  <2>7. ScriptKnows'
    BY <1>2, <2>1, <2>2, RolloutAssumption, UnitFacts DEF RolloutInv, RolloutTypeOK, LocksHold,
       Progress, SupervisorKept, ScriptKnows, Remembered, Watched, Waiting, Active, AllQuiet,
       GateSteps, ChangedSteps
  <2> QED  BY <2>3, <2>4, <2>5, <2>6, <2>7 DEF RolloutInv
<1>3. CASE Abort /\ UNCHANGED <<timers, worker, api, exposed, script, release>>
  BY <1>3, AbortKeeps DEF StopTimer, LockSteps
<1> QED  BY <1>1, <1>2, <1>3 DEF StopTimer

LEMMA StopApiKeeps ==
  ASSUME RolloutInv, StopApi
  PROVE  RolloutInv'
<1>1. CASE /\ api' = FALSE /\ gate.pc = "stopApi"
           /\ gate' = [gate EXCEPT !.pc = "draining", !.i = 1, !.polls = 0]
  <2>1. /\ gate' \in GateRow
        /\ gate'.pc = "draining" /\ gate'.locks = gate.locks /\ gate'.i = 1
        /\ gate'.polls = 0 /\ gate'.timers = gate.timers /\ gate'.api = gate.api
        /\ gate'.changed = gate.changed /\ gate'.failures = gate.failures
    BY <1>1, GateTypes DEF StopApi, RolloutInv, GateRow, GateSteps
  <2>2. /\ UNCHANGED <<timers, worker, exposed, script, release>>
        /\ api' = FALSE /\ gate.pc \in {"stopApi", "stopApiAgain"}
    BY <1>1 DEF StopApi
  <2>3. RolloutTypeOK'
    BY <1>1, <2>1, <2>2, RolloutAssumption, UnitFacts DEF RolloutInv, RolloutTypeOK, GateRow,
       GateSteps, ScriptSteps, WorkerStates
  <2>4. LocksHold'
    BY <1>1, <2>1, <2>2, RolloutAssumption, UnitFacts DEF RolloutInv, RolloutTypeOK, LocksHold,
       Active, Waiting, GateSteps, LockSteps, ChangedSteps
  <2>5. Progress'
    BY <1>1, <2>1, <2>2, RolloutAssumption, UnitFacts DEF RolloutInv, RolloutTypeOK, LocksHold,
       Progress, GateRow, LockSteps
  <2>6. SupervisorKept'
    BY <1>1, <2>1, <2>2, RolloutAssumption, UnitFacts DEF RolloutInv, RolloutTypeOK, LocksHold,
       Progress, SupervisorKept, ScriptKnows, Remembered, Watched, Waiting, Active, AllQuiet,
       GateSteps, LockSteps, ChangedSteps
  <2>7. ScriptKnows'
    BY <1>1, <2>1, <2>2, RolloutAssumption, UnitFacts DEF RolloutInv, RolloutTypeOK, LocksHold,
       Progress, SupervisorKept, ScriptKnows, Remembered, Watched, Waiting, Active, AllQuiet,
       GateSteps, ChangedSteps
  <2> QED  BY <2>3, <2>4, <2>5, <2>6, <2>7 DEF RolloutInv
<1>2. CASE api' = FALSE /\ gate.pc = "stopApiAgain" /\ Gate("confirming")
  <2>1. /\ gate' \in GateRow
        /\ gate'.pc = "confirming" /\ gate'.locks = gate.locks /\ gate'.i = 1
        /\ gate'.polls = gate.polls /\ gate'.timers = gate.timers /\ gate'.api = gate.api
        /\ gate'.changed = gate.changed /\ gate'.failures = gate.failures
    BY <1>2, GateTypes DEF StopApi, Gate, RolloutInv, GateRow, GateSteps
  <2>2. /\ UNCHANGED <<timers, worker, exposed, script, release>>
        /\ api' = FALSE /\ gate.pc \in {"stopApi", "stopApiAgain"}
    BY <1>2 DEF StopApi, Gate
  <2>3. RolloutTypeOK'
    BY <1>2, <2>1, <2>2, RolloutAssumption, UnitFacts DEF RolloutInv, RolloutTypeOK, GateRow,
       GateSteps, ScriptSteps, WorkerStates
  <2>4. LocksHold'
    BY <1>2, <2>1, <2>2, RolloutAssumption, UnitFacts DEF RolloutInv, RolloutTypeOK, LocksHold,
       Active, Waiting, GateSteps, LockSteps, ChangedSteps
  <2>5. Progress'
    BY <1>2, <2>1, <2>2, RolloutAssumption, UnitFacts DEF RolloutInv, RolloutTypeOK, LocksHold,
       Progress, GateRow, LockSteps
  <2>6. SupervisorKept'
    BY <1>2, <2>1, <2>2, RolloutAssumption, UnitFacts DEF RolloutInv, RolloutTypeOK, LocksHold,
       Progress, SupervisorKept, ScriptKnows, Remembered, Watched, Waiting, Active, AllQuiet,
       GateSteps, LockSteps, ChangedSteps
  <2>7. ScriptKnows'
    BY <1>2, <2>1, <2>2, RolloutAssumption, UnitFacts DEF RolloutInv, RolloutTypeOK, LocksHold,
       Progress, SupervisorKept, ScriptKnows, Remembered, Watched, Waiting, Active, AllQuiet,
       GateSteps, ChangedSteps
  <2> QED  BY <2>3, <2>4, <2>5, <2>6, <2>7 DEF RolloutInv
<1>3. CASE Abort /\ UNCHANGED <<timers, worker, api, exposed, script, release>>
  BY <1>3, AbortKeeps DEF StopApi, LockSteps
<1> QED  BY <1>1, <1>2, <1>3 DEF StopApi

LEMMA PollKeeps ==
  ASSUME RolloutInv, PollWorker
  PROVE  RolloutInv'
<1>1. CASE /\ worker[UnitOrder[gate.i]] = "idle" /\ gate.i < Len(UnitOrder)
           /\ gate' = [gate EXCEPT !.i = @ + 1]
  <2>1. /\ gate' \in GateRow
        /\ gate'.pc = gate.pc /\ gate'.locks = gate.locks /\ gate'.i = gate.i + 1
        /\ gate'.polls = gate.polls /\ gate'.timers = gate.timers /\ gate'.api = gate.api
        /\ gate'.changed = gate.changed /\ gate'.failures = gate.failures
    BY <1>1, GateTypes DEF PollWorker, RolloutInv, GateRow, GateSteps
  <2>2. UNCHANGED <<timers, worker, api, exposed, script, release>> /\ gate.pc = "draining"
    BY <1>1 DEF PollWorker
  <2>3. RolloutTypeOK'
    BY <1>1, <2>1, <2>2, RolloutAssumption, UnitFacts DEF RolloutInv, RolloutTypeOK, GateRow,
       GateSteps, ScriptSteps, WorkerStates
  <2>4. LocksHold'
    BY <1>1, <2>1, <2>2, RolloutAssumption, UnitFacts DEF RolloutInv, RolloutTypeOK, LocksHold,
       Active, Waiting, GateSteps, LockSteps, ChangedSteps
  <2>5. Progress'
    BY <1>1, <2>1, <2>2, RolloutAssumption, UnitFacts DEF RolloutInv, RolloutTypeOK, LocksHold,
       Progress, GateRow, LockSteps
  <2>6. SupervisorKept'
    BY <1>1, <2>1, <2>2, RolloutAssumption, UnitFacts DEF RolloutInv, RolloutTypeOK, LocksHold,
       Progress, SupervisorKept, ScriptKnows, Remembered, Watched, Waiting, Active, AllQuiet,
       GateSteps, LockSteps, ChangedSteps
  <2>7. ScriptKnows'
    BY <1>1, <2>1, <2>2, RolloutAssumption, UnitFacts DEF RolloutInv, RolloutTypeOK, LocksHold,
       Progress, SupervisorKept, ScriptKnows, Remembered, Watched, Waiting, Active, AllQuiet,
       GateSteps, ChangedSteps
  <2> QED  BY <2>3, <2>4, <2>5, <2>6, <2>7 DEF RolloutInv
<1>2. CASE /\ worker[UnitOrder[gate.i]] = "idle" /\ ~(gate.i < Len(UnitOrder))
           /\ gate' = [gate EXCEPT !.pc = "stopApiAgain", !.i = 1, !.polls = 0]
  <2>1. /\ gate' \in GateRow
        /\ gate'.pc = "stopApiAgain" /\ gate'.locks = gate.locks /\ gate'.i = 1
        /\ gate'.polls = 0 /\ gate'.timers = gate.timers /\ gate'.api = gate.api
        /\ gate'.changed = gate.changed /\ gate'.failures = gate.failures
    BY <1>2, GateTypes DEF PollWorker, RolloutInv, GateRow, GateSteps
  <2>2. UNCHANGED <<timers, worker, api, exposed, script, release>> /\ gate.pc = "draining"
    BY <1>2 DEF PollWorker
  <2>3. RolloutTypeOK'
    BY <1>2, <2>1, <2>2, RolloutAssumption, UnitFacts DEF RolloutInv, RolloutTypeOK, GateRow,
       GateSteps, ScriptSteps, WorkerStates
  <2>4. LocksHold'
    BY <1>2, <2>1, <2>2, RolloutAssumption, UnitFacts DEF RolloutInv, RolloutTypeOK, LocksHold,
       Active, Waiting, GateSteps, LockSteps, ChangedSteps
  <2>5. Progress'
    BY <1>2, <2>1, <2>2, RolloutAssumption, UnitFacts DEF RolloutInv, RolloutTypeOK, LocksHold,
       Progress, GateRow, LockSteps
  <2>6. SupervisorKept'
    BY <1>2, <2>1, <2>2, RolloutAssumption, UnitFacts DEF RolloutInv, RolloutTypeOK, LocksHold,
       Progress, SupervisorKept, ScriptKnows, Remembered, Watched, Waiting, Active, AllQuiet,
       GateSteps, LockSteps, ChangedSteps
  <2>7. ScriptKnows'
    BY <1>2, <2>1, <2>2, RolloutAssumption, UnitFacts DEF RolloutInv, RolloutTypeOK, LocksHold,
       Progress, SupervisorKept, ScriptKnows, Remembered, Watched, Waiting, Active, AllQuiet,
       GateSteps, ChangedSteps
  <2> QED  BY <2>3, <2>4, <2>5, <2>6, <2>7 DEF RolloutInv
<1>3. CASE gate' = [gate EXCEPT !.i = 1, !.polls = IF @ < Patience THEN @ + 1 ELSE @]
  <2>1. /\ gate' \in GateRow
        /\ gate'.pc = gate.pc /\ gate'.locks = gate.locks /\ gate'.i = 1
        /\ gate'.polls = (IF gate.polls < Patience THEN gate.polls + 1 ELSE gate.polls) /\ gate'.timers = gate.timers /\ gate'.api = gate.api
        /\ gate'.changed = gate.changed /\ gate'.failures = gate.failures
    <3>1. (IF gate.polls < Patience THEN gate.polls + 1 ELSE gate.polls) \in Nat
      BY GateTypes DEF RolloutInv, GateRow
    <3>2. gate' = [gate EXCEPT !.i = 1,
                     !.polls = IF gate.polls < Patience THEN gate.polls + 1 ELSE gate.polls]
      BY <1>3, GateTypes DEF RolloutInv, GateRow
    <3>. DEFINE p == IF gate.polls < Patience THEN gate.polls + 1 ELSE gate.polls
    <3>. HIDE DEF p
    <3>3. p \in Nat /\ gate' = [gate EXCEPT !.i = 1, !.polls = p]
      BY <3>1, <3>2 DEF p
    <3>4. /\ gate' \in GateRow
          /\ gate'.pc = gate.pc /\ gate'.locks = gate.locks /\ gate'.i = 1 /\ gate'.polls = p
          /\ gate'.timers = gate.timers /\ gate'.api = gate.api
          /\ gate'.changed = gate.changed /\ gate'.failures = gate.failures
      BY <3>3, GateTypes DEF RolloutInv, GateRow, GateSteps
    <3> QED  BY <3>4 DEF p
  <2>2. UNCHANGED <<timers, worker, api, exposed, script, release>> /\ gate.pc = "draining"
    BY <1>3 DEF PollWorker
  <2>3. RolloutTypeOK'
    BY <1>3, <2>1, <2>2, RolloutAssumption, UnitFacts DEF RolloutInv, RolloutTypeOK, GateRow,
       GateSteps, ScriptSteps, WorkerStates
  <2>4. LocksHold'
    BY <1>3, <2>1, <2>2, RolloutAssumption, UnitFacts DEF RolloutInv, RolloutTypeOK, LocksHold,
       Active, Waiting, GateSteps, LockSteps, ChangedSteps
  <2>5. Progress'
    BY <1>3, <2>1, <2>2, RolloutAssumption, UnitFacts DEF RolloutInv, RolloutTypeOK, LocksHold,
       Progress, GateRow, LockSteps
  <2>6. SupervisorKept'
    BY <1>3, <2>1, <2>2, RolloutAssumption, UnitFacts DEF RolloutInv, RolloutTypeOK, LocksHold,
       Progress, SupervisorKept, ScriptKnows, Remembered, Watched, Waiting, Active, AllQuiet,
       GateSteps, LockSteps, ChangedSteps
  <2>7. ScriptKnows'
    BY <1>3, <2>1, <2>2, RolloutAssumption, UnitFacts DEF RolloutInv, RolloutTypeOK, LocksHold,
       Progress, SupervisorKept, ScriptKnows, Remembered, Watched, Waiting, Active, AllQuiet,
       GateSteps, ChangedSteps
  <2> QED  BY <2>3, <2>4, <2>5, <2>6, <2>7 DEF RolloutInv
<1>4. CASE Abort /\ UNCHANGED <<timers, worker, api, exposed, script, release>>
  BY <1>4, AbortKeeps DEF PollWorker, LockSteps
<1> QED  BY <1>1, <1>2, <1>3, <1>4 DEF PollWorker

LEMMA ConfirmKeeps ==
  ASSUME RolloutInv, Confirm
  PROVE  RolloutInv'
<1>1. CASE StillOwned /\ ~api
  <2>1. /\ gate' \in GateRow
        /\ gate'.pc = "quiet" /\ gate'.locks = "none" /\ gate'.i = 1
        /\ gate'.polls = 0 /\ gate'.timers = {} /\ gate'.api = FALSE
        /\ gate'.changed = FALSE /\ gate'.failures = {}
    <3>1. gate' = [NoGate EXCEPT !.pc = "quiet"]
      BY <1>1 DEF Confirm
    <3> QED  BY <3>1 DEF NoGate, GateRow, GateSteps
  <2>2. UNCHANGED <<timers, worker, api, exposed, script, release>> /\ gate.pc = "confirming" /\ gate.locks = "held"
    BY <1>1 DEF Confirm, StillOwned
  <2>3. RolloutTypeOK'
    BY <1>1, <2>1, <2>2, RolloutAssumption, UnitFacts DEF RolloutInv, RolloutTypeOK, GateRow,
       GateSteps, ScriptSteps, WorkerStates
  <2>4. LocksHold'
    BY <1>1, <2>1, <2>2, RolloutAssumption, UnitFacts DEF RolloutInv, RolloutTypeOK, LocksHold,
       Active, Waiting, GateSteps, LockSteps, ChangedSteps
  <2>5. Progress'
    BY <1>1, <2>1, <2>2, RolloutAssumption, UnitFacts DEF RolloutInv, RolloutTypeOK, LocksHold,
       Progress, GateRow, LockSteps
  <2>6. SupervisorKept'
    BY <1>1, <2>1, <2>2, RolloutAssumption, UnitFacts DEF RolloutInv, RolloutTypeOK, LocksHold,
       Progress, SupervisorKept, ScriptKnows, Remembered, Watched, Waiting, Active, AllQuiet,
       GateSteps, LockSteps, ChangedSteps
  <2>7. ScriptKnows'
    BY <1>1, <2>1, <2>2, RolloutAssumption, UnitFacts DEF RolloutInv, RolloutTypeOK, LocksHold,
       Progress, SupervisorKept, ScriptKnows, Remembered, Watched, Waiting, Active, AllQuiet,
       GateSteps, ChangedSteps
  <2> QED  BY <2>3, <2>4, <2>5, <2>6, <2>7 DEF RolloutInv
<1>2. CASE Abort /\ UNCHANGED <<timers, worker, api, exposed, script, release>>
  BY <1>2, AbortKeeps DEF Confirm, LockSteps
<1> QED  BY <1>1, <1>2 DEF Confirm

LEMMA RestoreTimerKeeps ==
  ASSUME RolloutInv, RestoreTimer
  PROVE  RolloutInv'
<1>a. PICK u : u = RestoreOrder[gate.i]  OBVIOUS
<1>d. gate.i \in DOMAIN UnitOrder
  BY DEF RestoreTimer, RolloutInv, Progress
<1>b. /\ Len(RestoreOrder) = Len(UnitOrder)
      /\ UNCHANGED <<worker, api, exposed, script, release>> /\ gate.pc = "restoring"
  BY UnitFacts DEF RestoreTimer, RestoreOrder
<1>c. gate.i = 1 => u = Supervisor
  BY <1>a, <1>d DEF RestoreOrder
<1>1. CASE /\ gate.i < Len(RestoreOrder)
           /\ gate' = [gate EXCEPT !.i = @ + 1]
           /\ timers' = IF u \in gate.timers THEN timers \cup {u} ELSE timers
  <2>1. /\ gate' \in GateRow
        /\ gate'.pc = gate.pc /\ gate'.locks = gate.locks /\ gate'.i = gate.i + 1
        /\ gate'.polls = gate.polls /\ gate'.timers = gate.timers /\ gate'.api = gate.api
        /\ gate'.changed = gate.changed /\ gate'.failures = gate.failures
    BY <1>1, <1>a, <1>b, GateTypes DEF RolloutInv, GateRow, GateSteps
  <2>2. /\ UNCHANGED <<worker, api, exposed, script, release>> /\ gate.pc = "restoring"
        /\ gate.i < Len(UnitOrder)
        /\ timers \subseteq timers' /\ timers' \subseteq timers \cup gate.timers
        /\ gate.failures \subseteq gate'.failures
        /\ gate'.failures \subseteq gate.failures \cup gate.timers
        /\ gate.i = 1 /\ Supervisor \in gate.timers => Supervisor \in timers' \cup gate'.failures
    BY <1>1, <1>a, <1>b, <1>c, <2>1
  <2>3. RolloutTypeOK'
    BY <2>1, <2>2, <1>d, RolloutAssumption, UnitFacts DEF RolloutInv, RolloutTypeOK, GateRow,
       GateSteps, ScriptSteps, WorkerStates
  <2>4. LocksHold'
    BY <2>1, <2>2, <1>d, RolloutAssumption, UnitFacts DEF RolloutInv, RolloutTypeOK, LocksHold,
       Active, Waiting, GateSteps, LockSteps, ChangedSteps
  <2>5. Progress'
    BY <2>1, <2>2, <1>d, RolloutAssumption, UnitFacts DEF RolloutInv, RolloutTypeOK, LocksHold,
       Progress, GateRow, LockSteps
  <2>6. SupervisorKept'
    BY SMTT(30), <2>1, <2>2, <1>d, RolloutAssumption, UnitFacts DEF RolloutInv, RolloutTypeOK, LocksHold,
       Progress, SupervisorKept, ScriptKnows, Remembered, Watched, Waiting, Active, AllQuiet,
       GateSteps, LockSteps, ChangedSteps
  <2>7. ScriptKnows'
    BY <2>1, <2>2, <1>d, RolloutAssumption, UnitFacts DEF RolloutInv, RolloutTypeOK, LocksHold,
       Progress, SupervisorKept, ScriptKnows, Remembered, Watched, Waiting, Active, AllQuiet,
       GateSteps, ChangedSteps
  <2> QED  BY <2>3, <2>4, <2>5, <2>6, <2>7 DEF RolloutInv
<1>2. CASE /\ gate.i < Len(RestoreOrder)
           /\ gate' = [[gate EXCEPT !.i = @ + 1] EXCEPT !.failures = @ \cup {u}]
           /\ u \in gate.timers /\ UNCHANGED timers
  <2>1. /\ gate' \in GateRow
        /\ gate'.pc = gate.pc /\ gate'.locks = gate.locks /\ gate'.i = gate.i + 1
        /\ gate'.polls = gate.polls /\ gate'.timers = gate.timers /\ gate'.api = gate.api
        /\ gate'.changed = gate.changed /\ gate'.failures = gate.failures \cup {u}
    <3>1. gate.failures \cup {u} \subseteq Units
      BY <1>2, GateTypes DEF RolloutInv, GateRow
    <3>. DEFINE f == gate.failures \cup {u}
    <3>. DEFINE n == gate.i + 1
    <3>2. n \in Nat /\ f \in SUBSET Units /\ gate' = [gate EXCEPT !.i = n, !.failures = f]
      BY <1>2, <3>1, GateTypes DEF RolloutInv, GateRow
    <3>. HIDE DEF f, n
    <3>3. /\ gate' \in GateRow
          /\ gate'.pc = gate.pc /\ gate'.locks = gate.locks
          /\ gate'.i = n /\ gate'.polls = gate.polls
          /\ gate'.timers = gate.timers /\ gate'.api = gate.api
          /\ gate'.changed = gate.changed /\ gate'.failures = f
      BY <3>2, GateTypes DEF RolloutInv, GateRow, GateSteps
    <3> QED  BY <3>3 DEF f, n
  <2>2. /\ UNCHANGED <<worker, api, exposed, script, release>> /\ gate.pc = "restoring"
        /\ gate.i < Len(UnitOrder)
        /\ timers \subseteq timers' /\ timers' \subseteq timers \cup gate.timers
        /\ gate.failures \subseteq gate'.failures
        /\ gate'.failures \subseteq gate.failures \cup gate.timers
        /\ gate.i = 1 /\ Supervisor \in gate.timers => Supervisor \in timers' \cup gate'.failures
    BY <1>2, <1>a, <1>b, <1>c, <2>1
  <2>3. RolloutTypeOK'
    BY <2>1, <2>2, <1>d, RolloutAssumption, UnitFacts DEF RolloutInv, RolloutTypeOK, GateRow,
       GateSteps, ScriptSteps, WorkerStates
  <2>4. LocksHold'
    BY <2>1, <2>2, <1>d, RolloutAssumption, UnitFacts DEF RolloutInv, RolloutTypeOK, LocksHold,
       Active, Waiting, GateSteps, LockSteps, ChangedSteps
  <2>5. Progress'
    BY <2>1, <2>2, <1>d, RolloutAssumption, UnitFacts DEF RolloutInv, RolloutTypeOK, LocksHold,
       Progress, GateRow, LockSteps
  <2>6. SupervisorKept'
    BY <2>1, <2>2, <1>d, RolloutAssumption, UnitFacts DEF RolloutInv, RolloutTypeOK, LocksHold,
       Progress, SupervisorKept, ScriptKnows, Remembered, Watched, Waiting, Active, AllQuiet,
       GateSteps, LockSteps, ChangedSteps
  <2>7. ScriptKnows'
    BY <2>1, <2>2, <1>d, RolloutAssumption, UnitFacts DEF RolloutInv, RolloutTypeOK, LocksHold,
       Progress, SupervisorKept, ScriptKnows, Remembered, Watched, Waiting, Active, AllQuiet,
       GateSteps, ChangedSteps
  <2> QED  BY <2>3, <2>4, <2>5, <2>6, <2>7 DEF RolloutInv
<1>3. CASE /\ ~(gate.i < Len(RestoreOrder))
           /\ gate' = [gate EXCEPT !.pc = "restoreApi", !.i = 1]
           /\ timers' = IF u \in gate.timers THEN timers \cup {u} ELSE timers
  <2>1. /\ gate' \in GateRow
        /\ gate'.pc = "restoreApi" /\ gate'.locks = gate.locks /\ gate'.i = 1
        /\ gate'.polls = gate.polls /\ gate'.timers = gate.timers /\ gate'.api = gate.api
        /\ gate'.changed = gate.changed /\ gate'.failures = gate.failures
    BY <1>3, <1>a, <1>b, GateTypes DEF RolloutInv, GateRow, GateSteps
  <2>2. /\ UNCHANGED <<worker, api, exposed, script, release>> /\ gate.pc = "restoring"
        /\ ~(gate.i < Len(UnitOrder))
        /\ timers \subseteq timers' /\ timers' \subseteq timers \cup gate.timers
        /\ gate.failures \subseteq gate'.failures
        /\ gate'.failures \subseteq gate.failures \cup gate.timers
        /\ gate.i = 1 /\ Supervisor \in gate.timers => Supervisor \in timers' \cup gate'.failures
    BY <1>3, <1>a, <1>b, <1>c, <2>1
  <2>3. RolloutTypeOK'
    BY <2>1, <2>2, <1>d, RolloutAssumption, UnitFacts DEF RolloutInv, RolloutTypeOK, GateRow,
       GateSteps, ScriptSteps, WorkerStates
  <2>4. LocksHold'
    BY <2>1, <2>2, <1>d, RolloutAssumption, UnitFacts DEF RolloutInv, RolloutTypeOK, LocksHold,
       Active, Waiting, GateSteps, LockSteps, ChangedSteps
  <2>5. Progress'
    BY <2>1, <2>2, <1>d, RolloutAssumption, UnitFacts DEF RolloutInv, RolloutTypeOK, LocksHold,
       Progress, GateRow, LockSteps
  <2>6. SupervisorKept'
    BY <2>1, <2>2, <1>d, RolloutAssumption, UnitFacts DEF RolloutInv, RolloutTypeOK, LocksHold,
       Progress, SupervisorKept, ScriptKnows, Remembered, Watched, Waiting, Active, AllQuiet,
       GateSteps, LockSteps, ChangedSteps
  <2>7. ScriptKnows'
    BY <2>1, <2>2, <1>d, RolloutAssumption, UnitFacts DEF RolloutInv, RolloutTypeOK, LocksHold,
       Progress, SupervisorKept, ScriptKnows, Remembered, Watched, Waiting, Active, AllQuiet,
       GateSteps, ChangedSteps
  <2> QED  BY <2>3, <2>4, <2>5, <2>6, <2>7 DEF RolloutInv
<1>4. CASE /\ ~(gate.i < Len(RestoreOrder))
           /\ gate' = [[gate EXCEPT !.pc = "restoreApi", !.i = 1] EXCEPT !.failures = @ \cup {u}]
           /\ u \in gate.timers /\ UNCHANGED timers
  <2>1. /\ gate' \in GateRow
        /\ gate'.pc = "restoreApi" /\ gate'.locks = gate.locks /\ gate'.i = 1
        /\ gate'.polls = gate.polls /\ gate'.timers = gate.timers /\ gate'.api = gate.api
        /\ gate'.changed = gate.changed /\ gate'.failures = gate.failures \cup {u}
    <3>1. gate.failures \cup {u} \subseteq Units
      BY <1>4, GateTypes DEF RolloutInv, GateRow
    <3>. DEFINE f == gate.failures \cup {u}
    <3>2. f \in SUBSET Units /\ gate' = [gate EXCEPT !.pc = "restoreApi", !.i = 1, !.failures = f]
      BY <1>4, <3>1, GateTypes DEF RolloutInv, GateRow
    <3>. HIDE DEF f
    <3>3. /\ gate' \in GateRow
          /\ gate'.pc = "restoreApi" /\ gate'.locks = gate.locks
          /\ gate'.i = 1 /\ gate'.polls = gate.polls
          /\ gate'.timers = gate.timers /\ gate'.api = gate.api
          /\ gate'.changed = gate.changed /\ gate'.failures = f
      BY <3>2, GateTypes DEF RolloutInv, GateRow, GateSteps
    <3> QED  BY <3>3 DEF f
  <2>2. /\ UNCHANGED <<worker, api, exposed, script, release>> /\ gate.pc = "restoring"
        /\ ~(gate.i < Len(UnitOrder))
        /\ timers \subseteq timers' /\ timers' \subseteq timers \cup gate.timers
        /\ gate.failures \subseteq gate'.failures
        /\ gate'.failures \subseteq gate.failures \cup gate.timers
        /\ gate.i = 1 /\ Supervisor \in gate.timers => Supervisor \in timers' \cup gate'.failures
    BY <1>4, <1>a, <1>b, <1>c, <2>1
  <2>3. RolloutTypeOK'
    BY <2>1, <2>2, <1>d, RolloutAssumption, UnitFacts DEF RolloutInv, RolloutTypeOK, GateRow,
       GateSteps, ScriptSteps, WorkerStates
  <2>4. LocksHold'
    BY <2>1, <2>2, <1>d, RolloutAssumption, UnitFacts DEF RolloutInv, RolloutTypeOK, LocksHold,
       Active, Waiting, GateSteps, LockSteps, ChangedSteps
  <2>5. Progress'
    BY <2>1, <2>2, <1>d, RolloutAssumption, UnitFacts DEF RolloutInv, RolloutTypeOK, LocksHold,
       Progress, GateRow, LockSteps
  <2>6. SupervisorKept'
    BY <2>1, <2>2, <1>d, RolloutAssumption, UnitFacts DEF RolloutInv, RolloutTypeOK, LocksHold,
       Progress, SupervisorKept, ScriptKnows, Remembered, Watched, Waiting, Active, AllQuiet,
       GateSteps, LockSteps, ChangedSteps
  <2>7. ScriptKnows'
    BY <2>1, <2>2, <1>d, RolloutAssumption, UnitFacts DEF RolloutInv, RolloutTypeOK, LocksHold,
       Progress, SupervisorKept, ScriptKnows, Remembered, Watched, Waiting, Active, AllQuiet,
       GateSteps, ChangedSteps
  <2> QED  BY <2>3, <2>4, <2>5, <2>6, <2>7 DEF RolloutInv
<1> QED  BY <1>a, <1>1, <1>2, <1>3, <1>4 DEF RestoreTimer

LEMMA GateAnswersKeeps ==
  ASSUME RolloutInv, GateAnswers
  PROVE  RolloutInv'
<1>1. RolloutTypeOK'
  BY RolloutAssumption, UnitFacts DEF GateAnswers, Script, CallGate, NoGate, RolloutInv,
     RolloutTypeOK, GateRow, GateSteps, ScriptSteps, WorkerStates
<1>2. LocksHold'
  BY RolloutAssumption, UnitFacts DEF GateAnswers, Script, CallGate, NoGate, RolloutInv,
     RolloutTypeOK, LocksHold, Active, Waiting, GateSteps, LockSteps, ChangedSteps
<1>3. Progress'
  BY RolloutAssumption, UnitFacts DEF GateAnswers, Script, CallGate, NoGate, RolloutInv,
     RolloutTypeOK, LocksHold, Progress, GateRow, LockSteps
<1>4. SupervisorKept'
  BY RolloutAssumption, UnitFacts DEF GateAnswers, Script, CallGate, NoGate, RolloutInv,
     RolloutTypeOK, LocksHold, Progress, SupervisorKept, ScriptKnows, Remembered, Watched,
     Waiting, Active, AllQuiet, GateSteps, LockSteps, ChangedSteps
<1>5. ScriptKnows'
  BY RolloutAssumption, UnitFacts DEF GateAnswers, Script, CallGate, NoGate, RolloutInv,
     RolloutTypeOK, LocksHold, Progress, SupervisorKept, ScriptKnows, Remembered, Watched,
     Waiting, Active, AllQuiet, GateSteps, ChangedSteps
<1> QED  BY <1>1, <1>2, <1>3, <1>4, <1>5 DEF RolloutInv

LEMMA SwapKeeps ==
  ASSUME RolloutInv, Swap
  PROVE  RolloutInv'
<1>1. RolloutTypeOK'
  BY RolloutAssumption, UnitFacts DEF Swap, Script, CallGate, NoGate, RolloutInv, RolloutTypeOK,
     GateRow, GateSteps, ScriptSteps, WorkerStates
<1>2. LocksHold'
  BY RolloutAssumption, UnitFacts DEF Swap, Script, CallGate, NoGate, RolloutInv, RolloutTypeOK,
     LocksHold, Active, Waiting, GateSteps, LockSteps, ChangedSteps
<1>3. Progress'
  BY RolloutAssumption, UnitFacts DEF Swap, Script, CallGate, NoGate, RolloutInv, RolloutTypeOK,
     LocksHold, Progress, GateRow, LockSteps
<1>4. SupervisorKept'
  BY RolloutAssumption, UnitFacts DEF Swap, Script, CallGate, NoGate, RolloutInv, RolloutTypeOK,
     LocksHold, Progress, SupervisorKept, ScriptKnows, Remembered, Watched, Waiting, Active,
     AllQuiet, GateSteps, LockSteps, ChangedSteps
<1>5. ScriptKnows'
  BY RolloutAssumption, UnitFacts DEF Swap, Script, CallGate, NoGate, RolloutInv, RolloutTypeOK,
     LocksHold, Progress, SupervisorKept, ScriptKnows, Remembered, Watched, Waiting, Active,
     AllQuiet, GateSteps, ChangedSteps
<1> QED  BY <1>1, <1>2, <1>3, <1>4, <1>5 DEF RolloutInv

LEMMA StartSupervisorKeeps ==
  ASSUME RolloutInv, StartSupervisor
  PROVE  RolloutInv'
<1>1. RolloutTypeOK'
  BY RolloutAssumption, UnitFacts DEF StartSupervisor, Script, CallGate, NoGate, RolloutInv,
     RolloutTypeOK, GateRow, GateSteps, ScriptSteps, WorkerStates
<1>2. LocksHold'
  BY RolloutAssumption, UnitFacts DEF StartSupervisor, Script, CallGate, NoGate, RolloutInv,
     RolloutTypeOK, LocksHold, Active, Waiting, GateSteps, LockSteps, ChangedSteps
<1>3. Progress'
  BY RolloutAssumption, UnitFacts DEF StartSupervisor, Script, CallGate, NoGate, RolloutInv,
     RolloutTypeOK, LocksHold, Progress, SupervisorKept, ScriptKnows, GateRow, GateSteps,
     ScriptSteps, WorkerStates, ChangedSteps, LockSteps, Active, Waiting, Watched, AllQuiet,
     Remembered
<1>4. SupervisorKept'
  BY RolloutAssumption, UnitFacts DEF StartSupervisor, Script, CallGate, NoGate, RolloutInv,
     RolloutTypeOK, LocksHold, Progress, SupervisorKept, ScriptKnows, Remembered, Watched,
     Waiting, Active, AllQuiet, GateSteps, LockSteps, ChangedSteps
<1>5. ScriptKnows'
  BY RolloutAssumption, UnitFacts DEF StartSupervisor, Script, CallGate, NoGate, RolloutInv,
     RolloutTypeOK, LocksHold, Progress, SupervisorKept, ScriptKnows, Remembered, Watched,
     Waiting, Active, AllQuiet, GateSteps, ChangedSteps
<1> QED  BY <1>1, <1>2, <1>3, <1>4, <1>5 DEF RolloutInv

LEMMA RestartApiKeeps ==
  ASSUME RolloutInv, RestartApi
  PROVE  RolloutInv'
<1>1. RolloutTypeOK'
  BY RolloutAssumption, UnitFacts DEF RestartApi, Script, CallGate, NoGate, RolloutInv,
     RolloutTypeOK, GateRow, GateSteps, ScriptSteps, WorkerStates
<1>2. LocksHold'
  BY RolloutAssumption, UnitFacts DEF RestartApi, Script, CallGate, NoGate, RolloutInv,
     RolloutTypeOK, LocksHold, Active, Waiting, GateSteps, LockSteps, ChangedSteps
<1>3. Progress'
  BY RolloutAssumption, UnitFacts DEF RestartApi, Script, CallGate, NoGate, RolloutInv,
     RolloutTypeOK, LocksHold, Progress, GateRow, LockSteps
<1>4. SupervisorKept'
  BY RolloutAssumption, UnitFacts DEF RestartApi, Script, CallGate, NoGate, RolloutInv,
     RolloutTypeOK, LocksHold, Progress, SupervisorKept, ScriptKnows, Remembered, Watched,
     Waiting, Active, AllQuiet, GateSteps, LockSteps, ChangedSteps
<1>5. ScriptKnows'
  BY RolloutAssumption, UnitFacts DEF RestartApi, Script, CallGate, NoGate, RolloutInv,
     RolloutTypeOK, LocksHold, Progress, SupervisorKept, ScriptKnows, Remembered, Watched,
     Waiting, Active, AllQuiet, GateSteps, ChangedSteps
<1> QED  BY <1>1, <1>2, <1>3, <1>4, <1>5 DEF RolloutInv

LEMMA ReadyKeeps ==
  ASSUME RolloutInv, Ready
  PROVE  RolloutInv'
<1>1. RolloutTypeOK'
  BY RolloutAssumption, UnitFacts DEF Ready, Script, CallGate, NoGate, RolloutInv, RolloutTypeOK,
     GateRow, GateSteps, ScriptSteps, WorkerStates
<1>2. LocksHold'
  BY RolloutAssumption, UnitFacts DEF Ready, Script, CallGate, NoGate, RolloutInv, RolloutTypeOK,
     LocksHold, Active, Waiting, GateSteps, LockSteps, ChangedSteps
<1>3. Progress'
  BY RolloutAssumption, UnitFacts DEF Ready, Script, CallGate, NoGate, RolloutInv, RolloutTypeOK,
     LocksHold, Progress, GateRow, LockSteps
<1>4. SupervisorKept'
  BY RolloutAssumption, UnitFacts DEF Ready, Script, CallGate, NoGate, RolloutInv, RolloutTypeOK,
     LocksHold, Progress, SupervisorKept, ScriptKnows, Remembered, Watched, Waiting, Active,
     AllQuiet, GateSteps, LockSteps, ChangedSteps
<1>5. ScriptKnows'
  BY RolloutAssumption, UnitFacts DEF Ready, Script, CallGate, NoGate, RolloutInv, RolloutTypeOK,
     LocksHold, Progress, SupervisorKept, ScriptKnows, Remembered, Watched, Waiting, Active,
     AllQuiet, GateSteps, ChangedSteps
<1> QED  BY <1>1, <1>2, <1>3, <1>4, <1>5 DEF RolloutInv

LEMMA StartTimersKeeps ==
  ASSUME RolloutInv, StartTimers
  PROVE  RolloutInv'
<1>1. RolloutTypeOK'
  BY RolloutAssumption, UnitFacts DEF StartTimers, Script, CallGate, NoGate, RolloutInv,
     RolloutTypeOK, GateRow, GateSteps, ScriptSteps, WorkerStates
<1>2. LocksHold'
  BY RolloutAssumption, UnitFacts DEF StartTimers, Script, CallGate, NoGate, RolloutInv,
     RolloutTypeOK, LocksHold, Active, Waiting, GateSteps, LockSteps, ChangedSteps
<1>3. Progress'
  BY RolloutAssumption, UnitFacts DEF StartTimers, Script, CallGate, NoGate, RolloutInv,
     RolloutTypeOK, LocksHold, Progress, SupervisorKept, ScriptKnows, GateRow, GateSteps,
     ScriptSteps, WorkerStates, ChangedSteps, LockSteps, Active, Waiting, Watched, AllQuiet,
     Remembered
<1>4. SupervisorKept'
  BY RolloutAssumption, UnitFacts DEF StartTimers, Script, CallGate, NoGate, RolloutInv,
     RolloutTypeOK, LocksHold, Progress, SupervisorKept, ScriptKnows, Remembered, Watched,
     Waiting, Active, AllQuiet, GateSteps, LockSteps, ChangedSteps
<1>5. ScriptKnows'
  BY RolloutAssumption, UnitFacts DEF StartTimers, Script, CallGate, NoGate, RolloutInv,
     RolloutTypeOK, LocksHold, Progress, SupervisorKept, ScriptKnows, Remembered, Watched,
     Waiting, Active, AllQuiet, GateSteps, ChangedSteps
<1> QED  BY <1>1, <1>2, <1>3, <1>4, <1>5 DEF RolloutInv

LEMMA CommandFailsKeeps ==
  ASSUME RolloutInv, CommandFails
  PROVE  RolloutInv'
<1>1. RolloutTypeOK'
  BY RolloutAssumption, UnitFacts DEF CommandFails, Script, CallGate, NoGate, RolloutInv,
     RolloutTypeOK, GateRow, GateSteps, ScriptSteps, WorkerStates
<1>2. LocksHold'
  BY RolloutAssumption, UnitFacts DEF CommandFails, Script, CallGate, NoGate, RolloutInv,
     RolloutTypeOK, LocksHold, Active, Waiting, GateSteps, LockSteps, ChangedSteps
<1>3. Progress'
  BY RolloutAssumption, UnitFacts DEF CommandFails, Script, CallGate, NoGate, RolloutInv,
     RolloutTypeOK, LocksHold, Progress, GateRow, LockSteps
<1>4. SupervisorKept'
  BY RolloutAssumption, UnitFacts DEF CommandFails, Script, CallGate, NoGate, RolloutInv,
     RolloutTypeOK, LocksHold, Progress, SupervisorKept, ScriptKnows, Remembered, Watched,
     Waiting, Active, AllQuiet, GateSteps, LockSteps, ChangedSteps
<1>5. ScriptKnows'
  BY RolloutAssumption, UnitFacts DEF CommandFails, Script, CallGate, NoGate, RolloutInv,
     RolloutTypeOK, LocksHold, Progress, SupervisorKept, ScriptKnows, Remembered, Watched,
     Waiting, Active, AllQuiet, GateSteps, ChangedSteps
<1> QED  BY <1>1, <1>2, <1>3, <1>4, <1>5 DEF RolloutInv

LEMMA RollBackKeeps ==
  ASSUME RolloutInv, RollBack
  PROVE  RolloutInv'
<1>1. RolloutTypeOK'
  BY RolloutAssumption, UnitFacts DEF RollBack, Script, CallGate, NoGate, RolloutInv,
     RolloutTypeOK, GateRow, GateSteps, ScriptSteps, WorkerStates
<1>2. LocksHold'
  BY RolloutAssumption, UnitFacts DEF RollBack, Script, CallGate, NoGate, RolloutInv,
     RolloutTypeOK, LocksHold, Active, Waiting, GateSteps, LockSteps, ChangedSteps
<1>3. Progress'
  BY RolloutAssumption, UnitFacts DEF RollBack, Script, CallGate, NoGate, RolloutInv,
     RolloutTypeOK, LocksHold, Progress, GateRow, LockSteps
<1>4. SupervisorKept'
  BY RolloutAssumption, UnitFacts DEF RollBack, Script, CallGate, NoGate, RolloutInv,
     RolloutTypeOK, LocksHold, Progress, SupervisorKept, ScriptKnows, Remembered, Watched,
     Waiting, Active, AllQuiet, GateSteps, LockSteps, ChangedSteps
<1>5. ScriptKnows'
  BY RolloutAssumption, UnitFacts DEF RollBack, Script, CallGate, NoGate, RolloutInv,
     RolloutTypeOK, LocksHold, Progress, SupervisorKept, ScriptKnows, Remembered, Watched,
     Waiting, Active, AllQuiet, GateSteps, ChangedSteps
<1> QED  BY <1>1, <1>2, <1>3, <1>4, <1>5 DEF RolloutInv

LEMMA RollBackSupervisorKeeps ==
  ASSUME RolloutInv, RollBackSupervisor
  PROVE  RolloutInv'
<1>1. RolloutTypeOK'
  BY RolloutAssumption, UnitFacts DEF RollBackSupervisor, Script, CallGate, NoGate, RolloutInv,
     RolloutTypeOK, GateRow, GateSteps, ScriptSteps, WorkerStates
<1>2. LocksHold'
  BY RolloutAssumption, UnitFacts DEF RollBackSupervisor, Script, CallGate, NoGate, RolloutInv,
     RolloutTypeOK, LocksHold, Active, Waiting, GateSteps, LockSteps, ChangedSteps
<1>3. Progress'
  BY RolloutAssumption, UnitFacts DEF RollBackSupervisor, Script, CallGate, NoGate, RolloutInv,
     RolloutTypeOK, LocksHold, Progress, SupervisorKept, ScriptKnows, GateRow, GateSteps,
     ScriptSteps, WorkerStates, ChangedSteps, LockSteps, Active, Waiting, Watched, AllQuiet,
     Remembered
<1>4. SupervisorKept'
  BY RolloutAssumption, UnitFacts DEF RollBackSupervisor, Script, CallGate, NoGate, RolloutInv,
     RolloutTypeOK, LocksHold, Progress, SupervisorKept, ScriptKnows, Remembered, Watched,
     Waiting, Active, AllQuiet, GateSteps, LockSteps, ChangedSteps
<1>5. ScriptKnows'
  BY RolloutAssumption, UnitFacts DEF RollBackSupervisor, Script, CallGate, NoGate, RolloutInv,
     RolloutTypeOK, LocksHold, Progress, SupervisorKept, ScriptKnows, Remembered, Watched,
     Waiting, Active, AllQuiet, GateSteps, ChangedSteps
<1> QED  BY <1>1, <1>2, <1>3, <1>4, <1>5 DEF RolloutInv

LEMMA RollBackTimersKeeps ==
  ASSUME RolloutInv, RollBackTimers
  PROVE  RolloutInv'
<1>1. RolloutTypeOK'
  BY RolloutAssumption, UnitFacts DEF RollBackTimers, Script, CallGate, NoGate, RolloutInv,
     RolloutTypeOK, GateRow, GateSteps, ScriptSteps, WorkerStates
<1>2. LocksHold'
  BY RolloutAssumption, UnitFacts DEF RollBackTimers, Script, CallGate, NoGate, RolloutInv,
     RolloutTypeOK, LocksHold, Active, Waiting, GateSteps, LockSteps, ChangedSteps
<1>3. Progress'
  BY RolloutAssumption, UnitFacts DEF RollBackTimers, Script, CallGate, NoGate, RolloutInv,
     RolloutTypeOK, LocksHold, Progress, SupervisorKept, ScriptKnows, GateRow, GateSteps,
     ScriptSteps, WorkerStates, ChangedSteps, LockSteps, Active, Waiting, Watched, AllQuiet,
     Remembered
<1>4. SupervisorKept'
  BY RolloutAssumption, UnitFacts DEF RollBackTimers, Script, CallGate, NoGate, RolloutInv,
     RolloutTypeOK, LocksHold, Progress, SupervisorKept, ScriptKnows, Remembered, Watched,
     Waiting, Active, AllQuiet, GateSteps, LockSteps, ChangedSteps
<1>5. ScriptKnows'
  BY RolloutAssumption, UnitFacts DEF RollBackTimers, Script, CallGate, NoGate, RolloutInv,
     RolloutTypeOK, LocksHold, Progress, SupervisorKept, ScriptKnows, Remembered, Watched,
     Waiting, Active, AllQuiet, GateSteps, ChangedSteps
<1> QED  BY <1>1, <1>2, <1>3, <1>4, <1>5 DEF RolloutInv

LEMMA DeployKeeps ==
  ASSUME RolloutInv, Deploy
  PROVE  RolloutInv'
<1>1. CASE TRUE
  <2>1. /\ gate' \in GateRow
        /\ gate'.pc = "locking" /\ gate'.locks = "none" /\ gate'.i = 1
        /\ gate'.polls = 0 /\ gate'.timers = {} /\ gate'.api = FALSE
        /\ gate'.changed = FALSE /\ gate'.failures = {}
    BY <1>1, GateTypes DEF Deploy, NoGate, RolloutInv, GateRow, GateSteps
  <2>2. /\ UNCHANGED <<timers, worker, api, exposed, release>> /\ script' = [pc |-> "gate", timers |-> timers]
        /\ script.pc \in {"prepare", "deferred"} /\ gate.failures = {}
    BY <1>1 DEF Deploy, NoGate
  <2>3. RolloutTypeOK'
    BY <1>1, <2>1, <2>2, RolloutAssumption, UnitFacts DEF RolloutInv, RolloutTypeOK, GateRow,
       GateSteps, ScriptSteps, WorkerStates
  <2>4. LocksHold'
    BY <1>1, <2>1, <2>2, RolloutAssumption, UnitFacts DEF RolloutInv, RolloutTypeOK, LocksHold,
       Active, Waiting, GateSteps, LockSteps, ChangedSteps
  <2>5. Progress'
    BY <1>1, <2>1, <2>2, RolloutAssumption, UnitFacts DEF RolloutInv, RolloutTypeOK, LocksHold,
       Progress, GateRow, LockSteps
  <2>6. SupervisorKept'
    BY <1>1, <2>1, <2>2, RolloutAssumption, UnitFacts DEF RolloutInv, RolloutTypeOK, LocksHold,
       Progress, SupervisorKept, ScriptKnows, Remembered, Watched, Waiting, Active, AllQuiet,
       GateSteps, LockSteps, ChangedSteps
  <2>7. ScriptKnows'
    BY <1>1, <2>1, <2>2, RolloutAssumption, UnitFacts DEF RolloutInv, RolloutTypeOK, LocksHold,
       Progress, SupervisorKept, ScriptKnows, Remembered, Watched, Waiting, Active, AllQuiet,
       GateSteps, ChangedSteps
  <2> QED  BY <2>3, <2>4, <2>5, <2>6, <2>7 DEF RolloutInv
<1> QED  BY <1>1

LEMMA RepairKeeps ==
  ASSUME RolloutInv, Repair
  PROVE  RolloutInv'
<1>1. CASE TRUE
  <2>1. /\ gate' \in GateRow
        /\ gate'.pc = gate.pc /\ gate'.locks = gate.locks /\ gate'.i = gate.i
        /\ gate'.polls = gate.polls /\ gate'.timers = gate.timers /\ gate'.api = gate.api
        /\ gate'.changed = gate.changed /\ gate'.failures = {}
    BY <1>1, GateTypes DEF Repair, RolloutInv, GateRow, GateSteps
  <2>2. /\ UNCHANGED <<worker, api, exposed, script, release>> /\ timers' = timers \cup gate.failures
        /\ script.pc \in {"deferred", "kept"} /\ gate.failures # {}
    BY <1>1 DEF Repair
  <2>3. RolloutTypeOK'
    BY <1>1, <2>1, <2>2, RolloutAssumption, UnitFacts DEF RolloutInv, RolloutTypeOK, GateRow,
       GateSteps, ScriptSteps, WorkerStates
  <2>4. LocksHold'
    BY <1>1, <2>1, <2>2, RolloutAssumption, UnitFacts DEF RolloutInv, RolloutTypeOK, LocksHold,
       Active, Waiting, GateSteps, LockSteps, ChangedSteps
  <2>5. Progress'
    BY <1>1, <2>1, <2>2, RolloutAssumption, UnitFacts DEF RolloutInv, RolloutTypeOK, LocksHold,
       Progress, GateRow, LockSteps
  <2>6. SupervisorKept'
    BY <1>1, <2>1, <2>2, RolloutAssumption, UnitFacts DEF RolloutInv, RolloutTypeOK, LocksHold,
       Progress, SupervisorKept, ScriptKnows, Remembered, Watched, Waiting, Active, AllQuiet,
       GateSteps, LockSteps, ChangedSteps
  <2>7. ScriptKnows'
    BY <1>1, <2>1, <2>2, RolloutAssumption, UnitFacts DEF RolloutInv, RolloutTypeOK, LocksHold,
       Progress, SupervisorKept, ScriptKnows, Remembered, Watched, Waiting, Active, AllQuiet,
       GateSteps, ChangedSteps
  <2> QED  BY <2>3, <2>4, <2>5, <2>6, <2>7 DEF RolloutInv
<1> QED  BY <1>1

----------------------------------------------------------------------------
LEMMA RolloutInitial == RolloutInit => RolloutInv
<1> SUFFICES ASSUME RolloutInit  PROVE RolloutInv
  OBVIOUS
<1>1. RolloutTypeOK
  BY RolloutAssumption DEF RolloutInit, NoGate, RolloutTypeOK, GateRow, GateSteps, ScriptSteps,
     WorkerStates
<1>2. LocksHold /\ Progress
  BY DEF RolloutInit, NoGate, LocksHold, Progress, Active, GateSteps, LockSteps, ChangedSteps
<1>3. SupervisorKept /\ ScriptKnows
  BY RolloutAssumption DEF RolloutInit, NoGate, SupervisorKept, ScriptKnows, Watched, Waiting
<1> QED  BY <1>1, <1>2, <1>3 DEF RolloutInv

LEMMA RolloutInductive == RolloutInv /\ [RolloutNext]_rolloutVars => RolloutInv'
<1> SUFFICES ASSUME RolloutInv, [RolloutNext]_rolloutVars  PROVE RolloutInv'
  OBVIOUS
<1>1. CASE WorkerStep
  BY <1>1, FireTimerKeeps, BeginWriteKeeps, CommitWriteKeeps, EndWorkerKeeps, WatchdogKeeps,
     ApiEntersKeeps DEF WorkerStep
<1>2. CASE GateStep
  BY <1>2, LockTablesKeeps, JudgeKeeps, StopTimerKeeps, StopApiKeeps, PollKeeps, ConfirmKeeps,
     RestoreTimerKeeps, RestoreApiKeeps DEF GateStep
<1>3. CASE LoseConnection
  BY <1>3, LoseKeeps
<1>4. CASE ScriptStep
  BY <1>4, DeployKeeps, RepairKeeps, GateAnswersKeeps, SwapKeeps, StartSupervisorKeeps,
     RestartApiKeeps, ReadyKeeps, StartTimersKeeps, CommandFailsKeeps, RollBackKeeps,
     RollBackSupervisorKeeps, RollBackTimersKeeps DEF ScriptStep
<1>5. CASE UNCHANGED rolloutVars
  BY <1>5 DEF rolloutVars, RolloutInv, RolloutTypeOK, LocksHold, Progress, SupervisorKept,
     ScriptKnows, Active, Waiting, Watched, AllQuiet, Remembered
<1> QED  BY <1>1, <1>2, <1>3, <1>4, <1>5 DEF RolloutNext

LEMMA RolloutAlways == RolloutSpec => []RolloutInv
<1> QED  BY RolloutInitial, RolloutInductive, PTL DEF RolloutSpec

\* Every variable of the deployment keeps its type.
THEOREM RolloutTypeCorrect == RolloutSpec => []RolloutTypeOK
<1>1. RolloutInv => RolloutTypeOK
  BY DEF RolloutInv
<1> QED  BY <1>1, RolloutAlways, PTL

\* The release changes only while nothing is open, nothing runs and nothing is
\* scheduled, for any units and whenever the barrier's connection is lost.
THEOREM SwapsWhenFlat == RolloutSpec => SwapWhenFlat
<1>1. ASSUME RolloutInv, [RolloutNext]_rolloutVars
      PROVE  [release' # release =>
                /\ exposed = {} /\ ~api /\ timers = {}
                /\ \A u \in Units : worker[u] = "idle"]_rolloutVars
  <2> SUFFICES ASSUME release' # release
               PROVE  AllQuiet
    BY DEF AllQuiet
  <2>1. ~(UNCHANGED rolloutVars)
    BY DEF rolloutVars
  <2>2. ~WorkerStep /\ ~LoseConnection
    BY DEF WorkerStep, FireTimer, BeginWrite, CommitWrite, EndWorker, WatchdogRestartsApi,
       ApiEnters, LoseConnection
  <2>3. ~GateStep
    BY DEF GateStep, LockTables, JudgeExposure, StopTimer, StopApi, PollWorker, Confirm,
       RestoreTimer, RestoreApi
  <2>4. Swap \/ RollBack
    BY <1>1, <2>1, <2>2, <2>3 DEF RolloutNext, ScriptStep, Deploy, Repair, GateAnswers,
       StartSupervisor, RestartApi, Ready, StartTimers, CommandFails, RollBackSupervisor,
       RollBackTimers
  <2>5. script.pc \in {"swap", "rollback"}
    BY <2>4 DEF Swap, RollBack
  <2> QED  BY <1>1, <2>5 DEF RolloutInv, ScriptKnows
<1> QED  BY <1>1, RolloutAlways, PTL DEF RolloutSpec, SwapWhenFlat

\* An open option position always has its supervisor, unless the barrier is at
\* work or has reported that it could not start its timer again.
THEOREM OptionSupervised == RolloutSpec => []SupervisedOption
<1>1. RolloutInv => SupervisedOption
  <2> SUFFICES ASSUME RolloutInv, exposed # {}, gate.pc \in {"idle", "quiet", "deferred"}
               PROVE  Watched
    BY DEF SupervisedOption, Watched
  <2>1. ~AllQuiet
    BY DEF AllQuiet
  <2>2. script.pc \in ScriptSteps
    BY DEF RolloutInv, RolloutTypeOK
  <2> QED  BY <2>1, <2>2 DEF RolloutInv, ScriptKnows, ScriptSteps, Waiting, Watched
<1> QED  BY <1>1, RolloutAlways, PTL
===============================================================================
