----------------------------- MODULE DeskReports -----------------------------
(***************************************************************************)
(* The daily report backlog: report_backlog(), run by the reports timer    *)
(* and inside every decision run.  A run reads the clock once, writes the  *)
(* reports that are missing, claims one unsent report under a lease, mails *)
(* it with no lock held and records the outcome; it may be killed between  *)
(* any two of these, after the mail server has taken the message too.      *)
(*                                                                         *)
(* A run judges every timestamp by the clock it read when it began, so     *)
(* timers are kept as ticks left from now and compared with minus the      *)
(* run's age; no run outlives its unit's TimeoutStartSec.                  *)
(***************************************************************************)
EXTENDS Integers, FiniteSets

CONSTANTS
  Days,         \* trading dates with a session row, in date order
  Workers,      \* processes that run the backlog
  Poison,       \* days whose mail the server always refuses
  Batch,        \* missing reports written by one run (LIMIT 20)
  LeaseLength,  \* five minutes
  RetryAge,     \* fifteen minutes
  RunLimit,     \* TimeoutStartSec of the units that run it
  Transient     \* bound of the model: failures of a day that is not poison

Nobody == "nobody"
NoDay == -1
Past == -RunLimit   \* a timer no run of any age waits for

ASSUME ReportsAssumption ==
  /\ Days \subseteq Nat /\ Poison \subseteq Days
  /\ Nobody \notin Workers
  /\ {LeaseLength, RetryAge, RunLimit, Transient, Batch} \subseteq Nat
  /\ RunLimit < LeaseLength   \* 110 s and 45 s against 300 s

VARIABLES
  due,     \* days whose 15:30 has passed
  row,     \* banknifty_daily_reports
  run,     \* what each process holds in memory
  copies   \* accepted mails of a day, less those whose run was killed or was
           \* told of a failure before it could record them

vars == <<due, row, run, copies>>

NoReport == [st |-> "absent", attempts |-> 0, lease |-> Nobody, left |-> Past, wait |-> Past]
NoRun == [pc |-> "idle", age |-> 0, day |-> NoDay, outcome |-> "none"]

Init ==
  /\ due = {}
  /\ row = [d \in Days |-> NoReport]
  /\ run = [w \in Workers |-> NoRun]
  /\ copies = [d \in Days |-> 0]

Capped(n) == IF n > Transient THEN n ELSE n + 1   \* counts saturate above Transient
Go(w, r) == run' = [run EXCEPT ![w] = r]

BecomesDue(d) ==
  /\ d \notin due /\ \A e \in Days : e < d => e \in due
  /\ due' = due \cup {d}
  /\ UNCHANGED <<row, run, copies>>

\* First lock: daily_report() for the oldest days that are due and have none.
Missing == {d \in due : row[d].st = "absent"}
Begin(w) ==
  LET oldest == {d \in Missing : Cardinality({e \in Missing : e < d}) < Batch} IN
  /\ run[w].pc = "idle"
  /\ row' = [d \in Days |-> IF d \in oldest THEN [NoReport EXCEPT !.st = "pending"] ELSE row[d]]
  /\ Go(w, [NoRun EXCEPT !.pc = "claiming"])
  /\ UNCHANGED <<due, copies>>

\* Second lock: the claim.  Fewest attempts first, then the one that has waited
\* longest (expired waits are alike here), then the oldest.
EligibleSent(w, d) ==   \* mutant: a sent report may be claimed again
  row[d].st # "absent" /\ row[d].left <= -run[w].age /\ row[d].wait <= -run[w].age
Eligible(w, d) ==
  row[d].st \in {"pending", "failed"} /\ row[d].left <= -run[w].age /\ row[d].wait <= -run[w].age

BeforeByDate(d, e) == d <= e   \* mutant: the oldest day first, however often it failed
Before(d, e) ==
  \/ row[d].attempts < row[e].attempts
  \/ row[d].attempts = row[e].attempts /\ row[d].wait < row[e].wait
  \/ row[d].attempts = row[e].attempts /\ row[d].wait = row[e].wait /\ d <= e

Claim(w) ==
  /\ run[w].pc = "claiming"
  /\ \E d \in Days :
       /\ Eligible(w, d) /\ \A e \in Days : Eligible(w, e) => Before(d, e)
       /\ row' = [row EXCEPT ![d].lease = w, ![d].left = LeaseLength - run[w].age]
       /\ Go(w, [run[w] EXCEPT !.pc = "sending", !.day = d])
  /\ UNCHANGED <<due, copies>>

ClaimNothing(w) ==
  /\ run[w].pc = "claiming" /\ \A d \in Days : ~Eligible(w, d)
  /\ Go(w, NoRun)
  /\ UNCHANGED <<due, row, copies>>

\* The mail adapter reports a message sent, or failed: an error after the server
\* took the message is a failure all the same.
Send(w, d, outcome) ==
  /\ run[w].pc = "sending" /\ run[w].day = d
  /\ outcome = "sent" => d \notin Poison
  /\ outcome = "failed" => d \in Poison \/ row[d].attempts < Transient
  /\ copies' = IF outcome = "sent" THEN [copies EXCEPT ![d] = @ + 1] ELSE copies
  /\ Go(w, [run[w] EXCEPT !.pc = "recording", !.outcome = outcome])
  /\ UNCHANGED <<due, row>>

\* Third lock: only the holder of the lease records.
RecordOutcome(w, d) ==
  /\ run[w].pc = "recording" /\ run[w].day = d
  /\ row' = IF row[d].lease = w
            THEN [row EXCEPT ![d] =
                    [st |-> run[w].outcome, attempts |-> Capped(@.attempts), lease |-> Nobody,
                     left |-> Past,
                     wait |-> IF run[w].outcome = "sent" THEN Past ELSE RetryAge - run[w].age]]
            ELSE row
  /\ Go(w, NoRun)
  /\ UNCHANGED <<due, copies>>

Kill(w) ==
  /\ run[w].pc # "idle"
  /\ copies' = IF run[w].outcome = "sent" THEN [copies EXCEPT ![run[w].day] = @ - 1] ELSE copies
  /\ Go(w, NoRun)
  /\ UNCHANGED <<due, row>>

\* The start timeout of the units leaves no run older than RunLimit.
Less(n) == IF n = Past THEN Past ELSE n - 1
Tick ==
  /\ \A w \in Workers : run[w].age < RunLimit
  /\ run' = [w \in Workers |-> IF run[w].pc = "idle" THEN run[w]
                               ELSE [run[w] EXCEPT !.age = @ + 1]]
  /\ row' = [d \in Days |-> [row[d] EXCEPT !.left = Less(@), !.wait = Less(@)]]
  /\ UNCHANGED <<due, copies>>

DeliverReport(w, d) ==
  (\E outcome \in {"sent", "failed"} : Send(w, d, outcome)) \/ RecordOutcome(w, d)

Next ==
  \/ \E d \in Days : BecomesDue(d)
  \/ \E w \in Workers : Begin(w) \/ Claim(w) \/ ClaimNothing(w) \/ Kill(w)
  \/ \E w \in Workers, d \in Days : DeliverReport(w, d)
  \/ Tick

Spec == Init /\ [][Next]_vars

\* Time passes, the timers keep starting runs, and of the runs that get that far
\* some finish: a claim, an accepted mail and a recorded outcome are not undone
\* by a kill for ever.
FairSpec ==
  /\ Spec
  /\ WF_vars(Tick)
  /\ WF_vars(\E w \in Workers : Begin(w))
  /\ WF_vars(\E w \in Workers : run[w].age = RunLimit /\ Kill(w))
  /\ SF_vars(\E w \in Workers : Claim(w))
  /\ \A d \in Days :
       /\ SF_vars(\E w \in Workers : Send(w, d, IF d \in Poison THEN "failed" ELSE "sent"))
       /\ SF_vars(\E w \in Workers : RecordOutcome(w, d))
-----------------------------------------------------------------------------
ReportRow ==
  [st : {"absent", "pending", "failed", "sent"}, attempts : 0 .. Transient + 1,
   lease : Workers \cup {Nobody}, left : Past .. LeaseLength, wait : Past .. RetryAge]
RunMemory ==
  [pc : {"idle", "claiming", "sending", "recording"}, age : 0 .. RunLimit,
   day : Days \cup {NoDay}, outcome : {"none", "sent", "failed"}]

\* Rows and runs are well formed, and a row's lease says who is working on it:
\* a report that was sent is leased to nobody.
ReportsTypeOK ==
  /\ due \subseteq Days
  /\ row \in [Days -> ReportRow]
  /\ run \in [Workers -> RunMemory]
  /\ copies \in [Days -> Nat]
  /\ \A d \in Days : row[d].st \in {"absent", "sent"} => row[d].lease = Nobody

\* The lease keeps two processes from mailing one report together, because no
\* process lives as long as its lease.
NoConcurrentSend ==
  \A v, w \in Workers :
    (v # w /\ run[v].pc \in {"sending", "recording"} /\ run[w].pc \in {"sending", "recording"})
      => run[v].day # run[w].day

\* At-least-once, and no more often than it must: a report marked sent was
\* mailed, and a further copy answers to a run that lost the outcome of one the
\* server had accepted.
DuplicatesExplained ==
  \A d \in Days : copies[d] <= 1 /\ (row[d].st = "sent" => copies[d] = 1)

\* A failing old delivery cannot starve a newer report: each day that is due is
\* mailed in the end, while a poison day goes on failing before it.
BacklogDrains == \A d \in Days \ Poison : (d \in due) ~> (row[d].st = "sent")
=============================================================================
