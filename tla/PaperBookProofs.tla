--------------------------- MODULE PaperBookProofs ---------------------------
(***************************************************************************)
(* The paper ledger, its workflow and its audit trail, for any number of   *)
(* runs, proposals, accounts and halt scopes.  Three invariants:           *)
(*   PaperInv   a run whose order has been checked has an approval on      *)
(*              record that nothing can take back, and no halt in its      *)
(*              scope, since the halts are shared with it until it commits *)
(*   TrailInv   what a run's place in the graph, and what its process has  *)
(*              read, say of the log and the ledger                        *)
(*   BooksInv   what the account's lock is good for: a checked order is    *)
(*              still affordable when it is booked                         *)
(***************************************************************************)
EXTENDS PaperBook, Sums

Cleared(r) ==
  LET row == proposal[input[r].p] IN
  /\ row.review = "approved" /\ row.risk = input[r].qty /\ input[r].qty > 0
  /\ haltsOn \cap {Everywhere, input[r].acct} = {}

CheckedIsCleared == \A r \in Runs : flow[r].step = "checked" => Cleared(r)

PaperInv == PaperTypeOK /\ CheckedIsCleared

LEMMA InputTypes ==
  ASSUME input \in RunInputs, NEW r \in Runs
  PROVE  input[r].p \in Proposals /\ input[r].acct \in Accounts /\ input[r].qty \in Nat
BY PaperBookAssumption

LEMMA PaperInitial == PaperInit => PaperInv
<1> SUFFICES ASSUME PaperInit PROVE PaperInv
  OBVIOUS
<1>1. Start \in FlowRow /\ Start.step = "begin"  BY DEF Start, FlowRow, Nodes, Steps
<1>2. Unstaged \in ProposalRow  BY DEF Unstaged, ProposalRow
<1>3. \A r \in Runs : flow[r] = Start  BY DEF PaperInit
<1>4. PaperTypeOK
  <2>1. proposal \in [Proposals -> ProposalRow]  BY <1>2 DEF PaperInit
  <2>2. flow \in [Runs -> FlowRow]  BY <1>1 DEF PaperInit
  <2>3. log \in Seq([key : Nodes \X Proposals, prev : Nat])  BY DEF PaperInit
  <2> QED  BY <2>1, <2>2, <2>3 DEF PaperInit, PaperTypeOK
<1>5. CheckedIsCleared  BY <1>1, <1>3 DEF CheckedIsCleared
<1> QED  BY <1>4, <1>5 DEF PaperInv

\* A process goes on; it may only come to hold a checked order that is cleared.
LEMMA RunMoves ==
  ASSUME PaperInv, NEW r \in Runs, NEW f \in FlowRow, f.step = "checked" => Cleared(r),
         flow' = [flow EXCEPT ![r] = f],
         UNCHANGED <<input, promoted, proposal, haltsOn>>,
         log' \in Seq([key : Nodes \X Proposals, prev : Nat])
  PROVE  PaperInv'
<1>1. \A s \in Runs : flow'[s] = IF s = r THEN f ELSE flow[s]
  BY DEF PaperInv, PaperTypeOK
<1>2. PaperTypeOK'  BY DEF PaperInv, PaperTypeOK, FlowRow, ProposalRow
<1>3. \A s \in Runs : Cleared(s)' <=> Cleared(s)  BY DEF Cleared
<1>4. CheckedIsCleared'  BY <1>1, <1>3 DEF PaperInv, CheckedIsCleared
<1> QED  BY <1>2, <1>4 DEF PaperInv

LEMMA DoRow ==
  ASSUME PaperInv, NEW r \in Runs, NEW step \in Steps, Do(r, step)
  PROVE  \E f \in FlowRow : f.step = step /\ flow' = [flow EXCEPT ![r] = f]
<1> DEFINE f == [flow[r] EXCEPT !.step = step, !.tail = 0]
<1>1. flow[r] \in FlowRow  BY DEF PaperInv, PaperTypeOK
<1>2. f \in FlowRow /\ f.step = step  BY <1>1 DEF FlowRow
<1>3. flow' = [flow EXCEPT ![r] = f]  BY DEF Do
<1> QED  BY <1>2, <1>3

LEMMA ReturnRow ==
  ASSUME NEW r \in Runs, NEW node \in Nodes, Return(r, node)
  PROVE  \E f \in FlowRow : f.step = "begin" /\ flow' = [flow EXCEPT ![r] = f]
<1> DEFINE f == [Start EXCEPT !.at = node]
<1>1. f \in FlowRow /\ f.step = "begin"  BY DEF Start, FlowRow, Steps
<1>2. flow' = [flow EXCEPT ![r] = f]  BY DEF Return
<1> QED  BY <1>1, <1>2

LEMMA DoStep ==
  ASSUME PaperInv, NEW r \in Runs, NEW step \in Steps, step = "checked" => Cleared(r), Do(r, step),
         UNCHANGED <<input, promoted, proposal, haltsOn>>,
         log' \in Seq([key : Nodes \X Proposals, prev : Nat])
  PROVE  PaperInv'
BY DoRow, RunMoves

LEMMA ReturnStep ==
  ASSUME PaperInv, NEW r \in Runs, NEW node \in Nodes, Return(r, node),
         UNCHANGED <<input, promoted, proposal, haltsOn, log>>
  PROVE  PaperInv'
<1>1. log' \in Seq([key : Nodes \X Proposals, prev : Nat])  BY DEF PaperInv, PaperTypeOK
<1> QED  BY <1>1, ReturnRow, RunMoves

\* An approval is final: neither a later decision, a later review nor a booking
\* takes it back.
LEMMA ProposalStep ==
  ASSUME PaperInv, NEW q \in Proposals, NEW row \in ProposalRow,
         proposal' = [proposal EXCEPT ![q] = row],
         proposal[q].review # "none" => row.review = proposal[q].review,
         proposal[q].risk # NoRisk => row.risk = proposal[q].risk,
         UNCHANGED <<input, promoted, haltsOn, flow, log>>
  PROVE  PaperInv'
<1>1. PaperTypeOK'  BY DEF PaperInv, PaperTypeOK
<1>2. ASSUME NEW r \in Runs, Cleared(r)  PROVE Cleared(r)'
  <2>1. input[r].p \in Proposals /\ input[r].qty \in Nat
    BY InputTypes DEF PaperInv, PaperTypeOK
  <2>2. proposal'[input[r].p] = IF input[r].p = q THEN row ELSE proposal[input[r].p]
    BY <2>1 DEF PaperInv, PaperTypeOK
  <2>3. proposal[input[r].p].review # "none" /\ proposal[input[r].p].risk # NoRisk
    BY <1>2, <2>1 DEF Cleared, NoRisk
  <2> QED  BY <1>2, <2>2, <2>3 DEF Cleared
<1>3. CheckedIsCleared'  BY <1>2 DEF PaperInv, CheckedIsCleared
<1> QED  BY <1>1, <1>3 DEF PaperInv

LEMMA OperatorKeeps ==
  ASSUME PaperInv, OperatorStep
  PROVE  PaperInv'
<1> USE DEF PaperInv
<1>1. CASE RegisterPromoted
  <2>1. PaperTypeOK'  BY <1>1 DEF RegisterPromoted, PaperTypeOK
  <2> QED  BY <1>1, <2>1 DEF RegisterPromoted, CheckedIsCleared, Cleared
<1>2. \A q \in Used : q \in Proposals  BY InputTypes DEF PaperTypeOK, Used
<1>3. \A q \in Proposals : proposal[q] \in ProposalRow  BY DEF PaperTypeOK
<1>4. ASSUME NEW q \in Used, StageProposal(q)  PROVE PaperInv'
  <2> DEFINE row == [proposal[q] EXCEPT !.status = "received"]
  <2>1. q \in Proposals /\ proposal[q] \in ProposalRow  BY <1>2, <1>3
  <2>2. row \in ProposalRow /\ row.review = proposal[q].review /\ row.risk = proposal[q].risk
    BY <2>1 DEF ProposalRow
  <2>3. proposal' = [proposal EXCEPT ![q] = row]  BY <1>4 DEF StageProposal
  <2> HIDE DEF row
  <2> QED  BY <1>4, <2>1, <2>2, <2>3, ProposalStep DEF StageProposal
<1>5. ASSUME NEW q \in Used, NEW size \in RiskSizes, RecordRisk(q, size)  PROVE PaperInv'
  <2> DEFINE row == [proposal[q] EXCEPT
                       !.risk = IF @ = NoRisk THEN size ELSE @,
                       !.status = IF @ # "received" THEN @
                                  ELSE IF size > 0 THEN "awaiting_human" ELSE "risk_rejected"]
  <2>1. q \in Proposals /\ proposal[q] \in ProposalRow  BY <1>2, <1>3
  <2>2. row \in ProposalRow /\ row.review = proposal[q].review
        /\ (proposal[q].risk # NoRisk => row.risk = proposal[q].risk)
    BY <2>1 DEF ProposalRow
  <2>3. proposal' = [proposal EXCEPT ![q] = row]  BY <1>5 DEF RecordRisk
  <2> HIDE DEF row
  <2> QED  BY <1>5, <2>1, <2>2, <2>3, ProposalStep DEF RecordRisk
<1>6. ASSUME NEW q \in Used, NEW yes \in BOOLEAN, RecordReview(q, yes)  PROVE PaperInv'
  <2> DEFINE row == [proposal[q] EXCEPT
                       !.review = IF @ # "none" THEN @ ELSE IF yes THEN "approved" ELSE "refused",
                       !.status = IF @ # "awaiting_human" THEN @
                                  ELSE IF yes THEN "approved" ELSE "expired"]
  <2>1. q \in Proposals /\ proposal[q] \in ProposalRow  BY <1>2, <1>3
  <2>2. row \in ProposalRow /\ row.risk = proposal[q].risk
        /\ (proposal[q].review # "none" => row.review = proposal[q].review)
    BY <2>1 DEF ProposalRow
  <2>3. proposal' = [proposal EXCEPT ![q] = row]  BY <1>6 DEF RecordReview
  <2> HIDE DEF row
  <2> QED  BY <1>6, <2>1, <2>2, <2>3, ProposalStep DEF RecordReview
<1>7. ASSUME NEW s \in HaltScopes, ChangeHalts(haltsOn \cup {s}) \/ ChangeHalts(haltsOn \ {s})
      PROVE  PaperInv'
  <2>1. \A r \in Runs : flow'[r].step # "checked"  BY <1>7 DEF ChangeHalts, HaltsShared
  <2>2. PaperTypeOK'  BY <1>7 DEF ChangeHalts, PaperTypeOK
  <2> QED  BY <2>1, <2>2 DEF CheckedIsCleared
<1> QED  BY <1>1, <1>4, <1>5, <1>6, <1>7 DEF OperatorStep

LEMMA RunKeeps ==
  ASSUME PaperInv, NEW r \in Runs, RunStep(r)
  PROVE  PaperInv'
<1>1. flow[r] \in FlowRow /\ log \in Seq([key : Nodes \X Proposals, prev : Nat])
  BY DEF PaperInv, PaperTypeOK
<1>2. {"assess", "reject", "executed", "rejected", "review", "execute"} \subseteq Nodes  BY DEF Nodes
<1>3. CASE Validate(r)  BY <1>2, <1>3, ReturnStep DEF Validate
<1>4. CASE Look(r)
  <2> DEFINE f == [flow[r] EXCEPT !.step = "looked", !.tail = Len(log)]
  <2> DEFINE length == Len(log)
  <2>4. length \in Nat  BY <1>1
  <2> HIDE DEF length
  <2>5. [flow[r] EXCEPT !.step = "looked", !.tail = length] \in FlowRow  BY <1>1, <2>4 DEF FlowRow, Steps
  <2>1. f \in FlowRow /\ f.step = "looked"  BY <1>1, <2>5 DEF FlowRow, length
  <2>2. Do(r, "logged") \/ flow' = [flow EXCEPT ![r] = f]  BY <1>4 DEF Look, LookUp
  <2>3. "logged" \in Steps  BY DEF Steps
  <2> HIDE DEF f
  <2> QED  BY <1>1, <1>4, <2>1, <2>2, <2>3, DoStep, RunMoves DEF Look
<1>5. CASE Write(r)
  <2>1. input[r].p \in Proposals  BY InputTypes DEF PaperInv, PaperTypeOK
  <2>2. [key |-> Key(r), prev |-> flow[r].tail] \in [key : Nodes \X Proposals, prev : Nat]
    BY <1>1, <2>1 DEF Key, FlowRow
  <2>3. log' \in Seq([key : Nodes \X Proposals, prev : Nat])  BY <1>1, <1>5, <2>2 DEF Write
  <2>4. "logged" \in Steps  BY DEF Steps
  <2> QED  BY <1>5, <2>3, <2>4, DoStep DEF Write
<1>6. CASE NodeReturns(r)
  <2>1. \E node \in Nodes : Return(r, node)  BY <1>2, <1>6 DEF NodeReturns
  <2> QED  BY <1>6, <2>1, ReturnStep DEF NodeReturns
<1>7. ASSUME NEW yes \in BOOLEAN, Resume(r, yes)  PROVE PaperInv'
  <2> DEFINE f == [flow[r] EXCEPT !.yes = yes,
                                  !.step = IF Logged(Key(r)) THEN "logged" ELSE "looked",
                                  !.tail = IF Logged(Key(r)) THEN @ ELSE Len(log)]
  <2> DEFINE length == Len(log)
             seen == Logged(Key(r))
  <2>3. length \in Nat  BY <1>1
  <2> HIDE DEF length, seen
  <2>4. LET g == [flow[r] EXCEPT !.yes = yes, !.step = IF seen THEN "logged" ELSE "looked",
                                 !.tail = IF seen THEN @ ELSE length]
        IN g \in FlowRow /\ g.step # "checked"
    BY <1>1, <2>3 DEF FlowRow, Steps
  <2>1. f \in FlowRow /\ f.step # "checked"  BY <2>4 DEF length, seen
  <2>2. flow' = [flow EXCEPT ![r] = f]  BY <1>7 DEF Resume
  <2> HIDE DEF f
  <2> QED  BY <1>1, <1>7, <2>1, <2>2, RunMoves DEF Resume
<1>8. CASE ResumeBadly(r)  BY <1>2, <1>8, ReturnStep DEF ResumeBadly
<1>9. CASE FillFor(r) \/ LockAccount(r)
  <2>1. \E step \in {"filled", "calling", "locked"} : Do(r, step)  BY <1>9 DEF FillFor, LockAccount
  <2>2. {"filled", "calling", "locked"} \subseteq Steps  BY DEF Steps
  <2> QED  BY <1>1, <1>9, <2>1, <2>2, DoStep DEF FillFor, LockAccount
<1>10. CASE CheckOrder(r)
  <2>1. "checked" \in Steps /\ "begin" \in Steps  BY DEF Steps
  <2>2. CASE Do(r, "begin")  BY <1>1, <1>10, <2>1, <2>2, DoStep DEF CheckOrder
  <2>3. CASE /\ Do(r, "checked") /\ haltsOn \cap {Everywhere, input[r].acct} = {}
             /\ Approved(r)
    <3>1. Cleared(r)  BY <2>3 DEF Approved, Cleared
    <3> QED  BY <1>1, <1>10, <2>1, <2>3, <3>1, DoStep DEF CheckOrder
  <2> QED  BY <1>10, <2>2, <2>3 DEF CheckOrder
<1>11. CASE BookOrder(r)
  <2>1. input[r].p \in Proposals  BY InputTypes DEF PaperInv, PaperTypeOK
  <2> DEFINE row == [proposal[input[r].p] EXCEPT !.status = "submitted"]
             g == [flow[r] EXCEPT !.step = "filled", !.tail = 0]
  <2>2. row \in ProposalRow /\ row.review = proposal[input[r].p].review
        /\ row.risk = proposal[input[r].p].risk
    BY <2>1 DEF PaperInv, PaperTypeOK, ProposalRow
  <2>3. g \in FlowRow /\ g.step = "filled"  BY <1>1 DEF FlowRow, Steps
  <2>4. proposal' = [proposal EXCEPT ![input[r].p] = row] /\ flow' = [flow EXCEPT ![r] = g]
        /\ UNCHANGED <<input, promoted, haltsOn, log>>
    BY <1>11 DEF BookOrder, Do
  <2> HIDE DEF row, g
  <2>5. PaperTypeOK'  BY <2>1, <2>2, <2>3, <2>4 DEF PaperInv, PaperTypeOK
  <2>6. \A s \in Runs : /\ proposal'[input[s].p].review = proposal[input[s].p].review
                        /\ proposal'[input[s].p].risk = proposal[input[s].p].risk
    <3>1. \A s \in Runs : input[s].p \in Proposals  BY InputTypes DEF PaperInv, PaperTypeOK
    <3> QED  BY <2>1, <2>2, <2>4, <3>1 DEF PaperInv, PaperTypeOK
  <2>7. \A s \in Runs : Cleared(s)' <=> Cleared(s)  BY <2>4, <2>6 DEF Cleared
  <2>8. CheckedIsCleared'  BY <2>3, <2>4, <2>7 DEF PaperInv, PaperTypeOK, CheckedIsCleared
  <2> QED  BY <2>5, <2>8 DEF PaperInv
<1>12. CASE BookRefused(r)
  <2>1. "begin" \in Steps  BY DEF Steps
  <2> QED  BY <1>1, <1>12, <2>1, DoStep DEF BookRefused
<1>13. CASE CrashRun(r)
  <2>1. flow[r].at \in Nodes  BY <1>1 DEF FlowRow
  <2> QED  BY <1>13, <2>1, ReturnStep DEF CrashRun
<1> QED
  BY <1>3, <1>4, <1>5, <1>6, <1>7, <1>8, <1>9, <1>10, <1>11, <1>12, <1>13 DEF RunStep

LEMMA PaperInductive ==
  ASSUME PaperInv, [PaperNext]_paperVars
  PROVE  PaperInv'
<1>1. CASE UNCHANGED paperVars
  BY <1>1 DEF paperVars, PaperInv, PaperTypeOK, CheckedIsCleared, Cleared
<1> QED  BY <1>1, OperatorKeeps, RunKeeps DEF PaperNext

\* The order a step books is a checked run's, and the first of its proposal.
LEMMA FillStep ==
  ASSUME PaperInv, [PaperNext]_paperVars, NEW o \in orders' \ orders
  PROVE  /\ ~Filled(o.p) /\ \A other \in orders' \ orders : other = o
         /\ proposal[o.p].review = "approved" /\ proposal[o.p].risk = o.qty /\ o.qty > 0
         /\ haltsOn \cap {Everywhere, o.acct} = {}
<1>1. PICK r \in Runs : BookOrder(r)
  BY DEF PaperNext, OperatorStep, RunStep, paperVars, RegisterPromoted, StageProposal, RecordRisk,
         RecordReview, ChangeHalts, Validate, Look, Write, NodeReturns, Resume, ResumeBadly, FillFor,
         LockAccount, CheckOrder, BookRefused, CrashRun
<1>2. Cleared(r)  BY <1>1 DEF BookOrder, PaperInv, CheckedIsCleared
<1>3. o = [p |-> input[r].p, acct |-> input[r].acct, run |-> r, buy |-> input[r].buy,
           qty |-> input[r].qty, price |-> input[r].price]
      /\ \A other \in orders' \ orders : other = o
  BY <1>1 DEF BookOrder
<1>4. o.p = input[r].p /\ o.acct = input[r].acct /\ o.qty = input[r].qty  BY <1>3
<1> QED  BY <1>1, <1>2, <1>3, <1>4 DEF BookOrder, Accepted, ClientIdFree, Cleared

\* The ledger's rows and every run's checkpoint are well formed, after any crash.
THEOREM PaperTypeCorrect == PaperSpec => []PaperTypeOK
<1>1. PaperInv => PaperTypeOK  BY DEF PaperInv
<1> QED  BY <1>1, PaperInitial, PaperInductive, PTL DEF PaperSpec

\* A fill commits once per proposal, approved by its first review for exactly
\* the size of its first risk decision, and under no halt.
THEOREM FillsAreAuthorised == PaperSpec => FillsAuthorised
<1>1. PaperInv /\ [PaperNext]_paperVars =>
        [\A o \in orders' \ orders :
           /\ ~Filled(o.p) /\ \A other \in orders' \ orders : other = o
           /\ proposal[o.p].review = "approved" /\ proposal[o.p].risk = o.qty /\ o.qty > 0
           /\ haltsOn \cap {Everywhere, o.acct} = {}]_paperVars
  BY FillStep
<1> QED  BY <1>1, PaperInitial, PaperInductive, PTL DEF PaperSpec, FillsAuthorised

----------------------------------------------------------------------------
\* The trail.  A row of a run, against a log and a set of orders.
Holds(l, node, p) == \E i \in DOMAIN l : l[i].key = <<node, p>>
HasFill(os, p) == \E o \in os : o.p = p

\* What the place of a run in the graph says of the log and the ledger.
Reached(f, p, l, os) ==
  /\ f.at \in {"review", "execute", "executed"} => Holds(l, "assess", p)
  /\ f.at \in {"execute", "executed"} => Holds(l, "review", p)
  /\ f.at = "executed" => HasFill(os, p) /\ Holds(l, "execute", p)

\* What its process knows inside a node.
InNode(f, p, l, os) ==
  /\ f.step \in {"calling", "locked", "checked", "filled"} => f.at = "execute"
  /\ f.step \in {"looked", "logged"} => f.at \in {"assess", "review", "execute", "reject"}
  /\ f.step \in {"looked", "logged", "filled"} /\ f.at = "execute" => HasFill(os, p)
  /\ f.step = "logged" => Holds(l, f.at, p)
  /\ f.step = "looked" => \A i \in DOMAIN l : i <= f.tail => l[i].key # <<f.at, p>>
  /\ f.step = "looked" => f.tail <= Len(l)

\* An event is logged after the one its node came from.
LogOrdered(l) ==
  \A p \in Proposals, k \in DOMAIN l :
    /\ l[k].key = <<"review", p>> => \E i \in DOMAIN l : i < k /\ l[i].key = <<"assess", p>>
    /\ l[k].key = <<"execute", p>> => \E i \in DOMAIN l : i < k /\ l[i].key = <<"review", p>>

OnceIfChained(l) ==
  (\A i \in DOMAIN l : l[i].prev = i - 1) => \A i, j \in DOMAIN l : l[i].key = l[j].key => i = j

TrailInv ==
  /\ \A r \in Runs : /\ Reached(flow[r], input[r].p, log, orders)
                     /\ InNode(flow[r], input[r].p, log, orders)
  /\ LogOrdered(log) /\ OnceIfChained(log)

LogRow == [key : Nodes \X Proposals, prev : Nat]

LEMMA TrailShown == PaperTypeOK /\ TrailInv => TrailComplete
<1> SUFFICES ASSUME PaperTypeOK, TrailInv PROVE TrailComplete
  OBVIOUS
<1>1. Chained => \A i, j \in DOMAIN log : log[i].key = log[j].key => i = j
  BY DEF TrailInv, OnceIfChained, Chained
<1>2. ASSUME NEW r \in Runs, flow[r].at = "executed"
      PROVE  /\ Filled(input[r].p)
             /\ \E i \in Place("assess", input[r].p), j \in Place("review", input[r].p),
                   k \in Place("execute", input[r].p) : i < j /\ j < k
  <2> DEFINE p == input[r].p
  <2>1. p \in Proposals  BY InputTypes DEF PaperTypeOK
  <2>2. HasFill(orders, p) /\ Holds(log, "execute", p)  BY <1>2 DEF TrailInv, Reached
  <2>3. PICK k \in DOMAIN log : log[k].key = <<"execute", p>>  BY <2>2 DEF Holds
  <2>4. PICK j \in DOMAIN log : j < k /\ log[j].key = <<"review", p>>
    BY <2>1, <2>3 DEF TrailInv, LogOrdered
  <2>5. PICK i \in DOMAIN log : i < j /\ log[i].key = <<"assess", p>>
    BY <2>1, <2>4 DEF TrailInv, LogOrdered
  <2> QED  BY <2>2, <2>3, <2>4, <2>5 DEF Place, Filled, HasFill
<1> QED  BY <1>1, <1>2 DEF TrailComplete

\* The log is only appended to.
Extends(l, l2) == \A i \in DOMAIN l : i \in DOMAIN l2 /\ l2[i] = l[i]

\* What a row knows stays true of a longer log and of more orders.
LEMMA RowKept ==
  ASSUME NEW f \in FlowRow, NEW p, NEW l \in Seq(LogRow), NEW l2 \in Seq(LogRow), Extends(l, l2),
         NEW os, NEW os2, os \subseteq os2, Reached(f, p, l, os), InNode(f, p, l, os)
  PROVE  Reached(f, p, l2, os2) /\ InNode(f, p, l2, os2)
<1>1. \A node : Holds(l, node, p) => Holds(l2, node, p)  BY DEF Holds, Extends
<1>2. HasFill(os, p) => HasFill(os2, p)  BY DEF HasFill
<1>3. Len(l) <= Len(l2)
  <2>1. Len(l) \in Nat /\ Len(l2) \in Nat /\ DOMAIN l = 1 .. Len(l) /\ DOMAIN l2 = 1 .. Len(l2)
    OBVIOUS
  <2>2. Len(l) > 0 => Len(l) \in DOMAIN l2  BY <2>1 DEF Extends
  <2> QED  BY <2>1, <2>2
<1>4. ASSUME f.step = "looked" PROVE \A i \in DOMAIN l2 : i <= f.tail => l2[i].key # <<f.at, p>>
  <2>1. f.tail <= Len(l) /\ f.tail \in Nat /\ Len(l) \in Nat  BY <1>4 DEF InNode, FlowRow
  <2>2. \A i \in DOMAIN l2 : i <= f.tail => i \in DOMAIN l  BY <2>1
  <2> QED  BY <1>4, <2>2 DEF InNode, Extends
<1>5. f.step = "looked" => f.tail <= Len(l2)
  BY <1>3 DEF InNode, FlowRow
<1>6. Reached(f, p, l2, os2)  BY <1>1, <1>2 DEF Reached
<1> QED  BY <1>1, <1>2, <1>4, <1>5, <1>6 DEF InNode

\* A step that moves one run, leaves the log, and loses no order.
LEMMA TrailMoves ==
  ASSUME PaperInv, TrailInv, NEW r \in Runs, NEW g,
         flow' = [flow EXCEPT ![r] = g], UNCHANGED <<input, log>>, orders \subseteq orders',
         Reached(g, input[r].p, log, orders'), InNode(g, input[r].p, log, orders')
  PROVE  TrailInv'
<1>1. \A s \in Runs : flow'[s] = IF s = r THEN g ELSE flow[s]  BY DEF PaperInv, PaperTypeOK
<1>2. \A s \in Runs : flow[s] \in FlowRow /\ log \in Seq(LogRow)  BY DEF PaperInv, PaperTypeOK, LogRow
<1>3. Extends(log, log)  BY DEF Extends
<1>4. ASSUME NEW s \in Runs
      PROVE  Reached(flow[s], input[s].p, log, orders') /\ InNode(flow[s], input[s].p, log, orders')
  <2>1. Reached(flow[s], input[s].p, log, orders) /\ InNode(flow[s], input[s].p, log, orders)
    BY DEF TrailInv
  <2> QED  BY <1>2, <1>3, <2>1, RowKept
<1>5. \A s \in Runs : Reached(flow'[s], input[s].p, log, orders')
                      /\ InNode(flow'[s], input[s].p, log, orders')
  BY <1>1, <1>4
<1> QED  BY <1>5 DEF TrailInv

\* A node that returns, or a process that dies, knows nothing but its place.
LEMMA TrailReturns ==
  ASSUME PaperInv, TrailInv, NEW r \in Runs, NEW node, Return(r, node),
         UNCHANGED <<input, log, orders>>,
         node \in {"review", "execute", "executed"} => Holds(log, "assess", input[r].p),
         node \in {"execute", "executed"} => Holds(log, "review", input[r].p),
         node = "executed" => HasFill(orders, input[r].p) /\ Holds(log, "execute", input[r].p)
  PROVE  TrailInv'
<1> DEFINE g == [Start EXCEPT !.at = node]
<1>1. g.at = node /\ g.step = "begin"  BY DEF Start
<1>2. flow' = [flow EXCEPT ![r] = g]  BY DEF Return
<1> HIDE DEF g
<1>3. Reached(g, input[r].p, log, orders')  BY <1>1 DEF Reached
<1>4. InNode(g, input[r].p, log, orders')  BY <1>1 DEF InNode
<1> QED  BY <1>2, <1>3, <1>4, TrailMoves

\* A process that goes on inside its node.
LEMMA TrailDoes ==
  ASSUME PaperInv, TrailInv, NEW r \in Runs, NEW step, Do(r, step),
         UNCHANGED <<input, log>>, orders \subseteq orders',
         step \notin {"looked"},
         step \in {"calling", "locked", "checked", "filled"} => flow[r].at = "execute",
         step = "filled" => HasFill(orders', input[r].p),
         step = "logged" => /\ flow[r].at \in {"assess", "review", "execute", "reject"}
                            /\ flow[r].at = "execute" => HasFill(orders', input[r].p)
                            /\ Holds(log, flow[r].at, input[r].p)
  PROVE  TrailInv'
<1> DEFINE g == [flow[r] EXCEPT !.step = step, !.tail = 0]
<1>1. flow[r] \in FlowRow  BY DEF PaperInv, PaperTypeOK
<1>2. g.at = flow[r].at /\ g.step = step  BY <1>1 DEF FlowRow
<1>3. flow' = [flow EXCEPT ![r] = g]  BY DEF Do
<1> HIDE DEF g
<1>4. Reached(flow[r], input[r].p, log, orders)  BY DEF TrailInv
<1>5. HasFill(orders, input[r].p) => HasFill(orders', input[r].p)  BY DEF HasFill
<1>6. Reached(g, input[r].p, log, orders')  BY <1>2, <1>4, <1>5 DEF Reached
<1>7. InNode(g, input[r].p, log, orders')  BY <1>2 DEF InNode
<1> QED  BY <1>3, <1>6, <1>7, TrailMoves

\* append_once, first half: the process that goes on to write has read the whole
\* log and not found its event.
LEMMA TrailLooks ==
  ASSUME PaperInv, TrailInv, NEW r \in Runs, NEW g \in FlowRow, flow' = [flow EXCEPT ![r] = g],
         UNCHANGED <<input, log, orders>>, g.at = flow[r].at,
         g.at \in {"assess", "review", "execute", "reject"},
         g.at = "execute" => HasFill(orders, input[r].p),
         \/ (g.step = "logged" /\ Logged(Key(r)))
         \/ (g.step = "looked" /\ ~Logged(Key(r)) /\ g.tail = Len(log))
  PROVE  TrailInv'
<1>1. Key(r) = <<g.at, input[r].p>>  BY DEF Key
<1>2. Reached(flow[r], input[r].p, log, orders)  BY DEF TrailInv
<1>3. Reached(g, input[r].p, log, orders')  BY <1>2 DEF Reached
<1>4. g.step = "logged" => Holds(log, g.at, input[r].p)  BY <1>1 DEF Logged, Holds
<1>5. g.step = "looked" => \A i \in DOMAIN log : log[i].key # <<g.at, input[r].p>>
  BY <1>1 DEF Logged
<1>6. g.step = "looked" => g.tail <= Len(log)
  BY DEF FlowRow
<1>7. InNode(g, input[r].p, log, orders')  BY <1>4, <1>5, <1>6 DEF InNode
<1> QED  BY <1>3, <1>7, TrailMoves

\* append_once, second half.  A log still chained is one nobody else appended to
\* since the process looked, so the event is new to it.
LEMMA TrailWrites ==
  ASSUME PaperInv, TrailInv, NEW r \in Runs, Write(r)
  PROVE  TrailInv'
<1> DEFINE p == input[r].p
           e == [key |-> <<flow[r].at, p>>, prev |-> flow[r].tail]
           g == [flow[r] EXCEPT !.step = "logged", !.tail = 0]
           n == Len(log)
           l == Append(log, e)
<1>1. flow[r] \in FlowRow /\ p \in Proposals /\ log \in Seq(LogRow)
  BY InputTypes DEF PaperInv, PaperTypeOK, LogRow
<1>2. e \in LogRow /\ e.key = <<flow[r].at, p>> /\ e.prev = flow[r].tail /\ flow[r].tail \in Nat
  BY <1>1 DEF LogRow, FlowRow
<1>3. g.at = flow[r].at /\ g.step = "logged"  BY <1>1 DEF FlowRow
<1>4. log' = l /\ flow' = [flow EXCEPT ![r] = g] /\ UNCHANGED <<input, orders>>
  BY DEF Write, Do, Key
<1>5. flow[r].step = "looked" /\ Reached(flow[r], p, log, orders) /\ InNode(flow[r], p, log, orders)
  BY DEF Write, TrailInv
<1> HIDE DEF e, g
<1>6. /\ n \in Nat /\ DOMAIN log = 1 .. n /\ DOMAIN l = 1 .. (n + 1) /\ l \in Seq(LogRow)
      /\ l[n + 1] = e /\ \A i \in 1 .. n : l[i] = log[i]
  BY <1>1, <1>2
<1> HIDE DEF l, n
<1>7. Extends(log, l)  BY <1>6 DEF Extends
<1>8. \A s \in Runs : flow'[s] = IF s = r THEN g ELSE flow[s]  BY <1>4 DEF PaperInv, PaperTypeOK
<1>9. ASSUME NEW s \in Runs, s # r
      PROVE  Reached(flow'[s], input'[s].p, l, orders') /\ InNode(flow'[s], input'[s].p, l, orders')
  <2>1. Reached(flow[s], input[s].p, log, orders) /\ InNode(flow[s], input[s].p, log, orders)
        /\ flow[s] \in FlowRow
    BY DEF TrailInv, PaperInv, PaperTypeOK
  <2>2. Reached(flow[s], input[s].p, l, orders) /\ InNode(flow[s], input[s].p, l, orders)
    BY <1>1, <1>6, <1>7, <2>1, RowKept
  <2> QED  BY <1>4, <1>8, <1>9, <2>2
<1>10. Reached(g, p, l, orders) /\ InNode(g, p, l, orders)
  <2>1. Reached(flow[r], p, l, orders)  BY <1>1, <1>5, <1>6, <1>7, RowKept
  <2>2. Holds(l, flow[r].at, p)  BY <1>2, <1>6 DEF Holds
  <2>3. Reached(g, p, l, orders)  BY <1>3, <2>1 DEF Reached
  <2>4. InNode(g, p, l, orders)  BY <1>3, <1>5, <2>2 DEF InNode
  <2> QED  BY <2>3, <2>4
<1>11. LogOrdered(l)
  <2> SUFFICES ASSUME NEW q \in Proposals, NEW k \in DOMAIN l
               PROVE  /\ l[k].key = <<"review", q>> =>
                            \E i \in DOMAIN l : i < k /\ l[i].key = <<"assess", q>>
                      /\ l[k].key = <<"execute", q>> =>
                            \E i \in DOMAIN l : i < k /\ l[i].key = <<"review", q>>
    BY DEF LogOrdered
  <2>1. CASE k \in DOMAIN log
    <3>1. l[k] = log[k] /\ \A i \in DOMAIN log : i \in DOMAIN l /\ l[i] = log[i]
      BY <1>6, <2>1
    <3>2. /\ log[k].key = <<"review", q>> =>
               \E i \in DOMAIN log : i < k /\ log[i].key = <<"assess", q>>
          /\ log[k].key = <<"execute", q>> =>
               \E i \in DOMAIN log : i < k /\ log[i].key = <<"review", q>>
      BY <2>1 DEF TrailInv, LogOrdered
    <3> HIDE DEF p
    <3> QED  BY <3>1, <3>2
  <2>2. CASE k \notin DOMAIN log
    <3>1. k = n + 1 /\ l[k] = e  BY <1>6, <2>2
    <3>2. \A i \in DOMAIN log : i < k /\ i \in DOMAIN l /\ l[i] = log[i]  BY <1>6, <3>1
    <3>3. \A node : e.key = <<node, q>> => flow[r].at = node /\ p = q  BY <1>2
    <3>4. ASSUME l[k].key = <<"review", q>>
          PROVE  \E i \in DOMAIN l : i < k /\ l[i].key = <<"assess", q>>
      <4>1. flow[r].at = "review" /\ p = q  BY <3>1, <3>3, <3>4
      <4>2. Holds(log, "assess", q)  BY <1>5, <4>1 DEF Reached
      <4> QED  BY <3>2, <4>2 DEF Holds
    <3>5. ASSUME l[k].key = <<"execute", q>>
          PROVE  \E i \in DOMAIN l : i < k /\ l[i].key = <<"review", q>>
      <4>1. flow[r].at = "execute" /\ p = q  BY <3>1, <3>3, <3>5
      <4>2. Holds(log, "review", q)  BY <1>5, <4>1 DEF Reached
      <4> QED  BY <3>2, <4>2 DEF Holds
    <3> QED  BY <3>4, <3>5
  <2> QED  BY <2>1, <2>2
<1>12. OnceIfChained(l)
  <2> SUFFICES ASSUME \A i \in DOMAIN l : l[i].prev = i - 1
               PROVE  \A i, j \in DOMAIN l : l[i].key = l[j].key => i = j
    BY DEF OnceIfChained
  <2>1. flow[r].tail = n
    <3>1. n + 1 \in DOMAIN l /\ l[n + 1].prev = (n + 1) - 1  BY <1>6
    <3> QED  BY <1>2, <1>6, <3>1
  <2>2. \A i \in DOMAIN log : log[i].key # e.key  BY <1>2, <1>5, <1>6, <2>1 DEF InNode
  <2>3. \A i \in DOMAIN log : log[i].prev = i - 1  BY <1>6
  <2>4. \A i, j \in DOMAIN log : log[i].key = log[j].key => i = j
    BY <2>3 DEF TrailInv, OnceIfChained
  <2>5. \A i \in DOMAIN l : (i \in DOMAIN log /\ l[i] = log[i]) \/ (i = n + 1 /\ l[i] = e)
    BY <1>6
  <2> QED  BY <2>2, <2>4, <2>5
<1> QED
  <2>1. \A s \in Runs : /\ Reached(flow'[s], input'[s].p, l, orders')
                        /\ InNode(flow'[s], input'[s].p, l, orders')
    BY <1>4, <1>8, <1>9, <1>10
  <2> QED  BY <1>4, <1>11, <1>12, <2>1 DEF TrailInv

LEMMA TrailRuns ==
  ASSUME PaperInv, TrailInv, NEW r \in Runs, RunStep(r)
  PROVE  TrailInv'
<1>1. flow[r] \in FlowRow /\ log \in Seq(LogRow)  BY DEF PaperInv, PaperTypeOK, LogRow
<1>2. Reached(flow[r], input[r].p, log, orders) /\ InNode(flow[r], input[r].p, log, orders)
  BY DEF TrailInv
<1>3. CASE Validate(r)  BY <1>3, TrailReturns DEF Validate
<1>4. CASE Look(r)
  <2>1. flow[r].at = "execute" => HasFill(orders, input[r].p)  BY <1>2, <1>4 DEF Look, InNode
  <2>2. CASE Logged(Key(r))
    <3>1. Do(r, "logged") /\ UNCHANGED <<input, orders, log>>  BY <1>4, <2>2 DEF Look, LookUp
    <3>2. Holds(log, flow[r].at, input[r].p)  BY <2>2 DEF Logged, Key, Holds
    <3> QED  BY <1>4, <2>1, <3>1, <3>2, TrailDoes DEF Look
  <2>3. CASE ~Logged(Key(r))
    <3> DEFINE n == Len(log)
               g == [flow[r] EXCEPT !.step = "looked", !.tail = n]
    <3>1. n \in Nat  BY <1>1
    <3>2. flow' = [flow EXCEPT ![r] = g] /\ UNCHANGED <<input, orders, log>>
      BY <1>4, <2>3 DEF Look, LookUp
    <3> HIDE DEF n
    <3>3. g \in FlowRow /\ g.at = flow[r].at /\ g.step = "looked" /\ g.tail = n
      BY <1>1, <3>1 DEF FlowRow, Steps
    <3> HIDE DEF g
    <3> QED  BY <1>4, <2>1, <2>3, <3>2, <3>3, TrailLooks DEF Look, n
  <2> QED  BY <2>2, <2>3
<1>5. CASE Write(r)  BY <1>5, TrailWrites
<1>6. CASE NodeReturns(r)
  <2>1. Holds(log, flow[r].at, input[r].p) /\ flow[r].at \in {"assess", "review", "execute", "reject"}
    BY <1>2, <1>6 DEF NodeReturns, InNode
  <2>2. UNCHANGED <<input, log, orders>> /\ flow[r].step = "logged"  BY <1>6 DEF NodeReturns
  <2>3. CASE flow[r].at = "assess"
    <3>1. Return(r, "review") \/ Return(r, "reject")  BY <1>6, <2>3 DEF NodeReturns
    <3> QED  BY <2>1, <2>2, <2>3, <3>1, TrailReturns
  <2>4. CASE flow[r].at = "review"
    <3>1. Return(r, "execute") \/ Return(r, "reject")  BY <1>6, <2>4 DEF NodeReturns
    <3>2. Holds(log, "assess", input[r].p)  BY <1>2, <2>4 DEF Reached
    <3> QED  BY <2>1, <2>2, <2>4, <3>1, <3>2, TrailReturns
  <2>5. CASE flow[r].at = "execute"
    <3>1. Return(r, "executed")  BY <1>6, <2>5 DEF NodeReturns
    <3>2. Holds(log, "assess", input[r].p) /\ Holds(log, "review", input[r].p)
      BY <1>2, <2>5 DEF Reached
    <3>3. HasFill(orders, input[r].p)  BY <1>2, <2>2, <2>5 DEF InNode
    <3> QED  BY <2>1, <2>2, <2>5, <3>1, <3>2, <3>3, TrailReturns
  <2>6. CASE flow[r].at = "reject"
    <3>1. Return(r, "rejected")  BY <1>6, <2>6 DEF NodeReturns
    <3> QED  BY <2>2, <3>1, TrailReturns
  <2> QED  BY <2>1, <2>3, <2>4, <2>5, <2>6
<1>7. ASSUME NEW yes \in BOOLEAN, Resume(r, yes)  PROVE TrailInv'
  <2> DEFINE n == Len(log)
             seen == Logged(Key(r))
             g == [flow[r] EXCEPT !.yes = yes, !.step = IF seen THEN "logged" ELSE "looked",
                                  !.tail = IF seen THEN @ ELSE n]
  <2>1. n \in Nat  BY <1>1
  <2>2. flow' = [flow EXCEPT ![r] = g]  BY <1>7 DEF Resume
  <2> HIDE DEF n, seen
  <2>3. /\ g \in FlowRow /\ g.at = flow[r].at
        /\ \/ seen /\ g.step = "logged"
           \/ (~seen /\ g.step = "looked" /\ g.tail = n)
    BY <1>1, <2>1 DEF FlowRow, Steps
  <2> HIDE DEF g
  <2> QED  BY <1>7, <2>2, <2>3, TrailLooks DEF Resume, n, seen
<1>8. CASE ResumeBadly(r)  BY <1>8, TrailReturns DEF ResumeBadly
<1>9. CASE FillFor(r)
  <2>1. (Do(r, "filled") /\ HasFill(orders, input[r].p)) \/ Do(r, "calling")
    BY <1>9 DEF FillFor, Filled, HasFill
  <2> QED  BY <1>9, <2>1, TrailDoes DEF FillFor
<1>10. CASE LockAccount(r)
  <2>1. (Do(r, "filled") /\ HasFill(orders, input[r].p)) \/ Do(r, "locked")
    BY <1>10 DEF LockAccount, Filled, HasFill
  <2>2. flow[r].at = "execute"  BY <1>2, <1>10 DEF LockAccount, InNode
  <2> QED  BY <1>10, <2>1, <2>2, TrailDoes DEF LockAccount
<1>11. CASE CheckOrder(r)
  <2>1. Do(r, "checked") \/ Do(r, "begin")  BY <1>11 DEF CheckOrder
  <2>2. flow[r].at = "execute"  BY <1>2, <1>11 DEF CheckOrder, InNode
  <2> QED  BY <1>11, <2>1, <2>2, TrailDoes DEF CheckOrder
<1>12. CASE BookOrder(r)
  <2>1. Do(r, "filled") /\ UNCHANGED <<input, log>> /\ orders \subseteq orders'
    BY <1>12 DEF BookOrder
  <2>2. HasFill(orders', input[r].p)
    <3> DEFINE in == input[r]
               z == [p |-> in.p, acct |-> in.acct, run |-> r, buy |-> in.buy,
                     qty |-> in.qty, price |-> in.price]
    <3>1. z \in orders' /\ z.p = input[r].p  BY <1>12 DEF BookOrder
    <3> HIDE DEF z
    <3> QED  BY <3>1 DEF HasFill
  <2>3. flow[r].at = "execute"  BY <1>2, <1>12 DEF BookOrder, InNode
  <2> QED  BY <2>1, <2>2, <2>3, TrailDoes
<1>13. CASE BookRefused(r)
  <2>1. flow[r].at = "execute"  BY <1>2, <1>13 DEF BookRefused, InNode
  <2> QED  BY <1>13, <2>1, TrailDoes DEF BookRefused
<1>14. CASE CrashRun(r)
  <2>1. /\ flow[r].at \in {"review", "execute", "executed"} => Holds(log, "assess", input[r].p)
        /\ flow[r].at \in {"execute", "executed"} => Holds(log, "review", input[r].p)
        /\ flow[r].at = "executed" => /\ HasFill(orders, input[r].p)
                                      /\ Holds(log, "execute", input[r].p)
    BY <1>2 DEF Reached
  <2> QED  BY <1>14, <2>1, TrailReturns DEF CrashRun
<1> QED
  BY <1>3, <1>4, <1>5, <1>6, <1>7, <1>8, <1>9, <1>10, <1>11, <1>12, <1>13, <1>14 DEF RunStep

LEMMA TrailInitial == PaperInit => TrailInv
<1> SUFFICES ASSUME PaperInit PROVE TrailInv
  OBVIOUS
<1>1. Start.at = "validate" /\ Start.step = "begin"  BY DEF Start
<1>2. log = <<>> /\ \A r \in Runs : flow[r] = Start  BY DEF PaperInit
<1>3. \A r \in Runs : /\ Reached(flow[r], input[r].p, log, orders)
                      /\ InNode(flow[r], input[r].p, log, orders)
  BY <1>1, <1>2 DEF Reached, InNode
<1>4. DOMAIN log = {}  BY <1>2
<1>5. LogOrdered(log) /\ OnceIfChained(log)  BY <1>4 DEF LogOrdered, OnceIfChained
<1> QED  BY <1>3, <1>5 DEF TrailInv

LEMMA TrailInductive ==
  ASSUME PaperInv, TrailInv, [PaperNext]_paperVars
  PROVE  TrailInv'
<1>1. CASE OperatorStep
  <2>1. UNCHANGED <<input, flow, log, orders>>
    BY <1>1 DEF OperatorStep, RegisterPromoted, StageProposal, RecordRisk, RecordReview, ChangeHalts
  <2> QED  BY <2>1 DEF TrailInv
<1>2. CASE UNCHANGED paperVars  BY <1>2 DEF TrailInv, paperVars
<1> QED  BY <1>1, <1>2, TrailRuns DEF PaperNext

----------------------------------------------------------------------------
\* The books.
OrderRow ==
  [p : Proposals, acct : Accounts, run : Runs, buy : BOOLEAN, qty : Nat, price : Nat]
AccountRow == [cash : Nat, qty : Nat, basis : Int, realized : Int]
Of(os, a) == {o \in os : o.acct = a}

CashWeights == [o \in OrderRow |-> CashOf(o)]
UnitWeights == [o \in OrderRow |-> UnitsOf(o)]
ChargeWeights == [o \in OrderRow |-> BuyCharges(o)]

\* The sums of the property are sums of weights.
LEMMA CashIsTotal ==
  ASSUME NEW S \in SUBSET OrderRow
  PROVE  MapThenSumSet(CashOf, S) = Total(CashWeights, S)
<1> DEFINE ByOrder(g) == g = [s \in SUBSET S |-> IF s = {} THEN 0
                                ELSE CashOf(Pick(s)) + g[s \ {Pick(s)}]]
<1>1. ASSUME NEW s \in SUBSET S, s # {} PROVE CashOf(Pick(s)) = CashWeights[Pick(s)]
  BY <1>1, Picked DEF CashWeights
<1>2. ASSUME NEW g PROVE ByOrder(g) <=> IsSum(g, CashWeights, S)
  <2>1. [s \in SUBSET S |-> IF s = {} THEN 0 ELSE CashOf(Pick(s)) + g[s \ {Pick(s)}]]
          = [s \in SUBSET S |-> IF s = {} THEN 0 ELSE CashWeights[Pick(s)] + g[s \ {Pick(s)}]]
    BY <1>1
  <2> QED
    BY <2>1 DEF IsSum
<1>3. (CHOOSE g : ByOrder(g)) = (CHOOSE g : IsSum(g, CashWeights, S))
  <2> HIDE DEF ByOrder
  <2> QED
    BY <1>2
<1>4. Total(CashWeights, S) = (CHOOSE g : IsSum(g, CashWeights, S))[S]
  BY DEF Total, MapThenSumSet, MapThenFoldSet, IsSum, Pick
<1>5. MapThenSumSet(CashOf, S) = (CHOOSE g : ByOrder(g))[S]
  BY DEF MapThenSumSet, MapThenFoldSet, Pick
<1> QED
  BY <1>3, <1>4, <1>5

LEMMA UnitsAreTotal ==
  ASSUME NEW S \in SUBSET OrderRow
  PROVE  MapThenSumSet(UnitsOf, S) = Total(UnitWeights, S)
<1> DEFINE ByOrder(g) == g = [s \in SUBSET S |-> IF s = {} THEN 0
                                ELSE UnitsOf(Pick(s)) + g[s \ {Pick(s)}]]
<1>1. ASSUME NEW s \in SUBSET S, s # {} PROVE UnitsOf(Pick(s)) = UnitWeights[Pick(s)]
  BY <1>1, Picked DEF UnitWeights
<1>2. ASSUME NEW g PROVE ByOrder(g) <=> IsSum(g, UnitWeights, S)
  <2>1. [s \in SUBSET S |-> IF s = {} THEN 0 ELSE UnitsOf(Pick(s)) + g[s \ {Pick(s)}]]
          = [s \in SUBSET S |-> IF s = {} THEN 0 ELSE UnitWeights[Pick(s)] + g[s \ {Pick(s)}]]
    BY <1>1
  <2> QED
    BY <2>1 DEF IsSum
<1>3. (CHOOSE g : ByOrder(g)) = (CHOOSE g : IsSum(g, UnitWeights, S))
  <2> HIDE DEF ByOrder
  <2> QED
    BY <1>2
<1>4. Total(UnitWeights, S) = (CHOOSE g : IsSum(g, UnitWeights, S))[S]
  BY DEF Total, MapThenSumSet, MapThenFoldSet, IsSum, Pick
<1>5. MapThenSumSet(UnitsOf, S) = (CHOOSE g : ByOrder(g))[S]
  BY DEF MapThenSumSet, MapThenFoldSet, Pick
<1> QED
  BY <1>3, <1>4, <1>5

LEMMA ChargesAreTotal ==
  ASSUME NEW S \in SUBSET OrderRow
  PROVE  MapThenSumSet(BuyCharges, S) = Total(ChargeWeights, S)
<1> DEFINE ByOrder(g) == g = [s \in SUBSET S |-> IF s = {} THEN 0
                                ELSE BuyCharges(Pick(s)) + g[s \ {Pick(s)}]]
<1>1. ASSUME NEW s \in SUBSET S, s # {} PROVE BuyCharges(Pick(s)) = ChargeWeights[Pick(s)]
  BY <1>1, Picked DEF ChargeWeights
<1>2. ASSUME NEW g PROVE ByOrder(g) <=> IsSum(g, ChargeWeights, S)
  <2>1. [s \in SUBSET S |-> IF s = {} THEN 0 ELSE BuyCharges(Pick(s)) + g[s \ {Pick(s)}]]
          = [s \in SUBSET S |-> IF s = {} THEN 0 ELSE ChargeWeights[Pick(s)] + g[s \ {Pick(s)}]]
    BY <1>1
  <2> QED
    BY <2>1 DEF IsSum
<1>3. (CHOOSE g : ByOrder(g)) = (CHOOSE g : IsSum(g, ChargeWeights, S))
  <2> HIDE DEF ByOrder
  <2> QED
    BY <1>2
<1>4. Total(ChargeWeights, S) = (CHOOSE g : IsSum(g, ChargeWeights, S))[S]
  BY DEF Total, MapThenSumSet, MapThenFoldSet, IsSum, Pick
<1>5. MapThenSumSet(BuyCharges, S) = (CHOOSE g : ByOrder(g))[S]
  BY DEF MapThenSumSet, MapThenFoldSet, Pick
<1> QED
  BY <1>3, <1>4, <1>5

\* The weights of well-formed orders are integers; products are numbers.
LEMMA Products == \A x, y \in Int : x * y \in Int
OBVIOUS

LEMMA WeightTypes ==
  ASSUME NEW o \in OrderRow
  PROVE  /\ CashWeights[o] = CashOf(o) /\ UnitWeights[o] = UnitsOf(o)
         /\ ChargeWeights[o] = BuyCharges(o)
         /\ CashOf(o) \in Int /\ UnitsOf(o) \in Int /\ BuyCharges(o) \in Int
<1>1. o.qty \in Nat /\ o.price \in Nat /\ Charge \in Nat  BY PaperBookAssumption DEF OrderRow
<1>2. /\ -o.qty * (o.price + Charge) \in Int /\ o.qty * (o.price - Charge) \in Int
      /\ o.qty * Charge \in Int
  BY <1>1, Products
<1> QED  BY <1>1, <1>2 DEF CashWeights, UnitWeights, ChargeWeights, CashOf, UnitsOf, BuyCharges

Balanced(a, acct, os) ==
  /\ acct.cash = Opening[a].cash + Total(CashWeights, Of(os, a))
  /\ acct.qty = Opening[a].qty + Total(UnitWeights, Of(os, a))
  /\ acct.cash + acct.basis + Total(ChargeWeights, Of(os, a))
       = Opening[a].cash + Opening[a].basis + acct.realized

\* An execution holds the account's lock from before its checks to its commit, and
\* what it found the account to afford stays so.
Holding(f) == f.step \in {"locked", "checked"}
Exclusive ==
  \A r, s \in Runs : r # s /\ Holding(flow[r]) /\ Holding(flow[s]) => input[r].acct # input[s].acct
CheckedAffords == \A r \in Runs : flow[r].step = "checked" => Affords(r)

BooksInv ==
  /\ orders \subseteq OrderRow /\ IsFiniteSet(orders)
  /\ account \in [Accounts -> AccountRow]
  /\ Exclusive /\ CheckedAffords
  /\ \A a \in Accounts : Balanced(a, account[a], orders)

LEMMA BooksShown == BooksInv => PaperBooksAgree
<1> SUFFICES ASSUME BooksInv, NEW a \in Accounts
             PROVE  LET of == {o \in orders : o.acct = a} IN
                    /\ account[a].cash = Opening[a].cash + MapThenSumSet(CashOf, of)
                    /\ account[a].qty = Opening[a].qty + MapThenSumSet(UnitsOf, of)
                    /\ account[a].cash + account[a].basis + MapThenSumSet(BuyCharges, of)
                         = Opening[a].cash + Opening[a].basis + account[a].realized
                    /\ account[a].cash >= 0 /\ account[a].qty >= 0
  BY DEF PaperBooksAgree
<1>1. Of(orders, a) \in SUBSET OrderRow  BY DEF BooksInv, Of
<1>2. /\ MapThenSumSet(CashOf, Of(orders, a)) = Total(CashWeights, Of(orders, a))
      /\ MapThenSumSet(UnitsOf, Of(orders, a)) = Total(UnitWeights, Of(orders, a))
      /\ MapThenSumSet(BuyCharges, Of(orders, a)) = Total(ChargeWeights, Of(orders, a))
  BY <1>1, CashIsTotal, UnitsAreTotal, ChargesAreTotal
<1>3. Balanced(a, account[a], orders)  BY DEF BooksInv
<1>4. account[a].cash >= 0 /\ account[a].qty >= 0  BY DEF BooksInv, AccountRow
<1> QED  BY <1>2, <1>3, <1>4 DEF Balanced, Of

\* A step that books nothing: at most the run r comes to hold its account, which
\* nobody held, or finds that it affords its order.
LEMMA BooksStill ==
  ASSUME PaperInv, BooksInv, NEW r \in Runs, NEW g, flow' = [flow EXCEPT ![r] = g],
         UNCHANGED <<input, account, orders>>,
         \/ ~Holding(g)
         \/ Holding(flow[r])
         \/ \A s \in Runs : Holding(flow[s]) => input[s].acct # input[r].acct,
         g.step = "checked" => Affords(r)
  PROVE  BooksInv'
<1>1. \A s \in Runs : flow'[s] = IF s = r THEN g ELSE flow[s]  BY DEF PaperInv, PaperTypeOK
<1>2. Exclusive'
  <2> SUFFICES ASSUME NEW s \in Runs, NEW t \in Runs, s # t, Holding(flow'[s]), Holding(flow'[t])
               PROVE  input[s].acct # input[t].acct
    BY DEF Exclusive, Holding
  <2> QED  BY <1>1 DEF BooksInv, Exclusive
<1>3. CheckedAffords'
  <2> SUFFICES ASSUME NEW s \in Runs, flow'[s].step = "checked" PROVE Affords(s)
    BY DEF CheckedAffords, Affords
  <2> QED  BY <1>1 DEF BooksInv, CheckedAffords
<1> QED  BY <1>2, <1>3 DEF BooksInv

LEMMA BooksDo ==
  ASSUME PaperInv, BooksInv, NEW r \in Runs, NEW step, Do(r, step),
         UNCHANGED <<input, account, orders>>,
         \/ step \notin {"locked", "checked"}
         \/ flow[r].step \in {"locked", "checked"}
         \/ \A s \in Runs : flow[s].step \in {"locked", "checked"} => input[s].acct # input[r].acct,
         step = "checked" => Affords(r)
  PROVE  BooksInv'
<1> DEFINE g == [flow[r] EXCEPT !.step = step, !.tail = 0]
<1>1. flow[r] \in FlowRow  BY DEF PaperInv, PaperTypeOK
<1>2. g.step = step  BY <1>1 DEF FlowRow
<1>3. flow' = [flow EXCEPT ![r] = g]  BY DEF Do
<1> HIDE DEF g
<1> QED  BY <1>2, <1>3, BooksStill DEF Holding

LEMMA BooksReturn ==
  ASSUME PaperInv, BooksInv, NEW r \in Runs, NEW node, Return(r, node),
         UNCHANGED <<input, account, orders>>
  PROVE  BooksInv'
<1> DEFINE g == [Start EXCEPT !.at = node]
<1>1. g.step = "begin"  BY DEF Start
<1>2. flow' = [flow EXCEPT ![r] = g]  BY DEF Return
<1> HIDE DEF g
<1> QED  BY <1>1, <1>2, BooksStill DEF Holding

\* One more order, on its account's side of the books.
LEMMA SumsGrow ==
  ASSUME NEW os \in SUBSET OrderRow, IsFiniteSet(os), NEW z \in OrderRow, z \notin os, NEW a
  PROVE  /\ Total(CashWeights, Of(os, a)) \in Int /\ Total(UnitWeights, Of(os, a)) \in Int
         /\ Total(ChargeWeights, Of(os, a)) \in Int
         /\ z.acct # a => Of(os \cup {z}, a) = Of(os, a)
         /\ z.acct = a =>
              /\ Total(CashWeights, Of(os \cup {z}, a)) = CashOf(z) + Total(CashWeights, Of(os, a))
              /\ Total(UnitWeights, Of(os \cup {z}, a)) = UnitsOf(z) + Total(UnitWeights, Of(os, a))
              /\ Total(ChargeWeights, Of(os \cup {z}, a))
                   = BuyCharges(z) + Total(ChargeWeights, Of(os, a))
<1> DEFINE S == Of(os, a)
<1>1. S \in SUBSET OrderRow /\ IsFiniteSet(S) /\ z \notin S  BY FS_Subset DEF Of
<1>2. z.acct = a => Of(os \cup {z}, a) = S \cup {z}  BY DEF Of
<1>3. z.acct # a => Of(os \cup {z}, a) = S  BY DEF Of
<1> HIDE DEF S
<1>4. \A y \in S \cup {z} : /\ CashWeights[y] \in Int /\ UnitWeights[y] \in Int
                            /\ ChargeWeights[y] \in Int
  BY <1>1, WeightTypes
<1>5. Total(CashWeights, S) \in Int /\ Total(UnitWeights, S) \in Int /\ Total(ChargeWeights, S) \in Int
  BY <1>1, <1>4, TotalInteger
<1>6. Total(CashWeights, S \cup {z}) = CashOf(z) + Total(CashWeights, S)
  BY <1>1, <1>4, TotalWith, WeightTypes
<1>7. Total(UnitWeights, S \cup {z}) = UnitsOf(z) + Total(UnitWeights, S)
  BY <1>1, <1>4, TotalWith, WeightTypes
<1>8. Total(ChargeWeights, S \cup {z}) = BuyCharges(z) + Total(ChargeWeights, S)
  BY <1>1, <1>4, TotalWith, WeightTypes
<1> QED  BY <1>2, <1>3, <1>5, <1>6, <1>7, <1>8 DEF S

\* A purchase moves cash into cost and charges.
LEMMA BuyArithmetic ==
  ASSUME NEW x \in AccountRow, NEW q \in Nat, NEW pr \in Nat, x.cash >= q * (pr + Charge)
  PROVE  LET y == Bought(x, q, pr) IN
         /\ y \in AccountRow
         /\ y.cash = x.cash + (-q * (pr + Charge)) /\ y.qty = x.qty + q
         /\ y.cash + y.basis + q * Charge = x.cash + x.basis /\ y.realized = x.realized
<1> DEFINE y == Bought(x, q, pr)
           cost == q * pr
           fees == q * Charge
<1>1. Charge \in Nat /\ cost \in Nat /\ fees \in Nat  BY PaperBookAssumption
<1>2. q * (pr + Charge) = cost + fees /\ -q * (pr + Charge) = -(cost + fees)
  BY PaperBookAssumption
<1>3. /\ y.cash = x.cash - q * (pr + Charge) /\ y.qty = x.qty + q /\ y.basis = x.basis + cost
      /\ y.realized = x.realized /\ y = [cash |-> y.cash, qty |-> y.qty, basis |-> y.basis,
                                         realized |-> y.realized]
  <2> DEFINE paid == q * (pr + Charge)
  <2>1. y = [x EXCEPT !.cash = @ - paid, !.qty = @ + q, !.basis = @ + cost]  BY DEF Bought
  <2> HIDE DEF y, paid, cost
  <2>2. /\ y.cash = x.cash - paid /\ y.qty = x.qty + q /\ y.basis = x.basis + cost
        /\ y.realized = x.realized /\ y = [cash |-> y.cash, qty |-> y.qty, basis |-> y.basis,
                                           realized |-> y.realized]
    BY <2>1 DEF AccountRow
  <2> QED  BY <2>2 DEF paid
<1>4. x.cash \in Nat /\ x.qty \in Nat /\ x.basis \in Int /\ x.realized \in Int  BY DEF AccountRow
<1> HIDE DEF y, cost, fees
<1>5. y.cash = x.cash - (cost + fees) /\ y.cash \in Nat  BY <1>1, <1>2, <1>3, <1>4
<1>6. y.cash = x.cash + (-q * (pr + Charge))  BY <1>1, <1>2, <1>4, <1>5
<1>7. y.cash + y.basis + fees = x.cash + x.basis  BY <1>1, <1>3, <1>4, <1>5
<1>8. y \in AccountRow  BY <1>1, <1>3, <1>4, <1>5 DEF AccountRow
<1> QED  BY <1>3, <1>6, <1>7, <1>8 DEF y, fees

\* A sale turns cost into cash and the difference, less the charges, into result.
LEMMA SellArithmetic ==
  ASSUME NEW x \in AccountRow, NEW q \in Nat, NEW pr \in Nat, q > 0, x.qty >= q,
         Sold(x, q, pr).cash >= 0
  PROVE  LET y == Sold(x, q, pr) IN
         /\ y \in AccountRow
         /\ y.cash = x.cash + q * (pr - Charge) /\ y.qty = x.qty + (-q)
         /\ y.cash + y.basis = x.cash + x.basis + (y.realized - x.realized)
<1> DEFINE y == Sold(x, q, pr)
           average == x.basis \div x.qty
           gain == q * (pr - Charge)
           cost == q * average
<1>1. Charge \in Nat /\ x.cash \in Nat /\ x.qty \in Nat /\ x.qty > 0 /\ x.basis \in Int
      /\ x.realized \in Int
  BY PaperBookAssumption DEF AccountRow
<1>2. average \in Int  BY <1>1
<1>3. /\ y.cash = x.cash + gain /\ y.qty = x.qty - q /\ y.basis = x.basis - cost
      /\ y.realized = x.realized + q * (pr - average - Charge)
      /\ y = [cash |-> y.cash, qty |-> y.qty, basis |-> y.basis, realized |-> y.realized]
  <2> DEFINE result == q * (pr - average - Charge)
  <2>1. y = [x EXCEPT !.cash = @ + gain, !.qty = @ - q, !.basis = @ - cost,
                      !.realized = @ + result]
    BY DEF Sold
  <2> HIDE DEF y, gain, cost, result
  <2>2. /\ y.cash = x.cash + gain /\ y.qty = x.qty - q /\ y.basis = x.basis - cost
        /\ y.realized = x.realized + result
        /\ y = [cash |-> y.cash, qty |-> y.qty, basis |-> y.basis, realized |-> y.realized]
    BY <2>1 DEF AccountRow
  <2> QED  BY <2>2 DEF result
<1> HIDE DEF average, y
<1>4. gain \in Int /\ cost \in Int  BY <1>1, <1>2, Products
<1>5. q * (pr - average - Charge) = gain - cost  BY <1>1, <1>2
<1> HIDE DEF gain, cost
<1>6. y.cash \in Nat /\ y.qty \in Nat /\ y.basis \in Int /\ y.realized \in Int
  BY <1>1, <1>3, <1>4, <1>5 DEF y
<1>7. y.cash + y.basis = x.cash + x.basis + (y.realized - x.realized)
  BY <1>1, <1>3, <1>4, <1>5
<1>8. y \in AccountRow  BY <1>3, <1>6 DEF AccountRow
<1>9. y.qty = x.qty + (-q)  BY <1>1, <1>3
<1> QED  BY <1>3, <1>7, <1>8, <1>9 DEF y, gain

\* The commit: nobody else holds the account, so what was affordable still is.
LEMMA BooksBook ==
  ASSUME PaperInv, BooksInv, NEW r \in Runs, BookOrder(r)
  PROVE  BooksInv'
<1> DEFINE in == input[r]
           z == [p |-> in.p, acct |-> in.acct, run |-> r, buy |-> in.buy, qty |-> in.qty,
                 price |-> in.price]
           x == account[in.acct]
           y == AccountAfter(r)
           g == [flow[r] EXCEPT !.step = "filled", !.tail = 0]
<1>1. in \in [p : Proposals, acct : Accounts, buy : BOOLEAN, qty : Nat, price : Nat]
  BY PaperBookAssumption DEF PaperInv, PaperTypeOK
<1>2. /\ orders' = orders \cup {z} /\ account' = [account EXCEPT ![in.acct] = y]
      /\ flow' = [flow EXCEPT ![r] = g] /\ input' = input /\ flow[r].step = "checked"
      /\ ~Filled(in.p) /\ y.cash >= 0
  BY DEF BookOrder, Do, Accepted, ClientIdFree
<1>3. z \in OrderRow /\ z.acct = in.acct /\ z.p = in.p /\ z.buy = in.buy /\ z.qty = in.qty
      /\ z.price = in.price
  BY <1>1 DEF OrderRow
<1>4. y = IF in.buy THEN Bought(x, in.qty, in.price) ELSE Sold(x, in.qty, in.price)
  BY DEF AccountAfter
<1>5. Affords(r) /\ in.qty > 0
  BY <1>2 DEF BooksInv, CheckedAffords, PaperInv, CheckedIsCleared, Cleared
<1>6. in.acct \in Accounts /\ x \in AccountRow /\ in.qty \in Nat /\ in.price \in Nat
      /\ in.buy \in BOOLEAN /\ Charge \in Nat
  BY <1>1, PaperBookAssumption DEF BooksInv
<1>7. flow[r] \in FlowRow  BY DEF PaperInv, PaperTypeOK
<1>8. g.step = "filled"  BY <1>7 DEF FlowRow
<1>9. z \notin orders  BY <1>2, <1>3 DEF Filled
<1>10. IF in.buy THEN x.cash >= in.qty * (in.price + Charge) ELSE x.qty >= in.qty
  BY <1>5 DEF Affords
<1> HIDE DEF in, z, x, y, g
<1>11. y \in AccountRow /\ Balanced(in.acct, y, orders \cup {z})
  <2>1. Balanced(in.acct, x, orders)  BY <1>6 DEF BooksInv, x
  <2>2. orders \in SUBSET OrderRow /\ IsFiniteSet(orders)  BY DEF BooksInv
  <2> DEFINE cash == Total(CashWeights, Of(orders, in.acct))
             units == Total(UnitWeights, Of(orders, in.acct))
             fees == Total(ChargeWeights, Of(orders, in.acct))
  <2>3. /\ cash \in Int /\ units \in Int /\ fees \in Int
        /\ Total(CashWeights, Of(orders \cup {z}, in.acct)) = CashOf(z) + cash
        /\ Total(UnitWeights, Of(orders \cup {z}, in.acct)) = UnitsOf(z) + units
        /\ Total(ChargeWeights, Of(orders \cup {z}, in.acct)) = BuyCharges(z) + fees
    BY <1>3, <1>9, <2>2, SumsGrow
  <2> HIDE DEF cash, units, fees
  <2>4. /\ x.cash = Opening[in.acct].cash + cash /\ x.qty = Opening[in.acct].qty + units
        /\ x.cash + x.basis + fees = Opening[in.acct].cash + Opening[in.acct].basis + x.realized
    BY <2>1 DEF Balanced, cash, units, fees
  <2>5. /\ Opening[in.acct].cash \in Nat /\ Opening[in.acct].qty \in Nat
        /\ Opening[in.acct].basis \in Nat
    BY <1>6, PaperBookAssumption
  <2>6. CashOf(z) \in Int /\ UnitsOf(z) \in Int /\ BuyCharges(z) \in Int  BY <1>3, WeightTypes
  <2>7. /\ y \in AccountRow /\ y.cash = x.cash + CashOf(z) /\ y.qty = x.qty + UnitsOf(z)
        /\ y.cash + y.basis + BuyCharges(z) = x.cash + x.basis + (y.realized - x.realized)
    <3>1. CASE in.buy
      <4>1. y = Bought(x, in.qty, in.price)  BY <1>4, <3>1
      <4>2. /\ CashOf(z) = -in.qty * (in.price + Charge) /\ UnitsOf(z) = in.qty
            /\ BuyCharges(z) = in.qty * Charge
        BY <1>3, <3>1 DEF CashOf, UnitsOf, BuyCharges
      <4>3. x.cash >= in.qty * (in.price + Charge)  BY <1>10, <3>1
      <4>4. /\ y \in AccountRow
            /\ y.cash = x.cash + CashOf(z) /\ y.qty = x.qty + UnitsOf(z)
            /\ y.cash + y.basis + BuyCharges(z) = x.cash + x.basis /\ y.realized = x.realized
        BY <1>6, <4>1, <4>2, <4>3, BuyArithmetic
      <4>5. x.cash + x.basis = x.cash + x.basis + (y.realized - x.realized)
        BY <1>6, <4>4 DEF AccountRow
      <4> QED  BY <4>4, <4>5
    <3>2. CASE ~in.buy
      <4>1. y = Sold(x, in.qty, in.price)  BY <1>4, <3>2
      <4>2. /\ CashOf(z) = in.qty * (in.price - Charge) /\ UnitsOf(z) = -in.qty
            /\ BuyCharges(z) = 0
        BY <1>3, <3>2 DEF CashOf, UnitsOf, BuyCharges
      <4>3. x.qty >= in.qty  BY <1>10, <3>2
      <4>4. /\ y \in AccountRow
            /\ y.cash = x.cash + CashOf(z) /\ y.qty = x.qty + UnitsOf(z)
            /\ y.cash + y.basis = x.cash + x.basis + (y.realized - x.realized)
        BY <1>2, <1>5, <1>6, <4>1, <4>2, <4>3, SellArithmetic
      <4>5. y.cash + y.basis + 0 = y.cash + y.basis  BY <4>4 DEF AccountRow
      <4> QED  BY <4>2, <4>4, <4>5
    <3> QED  BY <3>1, <3>2
  <2>8. /\ y.cash \in Int /\ y.qty \in Int /\ y.basis \in Int /\ y.realized \in Int
        /\ x.cash \in Int /\ x.qty \in Int /\ x.basis \in Int /\ x.realized \in Int
    BY <1>6, <2>7 DEF AccountRow
  <2>9. y.cash = Opening[in.acct].cash + (CashOf(z) + cash)  BY <2>3, <2>4, <2>5, <2>6, <2>7
  <2>10. y.qty = Opening[in.acct].qty + (UnitsOf(z) + units)  BY <2>3, <2>4, <2>5, <2>6, <2>7
  <2>11. y.cash + y.basis + (BuyCharges(z) + fees)
           = Opening[in.acct].cash + Opening[in.acct].basis + y.realized
    <3> DEFINE b == BuyCharges(z)
               c == Opening[in.acct].cash + Opening[in.acct].basis
               e == x.cash + x.basis
               h == y.cash + y.basis
    <3>1. /\ h + b = e + (y.realized - x.realized) /\ e + fees = c + x.realized
          /\ h \in Int /\ b \in Int /\ e \in Int /\ c \in Int /\ fees \in Int
      BY <2>3, <2>4, <2>5, <2>6, <2>7, <2>8
    <3> HIDE DEF b, c, e, h
    <3>2. h + (b + fees) = c + y.realized  BY <2>8, <3>1
    <3> QED  BY <3>2 DEF b, c, h
  <2> QED  BY <2>3, <2>7, <2>9, <2>10, <2>11 DEF Balanced
<1>12. \A a \in Accounts : account'[a] = IF a = in.acct THEN y ELSE account[a]
  BY <1>2, <1>6 DEF BooksInv
<1>13. account' \in [Accounts -> AccountRow]  BY <1>2, <1>11 DEF BooksInv
<1>14. orders' \subseteq OrderRow /\ IsFiniteSet(orders')
  BY <1>2, <1>3, FS_AddElement DEF BooksInv
<1>15. \A a \in Accounts : Balanced(a, account'[a], orders')
  <2> SUFFICES ASSUME NEW a \in Accounts, a # in.acct PROVE Balanced(a, account[a], orders')
    BY <1>2, <1>11, <1>12
  <2>1. Of(orders', a) = Of(orders, a)  BY <1>2, <1>3 DEF Of
  <2>2. Balanced(a, account[a], orders)  BY DEF BooksInv
  <2> QED  BY <2>1, <2>2 DEF Balanced
<1>16. \A s \in Runs : flow'[s] = IF s = r THEN g ELSE flow[s]
  BY <1>2 DEF PaperInv, PaperTypeOK
<1>17. Exclusive'
  <2> SUFFICES ASSUME NEW s \in Runs, NEW t \in Runs, s # t, Holding(flow'[s]), Holding(flow'[t])
               PROVE  input[s].acct # input[t].acct
    BY <1>2 DEF Exclusive, Holding
  <2> QED  BY <1>8, <1>16 DEF BooksInv, Exclusive, Holding
<1>18. CheckedAffords'
  <2> SUFFICES ASSUME NEW s \in Runs, flow'[s].step = "checked" PROVE Affords(s)'
    BY DEF CheckedAffords
  <2>1. s # r /\ flow[s].step = "checked"  BY <1>8, <1>16
  <2>2. input[s].acct # in.acct
    BY <1>2, <2>1 DEF BooksInv, Exclusive, Holding, in
  <2>3. input[s].acct \in Accounts  BY InputTypes DEF PaperInv, PaperTypeOK
  <2>4. account'[input[s].acct] = account[input[s].acct]  BY <1>12, <2>2, <2>3
  <2>5. Affords(s)  BY <2>1 DEF BooksInv, CheckedAffords
  <2> QED  BY <1>2, <2>4, <2>5 DEF Affords
<1> QED  BY <1>13, <1>14, <1>15, <1>17, <1>18 DEF BooksInv

LEMMA BooksRuns ==
  ASSUME PaperInv, BooksInv, NEW r \in Runs, RunStep(r)
  PROVE  BooksInv'
<1>1. flow[r] \in FlowRow  BY DEF PaperInv, PaperTypeOK
<1>2. CASE Validate(r) \/ ResumeBadly(r) \/ CrashRun(r)
  BY <1>2, BooksReturn DEF Validate, ResumeBadly, CrashRun
<1>3. CASE NodeReturns(r)
  <2>1. \E node : Return(r, node)  BY <1>3 DEF NodeReturns
  <2> QED  BY <1>3, <2>1, BooksReturn DEF NodeReturns
<1>4. CASE Look(r)
  <2> DEFINE g == [flow[r] EXCEPT !.step = "looked", !.tail = Len(log)]
  <2>1. g.step = "looked"  BY <1>1 DEF FlowRow
  <2>2. Do(r, "logged") \/ flow' = [flow EXCEPT ![r] = g]  BY <1>4 DEF Look, LookUp
  <2> HIDE DEF g
  <2> QED  BY <1>4, <2>1, <2>2, BooksDo, BooksStill DEF Look, Holding
<1>5. CASE Write(r)  BY <1>5, BooksDo DEF Write
<1>6. ASSUME NEW yes \in BOOLEAN, Resume(r, yes)  PROVE BooksInv'
  <2> DEFINE seen == Logged(Key(r))
             n == Len(log)
             g == [flow[r] EXCEPT !.yes = yes, !.step = IF seen THEN "logged" ELSE "looked",
                                  !.tail = IF seen THEN @ ELSE n]
  <2>1. flow' = [flow EXCEPT ![r] = g]  BY <1>6 DEF Resume
  <2> HIDE DEF seen, n
  <2>2. g.step \in {"logged", "looked"}  BY <1>1 DEF FlowRow
  <2> HIDE DEF g
  <2> QED  BY <1>6, <2>1, <2>2, BooksStill DEF Resume, Holding
<1>7. CASE FillFor(r)
  <2>1. Do(r, "filled") \/ Do(r, "calling")  BY <1>7 DEF FillFor
  <2> QED  BY <1>7, <2>1, BooksDo DEF FillFor
<1>8. CASE LockAccount(r)
  <2>1. Do(r, "filled") \/ Do(r, "locked")  BY <1>8 DEF LockAccount
  <2> QED  BY <1>8, <2>1, BooksDo DEF LockAccount
<1>9. CASE CheckOrder(r)
  <2>1. Do(r, "begin") \/ (Do(r, "checked") /\ Affords(r))  BY <1>9 DEF CheckOrder
  <2> QED  BY <1>9, <2>1, BooksDo DEF CheckOrder
<1>10. CASE BookOrder(r)  BY <1>10, BooksBook
<1>11. CASE BookRefused(r)  BY <1>11, BooksDo DEF BookRefused
<1> QED
  BY <1>2, <1>3, <1>4, <1>5, <1>6, <1>7, <1>8, <1>9, <1>10, <1>11 DEF RunStep

LEMMA BooksInitial == PaperInit => BooksInv
<1> SUFFICES ASSUME PaperInit PROVE BooksInv
  OBVIOUS
<1>1. orders = {} /\ account = Opening /\ \A r \in Runs : flow[r].step = "begin"
  BY DEF PaperInit, Start
<1>2. account \in [Accounts -> AccountRow]  BY <1>1, PaperBookAssumption DEF AccountRow
<1>3. ASSUME NEW a \in Accounts PROVE Balanced(a, account[a], orders)
  <2>1. Of(orders, a) = {}  BY <1>1 DEF Of
  <2>2. /\ Total(CashWeights, {}) = 0 /\ Total(UnitWeights, {}) = 0 /\ Total(ChargeWeights, {}) = 0
    BY TotalEmpty
  <2>3. /\ Opening[a].cash \in Nat /\ Opening[a].qty \in Nat /\ Opening[a].basis \in Nat
        /\ Opening[a].realized = 0
    BY PaperBookAssumption
  <2> QED  BY <1>1, <2>1, <2>2, <2>3 DEF Balanced
<1>4. orders \subseteq OrderRow /\ IsFiniteSet(orders)  BY <1>1, FS_EmptySet
<1>5. Exclusive /\ CheckedAffords  BY <1>1 DEF Exclusive, Holding, CheckedAffords
<1> QED  BY <1>2, <1>3, <1>4, <1>5 DEF BooksInv

LEMMA BooksInductive ==
  ASSUME PaperInv, BooksInv, [PaperNext]_paperVars
  PROVE  BooksInv'
<1>1. CASE OperatorStep
  <2>1. UNCHANGED <<input, flow, account, orders>>
    BY <1>1 DEF OperatorStep, RegisterPromoted, StageProposal, RecordRisk, RecordReview, ChangeHalts
  <2> QED  BY <2>1 DEF BooksInv, Exclusive, CheckedAffords, Affords
<1>2. CASE UNCHANGED paperVars
  BY <1>2 DEF BooksInv, Exclusive, CheckedAffords, Affords, paperVars
<1> QED  BY <1>1, <1>2, BooksRuns DEF PaperNext

----------------------------------------------------------------------------
\* The ledger's money and the log's story agree, whoever crashed: cash, units and
\* cost are what the fills make of the opening, and a run that reports an execution
\* has its assessment, its answer and its fill on record, in this order.
THEOREM PaperRecordsStand == PaperSpec => []PaperRecordsAgree
<1> DEFINE Inv == PaperInv /\ TrailInv /\ BooksInv
<1>1. PaperInit => Inv  BY PaperInitial, TrailInitial, BooksInitial
<1>2. Inv /\ [PaperNext]_paperVars => Inv'  BY PaperInductive, TrailInductive, BooksInductive
<1>3. Inv => PaperRecordsAgree  BY TrailShown, BooksShown DEF PaperInv, PaperRecordsAgree
<1> QED  BY <1>1, <1>2, <1>3, PTL DEF PaperSpec
=============================================================================
