------------------------------ MODULE PaperBook ------------------------------
(***************************************************************************)
(* The paper ledger (PostgreSQL), the approval workflow that drives it (a  *)
(* LangGraph graph, resumed from its last checkpoint after a crash) and    *)
(* the audit log both leave behind (a hash-chained file).                  *)
(*                                                                         *)
(* An operator stages proposals and records risk decisions and reviews in  *)
(* the ledger; runs of the graph validate, assess, wait for a human and    *)
(* execute.  A run belongs to one proposal and one account, but nothing    *)
(* stops two runs from carrying the same proposal.  A node is checkpointed *)
(* when it returns: what a run does inside a node is lost with its         *)
(* process, what it wrote to the ledger or the log is not.                 *)
(***************************************************************************)
EXTENDS Integers, Sequences, FiniteSetsExt

CONSTANTS
  Runs, Proposals, Accounts,
  RunInputs,    \* possible assignments of inputs to runs
  Opening,      \* what each account holds at first
  HaltScopes,   \* scopes an operator halts
  RiskSizes,    \* quantities a recorded risk decision may name, 0 rejecting
  Charge        \* fees and taxes on a unit

Everywhere == "global"

ASSUME PaperBookAssumption ==
  /\ IsFiniteSet(Runs) /\ Charge \in Nat /\ RiskSizes \subseteq Nat
  /\ HaltScopes \subseteq Accounts \cup {Everywhere}
  /\ RunInputs \subseteq [Runs -> [p : Proposals, acct : Accounts, buy : BOOLEAN,
                                   qty : Nat, price : Nat]]
  /\ Opening \in [Accounts -> [cash : Nat, qty : Nat, basis : Nat, realized : {0}]]

VARIABLES
  input,      \* graph_input of each run: its proposal, account, quote and size
  promoted,   \* the strategy is registered in the ledger as promoted
  proposal,   \* trade_proposals, risk_decisions, human_reviews
  haltsOn,    \* scopes of the active system_halts
  account,    \* paper_accounts and paper_positions
  orders,     \* broker_orders, each with its fill
  flow,       \* each run: its checkpoint, and what its process is doing
  log         \* the audit file: event key, and the event (by place) it names as previous

paperVars == <<input, promoted, proposal, haltsOn, account, orders, flow, log>>

NoRisk == -1
Start == [at |-> "validate", step |-> "begin", tail |-> 0, yes |-> FALSE]
Unstaged == [status |-> "absent", risk |-> NoRisk, review |-> "none"]

PaperInit ==
  /\ input \in RunInputs
  /\ promoted = FALSE /\ haltsOn = {} /\ orders = {} /\ log = <<>>
  /\ proposal = [p \in Proposals |-> Unstaged]
  /\ account = Opening
  /\ flow = [r \in Runs |-> Start]

Used == {input[r].p : r \in Runs}
Filled(p) == \E o \in orders : o.p = p

----------------------------------------------------------------------------
(* The operator's side of the ledger: each call is one transaction.        *)

RegisterPromoted ==
  /\ ~promoted /\ promoted' = TRUE
  /\ UNCHANGED <<input, proposal, haltsOn, account, orders, flow, log>>

StageProposal(p) ==
  /\ promoted /\ proposal[p].status = "absent"
  /\ proposal' = [proposal EXCEPT ![p].status = "received"]
  /\ UNCHANGED <<input, promoted, haltsOn, account, orders, flow, log>>

\* The first decision is kept, and only a proposal just received moves.  A
\* quantity of zero stands for a rejection.
RecordRisk(p, qty) ==
  /\ proposal[p].status # "absent"
  /\ proposal' = [proposal EXCEPT
       ![p].risk = IF @ = NoRisk THEN qty ELSE @,
       ![p].status = IF @ # "received" THEN @
                     ELSE IF qty > 0 THEN "awaiting_human" ELSE "risk_rejected"]
  /\ UNCHANGED <<input, promoted, haltsOn, account, orders, flow, log>>

\* The first review is kept, but the answer given now is what moves the status.
RecordReview(p, yes) ==
  /\ proposal[p].status # "absent"
  /\ proposal' = [proposal EXCEPT
       ![p].review = IF @ # "none" THEN @ ELSE IF yes THEN "approved" ELSE "refused",
       ![p].status = IF @ # "awaiting_human" THEN @ ELSE IF yes THEN "approved" ELSE "expired"]
  /\ UNCHANGED <<input, promoted, haltsOn, account, orders, flow, log>>

\* A writer of system_halts waits for every SHARE lock an execution holds.
HaltsShared == \E r \in Runs : flow[r].step = "checked"
ChangeHaltsUnlocked(scopes) ==   \* mutant: an execution does not hold halts off
  /\ haltsOn' = scopes /\ haltsOn' # haltsOn
  /\ UNCHANGED <<input, promoted, proposal, account, orders, flow, log>>
ChangeHalts(scopes) ==
  /\ ~HaltsShared
  /\ haltsOn' = scopes /\ haltsOn' # haltsOn
  /\ UNCHANGED <<input, promoted, proposal, account, orders, flow, log>>

----------------------------------------------------------------------------
(* The graph.  Do moves what a process holds in memory; Return checkpoints *)
(* the node and goes on to the next.                                       *)

Do(r, step) == flow' = [flow EXCEPT ![r].step = step, ![r].tail = 0]
Return(r, node) == flow' = [flow EXCEPT ![r] = [Start EXCEPT !.at = node]]

\* Rejects a strategy the catalog does not list, and a quote that is stale, of
\* another instrument or older than the signal.
Validate(r) ==
  /\ flow[r].at = "validate"
  /\ Return(r, "assess") \/ Return(r, "reject")
  /\ UNCHANGED <<input, promoted, proposal, haltsOn, account, orders, log>>

\* append_once: look for the key and read the last hash, then append.
Logged(key) == \E i \in DOMAIN log : log[i].key = key
Key(r) == <<flow[r].at, input[r].p>>
LookUpAlways(r) ==   \* mutant: append() where append_once() is meant
  flow' = [flow EXCEPT ![r].step = "looked", ![r].tail = Len(log)]
LookUp(r) ==
  IF Logged(Key(r)) THEN Do(r, "logged")
  ELSE flow' = [flow EXCEPT ![r].step = "looked", ![r].tail = Len(log)]

\* Fills are logged after they are booked, the other nodes' events at once.
Look(r) ==
  /\ flow[r].at \in {"assess", "execute", "reject"}
  /\ flow[r].step = IF flow[r].at = "execute" THEN "filled" ELSE "begin"
  /\ LookUp(r)
  /\ UNCHANGED <<input, promoted, proposal, haltsOn, account, orders, log>>

Write(r) ==
  /\ flow[r].step = "looked"
  /\ log' = Append(log, [key |-> Key(r), prev |-> flow[r].tail])
  /\ Do(r, "logged")
  /\ UNCHANGED <<input, promoted, proposal, haltsOn, account, orders>>

\* human_review is resumed with an answer; one that is not an answer rejects.
Resume(r, yes) ==
  /\ flow[r].at = "review" /\ flow[r].step = "begin"
  /\ flow' = [flow EXCEPT ![r].yes = yes,
                          ![r].step = IF Logged(Key(r)) THEN "logged" ELSE "looked",
                          ![r].tail = IF Logged(Key(r)) THEN @ ELSE Len(log)]
  /\ UNCHANGED <<input, promoted, proposal, haltsOn, account, orders, log>>

ResumeBadly(r) ==
  /\ flow[r].at = "review" /\ flow[r].step = "begin"
  /\ Return(r, "reject")
  /\ UNCHANGED <<input, promoted, proposal, haltsOn, account, orders, log>>

NodeReturns(r) ==
  /\ flow[r].step = "logged"
  /\ Return(r, CASE flow[r].at = "assess" -> IF input[r].qty > 0 THEN "review" ELSE "reject"
                 [] flow[r].at = "review" -> IF flow[r].yes THEN "execute" ELSE "reject"
                 [] flow[r].at = "execute" -> "executed"
                 [] OTHER -> "rejected")
  /\ UNCHANGED <<input, promoted, proposal, haltsOn, account, orders, log>>

----------------------------------------------------------------------------
(* execute_paper: what an earlier attempt booked is returned; otherwise    *)
(* one transaction under the account's advisory lock.                      *)

FillFor(r) ==
  /\ flow[r].at = "execute" /\ flow[r].step = "begin"
  /\ Do(r, IF Filled(input[r].p) THEN "filled" ELSE "calling")
  /\ UNCHANGED <<input, promoted, proposal, haltsOn, account, orders, log>>

LockAccount(r) ==
  /\ flow[r].step = "calling"
  /\ \A s \in Runs : flow[s].step \in {"locked", "checked"} => input[s].acct # input[r].acct
  /\ Do(r, IF Filled(input[r].p) THEN "filled" ELSE "locked")
  /\ UNCHANGED <<input, promoted, proposal, haltsOn, account, orders, log>>

\* The joins of trade_proposals, human_reviews, risk_decisions and promotions.
ApprovedByStatus(r) ==   \* mutant: the status alone is believed
  proposal[input[r].p].status = "approved" /\ input[r].qty > 0
ApprovedAnySize(r) ==   \* mutant: a risk decision of another quantity will do
  LET row == proposal[input[r].p] IN
  row.status = "approved" /\ row.review = "approved" /\ row.risk > 0 /\ input[r].qty > 0
Approved(r) ==
  LET row == proposal[input[r].p] IN
  /\ row.status = "approved" /\ row.review = "approved"
  /\ row.risk = input[r].qty /\ input[r].qty > 0

Affords(r) ==
  LET in == input[r]  acct == account[in.acct] IN
  IF in.buy THEN acct.cash >= in.qty * (in.price + Charge) ELSE acct.qty >= in.qty

\* With the halts shared until commit; the order's client id is the proposal's.
CheckOrder(r) ==
  /\ flow[r].step = "locked"
  /\ Do(r, IF haltsOn \cap {Everywhere, input[r].acct} = {} /\ Approved(r) /\ Affords(r)
           THEN "checked" ELSE "begin")
  /\ UNCHANGED <<input, promoted, proposal, haltsOn, account, orders, log>>

Bought(a, qty, price) ==
  [a EXCEPT !.cash = @ - qty * (price + Charge), !.qty = @ + qty, !.basis = @ + qty * price]
SoldAtCost(a, qty, price) ==   \* mutant: the charges stay out of the realized result
  LET average == a.basis \div a.qty IN
  [a EXCEPT !.cash = @ + qty * (price - Charge), !.qty = @ - qty, !.basis = @ - qty * average,
            !.realized = @ + qty * (price - average)]
Sold(a, qty, price) ==
  LET average == a.basis \div a.qty IN
  [a EXCEPT !.cash = @ + qty * (price - Charge), !.qty = @ - qty, !.basis = @ - qty * average,
            !.realized = @ + qty * (price - average - Charge)]

ClientIdFreeAlways(p) == TRUE   \* mutant: no UNIQUE on client_order_id
ClientIdFree(p) == ~Filled(p)

\* What the order leaves in its account; a CHECK refuses a balance below zero,
\* as the charges on a sale could make it.
AccountAfter(r) ==
  LET in == input[r] IN
  IF in.buy THEN Bought(account[in.acct], in.qty, in.price)
            ELSE Sold(account[in.acct], in.qty, in.price)
Accepted(r) == ClientIdFree(input[r].p) /\ AccountAfter(r).cash >= 0

BookOrder(r) ==
  LET in == input[r] IN
  /\ flow[r].step = "checked" /\ Accepted(r)
  /\ orders' = orders \cup {[p |-> in.p, acct |-> in.acct, run |-> r, buy |-> in.buy,
                             qty |-> in.qty, price |-> in.price]}
  /\ account' = [account EXCEPT ![in.acct] = AccountAfter(r)]
  /\ proposal' = [proposal EXCEPT ![in.p].status = "submitted"]
  /\ Do(r, "filled")
  /\ UNCHANGED <<input, promoted, haltsOn, log>>

BookRefused(r) ==   \* a constraint rolls the transaction back
  /\ flow[r].step = "checked" /\ ~Accepted(r)
  /\ Do(r, "begin")
  /\ UNCHANGED <<input, promoted, proposal, haltsOn, account, orders, log>>

\* A process dies inside a node; its transaction and locks go with it.
CrashRun(r) ==
  /\ flow[r].step # "begin" /\ Return(r, flow[r].at)
  /\ UNCHANGED <<input, promoted, proposal, haltsOn, account, orders, log>>

OperatorStep ==
  \/ RegisterPromoted
  \/ \E p \in Used : StageProposal(p)
  \/ \E p \in Used, q \in RiskSizes : RecordRisk(p, q)
  \/ \E p \in Used, yes \in BOOLEAN : RecordReview(p, yes)
  \/ \E s \in HaltScopes : ChangeHalts(haltsOn \cup {s}) \/ ChangeHalts(haltsOn \ {s})

RunStep(r) ==
  \/ Validate(r) \/ Look(r) \/ Write(r) \/ NodeReturns(r)
  \/ \E yes \in BOOLEAN : Resume(r, yes)
  \/ ResumeBadly(r)
  \/ FillFor(r) \/ LockAccount(r) \/ CheckOrder(r) \/ BookOrder(r) \/ BookRefused(r)
  \/ CrashRun(r)

PaperNext == OperatorStep \/ \E r \in Runs : RunStep(r)

PaperSpec == PaperInit /\ [][PaperNext]_paperVars

----------------------------------------------------------------------------
Nodes == {"validate", "assess", "review", "execute", "reject", "executed", "rejected"}
Steps == {"begin", "looked", "logged", "calling", "locked", "checked", "filled"}
FlowRow == [at : Nodes, step : Steps, tail : Nat, yes : BOOLEAN]
ProposalRow ==
  [status : {"absent", "received", "awaiting_human", "risk_rejected", "approved", "expired",
             "submitted"},
   risk : RiskSizes \cup {NoRisk}, review : {"none", "approved", "refused"}]

PaperTypeOK ==
  /\ input \in RunInputs /\ promoted \in BOOLEAN
  /\ proposal \in [Proposals -> ProposalRow]
  /\ haltsOn \subseteq HaltScopes
  /\ flow \in [Runs -> FlowRow]
  /\ log \in Seq([key : Nodes \X Proposals, prev : Nat])

\* A fill commits only for a proposal not filled before, on whichever account and
\* by whichever run; whose first stored review approves it and whose first stored
\* risk decision approves exactly the quantity filled (PAPER_TRADING.md: both must
\* exist); and while no halt is active in its scope, although a halt may be raised
\* between the execution's test and its commit.
FillsAuthorised ==
  [][\A o \in orders' \ orders :
       /\ ~Filled(o.p) /\ \A other \in orders' \ orders : other = o
       /\ proposal[o.p].review = "approved" /\ proposal[o.p].risk = o.qty /\ o.qty > 0
       /\ haltsOn \cap {Everywhere, o.acct} = {}]_paperVars

\* Cash and positions are what the booked fills make of the opening balance,
\* never negative, and cash with the cost of what is held differs from the
\* opening value by the realized result and the charges paid on purchases.
CashOf(o) == IF o.buy THEN -o.qty * (o.price + Charge) ELSE o.qty * (o.price - Charge)
UnitsOf(o) == IF o.buy THEN o.qty ELSE -o.qty
BuyCharges(o) == IF o.buy THEN o.qty * Charge ELSE 0
PaperBooksAgree ==
  \A a \in Accounts :
    LET of == {o \in orders : o.acct = a} IN
    /\ account[a].cash = Opening[a].cash + MapThenSumSet(CashOf, of)
    /\ account[a].qty = Opening[a].qty + MapThenSumSet(UnitsOf, of)
    /\ account[a].cash + account[a].basis + MapThenSumSet(BuyCharges, of)
         = Opening[a].cash + Opening[a].basis + account[a].realized
    /\ account[a].cash >= 0 /\ account[a].qty >= 0

\* The log verifies unless two processes appended over the same last event, and
\* then holds each event once however often a node was retried; every run that
\* reports an execution has its assessment, the human's answer and the fill in
\* the log, in this order, and the ledger has the fill.
Place(node, p) == {i \in DOMAIN log : log[i].key = <<node, p>>}
Chained == \A i \in DOMAIN log : log[i].prev = i - 1
TrailComplete ==
  /\ Chained => \A i, j \in DOMAIN log : log[i].key = log[j].key => i = j
  /\ \A r \in Runs : flow[r].at = "executed" =>
       /\ Filled(input[r].p)
       /\ \E i \in Place("assess", input[r].p), j \in Place("review", input[r].p),
             k \in Place("execute", input[r].p) : i < j /\ j < k

\* The ledger and the log tell one story: of the money and of who allowed it.
PaperRecordsAgree == PaperBooksAgree /\ TrailComplete
=============================================================================
