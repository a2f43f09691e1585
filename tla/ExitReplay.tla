----------------------------- MODULE ExitReplay -----------------------------
(***************************************************************************)
(* A session's evidence and its replays: the tape of quotes, from which    *)
(* walk_exit() makes the exits again, and the events of the ledger, whose  *)
(* entry and accounting replay_fills() checks against the plan.  The tape  *)
(* is one that holds what the monitors saw.                                *)
(***************************************************************************)
EXTENDS OptionTrades, SequencesExt

CONSTANTS
  Ending,      \* 15:15, from which a session is stopping
  TapeLength   \* bound

VARIABLES
  quoteTape, \* market_tape: the quotes of the position's contract, with the spot
  ledger,    \* the paper_entry event and the paper_exit events
  hidden     \* ghost: a sale on a reason or a quote that the evidence leaves out

replayVars == <<tradeVars, quoteTape, ledger, hidden>>

ReplayInit == TradesInit /\ quoteTape = <<>> /\ ledger = <<>> /\ hidden = FALSE

\* The paper_exit events, in their order.
AddExit(exits, e) == IF e.kind = "paper_exit" THEN Append(exits, e) ELSE exits
Exits == FoldLeft(AddExit, <<>>, ledger)
EntryEvent == ledger[1]

\* The first of <<condition, reason>> that holds.
FirstReason(list) ==
  LET holds == {i \in DOMAIN list : list[i][1]}
  IN  IF holds = {} THEN "none" ELSE list[Min(holds)][2]

----------------------------------------------------------------------------
(* The session: the desk's reads of the position's quotes and its exits.   *)

Halted(row, told) ==
  LET sold == purse.cash + Proceeds(SellFill(row.offer.bid), holding.left)
  IN  told \/ SessionLimitReached(sold - Capital)

\* exit_pending, which _close() sets to the reason of a sale that leaves lots.
ExitPending == IF holding.pending THEN Last(ledger).reason ELSE "none"

\* _monitor()'s reason.
DeskReason(row, told) ==
  LET price == SellFill(row.offer.bid) IN
  FirstReason(<<
    <<Halted(row, told) \/ clock >= Ending, "session_stop">>,
    <<ExitPending # "none", ExitPending>>,
    <<price <= holding.stop, "stop_loss">>,
    <<price >= holding.target, "take_profit">>,
    <<Invalidated(row.spot, row.spotAt), "underlying_invalidation">>,
    <<clock >= holding.deadline, "playbook_time_exit">> >>)

Leaving(row, told) == DeskReason(row, told) # "none" /\ SellableAt(row.offer, row.stamp)

SoldOn(row, told) ==
  /\ Leaving(row, told)
  /\ MonitorPosition(row.offer, row.stamp, row.spot, row.spotAt, told \/ clock >= Ending)
  /\ ledger' = Append(ledger,
       [kind |-> "paper_exit", reason |-> DeskReason(row, told), quantity |-> LotsBid(row.offer),
        price |-> SellFill(row.offer.bid), offer |-> row.offer, stamp |-> row.stamp,
        pnl |-> purse'.realized - purse.realized, closed |-> holding' = Nothing])
  /\ hidden' = (hidden \/ Halted(row, told) \/ row.stamp < holding.entered)

\* A monitor's read; told: by a stop, a halt, or the worker's being switched off.
Watch(offer, stamp, spot, spotAt, told) ==
  LET row == [at |-> clock, offer |-> offer, stamp |-> stamp, spot |-> spot, spotAt |-> spotAt]
  IN  /\ holding # Nothing /\ Len(quoteTape) < TapeLength
      /\ quoteTape' = Append(quoteTape, row)
      /\ \/ SoldOn(row, told)
         \/ ~Leaving(row, told) /\ UNCHANGED <<tradeVars, ledger, hidden>>

Bought ==
  /\ EnterTrade
  /\ ledger' = Append(ledger,
       [kind |-> "paper_entry", at |-> clock, plan |-> mind.plan, read |-> mind.with,
        spotAt |-> mind.spotAt, position |-> holding'])
  /\ UNCHANGED <<quoteTape, hidden>>

\* A session of one trade: nothing is chosen once it is made.
ReplayNext ==
  \/ /\ \/ \E chart \in Charts, offered \in [Listed -> Offers] :
             ledger = <<>> /\ ScanChart(chart, clock, Strikes, offered)
        \/ \E offer \in Offers, spot \in Spots :
             mind.step = "asked" /\ \E plan \in mind.plans : Choose(plan, offer, clock, spot, clock)
        \/ Pass
     /\ UNCHANGED <<quoteTape, ledger, hidden>>
  \/ Bought
  \/ \E offer \in Offers, stamp \in clock - QuoteAge .. clock, spot \in Spots,
        spotAt \in clock - SampleLife .. clock, told \in BOOLEAN :
       Watch(offer, stamp, spot, spotAt, told)

ReplaySpec == ReplayInit /\ [][ReplayNext]_replayVars

----------------------------------------------------------------------------
(* walk_exit()                                                             *)

\* quotes(): available from start on, fresh when recorded, and not older than start.
IsQuote(start, row) ==
  row.at >= start /\ row.stamp >= start /\ Within(row.at, row.stamp, QuoteAge)

\* _exit_reason(), of what the walk has come to.
WalkReason(position, walk, row) ==
  LET price == SellFill(row.offer.bid) IN
  FirstReason(<<
    <<row.at >= Ending, "session_stop">>,
    <<walk.pending # "none", walk.pending>>,
    <<price <= position.stop, "stop_loss">>,
    <<price >= position.target, "take_profit">>,
    <<UnderlyingExit(position, row.at, row.spot, row.spotAt), "underlying_invalidation">>,
    <<row.at >= position.deadline, "playbook_time_exit">> >>)

NewQuoteAnyway(walk, row) == TRUE   \* mutant: a quote may fill again
NewQuote(walk, row) == row.stamp # walk.lastStamp

WalkRow(position, walk, row) ==
  LET q == WholeLotsOf(Least(walk.left, row.offer.bidSize), Contracts[position.symbol])
      price == SellFill(row.offer.bid)
      reason == WalkReason(position, walk, row)
  IN  IF /\ IsQuote(position.entered, row)
         /\ walk.left > 0 /\ NewQuote(walk, row) /\ price > 0 /\ reason # "none" /\ q > 0
      THEN [left |-> walk.left - q, pending |-> reason, lastStamp |-> row.stamp,
            fills |-> Append(walk.fills, [reason |-> reason, price |-> price, quantity |-> q,
                                          stamp |-> row.stamp])]
      ELSE walk

WalkExit(position) ==
  FoldLeft(LAMBDA walk, row : WalkRow(position, walk, row),
           [left |-> position.quantity, pending |-> "none", lastStamp |-> NeverLeft, fills |-> <<>>],
           quoteTape)

\* replay_exit_paths(): the position's status.
Recorded == [i \in DOMAIN Exits |-> [reason |-> Exits[i].reason, price |-> Exits[i].price,
                                     quantity |-> Exits[i].quantity, stamp |-> Exits[i].stamp]]
ExitPathStatus ==
  LET walked == WalkExit(EntryEvent.position)
  IN  IF walked.left > 0 THEN "incomplete"
      ELSE IF Exits # <<>> /\ Recorded = walked.fills THEN "match" ELSE "mismatch"

----------------------------------------------------------------------------
(* replay_fills()                                                          *)

\* The plan is let in again with the money of its snapshot, on the quote and spot recorded.
EntryStatus ==
  LET e == EntryEvent
      fill == BuyFill(e.read.offer.ask)
  IN  IF /\ ValidatedAt(e.at, e.plan.seen, e.plan, e.read, e.spotAt)
         /\ e.position.quantity = e.plan.quantity
         /\ e.position.cost = Paid(fill, e.plan.quantity)
         /\ \E l \in ExitLevels(Playbooks[e.plan.playbook], fill, e.plan.quantity) :
              e.position.stop = l.stop /\ e.position.target = l.target
      THEN "match" ELSE "mismatch"

\* An exit against what the ones before it left; costs are times the quantity bought.
AccountExit(bought, book, e) ==
  LET q == e.quantity
      basis == (book.cost * q) \div book.left
      expected == WholeLotsOf(Least(book.left, e.offer.bidSize), Contracts[bought.symbol])
  IN  [left |-> book.left - q, cost |-> book.cost - basis,
       matches |-> /\ book.matches /\ q = expected /\ q > 0
                   /\ e.price = SellFill(e.offer.bid)
                   /\ e.pnl = HalfEven(Proceeds(e.price, q) * bought.quantity - basis, bought.quantity)
                   /\ e.closed = (q = book.left)]

FillsStatus ==
  LET bought == EntryEvent.position
      book == FoldLeft(LAMBDA b, e : AccountExit(bought, b, e),
                       [left |-> bought.quantity, cost |-> bought.cost * bought.quantity,
                        matches |-> TRUE], Exits)
  IN  IF book.matches THEN "match" ELSE "mismatch"

----------------------------------------------------------------------------
\* What the desk did, its own evidence replays: every entry and every sale, in parts or
\* not, is accounted as it was booked, and the tape alone leads to the same exits, unless
\* one came of a halt or the session's limit, or on a quote older than the position, of
\* which the tape says nothing ("with the desk's exit order", walk_exit()).
ReplayAgrees ==
  ledger # <<>> =>
    /\ EntryStatus = "match" /\ FillsStatus = "match"
    /\ ~hidden => /\ WalkExit(EntryEvent.position).fills = Recorded
                  /\ holding = Nothing => ExitPathStatus = "match"
=============================================================================
