---------------------------- MODULE PaperSimulator ----------------------------
(***************************************************************************)
(* The quote-driven paper simulator: orders with a stop, a target and a    *)
(* session end, filled by quotes, in one SQLite row.  Every command is an  *)
(* event with an identity; its caller may repeat it, late or out of order, *)
(* or send another under the same identity.                                *)
(***************************************************************************)
EXTENDS Integers, Sequences, FiniteSetsExt

CONSTANTS
  Requests,         \* what callers may send, each any number of times
  InitialCapital,   \* in units of 1 / FeeScale of a price unit, like all money
  Slippage, SlippageScale,   \* FillRules.slippage_fraction, as a quotient
  Fee, FeeScale,    \* FillRules.fee_fraction
  MaximumQuoteAge

\* What submit() and on_quote() make sure of before a command is an event.
RequestOK(req) ==
  /\ req.kind \in {"submit", "cancel", "end", "quote"} /\ req.at \in Nat
  /\ req.kind = "submit" =>
       /\ req.terms.long \in BOOLEAN /\ req.terms.quantity \in Nat \ {0} /\ req.terms.ends \in Nat
  /\ req.kind = "quote" => req.bid \in Nat /\ req.ask \in Nat

ASSUME SimulatorAssumption ==
  /\ InitialCapital \in Nat /\ Slippage \in Nat /\ Fee \in Nat /\ MaximumQuoteAge \in Nat
  /\ SlippageScale \in Nat \ {0} /\ FeeScale \in Nat \ {0} /\ Slippage < SlippageScale
  /\ \A req \in Requests : RequestOK(req)

VARIABLES book,   \* the state row: cash, realized result, orders, clock
          events  \* the events table: the request of each event id applied

simulatorVars == <<book, events>>

FreshBook == [cash |-> InitialCapital, realized |-> 0, clock |-> 0, orders |-> [o \in {} |-> 0]]
SimulatorInit == book = FreshBook /\ events = {}

----------------------------------------------------------------------------
(* Prices: slipped against the trader and rounded to a tick, up for a      *)
(* purchase and down for a sale.                                           *)

CeilDiv(a, b) == (a + b - 1) \div b
Slipped(price, up) ==
  IF up THEN CeilDiv(price * (SlippageScale + Slippage), SlippageScale)
  ELSE (price * (SlippageScale - Slippage)) \div SlippageScale

FillPrice(quote, buy) == IF buy THEN Slipped(quote.ask, TRUE) ELSE Slipped(quote.bid, FALSE)
Mark(quote, long) == IF long THEN quote.bid ELSE quote.ask
Value(price, qty) == price * qty * FeeScale
FeeOn(price, qty) == price * qty * Fee
Distance(a, b) == IF a > b THEN a - b ELSE b - a

\* Strictly between the stop and the target, and the loss at a slipped stop,
\* with the fees both ways, within the budget and the cash.
Fillable(terms, fill, cash) ==
  LET q == terms.quantity
      stopped == Slipped(terms.stop, ~terms.long) IN
  /\ IF terms.long THEN terms.stop < fill /\ fill < terms.target
     ELSE terms.target < fill /\ fill < terms.stop
  /\ Value(Distance(fill, stopped), q) + FeeOn(fill, q) + FeeOn(stopped, q) <= terms.budget
  /\ Value(fill, q) + FeeOn(fill, q) <= cash

----------------------------------------------------------------------------
(* What a command does to the book; Refused where the code raises.         *)

Refused == {}   \* no book

\* terms: long, quantity, stop, target, budget, and the end of its session.
NewOrder(req) ==
  [terms |-> req.terms, status |-> "PENDING", submitted |-> req.at, entry |-> 0, mark |-> 0,
   fills |-> <<>>]

Submitted(b, req) ==
  IF req.order \in DOMAIN b.orders \/ req.at >= req.terms.ends THEN Refused
  ELSE {[b EXCEPT !.orders = [o \in DOMAIN b.orders \cup {req.order} |->
                                IF o = req.order THEN NewOrder(req) ELSE b.orders[o]]]}

Cancelled(b, req) ==
  IF req.order \notin DOMAIN b.orders THEN Refused
  ELSE IF b.orders[req.order].status # "PENDING" THEN Refused
  ELSE {[b EXCEPT !.orders[req.order].status = "CANCELLED"]}

StatusAtEnd(status) ==
  CASE status = "PENDING" -> "CANCELLED"
    [] status = "OPEN" -> "EXIT_PENDING"
    [] OTHER -> status

SessionEnded(b, req) ==
  {[b EXCEPT !.orders =
      [o \in DOMAIN b.orders |->
         IF req.at < b.orders[o].terms.ends THEN b.orders[o]
         ELSE [b.orders[o] EXCEPT !.status = StatusAtEnd(@)]]]}

WithFill(order, req, kind, price) ==
  [order EXCEPT !.fills = Append(@, [kind |-> kind, price |-> price, at |-> req.at, by |-> req.id])]

\* A pending order meets a quote of its instrument.
Enter(b, o, req) ==
  LET order == b.orders[o]
      terms == order.terms
      fill == FillPrice(req, terms.long) IN
  CASE req.at >= terms.ends -> [b EXCEPT !.orders[o].status = "CANCELLED"]
    [] req.at < terms.ends /\ req.quoted < order.submitted -> b
    [] OTHER ->
         IF ~Fillable(terms, fill, b.cash) THEN [b EXCEPT !.orders[o].status = "REJECTED"]
         ELSE [b EXCEPT
                 !.cash = @ - Value(fill, terms.quantity) - FeeOn(fill, terms.quantity),
                 !.orders[o] = WithFill([@ EXCEPT !.status = "OPEN", !.entry = fill,
                                                  !.mark = Mark(req, terms.long)],
                                      req, "ENTRY", fill)]

Touched(terms, mark) ==
  IF terms.long THEN mark <= terms.stop \/ mark >= terms.target
  ELSE mark >= terms.stop \/ mark <= terms.target

Gain(terms, from, to) == IF terms.long THEN to - from ELSE from - to

\* An open order leaves at its stop, its target or its session's end.
Leave(b, o, req) ==
  LET order == b.orders[o]
      terms == order.terms
      fill == FillPrice(req, ~terms.long)
      q == terms.quantity
      gross == Value(Gain(terms, order.entry, fill), q)
      mark == Mark(req, terms.long) IN
  IF ~Touched(terms, mark) /\ req.at < terms.ends /\ order.status # "EXIT_PENDING"
  THEN [b EXCEPT !.orders[o].mark = mark]
  ELSE [b EXCEPT
          !.cash = @ + Value(order.entry, q) + gross - FeeOn(fill, q),
          !.realized = @ + gross - FeeOn(order.entry, q) - FeeOn(fill, q),
          !.orders[o] = WithFill([@ EXCEPT !.status = "CLOSED", !.mark = mark], req, "EXIT", fill)]

Meets(b, o, req) ==
  CASE b.orders[o].status = "PENDING" -> Enter(b, o, req)
    [] b.orders[o].status \in {"OPEN", "EXIT_PENDING"} -> Leave(b, o, req)
    [] OTHER -> b

\* The orders of the quote's instrument in turn; the cash one takes is gone for
\* the next.
Quoted(b, req) ==
  IF req.at - req.quoted \notin 0 .. MaximumQuoteAge THEN Refused
  ELSE {FoldSet(LAMBDA o, done : Meets(done, o, req), b, DOMAIN b.orders)}

Applied(b, req) ==
  CASE req.kind = "submit" -> Submitted(b, req)
    [] req.kind = "cancel" -> Cancelled(b, req)
    [] req.kind = "end" -> SessionEnded(b, req)
    [] req.kind = "quote" -> Quoted(b, req)

----------------------------------------------------------------------------
(* _event(): a request met before is answered from the table, and another  *)
(* under its identity is refused; both change nothing.                     *)

Ledger == [book |-> book, events |-> events]

KnownNever(ledger, id) == FALSE   \* mutant: INSERT OR REPLACE, without the look-up
Known(ledger, id) == \E e \in ledger.events : e.id = id

\* The ledgers a request may leave: none where the code raises.
After(ledger, req) ==
  CASE Known(ledger, req.id) -> {l \in {ledger} : req \in l.events}
    [] ~Known(ledger, req.id) /\ req.at < ledger.book.clock -> Refused
    [] OTHER -> {[book |-> [b EXCEPT !.clock = req.at], events |-> ledger.events \cup {req}] :
                   b \in Applied(ledger.book, req)}

Deliver(req) == \E l \in After(Ledger, req) : book' = l.book /\ events' = l.events

SimulatorNext == \E req \in Requests : Deliver(req)

SimulatorSpec == SimulatorInit /\ [][SimulatorNext]_simulatorVars

----------------------------------------------------------------------------
(* portfolio()                                                             *)

Entered == {"OPEN", "EXIT_PENDING"}
Live(b) == {o \in DOMAIN b.orders : b.orders[o].status \in Entered \cup {"PENDING"}}
Marked(order) == Value(order.entry + Gain(order.terms, order.entry, order.mark), order.terms.quantity)
Equity(b) ==
  b.cash + MapThenSumSet(LAMBDA o : Marked(b.orders[o]),
                         {o \in DOMAIN b.orders : b.orders[o].status \in Entered})

\* realized_pnl of a closed order
Net(order) ==
  LET q == order.terms.quantity  exit == order.fills[2].price IN
  Value(Gain(order.terms, order.entry, exit), q) - FeeOn(order.entry, q) - FeeOn(exit, q)

----------------------------------------------------------------------------
(* Properties.                                                             *)

\* However its events are repeated, delayed or contradicted, an order is entered
\* at most once, and left at most once by a later quote of its own; and cash with
\* what open orders hold is the initial capital with the realized result (_event).
Holding == {o \in DOMAIN book.orders : book.orders[o].status \in Entered}
Held(o) ==
  LET q == book.orders[o].terms.quantity  entry == book.orders[o].entry IN
  Value(entry, q) + FeeOn(entry, q)

SimulatorBooksAgree ==
  /\ book.cash + MapThenSumSet(Held, Holding) = InitialCapital + book.realized
  /\ \A o \in DOMAIN book.orders :
       LET fills == book.orders[o].fills  status == book.orders[o].status IN
       /\ Len(fills) = CASE status \in Entered -> 1 [] status = "CLOSED" -> 2 [] OTHER -> 0
       /\ \A i, j \in DOMAIN fills : i < j => /\ fills[i].by # fills[j].by
                                             /\ fills[i].at <= fills[j].at
                                             /\ fills[i].kind = "ENTRY" /\ fills[j].kind = "EXIT"
       /\ fills # <<>> => fills[1].at < book.orders[o].terms.ends
=============================================================================
