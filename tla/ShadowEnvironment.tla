-------------------------- MODULE ShadowEnvironment --------------------------
(***************************************************************************)
(* rl/shadow.py: one unit traded on a tape of quotes by an untrusted       *)
(* policy, and the reward it is given.  Money is in units of 1 /           *)
(* (SlippageBase * FeeBase) of a price.                                  *)
(***************************************************************************)
EXTENDS Integers, Sequences, FiniteSetsExt

CONSTANTS
  StartingCapital,
  SlippageRate, SlippageBase,   \* Costs.slippage
  FeeRate, FeeBase,             \* Costs.fee
  TapeQuotes,   \* bid and ask a row may show
  Masks,        \* allowed_entries a row may have
  Rows          \* bound: the rows of the tape

ASSUME ShadowAssumption ==
  /\ Rows \in Nat /\ Rows >= 2 /\ StartingCapital \in Nat \ {0}
  /\ {SlippageRate, SlippageBase, FeeRate, FeeBase} \subseteq Nat
  /\ SlippageRate < SlippageBase /\ FeeRate < FeeBase
  /\ \A q \in TapeQuotes : q.bid \in Nat \ {0} /\ q.ask \in Nat /\ q.bid <= q.ask
  /\ Masks \subseteq SUBSET {"LONG", "SHORT"}

ActionSet == {"NO_TRADE", "LONG", "SHORT", "EXIT"}

VARIABLES
  index, row, \* where the episode is on its tape
  env,        \* position, entry, entry_fee, net, peak, max_drawdown, entries, invalid
  reward,     \* what reward_total is made of: gain of equity, growth of drawdown, entries
  equities,     \* the equity after each step
  till        \* ghost: what was paid and received

shadowVars == <<index, row, env, reward, equities, till>>

TapeRows == [quote : TapeQuotes, allowed : Masks]
Done == index = Rows - 1

\* reset()
ShadowInit ==
  /\ index = 0 /\ row \in TapeRows
  /\ env = [position |-> 0, entry |-> 0, entryFee |-> 0, net |-> 0, peak |-> StartingCapital,
            drawdown |-> <<0, 1>>, entries |-> 0, invalid |-> 0]
  /\ reward = [gain |-> 0, drawdown |-> <<0, 1>>, entries |-> 0]
  /\ equities = <<>>
  /\ till = StartingCapital

\* Fractions of equities, in lowest terms.
Lowest(f) ==
  IF f[1] <= 0 THEN <<0, 1>>
  ELSE LET d == Max({n \in 1 .. Min({f[1], f[2]}) : f[1] % n = 0 /\ f[2] % n = 0})
       IN  <<f[1] \div d, f[2] \div d>>
Above(a, b) == a[1] * b[2] > b[1] * a[2]
Plus(a, b) == Lowest(<<a[1] * b[2] + b[1] * a[2], a[2] * b[2]>>)
Minus(a, b) == Lowest(<<a[1] * b[2] - b[1] * a[2], a[2] * b[2]>>)

\* Before slippage: where a position of the side is opened, and where it is closed.
Opens(side, quote) == IF side = 1 THEN quote.ask ELSE quote.bid
Closes(side, quote) == IF side = 1 THEN quote.bid ELSE quote.ask
WithSlippage(price, side) == price * (SlippageBase + side * SlippageRate) * FeeBase
FeeOf(money) == (money \div FeeBase) * FeeRate

\* _equity()
EquityOf(e, r) ==
  StartingCapital + e.net
    + IF e.position = 0 THEN 0
      ELSE (Closes(e.position, r.quote) * SlippageBase * FeeBase - e.entry) * e.position - e.entryFee

\* observation()'s action_mask
ActionMask ==
  {"NO_TRADE"}
    \cup (IF env.position # 0 THEN {"EXIT"} ELSE IF index < Rows - 2 THEN row.allowed ELSE {})

SideOf(action) == IF action = "LONG" THEN 1 ELSE -1

\* An entry needs the mask of the row decided on and of the row filled on, and the money.
AfterEntry(e, action, next, before) ==
  LET side == SideOf(action)
      price == WithSlippage(Opens(side, next.quote), side)
  IN  IF action \in {"LONG", "SHORT"} \cap next.allowed /\ price + FeeOf(price) <= before
      THEN [e EXCEPT !.position = side, !.entry = price, !.entryFee = FeeOf(price), !.entries = @ + 1]
      ELSE e

SettledWithoutEntryFee(e, next) ==   \* mutant: the fee of the entry is forgotten
  LET price == WithSlippage(Closes(e.position, next.quote), -e.position)
  IN  [e EXCEPT !.position = 0, !.net = @ + (price - e.entry) * e.position - FeeOf(price)]
Settled(e, next) ==
  LET price == WithSlippage(Closes(e.position, next.quote), -e.position)
  IN  [e EXCEPT !.position = 0,
                !.net = @ + (price - e.entry) * e.position - e.entryFee - FeeOf(price)]

\* step(): an action outside the mask is NO_TRADE; the last row settles.
ShadowStep(wanted, next) ==
  LET action == IF wanted \in ActionMask THEN wanted ELSE "NO_TRADE"
      before == EquityOf(env, row)
      entered == AfterEntry(env, action, next, before)
      leaves == entered.position # 0 /\ (action = "EXIT" \/ index + 1 = Rows - 1)
      settled == IF leaves THEN Settled(entered, next) ELSE entered
      after == EquityOf(settled, next)
      peak == Max({env.peak, after})
      fall == Lowest(<<peak - after, peak>>)
      drawdown == IF Above(fall, env.drawdown) THEN fall ELSE env.drawdown
  IN  /\ ~Done
      /\ index' = index + 1 /\ row' = next
      /\ env' = [settled EXCEPT !.peak = peak, !.drawdown = drawdown,
                                !.invalid = @ + IF wanted = action THEN 0 ELSE 1]
      /\ reward' = [gain |-> reward.gain + (after - before),
                    drawdown |-> Plus(reward.drawdown, Minus(drawdown, env.drawdown)),
                    entries |-> reward.entries + (entered.entries - env.entries)]
      /\ equities' = Append(equities, after)
      /\ till' = till - (IF entered.entries = env.entries THEN 0
                         ELSE entered.entry * entered.position + entered.entryFee)
                      + IF ~leaves THEN 0
                        ELSE LET price == WithSlippage(Closes(entered.position, next.quote),
                                                       -entered.position)
                             IN  price * entered.position - FeeOf(price)

ShadowNext == \E wanted \in ActionSet, next \in TapeRows : ShadowStep(wanted, next)

ShadowSpec == ShadowInit /\ [][ShadowNext]_shadowVars

----------------------------------------------------------------------------
\* The deepest fall of a sequence of equities from an earlier peak, as a fraction of it.
PeakOf(s, n) == Max({s[m] : m \in 1 .. n})
FallsOf(s) == {Lowest(<<PeakOf(s, n) - s[n], PeakOf(s, n)>>) : n \in DOMAIN s}
DeepestFall(s) == CHOOSE f \in FallsOf(s) : \A g \in FallsOf(s) : ~Above(g, f)

\* The reward is explained by the report: through any sequence of allowed and refused
\* actions its gain is that of the equity, its drawdown penalty is on the deepest fall the
\* equities recorded show, each entry is charged once, and an episode ends flat with the
\* money that was paid and received (step(), report()).  A long position never loses more
\* than there is; a short one may.
RewardExplained ==
  LET seen == <<StartingCapital>> \o equities IN
  /\ reward.gain = EquityOf(env, row) - StartingCapital
  /\ reward.drawdown = env.drawdown
  /\ env.drawdown = DeepestFall(seen)
  /\ reward.entries = env.entries
  /\ env.position = 0 => till = StartingCapital + env.net
  /\ Done => env.position = 0 /\ EquityOf(env, row) = StartingCapital + env.net
  /\ env.position = 1 => EquityOf(env, row) >= 0
=============================================================================
