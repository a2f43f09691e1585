---------------------------- MODULE CashDeskProofs ----------------------------
(***************************************************************************)
(* The cash desk, for any symbols, prices, budgets, calendar and number of *)
(* signals.  A handler is an operator on desks, so the argument is about   *)
(* desks: Sound(d) says what holds of a desk between any two calls, and    *)
(* Leads(d, e, allowed) that a worker may turn d into e: e is sound again, *)
(* sessions only went forward, and what was entered was entered on terms.  *)
(* Leads holds of each call a handler makes and is transitive, so it holds *)
(* of the handler, wherever an exception cuts it short.                    *)
(***************************************************************************)
EXTENDS CashDesk, Sums

Statuses == {"free", "pending", "entered", "exited", "expired", "rejected"}
SignalType ==
  [st : Statuses, sym : Symbols, of : 0 .. LastDay, pat : Patterns, at : Times, fill : Nat,
   out : Times \cup {Never}, pnl : Int]
SessionStates == {"none", "armed", "running", "stopping", "completed"}
QuoteType == [Symbols -> [fresh : BOOLEAN, bid : Nat]]
Verdicts == {"none", "balanced", "attention_required"}
DeskType ==
  [sess : [Days -> SessionStates], sig : [Slots -> SignalType], cash : Int, realized : Int,
   quote : QuoteType, recon : [Days -> Verdicts]]

Outlay(d) == [i \in Held(d) |-> d.sig[i].fill + Fee(d.sig[i])]
Balanced(d) == d.cash = Capital + d.realized - Summed(Outlay(d))
Settled(d) ==
  \A k \in Days : d.sess[k] = "completed" => SignalsOf(d, k, {"pending", "entered"}) = {}
Budgeted(d) == \A k \in Days : Exposure(d, k) <= Budget

Sound(d) == d \in DeskType /\ Balanced(d) /\ Settled(d) /\ Budgeted(d)

Active == {"armed", "running"}

\* Sessions only go forward: none is taken up again, or for the first time, by a worker.
Forward(d, e) ==
  \A k \in Days : /\ e.sess[k] \in Active => d.sess[k] \in Active
                  /\ d.sess[k] = "stopping" => e.sess[k] \in {"stopping", "completed"}
                  /\ d.sess[k] = "completed" => e.sess[k] = "completed"

NewlyHeld(d, e) == Held(e) \ Held(d)
Leads(d, e, allowed) ==
  /\ Sound(e) /\ Forward(d, e)
  /\ \A i \in Slots : d.sig[i].st # "free" => e.sig[i].st # "free" /\ e.sig[i].of = d.sig[i].of
  /\ \A i \in NewlyHeld(d, e) :
       allowed /\ ~halted /\ e.sig[i].of = Day /\ d.sess[Day] \in Active

-----------------------------------------------------------------------------
(* Sums of a desk.                                                          *)

LEMMA Constants ==
  /\ Stop \in Nat /\ Target \in Nat /\ Cost \in Nat /\ Capital \in Nat /\ Budget \in Nat
  /\ LossLimit \in Nat /\ ProfitLimit \in Nat /\ MaxSignals \in Nat /\ Horizon \in Nat
  /\ Expiry \in Nat /\ LastDay \in Nat /\ LastDay > 0 /\ DayLength \in Nat /\ DayLength > 0
  /\ MaxBoot \in Nat /\ MaxBoot > 0
BY CashAssumption

LEMMA SlotsFinite ==
  ASSUME NEW S \in SUBSET Slots
  PROVE  IsFiniteSet(S) /\ \A i \in S : i \in Int
<1>1. IsFiniteSet(1 .. MaxSignals)
  <2>1. 1 \in Int /\ MaxSignals \in Int  BY Constants
  <2> QED  BY <2>1, FS_Interval
<1>2. IsFiniteSet(S)  BY <1>1, FS_Subset DEF Slots
<1>3. \A i \in S : i \in Int  BY Constants DEF Slots
<1> QED  BY <1>2, <1>3

LEMMA SummedIsTotal == ASSUME NEW f PROVE Summed(f) = Total(f, DOMAIN f)
BY DEF Summed, Total

LEMMA SignalFields ==
  ASSUME NEW d \in DeskType, NEW i \in Slots
  PROVE  /\ d.sig[i] \in SignalType /\ d.sig[i].fill \in Nat /\ d.sig[i].pnl \in Int
         /\ d.sig[i].sym \in Symbols /\ d.quote[d.sig[i].sym].bid \in Nat
         /\ Fee(d.sig[i]) \in Nat /\ d.sig[i].of \in 0 .. LastDay
<1>1. d.sig[i] \in SignalType  BY DEF DeskType
<1>2. d.quote \in QuoteType  BY DEF DeskType
<1>3. d.sig[i].sym \in Symbols  BY <1>1 DEF SignalType
<1>4. d.quote[d.sig[i].sym] \in [fresh : BOOLEAN, bid : Nat]  BY <1>2, <1>3 DEF QuoteType
<1>5. Fee(d.sig[i]) \in Nat  BY Constants DEF Fee
<1> QED  BY <1>1, <1>3, <1>4, <1>5 DEF SignalType

LEMMA OutlayTypes ==
  ASSUME NEW d \in DeskType
  PROVE  /\ Held(d) \in SUBSET Slots /\ DOMAIN Outlay(d) = Held(d)
         /\ \A i \in Held(d) : /\ Outlay(d)[i] = d.sig[i].fill + Fee(d.sig[i])
                               /\ Outlay(d)[i] \in Int
         /\ Summed(Outlay(d)) = Total(Outlay(d), Held(d)) /\ Summed(Outlay(d)) \in Int
<1>1. Held(d) \in SUBSET Slots /\ DOMAIN Outlay(d) = Held(d)  BY DEF Held, Outlay
<1>2. \A i \in Held(d) : /\ Outlay(d)[i] = d.sig[i].fill + Fee(d.sig[i])
                         /\ Outlay(d)[i] \in Int
  BY <1>1, SignalFields DEF Outlay
<1>3. Summed(Outlay(d)) = Total(Outlay(d), Held(d))  BY <1>1, SummedIsTotal
<1>4. Total(Outlay(d), Held(d)) \in Int  BY <1>1, <1>2, SlotsFinite, TotalInteger
<1> QED  BY <1>1, <1>2, <1>3, <1>4

HeldIn(d, k) == SignalsOf(d, k, {"entered"})
Cover(d, k) == [i \in HeldIn(d, k) |-> d.sig[i].fill + Cost]

LEMMA ExposureIsTotal ==
  ASSUME NEW d \in DeskType, NEW k
  PROVE  /\ HeldIn(d, k) \in SUBSET Slots /\ IsFiniteSet(HeldIn(d, k))
         /\ \A i \in HeldIn(d, k) : /\ Cover(d, k)[i] = d.sig[i].fill + Cost
                                    /\ Cover(d, k)[i] \in Nat
         /\ Exposure(d, k) = Total(Cover(d, k), HeldIn(d, k)) /\ Exposure(d, k) \in Int
<1>1. HeldIn(d, k) \in SUBSET Slots  BY DEF HeldIn, SignalsOf
<1>2. \A i \in HeldIn(d, k) : Cover(d, k)[i] = d.sig[i].fill + Cost /\ Cover(d, k)[i] \in Nat
  BY <1>1, SignalFields, Constants DEF Cover
<1>3. Exposure(d, k) = Summed(Cover(d, k)) /\ DOMAIN Cover(d, k) = HeldIn(d, k)
  BY DEF Exposure, Cover, HeldIn
<1>4. Exposure(d, k) = Total(Cover(d, k), HeldIn(d, k))  BY <1>3, SummedIsTotal
<1>5. IsFiniteSet(HeldIn(d, k))  BY <1>1, SlotsFinite
<1>6. Total(Cover(d, k), HeldIn(d, k)) \in Nat  BY <1>2, <1>5, TotalType
<1> QED  BY <1>1, <1>2, <1>4, <1>5, <1>6

\* Fewer entries at the same fills risk no more.
LEMMA ExposureNotRaised ==
  ASSUME NEW d \in DeskType, NEW e \in DeskType, NEW k, HeldIn(e, k) \subseteq HeldIn(d, k),
         \A i \in HeldIn(e, k) : e.sig[i].fill = d.sig[i].fill
  PROVE  Exposure(e, k) <= Exposure(d, k)
<1>1. \A i \in HeldIn(e, k) : Cover(e, k)[i] = Cover(d, k)[i]  BY ExposureIsTotal
<1>2. Total(Cover(e, k), HeldIn(e, k)) = Total(Cover(d, k), HeldIn(e, k))
  BY <1>1, ExposureIsTotal, TotalSame
<1>3. Total(Cover(d, k), HeldIn(e, k)) <= Total(Cover(d, k), HeldIn(d, k))
  BY ExposureIsTotal, TotalOfPart
<1> QED  BY <1>2, <1>3, ExposureIsTotal

-----------------------------------------------------------------------------
(* The calls a worker makes.                                                *)

LEMMA LeadsStays == ASSUME NEW d, NEW allowed, Sound(d) PROVE Leads(d, d, allowed)
BY DEF Leads, Forward, NewlyHeld

LEMMA LeadsOn ==
  ASSUME NEW d, NEW e, NEW f, NEW allowed, NEW later \in {FALSE, allowed}, Day \in Days,
         Leads(d, e, later), Leads(e, f, allowed)
  PROVE  Leads(d, f, allowed)
<1>1. Forward(d, f)  BY DEF Leads, Forward
<1>2. \A i \in Slots : d.sig[i].st # "free" => f.sig[i].st # "free" /\ f.sig[i].of = d.sig[i].of
  BY DEF Leads
<1>3. ASSUME NEW i \in NewlyHeld(d, f)
      PROVE  allowed /\ ~halted /\ f.sig[i].of = Day /\ d.sess[Day] \in Active
  <2>1. CASE i \in Held(e)
    <3>1. i \in NewlyHeld(d, e) /\ i \in Slots /\ e.sig[i].st = "entered"
      BY <1>3, <2>1 DEF NewlyHeld, Held
    <3>2. later /\ ~halted /\ e.sig[i].of = Day /\ d.sess[Day] \in Active  BY <3>1 DEF Leads
    <3>3. f.sig[i].of = e.sig[i].of  BY <3>1 DEF Leads
    <3> QED  BY <3>2, <3>3
  <2>2. CASE i \notin Held(e)
    <3>1. i \in NewlyHeld(e, f)  BY <1>3, <2>2 DEF NewlyHeld
    <3>2. allowed /\ ~halted /\ f.sig[i].of = Day /\ e.sess[Day] \in Active  BY <3>1 DEF Leads
    <3> QED  BY <3>2 DEF Leads, Forward
  <2> QED  BY <2>1, <2>2
<1> QED  BY <1>1, <1>2, <1>3 DEF Leads

\* Signals that are not held may be filed otherwise, as long as a pending one is a
\* session's that is not over.
LEMMA Refiled ==
  ASSUME NEW d, Sound(d), NEW allowed, NEW sig \in [Slots -> SignalType],
         \A i \in Slots :
           /\ sig[i].st = "entered" \/ d.sig[i].st = "entered" => sig[i] = d.sig[i]
           /\ d.sig[i].st # "free" => sig[i].st # "free" /\ sig[i].of = d.sig[i].of
           /\ sig[i].st = "pending" =>
                d.sig[i].st = "pending" \/ (sig[i].of \in Days => d.sess[sig[i].of] # "completed")
  PROVE  Leads(d, [d EXCEPT !.sig = sig], allowed)
<1> DEFINE e == [d EXCEPT !.sig = sig]
<1>1. d \in DeskType  BY DEF Sound
<1>2. /\ e \in DeskType /\ e.sess = d.sess /\ e.sig = sig /\ e.cash = d.cash
      /\ e.realized = d.realized
  BY <1>1 DEF DeskType
<1> HIDE DEF e
<1>3. Held(e) = Held(d) /\ \A i \in Held(d) : e.sig[i] = d.sig[i]  BY <1>2 DEF Held
<1>4. Outlay(e) = Outlay(d)  BY <1>3 DEF Outlay
<1>5. Balanced(e)  BY <1>2, <1>4 DEF Sound, Balanced
<1>6. Settled(e)
  <2> SUFFICES ASSUME NEW k \in Days, d.sess[k] = "completed", NEW i \in Slots, sig[i].of = k,
                      sig[i].st \in {"pending", "entered"}
               PROVE  FALSE
    BY <1>2 DEF Settled, SignalsOf
  <2>1. d.sig[i].st \in {"pending", "entered"} /\ d.sig[i].of = k  OBVIOUS
  <2> QED  BY <2>1 DEF Sound, Settled, SignalsOf
<1>7. Budgeted(e)
  <2> SUFFICES ASSUME NEW k \in Days PROVE Exposure(e, k) <= Budget
    BY DEF Budgeted
  <2>1. HeldIn(e, k) \subseteq HeldIn(d, k) /\ \A i \in HeldIn(e, k) : e.sig[i].fill = d.sig[i].fill
    BY <1>2 DEF HeldIn, SignalsOf
  <2>2. Exposure(e, k) <= Exposure(d, k)  BY <1>1, <1>2, <2>1, ExposureNotRaised
  <2>3. Exposure(d, k) <= Budget  BY DEF Sound, Budgeted
  <2>4. Exposure(e, k) \in Int /\ Exposure(d, k) \in Int /\ Budget \in Int
    BY <1>1, <1>2, ExposureIsTotal, Constants
  <2> QED  BY <2>2, <2>3, <2>4
<1>8. Forward(d, e)  BY <1>2 DEF Forward
<1>9. Leads(d, e, allowed)  BY <1>2, <1>3, <1>5, <1>6, <1>7, <1>8 DEF Leads, Sound, NewlyHeld
<1> QED  BY <1>9 DEF e

\* Sessions may be regraded, to completed only when nothing of them is open.
LEMMA RegradedSound ==
  ASSUME NEW d, Sound(d), NEW sess \in [Days -> SessionStates],
         \A k \in Days : sess[k] = "completed" /\ d.sess[k] # "completed" =>
                          SignalsOf(d, k, {"pending", "entered"}) = {}
  PROVE  /\ Sound([d EXCEPT !.sess = sess]) /\ [d EXCEPT !.sess = sess].sess = sess
         /\ [d EXCEPT !.sess = sess].sig = d.sig
<1> DEFINE e == [d EXCEPT !.sess = sess]
<1>1. d \in DeskType  BY DEF Sound
<1>2. /\ e \in DeskType /\ e.sess = sess /\ e.sig = d.sig /\ e.cash = d.cash
      /\ e.realized = d.realized
  BY <1>1 DEF DeskType
<1> HIDE DEF e
<1>4. Held(e) = Held(d) /\ Outlay(e) = Outlay(d)  BY <1>2 DEF Held, Outlay
<1>5. \A k \in Days : Exposure(e, k) = Exposure(d, k)  BY <1>2 DEF Exposure, SignalsOf
<1>6. Settled(e)
  <2>1. \A k \in Days : \A S : SignalsOf(e, k, S) = SignalsOf(d, k, S)  BY <1>2 DEF SignalsOf
  <2> QED  BY <1>2, <2>1 DEF Sound, Settled
<1>7. Sound(e)  BY <1>2, <1>4, <1>5, <1>6 DEF Sound, Balanced, Budgeted
<1> QED  BY <1>2, <1>7 DEF e

LEMMA Regraded ==
  ASSUME NEW d, Sound(d), NEW allowed, NEW sess \in [Days -> SessionStates],
         Forward(d, [d EXCEPT !.sess = sess]),
         \A k \in Days : sess[k] = "completed" /\ d.sess[k] # "completed" =>
                          SignalsOf(d, k, {"pending", "entered"}) = {}
  PROVE  Leads(d, [d EXCEPT !.sess = sess], allowed)
<1> DEFINE e == [d EXCEPT !.sess = sess]
<1>1. Sound(e) /\ e.sig = d.sig /\ Forward(d, e)  BY RegradedSound
<1> HIDE DEF e
<1>2. Held(e) = Held(d)  BY <1>1 DEF Held
<1>3. Leads(d, e, allowed)  BY <1>1, <1>2 DEF Leads, NewlyHeld
<1> QED  BY <1>3 DEF e

LEMMA SetSessionLeads ==
  ASSUME NEW d, Sound(d), NEW allowed, NEW k \in Days, NEW st \in SessionStates,
         st \in Active => d.sess[k] \in Active,
         d.sess[k] = "stopping" => st \in {"stopping", "completed"},
         d.sess[k] = "completed" => st = "completed",
         st = "completed" => SignalsOf(d, k, {"pending", "entered"}) = {}
  PROVE  Leads(d, SetSession(d, k, st), allowed)
<1> DEFINE sess == [d.sess EXCEPT ![k] = st]
           e == [d EXCEPT !.sess = sess]
<1>1. d \in DeskType /\ d.sess \in [Days -> SessionStates]  BY DEF Sound, DeskType
<1>2. SetSession(d, k, st) = e  BY DEF SetSession
<1>3. sess \in [Days -> SessionStates] /\ \A j \in Days : sess[j] = IF j = k THEN st ELSE d.sess[j]
  BY <1>1
<1>4. e.sess = sess  BY <1>1 DEF DeskType
<1> HIDE DEF sess
<1>5. Forward(d, e)  BY <1>3, <1>4 DEF Forward
<1> HIDE DEF e
<1> QED  BY <1>2, <1>3, <1>5, Regraded DEF e

\* Quotes and verdicts are nobody's money.
LEMMA Repriced ==
  ASSUME NEW d, Sound(d), NEW allowed, NEW e \in DeskType,
         e.sess = d.sess, e.sig = d.sig, e.cash = d.cash, e.realized = d.realized
  PROVE  Leads(d, e, allowed)
<1>1. Held(e) = Held(d) /\ Outlay(e) = Outlay(d)  BY DEF Held, Outlay
<1>2. \A k \in Days : Exposure(e, k) = Exposure(d, k)  BY DEF Exposure, SignalsOf
<1>3. Settled(e)
  <2>1. \A k \in Days : \A S : SignalsOf(e, k, S) = SignalsOf(d, k, S)  BY DEF SignalsOf
  <2> QED  BY <2>1 DEF Sound, Settled
<1>4. Sound(e)  BY <1>1, <1>2, <1>3 DEF Sound, Balanced, Budgeted
<1>5. Forward(d, e)  BY DEF Forward
<1> QED  BY <1>1, <1>4, <1>5 DEF Leads, NewlyHeld

-----------------------------------------------------------------------------
(* Sales and purchases.                                                     *)

Rebook(d, sig, c, r) == [d EXCEPT !.sig = sig, !.cash = c, !.realized = r]

LEMMA Rebooked ==
  ASSUME NEW d \in DeskType, NEW sig \in [Slots -> SignalType], NEW c \in Int, NEW r \in Int
  PROVE  /\ Rebook(d, sig, c, r) \in DeskType /\ Rebook(d, sig, c, r).sess = d.sess
         /\ Rebook(d, sig, c, r).sig = sig /\ Rebook(d, sig, c, r).cash = c
         /\ Rebook(d, sig, c, r).realized = r /\ Rebook(d, sig, c, r).quote = d.quote
BY DEF DeskType, Rebook

\* What a sale yields is booked as cash, and its difference from what the unit had
\* cost as the result.
LEMMA SellLeads ==
  ASSUME NEW d, Sound(d), now \in Times, NEW allowed, NEW X \in SUBSET Held(d)
  PROVE  Leads(d, Sell(d, X), allowed)
<1> DEFINE sig == [i \in Slots |-> IF i \in X
                     THEN [d.sig[i] EXCEPT !.st = "exited", !.out = now, !.pnl = SaleResult(d, d.sig[i])]
                     ELSE d.sig[i]]
           yield == [i \in X |-> Proceeds(d, d.sig[i])]
           result == [i \in X |-> SaleResult(d, d.sig[i])]
           e == Sell(d, X)
<1>1. d \in DeskType /\ X \in SUBSET Slots /\ X \subseteq Held(d) /\ Held(d) \in SUBSET Slots
  BY DEF Sound, Held
<1>2. \A i \in X : /\ yield[i] \in Int /\ result[i] \in Int
                   /\ result[i] = yield[i] - Outlay(d)[i] /\ Outlay(d)[i] \in Int
  <2> SUFFICES ASSUME NEW i \in X
               PROVE  /\ yield[i] \in Int /\ result[i] \in Int
                      /\ result[i] = yield[i] - Outlay(d)[i] /\ Outlay(d)[i] \in Int
    OBVIOUS
  <2>1. /\ yield[i] = d.quote[d.sig[i].sym].bid - Fee(d.sig[i])
        /\ result[i] = d.quote[d.sig[i].sym].bid - d.sig[i].fill - Fee(d.sig[i]) - Fee(d.sig[i])
    BY DEF Proceeds, SaleResult
  <2>2. Outlay(d)[i] = d.sig[i].fill + Fee(d.sig[i])  BY <1>1, OutlayTypes
  <2>3. d.quote[d.sig[i].sym].bid \in Nat /\ d.sig[i].fill \in Nat /\ Fee(d.sig[i]) \in Nat
    BY <1>1, SignalFields
  <2> QED  BY <2>1, <2>2, <2>3
<1>3. /\ e = [d EXCEPT !.sig = sig, !.cash = @ + Summed(yield), !.realized = @ + Summed(result)]
  BY DEF Sell
<1>4. \A i \in Slots : /\ sig[i] \in SignalType /\ sig[i].of = d.sig[i].of
                       /\ sig[i].fill = d.sig[i].fill
                       /\ sig[i].st = IF i \in X THEN "exited" ELSE d.sig[i].st
                       /\ i \notin X => sig[i] = d.sig[i]
  <2> SUFFICES ASSUME NEW i \in Slots
               PROVE  /\ sig[i] \in SignalType /\ sig[i].of = d.sig[i].of
                      /\ sig[i].fill = d.sig[i].fill
                      /\ sig[i].st = IF i \in X THEN "exited" ELSE d.sig[i].st
                      /\ i \notin X => sig[i] = d.sig[i]
    OBVIOUS
  <2>1. d.sig[i] \in SignalType  BY <1>1, SignalFields
  <2>2. i \in X => SaleResult(d, d.sig[i]) \in Int  BY <1>2
  <2> DEFINE gain == SaleResult(d, d.sig[i])
  <2>3. sig[i] = IF i \in X THEN [d.sig[i] EXCEPT !.st = "exited", !.out = now, !.pnl = gain]
                 ELSE d.sig[i]
    OBVIOUS
  <2> HIDE DEF sig, gain
  <2> QED  BY <2>1, <2>2, <2>3 DEF SignalType, Statuses, gain
<1>5. IsFiniteSet(X) /\ Summed(yield) = Total(yield, X) /\ Summed(result) = Total(result, X)
  BY <1>1, SlotsFinite, SummedIsTotal
<1> HIDE DEF yield, result
<1>6. Total(yield, X) \in Int /\ Total(result, X) \in Int  BY <1>2, <1>5, TotalInteger
<1>7. Total(result, X) = Total(yield, X) - Total(Outlay(d), X)
  BY <1>2, <1>5, TotalDifference
<1>8. sig \in [Slots -> SignalType]  BY <1>4
<1> HIDE DEF sig, e
<1>9. /\ e \in DeskType /\ e.sess = d.sess /\ e.sig = sig
      /\ e.cash = d.cash + Total(yield, X) /\ e.realized = d.realized + Total(result, X)
      /\ d.cash \in Int /\ d.realized \in Int
  <2> DEFINE c == d.cash + Total(yield, X)
             r == d.realized + Total(result, X)
  <2>1. e = Rebook(d, sig, c, r)  BY <1>3, <1>5 DEF Rebook
  <2>2. d.cash \in Int /\ d.realized \in Int  BY <1>1 DEF DeskType
  <2>3. c \in Int /\ r \in Int  BY <1>6, <2>2
  <2> HIDE DEF c, r
  <2>4. /\ e \in DeskType /\ e.sess = d.sess /\ e.sig = sig /\ e.cash = c /\ e.realized = r
        /\ e.quote = d.quote
    BY <1>1, <1>8, <2>1, <2>3, Rebooked
  <2> QED  BY <2>2, <2>4 DEF c, r
<1>10. Held(e) = Held(d) \ X  BY <1>1, <1>4, <1>9 DEF Held
<1>11. Balanced(e)
  <2>1. \A i \in Held(e) : Outlay(e)[i] = Outlay(d)[i]
    <3>1. \A i \in Held(e) : i \in Held(d) /\ e.sig[i] = d.sig[i]  BY <1>1, <1>4, <1>9, <1>10
    <3> QED  BY <1>1, <1>9, <3>1, OutlayTypes
  <2>2. IsFiniteSet(Held(e)) /\ IsFiniteSet(Held(d))  BY <1>1, <1>10, SlotsFinite
  <2>3. Summed(Outlay(e)) = Total(Outlay(d), Held(d) \ X)
    <3>1. Summed(Outlay(e)) = Total(Outlay(e), Held(e))  BY <1>9, OutlayTypes
    <3>2. Total(Outlay(e), Held(e)) = Total(Outlay(d), Held(e))  BY <2>1, <2>2, TotalSame
    <3> QED  BY <1>10, <3>1, <3>2
  <2>4. \A i \in Held(d) : Outlay(d)[i] \in Int  BY <1>1, OutlayTypes
  <2>5. Total(Outlay(d), Held(d)) = Total(Outlay(d), X) + Total(Outlay(d), Held(d) \ X)
    BY <2>2, <2>4, TotalSplit
  <2>6. Summed(Outlay(d)) = Total(Outlay(d), Held(d))  BY <1>1, OutlayTypes
  <2>7. d.cash = Capital + d.realized - Summed(Outlay(d))  BY DEF Sound, Balanced
  <2>8. /\ Total(Outlay(d), X) \in Int /\ Total(Outlay(d), Held(d) \ X) \in Int /\ Capital \in Int
    <3>1. IsFiniteSet(Held(d) \ X)  BY <1>10, <2>2
    <3>2. \A i \in Held(d) \ X : Outlay(d)[i] \in Int  BY <2>4
    <3>3. Total(Outlay(d), Held(d) \ X) \in Int  BY <3>1, <3>2, TotalInteger
    <3>4. Total(Outlay(d), X) \in Int  BY <1>2, <1>5, TotalInteger
    <3> QED  BY <3>3, <3>4, Constants
  <2> DEFINE sold == Total(Outlay(d), X)
             kept == Total(Outlay(d), Held(d) \ X)
  <2>9. d.cash = Capital + d.realized - (sold + kept)  BY <2>5, <2>6, <2>7
  <2> HIDE DEF sold, kept
  <2>10. e.cash = Capital + e.realized - kept  BY <1>6, <1>7, <1>9, <2>8, <2>9 DEF sold, kept
  <2> QED  BY <2>3, <2>10 DEF Balanced, kept
<1>12. Settled(e)
  <2> SUFFICES ASSUME NEW k \in Days, d.sess[k] = "completed", NEW i \in Slots, sig[i].of = k,
                      sig[i].st \in {"pending", "entered"}
               PROVE  FALSE
    BY <1>9 DEF Settled, SignalsOf
  <2>1. d.sig[i].st \in {"pending", "entered"} /\ d.sig[i].of = k  BY <1>4
  <2> QED  BY <2>1 DEF Sound, Settled, SignalsOf
<1>13. Budgeted(e)
  <2> SUFFICES ASSUME NEW k \in Days PROVE Exposure(e, k) <= Budget
    BY DEF Budgeted
  <2>1. HeldIn(e, k) \subseteq HeldIn(d, k) /\ \A i \in HeldIn(e, k) : e.sig[i].fill = d.sig[i].fill
    BY <1>4, <1>9 DEF HeldIn, SignalsOf
  <2>2. Exposure(e, k) <= Exposure(d, k)  BY <1>1, <1>9, <2>1, ExposureNotRaised
  <2>3. Exposure(d, k) <= Budget  BY DEF Sound, Budgeted
  <2>4. Exposure(e, k) \in Int /\ Exposure(d, k) \in Int /\ Budget \in Int
    BY <1>1, <1>9, ExposureIsTotal, Constants
  <2> QED  BY <2>2, <2>3, <2>4
<1>14. Forward(d, e)  BY <1>9 DEF Forward
<1>15. \A i \in Slots : d.sig[i].st # "free" => e.sig[i].st # "free" /\ e.sig[i].of = d.sig[i].of
  BY <1>4, <1>9
<1>16. Leads(d, e, allowed)
  BY <1>9, <1>10, <1>11, <1>12, <1>13, <1>14, <1>15 DEF Leads, Sound, NewlyHeld
<1> QED  BY <1>16 DEF e

Renamed(d, e) == {i \in Slots : e.sig[i].of # d.sig[i].of \/ e.sig[i].sym # d.sig[i].sym}
Changed(d, e) == {i \in Slots : e.sig[i] # d.sig[i]}
Bought(d, e, E) ==
  \A i \in E : e.sig[i].st = "entered" /\ e.sig[i].fill = d.quote[d.sig[i].sym].bid


\* A purchase at the last bid: cash leaves for what is held from now on.
LEMMA EnterFacts ==
  ASSUME NEW d \in DeskType, Balanced(d), NEW E \in SUBSET Slots,
         \A i \in E : d.sig[i].st # "entered", NEW e, e = Enter(d, E)
  PROVE  /\ e \in DeskType /\ Balanced(e) /\ e.sess = d.sess /\ e.quote = d.quote
         /\ Held(e) = Held(d) \cup E
         /\ Renamed(d, e) = {} /\ Changed(d, e) \subseteq E /\ Bought(d, e, E)
<1> DEFINE sig == [i \in Slots |-> IF i \in E
                     THEN [d.sig[i] EXCEPT !.st = "entered", !.fill = d.quote[d.sig[i].sym].bid]
                     ELSE d.sig[i]]
           price == [i \in E |-> d.quote[d.sig[i].sym].bid + Fee(d.sig[i])]
           c == d.cash - Total(price, E)
<1>1. e = [d EXCEPT !.sig = sig, !.cash = @ - Summed(price)]  BY DEF Enter
<1>2. \A i \in Slots : /\ sig[i] \in SignalType /\ sig[i].of = d.sig[i].of
                       /\ sig[i].sym = d.sig[i].sym
                       /\ i \notin E => sig[i] = d.sig[i]
                       /\ i \in E => /\ sig[i].st = "entered"
                                    /\ sig[i].fill = d.quote[d.sig[i].sym].bid
  <2> SUFFICES ASSUME NEW i \in Slots
               PROVE  /\ sig[i] \in SignalType /\ sig[i].of = d.sig[i].of
                      /\ sig[i].sym = d.sig[i].sym
                      /\ i \notin E => sig[i] = d.sig[i]
                      /\ i \in E => /\ sig[i].st = "entered"
                                   /\ sig[i].fill = d.quote[d.sig[i].sym].bid
    OBVIOUS
  <2> DEFINE bid == d.quote[d.sig[i].sym].bid
  <2>1. d.sig[i] \in SignalType /\ bid \in Nat  BY SignalFields
  <2>2. sig[i] = IF i \in E THEN [d.sig[i] EXCEPT !.st = "entered", !.fill = bid] ELSE d.sig[i]
    OBVIOUS
  <2> HIDE DEF sig, bid
  <2>3. /\ sig[i] \in SignalType /\ sig[i].of = d.sig[i].of
        /\ sig[i].sym = d.sig[i].sym
        /\ i \notin E => sig[i] = d.sig[i]
        /\ i \in E => sig[i].st = "entered" /\ sig[i].fill = bid
    BY <2>1, <2>2 DEF SignalType, Statuses
  <2> QED  BY <2>3 DEF bid
<1>3. \A i \in E : price[i] = d.quote[d.sig[i].sym].bid + Fee(d.sig[i]) /\ price[i] \in Int
  BY SignalFields
<1>4. IsFiniteSet(E) /\ Summed(price) = Total(price, E)  BY SlotsFinite, SummedIsTotal
<1> HIDE DEF price
<1>5. Total(price, E) \in Int /\ d.cash \in Int /\ d.realized \in Int
  BY <1>3, <1>4, TotalInteger DEF DeskType
<1>6. sig \in [Slots -> SignalType]  BY <1>2
<1> HIDE DEF sig
<1>7. c \in Int  BY <1>5
<1>8. e = Rebook(d, sig, c, d.realized)
  <2>1. e = [d EXCEPT !.sig = sig, !.cash = c]  BY <1>1, <1>4
  <2> HIDE DEF c
  <2> QED  BY <2>1 DEF DeskType, Rebook
<1> HIDE DEF c
<1>9. /\ e \in DeskType /\ e.sess = d.sess /\ e.sig = sig /\ e.cash = c /\ e.realized = d.realized
      /\ e.quote = d.quote
  BY <1>5, <1>6, <1>7, <1>8, Rebooked
<1>10. Held(e) = Held(d) \cup E /\ Held(e) \ Held(d) = E  BY <1>2, <1>9 DEF Held
<1>11. Balanced(e)
  <2>1. Held(e) \in SUBSET Slots /\ Held(d) \in SUBSET Held(e) /\ Held(d) \in SUBSET Slots
    BY <1>10 DEF Held
  <2>2. IsFiniteSet(Held(e)) /\ IsFiniteSet(Held(d))  BY <2>1, SlotsFinite
  <2>3. Total(Outlay(e), Held(e)) = Total(Outlay(e), Held(d)) + Total(Outlay(e), E)
    <3>1. \A i \in Held(e) : Outlay(e)[i] \in Int  BY <1>9, OutlayTypes
    <3> QED  BY <1>10, <2>1, <2>2, <3>1, TotalSplit
  <2>4. Total(Outlay(e), Held(d)) = Total(Outlay(d), Held(d))
    <3>1. \A i \in Held(d) : i \in Held(e) /\ e.sig[i] = d.sig[i]
      <4>1. \A i \in Held(d) : i \notin E /\ i \in Slots  BY DEF Held
      <4> QED  BY <1>2, <1>9, <1>10, <4>1
    <3>2. \A i \in Held(d) : Outlay(e)[i] = Outlay(d)[i]  BY <1>9, <3>1, OutlayTypes
    <3> QED  BY <2>2, <3>2, TotalSame
  <2>5. Total(Outlay(e), E) = Total(price, E)
    <3>1. ASSUME NEW i \in E PROVE Outlay(e)[i] = price[i]
      <4>1. i \in Held(e) /\ e.sig[i].fill = d.quote[d.sig[i].sym].bid /\ e.sig[i].of = d.sig[i].of
        BY <1>2, <1>9, <1>10
      <4>2. Fee(e.sig[i]) = Fee(d.sig[i])  BY <4>1 DEF Fee
      <4> QED  BY <1>3, <1>9, <4>1, <4>2, OutlayTypes
    <3> QED  BY <1>4, <3>1, TotalSame
  <2>6. /\ Summed(Outlay(e)) = Total(Outlay(e), Held(e)) /\ Summed(Outlay(d)) = Total(Outlay(d), Held(d))
        /\ Summed(Outlay(d)) \in Int
    BY <1>9, OutlayTypes
  <2>7. Summed(Outlay(e)) = Summed(Outlay(d)) + Total(price, E)  BY <2>3, <2>4, <2>5, <2>6
  <2>8. d.cash = Capital + d.realized - Summed(Outlay(d)) /\ Capital \in Int
    BY Constants DEF Balanced
  <2>9. e.cash = d.cash - Total(price, E)  BY <1>9 DEF c
  <2>10. e.cash = Capital + e.realized - Summed(Outlay(e))
    BY <1>5, <1>9, <2>6, <2>7, <2>8, <2>9
  <2> QED  BY <2>10 DEF Balanced
<1>12. Renamed(d, e) = {} /\ Changed(d, e) \subseteq E  BY <1>2, <1>9 DEF Renamed, Changed
<1>13. Bought(d, e, E)  BY <1>2, <1>9 DEF Bought
<1> QED  BY <1>9, <1>10, <1>11, <1>12, <1>13

LEMMA LesserOf ==
  ASSUME NEW a \in Int, NEW b \in Int
  PROVE  Min({a, b}) \in Int /\ Min({a, b}) <= a /\ Min({a, b}) <= b
<1>1. \E x \in {a, b} : \A y \in {a, b} : x <= y  OBVIOUS
<1>2. Min({a, b}) \in {a, b} /\ \A y \in {a, b} : Min({a, b}) <= y  BY <1>1 DEF Min
<1> QED  BY <1>2

LEMMA PnlType == ASSUME NEW d \in DeskType, NEW k PROVE Pnl(d, k) \in Int
<1> DEFINE S == SignalsOf(d, k, {"entered", "exited"})
           f == [i \in S |-> Marked(d, d.sig[i])]
<1>1. S \in SUBSET Slots  BY DEF SignalsOf
<1>2. \A i \in S : f[i] \in Int  BY <1>1, SignalFields, Constants DEF Marked
<1>3. Pnl(d, k) = Total(f, S)  BY SummedIsTotal DEF Pnl
<1> HIDE DEF f, S
<1> QED  BY <1>1, <1>2, <1>3, SlotsFinite, TotalInteger

\* One tick's reviews: the last of them has seen what all the others spent.
LEMMA ReviewsLead ==
  ASSUME NEW d, Sound(d), NEW k \in Days, d.sess[k] # "completed", NEW e \in Reviews(d, k)
  PROVE  Leads(d, e, TRUE)
<1> DEFINE pending == SignalsOf(d, k, {"pending"})
<1>1. PICK E \in SUBSET pending :
        /\ e = Enter(d, E)
        /\ \A i \in pending : i \in E <=> /\ EntryOpen(Enter(d, {j \in E : j < i}), i)
                                       /\ SessionTerms(Enter(d, {j \in E : j < i}), k, i)
  BY DEF Reviews
<1>2. d \in DeskType /\ Balanced(d)  BY DEF Sound
<1>3. E \in SUBSET Slots /\ \A i \in E : d.sig[i].st = "pending" /\ d.sig[i].of = k
  BY DEF SignalsOf
<1> HIDE DEF pending
<1>3a. E \subseteq Slots  BY <1>3
<1>3b. \A i \in E : d.sig[i].st = "pending"  BY <1>3
<1>3c. \A i \in E : d.sig[i].of = k  BY <1>3
<1>4a. /\ e \in DeskType /\ Balanced(e) /\ e.sess = d.sess /\ e.quote = d.quote
       /\ Held(e) = Held(d) \cup E
       /\ Renamed(d, e) = {} /\ Changed(d, e) \subseteq E /\ Bought(d, e, E)
  BY <1>1, <1>2, <1>3, EnterFacts
<1>4b. \A i \in Slots : e.sig[i].of = d.sig[i].of  BY <1>4a DEF Renamed
<1>4c. \A i \in Slots : i \notin E => e.sig[i] = d.sig[i]  BY <1>4a DEF Changed
<1>4d. \A i \in E : e.sig[i].st = "entered"  BY <1>4a DEF Bought
<1>4e. \A i \in E : e.sig[i].fill = d.quote[d.sig[i].sym].bid  BY <1>4a DEF Bought
<1>4. e \in DeskType /\ e.sess = d.sess  BY <1>4a
<1>5. Settled(e)
  <2> SUFFICES ASSUME NEW j \in Days, d.sess[j] = "completed", NEW i \in Slots, e.sig[i].of = j,
                      e.sig[i].st \in {"pending", "entered"}
               PROVE  FALSE
    BY <1>4 DEF Settled, SignalsOf
  <2>1. i \notin E  BY <1>3c, <1>4b
  <2>2. d.sig[i].st \in {"pending", "entered"} /\ d.sig[i].of = j  BY <1>4b, <1>4c, <2>1
  <2> QED  BY <2>2 DEF Sound, Settled, SignalsOf
<1>6. \A j : Exposure(d, j) \in Int /\ Exposure(e, j) \in Int /\ Budget \in Int
  BY <1>2, <1>4, ExposureIsTotal, Constants
<1>7. \A j \in Days : Exposure(d, j) <= Budget  BY DEF Sound, Budgeted
<1>8. ASSUME NEW j \in Days, HeldIn(e, j) \subseteq HeldIn(d, j) PROVE Exposure(e, j) <= Budget
  <2>1. \A i \in HeldIn(e, j) : e.sig[i].fill = d.sig[i].fill
    <3>1. \A i \in HeldIn(e, j) : i \in Slots /\ i \notin E  BY <1>3b, <1>8 DEF HeldIn, SignalsOf
    <3> QED  BY <1>4c, <3>1
  <2>2. Exposure(e, j) <= Exposure(d, j)  BY <1>2, <1>4, <1>8, <2>1, ExposureNotRaised
  <2> QED  BY <1>6, <1>7, <2>2
<1>9. ASSUME E # {} PROVE Exposure(e, k) <= Budget /\ ~halted /\ Day = k /\ d.sess[k] \in Active
  <2>1. IsFiniteSet(E) /\ \A i \in E : i \in Int  BY <1>3, SlotsFinite
  <2>2. PICK m \in E : \A i \in E : i <= m  BY <1>9, <2>1, Largest
  <2> DEFINE B == {j \in E : j < m}
             b == Enter(d, B)
             bid == d.quote[d.sig[m].sym].bid
  <2>3. m \in pending  BY DEF pending
  <2>4. EntryOpen(b, m) /\ SessionTerms(b, k, m)  BY <1>1, <2>3
  <2>5. B \in SUBSET Slots /\ (\A i \in B : d.sig[i].st # "entered") /\ m \notin B
        /\ E = B \cup {m} /\ m \in Slots
    <3>1. \A i \in E : i \in B \/ i = m  BY <2>1, <2>2
    <3>2. m \notin B  BY <2>1
    <3> QED  BY <1>3, <3>1, <3>2
  <2> HIDE DEF B
  <2>6. b = Enter(d, B)  OBVIOUS
  <2> HIDE DEF b
  <2>7. /\ b \in DeskType /\ b.sess = d.sess /\ b.quote = d.quote /\ Held(b) = Held(d) \cup B
        /\ Renamed(d, b) = {} /\ Changed(d, b) \subseteq B /\ Bought(d, b, B)
    BY <1>2, <2>5, <2>6, EnterFacts
  <2>7a. \A i \in Slots : b.sig[i].of = d.sig[i].of /\ b.sig[i].sym = d.sig[i].sym
    BY <2>7 DEF Renamed
  <2>7b. \A i \in B : b.sig[i].fill = d.quote[d.sig[i].sym].bid  BY <2>7 DEF Bought
  <2>7c. \A i \in Slots : i \notin B => b.sig[i] = d.sig[i]  BY <2>7 DEF Changed
  <2>8a. ~halted /\ Day = k /\ d.sess[k] \in Active
    BY <2>4, <2>7 DEF EntryOpen, SessionTerms, Active
  <2>8b. Affordable(b, k, b.quote[b.sig[m].sym].bid)  BY <2>4 DEF SessionTerms
  <2>8c. b.quote[b.sig[m].sym].bid = bid  BY <2>5, <2>7, <2>7a
  <2>8. Affordable(b, k, bid)  BY <2>8b, <2>8c
  <2>9. bid \in Nat /\ Exposure(b, k) \in Int /\ Pnl(b, k) \in Int /\ b.cash \in Int
    <3>1. bid \in Nat  BY <1>2, <2>5, SignalFields
    <3>2. Exposure(b, k) \in Int  BY <2>7, ExposureIsTotal
    <3>3. Pnl(b, k) \in Int  BY <2>7, PnlType
    <3>4. b.cash \in Int  BY <2>7 DEF DeskType
    <3> QED  BY <3>1, <3>2, <3>3, <3>4
  <2>10. bid + Cost <= Budget - Exposure(b, k)
    <3> DEFINE loss == Min({Pnl(b, k), 0})
               room == Budget + loss - Exposure(b, k)
    <3>0. 0 \in Int  OBVIOUS
    <3>1. loss \in Int /\ loss <= 0
      <4> DEFINE p == Pnl(b, k)
      <4>1. p \in Int  BY <2>9
      <4> HIDE DEF p
      <4>2. Min({p, 0}) \in Int /\ Min({p, 0}) <= 0  BY <3>0, <4>1, LesserOf
      <4> QED  BY <4>2 DEF p
    <3> HIDE DEF loss
    <3>2. room \in Int /\ room <= Budget - Exposure(b, k)
      <4>1. Budget \in Int /\ Exposure(b, k) \in Int  BY <2>9, Constants
      <4> QED  BY <3>1, <4>1
    <3>3. bid + Cost <= Min({room, b.cash})  BY <2>8 DEF Affordable, loss
    <3> HIDE DEF room
    <3>4. Min({room, b.cash}) \in Int /\ Min({room, b.cash}) <= room  BY <2>9, <3>2, LesserOf
    <3> QED  BY <1>6, <2>9, <3>2, <3>3, <3>4, Constants
  <2>11. HeldIn(e, k) = HeldIn(b, k) \cup {m} /\ m \notin HeldIn(b, k)
    <3>1. \A i \in Slots : i \in HeldIn(e, k) <=> i \in Held(e) /\ d.sig[i].of = k
      BY <1>4b DEF HeldIn, SignalsOf, Held
    <3>2. \A i \in Slots : i \in HeldIn(b, k) <=> i \in Held(b) /\ d.sig[i].of = k
      BY <2>7a DEF HeldIn, SignalsOf, Held
    <3>3. m \notin Held(d)  BY <1>3b DEF Held
    <3>4. HeldIn(e, k) \subseteq Slots /\ HeldIn(b, k) \subseteq Slots  BY DEF HeldIn, SignalsOf
    <3>5. d.sig[m].of = k  BY <1>3c
    <3>6. Held(e) = Held(d) \cup E /\ Held(b) = Held(d) \cup B  BY <1>4a, <2>7
    <3> QED  BY <2>5, <3>1, <3>2, <3>3, <3>4, <3>5, <3>6
  <2>12. \A i \in HeldIn(b, k) : Cover(e, k)[i] = Cover(b, k)[i]
    <3> SUFFICES ASSUME NEW i \in HeldIn(b, k) PROVE e.sig[i].fill = b.sig[i].fill
      BY <1>4, <2>7, <2>11, ExposureIsTotal
    <3>1. i \in Slots /\ i # m  BY <2>11 DEF HeldIn, SignalsOf
    <3>2. i \in E <=> i \in B  BY <2>5, <3>1
    <3>3. CASE i \in E  BY <1>4e, <2>7b, <3>2, <3>3
    <3>4. CASE i \notin E
      <4>1. e.sig[i] = d.sig[i]  BY <1>4c, <3>1, <3>4
      <4>2. b.sig[i] = d.sig[i]  BY <2>7c, <3>1, <3>2, <3>4
      <4> QED  BY <4>1, <4>2
    <3> QED  BY <3>3, <3>4
  <2>13. Cover(e, k)[m] = bid + Cost
    <3>1. Cover(e, k)[m] = e.sig[m].fill + Cost  BY <1>4, <2>11, ExposureIsTotal
    <3>2. e.sig[m].fill = bid  BY <1>4e
    <3> QED  BY <3>1, <3>2
  <2>14. Exposure(e, k) = (bid + Cost) + Exposure(b, k)
    <3>1. Exposure(e, k) = Total(Cover(e, k), HeldIn(b, k) \cup {m})
      BY <1>4, <2>11, ExposureIsTotal
    <3>2. IsFiniteSet(HeldIn(b, k)) /\ Exposure(b, k) = Total(Cover(b, k), HeldIn(b, k))
      BY <2>7, ExposureIsTotal
    <3>3. \A i \in HeldIn(b, k) \cup {m} : Cover(e, k)[i] \in Int
      BY <1>4, <2>11, ExposureIsTotal
    <3>4. Total(Cover(e, k), HeldIn(b, k) \cup {m})
            = Cover(e, k)[m] + Total(Cover(e, k), HeldIn(b, k))
      BY <2>11, <3>2, <3>3, TotalWith
    <3>5. Total(Cover(e, k), HeldIn(b, k)) = Total(Cover(b, k), HeldIn(b, k))
      BY <2>12, <3>2, TotalSame
    <3> QED  BY <2>13, <3>1, <3>2, <3>4, <3>5
  <2>15. Exposure(e, k) <= Budget  BY <1>6, <2>9, <2>10, <2>14, Constants
  <2> QED  BY <2>8a, <2>15
<1>10. Budgeted(e)
  <2> SUFFICES ASSUME NEW j \in Days PROVE Exposure(e, j) <= Budget
    BY DEF Budgeted
  <2>1. CASE E = {} \/ j # k
    <3>1. HeldIn(e, j) \subseteq HeldIn(d, j)
      <4> SUFFICES ASSUME NEW i \in Slots, e.sig[i].st = "entered", e.sig[i].of = j
                   PROVE  d.sig[i].st = "entered" /\ d.sig[i].of = j
        BY DEF HeldIn, SignalsOf
      <4>1. i \notin E  BY <1>3c, <1>4b, <2>1
      <4> QED  BY <1>4c, <4>1
    <3> QED  BY <1>8, <3>1
  <2>2. CASE E # {} /\ j = k  BY <1>9, <2>2
  <2> QED  BY <2>1, <2>2
<1>11. \A i \in NewlyHeld(d, e) : i \in E  BY <1>4a DEF NewlyHeld
<1>12. \A i \in NewlyHeld(d, e) : ~halted /\ e.sig[i].of = Day /\ d.sess[Day] \in Active
  <2> SUFFICES ASSUME NEW i \in E PROVE ~halted /\ e.sig[i].of = Day /\ d.sess[Day] \in Active
    BY <1>11
  <2>1. ~halted /\ Day = k /\ d.sess[k] \in Active  BY <1>9
  <2>2. e.sig[i].of = k  BY <1>3a, <1>3c, <1>4b
  <2> QED  BY <2>1, <2>2
<1>13. \A i \in Slots : d.sig[i].st # "free" => e.sig[i].st # "free" /\ e.sig[i].of = d.sig[i].of
  <2> SUFFICES ASSUME NEW i \in Slots, d.sig[i].st # "free" PROVE e.sig[i].st # "free"
    BY <1>4b
  <2>1. CASE i \in E  BY <1>4d, <2>1
  <2>2. CASE i \notin E  BY <1>4c, <2>2
  <2> QED  BY <2>1, <2>2
<1>14. Forward(d, e)  BY <1>4 DEF Forward
<1>15. Sound(e)  BY <1>4a, <1>5, <1>10 DEF Sound
<1> QED  BY <1>12, <1>13, <1>14, <1>15 DEF Leads

LEMMA ReviewsKeep ==
  ASSUME NEW d, Sound(d), NEW k \in Days, NEW e \in Reviews(d, k)
  PROVE  e.sess = d.sess
<1>1. PICK E \in SUBSET Slots : e = Enter(d, E)
  BY DEF Reviews, SignalsOf
<1>2. d \in DeskType  BY DEF Sound
<1> QED  BY <1>1, <1>2 DEF Enter, DeskType

-----------------------------------------------------------------------------
(* The handlers.                                                            *)

LEMMA ExpireLeads ==
  ASSUME NEW d, Sound(d), NEW allowed, NEW S
  PROVE  /\ Leads(d, Expire(d, S), allowed)
         /\ Expire(d, S).sess = d.sess /\ Held(Expire(d, S)) = Held(d)
         /\ \A k : SignalsOf(Expire(d, S), k, {"pending"}) \subseteq SignalsOf(d, k, {"pending"}) \ S
<1> DEFINE sig == [i \in Slots |->
                     IF i \in S /\ d.sig[i].st = "pending" THEN [d.sig[i] EXCEPT !.st = "expired"]
                     ELSE d.sig[i]]
           e == [d EXCEPT !.sig = sig]
<1>1. d \in DeskType  BY DEF Sound
<1>2. \A i \in Slots :
        /\ sig[i] \in SignalType /\ sig[i].of = d.sig[i].of
        /\ sig[i].st = IF i \in S /\ d.sig[i].st = "pending" THEN "expired" ELSE d.sig[i].st
        /\ d.sig[i].st # "pending" => sig[i] = d.sig[i]
  <2> SUFFICES ASSUME NEW i \in Slots
               PROVE  /\ sig[i] \in SignalType /\ sig[i].of = d.sig[i].of
                      /\ sig[i].st = IF i \in S /\ d.sig[i].st = "pending" THEN "expired"
                                     ELSE d.sig[i].st
                      /\ d.sig[i].st # "pending" => sig[i] = d.sig[i]
    OBVIOUS
  <2>1. d.sig[i] \in SignalType  BY <1>1, SignalFields
  <2>2. sig[i] = IF i \in S /\ d.sig[i].st = "pending" THEN [d.sig[i] EXCEPT !.st = "expired"]
                 ELSE d.sig[i]
    OBVIOUS
  <2> HIDE DEF sig
  <2> QED  BY <2>1, <2>2 DEF SignalType, Statuses
<1>3. Expire(d, S) = e  BY DEF Expire
<1>4. sig \in [Slots -> SignalType]  BY <1>2
<1> HIDE DEF sig
<1>5. Leads(d, e, allowed)
  <2>1. \A i \in Slots :
          /\ sig[i].st = "entered" \/ d.sig[i].st = "entered" => sig[i] = d.sig[i]
          /\ d.sig[i].st # "free" => sig[i].st # "free" /\ sig[i].of = d.sig[i].of
          /\ sig[i].st = "pending" =>
               d.sig[i].st = "pending" \/ (sig[i].of \in Days => d.sess[sig[i].of] # "completed")
    BY <1>2
  <2> HIDE DEF e
  <2> QED  BY <1>4, <2>1, Refiled DEF e
<1>6. e.sess = d.sess /\ e.sig = sig  BY <1>1 DEF DeskType
<1>7. Held(e) = Held(d)
  <2>1. \A i \in Slots : e.sig[i].st = "entered" <=> d.sig[i].st = "entered"  BY <1>2, <1>6
  <2> QED  BY <2>1 DEF Held
<1>8. \A k : SignalsOf(e, k, {"pending"}) \subseteq SignalsOf(d, k, {"pending"}) \ S
  <2> SUFFICES ASSUME NEW k, NEW i \in Slots, sig[i].of = k, sig[i].st = "pending"
               PROVE  d.sig[i].of = k /\ d.sig[i].st = "pending" /\ i \notin S
    BY <1>6 DEF SignalsOf
  <2> QED  BY <1>2
<1> QED  BY <1>3, <1>5, <1>6, <1>7, <1>8

LEMMA SellKeeps ==
  ASSUME NEW d \in DeskType, NEW X
  PROVE  Sell(d, X).sess = d.sess
BY DEF DeskType, Sell

\* monitor_exits() sells and expires; it enters nothing and regrades no session.
LEMMA MonitorLeads ==
  ASSUME NEW d, Sound(d), now \in Times, Day \in Days, NEW allowed \in BOOLEAN,
         NEW scope \in SUBSET Slots, NEW forced
  PROVE  /\ Leads(d, MonitorExits(d, scope, forced), allowed)
         /\ MonitorExits(d, scope, forced).sess = d.sess
<1> DEFINE X == Leaving(d, scope, forced)
           s == Sell(d, X)
           e == Expire(s, Overdue(s))
<1>1. X \in SUBSET Held(d)  BY DEF Leaving, Held
<1>2. MonitorExits(d, scope, forced) = e  BY DEF MonitorExits
<1> HIDE DEF X
<1>3. Leads(d, s, allowed)  BY <1>1, SellLeads
<1>4. s.sess = d.sess  BY SellKeeps DEF Sound
<1> HIDE DEF s
<1>5. Sound(s)  BY <1>3 DEF Leads
<1>6. Leads(s, e, allowed) /\ e.sess = s.sess  BY <1>5, ExpireLeads
<1> HIDE DEF e
<1>7. Leads(d, e, allowed)  BY <1>3, <1>6, LeadsOn
<1> QED  BY <1>2, <1>4, <1>6, <1>7

\* A session ends completed only when its positions are sold and its signals expired.
LEMMA WindDownLeads ==
  ASSUME NEW d, Sound(d), now \in Times, Day \in Days, NEW allowed \in BOOLEAN,
         NEW k \in Days, Open(d.sess[k])
  PROVE  Leads(d, WindDown(d, k), allowed)
<1> DEFINE a == SetSession(d, k, "stopping")
           sold == MonitorExits(a, SignalsOf(d, k, {"entered"}), TRUE)
           x == Expire(sold, SignalsOf(sold, k, {"pending"}))
           st == IF SignalsOf(sold, k, {"entered"}) # {} THEN "stopping" ELSE "completed"
           e == SetSession(x, k, st)
<1>1. WindDown(d, k) = e  BY DEF WindDown
<1>2. Leads(d, a, allowed)
  <2>1. d.sess[k] # "completed"  BY DEF Open
  <2> QED  BY <2>1, SetSessionLeads DEF SessionStates, Active
<1>3. a.sess[k] = "stopping"
  <2>1. d \in DeskType  BY DEF Sound
  <2> QED  BY <2>1 DEF SetSession, DeskType
<1> HIDE DEF a
<1>4. Sound(a)  BY <1>2 DEF Leads
<1>5. SignalsOf(d, k, {"entered"}) \in SUBSET Slots  BY DEF SignalsOf
<1>6. Leads(a, sold, allowed) /\ sold.sess = a.sess  BY <1>4, <1>5, MonitorLeads
<1> HIDE DEF sold
<1>7. Sound(sold)  BY <1>6 DEF Leads
<1>8. /\ Leads(sold, x, allowed) /\ x.sess = sold.sess /\ Held(x) = Held(sold)
      /\ SignalsOf(x, k, {"pending"}) = {}
  <2>1. Leads(sold, x, allowed) /\ x.sess = sold.sess /\ Held(x) = Held(sold)  BY <1>7, ExpireLeads
  <2>2. SignalsOf(x, k, {"pending"})
          \subseteq SignalsOf(sold, k, {"pending"}) \ SignalsOf(sold, k, {"pending"})
    BY <1>7, ExpireLeads
  <2> QED  BY <2>1, <2>2
<1> HIDE DEF x
<1>9. Sound(x)  BY <1>8 DEF Leads
<1>10. x.sess[k] = "stopping"  BY <1>3, <1>6, <1>8
<1>11. st = "completed" => SignalsOf(x, k, {"pending", "entered"}) = {}
  <2> SUFFICES ASSUME SignalsOf(sold, k, {"entered"}) = {}, NEW i \in Slots, x.sig[i].of = k,
                      x.sig[i].st = "entered"
               PROVE  FALSE
    BY <1>8 DEF SignalsOf
  <2>1. i \in Held(sold) /\ sold.sig[i].st = "entered"  BY <1>8 DEF Held
  <2>2. x.sig[i].of = sold.sig[i].of  BY <1>8, <2>1 DEF Leads
  <2> QED  BY <2>1, <2>2 DEF SignalsOf
<1>12. Leads(x, e, allowed)
  <2>1. st \in {"stopping", "completed"}  OBVIOUS
  <2> HIDE DEF st
  <2> QED  BY <1>9, <1>10, <1>11, <2>1, SetSessionLeads DEF SessionStates, Active
<1> HIDE DEF e
<1>13. Leads(d, sold, allowed)  BY <1>2, <1>6, LeadsOn
<1>14. Leads(d, x, allowed)  BY <1>8, <1>13, LeadsOn
<1>15. Leads(d, e, allowed)  BY <1>12, <1>14, LeadsOn
<1> QED  BY <1>1, <1>15

LEMMA TickLeads ==
  ASSUME NEW d, Sound(d), now \in Times, Day \in Days, NEW allowed \in BOOLEAN,
         NEW k \in ActiveDays(d), NEW e \in TickSession(d, k, allowed)
  PROVE  Leads(d, e, allowed)
<1>1. k \in Days /\ Open(d.sess[k])  BY DEF ActiveDays
<1>2. \/ e = WindDown(d, k)
      \/ ~MustEnd(d, k) /\ \E st \in Active : e = SetSession(d, k, st)
      \/ ~MustEnd(d, k) /\ allowed /\ \E f \in Reviews(d, k) : e = SetSession(f, k, "running")
      \/ e = d
  BY DEF TickSession, Active
<1>3. CASE e = WindDown(d, k)  BY <1>1, <1>3, WindDownLeads
<1>4. ~MustEnd(d, k) => d.sess[k] \in Active  BY <1>1 DEF MustEnd, Open, Active
<1>5. CASE ~MustEnd(d, k) /\ \E st \in Active : e = SetSession(d, k, st)
  <2>1. PICK st \in Active : e = SetSession(d, k, st)  BY <1>5
  <2> QED  BY <1>1, <1>4, <1>5, <2>1, SetSessionLeads DEF SessionStates, Active
<1>6. CASE ~MustEnd(d, k) /\ allowed /\ \E f \in Reviews(d, k) : e = SetSession(f, k, "running")
  <2>1. PICK f \in Reviews(d, k) : e = SetSession(f, k, "running")  BY <1>6
  <2>2. d.sess[k] # "completed" /\ allowed = TRUE  BY <1>4, <1>6 DEF Active
  <2>3. Leads(d, f, allowed)  BY <1>1, <2>2, ReviewsLead
  <2>4. Sound(f)  BY <2>3 DEF Leads
  <2>5. f.sess = d.sess  BY <1>1, <2>2, ReviewsKeep
  <2>6. Leads(f, e, allowed)
    BY <1>1, <1>4, <1>6, <2>1, <2>4, <2>5, SetSessionLeads DEF SessionStates, Active
  <2> QED  BY <2>3, <2>6, LeadsOn
<1>7. CASE e = d  BY <1>7, LeadsStays
<1> QED  BY <1>2, <1>3, <1>5, <1>6, <1>7

LEMMA SessionTickLeads ==
  ASSUME NEW d, Sound(d), now \in Times, Day \in Days, NEW allowed \in BOOLEAN,
         NEW e \in SessionTick(d, allowed)
  PROVE  Leads(d, e, allowed)
<1>1. e = d \/ \E k \in ActiveDays(d) : e \in TickSession(d, k, allowed)  BY DEF SessionTick
<1> QED  BY <1>1, LeadsStays, TickLeads

LEMMA NoSignalTyped == NoSignal \in SignalType
<1>1. (CHOOSE s \in Symbols : TRUE) \in Symbols /\ (CHOOSE p \in Patterns : TRUE) \in Patterns
  BY CashAssumption
<1>2. Nobody \in 0 .. LastDay /\ 0 \in Times /\ Never \in Times \cup {Never}
  BY Constants DEF Nobody, Times
<1> QED  BY <1>1, <1>2 DEF NoSignal, SignalType, Statuses

\* New signals are pending and belong to no session or to one that is not over.
LEMMA CreateLeads ==
  ASSUME NEW d, Sound(d), now \in Times, NEW allowed, NEW e \in CreateSignals(d)
  PROVE  Leads(d, e, allowed)
<1> DEFINE k == IF ActiveDays(d) = {} THEN Nobody ELSE Max(ActiveDays(d))
<1>1. PICK pat, slot : /\ e = Created(d, k, slot, pat)
                       /\ \E T \in SUBSET Symbols : pat \in [T -> Patterns]
                       /\ \E F \in SUBSET Free(d) : slot \in [DOMAIN pat -> F]
  <2> DEFINE All == UNION {[T -> Patterns] : T \in SUBSET Symbols}
             First(n) == {i \in Free(d) : Cardinality({j \in Free(d) : j < i}) < n}
             Setups == {pat \in All : /\ Cardinality(DOMAIN pat) <= Cardinality(Free(d))
                                     /\ \A s \in DOMAIN pat : MayCreate(d, k, s, pat[s])}
             Slotted(pat) == {f \in [DOMAIN pat -> First(Cardinality(DOMAIN pat))] : Injective(f)}
  <2>1. e \in UNION {{Created(d, k, slot, pat) : slot \in Slotted(pat)} : pat \in Setups}
    BY DEF CreateSignals
  <2> HIDE DEF Slotted, Setups
  <2>2. PICK pat \in Setups : \E slot \in Slotted(pat) : e = Created(d, k, slot, pat)  BY <2>1
  <2>2a. PICK slot \in Slotted(pat) : e = Created(d, k, slot, pat)  BY <2>2
  <2>3. pat \in All  BY <2>2 DEF Setups
  <2>4. slot \in [DOMAIN pat -> First(Cardinality(DOMAIN pat))]  BY <2>2a DEF Slotted
  <2>5. First(Cardinality(DOMAIN pat)) \in SUBSET Free(d)  OBVIOUS
  <2> HIDE DEF First
  <2>6. \E T \in SUBSET Symbols : pat \in [T -> Patterns]  BY <2>3
  <2> QED  BY <2>2a, <2>4, <2>5, <2>6
<1>2. k \in 0 .. LastDay /\ (k \in Days => d.sess[k] # "completed")
  <2>1. CASE ActiveDays(d) = {}  BY <2>1, Constants DEF Nobody, Days
  <2>2. CASE ActiveDays(d) # {}
    <3>1. ActiveDays(d) \in SUBSET (1 .. LastDay)  BY DEF ActiveDays, Days
    <3>2. IsFiniteSet(1 .. LastDay)
      <4>1. 1 \in Int /\ LastDay \in Int  BY Constants
      <4> QED  BY <4>1, FS_Interval
    <3>3. IsFiniteSet(ActiveDays(d)) /\ \A j \in ActiveDays(d) : j \in Int
      BY <3>1, <3>2, FS_Subset, Constants
    <3>4. \E j \in ActiveDays(d) : \A h \in ActiveDays(d) : h <= j  BY <2>2, <3>3, Largest
    <3>5. Max(ActiveDays(d)) \in ActiveDays(d)  BY <3>4 DEF Max
    <3> QED  BY <2>2, <3>1, <3>5, Constants DEF ActiveDays, Open, Days
  <2> QED  BY <2>1, <2>2
<1> HIDE DEF k
<1> DEFINE Taken(i) == \E s \in DOMAIN slot : slot[s] = i
           name(i) == CHOOSE s \in DOMAIN slot : slot[s] = i
           new(i) == [NoSignal EXCEPT !.st = "pending", !.sym = name(i), !.of = k,
                                     !.pat = pat[name(i)], !.at = now]
           sig == [i \in Slots |-> IF Taken(i) THEN new(i) ELSE d.sig[i]]
<1>3. e = [d EXCEPT !.sig = sig]  BY <1>1 DEF Created
<1>4. d \in DeskType  BY DEF Sound
<1>5. ASSUME NEW i \in Slots, Taken(i)
      PROVE  /\ d.sig[i].st = "free" /\ new(i) \in SignalType
             /\ new(i).st = "pending" /\ new(i).of = k
  <2>1. name(i) \in DOMAIN slot /\ slot[name(i)] = i  BY <1>5
  <2> HIDE DEF name
  <2>2. name(i) \in DOMAIN pat /\ i \in Free(d)  BY <1>1, <2>1
  <2>3. name(i) \in Symbols /\ pat[name(i)] \in Patterns  BY <1>1, <2>2
  <2>4. NoSignal \in SignalType  BY NoSignalTyped
  <2> DEFINE p == pat[name(i)]
             n == name(i)
  <2>5. new(i) = [NoSignal EXCEPT !.st = "pending", !.sym = n, !.of = k, !.pat = p, !.at = now]
    OBVIOUS
  <2>6. n \in Symbols /\ p \in Patterns  BY <2>3
  <2> HIDE DEF n, p, new
  <2>7. new(i) \in SignalType /\ new(i).st = "pending" /\ new(i).of = k
    BY <1>2, <2>4, <2>5, <2>6 DEF SignalType, Statuses
  <2> QED  BY <2>2, <2>7 DEF Free
<1>6. \A i \in Slots : sig[i] = IF Taken(i) THEN new(i) ELSE d.sig[i]  OBVIOUS
<1> HIDE DEF new, Taken
<1>7. sig \in [Slots -> SignalType]
  <2>1. \A i \in Slots : sig[i] \in SignalType  BY <1>4, <1>5, <1>6, SignalFields
  <2> QED  BY <2>1
<1> HIDE DEF sig
<1>8. \A i \in Slots :
        /\ sig[i].st = "entered" \/ d.sig[i].st = "entered" => sig[i] = d.sig[i]
        /\ d.sig[i].st # "free" => sig[i].st # "free" /\ sig[i].of = d.sig[i].of
        /\ sig[i].st = "pending" =>
             d.sig[i].st = "pending" \/ (sig[i].of \in Days => d.sess[sig[i].of] # "completed")
  <2> SUFFICES ASSUME NEW i \in Slots
               PROVE  /\ sig[i].st = "entered" \/ d.sig[i].st = "entered" => sig[i] = d.sig[i]
                      /\ d.sig[i].st # "free" => sig[i].st # "free" /\ sig[i].of = d.sig[i].of
                      /\ sig[i].st = "pending" =>
                           \/ d.sig[i].st = "pending"
                           \/ sig[i].of \in Days => d.sess[sig[i].of] # "completed"
    OBVIOUS
  <2>1. CASE Taken(i)
    <3>1. sig[i] = new(i) /\ d.sig[i].st = "free"  BY <1>5, <1>6, <2>1
    <3>2. sig[i].st = "pending" /\ sig[i].of = k  BY <1>5, <2>1, <3>1
    <3> QED  BY <1>2, <3>1, <3>2
  <2>2. CASE ~Taken(i)
    <3>1. sig[i] = d.sig[i]  BY <1>6, <2>2
    <3> QED  BY <3>1
  <2> QED  BY <2>1, <2>2
<1> QED  BY <1>3, <1>7, <1>8, Refiled

LEMMA IngestedLeads ==
  ASSUME NEW d, Sound(d), NEW allowed, NEW q \in Feeds
  PROVE  Leads(d, Ingested(d, q), allowed)
<1> DEFINE quote == [s \in Symbols |->
                       IF q[s] = Never THEN d.quote[s] ELSE [fresh |-> TRUE, bid |-> q[s]]]
           e == [d EXCEPT !.quote = quote]
<1>1. d \in DeskType  BY DEF Sound
<1>2. \A s \in Symbols : Prices[s] \in SUBSET Nat  BY CashAssumption
<1>3. \A s \in Symbols : q[s] = Never \/ q[s] \in Nat  BY <1>2 DEF Feeds
<1>4. Ingested(d, q) = e  BY <1>1 DEF Ingested, DeskType
<1>5. quote \in QuoteType  BY <1>1, <1>3 DEF DeskType, QuoteType
<1> HIDE DEF quote
<1>6. /\ e \in DeskType /\ e.sess = d.sess /\ e.sig = d.sig /\ e.cash = d.cash
      /\ e.realized = d.realized
  BY <1>1, <1>5 DEF DeskType
<1> HIDE DEF e
<1> QED  BY <1>4, <1>6, Repriced

LEMMA ReconciledLeads ==
  ASSUME NEW d, Sound(d), NEW allowed
  PROVE  Leads(d, Reconciled(d), allowed)
<1> DEFINE e == Reconciled(d)
<1>1. d \in DeskType  BY DEF Sound
<1>2. /\ e \in DeskType /\ e.sess = d.sess /\ e.sig = d.sig /\ e.cash = d.cash
      /\ e.realized = d.realized
  BY <1>1 DEF DeskType, Reconciled, Verdicts
<1> HIDE DEF e
<1> QED  BY <1>2, Repriced DEF e

\* What a worker's pass leaves, complete or cut short by an exception.
LEMMA ObserveLeads ==
  ASSUME NEW d, Sound(d), now \in Times, Day \in Days, NEW allowed \in BOOLEAN,
         NEW e \in Observe(d, allowed) \cup Broken(d, allowed)
  PROVE  Leads(d, e, allowed)
<1> DEFINE sold == MonitorExits(d, Slots, FALSE)
<1>1. Leads(d, sold, allowed)  BY MonitorLeads
<1>2. Leads(d, d, allowed)  BY LeadsStays
<1>3. \/ e \in {d, sold} \/ e \in SessionTick(sold, allowed)
      \/ allowed /\ \E f \in SessionTick(sold, allowed) : \E g \in CreateSignals(f) :
                       e = g \/ e \in SessionTick(g, TRUE)
  <2>1. CASE e \in Observe(d, allowed)  BY ZenonT(40), <2>1 DEF Observe
  <2>2. CASE e \in Broken(d, allowed)  BY <2>2 DEF Broken
  <2> QED  BY <2>1, <2>2
<1> HIDE DEF sold
<1>4. Sound(sold)  BY <1>1 DEF Leads
<1>5. ASSUME NEW f \in SessionTick(sold, allowed) PROVE Leads(d, f, allowed) /\ Sound(f)
  <2>1. Leads(sold, f, allowed)  BY <1>4, SessionTickLeads
  <2> QED  BY <1>1, <2>1, LeadsOn DEF Leads
<1>6. ASSUME allowed, NEW f \in SessionTick(sold, allowed), NEW g \in CreateSignals(f)
      PROVE  Leads(d, g, allowed) /\ \A h \in SessionTick(g, TRUE) : Leads(d, h, allowed)
  <2>1. Leads(d, f, allowed) /\ Sound(f)  BY <1>5
  <2>2. Leads(f, g, allowed)  BY <2>1, CreateLeads
  <2>3. Leads(d, g, allowed) /\ Sound(g)  BY <2>1, <2>2, LeadsOn DEF Leads
  <2>4. ASSUME NEW h \in SessionTick(g, TRUE) PROVE Leads(d, h, allowed)
    <3>1. Leads(g, h, allowed)  BY <1>6, <2>3, SessionTickLeads
    <3> QED  BY <2>3, <3>1, LeadsOn
  <2> QED  BY <2>3, <2>4
<1> QED  BY <1>1, <1>2, <1>3, <1>5, <1>6

LEMMA StopLeads ==
  ASSUME NEW d, Sound(d), NEW allowed
  PROVE  Leads(d, StopActive(d), allowed)
<1> DEFINE sess == [k \in Days |-> IF Open(d.sess[k]) THEN "stopping" ELSE d.sess[k]]
           e == [d EXCEPT !.sess = sess]
<1>1. d \in DeskType  BY DEF Sound
<1>2. StopActive(d) = e /\ e.sess = sess  BY <1>1 DEF StopActive, DeskType
<1>3. sess \in [Days -> SessionStates]  BY <1>1 DEF DeskType, SessionStates
<1>4. \A k \in Days : sess[k] = IF Open(d.sess[k]) THEN "stopping" ELSE d.sess[k]  OBVIOUS
<1> HIDE DEF sess
<1>5. Forward(d, e)  BY <1>2, <1>4 DEF Forward, Open, Active
<1>6. \A k \in Days : sess[k] = "completed" => d.sess[k] = "completed"  BY <1>4
<1> HIDE DEF e
<1>7. Leads(d, e, allowed)  BY <1>3, <1>5, <1>6, Regraded DEF e
<1> QED  BY <1>2, <1>7

LEMMA CloseLeads ==
  ASSUME NEW d, Sound(d), now \in Times, Day \in Days,
         NEW e \in CloseDesk(d) \cup BrokenClose(d)
  PROVE  Leads(d, e, FALSE)
<1>1. Leads(d, StopActive(d), FALSE) /\ Leads(d, d, FALSE)  BY StopLeads, LeadsStays
<1>2. Sound(StopActive(d))  BY <1>1 DEF Leads
<1>3. CASE e \in CloseDesk(d)
  <2>1. Leads(StopActive(d), e, FALSE)  BY <1>2, <1>3, SessionTickLeads DEF CloseDesk
  <2> QED  BY <1>1, <2>1, LeadsOn
<1>4. CASE e \in BrokenClose(d)  BY <1>1, <1>4 DEF BrokenClose
<1> QED  BY <1>3, <1>4

-----------------------------------------------------------------------------
(* The orchestrator's tick.                                                 *)

RowStates == {"none", "WAITING", "READY", "OBSERVING", "OBSERVING_NO_ENTRIES",
              "BLOCKED_DEPENDENCIES", "CLOSING", "COMPLETE", "ERROR"}
RowType == [st : RowStates, armed : 0 .. MaxBoot, warmed : 0 .. MaxBoot]
RowsType == [Days -> RowType]

Finished(r) == \A j \in 1 .. Day - 1 : r[j].st \in {"none", "COMPLETE"}

LEMMA DayIsOne == ASSUME now \in Times PROVE Day \in Days
<1>1. now \in Nat /\ now < LastDay * DayLength
  BY CashAssumption, Constants DEF Times
<1>2. (now \div DayLength) \in Int /\ 0 <= (now \div DayLength)  BY <1>1, Constants
<1>3. (now \div DayLength) < LastDay  BY <1>1, Constants
<1> QED  BY <1>2, <1>3, Constants DEF Day, Days

LEMMA PhaseBounds ==
  ASSUME now \in Times
  PROVE  Phase \in Int /\ Closes \in Int /\ Premarket \in Int /\ Premarket <= Closes
<1>1. Premarket \in Nat /\ Closes \in Nat /\ Premarket <= Closes
  <2>1. {Premarket, Opens, ObserveFrom, WindowStart, Cutoff, Flatten, ExitEnd, Closes} \subseteq Nat
    BY CashAssumption
  <2> QED  BY <2>1, CashAssumption
<1>2. Phase \in Int  BY Constants DEF Phase, Times
<1> QED  BY <1>1, <1>2

LEMMA LeadsWeaker ==
  ASSUME NEW d, NEW e, NEW few, NEW many, few => many, Leads(d, e, few)
  PROVE  Leads(d, e, many)
BY DEF Leads

LEMMA RowFiled ==
  ASSUME NEW row \in RowType, NEW st \in RowStates
  PROVE  /\ [row EXCEPT !.st = st] \in RowType
         /\ [row EXCEPT !.armed = Nobody, !.st = st] \in RowType
         /\ [row EXCEPT !.st = st, !.armed = Nobody] \in RowType
         /\ [row EXCEPT !.armed = Nobody] \in RowType
<1>1. Nobody \in 0 .. MaxBoot  BY Constants DEF Nobody
<1>2. [row EXCEPT !.st = st] \in RowType  BY DEF RowType
<1>3. [row EXCEPT !.armed = Nobody] \in RowType  BY <1>1 DEF RowType
<1>4. [row EXCEPT !.armed = Nobody, !.st = st] \in RowType  BY <1>1 DEF RowType
<1>5. [row EXCEPT !.st = st, !.armed = Nobody] \in RowType  BY <1>1 DEF RowType
<1> QED  BY <1>2, <1>3, <1>4, <1>5

LEMMA RowClosed ==
  ASSUME NEW row \in RowType, NEW d
  PROVE  ClosedRow(row, d) \in RowType /\ ErrorRow(row) \in RowType
<1>1. (IF Flat(d) THEN "COMPLETE" ELSE "CLOSING") \in RowStates  BY DEF RowStates
<1>2. "ERROR" \in RowStates  BY DEF RowStates
<1> QED  BY <1>1, <1>2, RowFiled DEF ClosedRow, ErrorRow

\* Older days first: no entry, and today's turn only comes when all of them are closed.
LEMMA OlderLead ==
  ASSUME NEW d, Sound(d), now \in Times, NEW r \in RowsType, NEW broken \in BOOLEAN,
         NEW o \in OlderDays(d, r, broken)
  PROVE  /\ o.rows \in RowsType /\ Leads(d, o.desk, FALSE)
         /\ o.on => o.rows[Day] = r[Day] /\ Finished(o.rows)
<1> DEFINE old == Unfinished(r)
           one == Min(old)
<1>1. Day \in Days  BY DayIsOne
<1>2. Day \notin old /\ old \subseteq 1 .. Day - 1  BY <1>1, Constants DEF Unfinished, Days
<1>3. CASE old = {}
  <2>1. o = [rows |-> r, desk |-> d, on |-> TRUE]  BY <1>3 DEF OlderDays
  <2>2. Finished(r)  BY <1>3 DEF Unfinished, Finished
  <2> QED  BY <2>1, <2>2, LeadsStays
<1>4. CASE old # {} /\ broken
  <2>1. PICK e \in BrokenClose(d) :
          o = [rows |-> [r EXCEPT ![one] = ErrorRow(@)], desk |-> e, on |-> FALSE]
    BY <1>4 DEF OlderDays
  <2> HIDE DEF one, old
  <2>2. [r EXCEPT ![one] = ErrorRow(@)] \in RowsType  BY RowClosed DEF RowsType
  <2>3. Leads(d, e, FALSE)  BY <1>1, CloseLeads
  <2> QED  BY <2>1, <2>2, <2>3
<1>5. CASE old # {} /\ ~broken
  <2>1. PICK e \in CloseDesk(d) :
          o = [rows |-> IF Flat(e) THEN [k \in Days |-> IF k \in old THEN ClosedRow(r[k], e) ELSE r[k]]
                                   ELSE [r EXCEPT ![one] = ClosedRow(@, e)],
               desk |-> e, on |-> Flat(e)]
    BY <1>5 DEF OlderDays
  <2> HIDE DEF one
  <2> DEFINE new == [k \in Days |-> IF k \in old THEN ClosedRow(r[k], e) ELSE r[k]]
             some == [r EXCEPT ![one] = ClosedRow(@, e)]
  <2>2. new \in RowsType /\ some \in RowsType  BY RowClosed DEF RowsType
  <2>3. Leads(d, e, FALSE)  BY <1>1, CloseLeads
  <2>4. ASSUME Flat(e) PROVE new[Day] = r[Day] /\ Finished(new)
    <3>1. new[Day] = r[Day]  BY <1>1, <1>2
    <3>2. ASSUME NEW j \in 1 .. Day - 1 PROVE new[j].st \in {"none", "COMPLETE"}
      <4>1. j \in Days  BY <1>1, Constants DEF Days
      <4>2. CASE j \in old
        <5>1. new[j] = ClosedRow(r[j], e) /\ r[j] \in RowType  BY <4>1, <4>2 DEF RowsType
        <5> QED  BY <2>4, <5>1 DEF ClosedRow, RowType
      <4>3. CASE j \notin old
        <5>1. new[j] = r[j]  BY <4>1, <4>3
        <5> QED  BY <4>3, <5>1 DEF Unfinished
      <4> QED  BY <4>2, <4>3
    <3> HIDE DEF new
    <3> QED  BY <3>1, <3>2 DEF Finished
  <2> HIDE DEF new, some, old
  <2>5. o = [rows |-> IF Flat(e) THEN new ELSE some, desk |-> e, on |-> Flat(e)]
    BY <2>1 DEF new, some
  <2> QED  BY <2>2, <2>3, <2>4, <2>5
<1> QED  BY <1>3, <1>4, <1>5

\* Today: entries only where the row carries the consent of this boot.
LEMMA TodayLeads ==
  ASSUME NEW d, Sound(d), now \in Times, boot \in 1 .. MaxBoot, NEW r \in RowsType,
         NEW healthy \in BOOLEAN, NEW broken \in BOOLEAN, NEW o \in Today(d, r, healthy, broken)
  PROVE  /\ o.rows \in RowsType /\ \A j \in Days : j # Day => o.rows[j] = r[j]
         /\ Leads(d, o.desk, r[Day].armed = boot)
<1> DEFINE row == Revoked(r[Day])
           warm == [row EXCEPT !.warmed = boot]
           allowed == Consents(warm)
           ready == healthy /\ Phase < ObserveFrom
           Save(new, D) == {[rows |-> Mark(r, new), desk |-> e] : e \in D}
           Closings == CloseDesk(d) \cup BrokenClose(d)
           Passes(a) == Observe(d, a) \cup Broken(d, a)
<1>1. Day \in Days  BY DayIsOne
<1>2. row \in RowType /\ (row.armed = r[Day].armed \/ row.armed = Nobody)
  <2>1. r[Day] \in RowType  BY <1>1 DEF RowsType
  <2> QED  BY <2>1, RowFiled DEF Revoked, RowType
<1> HIDE DEF row
<1>3. warm \in RowType /\ warm.armed = row.armed
  <2>1. boot \in 0 .. MaxBoot  BY Constants
  <2> QED  BY <1>2, <2>1 DEF RowType
<1> HIDE DEF warm
<1>4. allowed \in BOOLEAN /\ (allowed => r[Day].armed = boot)
  BY <1>2, <1>3, Constants DEF Consents, Nobody
<1> HIDE DEF allowed
<1> DEFINE Passed == {d} \cup Closings \cup Passes(FALSE) \cup Passes(allowed)
           Filed(new, D) == o \in Save(new, D) /\ new \in RowType /\ D \subseteq Passed
<1>5. \E new, D : Filed(new, D)
  <2>1. CASE row.st = "COMPLETE"
    <3>1. o \in Save(row, {d})  BY <2>1 DEF Today, row, warm, allowed
    <3> QED  BY <1>2, <3>1
  <2>2. CASE row.st # "COMPLETE" /\ Phase >= Closes
    <3>0. ~(Phase < Closes) /\ ~(Phase < Premarket)  BY <2>2, PhaseBounds
    <3>1. CASE broken
      <4>1. o \in Save(ErrorRow(row), BrokenClose(d))
        BY <2>2, <3>0, <3>1 DEF Today, row, warm, allowed
      <4> QED  BY <1>2, <4>1, RowClosed
    <3>2. CASE ~broken
      <4>1. PICK e \in CloseDesk(d) : o \in Save(ClosedRow(row, e), {e})
        BY <2>2, <3>0, <3>2 DEF Today, row, warm, allowed
      <4> QED  BY <1>2, <4>1, RowClosed
    <3> QED  BY <3>1, <3>2
  <2>3. CASE row.st # "COMPLETE" /\ Phase < Premarket
    <3>1. o \in Save([row EXCEPT !.st = "WAITING"], {d})
      <4>1. ~(Phase >= Closes) /\ ~(Premarket <= Phase)  BY <2>3, PhaseBounds
      <4> QED  BY <2>3, <4>1 DEF Today, row, warm, allowed
    <3>2. [row EXCEPT !.st = "WAITING"] \in RowType  BY <1>2, RowFiled DEF RowStates
    <3> QED  BY <3>1, <3>2
  <2>4. CASE row.st # "COMPLETE" /\ Premarket <= Phase /\ Phase < Closes /\ (~healthy \/ ready)
    <3>0. ~(Phase >= Closes) /\ ~(Phase < Premarket)  BY <2>4, PhaseBounds
    <3>1. CASE broken
      <4>1. o \in Save(ErrorRow(row), IF ~ready /\ Phase >= Opens THEN Broken(d, FALSE) ELSE {d})
        BY <2>4, <3>0, <3>1 DEF Today, row, warm, allowed
      <4> QED  BY <1>2, <4>1, RowClosed
    <3>2. CASE ~broken /\ ready
      <4>1. o \in Save([warm EXCEPT !.st = "READY"], {d})
        BY <2>4, <3>0, <3>2 DEF Today, row, warm, allowed
      <4>2. [warm EXCEPT !.st = "READY"] \in RowType  BY <1>3, RowFiled DEF RowStates
      <4> QED  BY <4>1, <4>2
    <3>3. CASE ~broken /\ ~ready
      <4> DEFINE new == [row EXCEPT !.st = "BLOCKED_DEPENDENCIES", !.armed = Nobody]
      <4>1. o \in Save(new, IF Phase >= Opens THEN Observe(d, FALSE) ELSE {d})
        BY <2>4, <3>0, <3>3 DEF Today, row, warm, allowed
      <4>2. new \in RowType  BY <1>2, RowFiled DEF RowStates
      <4> HIDE DEF new
      <4> QED  BY <4>1, <4>2
    <3> QED  BY <3>1, <3>2, <3>3
  <2>5. CASE row.st # "COMPLETE" /\ Premarket <= Phase /\ Phase < Closes /\ healthy /\ ~ready
    <3>0. ~(Phase >= Closes) /\ ~(Phase < Premarket)  BY <2>5, PhaseBounds
    <3>1. CASE broken
      <4>1. o \in Save(ErrorRow(row), {d}) \cup Save(ErrorRow(warm), Broken(d, allowed))
        BY <2>5, <3>0, <3>1 DEF Today, row, warm, allowed
      <4> QED  BY <1>2, <1>3, <4>1, RowClosed
    <3>2. CASE ~broken
      <4> DEFINE st == IF allowed THEN "OBSERVING" ELSE "OBSERVING_NO_ENTRIES"
      <4>1. o \in Save([warm EXCEPT !.st = st], Observe(d, allowed))
        BY <2>5, <3>0, <3>2 DEF Today, row, warm, allowed
      <4>2. st \in RowStates  BY DEF RowStates
      <4> HIDE DEF st
      <4>3. [warm EXCEPT !.st = st] \in RowType  BY <1>3, <4>2, RowFiled
      <4> QED  BY <4>1, <4>3
    <3> QED  BY <3>1, <3>2
  <2>6. Phase \in Int /\ Closes \in Int /\ Premarket \in Int  BY PhaseBounds
  <2>7. Phase < Premarket \/ Phase >= Closes \/ (Premarket <= Phase /\ Phase < Closes)  BY <2>6
  <2> HIDE DEF Filed, ready
  <2> QED  BY <2>1, <2>2, <2>3, <2>4, <2>5, <2>7
<1>6. PICK new \in RowType, e \in Passed : o = [rows |-> Mark(r, new), desk |-> e]
  BY <1>5
<1>7. Leads(d, e, r[Day].armed = boot)
  <2>1. ASSUME NEW a \in {FALSE, allowed}, e \in Passes(a) PROVE Leads(d, e, r[Day].armed = boot)
    <3>1. Leads(d, e, a)  BY <1>1, <1>4, <2>1, ObserveLeads
    <3> QED  BY <1>4, <3>1, LeadsWeaker
  <2>2. CASE e = d  BY <2>2, LeadsStays
  <2>3. CASE e \in Closings
    <3>1. Leads(d, e, FALSE)  BY <1>1, <2>3, CloseLeads
    <3> QED  BY <3>1, LeadsWeaker
  <2> QED  BY <1>6, <2>1, <2>2, <2>3
<1>8. Mark(r, new) \in RowsType /\ \A j \in Days : j # Day => Mark(r, new)[j] = r[j]
  BY <1>1, <1>6 DEF Mark, RowsType
<1> QED  BY <1>6, <1>7, <1>8

LEMMA TickOutcome ==
  ASSUME Sound(desk), now \in Times, boot \in 1 .. MaxBoot, rows \in RowsType,
         NEW q \in Feeds, NEW ready \in BOOLEAN, NEW broken \in BOOLEAN,
         NEW o \in TickOutcomes(q, ready, broken)
  PROVE  /\ o.rows \in RowsType
         /\ Leads(desk, o.desk, rows[Day].armed = boot /\ Finished(o.rows))
<1> DEFINE d == Ingested(desk, q)
           allowed == rows[Day].armed = boot /\ Finished(o.rows)
<1>1. Day \in Days  BY DayIsOne
<1>2. Leads(desk, d, FALSE) /\ Sound(d)
  <2>1. Leads(desk, d, FALSE)  BY IngestedLeads
  <2> HIDE DEF d
  <2> QED  BY <2>1 DEF Leads
<1>3. PICK p \in OlderDays(d, rows, broken) :
        \/ p.on /\ o \in Today(p.desk, p.rows, Healthy(q, ready), broken)
        \/ o = [rows |-> p.rows, desk |-> p.desk]
  BY DEF TickOutcomes
<1> HIDE DEF d
<1>4. /\ p.rows \in RowsType /\ Leads(d, p.desk, FALSE)
      /\ p.on => p.rows[Day] = rows[Day] /\ Finished(p.rows)
  BY <1>2, OlderLead
<1>5. Leads(desk, p.desk, FALSE)
  <2> DEFINE e == p.desk
  <2>1. Leads(d, e, FALSE)  BY <1>4
  <2> HIDE DEF e
  <2>2. Leads(desk, e, FALSE)  BY <1>1, <1>2, <2>1, LeadsOn
  <2> QED  BY <2>2 DEF e
<1>6. CASE o = [rows |-> p.rows, desk |-> p.desk]
  <2>1. Leads(desk, o.desk, FALSE)  BY <1>5, <1>6
  <2> QED  BY <1>4, <1>6, <2>1, LeadsWeaker
<1>7. CASE p.on /\ o \in Today(p.desk, p.rows, Healthy(q, ready), broken)
  <2> DEFINE e == p.desk
             f == o.desk
             healthy == Healthy(q, ready)
             armed == rows[Day].armed = boot
  <2>1. Leads(desk, e, FALSE) /\ Sound(e)
    <3>1. Leads(desk, e, FALSE)  BY <1>5
    <3> HIDE DEF e
    <3> QED  BY <3>1 DEF Leads
  <2>2. healthy \in BOOLEAN  BY DEF Healthy, Arrived
  <2> HIDE DEF healthy
  <2>3. /\ o.rows \in RowsType /\ \A j \in Days : j # Day => o.rows[j] = p.rows[j]
        /\ Leads(e, f, armed)
    <3> HIDE DEF e
    <3>1. o \in Today(e, p.rows, healthy, broken)  BY <1>7 DEF e, healthy
    <3>2. /\ o.rows \in RowsType /\ \A j \in Days : j # Day => o.rows[j] = p.rows[j]
          /\ Leads(e, f, p.rows[Day].armed = boot)
      BY <1>4, <2>1, <2>2, <3>1, TodayLeads
    <3>3. p.rows[Day] = rows[Day]  BY <1>4, <1>7
    <3> QED  BY <3>2, <3>3
  <2>4. Finished(o.rows)
    <3> SUFFICES ASSUME NEW j \in 1 .. Day - 1 PROVE o.rows[j].st \in {"none", "COMPLETE"}
      BY DEF Finished
    <3>1. j \in Days /\ j # Day  BY <1>1, Constants DEF Days
    <3>2. o.rows[j] = p.rows[j]  BY <2>3, <3>1
    <3>3. p.rows[j].st \in {"none", "COMPLETE"}  BY <1>4, <1>7 DEF Finished
    <3> QED  BY <3>2, <3>3
  <2> HIDE DEF e, f
  <2>5. Leads(desk, f, armed)
    <3> HIDE DEF armed
    <3> QED  BY <1>1, <2>1, <2>3, LeadsOn
  <2>6. Leads(desk, f, armed /\ Finished(o.rows))  BY <2>4, <2>5, LeadsWeaker
  <2> QED  BY <2>3, <2>6 DEF f
<1> QED  BY <1>3, <1>6, <1>7

-----------------------------------------------------------------------------
(* The invariant, and what a step keeps.                                    *)

CashInv == CashTypeOK /\ Sound(desk)

StopsStand ==
  \A k \in Days : /\ desk.sess[k] = "stopping" => desk'.sess[k] \in {"stopping", "completed"}
                  /\ desk.sess[k] = "completed" => desk'.sess[k] = "completed"
Consented(i) ==
  LET k == desk'.sig[i].of
  IN desk'.sig[i].st = "entered" /\ desk.sig[i].st # "entered" /\ k # Nobody =>
       /\ k = Day /\ ~halted /\ desk.sess[k] \in {"armed", "running"}
       /\ mode.lifecycle => /\ rows[k].armed = boot
                            /\ \A j \in 1 .. k - 1 : rows'[j].st \in {"none", "COMPLETE"}
Kept == Sound(desk') /\ StopsStand /\ \A i \in Slots : Consented(i)

LEMMA Context ==
  ASSUME CashInv
  PROVE  /\ now \in Times /\ boot \in 1 .. MaxBoot /\ rows \in RowsType /\ Sound(desk)
         /\ desk \in DeskType /\ Day \in Days /\ mode \in Modes
         /\ halted \in BOOLEAN /\ sound \in BOOLEAN /\ mode.lifecycle \in BOOLEAN
<1>1. now \in Times /\ boot \in 1 .. MaxBoot /\ rows \in RowsType /\ Sound(desk) /\ mode \in Modes
  BY DEF CashInv, CashTypeOK, RowsType, RowType, RowStates
<1>2. halted \in BOOLEAN /\ sound \in BOOLEAN  BY DEF CashInv, CashTypeOK
<1>3. mode \in [lifecycle : BOOLEAN, auto : BOOLEAN]  BY <1>1, CashAssumption
<1> QED  BY <1>1, <1>2, <1>3, DayIsOne DEF Sound

\* What a handler may turn the desk into, a step may.
LEMMA KeptIfLeads ==
  ASSUME CashInv, NEW d, Leads(desk, d, mode.lifecycle => rows[Day].armed = boot /\ Finished(rows')),
         desk' = d
  PROVE  Kept
<1>1. Sound(desk') /\ Forward(desk, desk')  BY DEF Leads
<1>2. StopsStand  BY <1>1 DEF Forward, StopsStand
<1>3. ASSUME NEW i \in Slots PROVE Consented(i)
  <2> SUFFICES ASSUME desk'.sig[i].st = "entered", desk.sig[i].st # "entered"
               PROVE  LET k == desk'.sig[i].of
                      IN /\ k = Day /\ ~halted /\ desk.sess[k] \in {"armed", "running"}
                         /\ mode.lifecycle => /\ rows[k].armed = boot
                                              /\ \A j \in 1 .. k - 1 : rows'[j].st \in {"none", "COMPLETE"}
    BY DEF Consented
  <2>1. i \in NewlyHeld(desk, d)  BY DEF NewlyHeld, Held
  <2>2. /\ mode.lifecycle => rows[Day].armed = boot /\ Finished(rows')
        /\ ~halted /\ d.sig[i].of = Day /\ desk.sess[Day] \in Active
    BY <2>1 DEF Leads
  <2> QED  BY <2>2 DEF Finished, Active
<1> QED  BY <1>1, <1>2, <1>3 DEF Kept

LEMMA KeptIfSame == ASSUME CashInv, desk' = desk PROVE Kept
<1>1. Sound(desk)  BY Context
<1> QED  BY <1>1, LeadsStays, KeptIfLeads

LEMMA KeptIfCommitted ==
  ASSUME CashInv, NEW d, NEW r, Commit(r, d),
         Leads(desk, d, mode.lifecycle => rows[Day].armed = boot /\ Finished(rows'))
  PROVE  Kept
<1>1. desk' = d \/ desk' = desk  BY DEF Commit
<1> QED  BY <1>1, KeptIfLeads, KeptIfSame

LEMMA KeptByTick ==
  ASSUME CashInv, NEW q \in Feeds, NEW ready \in BOOLEAN, NEW broken \in BOOLEAN,
         Tick(q, ready, broken)
  PROVE  Kept /\ rows' \in RowsType
<1>1. PICK o \in TickOutcomes(q, ready, broken) : Commit(o.rows, o.desk)  BY DEF Tick
<1>2. /\ o.rows \in RowsType
      /\ Leads(desk, o.desk, rows[Day].armed = boot /\ Finished(o.rows))
  BY Context, TickOutcome
<1>3. rows' = o.rows  BY <1>1 DEF Commit
<1> DEFINE d == o.desk
<1>4. Leads(desk, d, rows[Day].armed = boot /\ Finished(rows'))  BY <1>2, <1>3
<1>5. Commit(o.rows, d)  BY <1>1
<1> HIDE DEF d
<1>6. Leads(desk, d, mode.lifecycle => rows[Day].armed = boot /\ Finished(rows'))
  BY <1>4, LeadsWeaker
<1> QED  BY <1>2, <1>3, <1>5, <1>6, KeptIfCommitted

LEMMA KeptByRunOnce ==
  ASSUME CashInv, NEW q \in Feeds, NEW broken \in BOOLEAN, RunOnce(q, broken)
  PROVE  Kept /\ rows' \in RowsType
<1> DEFINE d == Ingested(desk, q)
           open == Phase < Cutoff
<1>1. Day \in Days /\ Sound(desk) /\ now \in Times /\ rows \in RowsType /\ ~mode.lifecycle
      /\ rows' = rows
  BY Context DEF RunOnce
<1>2. Leads(desk, d, TRUE)  BY <1>1, IngestedLeads
<1>3. open \in BOOLEAN  OBVIOUS
<1>4. \/ desk' \in Broken(d, open) \/ desk' \in Observe(d, open)
      \/ \E e \in Observe(d, FALSE) : desk' = Reconciled(e)
  BY DEF RunOnce
<1> HIDE DEF d, open
<1>5. Sound(d)  BY <1>2 DEF Leads
<1>6. ASSUME NEW a \in BOOLEAN, NEW e \in Observe(d, a) \cup Broken(d, a)
      PROVE  Leads(desk, e, TRUE) /\ Sound(e)
  <2>1. Leads(d, e, a)  BY <1>1, <1>5, <1>6, ObserveLeads
  <2>2. Leads(d, e, TRUE)  BY <2>1, LeadsWeaker
  <2>3. Leads(desk, e, TRUE)  BY <1>1, <1>2, <2>2, LeadsOn
  <2> QED  BY <2>3 DEF Leads
<1>7. PICK f : desk' = f /\ Leads(desk, f, TRUE)
  <2>1. CASE desk' \in Broken(d, open) \/ desk' \in Observe(d, open)
    BY <1>3, <1>6, <2>1
  <2>2. CASE \E e \in Observe(d, FALSE) : desk' = Reconciled(e)
    <3>1. PICK e \in Observe(d, FALSE) : desk' = Reconciled(e)  BY <2>2
    <3>2. Leads(desk, e, TRUE) /\ Sound(e)  BY <1>6, <3>1
    <3>3. Leads(e, Reconciled(e), TRUE)  BY <3>2, ReconciledLeads
    <3>4. Leads(desk, Reconciled(e), TRUE)
      <4> DEFINE g == Reconciled(e)
      <4>1. Leads(e, g, TRUE)  BY <3>3
      <4> HIDE DEF g
      <4>2. Leads(desk, g, TRUE)  BY <1>1, <3>2, <4>1, LeadsOn
      <4> QED  BY <4>2 DEF g
    <3> QED  BY <3>1, <3>4
  <2> QED  BY <1>4, <2>1, <2>2
<1>8. Leads(desk, f, mode.lifecycle => rows[Day].armed = boot /\ Finished(rows'))
  BY <1>1, <1>7, LeadsWeaker
<1> QED  BY <1>1, <1>7, <1>8, KeptIfLeads

\* The feed that comes with an operator's request.
Requested(q) == IF mode.lifecycle THEN Ingested(desk, q) ELSE desk

LEMMA RequestLeads ==
  ASSUME CashInv, NEW q \in Feeds, NEW d, d = Requested(q)
  PROVE  Leads(desk, d, FALSE) /\ Sound(d) /\ d.sess = desk.sess /\ d.sig = desk.sig
<1>1. Sound(desk) /\ desk \in DeskType  BY Context
<1>2. Leads(desk, d, FALSE)  BY <1>1, LeadsStays, IngestedLeads DEF Requested
<1>3. d.sess = desk.sess /\ d.sig = desk.sig  BY <1>1 DEF Requested, Ingested, DeskType
<1> QED  BY <1>2, <1>3 DEF Leads

LEMMA ArmedRows == ASSUME CashInv PROVE Armed \in RowsType
<1>1. boot \in 0 .. MaxBoot  BY Context, Constants
<1>2. rows \in RowsType /\ Day \in Days  BY Context
<1> DEFINE row == rows[Day]
           st == IF row.st = "none" THEN "WAITING" ELSE row.st
           new == [row EXCEPT !.armed = boot, !.st = st]
<1>3. row \in RowType  BY <1>2 DEF RowsType
<1>4. Armed = [rows EXCEPT ![Day] = new]  BY DEF Armed
<1> HIDE DEF row
<1>5. st \in RowStates  BY <1>3 DEF RowType, RowStates
<1> HIDE DEF st
<1>6. new \in RowType  BY <1>1, <1>3, <1>5 DEF RowType
<1> HIDE DEF new
<1> QED  BY <1>2, <1>4, <1>6 DEF RowsType

\* RUN arms a session of a day that has none, and enters nothing.
LEMMA KeptByStart ==
  ASSUME CashInv, NEW q \in Feeds, NEW ready \in BOOLEAN, StartSession(q, ready)
  PROVE  Kept /\ rows' \in RowsType
<1> DEFINE d == Requested(q)
           sess == [d.sess EXCEPT ![Day] = "armed"]
           a == [d EXCEPT !.sess = sess]
           e == Expire(a, Slots)
<1>1. Day \in Days /\ desk \in DeskType /\ rows \in RowsType  BY Context
<1>2. desk.sess[Day] = "none" /\ (desk' = e \/ desk' = desk) /\ (rows' = Armed \/ rows' = rows)
  BY DEF StartSession, Commit, SetSession, Requested
<1> HIDE DEF d
<1>3. Sound(d) /\ d.sess = desk.sess /\ d.sig = desk.sig  BY RequestLeads DEF d
<1>4. /\ sess \in [Days -> SessionStates]
      /\ \A k \in Days : sess[k] = IF k = Day THEN "armed" ELSE desk.sess[k]
  BY <1>1, <1>3 DEF DeskType, SessionStates
<1> HIDE DEF sess
<1>5. Sound(a) /\ a.sess = sess /\ a.sig = d.sig  BY <1>3, <1>4, RegradedSound
<1> HIDE DEF a
<1>6. Sound(e) /\ e.sess = sess /\ Held(e) = Held(desk)
  <2>1. Leads(a, e, FALSE) /\ e.sess = a.sess /\ Held(e) = Held(a)  BY <1>5, ExpireLeads
  <2>2. Held(a) = Held(desk)  BY <1>3, <1>5 DEF Held
  <2> QED  BY <1>5, <2>1, <2>2 DEF Leads
<1> HIDE DEF e
<1>7. ASSUME desk' = e PROVE Kept
  <2>1. StopsStand  BY <1>2, <1>4, <1>6, <1>7 DEF StopsStand
  <2>2. \A i \in Slots : desk'.sig[i].st = "entered" => desk.sig[i].st = "entered"
    BY <1>6, <1>7 DEF Held
  <2>3. \A i \in Slots : Consented(i)  BY <2>2 DEF Consented
  <2>4. Sound(desk')  BY <1>6, <1>7
  <2> QED  BY <2>1, <2>3, <2>4 DEF Kept
<1>8. rows' \in RowsType  BY <1>1, <1>2, ArmedRows
<1> QED  BY <1>2, <1>7, <1>8, KeptIfSame

LEMMA KeptByRepeat ==
  ASSUME CashInv, NEW q \in Feeds, NEW ready \in BOOLEAN, RepeatRun(q, ready)
  PROVE  Kept /\ rows' \in RowsType
<1> DEFINE d == Requested(q)
<1>1. Commit(Armed, d)  BY DEF RepeatRun, Requested
<1> HIDE DEF d
<1>2. Leads(desk, d, FALSE)  BY RequestLeads DEF d
<1>3. Leads(desk, d, mode.lifecycle => rows[Day].armed = boot /\ Finished(rows'))
  BY <1>2, LeadsWeaker
<1> QED  BY <1>1, <1>3, KeptIfCommitted, ArmedRows DEF Commit

LEMMA KeptByStop ==
  ASSUME CashInv, StopSession
  PROVE  Kept /\ rows' \in RowsType
<1> DEFINE d == StopActive(desk)
           r == [k \in Days |-> [rows[k] EXCEPT !.armed = Nobody]]
<1>1. Commit(r, d)  BY DEF StopSession
<1>2. r \in RowsType
  <2>1. \A k \in Days : [rows[k] EXCEPT !.armed = Nobody] \in RowType
    BY Context, RowFiled DEF RowsType, RowType
  <2> QED  BY <2>1 DEF RowsType
<1> HIDE DEF d, r
<1>3. Leads(desk, d, FALSE)  BY Context, StopLeads DEF d
<1>4. Leads(desk, d, mode.lifecycle => rows[Day].armed = boot /\ Finished(rows'))
  BY <1>3, LeadsWeaker
<1> QED  BY <1>1, <1>2, <1>4, KeptIfCommitted DEF Commit

\* An operator's approval is no session's entry, and is paid at the last bid.
LEMMA KeptByApprove ==
  ASSUME CashInv, NEW i \in Slots, NEW q \in Feeds, NEW ready \in BOOLEAN, Approve(i, q, ready)
  PROVE  Kept /\ rows' \in RowsType
<1> DEFINE d == Requested(q)
           e == Enter(d, {i})
<1>1. desk' = e /\ rows' = rows /\ EntryOpen(d, i) /\ d.sig[i].of = Nobody
  BY DEF Approve, Requested
<1> HIDE DEF d
<1>2. Sound(d) /\ d.sess = desk.sess /\ d.sig = desk.sig  BY RequestLeads DEF d
<1>3. d \in DeskType /\ Balanced(d) /\ d.sig[i].st = "pending"
  BY <1>1, <1>2 DEF Sound, EntryOpen
<1>4. /\ e \in DeskType /\ Balanced(e) /\ e.sess = d.sess /\ Held(e) = Held(d) \cup {i}
      /\ Renamed(d, e) = {} /\ Changed(d, e) \subseteq {i}
  BY <1>3, EnterFacts
<1> HIDE DEF e
<1>5. \A j \in Slots : e.sig[j].of = d.sig[j].of  BY <1>4 DEF Renamed
<1>6. \A j \in Slots : j # i => e.sig[j] = d.sig[j]  BY <1>4 DEF Changed
<1>7. \A k \in Days : k # Nobody  BY Constants DEF Days, Nobody
<1>8. ASSUME NEW k \in Days, NEW j \in Slots, e.sig[j].of = k PROVE e.sig[j] = d.sig[j] /\ d.sig[j].of = k
  <2>1. j # i  BY <1>1, <1>5, <1>7, <1>8
  <2> QED  BY <1>5, <1>6, <1>8, <2>1
<1>9. Settled(e)
  <2> SUFFICES ASSUME NEW k \in Days, d.sess[k] = "completed", NEW j \in Slots, e.sig[j].of = k,
                      e.sig[j].st \in {"pending", "entered"}
               PROVE  FALSE
    BY <1>4 DEF Settled, SignalsOf
  <2>1. d.sig[j].st \in {"pending", "entered"} /\ d.sig[j].of = k  BY <1>8
  <2> QED  BY <1>2, <2>1 DEF Sound, Settled, SignalsOf
<1>10. Budgeted(e)
  <2> SUFFICES ASSUME NEW k \in Days PROVE Exposure(e, k) <= Budget
    BY DEF Budgeted
  <2>1. HeldIn(e, k) \subseteq HeldIn(d, k) /\ \A j \in HeldIn(e, k) : e.sig[j].fill = d.sig[j].fill
    BY <1>8 DEF HeldIn, SignalsOf
  <2>2. Exposure(e, k) <= Exposure(d, k)  BY <1>3, <1>4, <2>1, ExposureNotRaised
  <2>3. Exposure(d, k) <= Budget  BY <1>2 DEF Sound, Budgeted
  <2>4. Exposure(e, k) \in Int /\ Exposure(d, k) \in Int /\ Budget \in Int
    BY <1>3, <1>4, ExposureIsTotal, Constants
  <2> QED  BY <2>2, <2>3, <2>4
<1>11. Sound(e)  BY <1>4, <1>9, <1>10 DEF Sound
<1>12. StopsStand  BY <1>1, <1>2, <1>4 DEF StopsStand
<1>13. \A j \in Slots : Consented(j)
  <2> SUFFICES ASSUME NEW j \in Slots, e.sig[j].st = "entered", desk.sig[j].st # "entered",
                      e.sig[j].of # Nobody
               PROVE  FALSE
    BY <1>1 DEF Consented
  <2>1. j # i  BY <1>1, <1>5
  <2> QED  BY <1>2, <1>6, <2>1
<1> QED  BY <1>1, <1>11, <1>12, <1>13, Context DEF Kept

LEMMA KeptByReject ==
  ASSUME CashInv, NEW i \in Slots, Reject(i)
  PROVE  Kept /\ rows' \in RowsType
<1> DEFINE sig == [desk.sig EXCEPT ![i].st = "rejected"]
           d == [desk EXCEPT !.sig = sig]
<1>1. desk \in DeskType /\ Sound(desk) /\ rows \in RowsType  BY Context
<1>2. desk' = d /\ rows' = rows /\ desk.sig[i].st = "pending"  BY <1>1 DEF Reject, DeskType
<1>3. desk.sig[i] \in SignalType /\ desk.sig \in [Slots -> SignalType]
  BY <1>1, SignalFields DEF DeskType
<1>4. \A j \in Slots : sig[j] = IF j = i THEN [desk.sig[i] EXCEPT !.st = "rejected"] ELSE desk.sig[j]
  BY <1>3
<1>5. [desk.sig[i] EXCEPT !.st = "rejected"] \in SignalType
  BY <1>3 DEF SignalType, Statuses
<1>6. sig \in [Slots -> SignalType]  BY <1>3, <1>5
<1>7. sig[i].st = "rejected" /\ sig[i].of = desk.sig[i].of  BY <1>3, <1>4 DEF SignalType
<1> HIDE DEF sig
<1>8. \A j \in Slots :
        /\ sig[j].st = "entered" \/ desk.sig[j].st = "entered" => sig[j] = desk.sig[j]
        /\ desk.sig[j].st # "free" => sig[j].st # "free" /\ sig[j].of = desk.sig[j].of
        /\ sig[j].st = "pending" =>
             desk.sig[j].st = "pending" \/ (sig[j].of \in Days => desk.sess[sig[j].of] # "completed")
  <2> SUFFICES ASSUME NEW j \in Slots
               PROVE  /\ sig[j].st = "entered" \/ desk.sig[j].st = "entered" => sig[j] = desk.sig[j]
                      /\ desk.sig[j].st # "free" => sig[j].st # "free" /\ sig[j].of = desk.sig[j].of
                      /\ sig[j].st = "pending" =>
                           \/ desk.sig[j].st = "pending"
                           \/ sig[j].of \in Days => desk.sess[sig[j].of] # "completed"
    OBVIOUS
  <2>1. CASE j = i  BY <1>2, <1>7, <2>1
  <2>2. CASE j # i
    <3>1. sig[j] = desk.sig[j]  BY <1>4, <2>2
    <3> QED  BY <3>1
  <2> QED  BY <2>1, <2>2
<1>9. Leads(desk, d, FALSE)  BY <1>1, <1>6, <1>8, Refiled
<1> HIDE DEF d
<1>10. Leads(desk, d, mode.lifecycle => rows[Day].armed = boot /\ Finished(rows'))
  BY <1>9, LeadsWeaker
<1> QED  BY <1>1, <1>2, <1>10, KeptIfLeads

LEMMA KeptByAdvance ==
  ASSUME CashInv, Advance
  PROVE  Kept /\ rows' \in RowsType
<1>1. desk \in DeskType /\ Sound(desk) /\ rows \in RowsType  BY Context
<1>2. rows' = rows /\ desk' = [desk EXCEPT !.quote = [s \in Symbols |-> [@[s] EXCEPT !.fresh = FALSE]]]
  BY DEF Advance
<1>3. /\ desk' \in DeskType /\ desk'.sess = desk.sess /\ desk'.sig = desk.sig
      /\ desk'.cash = desk.cash /\ desk'.realized = desk.realized
  BY <1>1, <1>2 DEF DeskType, QuoteType
<1>4. Leads(desk, desk', mode.lifecycle => rows[Day].armed = boot /\ Finished(rows'))
  BY <1>1, <1>3, Repriced
<1> QED  BY <1>1, <1>2, <1>4, KeptIfLeads

LEMMA KeptByNext ==
  ASSUME CashInv, [CashNext]_cashVars
  PROVE  Kept /\ rows' \in RowsType
<1>1. CASE UNCHANGED cashVars  BY <1>1, Context, KeptIfSame DEF cashVars
<1>2. CASE SetHalt \/ Reboot  BY <1>2, Context, KeptIfSame DEF SetHalt, Reboot
<1>3. CASE \E q \in Feeds, ready, broken \in BOOLEAN : Tick(q, ready, broken)  BY <1>3, KeptByTick
<1>4. CASE \E q \in Feeds, broken \in BOOLEAN : RunOnce(q, broken)  BY <1>4, KeptByRunOnce
<1>5. CASE \E q \in Feeds, ready \in BOOLEAN : StartSession(q, ready) \/ RepeatRun(q, ready)
  BY <1>5, KeptByStart, KeptByRepeat
<1>6. CASE StopSession  BY <1>6, KeptByStop
<1>7. CASE \E i \in Slots, q \in Feeds, ready \in BOOLEAN : Approve(i, q, ready)
  BY <1>7, KeptByApprove
<1>8. CASE \E i \in Slots : Reject(i)  BY <1>8, KeptByReject
<1>9. CASE Advance  BY <1>9, KeptByAdvance
<1> QED  BY <1>1, <1>2, <1>3, <1>4, <1>5, <1>6, <1>7, <1>8, <1>9 DEF CashNext

\* The rest of the state keeps its types.
LEMMA OthersTyped ==
  ASSUME CashInv, [CashNext]_cashVars
  PROVE  /\ now' \in Times /\ mode' \in Modes /\ boot' \in 1 .. MaxBoot
         /\ halted' \in BOOLEAN /\ sound' \in BOOLEAN
<1>1. /\ now \in Times /\ mode \in Modes /\ boot \in 1 .. MaxBoot
      /\ halted \in BOOLEAN /\ sound \in BOOLEAN
  BY Context
<1>2. CASE UNCHANGED cashVars  BY <1>1, <1>2 DEF cashVars
<1>3. CASE SetHalt  BY <1>1, <1>3 DEF SetHalt
<1>4. CASE Reboot
  <2>1. boot' = boot + 1 /\ boot < MaxBoot /\ UNCHANGED <<now, mode, halted>> /\ sound' = FALSE
    BY <1>4 DEF Reboot
  <2>2. boot' \in 1 .. MaxBoot  BY <1>1, <2>1, Constants
  <2> QED  BY <1>1, <2>1, <2>2
<1>5. CASE Advance  BY <1>1, <1>5 DEF Advance
<1>6. ASSUME NEW q \in Feeds, NEW ready \in BOOLEAN, NEW broken \in BOOLEAN, Tick(q, ready, broken)
      PROVE  UNCHANGED <<now, mode, boot, halted>> /\ sound' \in BOOLEAN
  <2>1. (Arrived(q) /\ ready) \in BOOLEAN  OBVIOUS
  <2> QED  BY <1>6, <2>1 DEF Tick
<1>7. ASSUME NEW q \in Feeds, NEW broken \in BOOLEAN, RunOnce(q, broken)
      PROVE  UNCHANGED <<now, mode, boot, halted>> /\ sound' \in BOOLEAN
  BY <1>7 DEF RunOnce
<1>8. ASSUME NEW q \in Feeds, NEW ready \in BOOLEAN, StartSession(q, ready) \/ RepeatRun(q, ready)
      PROVE  UNCHANGED <<now, mode, boot, halted>> /\ sound' \in BOOLEAN
  BY <1>8 DEF StartSession, RepeatRun
<1>9. ASSUME NEW i \in Slots, NEW q \in Feeds, NEW ready \in BOOLEAN, Approve(i, q, ready)
      PROVE  UNCHANGED <<now, mode, boot, halted>> /\ sound' \in BOOLEAN
  BY <1>9 DEF Approve
<1>10. ASSUME NEW i \in Slots, Reject(i)
       PROVE  UNCHANGED <<now, mode, boot, halted>> /\ sound' \in BOOLEAN
  BY <1>10 DEF Reject
<1>11. CASE StopSession  BY <1>1, <1>11 DEF StopSession
<1> QED  BY <1>1, <1>2, <1>3, <1>4, <1>5, <1>6, <1>7, <1>8, <1>9, <1>10, <1>11 DEF CashNext

LEMMA TypeOfDesk == CashTypeOK <=> /\ now \in Times /\ mode \in Modes /\ boot \in 1 .. MaxBoot
                                   /\ halted \in BOOLEAN /\ sound \in BOOLEAN
                                   /\ rows \in RowsType /\ desk \in DeskType
BY DEF CashTypeOK, RowsType, RowType, RowStates, DeskType, SessionStates, SignalType, Statuses,
       QuoteType, Verdicts

LEMMA CashInitially == CashInit => CashInv
<1> SUFFICES ASSUME CashInit PROVE CashInv
  OBVIOUS
<1>1. /\ desk.sess = [k \in Days |-> "none"] /\ desk.sig = [i \in Slots |-> NoSignal]
      /\ desk.cash = Capital /\ desk.realized = 0
  BY DEF CashInit
<1>2. NoSignal \in SignalType  BY NoSignalTyped
<1>3. desk \in DeskType
  <2>1. \A s \in Symbols : (CHOOSE p \in Prices[s] : TRUE) \in Nat
    <3>1. \A s \in Symbols : Prices[s] \in SUBSET Nat /\ Prices[s] # {}  BY CashAssumption
    <3> QED  BY <3>1
  <2>2. [s \in Symbols |-> [fresh |-> FALSE, bid |-> CHOOSE p \in Prices[s] : TRUE]] \in QuoteType
    BY <2>1 DEF QuoteType
  <2>3. [i \in Slots |-> NoSignal] \in [Slots -> SignalType]  BY <1>2
  <2>4. [k \in Days |-> "none"] \in [Days -> SessionStates]  BY DEF SessionStates
  <2>5. [k \in Days |-> "none"] \in [Days -> Verdicts]  BY DEF Verdicts
  <2> HIDE DEF NoSignal
  <2> QED  BY <2>2, <2>3, <2>4, <2>5, Constants DEF CashInit, DeskType
<1>4. \A i \in Slots : desk.sig[i].st = "free"  BY <1>1 DEF NoSignal
<1>5. Held(desk) = {} /\ \A k : HeldIn(desk, k) = {}
  BY <1>4 DEF Held, HeldIn, SignalsOf
<1>6. Balanced(desk)
  <2>1. Summed(Outlay(desk)) = Total(Outlay(desk), {})  BY <1>3, <1>5, OutlayTypes
  <2>2. Total(Outlay(desk), {}) = 0  BY TotalEmpty
  <2> QED  BY <1>1, <2>1, <2>2, Constants DEF Balanced
<1>7. Budgeted(desk)
  <2> SUFFICES ASSUME NEW k \in Days PROVE Exposure(desk, k) <= Budget
    BY DEF Budgeted
  <2>1. Exposure(desk, k) = Total(Cover(desk, k), {})  BY <1>3, <1>5, ExposureIsTotal
  <2>2. Total(Cover(desk, k), {}) = 0  BY TotalEmpty
  <2> QED  BY <2>1, <2>2, Constants
<1>8. Settled(desk)  BY <1>1 DEF Settled
<1>9. rows \in RowsType
  <2>1. NoRow \in RowType  BY Constants DEF NoRow, RowType, RowStates, Nobody
  <2> QED  BY <2>1 DEF CashInit, RowsType
<1>10. /\ now \in Times /\ mode \in Modes /\ boot \in 1 .. MaxBoot
       /\ halted \in BOOLEAN /\ sound \in BOOLEAN
  <2>1. now \in Times /\ boot \in 1 .. MaxBoot  BY Constants DEF CashInit, Times
  <2> QED  BY <2>1 DEF CashInit
<1> QED  BY <1>3, <1>6, <1>7, <1>8, <1>9, <1>10, TypeOfDesk DEF CashInv, Sound

LEMMA CashStep == CashInv /\ [CashNext]_cashVars => CashInv'
<1> SUFFICES ASSUME CashInv, [CashNext]_cashVars PROVE CashInv'
  OBVIOUS
<1>1. Kept /\ rows' \in RowsType  BY KeptByNext
<1>2. desk' \in DeskType  BY <1>1 DEF Kept, Sound
<1>3. /\ now' \in Times /\ mode' \in Modes /\ boot' \in 1 .. MaxBoot
      /\ halted' \in BOOLEAN /\ sound' \in BOOLEAN
  BY OthersTyped
<1>4. CashTypeOK'
  BY <1>1, <1>2, <1>3
  DEF CashTypeOK, RowsType, RowType, RowStates, DeskType, SessionStates, SignalType, Statuses,
      QuoteType, Verdicts
<1> QED  BY <1>1, <1>4 DEF CashInv, Kept

LEMMA CashInvHolds == CashSpec => []CashInv
BY CashInitially, CashStep, PTL DEF CashSpec

-----------------------------------------------------------------------------
(* The theorems.                                                            *)

\* No handler of the cash desk leaves a value outside its schema's domain
\* (intraday.py's tables and market_sessions).
THEOREM CashTypeCorrect == CashSpec => []CashTypeOK
<1>1. CashInv => CashTypeOK  BY DEF CashInv
<1> QED  BY <1>1, CashInvHolds, PTL

\* The account's cash is its capital plus realized results less what the open
\* entries cost, and the open entries of a session never cost more than the budget
\* its operator approved, whatever torn commits, exceptions and forced exits came in
\* (review, monitor_exits).
THEOREM MoneyIsKept == CashSpec => []MoneyKept
<1>1. CashInv => MoneyKept
  BY DEF CashInv, Sound, Balanced, Budgeted, Outlay, MoneyKept, BooksAgree, SpentWithinBudget
<1> QED  BY <1>1, CashInvHolds, PTL

\* A session reported completed holds no position and no signal that could still
\* become one (session_tick).
THEOREM CompletedStaysFlat == CashSpec => []CompletedIsFlat
<1>1. CashInv => CompletedIsFlat
  BY DEF CashInv, Sound, Settled, CompletedIsFlat
<1> QED  BY <1>1, CashInvHolds, PTL

\* No path authorises a stopped session again (session_tick, start_session).
THEOREM StopsAreFinal == CashSpec => StopIsFinal
<1>1. CashInv /\ [CashNext]_cashVars => [StopsStand]_cashVars
  BY KeptByNext DEF Kept
<1> QED  BY <1>1, CashInvHolds, PTL DEF CashSpec, StopIsFinal, StopsStand

\* A session's entry happens on its day, before it is told to stop, without a halt
\* and, under the orchestrator, on consent of this boot and with every earlier day
\* closed (session_entry_terms, the orchestrator's tick).
THEOREM EntriesAreConsented == CashSpec => EntryUnderConsent
<1>1. CashInv /\ [CashNext]_cashVars => [\A i \in Slots : Consented(i)]_cashVars
  BY KeptByNext DEF Kept
<1> QED  BY <1>1, CashInvHolds, PTL DEF CashSpec, EntryUnderConsent, Consented
=============================================================================
