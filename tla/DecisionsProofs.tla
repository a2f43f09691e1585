--------------------------- MODULE DecisionsProofs ---------------------------
(***************************************************************************)
(* Safety of what decides and of what it reads, each for any values of its *)
(* constants: the paper simulator, the core over it, the broker's reads,   *)
(* the studies of policies, and the journal over the candle history.  The  *)
(* core has the simulator's state; the others share none.                  *)
(***************************************************************************)
EXTENDS PaperCore, Baselines, ShadowEnvironment, BrokerReads, DecisionJournal,
        TrainingDatasets, Sums, SequenceTheorems, NaturalsInduction, WellFoundedInduction

----------------------------------------------------------------------------
(* The paper core: what a command leaves of the orders of a book.          *)

OrderOK(order) ==
  order = [terms |-> order.terms, status |-> order.status, submitted |-> order.submitted,
           entry |-> order.entry, mark |-> order.mark, fills |-> order.fills]

BookOK(b) ==
  /\ b = [cash |-> b.cash, realized |-> b.realized, clock |-> b.clock, orders |-> b.orders]
  /\ b.orders = [o \in DOMAIN b.orders |-> b.orders[o]]
  /\ IsFiniteSet(DOMAIN b.orders)
  /\ \A o \in DOMAIN b.orders : OrderOK(b.orders[o])

\* The same orders, on the terms and of the instant they were submitted with.
SameOrder(order, next) ==
  OrderOK(next) /\ next.terms = order.terms /\ next.submitted = order.submitted
Keeps(b, c) ==
  /\ BookOK(c)
  /\ DOMAIN c.orders = DOMAIN b.orders
  /\ \A o \in DOMAIN b.orders : SameOrder(b.orders[o], c.orders[o])

LEMMA KeepsItself == ASSUME NEW b, BookOK(b) PROVE Keeps(b, b)
BY DEF Keeps, BookOK, SameOrder

LEMMA KeepsOn == ASSUME NEW b, NEW c, NEW d, Keeps(b, c), Keeps(c, d) PROVE Keeps(b, d)
BY DEF Keeps, SameOrder

LEMMA OneOrder ==
  ASSUME NEW b, BookOK(b), NEW o \in DOMAIN b.orders, NEW x, SameOrder(b.orders[o], x),
         NEW c,
         c = [cash |-> c.cash, realized |-> c.realized, clock |-> c.clock, orders |-> c.orders],
         c.orders = [b.orders EXCEPT ![o] = x]
  PROVE  Keeps(b, c)
<1>1. c.orders = [b.orders EXCEPT ![o] = x]
  OBVIOUS
<1>2. PICK f : f = b.orders
  OBVIOUS
<1>3. PICK g : g = [f EXCEPT ![o] = x]
  OBVIOUS
<1>4. f = [p \in DOMAIN f |-> f[p]] /\ o \in DOMAIN f
  BY <1>2 DEF BookOK
<1>5. /\ DOMAIN g = DOMAIN f /\ g = [p \in DOMAIN g |-> g[p]]
      /\ \A p \in DOMAIN f : g[p] = IF p = o THEN x ELSE f[p]
  BY ONLY <1>3, <1>4
<1>6. BookOK(c)
  <2>1. c = [cash |-> c.cash, realized |-> c.realized, clock |-> c.clock, orders |-> c.orders]
    OBVIOUS
  <2>2. \A p \in DOMAIN c.orders : OrderOK(c.orders[p])
    BY <1>1, <1>2, <1>3, <1>5 DEF BookOK, SameOrder
  <2>3. QED
    BY <1>1, <1>2, <1>3, <1>5, <2>1, <2>2 DEF BookOK
<1>7. QED
  BY <1>1, <1>2, <1>3, <1>5, <1>6 DEF Keeps, BookOK, SameOrder

\* What a command may change of an order.
LEMMA SameStill ==
  ASSUME NEW order, NEW x, SameOrder(order, x), NEW v
  PROVE  /\ SameOrder(order, [x EXCEPT !.status = v])
         /\ SameOrder(order, [x EXCEPT !.entry = v])
         /\ SameOrder(order, [x EXCEPT !.mark = v])
         /\ SameOrder(order, [x EXCEPT !.fills = v])
BY DEF OrderOK, SameOrder

LEMMA SameEntered ==
  ASSUME NEW order, OrderOK(order), NEW entry, NEW mark, NEW req, NEW kind, NEW price
  PROVE  SameOrder(order, WithFill([order EXCEPT !.status = "OPEN", !.entry = entry, !.mark = mark],
                                   req, kind, price))
<1>1. SameOrder(order, order)
  BY DEF SameOrder
<1>2. PICK x : x = [order EXCEPT !.status = "OPEN"]
  OBVIOUS
<1>3. PICK y : y = [x EXCEPT !.entry = entry]
  OBVIOUS
<1>4. PICK z : z = [y EXCEPT !.mark = mark]
  OBVIOUS
<1>5. SameOrder(order, z)
  BY <1>1, <1>2, <1>3, <1>4, SameStill
<1>6. z = [order EXCEPT !.status = "OPEN", !.entry = entry, !.mark = mark]
  BY ONLY <1>2, <1>3, <1>4
<1>7. QED
  BY <1>5, <1>6, SameStill DEF WithFill

LEMMA SameLeft ==
  ASSUME NEW order, OrderOK(order), NEW mark, NEW req, NEW kind, NEW price
  PROVE  SameOrder(order, WithFill([order EXCEPT !.status = "CLOSED", !.mark = mark], req, kind, price))
<1>1. SameOrder(order, order)
  BY DEF SameOrder
<1>2. PICK x : x = [order EXCEPT !.status = "CLOSED"]
  OBVIOUS
<1>3. PICK y : y = [x EXCEPT !.mark = mark]
  OBVIOUS
<1>4. y = [order EXCEPT !.status = "CLOSED", !.mark = mark]
  BY ONLY <1>2, <1>3
<1>5. QED
  BY <1>1, <1>2, <1>3, <1>4, SameStill DEF WithFill

\* A quote meets an order, whatever becomes of it.
LEMMA MeetsKeeps ==
  ASSUME NEW b, BookOK(b), NEW o \in DOMAIN b.orders, NEW req
  PROVE  Keeps(b, Meets(b, o, req))
<1>1. /\ OrderOK(b.orders[o]) /\ SameOrder(b.orders[o], b.orders[o])
      /\ b = [cash |-> b.cash, realized |-> b.realized, clock |-> b.clock, orders |-> b.orders]
  BY DEF BookOK, SameOrder
<1>2. Keeps(b, b)
  BY KeepsItself
<1>3. ASSUME NEW v PROVE Keeps(b, [b EXCEPT !.orders[o].status = v])
  <2>1. PICK x : x = [b.orders[o] EXCEPT !.status = v]
    OBVIOUS
  <2>2. SameOrder(b.orders[o], x)
    BY <1>1, <2>1, SameStill
  <2>3. PICK c : c = [b EXCEPT !.orders[o].status = v]
    OBVIOUS
  <2>4. c = [cash |-> b.cash, realized |-> b.realized, clock |-> b.clock,
             orders |-> [b.orders EXCEPT ![o] = x]]
    BY ONLY <1>1, <2>1, <2>3
  <2>5. /\ c = [cash |-> c.cash, realized |-> c.realized, clock |-> c.clock, orders |-> c.orders]
        /\ c.orders = [b.orders EXCEPT ![o] = x]
    BY ONLY <2>4
  <2>6. Keeps(b, c)
    BY <2>2, <2>5, OneOrder
  <2>7. QED
    BY <2>3, <2>6
<1>4. ASSUME NEW v PROVE Keeps(b, [b EXCEPT !.orders[o].mark = v])
  <2>1. PICK x : x = [b.orders[o] EXCEPT !.mark = v]
    OBVIOUS
  <2>2. SameOrder(b.orders[o], x)
    BY <1>1, <2>1, SameStill
  <2>3. PICK c : c = [b EXCEPT !.orders[o].mark = v]
    OBVIOUS
  <2>4. c = [cash |-> b.cash, realized |-> b.realized, clock |-> b.clock,
             orders |-> [b.orders EXCEPT ![o] = x]]
    BY ONLY <1>1, <2>1, <2>3
  <2>5. /\ c = [cash |-> c.cash, realized |-> c.realized, clock |-> c.clock, orders |-> c.orders]
        /\ c.orders = [b.orders EXCEPT ![o] = x]
    BY ONLY <2>4
  <2>6. Keeps(b, c)
    BY <2>2, <2>5, OneOrder
  <2>7. QED
    BY <2>3, <2>6
<1>5. Keeps(b, Enter(b, o, req))
  <2>1. PICK fill : fill = FillPrice(req, b.orders[o].terms.long)
    OBVIOUS
  <2>2. PICK x : x = WithFill([b.orders[o] EXCEPT !.status = "OPEN", !.entry = fill,
                                !.mark = Mark(req, b.orders[o].terms.long)], req, "ENTRY", fill)
    OBVIOUS
  <2>3. PICK cash : cash = b.cash - Value(fill, b.orders[o].terms.quantity)
                             - FeeOn(fill, b.orders[o].terms.quantity)
    OBVIOUS
  <2>4. PICK c : c = [b EXCEPT !.cash = cash, !.orders[o] = x]
    OBVIOUS
  <2>5. Enter(b, o, req) \in {[b EXCEPT !.orders[o].status = "CANCELLED"], b,
                             [b EXCEPT !.orders[o].status = "REJECTED"], c}
    BY <2>1, <2>2, <2>3, <2>4 DEF Enter
  <2>6. Keeps(b, c)
    <3>1. SameOrder(b.orders[o], x)
      BY <1>1, <2>2, SameEntered
    <3>2. c = [cash |-> cash, realized |-> b.realized, clock |-> b.clock,
               orders |-> [b.orders EXCEPT ![o] = x]]
      BY ONLY <1>1, <2>4
    <3>3. /\ c = [cash |-> c.cash, realized |-> c.realized, clock |-> c.clock, orders |-> c.orders]
          /\ c.orders = [b.orders EXCEPT ![o] = x]
      BY ONLY <3>2
    <3>4. QED
      BY <3>1, <3>3, OneOrder
  <2>7. QED
    BY <1>2, <1>3, <2>5, <2>6
<1>6. Keeps(b, Leave(b, o, req))
  <2>1. PICK mark : mark = Mark(req, b.orders[o].terms.long)
    OBVIOUS
  <2>2. PICK x : x = WithFill([b.orders[o] EXCEPT !.status = "CLOSED", !.mark = mark], req, "EXIT",
                              FillPrice(req, ~b.orders[o].terms.long))
    OBVIOUS
  <2>3. PICK cash, realized, c :
          /\ c = [b EXCEPT !.cash = cash, !.realized = realized, !.orders[o] = x]
          /\ Leave(b, o, req) \in {[b EXCEPT !.orders[o].mark = mark], c}
    <3> DEFINE fill == FillPrice(req, ~b.orders[o].terms.long)
               q == b.orders[o].terms.quantity
               gross == Value(Gain(b.orders[o].terms, b.orders[o].entry, fill), q)
               money == b.cash + Value(b.orders[o].entry, q) + gross - FeeOn(fill, q)
               result == b.realized + gross - FeeOn(b.orders[o].entry, q) - FeeOn(fill, q)
    <3>1. PICK cash : cash = money
      OBVIOUS
    <3>2. PICK realized : realized = result
      OBVIOUS
    <3>3. PICK c : c = [b EXCEPT !.cash = cash, !.realized = realized, !.orders[o] = x]
      OBVIOUS
    <3>4. Leave(b, o, req) \in {[b EXCEPT !.orders[o].mark = mark], c}
      BY <2>1, <2>2, <3>1, <3>2, <3>3 DEF Leave
    <3>5. QED
      BY <3>3, <3>4
  <2>4. Keeps(b, c)
    <3>1. SameOrder(b.orders[o], x)
      BY <1>1, <2>2, SameLeft
    <3>2. PICK d : d = [b EXCEPT !.cash = cash, !.realized = realized]
      OBVIOUS
    <3>3. d = [cash |-> cash, realized |-> realized, clock |-> b.clock, orders |-> b.orders]
      BY ONLY <1>1, <3>2
    <3>4. c = [d EXCEPT !.orders[o] = x]
      BY ONLY <2>3, <3>2
    <3>5. /\ c = [cash |-> c.cash, realized |-> c.realized, clock |-> c.clock, orders |-> c.orders]
          /\ c.orders = [b.orders EXCEPT ![o] = x]
      BY ONLY <3>3, <3>4
    <3>6. QED
      BY <3>1, <3>5, OneOrder
  <2>5. QED
    BY <1>4, <2>3, <2>4
<1>7. QED
  BY <1>2, <1>5, <1>6 DEF Meets

----------------------------------------------------------------------------
(* A quote goes round the orders, one after the other.  The round is a     *)
(* fold; that it has a value is proved as Sums does it for a sum.          *)

IsRound(g, b, req, S) ==
  g = [s \in SUBSET S |-> IF s = {} THEN b ELSE Meets(g[s \ {Pick(s)}], Pick(s), req)]

LEMMA RoundStep ==
  ASSUME NEW g, NEW b, NEW req, NEW S, IsRound(g, b, req, S), NEW s \in SUBSET S
  PROVE  /\ s = {} => g[s] = b
         /\ s # {} => g[s] = Meets(g[s \ {Pick(s)}], Pick(s), req)
BY DEF IsRound

LEMMA RoundUnique ==
  ASSUME NEW b, NEW req, NEW S, IsFiniteSet(S), NEW g, NEW h, IsRound(g, b, req, S), IsRound(h, b, req, S)
  PROVE  g = h
<1> DEFINE T == {s \in SUBSET S : g[s] # h[s]}
<1>1. T = {}
  <2> SUFFICES ASSUME T # {} PROVE FALSE
    OBVIOUS
  <2>a. T \in SUBSET SUBSET S
    OBVIOUS
  <2>1. PICK m \in T : \A u \in T : u \subseteq m => u = m
    <3> HIDE DEF T
    <3> QED
      BY <2>a, Smallest
  <2>2. m # {} /\ m \in SUBSET S
    <3>1. {} \in SUBSET S /\ g[{}] = b /\ h[{}] = b
      BY RoundStep
    <3> QED
      BY <2>1, <3>1
  <2>3. m \ {Pick(m)} \notin T /\ m \ {Pick(m)} \in SUBSET S
    BY <2>1, <2>2, Picked
  <2>4. g[m \ {Pick(m)}] = h[m \ {Pick(m)}]
    BY <2>3
  <2> QED
    BY <2>1, <2>2, <2>4, RoundStep
<1>2. \A s \in SUBSET S : g[s] = h[s]
  BY <1>1
<1>3. g = [s \in SUBSET S |-> g[s]] /\ h = [s \in SUBSET S |-> h[s]]
  BY DEF IsRound
<1> QED
  BY <1>2, <1>3

LEMMA RoundRestricted ==
  ASSUME NEW b, NEW req, NEW S, NEW g, IsRound(g, b, req, S), NEW U \in SUBSET S
  PROVE  IsRound([s \in SUBSET U |-> g[s]], b, req, U)
<1> DEFINE h == [s \in SUBSET U |-> g[s]]
<1>1. ASSUME NEW s \in SUBSET U
      PROVE  h[s] = IF s = {} THEN b ELSE Meets(h[s \ {Pick(s)}], Pick(s), req)
  <2>1. s \in SUBSET S /\ s \ {Pick(s)} \in SUBSET U
    OBVIOUS
  <2>2. h[s] = g[s] /\ h[s \ {Pick(s)}] = g[s \ {Pick(s)}]
    BY <2>1
  <2> HIDE DEF h
  <2>3. CASE s = {}
    BY <2>1, <2>2, <2>3, RoundStep
  <2>4. CASE s # {}
    <3>1. g[s] = Meets(g[s \ {Pick(s)}], Pick(s), req)
      BY <2>1, <2>4, RoundStep
    <3> QED
      BY <2>2, <2>4, <3>1
  <2> QED
    BY <2>3, <2>4
<1> QED
  BY <1>1 DEF IsRound

\* The recursive function exists over every finite set.
LEMMA RoundExists ==
  ASSUME NEW b, NEW req, NEW S, IsFiniteSet(S)
  PROVE  \E g : IsRound(g, b, req, S)
<1> DEFINE Bad == {U \in SUBSET S : ~\E g : IsRound(g, b, req, U)}
<1> SUFFICES ASSUME Bad # {} PROVE FALSE
  OBVIOUS
<1>a. Bad \in SUBSET SUBSET S
  OBVIOUS
<1>1. PICK U \in Bad : \A V \in Bad : V \subseteq U => V = U
  <2> HIDE DEF Bad
  <2> QED
    BY <1>a, Smallest
<1> DEFINE G(V) == CHOOSE g : IsRound(g, b, req, V)
           Rest(s) == s \ {Pick(s)}
           h == [s \in SUBSET U |-> IF s = {} THEN b ELSE Meets(G(Rest(s))[Rest(s)], Pick(s), req)]
<1>2. ASSUME NEW V \in SUBSET U, V # U PROVE IsRound(G(V), b, req, V)
  BY <1>1, <1>2
<1>3. ASSUME NEW s \in SUBSET U, s # {}
      PROVE  Rest(s) \in SUBSET U /\ Rest(s) # U /\ Rest(s) \subseteq s
  BY <1>3, Picked
<1>4. ASSUME NEW V \in SUBSET U, V # U PROVE h[V] = G(V)[V]
  <2>1. IsRound(G(V), b, req, V)
    BY <1>2, <1>4
  <2>2. CASE V = {}
    BY <2>1, <2>2, RoundStep
  <2>3. CASE V # {}
    <3> DEFINE W == Rest(V)
    <3>1. W \in SUBSET U /\ W # U /\ W \in SUBSET V
      BY <1>3, <2>3
    <3>2. IsRound(G(W), b, req, W)
      BY <1>2, <3>1
    <3>3. IsRound([s \in SUBSET W |-> G(V)[s]], b, req, W)
      BY <2>1, <3>1, RoundRestricted
    <3>4. IsFiniteSet(W)
      BY <1>1, <3>1, FS_Subset
    <3> HIDE DEF G
    <3>5. G(W) = [s \in SUBSET W |-> G(V)[s]]
      BY <3>2, <3>3, <3>4, RoundUnique
    <3>6. G(W)[W] = G(V)[W]
      BY <3>5
    <3>7. G(V)[V] = Meets(G(V)[W], Pick(V), req)
      BY <2>1, <2>3, RoundStep
    <3> QED
      BY <2>3, <3>6, <3>7
  <2> QED
    BY <2>2, <2>3
<1>5. \A s \in SUBSET U : h[s] = IF s = {} THEN b ELSE Meets(h[Rest(s)], Pick(s), req)
  <2> SUFFICES ASSUME NEW s \in SUBSET U
               PROVE  h[s] = IF s = {} THEN b ELSE Meets(h[Rest(s)], Pick(s), req)
    OBVIOUS
  <2>1. CASE s = {}
    BY <2>1
  <2>2. CASE s # {}
    <3>1. h[s] = Meets(G(Rest(s))[Rest(s)], Pick(s), req)
      BY <2>2
    <3>2. h[Rest(s)] = G(Rest(s))[Rest(s)]
      BY <1>3, <1>4, <2>2
    <3> HIDE DEF h, G
    <3> QED
      BY <2>2, <3>1, <3>2
  <2> QED
    BY <2>1, <2>2
<1>6. IsRound(h, b, req, U)
  <2>1. h = [s \in SUBSET U |-> h[s]]
    OBVIOUS
  <2> HIDE DEF h
  <2> QED
    BY <1>5, <2>1 DEF IsRound
<1> QED
  BY <1>1, <1>6

\* What a quote leaves is the last value of its round.
LEMMA QuotedRound ==
  ASSUME NEW b, BookOK(b), NEW req, NEW c \in Quoted(b, req)
  PROVE  \E g : IsRound(g, b, req, DOMAIN b.orders) /\ c = g[DOMAIN b.orders]
<1>a. PICK S : S = DOMAIN b.orders
  OBVIOUS
<1>1. IsFiniteSet(S)
  BY <1>a DEF BookOK
<1> DEFINE h == CHOOSE g : IsRound(g, b, req, S)
<1>2. IsRound(h, b, req, S)
  BY <1>1, RoundExists
<1>3. c = h[S]
  BY <1>a DEF Quoted, Refused, FoldSet, MapThenFoldSet, IsRound, Pick
<1>4. QED
  BY <1>a, <1>2, <1>3

LEMMA QuotedKeeps ==
  ASSUME NEW b, BookOK(b), NEW req, NEW c \in Quoted(b, req)
  PROVE  Keeps(b, c)
<1>a. PICK S : S = DOMAIN b.orders
  OBVIOUS
<1>1. IsFiniteSet(S)
  BY <1>a DEF BookOK
<1>2. PICK g : IsRound(g, b, req, S) /\ c = g[S]
  BY <1>a, QuotedRound
<1> DEFINE Bad == {s \in SUBSET S : ~Keeps(b, g[s])}
<1>3. Bad = {}
  <2> SUFFICES ASSUME Bad # {} PROVE FALSE
    OBVIOUS
  <2>1. Bad \in SUBSET SUBSET S
    OBVIOUS
  <2>2. PICK s \in Bad : \A u \in Bad : u \subseteq s => u = s
    <3> HIDE DEF Bad
    <3>1. QED
      BY <1>1, <2>1, Smallest
  <2>3. s # {}
    BY <1>2, KeepsItself, RoundStep
  <2>4. Pick(s) \in s /\ Pick(s) \in S /\ s \ {Pick(s)} \in SUBSET S /\ s \ {Pick(s)} \notin Bad
    BY <2>2, <2>3, Picked
  <2>5. PICK d : d = g[s \ {Pick(s)}]
    OBVIOUS
  <2>6. Keeps(b, d)
    BY <2>4, <2>5
  <2>7. Keeps(d, Meets(d, Pick(s), req))
    <3>1. BookOK(d) /\ Pick(s) \in DOMAIN d.orders
      BY <1>a, <2>4, <2>6 DEF Keeps
    <3>2. QED
      BY <3>1, MeetsKeeps
  <2>8. g[s] = Meets(d, Pick(s), req)
    <3>1. s \in SUBSET S
      OBVIOUS
    <3>2. g[s] = Meets(g[s \ {Pick(s)}], Pick(s), req)
      BY ONLY <1>2, <2>3, <3>1, RoundStep
    <3>3. QED
      BY <2>5, <3>2
  <2>9. QED
    BY <2>2, <2>6, <2>7, <2>8, KeepsOn
<1>4. QED
  BY <1>2, <1>3

LEMMA ClockSet ==
  ASSUME NEW b, NEW c, Keeps(b, c), NEW t
  PROVE  Keeps(b, [c EXCEPT !.clock = t])
<1>1. PICK d : d = [c EXCEPT !.clock = t]
  OBVIOUS
<1>2. d = [cash |-> c.cash, realized |-> c.realized, clock |-> t, orders |-> c.orders]
  BY <1>1 DEF Keeps, BookOK
<1>3. /\ d = [cash |-> d.cash, realized |-> d.realized, clock |-> d.clock, orders |-> d.orders]
      /\ d.orders = c.orders
  BY ONLY <1>2
<1>4. Keeps(b, d)
  BY <1>3 DEF Keeps, BookOK
<1>5. QED
  BY <1>1, <1>4

LEMMA EndKeeps ==
  ASSUME NEW b, BookOK(b), NEW req, NEW c \in SessionEnded(b, req)
  PROVE  Keeps(b, c)
<1>1. PICK f : f = [o \in DOMAIN b.orders |->
                      IF req.at < b.orders[o].terms.ends THEN b.orders[o]
                      ELSE [b.orders[o] EXCEPT !.status = StatusAtEnd(@)]]
  OBVIOUS
<1>2. c = [b EXCEPT !.orders = f]
  BY <1>1 DEF SessionEnded
<1>3. c = [cash |-> b.cash, realized |-> b.realized, clock |-> b.clock, orders |-> f]
  BY <1>2 DEF BookOK
<1>4. /\ c = [cash |-> c.cash, realized |-> c.realized, clock |-> c.clock, orders |-> c.orders]
      /\ c.orders = f
  BY ONLY <1>3
<1>5. DOMAIN f = DOMAIN b.orders /\ f = [o \in DOMAIN f |-> f[o]]
  BY <1>1
<1>6. ASSUME NEW o \in DOMAIN b.orders PROVE SameOrder(b.orders[o], f[o])
  <2>1. SameOrder(b.orders[o], b.orders[o])
    BY DEF BookOK, SameOrder
  <2>2. PICK x, v : x = [b.orders[o] EXCEPT !.status = v] /\ f[o] \in {b.orders[o], x}
    BY <1>1
  <2>3. SameOrder(b.orders[o], x)
    BY <2>1, <2>2, SameStill
  <2>4. QED
    BY <2>1, <2>2, <2>3
<1>7. QED
  BY <1>4, <1>5, <1>6 DEF Keeps, BookOK, SameOrder

\* A quote and a session's end, known or new.
LEMMA AfterKeeps ==
  ASSUME NEW ledger, BookOK(ledger.book), NEW req, req.kind \in {"quote", "end"},
         NEW l \in After(ledger, req)
  PROVE  Keeps(ledger.book, l.book)
<1>1. CASE Known(ledger, req.id)
  <2>1. l = ledger
    BY <1>1 DEF After
  <2>2. QED
    BY <2>1, KeepsItself
<1>2. CASE ~Known(ledger, req.id)
  <2>1. PICK b \in Applied(ledger.book, req) :
          l = [book |-> [b EXCEPT !.clock = req.at], events |-> ledger.events \cup {req}]
    BY <1>2 DEF After, Refused
  <2>2. b \in Quoted(ledger.book, req) \/ b \in SessionEnded(ledger.book, req)
    BY <2>1 DEF Applied
  <2>3. Keeps(ledger.book, b)
    BY <2>2, QuotedKeeps, EndKeeps
  <2>4. l.book = [b EXCEPT !.clock = req.at]
    BY <2>1
  <2>5. QED
    BY <2>3, <2>4, ClockSet
<1>3. QED
  BY <1>1, <1>2

----------------------------------------------------------------------------
(* The simulator's books, for any commands.                                *)

Refusals == {"PENDING", "CANCELLED", "REJECTED"}

FillOK(f, kind, E, t) == f.kind = kind /\ f.at \in Nat /\ f.at <= t /\ \E e \in E : e.id = f.by

\* An order's fills are what its status says, by events that are known and past.
OrderSound(order, E, t) ==
  /\ order.terms.long \in BOOLEAN /\ order.terms.quantity \in Nat /\ order.terms.ends \in Nat
  /\ order.entry \in Int
  /\ \/ order.status \in Refusals /\ order.fills = <<>>
     \/ /\ order.status \in Entered
        /\ \E f : /\ order.fills = <<f>> /\ FillOK(f, "ENTRY", E, t) /\ f.at < order.terms.ends
     \/ /\ order.status = "CLOSED"
        /\ \E f, g : /\ order.fills = <<f, g>>
                     /\ FillOK(f, "ENTRY", E, t) /\ f.at < order.terms.ends
                     /\ FillOK(g, "EXIT", E, t) /\ f.at <= g.at /\ f.by # g.by

\* What an order keeps from the cash while it is open.
HeldBy(order) ==
  IF order.status \in Entered
  THEN Value(order.entry, order.terms.quantity) + FeeOn(order.entry, order.terms.quantity)
  ELSE 0
Keepings(b) == [o \in DOMAIN b.orders |-> HeldBy(b.orders[o])]
HeldIn(b) == Total(Keepings(b), DOMAIN b.orders)

SoundBook(b, E, t) ==
  /\ BookOK(b) /\ b.cash \in Int /\ b.realized \in Int
  /\ \A o \in DOMAIN b.orders : OrderSound(b.orders[o], E, t)
  /\ b.cash + HeldIn(b) = InitialCapital + b.realized

LEMMA MoneyType ==
  ASSUME NEW p \in Int, NEW q \in Nat
  PROVE  Value(p, q) \in Int /\ FeeOn(p, q) \in Int
BY SimulatorAssumption DEF Value, FeeOn

LEMMA PriceType ==
  ASSUME NEW req, req.bid \in Nat, req.ask \in Nat, NEW buy \in BOOLEAN
  PROVE  FillPrice(req, buy) \in Int
<1>1. \A p \in Nat : p * (SlippageScale + Slippage) + SlippageScale - 1 \in Int
                     /\ p * (SlippageScale - Slippage) \in Int
  BY SimulatorAssumption
<1>2. SlippageScale \in Nat \ {0}
  BY SimulatorAssumption
<1>3. \A x \in Int, y \in Nat \ {0} : x \div y \in Int
  OBVIOUS
<1>4. QED
  BY <1>1, <1>2, <1>3 DEF FillPrice, Slipped, CeilDiv

LEMMA HeldType ==
  ASSUME NEW order, NEW E, NEW t, OrderSound(order, E, t)
  PROVE  HeldBy(order) \in Int
<1>1. PICK p, q : p = order.entry /\ q = order.terms.quantity
  OBVIOUS
<1>2. p \in Int /\ q \in Nat
  BY <1>1 DEF OrderSound
<1>3. Value(p, q) \in Int /\ FeeOn(p, q) \in Int
  BY <1>2, MoneyType
<1>4. HeldBy(order) \in {Value(p, q) + FeeOn(p, q), 0}
  BY <1>1 DEF HeldBy
<1>5. QED
  BY <1>3, <1>4

LEMMA HeldInType ==
  ASSUME NEW b, NEW E, NEW t, SoundBook(b, E, t)
  PROVE  HeldIn(b) \in Int
<1>1. IsFiniteSet(DOMAIN b.orders) /\ \A o \in DOMAIN b.orders : Keepings(b)[o] \in Int
  BY HeldType DEF SoundBook, BookOK, Keepings
<1>2. QED
  BY <1>1, TotalInteger DEF HeldIn

LEMMA Later ==
  ASSUME NEW order, NEW E, NEW F, NEW t \in Nat, NEW u \in Nat, OrderSound(order, E, t),
         E \subseteq F, t <= u
  PROVE  OrderSound(order, F, u)
<1>1. \A f, k : FillOK(f, k, E, t) => FillOK(f, k, F, u)
  BY DEF FillOK
<1>2. QED
  BY <1>1 DEF OrderSound

\* One order changes, and with it the money it holds.
LEMMA OneSound ==
  ASSUME NEW b, NEW E, NEW t, SoundBook(b, E, t), NEW o \in DOMAIN b.orders,
         NEW x, SameOrder(b.orders[o], x), OrderSound(x, E, t),
         NEW cash \in Int, NEW realized \in Int,
         cash + HeldBy(x) - realized = b.cash + HeldBy(b.orders[o]) - b.realized,
         NEW c, c = [cash |-> cash, realized |-> realized, clock |-> b.clock,
                     orders |-> [b.orders EXCEPT ![o] = x]]
  PROVE  /\ SoundBook(c, E, t) /\ DOMAIN c.orders = DOMAIN b.orders
         /\ \A p \in DOMAIN b.orders \ {o} : c.orders[p] = b.orders[p]
<1>1. /\ c = [cash |-> c.cash, realized |-> c.realized, clock |-> c.clock, orders |-> c.orders]
      /\ c.orders = [b.orders EXCEPT ![o] = x] /\ c.cash = cash /\ c.realized = realized
  BY ONLY c = [cash |-> cash, realized |-> realized, clock |-> b.clock,
               orders |-> [b.orders EXCEPT ![o] = x]]
<1>0. BookOK(b)
  BY DEF SoundBook
<1>2. Keeps(b, c)
  BY ONLY <1>0, <1>1, o \in DOMAIN b.orders, SameOrder(b.orders[o], x), OneOrder
<1>a. PICK f : f = b.orders
  OBVIOUS
<1>b. PICK h : h = c.orders
  OBVIOUS
<1>c. f = [p \in DOMAIN f |-> f[p]] /\ o \in DOMAIN f /\ h = [f EXCEPT ![o] = x]
  BY <1>1, <1>a, <1>b DEF SoundBook, BookOK
<1>d. DOMAIN h = DOMAIN f /\ \A p \in DOMAIN f : h[p] = IF p = o THEN x ELSE f[p]
  BY ONLY <1>c
<1>3. /\ DOMAIN c.orders = DOMAIN b.orders /\ c.orders[o] = x
      /\ \A p \in DOMAIN b.orders \ {o} : c.orders[p] = b.orders[p]
  BY <1>a, <1>b, <1>d
<1>4. \A p \in DOMAIN c.orders : OrderSound(c.orders[p], E, t)
  BY <1>3 DEF SoundBook
<1>5. HeldIn(c) - HeldBy(x) = HeldIn(b) - HeldBy(b.orders[o]) /\ HeldIn(b) \in Int /\ HeldIn(c) \in Int
  <2> DEFINE S == DOMAIN b.orders
  <2>1. IsFiniteSet(S) /\ IsFiniteSet(S \ {o}) /\ o \in S /\ DOMAIN c.orders = S
    BY <1>3, FS_Subset DEF SoundBook, BookOK
  <2>2. /\ \A p \in S : Keepings(b)[p] \in Int /\ Keepings(c)[p] \in Int
        /\ \A p \in S \ {o} : Keepings(b)[p] = Keepings(c)[p]
        /\ Keepings(b)[o] = HeldBy(b.orders[o]) /\ Keepings(c)[o] = HeldBy(x)
    BY <1>3, <1>4, HeldType DEF SoundBook, Keepings
  <2> HIDE DEF S
  <2>3. /\ Total(Keepings(b), S) = Keepings(b)[o] + Total(Keepings(b), S \ {o})
        /\ Total(Keepings(c), S) = Keepings(c)[o] + Total(Keepings(c), S \ {o})
    BY <2>1, <2>2, TotalWithout
  <2>4. Total(Keepings(b), S \ {o}) = Total(Keepings(c), S \ {o})
    BY <2>1, <2>2, TotalSame
  <2>5. Total(Keepings(b), S \ {o}) \in Int
    BY <2>1, <2>2, TotalInteger
  <2>6. HeldIn(b) = Total(Keepings(b), S) /\ HeldIn(c) = Total(Keepings(c), S)
    BY <2>1 DEF HeldIn, S
  <2>7. QED
    BY <2>1, <2>2, <2>3, <2>4, <2>5, <2>6
<1>6. c.cash + HeldIn(c) = InitialCapital + c.realized
  <2>1. b.cash + HeldIn(b) = InitialCapital + b.realized /\ b.cash \in Int /\ b.realized \in Int
    BY DEF SoundBook
  <2>2. HeldBy(x) \in Int /\ HeldBy(b.orders[o]) \in Int /\ InitialCapital \in Int
    BY HeldType, SimulatorAssumption DEF SoundBook
  <2>3. PICK B, C, H, D, X, Y :
          /\ B = b.cash /\ C = b.realized /\ H = HeldIn(b) /\ D = HeldIn(c)
          /\ X = HeldBy(x) /\ Y = HeldBy(b.orders[o])
    OBVIOUS
  <2>4. /\ B + H = InitialCapital + C /\ D - X = H - Y /\ cash + X - realized = B + Y - C
        /\ B \in Int /\ C \in Int /\ H \in Int /\ D \in Int /\ X \in Int /\ Y \in Int
        /\ cash \in Int /\ realized \in Int /\ InitialCapital \in Int
    BY <1>5, <2>1, <2>2, <2>3
  <2>5. cash + D = InitialCapital + realized
    BY ONLY <2>4
  <2>6. QED
    BY <1>1, <2>3, <2>5
<1>7. QED
  BY <1>1, <1>2, <1>3, <1>4, <1>6 DEF SoundBook, Keeps

LEMMA StatusParts ==
  ASSUME NEW order, OrderOK(order), NEW v, NEW x, x = [order EXCEPT !.status = v]
  PROVE  /\ SameOrder(order, x) /\ x.status = v
         /\ x.entry = order.entry /\ x.fills = order.fills
<1>1. x = [terms |-> order.terms, status |-> v, submitted |-> order.submitted,
           entry |-> order.entry, mark |-> order.mark, fills |-> order.fills]
  BY DEF OrderOK
<1>2. QED
  BY ONLY <1>1 DEF SameOrder, OrderOK

LEMMA MarkParts ==
  ASSUME NEW order, OrderOK(order), NEW v, NEW x, x = [order EXCEPT !.mark = v]
  PROVE  /\ SameOrder(order, x) /\ x.status = order.status
         /\ x.entry = order.entry /\ x.fills = order.fills
<1>1. x = [terms |-> order.terms, status |-> order.status, submitted |-> order.submitted,
           entry |-> order.entry, mark |-> v, fills |-> order.fills]
  BY DEF OrderOK
<1>2. QED
  BY ONLY <1>1 DEF SameOrder, OrderOK

LEMMA FillParts ==
  ASSUME NEW order, OrderOK(order), NEW req, NEW kind, NEW price, NEW f,
         f = [kind |-> kind, price |-> price, at |-> req.at, by |-> req.id]
  PROVE  WithFill(order, req, kind, price)
           = [terms |-> order.terms, status |-> order.status, submitted |-> order.submitted,
              entry |-> order.entry, mark |-> order.mark, fills |-> Append(order.fills, f)]
<1>1. PICK r : r = order
  OBVIOUS
<1>2. r = [terms |-> r.terms, status |-> r.status, submitted |-> r.submitted,
           entry |-> r.entry, mark |-> r.mark, fills |-> r.fills]
  BY <1>1 DEF OrderOK
<1>3. PICK g : g = Append(r.fills, f)
  OBVIOUS
<1>4. [r EXCEPT !.fills = g]
        = [terms |-> r.terms, status |-> r.status, submitted |-> r.submitted,
           entry |-> r.entry, mark |-> r.mark, fills |-> g]
  BY ONLY <1>2
<1>5. WithFill(r, req, kind, price) = [r EXCEPT !.fills = Append(@, f)]
  BY DEF WithFill
<1>6. [r EXCEPT !.fills = Append(@, f)] = [r EXCEPT !.fills = g]
  BY ONLY <1>3
<1>7. QED
  BY <1>1, <1>3, <1>4, <1>5, <1>6

LEMMA Appended == ASSUME NEW y, NEW z PROVE Append(<<y>>, z) = <<y, z>>
<1>1. <<y>> \in Seq({y, z}) /\ <<y, z>> \in Seq({y, z})
  OBVIOUS
<1>2. Append(<<y>>, z) \in Seq({y, z}) /\ Len(Append(<<y>>, z)) = 2 /\ Len(<<y, z>>) = 2
  BY <1>1
<1>3. \A i \in 1 .. Len(Append(<<y>>, z)) : Append(<<y>>, z)[i] = <<y, z>>[i]
  BY <1>1, <1>2
<1>4. QED
  BY <1>1, <1>2, <1>3, SeqEqual

\* A quote meets an order whose fills are all by earlier events.
LEMMA MeetsSound ==
  ASSUME NEW b, NEW E, NEW F, NEW req, RequestOK(req), req.kind = "quote",
         NEW t \in Nat, t <= req.at, E \subseteq F, req \in F, \A e \in E : e.id # req.id,
         SoundBook(b, F, req.at), NEW o \in DOMAIN b.orders, OrderSound(b.orders[o], E, t)
  PROVE  /\ SoundBook(Meets(b, o, req), F, req.at)
         /\ DOMAIN Meets(b, o, req).orders = DOMAIN b.orders
         /\ \A p \in DOMAIN b.orders \ {o} : Meets(b, o, req).orders[p] = b.orders[p]
<1> DEFINE Goal(c) == /\ SoundBook(c, F, req.at)
                      /\ DOMAIN c.orders = DOMAIN b.orders
                      /\ \A p \in DOMAIN b.orders \ {o} : c.orders[p] = b.orders[p]
<1> SUFFICES Goal(Meets(b, o, req))
  OBVIOUS
<1>1. PICK order : order = b.orders[o]
  OBVIOUS
<1>2. /\ OrderOK(order) /\ SameOrder(order, order)
      /\ OrderSound(order, F, req.at) /\ OrderSound(order, E, t)
      /\ b = [cash |-> b.cash, realized |-> b.realized, clock |-> b.clock, orders |-> b.orders]
      /\ b.cash \in Int /\ b.realized \in Int
  BY <1>1 DEF SoundBook, BookOK, SameOrder
<1>3. Goal(b)
  OBVIOUS
<1>4. /\ order.terms.long \in BOOLEAN /\ order.terms.quantity \in Nat /\ order.terms.ends \in Nat
      /\ order.entry \in Int /\ req.at \in Nat /\ req.bid \in Nat /\ req.ask \in Nat
  BY <1>2 DEF OrderSound, RequestOK
<1>5. ASSUME NEW x, SameOrder(order, x), OrderSound(x, F, req.at), HeldBy(x) = HeldBy(order),
             NEW c, c = [cash |-> b.cash, realized |-> b.realized, clock |-> b.clock,
                         orders |-> [b.orders EXCEPT ![o] = x]]
      PROVE  Goal(c)
  <2>1. b.cash + HeldBy(x) - b.realized = b.cash + HeldBy(b.orders[o]) - b.realized
    BY <1>1, <1>5
  <2>2. SameOrder(b.orders[o], x)
    BY <1>1, <1>5
  <2>3. QED
    BY ONLY <1>2, <1>5, <2>1, <2>2, SoundBook(b, F, req.at), o \in DOMAIN b.orders, OneSound
<1>6. ASSUME NEW v, v \in Refusals, order.status = "PENDING"
      PROVE  Goal([b EXCEPT !.orders[o].status = v])
  <2>1. PICK x : x = [order EXCEPT !.status = v]
    OBVIOUS
  <2>2. SameOrder(order, x) /\ x.status = v /\ x.entry = order.entry /\ x.fills = order.fills
    BY <1>2, <2>1, StatusParts
  <2>3. x.terms = order.terms /\ order.fills = <<>>
    BY <1>2, <1>6, <2>2 DEF SameOrder, OrderSound, Entered
  <2>4. OrderSound(x, F, req.at)
    BY <1>4, <1>6, <2>2, <2>3 DEF OrderSound
  <2>5. HeldBy(x) = HeldBy(order)
    BY <1>6, <2>2 DEF HeldBy, Entered, Refusals
  <2>6. PICK c : c = [b EXCEPT !.orders[o].status = v]
    OBVIOUS
  <2>7. c = [cash |-> b.cash, realized |-> b.realized, clock |-> b.clock,
             orders |-> [b.orders EXCEPT ![o] = x]]
    BY ONLY <1>1, <1>2, <2>1, <2>6
  <2>8. Goal(c)
    BY <1>5, <2>2, <2>4, <2>5, <2>7
  <2>9. QED
    BY <2>6, <2>8
<1>7. ASSUME NEW v, order.status \in Entered
      PROVE  Goal([b EXCEPT !.orders[o].mark = v])
  <2>1. PICK x : x = [order EXCEPT !.mark = v]
    OBVIOUS
  <2>2. /\ SameOrder(order, x) /\ x.status = order.status
        /\ x.entry = order.entry /\ x.fills = order.fills
    BY <1>2, <2>1, MarkParts
  <2>3. x.terms = order.terms
    BY <2>2 DEF SameOrder
  <2>4. OrderSound(x, F, req.at)
    BY ONLY <1>2, <2>2, <2>3 DEF OrderSound
  <2>5. HeldBy(x) = HeldBy(order)
    BY <2>2, <2>3 DEF HeldBy
  <2>6. PICK c : c = [b EXCEPT !.orders[o].mark = v]
    OBVIOUS
  <2>7. c = [cash |-> b.cash, realized |-> b.realized, clock |-> b.clock,
             orders |-> [b.orders EXCEPT ![o] = x]]
    BY ONLY <1>1, <1>2, <2>1, <2>6
  <2>8. Goal(c)
    BY <1>5, <2>2, <2>4, <2>5, <2>7
  <2>9. QED
    BY <2>6, <2>8
<1>q. PICK q : q = order.terms.quantity
  OBVIOUS
<1>f. PICK fill : fill = FillPrice(req, order.terms.long)
  OBVIOUS
<1>g. PICK price : price = FillPrice(req, ~order.terms.long)
  OBVIOUS
<1>h. fill \in Int /\ price \in Int /\ q \in Nat /\ order.entry \in Int
  BY <1>4, <1>q, <1>f, <1>g, PriceType
<1>i. /\ Value(fill, q) \in Int /\ FeeOn(fill, q) \in Int
      /\ Value(order.entry, q) \in Int /\ FeeOn(order.entry, q) \in Int /\ FeeOn(price, q) \in Int
  BY <1>h, MoneyType
<1>8. CASE order.status = "PENDING"
  <2>1. PICK mark : mark = Mark(req, order.terms.long)
    OBVIOUS
  <2>2. PICK f : f = [kind |-> "ENTRY", price |-> fill, at |-> req.at, by |-> req.id]
    OBVIOUS
  <2>3. PICK x : x = WithFill([order EXCEPT !.status = "OPEN", !.entry = fill, !.mark = mark],
                              req, "ENTRY", fill)
    OBVIOUS
  <2>4. PICK cash : cash = b.cash - Value(fill, q) - FeeOn(fill, q)
    OBVIOUS
  <2>5. PICK c : c = [b EXCEPT !.cash = cash, !.orders[o] = x]
    OBVIOUS
  <2>6. \/ Enter(b, o, req) \in {[b EXCEPT !.orders[o].status = "CANCELLED"], b,
                                [b EXCEPT !.orders[o].status = "REJECTED"]}
        \/ Enter(b, o, req) = c /\ ~(req.at >= order.terms.ends)
    BY <1>1, <1>f, <1>q, <2>1, <2>3, <2>4, <2>5 DEF Enter
  <2>7. ASSUME req.at < order.terms.ends PROVE Goal(c)
    <3>1. order.fills = <<>>
      BY <1>2, <1>8 DEF OrderSound, Entered
    <3>2. x = [terms |-> order.terms, status |-> "OPEN", submitted |-> order.submitted,
               entry |-> fill, mark |-> mark, fills |-> Append(order.fills, f)]
      <4>1. PICK a : a = [order EXCEPT !.status = "OPEN", !.entry = fill, !.mark = mark]
        OBVIOUS
      <4>2. a = [terms |-> order.terms, status |-> "OPEN", submitted |-> order.submitted,
                 entry |-> fill, mark |-> mark, fills |-> order.fills]
        BY ONLY <1>2, <4>1 DEF OrderOK
      <4>3. /\ OrderOK(a) /\ a.terms = order.terms /\ a.status = "OPEN"
            /\ a.submitted = order.submitted /\ a.entry = fill /\ a.mark = mark
            /\ a.fills = order.fills
        BY ONLY <4>2 DEF OrderOK
      <4>4. x = WithFill(a, req, "ENTRY", fill)
        BY ONLY <2>3, <4>1
      <4>5. QED
        BY ONLY <2>2, <4>3, <4>4, FillParts
    <3>3. Append(order.fills, f) = <<f>>
      BY ONLY <3>1
    <3>4. /\ x = [terms |-> x.terms, status |-> x.status, submitted |-> x.submitted,
                  entry |-> x.entry, mark |-> x.mark, fills |-> x.fills]
          /\ x.terms = order.terms /\ x.status = "OPEN" /\ x.submitted = order.submitted
          /\ x.entry = fill /\ x.fills = <<f>>
      BY ONLY <3>2, <3>3
    <3>5. SameOrder(order, x)
      BY ONLY <3>4 DEF SameOrder, OrderOK
    <3>6. FillOK(f, "ENTRY", F, req.at) /\ f.at < x.terms.ends
      <4>1. f.kind = "ENTRY" /\ f.at = req.at /\ f.by = req.id
        BY ONLY <2>2
      <4>2. QED
        BY <1>4, <2>7, <3>4, <4>1 DEF FillOK
    <3>7. OrderSound(x, F, req.at)
      <4>1. x.status \in Entered
        BY ONLY <3>4 DEF Entered
      <4>2. QED
        BY ONLY <1>4, <1>h, <3>4, <3>6, <4>1 DEF OrderSound
    <3>8. HeldBy(x) = Value(fill, q) + FeeOn(fill, q) /\ HeldBy(order) = 0
      BY <1>8, <1>q, <3>4 DEF HeldBy, Entered
    <3>9. cash \in Int /\ cash + HeldBy(x) - b.realized = b.cash + HeldBy(order) - b.realized
      BY ONLY <1>2, <1>i, <2>4, <3>8
    <3>10. c = [cash |-> cash, realized |-> b.realized, clock |-> b.clock,
                orders |-> [b.orders EXCEPT ![o] = x]]
      BY ONLY <1>2, <2>5
    <3>11. QED
      BY ONLY <1>1, <1>2, <3>5, <3>7, <3>9, <3>10, SoundBook(b, F, req.at), o \in DOMAIN b.orders,
              OneSound
  <2>8. Goal(Enter(b, o, req))
    <3>1. "CANCELLED" \in Refusals /\ "REJECTED" \in Refusals
      BY DEF Refusals
    <3>2. /\ Goal([b EXCEPT !.orders[o].status = "CANCELLED"])
          /\ Goal([b EXCEPT !.orders[o].status = "REJECTED"])
      BY <1>6, <1>8, <3>1
    <3>3. ~(req.at >= order.terms.ends) => req.at < order.terms.ends
      BY <1>4
    <3> HIDE DEF Goal
    <3>4. QED
      BY <1>3, <2>6, <2>7, <3>2, <3>3
  <2>9. QED
    BY <1>1, <1>8, <2>8 DEF Meets
<1>9. CASE order.status \in Entered
  <2>1. PICK mark : mark = Mark(req, order.terms.long)
    OBVIOUS
  <2>2. PICK g : g = [kind |-> "EXIT", price |-> price, at |-> req.at, by |-> req.id]
    OBVIOUS
  <2>3. PICK x : x = WithFill([order EXCEPT !.status = "CLOSED", !.mark = mark], req, "EXIT", price)
    OBVIOUS
  <2>4. PICK gross : gross = Value(Gain(order.terms, order.entry, price), q)
    OBVIOUS
  <2>5. PICK cash : cash = b.cash + Value(order.entry, q) + gross - FeeOn(price, q)
    OBVIOUS
  <2>6. PICK realized : realized = b.realized + gross - FeeOn(order.entry, q) - FeeOn(price, q)
    OBVIOUS
  <2>7. PICK c : c = [b EXCEPT !.cash = cash, !.realized = realized, !.orders[o] = x]
    OBVIOUS
  <2>8. Leave(b, o, req) \in {[b EXCEPT !.orders[o].mark = mark], c}
    BY <1>1, <1>g, <1>q, <2>1, <2>3, <2>4, <2>5, <2>6, <2>7 DEF Leave
  <2>9. Goal(c)
    <3>1. PICK f : /\ order.fills = <<f>> /\ FillOK(f, "ENTRY", E, t) /\ f.at < order.terms.ends
      BY <1>2, <1>9 DEF OrderSound, Entered, Refusals
    <3>2. x = [terms |-> order.terms, status |-> "CLOSED", submitted |-> order.submitted,
               entry |-> order.entry, mark |-> mark, fills |-> Append(order.fills, g)]
      <4>1. PICK a : a = [order EXCEPT !.status = "CLOSED", !.mark = mark]
        OBVIOUS
      <4>2. a = [terms |-> order.terms, status |-> "CLOSED", submitted |-> order.submitted,
                 entry |-> order.entry, mark |-> mark, fills |-> order.fills]
        BY ONLY <1>2, <4>1 DEF OrderOK
      <4>3. /\ OrderOK(a) /\ a.terms = order.terms /\ a.status = "CLOSED"
            /\ a.submitted = order.submitted /\ a.entry = order.entry /\ a.mark = mark
            /\ a.fills = order.fills
        BY ONLY <4>2 DEF OrderOK
      <4>4. x = WithFill(a, req, "EXIT", price)
        BY ONLY <2>3, <4>1
      <4>5. QED
        BY ONLY <2>2, <4>3, <4>4, FillParts
    <3>3. Append(order.fills, g) = <<f, g>>
      <4>1. Append(<<f>>, g) = <<f, g>>
        BY Appended
      <4>2. order.fills = <<f>>
        BY <3>1
      <4>3. QED
        BY ONLY <4>1, <4>2
    <3>4. /\ x = [terms |-> x.terms, status |-> x.status, submitted |-> x.submitted,
                  entry |-> x.entry, mark |-> x.mark, fills |-> x.fills]
          /\ x.terms = order.terms /\ x.status = "CLOSED" /\ x.submitted = order.submitted
          /\ x.entry = order.entry /\ x.fills = <<f, g>>
      BY ONLY <3>2, <3>3
    <3>5. SameOrder(order, x)
      BY ONLY <3>4 DEF SameOrder, OrderOK
    <3>6. /\ FillOK(f, "ENTRY", F, req.at) /\ FillOK(g, "EXIT", F, req.at)
          /\ f.at <= g.at /\ f.by # g.by
      <4>1. g.kind = "EXIT" /\ g.at = req.at /\ g.by = req.id
        BY ONLY <2>2
      <4>2. QED
        BY <1>4, <3>1, <4>1 DEF FillOK
    <3>7. OrderSound(x, F, req.at)
      BY ONLY <1>4, <3>1, <3>4, <3>6 DEF OrderSound
    <3>8. HeldBy(x) = 0 /\ HeldBy(order) = Value(order.entry, q) + FeeOn(order.entry, q)
      BY <1>9, <1>q, <3>4 DEF HeldBy, Entered
    <3>9. gross \in Int
      <4>1. Gain(order.terms, order.entry, price) \in Int
        BY ONLY <1>4, <1>h DEF Gain
      <4>2. QED
        BY <1>h, <2>4, <4>1, MoneyType
    <3>10. /\ cash \in Int /\ realized \in Int
           /\ cash + HeldBy(x) - realized = b.cash + HeldBy(order) - b.realized
      BY ONLY <1>2, <1>i, <2>5, <2>6, <3>8, <3>9
    <3>11. c = [cash |-> cash, realized |-> realized, clock |-> b.clock,
                orders |-> [b.orders EXCEPT ![o] = x]]
      <4>1. PICK d : d = [b EXCEPT !.cash = cash, !.realized = realized]
        OBVIOUS
      <4>2. d = [cash |-> cash, realized |-> realized, clock |-> b.clock, orders |-> b.orders]
        BY ONLY <1>2, <4>1
      <4>3. c = [d EXCEPT !.orders[o] = x]
        BY ONLY <2>7, <4>1
      <4>4. QED
        BY ONLY <4>2, <4>3
    <3>12. QED
      BY ONLY <1>1, <3>5, <3>7, <3>10, <3>11, SoundBook(b, F, req.at), o \in DOMAIN b.orders,
              OneSound
  <2>10. Goal(Leave(b, o, req))
    BY ZenonT(40), <1>7, <1>9, <2>8, <2>9
  <2>11. QED
    BY <1>1, <1>9, <2>10 DEF Meets, Entered
<1>10. CASE order.status \notin {"PENDING"} \cup Entered
  BY <1>1, <1>3, <1>10 DEF Meets, Entered
<1>11. QED
  BY <1>8, <1>9, <1>10

\* A new quote leaves a sound book: no order is met twice on its round, so none leaves
\* by the quote it was entered by.
LEMMA QuotedSound ==
  ASSUME NEW b, NEW E, NEW req, RequestOK(req), req.kind = "quote", NEW t \in Nat, t <= req.at,
         \A e \in E : e.id # req.id, SoundBook(b, E, t), NEW c \in Quoted(b, req)
  PROVE  SoundBook(c, E \cup {req}, req.at)
<1>a. PICK S : S = DOMAIN b.orders
  OBVIOUS
<1>b. PICK F : F = E \cup {req}
  OBVIOUS
<1>1. IsFiniteSet(S) /\ BookOK(b)
  BY <1>a DEF SoundBook, BookOK
<1>2. PICK g : IsRound(g, b, req, S) /\ c = g[S]
  BY <1>1, <1>a, QuotedRound
<1>3. SoundBook(b, F, req.at)
  <2>1. req.at \in Nat
    BY DEF RequestOK
  <2>2. \A o \in DOMAIN b.orders : OrderSound(b.orders[o], F, req.at)
    BY <1>b, <2>1, Later DEF SoundBook
  <2>3. QED
    BY <2>2 DEF SoundBook
<1> DEFINE Met(s) == /\ SoundBook(g[s], F, req.at) /\ DOMAIN g[s].orders = S
                     /\ \A o \in S \ s : g[s].orders[o] = b.orders[o]
           Bad == {s \in SUBSET S : ~Met(s)}
<1>4. Bad = {}
  <2> SUFFICES ASSUME Bad # {} PROVE FALSE
    OBVIOUS
  <2>1. Bad \in SUBSET SUBSET S
    OBVIOUS
  <2>2. PICK s \in Bad : \A u \in Bad : u \subseteq s => u = s
    <3> HIDE DEF Bad
    <3>1. QED
      BY <1>1, <2>1, Smallest
  <2>3. s # {}
    <3>1. g[{}] = b
      BY <1>2, RoundStep
    <3>2. Met({})
      BY <1>3, <1>a, <3>1
    <3>3. QED
      BY <2>2, <3>2
  <2>4. PICK o : o = Pick(s)
    OBVIOUS
  <2>5. PICK u : u = s \ {o}
    OBVIOUS
  <2>6. o \in s /\ o \in S /\ u \in SUBSET S /\ u \notin Bad /\ o \notin u
    BY <2>2, <2>3, <2>4, <2>5, Picked
  <2>7. Met(u)
    BY <2>6
  <2>8. PICK d : d = g[u]
    OBVIOUS
  <2>9. g[s] = Meets(d, o, req)
    <3>1. s \in SUBSET S
      OBVIOUS
    <3>2. g[s] = Meets(g[s \ {Pick(s)}], Pick(s), req)
      BY ONLY <1>2, <2>3, <3>1, RoundStep
    <3>3. QED
      BY <2>4, <2>5, <2>8, <3>2
  <2>10. /\ SoundBook(d, F, req.at) /\ DOMAIN d.orders = S /\ o \in DOMAIN d.orders
         /\ \A p \in S \ u : d.orders[p] = b.orders[p]
    BY <2>6, <2>7, <2>8
  <2>11. OrderSound(d.orders[o], E, t)
    BY <1>a, <2>6, <2>10 DEF SoundBook
  <2>12. /\ SoundBook(Meets(d, o, req), F, req.at)
         /\ DOMAIN Meets(d, o, req).orders = S
         /\ \A p \in S \ {o} : Meets(d, o, req).orders[p] = d.orders[p]
    <3>1. E \subseteq F /\ req \in F /\ SoundBook(d, F, req.at) /\ o \in DOMAIN d.orders
      BY <1>b, <2>10
    <3>2. /\ SoundBook(Meets(d, o, req), F, req.at)
          /\ DOMAIN Meets(d, o, req).orders = DOMAIN d.orders
          /\ \A p \in DOMAIN d.orders \ {o} : Meets(d, o, req).orders[p] = d.orders[p]
      BY ONLY RequestOK(req), req.kind = "quote", t \in Nat, t <= req.at,
              \A e \in E : e.id # req.id, <2>11, <3>1, MeetsSound
    <3>3. QED
      BY ONLY <2>10, <3>2
  <2>13. \A p \in S \ s : p \in S \ u /\ p \in S \ {o}
    BY <2>5, <2>6
  <2>14. Met(s)
    BY <2>9, <2>10, <2>12, <2>13
  <2>15. QED
    BY <2>2, <2>14
<1>5. QED
  BY <1>2, <1>4, <1>b

\* An order without a fill comes, at no cost.
LEMMA SubmittedSound ==
  ASSUME NEW b, NEW E, NEW req, RequestOK(req), req.kind = "submit", NEW t,
         SoundBook(b, E, t), NEW c \in Submitted(b, req)
  PROVE  SoundBook(c, E, t)
<1>1. PICK n : n = req.order
  OBVIOUS
<1>2. PICK x : x = NewOrder(req)
  OBVIOUS
<1>3. PICK f : f = [o \in DOMAIN b.orders \cup {n} |-> IF o = n THEN x ELSE b.orders[o]]
  OBVIOUS
<1>4. n \notin DOMAIN b.orders /\ c = [b EXCEPT !.orders = f]
  BY <1>1, <1>2, <1>3 DEF Submitted, Refused
<1>5. /\ c = [cash |-> c.cash, realized |-> c.realized, clock |-> c.clock, orders |-> c.orders]
      /\ c.orders = f /\ c.cash = b.cash /\ c.realized = b.realized
  <2>1. c = [cash |-> b.cash, realized |-> b.realized, clock |-> b.clock, orders |-> f]
    BY <1>4 DEF SoundBook, BookOK
  <2>2. QED
    BY ONLY <2>1
<1>6. /\ DOMAIN f = DOMAIN b.orders \cup {n} /\ f[n] = x /\ f = [o \in DOMAIN f |-> f[o]]
      /\ \A o \in DOMAIN b.orders : f[o] = b.orders[o]
  BY <1>3, <1>4
<1>7. OrderOK(x) /\ OrderSound(x, E, t) /\ HeldBy(x) = 0
  <2>1. x = [terms |-> req.terms, status |-> "PENDING", submitted |-> req.at, entry |-> 0,
             mark |-> 0, fills |-> <<>>]
    BY <1>2 DEF NewOrder
  <2>2. /\ x.terms = req.terms /\ x.status = "PENDING" /\ x.entry = 0 /\ x.fills = <<>> /\ OrderOK(x)
    BY ONLY <2>1 DEF OrderOK
  <2>3. QED
    BY <2>2 DEF OrderSound, HeldBy, Entered, Refusals, RequestOK
<1>8. IsFiniteSet(DOMAIN b.orders) /\ IsFiniteSet(DOMAIN f)
  BY <1>6, FS_AddElement DEF SoundBook, BookOK
<1>9. BookOK(c)
  BY <1>5, <1>6, <1>7, <1>8 DEF SoundBook, BookOK
<1>10. \A o \in DOMAIN c.orders : OrderSound(c.orders[o], E, t)
  BY <1>5, <1>6, <1>7 DEF SoundBook
<1>11. HeldIn(c) = HeldIn(b)
  <2> DEFINE S == DOMAIN b.orders
  <2>1. /\ \A o \in S \cup {n} : Keepings(c)[o] \in Int
        /\ \A o \in S : Keepings(c)[o] = Keepings(b)[o]
        /\ Keepings(c)[n] = 0 /\ DOMAIN c.orders = S \cup {n}
    BY <1>5, <1>6, <1>7, <1>10, HeldType DEF Keepings
  <2> HIDE DEF S
  <2>2. IsFiniteSet(S) /\ n \notin S
    BY <1>4, <1>8 DEF S
  <2>3. Total(Keepings(c), S \cup {n}) = Keepings(c)[n] + Total(Keepings(c), S)
    BY <2>1, <2>2, TotalWith
  <2>4. Total(Keepings(c), S) = Total(Keepings(b), S)
    BY <2>1, <2>2, TotalSame
  <2>5. Total(Keepings(c), S) \in Int
    BY <2>1, <2>2, TotalInteger
  <2>6. QED
    BY <2>1, <2>3, <2>4, <2>5 DEF HeldIn, S
<1>12. QED
  BY <1>5, <1>9, <1>10, <1>11 DEF SoundBook

LEMMA CancelledSound ==
  ASSUME NEW b, NEW E, NEW req, NEW t, SoundBook(b, E, t), NEW c \in Cancelled(b, req)
  PROVE  SoundBook(c, E, t)
<1>1. PICK o : o = req.order
  OBVIOUS
<1>2. /\ o \in DOMAIN b.orders /\ b.orders[o].status = "PENDING"
      /\ c = [b EXCEPT !.orders[o].status = "CANCELLED"]
  BY <1>1 DEF Cancelled, Refused
<1>3. PICK order : order = b.orders[o]
  OBVIOUS
<1>4. PICK x : x = [order EXCEPT !.status = "CANCELLED"]
  OBVIOUS
<1>5. /\ OrderOK(order) /\ OrderSound(order, E, t)
      /\ b = [cash |-> b.cash, realized |-> b.realized, clock |-> b.clock, orders |-> b.orders]
      /\ b.cash \in Int /\ b.realized \in Int
  BY <1>2, <1>3 DEF SoundBook, BookOK
<1>6. /\ SameOrder(order, x) /\ x.status = "CANCELLED" /\ x.entry = order.entry
      /\ x.fills = order.fills
  BY <1>4, <1>5, StatusParts
<1>7. x.terms = order.terms /\ order.fills = <<>>
  BY <1>2, <1>3, <1>5, <1>6 DEF SameOrder, OrderSound, Entered
<1>8. OrderSound(x, E, t)
  BY <1>5, <1>6, <1>7 DEF OrderSound, Refusals
<1>9. HeldBy(x) = 0 /\ HeldBy(order) = 0
  BY <1>2, <1>3, <1>6 DEF HeldBy, Entered
<1>10. b.cash + HeldBy(x) - b.realized = b.cash + HeldBy(b.orders[o]) - b.realized
  BY <1>3, <1>9
<1>11. c = [cash |-> b.cash, realized |-> b.realized, clock |-> b.clock,
            orders |-> [b.orders EXCEPT ![o] = x]]
  BY ONLY <1>2, <1>3, <1>4, <1>5
<1>12. QED
  BY ONLY SoundBook(b, E, t), <1>2, <1>3, <1>5, <1>6, <1>8, <1>10, <1>11, OneSound

LEMMA EndedSound ==
  ASSUME NEW b, NEW E, NEW req, NEW t, SoundBook(b, E, t), NEW c \in SessionEnded(b, req)
  PROVE  SoundBook(c, E, t)
<1>1. PICK f : f = [o \in DOMAIN b.orders |->
                      IF req.at < b.orders[o].terms.ends THEN b.orders[o]
                      ELSE [b.orders[o] EXCEPT !.status = StatusAtEnd(@)]]
  OBVIOUS
<1>2. c = [b EXCEPT !.orders = f]
  BY <1>1 DEF SessionEnded
<1>3. c = [cash |-> b.cash, realized |-> b.realized, clock |-> b.clock, orders |-> f]
  BY <1>2 DEF SoundBook, BookOK
<1>4. c.orders = f /\ c.cash = b.cash /\ c.realized = b.realized
  BY ONLY <1>3
<1>5. Keeps(b, c)
  BY EndKeeps DEF SoundBook
<1>6. ASSUME NEW o \in DOMAIN b.orders
      PROVE  OrderSound(f[o], E, t) /\ HeldBy(f[o]) = HeldBy(b.orders[o])
  <2>1. PICK order : order = b.orders[o]
    OBVIOUS
  <2>2. PICK x : x = [order EXCEPT !.status = StatusAtEnd(order.status)]
    OBVIOUS
  <2>3. OrderOK(order) /\ OrderSound(order, E, t)
    BY <2>1 DEF SoundBook, BookOK
  <2>4. /\ SameOrder(order, x) /\ x.status = StatusAtEnd(order.status)
        /\ x.entry = order.entry /\ x.fills = order.fills
    BY <2>2, <2>3, StatusParts
  <2>5. x.terms = order.terms
    BY <2>4 DEF SameOrder
  <2>6. OrderSound(x, E, t) /\ HeldBy(x) = HeldBy(order)
    <3>1. /\ order.status \in Refusals => x.status \in Refusals
          /\ order.status \in Entered => x.status \in Entered
          /\ order.status = "CLOSED" => x.status = "CLOSED"
          /\ order.status \notin Entered => x.status \notin Entered
      BY <2>4 DEF StatusAtEnd, Refusals, Entered
    <3>2. OrderSound(x, E, t)
      BY ONLY <2>3, <2>4, <2>5, <3>1 DEF OrderSound
    <3>3. QED
      BY ONLY <2>4, <2>5, <3>1, <3>2 DEF HeldBy
  <2>7. f[o] \in {order, x}
    BY <1>1, <2>1, <2>2
  <2>8. QED
    BY <2>1, <2>3, <2>6, <2>7
<1>7. DOMAIN c.orders = DOMAIN b.orders /\ BookOK(c)
  BY <1>5 DEF Keeps
<1>8. HeldIn(c) = HeldIn(b)
  <2>1. \A o \in DOMAIN b.orders : Keepings(c)[o] = Keepings(b)[o]
    BY <1>4, <1>6, <1>7 DEF Keepings
  <2>2. Total(Keepings(c), DOMAIN b.orders) = Total(Keepings(b), DOMAIN b.orders)
    BY <2>1, TotalSame DEF SoundBook, BookOK
  <2>3. QED
    BY <1>7, <2>2 DEF HeldIn
<1>9. QED
  BY <1>4, <1>6, <1>7, <1>8 DEF SoundBook

LEMMA SoundLater ==
  ASSUME NEW b, NEW E, NEW F, NEW t \in Nat, NEW u \in Nat, SoundBook(b, E, t), E \subseteq F, t <= u
  PROVE  SoundBook(b, F, u)
BY Later DEF SoundBook

LEMMA SoundClock ==
  ASSUME NEW b, NEW E, NEW t, SoundBook(b, E, t), NEW u
  PROVE  SoundBook([b EXCEPT !.clock = u], E, t)
<1>1. PICK d : d = [b EXCEPT !.clock = u]
  OBVIOUS
<1>2. d = [cash |-> b.cash, realized |-> b.realized, clock |-> u, orders |-> b.orders]
  BY <1>1 DEF SoundBook, BookOK
<1>3. /\ d = [cash |-> d.cash, realized |-> d.realized, clock |-> d.clock, orders |-> d.orders]
      /\ d.orders = b.orders /\ d.cash = b.cash /\ d.realized = b.realized
  BY ONLY <1>2
<1>4. HeldIn(d) = HeldIn(b)
  BY <1>3 DEF HeldIn, Keepings
<1>5. SoundBook(d, E, t)
  BY <1>3, <1>4 DEF SoundBook, BookOK
<1>6. QED
  BY <1>1, <1>5

\* A ledger is sound by its own events and its own clock.
SoundLedger(l) == l.book.clock \in Nat /\ SoundBook(l.book, l.events, l.book.clock)

LEMMA AfterSound ==
  ASSUME NEW ledger, SoundLedger(ledger), NEW req, RequestOK(req), NEW l \in After(ledger, req)
  PROVE  SoundLedger(l)
<1>1. CASE Known(ledger, req.id)
  <2>1. l = ledger
    BY <1>1 DEF After
  <2>2. QED
    BY <2>1
<1>2. CASE ~Known(ledger, req.id)
  <2>1. PICK b \in Applied(ledger.book, req) :
          l = [book |-> [b EXCEPT !.clock = req.at], events |-> ledger.events \cup {req}]
    BY <1>2 DEF After, Refused
  <2>2. ~(req.at < ledger.book.clock)
    BY <1>2 DEF After, Refused
  <2>3. PICK E, F, t : E = ledger.events /\ F = ledger.events \cup {req} /\ t = ledger.book.clock
    OBVIOUS
  <2>4. /\ t \in Nat /\ req.at \in Nat /\ t <= req.at /\ SoundBook(ledger.book, E, t)
        /\ \A e \in E : e.id # req.id
    BY <1>2, <2>2, <2>3 DEF SoundLedger, RequestOK, Known
  <2>5. SoundBook(b, F, req.at)
    <3>1. CASE req.kind = "quote"
      <4>1. b \in Quoted(ledger.book, req)
        BY <2>1, <3>1 DEF Applied
      <4>2. QED
        BY <2>3, <2>4, <3>1, <4>1, QuotedSound
    <3>2. CASE req.kind # "quote"
      <4>1. SoundBook(b, E, t)
        <5>1. \/ req.kind = "submit" /\ b \in Submitted(ledger.book, req)
              \/ b \in Cancelled(ledger.book, req)
              \/ b \in SessionEnded(ledger.book, req)
          BY <2>1, <3>2 DEF Applied, RequestOK
        <5>2. QED
          BY <2>4, <5>1, SubmittedSound, CancelledSound, EndedSound
      <4>2. QED
        BY <2>3, <2>4, <4>1, SoundLater
    <3>3. QED
      BY <3>1, <3>2
  <2>6. PICK c : c = [b EXCEPT !.clock = req.at]
    OBVIOUS
  <2>7. SoundBook(c, F, req.at)
    BY <2>5, <2>6, SoundClock
  <2>8. c.clock = req.at
    BY <2>5, <2>6 DEF SoundBook, BookOK
  <2>9. l.book = c /\ l.events = F
    BY <2>1, <2>3, <2>6
  <2>10. QED
    BY <2>4, <2>7, <2>8, <2>9 DEF SoundLedger
<1>3. QED
  BY <1>1, <1>2

LEMMA HeldIsTotal ==
  MapThenSumSet(Held, Holding) = Total(Keepings(book), Holding)
<1> DEFINE S == Holding
           ByOrder(g) == g = [s \in SUBSET S |-> IF s = {} THEN 0
                                ELSE Held(Pick(s)) + g[s \ {Pick(s)}]]
<1>1. ASSUME NEW s \in SUBSET S, s # {} PROVE Held(Pick(s)) = Keepings(book)[Pick(s)]
  BY <1>1, Picked DEF Keepings, Held, HeldBy, Holding
<1>2. ASSUME NEW g PROVE ByOrder(g) <=> IsSum(g, Keepings(book), S)
  <2>1. [s \in SUBSET S |-> IF s = {} THEN 0 ELSE Held(Pick(s)) + g[s \ {Pick(s)}]]
          = [s \in SUBSET S |-> IF s = {} THEN 0 ELSE Keepings(book)[Pick(s)] + g[s \ {Pick(s)}]]
    BY <1>1
  <2> QED
    BY <2>1 DEF IsSum
<1>3. (CHOOSE g : ByOrder(g)) = (CHOOSE g : IsSum(g, Keepings(book), S))
  <2> HIDE DEF ByOrder
  <2> QED
    BY <1>2
<1>4. Total(Keepings(book), S) = (CHOOSE g : IsSum(g, Keepings(book), S))[S]
  BY DEF Total, MapThenSumSet, MapThenFoldSet, IsSum, Pick
<1>5. MapThenSumSet(Held, S) = (CHOOSE g : ByOrder(g))[S]
  BY DEF MapThenSumSet, MapThenFoldSet, Pick
<1> QED
  BY <1>3, <1>4, <1>5

LEMMA HeldInHolding ==
  ASSUME SoundLedger(Ledger)
  PROVE  HeldIn(book) = MapThenSumSet(Held, Holding)
<1>1. Ledger.book = book
  BY DEF Ledger
<1>2. IsFiniteSet(DOMAIN book.orders) /\ \A o \in DOMAIN book.orders : Keepings(book)[o] \in Int
  BY <1>1, HeldType DEF SoundLedger, SoundBook, BookOK, Keepings
<1> DEFINE S == DOMAIN book.orders
           Q == Holding
<1>3. Q \in SUBSET S
  BY DEF Holding
<1>4. \A o \in S \ Q : Keepings(book)[o] = 0
  BY DEF Keepings, Holding, HeldBy
<1>5. HeldIn(book) = Total(Keepings(book), S)
  BY DEF HeldIn
<1> HIDE DEF S, Q
<1>6. Total(Keepings(book), S) = Total(Keepings(book), Q) + Total(Keepings(book), S \ Q)
  BY <1>2, <1>3, TotalSplit DEF S
<1>7. Total(Keepings(book), S \ Q) = 0 /\ Total(Keepings(book), Q) \in Int
  BY <1>2, <1>3, <1>4, FS_Subset, TotalNothing, TotalInteger DEF S
<1>8. QED
  BY <1>5, <1>6, <1>7, HeldIsTotal DEF Q

LEMMA LedgerAgrees == SoundLedger(Ledger) => SimulatorBooksAgree
<1> SUFFICES ASSUME SoundLedger(Ledger) PROVE SimulatorBooksAgree
  OBVIOUS
<1>1. SoundBook(book, events, book.clock)
  BY DEF SoundLedger, Ledger
<1>2. book.cash + MapThenSumSet(Held, Holding) = InitialCapital + book.realized
  BY <1>1, HeldInHolding DEF SoundBook
<1>3. ASSUME NEW o \in DOMAIN book.orders
      PROVE  LET fills == book.orders[o].fills  status == book.orders[o].status IN
             /\ Len(fills) = CASE status \in Entered -> 1 [] status = "CLOSED" -> 2 [] OTHER -> 0
             /\ \A i, j \in DOMAIN fills : i < j => /\ fills[i].by # fills[j].by
                                                   /\ fills[i].at <= fills[j].at
                                                   /\ fills[i].kind = "ENTRY" /\ fills[j].kind = "EXIT"
             /\ fills # <<>> => fills[1].at < book.orders[o].terms.ends
  <2>1. PICK order : order = book.orders[o]
    OBVIOUS
  <2>2. OrderSound(order, events, book.clock)
    BY <1>1, <2>1 DEF SoundBook
  <2>3. CASE order.status \in Refusals /\ order.fills = <<>>
    BY <2>1, <2>3 DEF Refusals, Entered
  <2>4. CASE order.status \in Entered
    <3>1. PICK f : order.fills = <<f>> /\ f.at < order.terms.ends
      BY <2>2, <2>4 DEF OrderSound, Refusals, Entered
    <3>2. PICK fills : fills = order.fills
      OBVIOUS
    <3>3. /\ fills = <<f>> /\ Len(fills) = 1 /\ fills[1] = f
          /\ \A i, j \in DOMAIN fills : ~(i < j)
      BY ONLY <3>1, <3>2
    <3>4. order.status # "CLOSED"
      BY <2>4 DEF Entered
    <3>5. QED
      BY ONLY <2>1, <2>4, <3>1, <3>2, <3>3, <3>4
  <2>5. CASE order.status = "CLOSED"
    <3>1. PICK f, g : /\ order.fills = <<f, g>> /\ f.at < order.terms.ends /\ f.at <= g.at
                      /\ f.by # g.by /\ f.kind = "ENTRY" /\ g.kind = "EXIT"
      BY <2>2, <2>5 DEF OrderSound, FillOK, Refusals, Entered
    <3>2. PICK fills : fills = order.fills
      OBVIOUS
    <3>3. /\ fills = <<f, g>> /\ Len(fills) = 2 /\ fills[1] = f /\ fills[2] = g
          /\ \A i, j \in DOMAIN fills : i < j => i = 1 /\ j = 2
      BY ONLY <3>1, <3>2
    <3>4. order.status \notin Entered
      BY <2>5 DEF Entered
    <3>5. QED
      BY ONLY <2>1, <2>5, <3>1, <3>2, <3>3, <3>4
  <2>6. QED
    BY <2>2, <2>3, <2>4, <2>5 DEF OrderSound
<1>4. QED
  BY <1>2, <1>3 DEF SimulatorBooksAgree

LEMMA FreshSound == SimulatorInit => SoundLedger(Ledger)
<1> SUFFICES ASSUME SimulatorInit PROVE SoundLedger(Ledger)
  OBVIOUS
<1>1. /\ Ledger.book = book /\ Ledger.events = {} /\ book = FreshBook
      /\ book = [cash |-> book.cash, realized |-> book.realized, clock |-> book.clock,
                 orders |-> book.orders]
      /\ book.cash = InitialCapital /\ book.realized = 0 /\ book.clock = 0
      /\ book.orders = [o \in {} |-> 0]
  BY DEF SimulatorInit, FreshBook, Ledger
<1>2. DOMAIN book.orders = {} /\ book.orders = [o \in DOMAIN book.orders |-> book.orders[o]]
  BY ONLY <1>1
<1>3. BookOK(book)
  BY <1>1, <1>2, FS_EmptySet DEF BookOK
<1>4. HeldIn(book) = 0
  BY <1>2, TotalEmpty DEF HeldIn
<1>5. QED
  BY <1>1, <1>2, <1>3, <1>4, SimulatorAssumption DEF SoundLedger, SoundBook

\* PaperSimulator.SimulatorBooksAgree, for any commands however repeated, delayed or
\* contradicted, any prices and fees (_event).
THEOREM BooksStand == SimulatorSpec => []SimulatorBooksAgree
<1>1. ASSUME SoundLedger(Ledger), [SimulatorNext]_simulatorVars PROVE SoundLedger(Ledger)'
  <2>1. CASE UNCHANGED simulatorVars
    BY <1>1, <2>1 DEF simulatorVars, Ledger, SoundLedger
  <2>2. ASSUME NEW req \in Requests, Deliver(req) PROVE SoundLedger(Ledger)'
    <3>1. PICK l \in After(Ledger, req) : book' = l.book /\ events' = l.events
      BY <2>2 DEF Deliver
    <3>2. SoundLedger(l)
      BY <1>1, <3>1, AfterSound, SimulatorAssumption
    <3>3. Ledger'.book = l.book /\ Ledger'.events = l.events
      BY <3>1 DEF Ledger
    <3>4. SoundLedger(Ledger')
      BY <3>2, <3>3 DEF SoundLedger
    <3>5. QED
      BY <3>4 DEF SoundLedger, SoundBook, HeldIn, Keepings
  <2>3. QED
    BY <1>1, <2>1, <2>2 DEF SimulatorNext
<1>2. QED
  BY <1>1, FreshSound, LedgerAgrees, PTL DEF SimulatorSpec

----------------------------------------------------------------------------
(* What the journal J and the audit log A say of a book's orders.          *)

Recorded(o, order, J, A) ==
  /\ o \in J
  /\ \E a \in A :
       /\ a.kind = "critic" /\ a.at = order.submitted /\ a.candidate = o
       /\ a.plan = [x \in {"long", "entry", "stop", "target", "quantity"} |-> order.terms[x]]
  /\ \E a \in A :
       /\ a.kind = "risk" /\ a.at = order.submitted /\ a.candidate = o
       /\ a.quantity = order.terms.quantity

OnRecord(b, J, A) == BookOK(b) /\ \A o \in DOMAIN b.orders : Recorded(o, b.orders[o], J, A)

\* Terms and instants stay, and nothing is taken from the journal or the log.
LEMMA RecordKept ==
  ASSUME NEW b, NEW c, NEW J, NEW A, NEW K, NEW B,
         OnRecord(b, J, A), Keeps(b, c), J \subseteq K, A \subseteq B
  PROVE  OnRecord(c, K, B)
<1>1. ASSUME NEW o \in DOMAIN c.orders PROVE Recorded(o, c.orders[o], K, B)
  <2>1. /\ Recorded(o, b.orders[o], J, A) /\ c.orders[o].terms = b.orders[o].terms
        /\ c.orders[o].submitted = b.orders[o].submitted
    BY DEF OnRecord, Keeps, SameOrder
  <2>2. QED
    BY <2>1 DEF Recorded
<1>2. QED
  BY <1>1 DEF OnRecord, Keeps

TermsOf(plan, budget, at) ==
  [long |-> plan.long, entry |-> plan.entry, stop |-> plan.stop, target |-> plan.target,
   quantity |-> plan.quantity, budget |-> budget, ends |-> SessionEnd(at)]

\* A submission is refused, known already, or adds one order on the plan's terms.
LEMMA SubmitAdds ==
  ASSUME NEW ledger, BookOK(ledger.book), NEW candidate, NEW plan, NEW budget, NEW at,
         NEW l \in After(ledger, SubmitRequest(candidate, plan, budget, at))
  PROVE  \/ l = ledger
         \/ /\ BookOK(l.book)
            /\ DOMAIN l.book.orders = DOMAIN ledger.book.orders \cup {candidate}
            /\ \A o \in DOMAIN ledger.book.orders : l.book.orders[o] = ledger.book.orders[o]
            /\ candidate \notin DOMAIN ledger.book.orders
            /\ l.book.orders[candidate].submitted = at
            /\ l.book.orders[candidate].terms = TermsOf(plan, budget, at)
            /\ l.book.orders[candidate].status = "PENDING"
            /\ l.book.orders[candidate].entry = 0 /\ l.book.orders[candidate].mark = 0
            /\ l.book.clock = at /\ ~(at < ledger.book.clock)
            /\ l.events = ledger.events \cup {SubmitRequest(candidate, plan, budget, at)}
<1>1. PICK req : req = SubmitRequest(candidate, plan, budget, at)
  OBVIOUS
<1>2. PICK terms : terms = TermsOf(plan, budget, at)
  OBVIOUS
<1>3. req.kind = "submit" /\ req.order = candidate /\ req.at = at /\ req.terms = terms
  BY <1>1, <1>2 DEF SubmitRequest, TermsOf
<1>4. CASE Known(ledger, req.id)
  BY <1>1, <1>4 DEF After
<1>5. CASE ~Known(ledger, req.id)
  <2>1. PICK c \in Applied(ledger.book, req) :
          l = [book |-> [c EXCEPT !.clock = req.at], events |-> ledger.events \cup {req}]
    BY <1>1, <1>5 DEF After, Refused
  <2>2. c \in Submitted(ledger.book, req)
    BY <1>3, <2>1 DEF Applied
  <2>3. PICK b : b = ledger.book
    OBVIOUS
  <2>4. PICK x : x = [terms |-> terms, status |-> "PENDING", submitted |-> at, entry |-> 0,
                      mark |-> 0, fills |-> <<>>]
    OBVIOUS
  <2>5. PICK f : f = [o \in DOMAIN b.orders \cup {candidate} |->
                        IF o = candidate THEN x ELSE b.orders[o]]
    OBVIOUS
  <2>6. candidate \notin DOMAIN b.orders /\ c = [b EXCEPT !.orders = f]
    BY <1>3, <2>2, <2>3, <2>4, <2>5 DEF Submitted, Refused, NewOrder
  <2>7. /\ DOMAIN f = DOMAIN b.orders \cup {candidate} /\ f[candidate] = x
        /\ \A o \in DOMAIN b.orders : f[o] = b.orders[o]
        /\ f = [o \in DOMAIN f |-> f[o]]
    BY ONLY <2>5, <2>6
  <2>8. c = [cash |-> b.cash, realized |-> b.realized, clock |-> b.clock, orders |-> f]
    BY <2>3, <2>6 DEF BookOK
  <2>9. PICK d : d = [c EXCEPT !.clock = at]
    OBVIOUS
  <2>10. d = [cash |-> b.cash, realized |-> b.realized, clock |-> at, orders |-> f]
    BY ONLY <2>8, <2>9
  <2>11. /\ d = [cash |-> d.cash, realized |-> d.realized, clock |-> d.clock, orders |-> d.orders]
         /\ d.orders = f /\ d.clock = at
    BY ONLY <2>10
  <2>12. /\ OrderOK(x) /\ x.submitted = at /\ x.terms = terms
         /\ x.status = "PENDING" /\ x.entry = 0 /\ x.mark = 0
    BY <2>4 DEF OrderOK
  <2>13. IsFiniteSet(DOMAIN f)
    BY <2>3, <2>7, FS_AddElement DEF BookOK
  <2>14. BookOK(d)
    BY <2>3, <2>7, <2>11, <2>12, <2>13 DEF BookOK
  <2>15. l.book = d /\ l.events = ledger.events \cup {req}
    BY <1>3, <2>1, <2>9
  <2>16. ~(at < ledger.book.clock)
    BY <1>1, <1>3, <1>5 DEF After, Refused
  <2>17. QED
    BY <1>1, <1>2, <2>3, <2>6, <2>7, <2>11, <2>12, <2>14, <2>15, <2>16
<1>6. QED
  BY <1>4, <1>5

----------------------------------------------------------------------------
(* The core's steps.                                                       *)

CoreInv == OnRecord(book, journal, audit)

LEMMA KeptOnRecord ==
  ASSUME NEW ledger, NEW J, NEW A, NEW K, NEW B, OnRecord(ledger.book, J, A),
         J \subseteq K, A \subseteq B, Keep(ledger)
  PROVE  OnRecord(book', K, B)
<1>1. Keeps(ledger.book, book')
  BY KeepsItself DEF Keep, OnRecord
<1>2. QED
  BY <1>1, RecordKept

\* The session's end touches no order's terms, whatever fails after it.
LEMMA FinishKeeps ==
  ASSUME NEW ledger, NEW J, NEW A, OnRecord(ledger.book, J, A),
         NEW at, NEW fails, Finish(ledger, at, fails)
  PROVE  OnRecord(book', J, A)
<1>1. PICK l \in EndedLedgers(ledger, at) : Keep(l)
  BY DEF Finish
<1>2. l = ledger \/ l \in After(ledger, EndRequest(at))
  BY <1>1 DEF EndedLedgers
<1>3. EndRequest(at).kind = "end"
  BY DEF EndRequest
<1>4. Keeps(ledger.book, l.book)
  BY <1>2, <1>3, AfterKeeps, KeepsItself DEF OnRecord
<1>5. book' = l.book
  BY <1>1 DEF Keep
<1>6. QED
  BY <1>4, <1>5, RecordKept

LEMMA AbstainKeeps ==
  ASSUME NEW ledger, NEW A, OnRecord(ledger.book, journal, A), A \subseteq audit',
         NEW at, NEW chosen, NEW watermark, NEW fails, Abstain(ledger, at, chosen, watermark, fails)
  PROVE  CoreInv'
<1>1. journal \subseteq journal' /\ Finish(ledger, at, fails)
  BY DEF Abstain
<1>2. BookOK(ledger.book)
  BY DEF OnRecord
<1>3. OnRecord(ledger.book, journal', audit')
  BY <1>1, <1>2, KeepsItself, RecordKept
<1>4. QED
  BY <1>1, <1>3, FinishKeeps DEF CoreInv

LEMMA RaiseKeeps ==
  ASSUME NEW ledger, NEW A, OnRecord(ledger.book, journal, A), A \subseteq audit',
         NEW chosen, NEW watermark, Raise(ledger, chosen, watermark)
  PROVE  CoreInv'
<1>1. journal \subseteq journal' /\ Keep(ledger)
  BY DEF Raise
<1>2. QED
  BY <1>1, KeptOnRecord DEF CoreInv

\* An order is submitted once the journal, the critic and the risk policy have said so.
LEMMA SubmitKeeps ==
  ASSUME NEW ledger, OnRecord(ledger.book, journal, audit), audit \subseteq audit',
         NEW at, NEW candidate, NEW plan, NEW watermark, NEW fails,
         Submit(ledger, at, candidate, plan, watermark, fails),
         plan = [long |-> plan.long, entry |-> plan.entry, stop |-> plan.stop,
                 target |-> plan.target, quantity |-> plan.quantity],
         NEW critic \in audit', critic.kind = "critic", critic.at = at,
         critic.candidate = candidate, critic.plan = plan,
         NEW risk \in audit', risk.kind = "risk", risk.at = at, risk.candidate = candidate,
         risk.quantity = plan.quantity
  PROVE  CoreInv'
<1>1. PICK budget, l : /\ l \in After(ledger, SubmitRequest(candidate, plan, budget, at))
                       /\ Finish(l, at, fails)
  BY DEF Submit
<1>2. journal \subseteq journal' /\ candidate \in journal' /\ BookOK(ledger.book)
  BY DEF Submit, OnRecord
<1>3. OnRecord(ledger.book, journal', audit')
  BY <1>2, KeepsItself, RecordKept
<1>4. OnRecord(l.book, journal', audit')
  <2>1. CASE l = ledger
    BY <1>3, <2>1
  <2>2. CASE /\ BookOK(l.book)
             /\ DOMAIN l.book.orders = DOMAIN ledger.book.orders \cup {candidate}
             /\ \A o \in DOMAIN ledger.book.orders : l.book.orders[o] = ledger.book.orders[o]
             /\ candidate \notin DOMAIN ledger.book.orders
             /\ l.book.orders[candidate].submitted = at
             /\ l.book.orders[candidate].terms = TermsOf(plan, budget, at)
    <3>1. PICK terms : terms = TermsOf(plan, budget, at)
      OBVIOUS
    <3>2. /\ terms["long"] = plan.long /\ terms["entry"] = plan.entry /\ terms["stop"] = plan.stop
          /\ terms["target"] = plan.target /\ terms["quantity"] = plan.quantity
          /\ terms.quantity = plan.quantity
      BY <3>1 DEF TermsOf
    <3>3. plan = [x \in {"long", "entry", "stop", "target", "quantity"} |-> terms[x]]
      BY <3>2
    <3>4. Recorded(candidate, l.book.orders[candidate], journal', audit')
      BY ZenonT(40), <1>2, <2>2, <3>1, <3>2, <3>3 DEF Recorded
    <3>5. QED
      BY <1>3, <2>2, <3>4 DEF OnRecord
  <2>3. QED
    BY <1>1, <1>2, <2>1, <2>2, SubmitAdds
<1>5. QED
  BY <1>1, <1>4, FinishKeeps DEF CoreInv

\* A plan is what it is made of, and buys something.
LEMMA PlanShape ==
  ASSUME NEW b, NEW candidate, NEW quote, NEW plan \in PlansOn(b, candidate, quote)
  PROVE  /\ plan = [long |-> plan.long, entry |-> plan.entry, stop |-> plan.stop,
                    target |-> plan.target, quantity |-> plan.quantity]
         /\ plan.quantity > 0
<1>1. PICK long, mark, equity, cash : plan \in PlanFor(long, mark, equity, cash)
  BY DEF PlansOn
<1>2. PICK entry, stop, target, quantity :
        /\ plan = [long |-> long, entry |-> entry, stop |-> stop, target |-> target,
                   quantity |-> quantity]
        /\ plan.quantity > 0
  BY <1>1 DEF PlanFor
<1>3. QED
  BY <1>2

LEMMA JudgeKeeps ==
  ASSUME NEW ledger, OnRecord(ledger.book, journal, audit),
         NEW at, NEW candidate, NEW plan, NEW watermark, NEW known, NEW where,
         audit \subseteq known, Judge(ledger, at, candidate, plan, watermark, known, where),
         plan = [long |-> plan.long, entry |-> plan.entry, stop |-> plan.stop,
                 target |-> plan.target, quantity |-> plan.quantity],
         plan.quantity > 0,
         NEW critic \in known, critic.kind = "critic", critic.at = at,
         critic.candidate = candidate, critic.plan = plan
  PROVE  CoreInv'
<1>1. CASE Raise(ledger, {candidate}, watermark) /\ audit' = known
  BY <1>1, RaiseKeeps
<1>2. ASSUME NEW quantity,
             audit' = known \cup {v \in {[kind |-> "risk", at |-> at, candidate |-> candidate,
                                          quantity |-> quantity]} : quantity > 0},
             IF quantity = plan.quantity
             THEN Submit(ledger, at, candidate, plan, watermark, where = "end")
             ELSE Abstain(ledger, at, {candidate}, watermark, where = "end")
      PROVE  CoreInv'
  <2>1. audit \subseteq audit' /\ critic \in audit'
    BY <1>2
  <2>2. CASE quantity # plan.quantity
    <3>1. Abstain(ledger, at, {candidate}, watermark, where = "end")
      BY <1>2, <2>2
    <3>2. QED
      BY <2>1, <3>1, AbstainKeeps
  <2>3. CASE quantity = plan.quantity
    <3>1. PICK risk : risk = [kind |-> "risk", at |-> at, candidate |-> candidate,
                              quantity |-> quantity]
      OBVIOUS
    <3>2. risk \in audit'
      BY <1>2, <2>3, <3>1
    <3>3. /\ risk.kind = "risk" /\ risk.at = at /\ risk.candidate = candidate
          /\ risk.quantity = plan.quantity
      BY <2>3, <3>1
    <3>4. Submit(ledger, at, candidate, plan, watermark, where = "end")
      BY <1>2, <2>3
    <3>5. QED
      BY <2>1, <3>2, <3>3, <3>4, SubmitKeeps
  <2>4. QED
    BY <2>2, <2>3
<1>3. QED
  BY <1>1, <1>2 DEF Judge

LEMMA DecideKeeps ==
  ASSUME NEW ledger, OnRecord(ledger.book, journal, audit),
         NEW at, NEW quote, NEW chosen, NEW review, NEW known, NEW where,
         audit \subseteq known, \A r \in review : r \in known /\ r.kind = "critic",
         Decide(ledger, at, quote, chosen, review, known, where)
  PROVE  CoreInv'
<1>1. CASE Raise(ledger, {}, peak) /\ audit' = known
  BY <1>1, RaiseKeeps
<1>2. ASSUME NEW mark, NEW fails, Abstain(ledger, at, chosen, mark, fails), audit' = known
      PROVE  CoreInv'
  BY <1>2, AbstainKeeps
<1>3. ASSUME NEW candidate, NEW plan \in PlansOn(ledger.book, candidate, quote), NEW mark,
             \E r \in review : Bound(r, candidate, plan, at),
             Judge(ledger, at, candidate, plan, mark, known, where)
      PROVE  CoreInv'
  <2>1. PICK r \in review : r.candidate = candidate /\ r.at = at /\ r.plan = plan
    BY <1>3 DEF Bound
  <2>2. QED
    BY <1>3, <2>1, PlanShape, JudgeKeeps
<1>4. QED
  BY <1>1, <1>2, <1>3 DEF Decide

LEMMA CoreStep == CoreInv /\ [CoreNext]_coreVars => CoreInv'
<1> SUFFICES ASSUME CoreInv, [CoreNext]_coreVars PROVE CoreInv'
  OBVIOUS
<1>1. ASSUME NEW at, NEW quote, NEW scores, NEW approves, NEW where,
             Process(at, quote, scores, approves, where)
      PROVE  CoreInv'
  <2>1. PICK chosen, fresh, known, review, ledger :
          /\ fresh = {r \in Reviews(at, quote, chosen) : approves}
          /\ known = audit \cup fresh
          /\ review \in {fresh} \cup {{a} : a \in {x \in audit : x.kind = "critic"}}
          /\ ledger \in QuotedLedgers(Ledger, at, quote)
          /\ Decide(ledger, at, quote, chosen, review, known, where)
    BY <1>1 DEF Process
  <2>2. \A r \in fresh : r.kind = "critic"
    BY <2>1 DEF Reviews
  <2>3. \A r \in review : r \in known /\ r.kind = "critic"
    BY <2>1, <2>2
  <2>4. Ledger.book = book /\ BookOK(book)
    BY DEF Ledger, CoreInv, OnRecord
  <2>5. Keeps(book, ledger.book)
    <3>1. ledger = Ledger \/ ledger \in After(Ledger, QuoteRequest(at, quote))
      BY <2>1 DEF QuotedLedgers
    <3>2. QuoteRequest(at, quote).kind = "quote"
      BY DEF QuoteRequest
    <3>3. QED
      BY <2>4, <3>1, <3>2, AfterKeeps, KeepsItself
  <2>6. OnRecord(ledger.book, journal, audit)
    BY <2>5, RecordKept DEF CoreInv
  <2>7. audit \subseteq known
    BY <2>1
  <2>8. QED
    BY <2>1, <2>3, <2>6, <2>7, DecideKeeps
<1>2. CASE UNCHANGED coreVars
  BY <1>2 DEF coreVars, simulatorVars, CoreInv, OnRecord, Recorded, BookOK, OrderOK
<1>3. QED
  BY <1>1, <1>2 DEF CoreNext

LEMMA CoreStarts == CoreInit => CoreInv
<1> SUFFICES ASSUME CoreInit PROVE CoreInv
  OBVIOUS
<1>1. book = [cash |-> InitialCapital, realized |-> 0, clock |-> 0, orders |-> [o \in {} |-> 0]]
  BY DEF CoreInit, SimulatorInit, FreshBook
<1>2. DOMAIN book.orders = {} /\ book.orders = [o \in DOMAIN book.orders |-> book.orders[o]]
  BY <1>1
<1>3. book = [cash |-> book.cash, realized |-> book.realized, clock |-> book.clock,
              orders |-> book.orders]
  BY <1>1
<1>4. QED
  BY <1>2, <1>3, FS_EmptySet DEF CoreInv, OnRecord, BookOK

\* Whatever fails between the stores, and however often an instant is processed again, no
\* order is in the simulator that journal, critic and risk policy do not answer for
\* (PaperDecisionCore.process, ExecutionBoundary.authorize).
THEOREM OrdersAreOnRecord == CoreSpec => []EveryOrderIsOnRecord
<1>1. CoreInv => EveryOrderIsOnRecord
  BY DEF CoreInv, OnRecord, Recorded, EveryOrderIsOnRecord
<1>2. QED
  BY <1>1, CoreStarts, CoreStep, PTL DEF CoreSpec

----------------------------------------------------------------------------
(* The core's limits: what a quote or a session's end makes of an order.   *)

Pending == Entered \cup {"PENDING"}

TermsOK(terms) ==
  /\ terms.long \in BOOLEAN
  /\ {terms.quantity, terms.entry, terms.stop, terms.target} \subseteq Nat /\ terms.budget \in Int

\* An order that may still lose money risks no more at its stop than its budget; one that
\* is closed has what it made.
Fits(order) ==
  /\ TermsOK(order.terms) /\ order.mark \in Int /\ order.entry \in Int
  /\ order.status \in Pending => OpenRiskOf(order) <= order.terms.budget
  /\ order.status = "CLOSED" => order.fills[2].price \in Int

Moves(order, next, t) ==
  /\ OrderOK(next) /\ next.terms = order.terms /\ next.submitted = order.submitted
  /\ order.status \notin Pending => next = order
  /\ order.status # "CLOSED" /\ next.status = "CLOSED" => next.fills[2].at = t
  /\ Fits(order) => Fits(next)

LEMMA StaysPut == ASSUME NEW order, OrderOK(order), NEW t PROVE Moves(order, order, t)
BY DEF Moves

\* Slippage is against the trader: a sale is at no higher price, a purchase at no lower one.
LEMMA SlippedDown ==
  ASSUME NEW p \in Nat PROVE Slipped(p, FALSE) \in Nat /\ Slipped(p, FALSE) <= p
<1>1. PICK S, s : S = SlippageScale /\ s = Slippage
  OBVIOUS
<1>2. S \in Nat \ {0} /\ s \in Nat /\ s < S
  BY <1>1, SimulatorAssumption
<1>3. PICK d : d = (p * (S - s)) \div S
  OBVIOUS
<1>4. p * (S - s) \in Nat
  BY <1>2
<1>5. p * (S - s) <= p * S
  <2>1. (S - s) * p <= S * p
    BY <1>2, TimesMonotone
  <2>2. QED
    BY <1>2, <2>1
<1>6. d \in Int /\ d * S <= p * (S - s) /\ p * (S - s) < d * S + S
  BY <1>2, <1>3, <1>4, DivWithin
<1>7. d >= 0
  <2> SUFFICES ASSUME d <= -1 PROVE FALSE
    BY <1>6
  <2>1. d * S <= (-1) * S
    BY <1>2, <1>6, TimesMonotone
  <2>2. QED
    BY <1>2, <1>4, <1>6, <2>1
<1>8. d <= p
  <2> SUFFICES ASSUME p + 1 <= d PROVE FALSE
    BY <1>6
  <2>1. (p + 1) * S <= d * S
    BY <1>2, <1>6, TimesMonotone
  <2>2. (p + 1) * S = p * S + S
    BY <1>2
  <2>3. p * S \in Int /\ d * S \in Int /\ p * (S - s) \in Int
    BY <1>2, <1>6
  <2>4. QED
    BY <1>2, <1>5, <1>6, <2>1, <2>2, <2>3
<1>9. QED
  BY <1>1, <1>3, <1>6, <1>7, <1>8 DEF Slipped

LEMMA SlippedUp ==
  ASSUME NEW p \in Nat PROVE Slipped(p, TRUE) \in Nat /\ p <= Slipped(p, TRUE)
<1>1. PICK S, s : S = SlippageScale /\ s = Slippage
  OBVIOUS
<1>2. S \in Nat \ {0} /\ s \in Nat
  BY <1>1, SimulatorAssumption
<1>3. PICK x : x = p * (S + s) + S - 1
  OBVIOUS
<1>4. PICK d : d = x \div S
  OBVIOUS
<1>5. p * (S + s) \in Int /\ p * S \in Int /\ x \in Int /\ p * S <= p * (S + s)
  <2>1. S * p <= (S + s) * p
    BY <1>2, TimesMonotone
  <2>2. QED
    BY <1>2, <1>3, <2>1
<1>6. d \in Int /\ x < d * S + S
  BY <1>2, <1>4, <1>5, DivWithin
<1>7. p <= d
  <2> SUFFICES ASSUME d + 1 <= p PROVE FALSE
    BY <1>6
  <2>1. (d + 1) * S <= p * S
    BY <1>2, <1>6, TimesMonotone
  <2>2. (d + 1) * S = d * S + S
    BY <1>2, <1>6
  <2>3. d * S \in Int
    BY <1>2, <1>6
  <2>4. QED
    BY <1>2, <1>3, <1>5, <1>6, <2>1, <2>2, <2>3
<1>8. QED
  BY <1>1, <1>3, <1>4, <1>6, <1>7 DEF Slipped, CeilDiv

\* The fill's risk gate: what an order may lose at its stop, from the fill, is in its budget.
LEMMA GateFits ==
  ASSUME NEW terms, TermsOK(terms), NEW fill \in Int, NEW cash, Fillable(terms, fill, cash)
  PROVE  Apart(fill, terms.stop) * terms.quantity * Scale <= terms.budget
<1>1. PICK q, stop, budget : q = terms.quantity /\ stop = terms.stop /\ budget = terms.budget
  OBVIOUS
<1>2. PICK far : far = Slipped(stop, ~terms.long)
  OBVIOUS
<1>3. PICK d, e : d = Distance(fill, far) /\ e = Apart(fill, stop)
  OBVIOUS
<1>4. /\ q \in Nat /\ stop \in Nat /\ budget \in Int /\ terms.target \in Nat
      /\ Fee \in Nat /\ FeeScale \in Nat /\ Scale = FeeScale
  BY <1>1, SimulatorAssumption, CoreAssumption DEF TermsOK
<1>5. /\ IF terms.long THEN stop < fill ELSE terms.target < fill /\ fill < stop
      /\ d * q * FeeScale + fill * q * Fee + far * q * Fee <= budget
  BY <1>1, <1>2, <1>3 DEF Fillable, Value, FeeOn
<1>6. far \in Nat /\ IF terms.long THEN far <= stop ELSE stop <= far
  <2>1. CASE terms.long
    BY <1>2, <1>4, <2>1, SlippedDown
  <2>2. CASE ~terms.long
    BY <1>2, <1>4, <2>2, SlippedUp
  <2>3. QED
    BY <2>1, <2>2
<1>7. fill \in Nat /\ d \in Nat /\ e \in Nat /\ e <= d
  BY <1>3, <1>4, <1>5, <1>6 DEF Distance, Apart
<1>8. e * q * FeeScale <= d * q * FeeScale
  <2>1. e * q <= d * q /\ e * q \in Int /\ d * q \in Int
    BY <1>4, <1>7, TimesMonotone
  <2>2. QED
    BY <1>4, <2>1, TimesMonotone
<1>9. fill * q * Fee \in Nat /\ far * q * Fee \in Nat
  BY <1>4, <1>6, <1>7
<1>10. d * q * FeeScale \in Int /\ e * q * FeeScale \in Int
  BY <1>4, <1>7
<1>11. e * q * FeeScale <= budget
  BY ONLY <1>4, <1>5, <1>8, <1>9, <1>10
<1>12. QED
  BY <1>1, <1>3, <1>4, <1>11

LEMMA PutOrder ==
  ASSUME NEW b, BookOK(b), NEW o \in DOMAIN b.orders, NEW x, NEW c, c.orders = [b.orders EXCEPT ![o] = x]
  PROVE  /\ DOMAIN c.orders = DOMAIN b.orders /\ c.orders[o] = x
         /\ \A p \in DOMAIN b.orders \ {o} : c.orders[p] = b.orders[p]
<1>1. PICK f : f = b.orders
  OBVIOUS
<1>2. PICK g : g = c.orders
  OBVIOUS
<1>3. f = [p \in DOMAIN f |-> f[p]] /\ o \in DOMAIN f /\ g = [f EXCEPT ![o] = x]
  BY <1>1, <1>2 DEF BookOK
<1>4. DOMAIN g = DOMAIN f /\ g[o] = x /\ \A p \in DOMAIN f \ {o} : g[p] = f[p]
  BY ONLY <1>3
<1>5. QED
  BY <1>1, <1>2, <1>4

\* A quote meets one order, which fits its budget before and after.
LEMMA MeetsMoves ==
  ASSUME NEW b, BookOK(b), NEW o \in DOMAIN b.orders, NEW req, RequestOK(req), req.kind = "quote",
         NEW E, NEW t, OrderSound(b.orders[o], E, t)
  PROVE  /\ Moves(b.orders[o], Meets(b, o, req).orders[o], req.at)
         /\ DOMAIN Meets(b, o, req).orders = DOMAIN b.orders
         /\ \A p \in DOMAIN b.orders \ {o} : Meets(b, o, req).orders[p] = b.orders[p]
<1> DEFINE Goal(c) == /\ Moves(b.orders[o], c.orders[o], req.at)
                      /\ DOMAIN c.orders = DOMAIN b.orders
                      /\ \A p \in DOMAIN b.orders \ {o} : c.orders[p] = b.orders[p]
<1> SUFFICES Goal(Meets(b, o, req))
  OBVIOUS
<1>1. PICK order : order = b.orders[o]
  OBVIOUS
<1>2. /\ OrderOK(order) /\ OrderSound(order, E, t)
      /\ b = [cash |-> b.cash, realized |-> b.realized, clock |-> b.clock, orders |-> b.orders]
  BY <1>1 DEF BookOK
<1>3. ASSUME NEW c, NEW x, c.orders = [b.orders EXCEPT ![o] = x], Moves(order, x, req.at)
      PROVE  Goal(c)
  <2>1. /\ DOMAIN c.orders = DOMAIN b.orders /\ c.orders[o] = x
        /\ \A p \in DOMAIN b.orders \ {o} : c.orders[p] = b.orders[p]
    BY ONLY <1>3, BookOK(b), o \in DOMAIN b.orders, PutOrder
  <2>2. QED
    BY <1>1, <1>3, <2>1
<1>4. Goal(b)
  BY <1>1, <1>2, StaysPut
<1>5. ASSUME order.status = "PENDING" PROVE Goal(Enter(b, o, req))
  <2>1. PICK terms, fill, mark : /\ terms = order.terms /\ fill = FillPrice(req, terms.long)
                                 /\ mark = Mark(req, terms.long)
    OBVIOUS
  <2>2. ASSUME NEW v \in {"CANCELLED", "REJECTED"}
        PROVE  Goal([b EXCEPT !.orders[o].status = v])
    <3>1. PICK x : x = [order EXCEPT !.status = v]
      OBVIOUS
    <3>2. PICK c : c = [b EXCEPT !.orders[o].status = v]
      OBVIOUS
    <3>3. c.orders = [b.orders EXCEPT ![o] = x]
      BY ONLY <1>1, <1>2, <3>1, <3>2
    <3>4. x = [terms |-> order.terms, status |-> v, submitted |-> order.submitted,
               entry |-> order.entry, mark |-> order.mark, fills |-> order.fills]
      BY <1>2, <3>1 DEF OrderOK
    <3>5. /\ OrderOK(x) /\ x.terms = order.terms /\ x.submitted = order.submitted
          /\ x.status = v /\ x.entry = order.entry /\ x.mark = order.mark
      BY ONLY <3>4 DEF OrderOK
    <3>6. Moves(order, x, req.at)
      BY ONLY <1>5, <2>2, <3>5 DEF Moves, Fits, Pending, Entered
    <3>7. QED
      BY <1>3, <3>2, <3>3, <3>6
  <2>3. ASSUME Fillable(terms, fill, b.cash),
               NEW cash, NEW x, x = WithFill([order EXCEPT !.status = "OPEN", !.entry = fill, !.mark = mark],
                                             req, "ENTRY", fill),
               NEW c, c = [b EXCEPT !.cash = cash, !.orders[o] = x]
        PROVE  Goal(c)
    <3>1. c.orders = [b.orders EXCEPT ![o] = x]
      BY ONLY <1>2, <2>3
    <3>2. PICK f : f = [kind |-> "ENTRY", price |-> fill, at |-> req.at, by |-> req.id]
      OBVIOUS
    <3>3. PICK a : a = [order EXCEPT !.status = "OPEN", !.entry = fill, !.mark = mark]
      OBVIOUS
    <3>4. a = [terms |-> order.terms, status |-> "OPEN", submitted |-> order.submitted,
               entry |-> fill, mark |-> mark, fills |-> order.fills]
      BY ONLY <1>2, <3>3 DEF OrderOK
    <3>5. /\ OrderOK(a) /\ a.terms = order.terms /\ a.status = "OPEN"
          /\ a.submitted = order.submitted /\ a.entry = fill /\ a.mark = mark
      BY ONLY <3>4 DEF OrderOK
    <3>6. x = [terms |-> order.terms, status |-> "OPEN", submitted |-> order.submitted,
               entry |-> fill, mark |-> mark, fills |-> Append(a.fills, f)]
      <4>1. x = WithFill(a, req, "ENTRY", fill)
        BY ONLY <2>3, <3>3
      <4>2. QED
        BY ONLY <3>2, <3>5, <4>1, FillParts
    <3>7. /\ OrderOK(x) /\ x.terms = order.terms /\ x.status = "OPEN"
          /\ x.submitted = order.submitted /\ x.entry = fill /\ x.mark = mark
      BY ONLY <3>6 DEF OrderOK
    <3>8. fill \in Int /\ mark \in Int
      <4>1. order.terms.long \in BOOLEAN /\ req.bid \in Nat /\ req.ask \in Nat
        BY <1>2 DEF OrderSound, RequestOK
      <4>2. mark \in {req.bid, req.ask}
        BY <2>1 DEF Mark
      <4>3. QED
        BY <2>1, <4>1, <4>2, PriceType
    <3>9. Fits(order) => Fits(x)
      <4>1. SUFFICES ASSUME Fits(order) PROVE Fits(x)
        OBVIOUS
      <4>2. TermsOK(terms)
        BY <2>1, <4>1 DEF Fits
      <4>3. Apart(fill, terms.stop) * terms.quantity * Scale <= terms.budget
        BY <2>3, <3>8, <4>2, GateFits
      <4>4. OpenRiskOf(x) = Apart(fill, terms.stop) * terms.quantity * Scale
        BY <2>1, <3>7 DEF OpenRiskOf
      <4>5. QED
        BY ONLY <2>1, <3>7, <3>8, <4>2, <4>3, <4>4 DEF Fits
    <3>10. Moves(order, x, req.at)
      BY ONLY <1>5, <3>7, <3>9 DEF Moves, Pending, Entered
    <3>11. QED
      BY <1>3, <3>1, <3>10
  <2>4. PICK cash : cash = b.cash - Value(fill, terms.quantity) - FeeOn(fill, terms.quantity)
    OBVIOUS
  <2>5. PICK x : x = WithFill([order EXCEPT !.status = "OPEN", !.entry = fill, !.mark = mark],
                              req, "ENTRY", fill)
    OBVIOUS
  <2>6. PICK c : c = [b EXCEPT !.cash = cash, !.orders[o] = x]
    OBVIOUS
  <2>7. \/ Enter(b, o, req) \in {[b EXCEPT !.orders[o].status = "CANCELLED"], b,
                                [b EXCEPT !.orders[o].status = "REJECTED"]}
        \/ Enter(b, o, req) = c /\ Fillable(terms, fill, b.cash)
    BY <1>1, <2>1, <2>4, <2>5, <2>6 DEF Enter
  <2>8. /\ Goal([b EXCEPT !.orders[o].status = "CANCELLED"])
        /\ Goal([b EXCEPT !.orders[o].status = "REJECTED"])
    BY <2>2
  <2> HIDE DEF Goal
  <2>9. Fillable(terms, fill, b.cash) => Goal(c)
    BY <2>3, <2>5, <2>6
  <2>10. QED
    BY <1>4, <2>7, <2>8, <2>9
<1>6. ASSUME order.status \in Entered PROVE Goal(Leave(b, o, req))
  <2>1. PICK mark, price : mark = Mark(req, order.terms.long) /\ price = FillPrice(req, ~order.terms.long)
    OBVIOUS
  <2>2. mark \in Int
    BY <2>1 DEF Mark, RequestOK
  <2>3. Goal([b EXCEPT !.orders[o].mark = mark])
    <3>1. PICK x : x = [order EXCEPT !.mark = mark]
      OBVIOUS
    <3>2. PICK c : c = [b EXCEPT !.orders[o].mark = mark]
      OBVIOUS
    <3>3. c.orders = [b.orders EXCEPT ![o] = x]
      BY ONLY <1>1, <1>2, <3>1, <3>2
    <3>4. x = [terms |-> order.terms, status |-> order.status, submitted |-> order.submitted,
               entry |-> order.entry, mark |-> mark, fills |-> order.fills]
      BY <1>2, <3>1 DEF OrderOK
    <3>5. /\ OrderOK(x) /\ x.terms = order.terms /\ x.submitted = order.submitted
          /\ x.status = order.status /\ x.entry = order.entry /\ x.mark = mark
      BY ONLY <3>4 DEF OrderOK
    <3>6. OpenRiskOf(x) = OpenRiskOf(order)
      BY ONLY <3>5 DEF OpenRiskOf
    <3>7. Moves(order, x, req.at)
      BY ONLY <1>6, <2>2, <3>5, <3>6 DEF Moves, Fits, Pending, Entered
    <3>8. QED
      BY <1>3, <3>2, <3>3, <3>7
  <2>4. ASSUME NEW cash, NEW realized,
               NEW x, x = WithFill([order EXCEPT !.status = "CLOSED", !.mark = mark], req, "EXIT", price),
               NEW c, c = [b EXCEPT !.cash = cash, !.realized = realized, !.orders[o] = x]
        PROVE  Goal(c)
    <3>1. c.orders = [b.orders EXCEPT ![o] = x]
      <4>1. PICK d : d = [b EXCEPT !.cash = cash, !.realized = realized]
        OBVIOUS
      <4>2. d = [cash |-> cash, realized |-> realized, clock |-> b.clock, orders |-> b.orders]
        BY ONLY <1>2, <4>1
      <4>3. c = [d EXCEPT !.orders[o] = x]
        BY ONLY <2>4, <4>1
      <4>4. QED
        BY ONLY <4>2, <4>3
    <3>2. PICK g : g = [kind |-> "EXIT", price |-> price, at |-> req.at, by |-> req.id]
      OBVIOUS
    <3>3. PICK a : a = [order EXCEPT !.status = "CLOSED", !.mark = mark]
      OBVIOUS
    <3>4. a = [terms |-> order.terms, status |-> "CLOSED", submitted |-> order.submitted,
               entry |-> order.entry, mark |-> mark, fills |-> order.fills]
      BY ONLY <1>2, <3>3 DEF OrderOK
    <3>5. /\ OrderOK(a) /\ a.terms = order.terms /\ a.status = "CLOSED" /\ a.fills = order.fills
          /\ a.submitted = order.submitted /\ a.entry = order.entry /\ a.mark = mark
      BY ONLY <3>4 DEF OrderOK
    <3>6. x = [terms |-> order.terms, status |-> "CLOSED", submitted |-> order.submitted,
               entry |-> order.entry, mark |-> mark, fills |-> Append(order.fills, g)]
      <4>1. x = WithFill(a, req, "EXIT", price)
        BY ONLY <2>4, <3>3
      <4>2. QED
        BY ONLY <3>2, <3>5, <4>1, FillParts
    <3>7. PICK f : order.fills = <<f>>
      BY <1>2, <1>6 DEF OrderSound, Entered, Refusals
    <3>8. Append(order.fills, g) = <<f, g>>
      <4>1. Append(<<f>>, g) = <<f, g>>
        BY Appended
      <4>2. QED
        BY ONLY <3>7, <4>1
    <3>9. /\ OrderOK(x) /\ x.terms = order.terms /\ x.status = "CLOSED"
          /\ x.submitted = order.submitted /\ x.entry = order.entry /\ x.mark = mark
          /\ x.fills = <<f, g>>
      BY ONLY <3>6, <3>8 DEF OrderOK
    <3>10. x.fills[2].at = req.at /\ x.fills[2].price \in Int
      <4>1. order.terms.long \in BOOLEAN /\ req.bid \in Nat /\ req.ask \in Nat
        BY <1>2 DEF OrderSound, RequestOK
      <4>2. price \in Int
        BY <2>1, <4>1, PriceType
      <4>3. QED
        BY ONLY <3>2, <3>9, <4>2
    <3>11. Moves(order, x, req.at)
      BY ONLY <1>6, <2>2, <3>9, <3>10 DEF Moves, Fits, Pending, Entered
    <3>12. QED
      BY <1>3, <3>1, <3>11
  <2>5. PICK q : q = order.terms.quantity
    OBVIOUS
  <2>6. PICK gross : gross = Value(Gain(order.terms, order.entry, price), q)
    OBVIOUS
  <2>7. PICK cash : cash = b.cash + Value(order.entry, q) + gross - FeeOn(price, q)
    OBVIOUS
  <2>8. PICK realized : realized = b.realized + gross - FeeOn(order.entry, q) - FeeOn(price, q)
    OBVIOUS
  <2>9. PICK x : x = WithFill([order EXCEPT !.status = "CLOSED", !.mark = mark], req, "EXIT", price)
    OBVIOUS
  <2>10. PICK c : c = [b EXCEPT !.cash = cash, !.realized = realized, !.orders[o] = x]
    OBVIOUS
  <2>11. Leave(b, o, req) \in {[b EXCEPT !.orders[o].mark = mark], c}
    BY <1>1, <2>1, <2>5, <2>6, <2>7, <2>8, <2>9, <2>10 DEF Leave
  <2> HIDE DEF Goal
  <2>12. Goal(c)
    BY <2>4, <2>9, <2>10
  <2>13. QED
    BY <2>3, <2>11, <2>12
<1>7. Meets(b, o, req) = CASE order.status = "PENDING" -> Enter(b, o, req)
                           [] order.status \in Entered -> Leave(b, o, req)
                           [] OTHER -> b
  BY <1>1 DEF Meets, Entered
<1>8. "PENDING" \notin Entered
  BY DEF Entered
<1> HIDE DEF Goal
<1>9. QED
  BY <1>4, <1>5, <1>6, <1>7, <1>8

BookMoves(b, c, t) ==
  /\ DOMAIN c.orders = DOMAIN b.orders
  /\ \A o \in DOMAIN b.orders : Moves(b.orders[o], c.orders[o], t)

\* On its round a quote meets every order once, as it was before the round.
LEMMA QuotedMoves ==
  ASSUME NEW b, NEW E, NEW t, SoundBook(b, E, t), NEW req, RequestOK(req), req.kind = "quote",
         NEW c \in Quoted(b, req)
  PROVE  BookMoves(b, c, req.at)
<1>a. PICK S : S = DOMAIN b.orders
  OBVIOUS
<1>1. IsFiniteSet(S) /\ BookOK(b)
  BY <1>a DEF SoundBook, BookOK
<1>2. PICK g : IsRound(g, b, req, S) /\ c = g[S]
  BY <1>1, <1>a, QuotedRound
<1> DEFINE Met(s) == /\ BookOK(g[s]) /\ DOMAIN g[s].orders = S
                     /\ \A o \in S \ s : g[s].orders[o] = b.orders[o]
                     /\ \A o \in s : Moves(b.orders[o], g[s].orders[o], req.at)
           Bad == {s \in SUBSET S : ~Met(s)}
<1>3. Bad = {}
  <2> SUFFICES ASSUME Bad # {} PROVE FALSE
    OBVIOUS
  <2>1. Bad \in SUBSET SUBSET S
    OBVIOUS
  <2>2. PICK s \in Bad : \A u \in Bad : u \subseteq s => u = s
    <3> HIDE DEF Bad
    <3>1. QED
      BY <1>1, <2>1, Smallest
  <2>3. s # {}
    <3>1. g[{}] = b
      BY <1>2, RoundStep
    <3>2. Met({})
      BY <1>1, <1>a, <3>1
    <3>3. QED
      BY <2>2, <3>2
  <2>4. PICK o : o = Pick(s)
    OBVIOUS
  <2>5. PICK u : u = s \ {o}
    OBVIOUS
  <2>6. o \in s /\ o \in S /\ s \in SUBSET S /\ u \in SUBSET S /\ u \notin Bad /\ o \notin u
    BY <2>2, <2>3, <2>4, <2>5, Picked
  <2>7. PICK d : d = g[u]
    OBVIOUS
  <2>8. /\ BookOK(d) /\ DOMAIN d.orders = S
        /\ \A p \in S \ u : d.orders[p] = b.orders[p]
        /\ \A p \in u : Moves(b.orders[p], d.orders[p], req.at)
    BY <2>6, <2>7
  <2>9. g[s] = Meets(d, o, req)
    <3>1. g[s] = Meets(g[s \ {Pick(s)}], Pick(s), req)
      BY ONLY <1>2, <2>3, <2>6, RoundStep
    <3>2. QED
      BY <2>4, <2>5, <2>7, <3>1
  <2>10. PICK e : e = Meets(d, o, req)
    OBVIOUS
  <2>11. OrderSound(d.orders[o], E, t) /\ d.orders[o] = b.orders[o] /\ o \in DOMAIN d.orders
    BY <1>a, <2>6, <2>8 DEF SoundBook
  <2>12. /\ Moves(b.orders[o], e.orders[o], req.at) /\ DOMAIN e.orders = S
         /\ \A p \in S \ {o} : e.orders[p] = d.orders[p]
    <3>1. /\ Moves(d.orders[o], Meets(d, o, req).orders[o], req.at)
          /\ DOMAIN Meets(d, o, req).orders = DOMAIN d.orders
          /\ \A p \in DOMAIN d.orders \ {o} : Meets(d, o, req).orders[p] = d.orders[p]
      BY ONLY <2>8, <2>11, RequestOK(req), req.kind = "quote", MeetsMoves
    <3>2. QED
      BY ONLY <2>8, <2>10, <2>11, <3>1
  <2>13. BookOK(e)
    BY <2>8, <2>10, <2>11, MeetsKeeps DEF Keeps
  <2>14. \A p \in S \ s : e.orders[p] = b.orders[p]
    BY <2>5, <2>6, <2>8, <2>12
  <2>15. \A p \in s : Moves(b.orders[p], e.orders[p], req.at)
    BY <2>5, <2>6, <2>8, <2>12
  <2>16. g[s] = e
    BY <2>9, <2>10
  <2>17. Met(s)
    BY ONLY <2>12, <2>13, <2>14, <2>15, <2>16
  <2>18. QED
    BY <2>2, <2>17
<1>4. Met(S)
  BY <1>3
<1>5. QED
  BY <1>2, <1>4, <1>a DEF BookMoves

\* The session's end closes no order: what is open waits for a quote.
LEMMA EndMoves ==
  ASSUME NEW b, BookOK(b), NEW req, NEW c \in SessionEnded(b, req), NEW t
  PROVE  /\ BookMoves(b, c, t)
         /\ \A o \in DOMAIN b.orders : c.orders[o].status = "CLOSED" => b.orders[o].status = "CLOSED"
<1>1. PICK f : f = [o \in DOMAIN b.orders |->
                      IF req.at < b.orders[o].terms.ends THEN b.orders[o]
                      ELSE [b.orders[o] EXCEPT !.status = StatusAtEnd(@)]]
  OBVIOUS
<1>2. c = [b EXCEPT !.orders = f]
  BY <1>1 DEF SessionEnded
<1>3. c = [cash |-> b.cash, realized |-> b.realized, clock |-> b.clock, orders |-> f]
  BY <1>2 DEF BookOK
<1>4. c.orders = f /\ DOMAIN f = DOMAIN b.orders
  BY <1>1, <1>3
<1>5. ASSUME NEW o \in DOMAIN b.orders
      PROVE  /\ Moves(b.orders[o], f[o], t)
             /\ f[o].status = "CLOSED" => b.orders[o].status = "CLOSED"
  <2>1. PICK order : order = b.orders[o]
    OBVIOUS
  <2>2. PICK x : x = [order EXCEPT !.status = StatusAtEnd(order.status)]
    OBVIOUS
  <2>3. OrderOK(order)
    BY <2>1 DEF BookOK
  <2>4. x = [terms |-> order.terms, status |-> StatusAtEnd(order.status),
             submitted |-> order.submitted, entry |-> order.entry, mark |-> order.mark,
             fills |-> order.fills]
    BY <2>2, <2>3 DEF OrderOK
  <2>5. /\ OrderOK(x) /\ x.terms = order.terms /\ x.submitted = order.submitted
        /\ x.status = StatusAtEnd(order.status) /\ x.entry = order.entry /\ x.mark = order.mark
    BY ONLY <2>4 DEF OrderOK
  <2>6. CASE order.status = "PENDING"
    <3>1. x.status = "CANCELLED"
      BY <2>5, <2>6 DEF StatusAtEnd
    <3>2. Moves(order, x, t) /\ x.status # "CLOSED"
      BY ONLY <2>5, <2>6, <3>1 DEF Moves, Fits, Pending, Entered
    <3>3. QED
      BY <1>1, <2>1, <2>2, <2>3, <3>2, StaysPut
  <2>7. CASE order.status = "OPEN"
    <3>1. x.status = "EXIT_PENDING"
      BY <2>5, <2>7 DEF StatusAtEnd
    <3>2. OpenRiskOf(x) = OpenRiskOf(order)
      BY <2>5, <2>7, <3>1 DEF OpenRiskOf
    <3>3. Moves(order, x, t) /\ x.status # "CLOSED"
      BY ONLY <2>5, <2>7, <3>1, <3>2 DEF Moves, Fits, Pending, Entered
    <3>4. QED
      BY <1>1, <2>1, <2>2, <2>3, <3>3, StaysPut
  <2>8. CASE order.status \notin {"PENDING", "OPEN"}
    <3>1. x.status = order.status
      BY <2>5, <2>8 DEF StatusAtEnd
    <3>2. x = order
      BY <2>3, <2>4, <2>5, <3>1 DEF OrderOK
    <3>3. QED
      BY <1>1, <2>1, <2>2, <2>3, <3>2, StaysPut
  <2>9. QED
    BY <2>6, <2>7, <2>8
<1>6. QED
  BY <1>4, <1>5 DEF BookMoves

----------------------------------------------------------------------------
(* What holds of a ledger, the peak w and the candidates P submitted: the  *)
(* limits, and what the next submission needs to keep them.                *)

LossesTo(b, s) == {o \in Closed(b) : ExitOf(b, o) <= s}
RowTo(b, s) ==
  {o \in LossesTo(b, s) :
     \A x \in LossesTo(b, s) : ExitOf(b, x) >= ExitOf(b, o) => Net(b.orders[x]) < 0}
Rested(b, s) ==
  Cardinality(RowTo(b, s)) >= LossStreakLimit =>
    \A x \in RowTo(b, s) : s - ExitOf(b, x) >= LossCooldown

\* An order is of the instant of its candidate, for which a quote has come; it was
\* submitted after a pause, on a budget the peak allows.
Placed(l, w, P, o) ==
  LET order == l.book.orders[o] IN
  /\ Fits(order) /\ order.terms.budget <= Part(w, RiskPerTrade)
  /\ order.submitted \in Nat /\ order.submitted <= l.book.clock
  /\ o.at = order.submitted /\ o \in P
  /\ \E e \in l.events : e.id = <<"quote", order.submitted>>
  /\ Rested(l.book, order.submitted)

Spaced(b) ==
  \A o, x \in DOMAIN b.orders :
    x # o /\ x.strategy = o.strategy /\ x.direction = o.direction =>
      Apart(b.orders[x].submitted, b.orders[o].submitted) >= EmitCooldown

Within(l, w, P) ==
  /\ SoundLedger(l) /\ w \in Int
  /\ \A o \in DOMAIN l.book.orders : Placed(l, w, P, o)
  /\ Cardinality(Live(l.book)) <= MaximumPositions
  /\ \A d \in Nat : Cardinality(Orders(l.book, d)) <= MaximumTradesPerDay
  /\ Spaced(l.book)

LEMMA LiveIs == ASSUME NEW b PROVE Live(b) = {o \in DOMAIN b.orders : b.orders[o].status \in Pending}
BY DEF Live, Pending

\* A pause once kept stays kept: no order closes at or before an instant of submission.
LEMMA RestedStill ==
  ASSUME NEW b, NEW c, NEW t \in Nat, BookMoves(b, c, t), NEW s \in Nat, Rested(b, s),
         \A o \in DOMAIN b.orders :
           c.orders[o].status = "CLOSED" /\ b.orders[o].status # "CLOSED" => s < t
  PROVE  Rested(c, s)
<1>1. ASSUME NEW o \in LossesTo(b, s)
      PROVE  /\ o \in LossesTo(c, s) /\ c.orders[o] = b.orders[o]
             /\ ExitOf(c, o) = ExitOf(b, o)
  <2>1. o \in DOMAIN b.orders /\ b.orders[o].status = "CLOSED" /\ ExitOf(b, o) <= s
    BY DEF LossesTo, Closed
  <2>2. c.orders[o] = b.orders[o] /\ o \in DOMAIN c.orders
    BY <2>1 DEF BookMoves, Moves, Pending, Entered
  <2>3. ExitOf(c, o) = ExitOf(b, o)
    BY <2>2 DEF ExitOf
  <2>4. QED
    BY <2>1, <2>2, <2>3 DEF LossesTo, Closed
<1>2. ASSUME NEW o \in LossesTo(c, s) PROVE o \in LossesTo(b, s)
  <2>1. o \in DOMAIN b.orders /\ c.orders[o].status = "CLOSED" /\ ExitOf(c, o) <= s
    BY DEF LossesTo, Closed, BookMoves
  <2>2. Moves(b.orders[o], c.orders[o], t)
    BY <2>1 DEF BookMoves
  <2>3. CASE b.orders[o].status = "CLOSED"
    <3>1. c.orders[o] = b.orders[o]
      BY <2>2, <2>3 DEF Moves, Pending, Entered
    <3>2. ExitOf(b, o) = ExitOf(c, o)
      BY <3>1 DEF ExitOf
    <3>3. QED
      BY <2>1, <2>3, <3>2 DEF LossesTo, Closed
  <2>4. CASE b.orders[o].status # "CLOSED"
    <3>1. ExitOf(c, o) = t /\ s < t
      BY <2>1, <2>2, <2>4 DEF Moves, ExitOf
    <3>2. QED
      BY <2>1, <3>1
  <2>5. QED
    BY <2>3, <2>4
<1>3. LossesTo(c, s) = LossesTo(b, s)
  BY <1>1, <1>2
<1>4. RowTo(c, s) = RowTo(b, s) /\ \A x \in RowTo(b, s) : x \in LossesTo(b, s)
  BY <1>1, <1>3 DEF RowTo
<1>5. \A x \in RowTo(b, s) : ExitOf(c, x) = ExitOf(b, x)
  BY <1>1, <1>4
<1>6. QED
  BY <1>4, <1>5 DEF Rested

LEMMA MovedWithin ==
  ASSUME NEW l, NEW w, NEW P, Within(l, w, P), NEW m, SoundLedger(m),
         NEW t \in Nat, BookMoves(l.book, m.book, t),
         l.book.clock <= m.book.clock, l.events \subseteq m.events,
         \A o, x \in DOMAIN l.book.orders :
           m.book.orders[o].status = "CLOSED" /\ l.book.orders[o].status # "CLOSED"
             => l.book.orders[x].submitted < t
  PROVE  Within(m, w, P)
<1>1. PICK b, c : b = l.book /\ c = m.book
  OBVIOUS
<1>2. /\ BookMoves(b, c, t) /\ DOMAIN c.orders = DOMAIN b.orders
      /\ \A o \in DOMAIN b.orders : Moves(b.orders[o], c.orders[o], t)
      /\ b.clock \in Nat /\ c.clock \in Nat /\ b.clock <= c.clock
      /\ IsFiniteSet(DOMAIN b.orders)
  BY <1>1 DEF BookMoves, Within, SoundLedger, SoundBook, BookOK
<1>3. ASSUME NEW o \in DOMAIN c.orders PROVE Placed(m, w, P, o)
  <2>1. o \in DOMAIN b.orders /\ Moves(b.orders[o], c.orders[o], t) /\ Placed(l, w, P, o)
    BY <1>1, <1>2 DEF Within
  <2>2. PICK x, y : x = b.orders[o] /\ y = c.orders[o]
    OBVIOUS
  <2>3. y.terms = x.terms /\ y.submitted = x.submitted /\ Fits(x) /\ Fits(y)
    BY <1>1, <2>1, <2>2 DEF Moves, Placed
  <2>4. /\ x.terms.budget <= Part(w, RiskPerTrade) /\ x.submitted \in Nat /\ x.submitted <= b.clock
        /\ o.at = x.submitted /\ o \in P /\ (\E e \in l.events : e.id = <<"quote", x.submitted>>)
        /\ Rested(b, x.submitted)
    BY <1>1, <2>1, <2>2 DEF Placed
  <2>5. Rested(c, x.submitted)
    <3>1. \A p \in DOMAIN b.orders :
            c.orders[p].status = "CLOSED" /\ b.orders[p].status # "CLOSED" => x.submitted < t
      BY <1>1, <2>1, <2>2
    <3>2. QED
      BY <1>2, <2>4, <3>1, RestedStill
  <2>6. QED
    BY <1>1, <1>2, <2>2, <2>3, <2>4, <2>5 DEF Placed
<1>4. Cardinality(Live(c)) <= MaximumPositions
  <2>1. Live(c) \subseteq Live(b)
    BY <1>2, LiveIs DEF Moves
  <2>2. IsFiniteSet(Live(b))
    BY <1>2, FS_Subset DEF Live
  <2>3. /\ Cardinality(Live(c)) <= Cardinality(Live(b)) /\ Cardinality(Live(c)) \in Nat
        /\ Cardinality(Live(b)) \in Nat /\ Cardinality(Live(b)) <= MaximumPositions
    BY <1>1, <2>1, <2>2, FS_Subset, FS_CardinalityType DEF Within
  <2>4. QED
    BY <2>3, RiskAssumption
<1>5. ASSUME NEW d \in Nat PROVE Cardinality(Orders(c, d)) <= MaximumTradesPerDay
  <2>1. Orders(c, d) = Orders(b, d)
    BY <1>2 DEF Orders, Moves
  <2>2. QED
    BY <1>1, <2>1 DEF Within
<1>6. Spaced(c)
  BY <1>1, <1>2 DEF Within, Spaced, Moves
<1>7. w \in Int
  BY DEF Within
<1>8. QED
  BY <1>1, <1>3, <1>4, <1>5, <1>6, <1>7 DEF Within

LEMMA ClockParts ==
  ASSUME NEW c, BookOK(c), NEW t, NEW d, d = [c EXCEPT !.clock = t]
  PROVE  d.clock = t /\ d.orders = c.orders
<1>1. d = [cash |-> c.cash, realized |-> c.realized, clock |-> t, orders |-> c.orders]
  BY DEF BookOK
<1>2. QED
  BY ONLY <1>1

\* A quote that is new is later than every submission: an order is submitted on a quote of
\* its own instant.
LEMMA QuotedWithin ==
  ASSUME NEW l, NEW w, NEW P, Within(l, w, P), NEW at \in Nat, NEW quote \in Quotes,
         NEW m \in After(l, QuoteRequest(at, quote))
  PROVE  Within(m, w, P) /\ \E e \in m.events : e.id = <<"quote", at>>
<1>1. PICK req : req = QuoteRequest(at, quote)
  OBVIOUS
<1>2. req.kind = "quote" /\ req.id = <<"quote", at>> /\ req.at = at /\ RequestOK(req)
  <2>1. quote[1] \in Nat /\ quote[2] \in Nat
    BY CoreAssumption
  <2>2. QED
    BY <1>1, <2>1 DEF QuoteRequest, RequestOK
<1>3. CASE Known(l, req.id)
  <2>1. m = l
    BY <1>1, <1>3 DEF After
  <2>2. QED
    BY <1>2, <1>3, <2>1 DEF Known
<1>4. CASE ~Known(l, req.id)
  <2>1. PICK c \in Applied(l.book, req) :
          m = [book |-> [c EXCEPT !.clock = at], events |-> l.events \cup {req}]
    BY <1>1, <1>2, <1>4 DEF After, Refused
  <2>2. ~(at < l.book.clock)
    BY <1>1, <1>2, <1>4 DEF After, Refused
  <2>3. c \in Quoted(l.book, req)
    BY <1>2, <2>1 DEF Applied
  <2>4. SoundLedger(l) /\ l.book.clock \in Nat /\ SoundBook(l.book, l.events, l.book.clock)
    BY DEF Within, SoundLedger
  <2>5. BookMoves(l.book, c, at) /\ BookOK(c)
    <3>1. BookMoves(l.book, c, at)
      BY <1>2, <2>3, <2>4, QuotedMoves
    <3>2. BookOK(c)
      BY <2>3, <2>4, QuotedKeeps DEF SoundBook, Keeps
    <3>3. QED
      BY <3>1, <3>2
  <2>6. m.book.clock = at /\ m.book.orders = c.orders /\ m.events = l.events \cup {req}
    <3>1. m.book = [c EXCEPT !.clock = at] /\ m.events = l.events \cup {req}
      BY ONLY <2>1
    <3>2. QED
      BY ONLY <2>5, <3>1, ClockParts
  <2>7. SoundLedger(m)
    BY <1>1, <1>2, <2>4, AfterSound
  <2>8. BookMoves(l.book, m.book, at)
    BY <2>5, <2>6 DEF BookMoves
  <2>9. ASSUME NEW x \in DOMAIN l.book.orders PROVE l.book.orders[x].submitted < at
    <3>1. PICK s : s = l.book.orders[x].submitted
      OBVIOUS
    <3>2. s \in Nat /\ s <= l.book.clock /\ \E e \in l.events : e.id = <<"quote", s>>
      BY <3>1 DEF Within, Placed
    <3>3. s # at
      BY <1>2, <1>4, <3>2 DEF Known
    <3>4. QED
      BY <2>2, <2>4, <3>1, <3>2, <3>3
  <2>10. Within(m, w, P)
    BY <2>2, <2>4, <2>6, <2>7, <2>8, <2>9, MovedWithin
  <2>11. QED
    BY <1>2, <2>6, <2>10
<1>5. QED
  BY <1>3, <1>4

LEMMA EndedWithin ==
  ASSUME NEW l, NEW w, NEW P, Within(l, w, P), NEW at \in Nat, NEW m \in EndedLedgers(l, at)
  PROVE  Within(m, w, P)
<1>1. PICK req : req = EndRequest(at)
  OBVIOUS
<1>2. req.kind = "end" /\ req.at = at /\ RequestOK(req)
  BY <1>1 DEF EndRequest, RequestOK
<1>3. CASE m = l
  BY <1>3
<1>4. CASE m # l
  <2>1. m \in After(l, req) /\ ~Known(l, req.id)
    BY <1>1, <1>4 DEF EndedLedgers, After
  <2>2. PICK c \in Applied(l.book, req) :
          m = [book |-> [c EXCEPT !.clock = at], events |-> l.events \cup {req}]
    BY <1>2, <2>1 DEF After, Refused
  <2>3. ~(at < l.book.clock)
    BY <1>2, <2>1 DEF After, Refused
  <2>4. c \in SessionEnded(l.book, req)
    BY <1>2, <2>2 DEF Applied
  <2>5. SoundLedger(l) /\ l.book.clock \in Nat /\ BookOK(l.book)
    BY DEF Within, SoundLedger, SoundBook
  <2>6. /\ BookMoves(l.book, c, at) /\ BookOK(c)
        /\ \A o \in DOMAIN l.book.orders : c.orders[o].status = "CLOSED" => l.book.orders[o].status = "CLOSED"
    BY <2>4, <2>5, EndMoves, EndKeeps DEF Keeps
  <2>7. m.book.clock = at /\ m.book.orders = c.orders /\ m.events = l.events \cup {req}
    BY <2>2, <2>6, ClockParts
  <2>8. SoundLedger(m)
    BY <1>2, <2>1, <2>5, AfterSound
  <2>9. BookMoves(l.book, m.book, at)
    BY <2>6, <2>7 DEF BookMoves
  <2>10. QED
    BY <2>3, <2>5, <2>6, <2>7, <2>8, <2>9, MovedWithin
<1>5. QED
  BY <1>3, <1>4

LEMMA PartMonotone ==
  ASSUME NEW x \in Int, NEW y \in Int, x <= y, NEW f \in (Nat \ {0}) \X (Nat \ {0})
  PROVE  Part(x, f) \in Int /\ Part(x, f) <= Part(y, f)
<1>1. PICK a, b : a = f[1] /\ b = f[2] /\ a \in Nat \ {0} /\ b \in Nat \ {0}
  OBVIOUS
<1>2. PICK p, q : p = (x * a) \div b /\ q = (y * a) \div b
  OBVIOUS
<1>3. x * a <= y * a /\ x * a \in Int /\ y * a \in Int
  BY <1>1, TimesMonotone
<1>4. p \in Int /\ q \in Int /\ p * b <= x * a /\ y * a < q * b + b
  BY <1>1, <1>2, <1>3, DivWithin
<1>5. p <= q
  <2> SUFFICES ASSUME q + 1 <= p PROVE FALSE
    BY <1>4
  <2>1. (q + 1) * b <= p * b
    BY <1>1, <1>4, TimesMonotone
  <2>2. (q + 1) * b = q * b + b /\ q * b \in Int /\ p * b \in Int
    BY <1>1, <1>4
  <2>3. QED
    BY <1>1, <1>3, <1>4, <2>1, <2>2
<1>6. QED
  BY <1>1, <1>2, <1>4, <1>5 DEF Part

\* The peak rises and candidates are submitted.
LEMMA MoreWithin ==
  ASSUME NEW l, NEW w, NEW P, Within(l, w, P), NEW v \in Int, w <= v, NEW Q, P \subseteq Q
  PROVE  Within(l, v, Q)
<1>1. w \in Int /\ Part(w, RiskPerTrade) \in Int /\ Part(v, RiskPerTrade) \in Int
      /\ Part(w, RiskPerTrade) <= Part(v, RiskPerTrade)
  BY PartMonotone, RiskAssumption DEF Within
<1>2. ASSUME NEW o \in DOMAIN l.book.orders PROVE Placed(l, v, Q, o)
  <2>1. Placed(l, w, P, o)
    BY DEF Within
  <2>2. l.book.orders[o].terms.budget \in Int
    BY <2>1 DEF Placed, Fits, TermsOK
  <2>3. l.book.orders[o].terms.budget <= Part(v, RiskPerTrade)
    BY <1>1, <2>1, <2>2 DEF Placed
  <2>4. QED
    BY <2>1, <2>3 DEF Placed
<1>3. QED
  BY <1>2 DEF Within

\* Only closed orders make a row of losses.
LEMMA RestedSame ==
  ASSUME NEW b, NEW c, NEW s, Rested(b, s), DOMAIN b.orders \subseteq DOMAIN c.orders,
         \A o \in DOMAIN b.orders : c.orders[o] = b.orders[o],
         \A o \in DOMAIN c.orders \ DOMAIN b.orders : c.orders[o].status # "CLOSED"
  PROVE  Rested(c, s)
<1>1. Closed(c) = Closed(b) /\ \A o \in Closed(b) : o \in DOMAIN b.orders
  BY DEF Closed
<1>2. \A o \in Closed(b) : ExitOf(c, o) = ExitOf(b, o) /\ c.orders[o] = b.orders[o]
  BY <1>1 DEF ExitOf
<1>3. LossesTo(c, s) = LossesTo(b, s) /\ \A o \in LossesTo(b, s) : o \in Closed(b)
  BY <1>1, <1>2 DEF LossesTo
<1>4. RowTo(c, s) = RowTo(b, s) /\ \A o \in RowTo(b, s) : o \in Closed(b)
  BY <1>2, <1>3 DEF RowTo
<1>5. QED
  BY <1>2, <1>4 DEF Rested

LEMMA DayParts ==
  ASSUME NEW at \in Nat PROVE DayOf(at) \in Nat /\ SessionEnd(at) \in Nat
<1>1. PICK n, s, d : n = DayLength /\ s = SessionLength /\ d = at \div n
  OBVIOUS
<1>2. n \in Nat \ {0} /\ s \in Nat
  BY <1>1, CoreAssumption
<1>3. d \in Int /\ d * n <= at /\ at < d * n + n
  BY <1>1, <1>2, DivWithin
<1>4. d >= 0
  <2> SUFFICES ASSUME d <= -1 PROVE FALSE
    BY <1>3
  <2>1. d * n <= (-1) * n
    BY <1>2, <1>3, TimesMonotone
  <2>2. QED
    BY <1>2, <1>3, <2>1
<1>5. d * n \in Nat
  BY <1>2, <1>3, <1>4
<1>6. QED
  BY <1>1, <1>2, <1>3, <1>4, <1>5 DEF DayOf, SessionEnd

\* One more at most, where there is room for one.
LEMMA RoomForOne ==
  ASSUME NEW S, IsFiniteSet(S), NEW x, NEW T, T \subseteq S \cup {x}, NEW n \in Nat, Cardinality(S) < n
  PROVE  Cardinality(T) <= n
<1>1. /\ IsFiniteSet(S \cup {x}) /\ Cardinality(S) \in Nat /\ Cardinality(S \cup {x}) \in Nat
      /\ Cardinality(S \cup {x}) <= Cardinality(S) + 1
  BY FS_AddElement, FS_CardinalityType
<1>2. Cardinality(T) \in Nat /\ Cardinality(T) <= Cardinality(S \cup {x})
  BY <1>1, FS_Subset, FS_CardinalityType
<1>3. QED
  BY <1>1, <1>2

\* What the gates make sure of before an order of the plan is submitted.
Allowed(l, w, P, at, candidate, plan, budget) ==
  /\ Within(l, w, P) /\ at \in Nat /\ candidate.at = at
  /\ plan.long \in BOOLEAN /\ {plan.entry, plan.stop, plan.target} \subseteq Nat
  /\ plan.quantity \in Nat \ {0} /\ budget \in Int
  /\ Apart(plan.entry, plan.stop) * plan.quantity * Scale <= budget
  /\ budget <= Part(w, RiskPerTrade)
  /\ Cardinality(Live(l.book)) < MaximumPositions
  /\ Cardinality(Orders(l.book, DayOf(at))) < MaximumTradesPerDay
  /\ l.book.clock <= at => Rested(l.book, at)
  /\ \E e \in l.events : e.id = <<"quote", at>>
  /\ \A old \in P : old.strategy = candidate.strategy /\ old.direction = candidate.direction
                      => ~(at - old.at < EmitCooldown)

LEMMA SubmittedWithin ==
  ASSUME NEW l, NEW w, NEW P, NEW at, NEW candidate, NEW plan, NEW budget,
         Allowed(l, w, P, at, candidate, plan, budget),
         NEW m \in After(l, SubmitRequest(candidate, plan, budget, at))
  PROVE  Within(m, w, P \cup {candidate})
<1>a. /\ Within(l, w, P) /\ at \in Nat /\ candidate.at = at
      /\ plan.long \in BOOLEAN /\ {plan.entry, plan.stop, plan.target} \subseteq Nat
      /\ plan.quantity \in Nat \ {0} /\ budget \in Int
      /\ Apart(plan.entry, plan.stop) * plan.quantity * Scale <= budget
      /\ budget <= Part(w, RiskPerTrade)
      /\ Cardinality(Live(l.book)) < MaximumPositions
      /\ Cardinality(Orders(l.book, DayOf(at))) < MaximumTradesPerDay
      /\ l.book.clock <= at => Rested(l.book, at)
      /\ \E e \in l.events : e.id = <<"quote", at>>
      /\ \A old \in P : old.strategy = candidate.strategy /\ old.direction = candidate.direction
                          => ~(at - old.at < EmitCooldown)
  BY DEF Allowed
<1> USE <1>a
<1> DEFINE Q == P \cup {candidate}
<1>1. /\ SoundLedger(l) /\ l.book.clock \in Nat /\ BookOK(l.book) /\ w \in Int
      /\ IsFiniteSet(DOMAIN l.book.orders)
  BY DEF Within, SoundLedger, SoundBook, BookOK
<1>2. CASE m = l
  <2>1. Within(l, w, Q)
    BY <1>1, MoreWithin
  <2>2. QED
    BY <1>2, <2>1
<1>3. CASE m # l
  <2>1. PICK b, c : b = l.book /\ c = m.book
    OBVIOUS
  <2>2. PICK x : x = c.orders[candidate]
    OBVIOUS
  <2>3. PICK req : req = SubmitRequest(candidate, plan, budget, at)
    OBVIOUS
  <2>4. /\ BookOK(c) /\ DOMAIN c.orders = DOMAIN b.orders \cup {candidate}
        /\ \A o \in DOMAIN b.orders : c.orders[o] = b.orders[o]
        /\ candidate \notin DOMAIN b.orders
        /\ x.submitted = at /\ x.terms = TermsOf(plan, budget, at)
        /\ x.status = "PENDING" /\ x.entry = 0 /\ x.mark = 0
        /\ c.clock = at /\ ~(at < b.clock) /\ m.events = l.events \cup {req}
    BY <1>1, <1>3, <2>1, <2>2, <2>3, SubmitAdds
  <2>5. b.clock <= at
    BY <1>1, <2>1, <2>4
  <2>6. SoundLedger(m)
    <3>1. SessionEnd(at) \in Nat
      BY DayParts
    <3>2. RequestOK(req)
      BY <2>3, <3>1 DEF RequestOK, SubmitRequest
    <3>3. QED
      BY <1>1, <2>3, <3>2, AfterSound
  <2>7. \A s : Rested(b, s) => Rested(c, s)
    <3>1. \A o \in DOMAIN c.orders \ DOMAIN b.orders : c.orders[o].status # "CLOSED"
      BY <2>2, <2>4
    <3>2. QED
      BY <2>4, <3>1, RestedSame
  <2>8. Placed(m, w, Q, candidate)
    <3>1. PICK terms : terms = x.terms
      OBVIOUS
    <3>2. /\ terms.long = plan.long /\ terms.quantity = plan.quantity /\ terms.entry = plan.entry
          /\ terms.stop = plan.stop /\ terms.target = plan.target /\ terms.budget = budget
      BY <2>4, <3>1 DEF TermsOf
    <3>3. OpenRiskOf(x) = Apart(plan.entry, plan.stop) * plan.quantity * Scale
      BY <2>4, <3>1, <3>2 DEF OpenRiskOf
    <3>4. Fits(x)
      BY <2>4, <3>1, <3>2, <3>3 DEF Fits, TermsOK
    <3>5. Rested(c, at)
      BY <2>1, <2>5, <2>7
    <3>6. \E e \in m.events : e.id = <<"quote", at>>
      BY <2>4
    <3>7. QED
      BY <2>1, <2>2, <2>4, <3>1, <3>2, <3>4, <3>5, <3>6 DEF Placed
  <2>9. ASSUME NEW o \in DOMAIN b.orders PROVE Placed(m, w, Q, o)
    <3>1. Placed(l, w, P, o)
      BY <2>1 DEF Within
    <3>2. PICK y : y = b.orders[o]
      OBVIOUS
    <3>3. /\ Fits(y) /\ y.terms.budget <= Part(w, RiskPerTrade)
          /\ y.submitted \in Nat /\ y.submitted <= b.clock
          /\ o.at = y.submitted /\ o \in P
          /\ (\E e \in l.events : e.id = <<"quote", y.submitted>>)
          /\ Rested(b, y.submitted)
      BY <2>1, <3>1, <3>2 DEF Placed
    <3>4. y.submitted <= at /\ Rested(c, y.submitted)
      BY <1>1, <2>1, <2>5, <2>7, <3>3
    <3>5. QED
      BY <2>1, <2>4, <3>2, <3>3, <3>4 DEF Placed
  <2>10. Cardinality(Live(c)) <= MaximumPositions
    <3>1. Live(c) \subseteq Live(b) \cup {candidate}
      BY <2>4 DEF Live
    <3>2. IsFiniteSet(Live(b))
      BY <1>1, <2>1, FS_Subset DEF Live
    <3>3. QED
      BY <2>1, <3>1, <3>2, RoomForOne, RiskAssumption
  <2>11. ASSUME NEW d \in Nat PROVE Cardinality(Orders(c, d)) <= MaximumTradesPerDay
    <3>1. CASE d = DayOf(at)
      <4>1. Orders(c, d) \subseteq Orders(b, d) \cup {candidate}
        BY <2>4 DEF Orders
      <4>2. IsFiniteSet(Orders(b, d))
        BY <1>1, <2>1, FS_Subset DEF Orders
      <4>3. QED
        BY <2>1, <3>1, <4>1, <4>2, RoomForOne, RiskAssumption
    <3>2. CASE d # DayOf(at)
      <4>1. Orders(c, d) = Orders(b, d)
        BY <2>2, <2>4, <3>2 DEF Orders
      <4>2. QED
        BY <2>1, <4>1 DEF Within
    <3>3. QED
      BY <3>1, <3>2
  <2>12. Spaced(c)
    <3>1. Spaced(b) /\ EmitCooldown \in Nat
      BY <2>1, CoreAssumption DEF Within
    <3>2. ASSUME NEW o \in DOMAIN b.orders, o.strategy = candidate.strategy, o.direction = candidate.direction
          PROVE  /\ Apart(c.orders[o].submitted, x.submitted) >= EmitCooldown
                 /\ Apart(x.submitted, c.orders[o].submitted) >= EmitCooldown
      <4>1. PICK s : s = b.orders[o].submitted
        OBVIOUS
      <4>2. s \in Nat /\ o.at = s /\ o \in P
        BY <2>1, <4>1 DEF Within, Placed
      <4>3. at - s >= EmitCooldown
        BY <3>1, <3>2, <4>2
      <4>4. Apart(s, at) >= EmitCooldown /\ Apart(at, s) >= EmitCooldown
        BY <3>1, <4>2, <4>3 DEF Apart
      <4>5. QED
        BY <2>4, <4>1, <4>4
    <3>3. QED
      BY <2>2, <2>4, <3>1, <3>2 DEF Spaced
  <2>13. QED
    BY <1>1, <2>1, <2>4, <2>6, <2>8, <2>9, <2>10, <2>11, <2>12 DEF Within
<1>4. QED
  BY <1>2, <1>3

----------------------------------------------------------------------------
(* The sums over a book's orders: what they are worth, and may lose.       *)

LEMMA MarkedIsTotal ==
  ASSUME NEW b, NEW S, NEW f, \A o \in S : f[o] = Marked(b.orders[o])
  PROVE  MapThenSumSet(LAMBDA o : Marked(b.orders[o]), S) = Total(f, S)
<1> DEFINE ByOrder(g) == g = [s \in SUBSET S |-> IF s = {} THEN 0
                                ELSE Marked(b.orders[Pick(s)]) + g[s \ {Pick(s)}]]
<1>1. ASSUME NEW s \in SUBSET S, s # {} PROVE Marked(b.orders[Pick(s)]) = f[Pick(s)]
  BY <1>1, Picked
<1>2. ASSUME NEW g PROVE ByOrder(g) <=> IsSum(g, f, S)
  <2>1. [s \in SUBSET S |-> IF s = {} THEN 0 ELSE Marked(b.orders[Pick(s)]) + g[s \ {Pick(s)}]]
          = [s \in SUBSET S |-> IF s = {} THEN 0 ELSE f[Pick(s)] + g[s \ {Pick(s)}]]
    BY <1>1
  <2> QED
    BY <2>1 DEF IsSum
<1>3. (CHOOSE g : ByOrder(g)) = (CHOOSE g : IsSum(g, f, S))
  <2> HIDE DEF ByOrder
  <2> QED
    BY <1>2
<1>4. Total(f, S) = (CHOOSE g : IsSum(g, f, S))[S]
  BY DEF Total, MapThenSumSet, MapThenFoldSet, IsSum, Pick
<1>5. MapThenSumSet(LAMBDA o : Marked(b.orders[o]), S) = (CHOOSE g : ByOrder(g))[S]
  BY DEF MapThenSumSet, MapThenFoldSet, Pick
<1> QED
  BY <1>3, <1>4, <1>5

LEMMA RiskIsTotal ==
  ASSUME NEW b, NEW S, NEW f, \A o \in S : f[o] = OpenRiskOf(b.orders[o])
  PROVE  MapThenSumSet(LAMBDA o : OpenRiskOf(b.orders[o]), S) = Total(f, S)
<1> DEFINE ByOrder(g) == g = [s \in SUBSET S |-> IF s = {} THEN 0
                                ELSE OpenRiskOf(b.orders[Pick(s)]) + g[s \ {Pick(s)}]]
<1>1. ASSUME NEW s \in SUBSET S, s # {} PROVE OpenRiskOf(b.orders[Pick(s)]) = f[Pick(s)]
  BY <1>1, Picked
<1>2. ASSUME NEW g PROVE ByOrder(g) <=> IsSum(g, f, S)
  <2>1. [s \in SUBSET S |-> IF s = {} THEN 0 ELSE OpenRiskOf(b.orders[Pick(s)]) + g[s \ {Pick(s)}]]
          = [s \in SUBSET S |-> IF s = {} THEN 0 ELSE f[Pick(s)] + g[s \ {Pick(s)}]]
    BY <1>1
  <2> QED
    BY <2>1 DEF IsSum
<1>3. (CHOOSE g : ByOrder(g)) = (CHOOSE g : IsSum(g, f, S))
  <2> HIDE DEF ByOrder
  <2> QED
    BY <1>2
<1>4. Total(f, S) = (CHOOSE g : IsSum(g, f, S))[S]
  BY DEF Total, MapThenSumSet, MapThenFoldSet, IsSum, Pick
<1>5. MapThenSumSet(LAMBDA o : OpenRiskOf(b.orders[o]), S) = (CHOOSE g : ByOrder(g))[S]
  BY DEF MapThenSumSet, MapThenFoldSet, Pick
<1> QED
  BY <1>3, <1>4, <1>5

LEMMA MarkedType ==
  ASSUME NEW order, Fits(order) PROVE Marked(order) \in Int
<1>1. PICK e, m, q : e = order.entry /\ m = order.mark /\ q = order.terms.quantity
  OBVIOUS
<1>2. e \in Int /\ m \in Int /\ q \in Nat
  BY <1>1 DEF Fits, TermsOK
<1>3. e + Gain(order.terms, e, m) \in Int
  BY <1>2 DEF Gain
<1>4. QED
  BY <1>1, <1>2, <1>3, MoneyType DEF Marked

LEMMA EquityType ==
  ASSUME NEW l, NEW w, NEW P, Within(l, w, P)
  PROVE  Equity(l.book) \in Int /\ l.book.cash \in Int
<1>1. PICK b : b = l.book
  OBVIOUS
<1>2. IsFiniteSet(DOMAIN b.orders) /\ b.cash \in Int
  BY <1>1 DEF Within, SoundLedger, SoundBook, BookOK
<1>3. PICK S : S = {o \in DOMAIN b.orders : b.orders[o].status \in Entered}
  OBVIOUS
<1>4. PICK f : f = [o \in S |-> Marked(b.orders[o])]
  OBVIOUS
<1>5. IsFiniteSet(S)
  BY <1>2, <1>3, FS_Subset
<1>6. \A o \in S : f[o] = Marked(b.orders[o]) /\ f[o] \in Int
  BY <1>1, <1>3, <1>4, MarkedType DEF Within, Placed
<1>7. MapThenSumSet(LAMBDA o : Marked(b.orders[o]), S) = Total(f, S)
  BY <1>6, MarkedIsTotal
<1>8. Total(f, S) \in Int
  BY <1>5, <1>6, TotalInteger
<1>9. Equity(b) = b.cash + Total(f, S)
  BY <1>3, <1>7 DEF Equity
<1>10. QED
  BY <1>1, <1>2, <1>8, <1>9

LEMMA PeakRises ==
  ASSUME NEW m \in Int, NEW n \in Int PROVE Larger(m, n) \in Int /\ m <= Larger(m, n) /\ n <= Larger(m, n)
BY DEF Larger

----------------------------------------------------------------------------
(* The limits, of what holds of the ledger.                                *)

LEMMA RiskBounded ==
  ASSUME Within(Ledger, peak, previous), peak \in Nat
  PROVE  OpenRiskBounded
<1>1. PICK L, n : L = Live(book) /\ n = Part(peak, RiskPerTrade)
  OBVIOUS
<1>2. Ledger.book = book
  BY DEF Ledger
<1>3. IsFiniteSet(L) /\ Cardinality(L) <= MaximumPositions /\ n \in Int
  <2>1. peak \in Int
    BY DEF Within
  <2>2. IsFiniteSet(L)
    BY <1>1, <1>2, FS_Subset DEF Within, SoundLedger, SoundBook, BookOK, Live
  <2>3. QED
    BY <1>1, <1>2, <2>1, <2>2, PartMonotone, RiskAssumption DEF Within
<1>4. PICK f : f = [o \in L |-> OpenRiskOf(book.orders[o])]
  OBVIOUS
<1>5. ASSUME NEW o \in L PROVE f[o] = OpenRiskOf(book.orders[o]) /\ f[o] \in Nat /\ f[o] <= n
  <2>1. PICK order, terms : order = book.orders[o] /\ terms = order.terms
    OBVIOUS
  <2>2. o \in DOMAIN book.orders /\ order.status \in Pending
    BY <1>1, <2>1, LiveIs
  <2>3. Fits(order) /\ terms.budget <= n
    BY <1>1, <1>2, <2>1, <2>2 DEF Within, Placed
  <2>4. /\ OpenRiskOf(order) <= terms.budget /\ terms.budget \in Int
        /\ terms.quantity \in Nat /\ terms.stop \in Int /\ terms.entry \in Int /\ order.entry \in Int
    BY <2>1, <2>2, <2>3 DEF Fits, TermsOK
  <2>5. OpenRiskOf(order) \in Nat
    <3>1. PICK from : /\ from = IF order.status = "PENDING" THEN terms.entry ELSE order.entry
                      /\ from \in Int
      BY <2>4
    <3>2. PICK d : d = Apart(from, terms.stop) /\ d \in Nat
      BY <2>4, <3>1 DEF Apart
    <3>3. Scale \in Nat
      BY RiskAssumption
    <3>4. d * terms.quantity * Scale \in Nat
      BY <2>4, <3>2, <3>3
    <3>5. QED
      BY <2>1, <3>1, <3>2, <3>4 DEF OpenRiskOf
  <2>6. QED
    BY <1>3, <1>4, <2>1, <2>3, <2>4, <2>5
<1>6. MapThenSumSet(LAMBDA o : OpenRiskOf(book.orders[o]), L) = Total(f, L)
  BY <1>5, RiskIsTotal
<1>7. Total(f, L) <= MaximumPositions * n
  <2>1. Total(f, L) <= Cardinality(L) * n /\ Total(f, L) \in Int /\ Cardinality(L) \in Nat
    BY <1>3, <1>5, TotalBounded, TotalInteger, FS_CardinalityType
  <2>2. MaximumPositions \in Nat
    BY RiskAssumption
  <2>3. n >= 0
    <3>1. PICK x, y : x = RiskPerTrade[1] /\ y = RiskPerTrade[2] /\ x \in Nat /\ y \in Nat \ {0}
      BY RiskAssumption
    <3>2. 0 * x = 0 /\ 0 \div y = 0
      BY <3>1, DivWithin
    <3>3. Part(0, RiskPerTrade) = 0
      BY <3>1, <3>2 DEF Part
    <3>4. Part(0, RiskPerTrade) <= n
      BY <1>1, PartMonotone, RiskAssumption
    <3>5. QED
      BY <1>3, <3>3, <3>4
  <2>4. Cardinality(L) * n <= MaximumPositions * n
    BY <1>3, <2>1, <2>2, <2>3, TimesMonotone
  <2>5. QED
    BY <1>3, <2>1, <2>2, <2>4
<1>8. QED
  BY <1>1, <1>3, <1>6, <1>7 DEF OpenRiskBounded

LEMMA PaceBounded ==
  ASSUME Within(Ledger, peak, previous)
  PROVE  PaceHolds
<1>1. Ledger.book = book
  BY DEF Ledger
<1>2. ASSUME NEW d \in 0 .. DayOf(LastInstant) PROVE Cardinality(Orders(book, d)) <= MaximumTradesPerDay
  <2>1. d \in Nat
    BY CoreAssumption, DayParts
  <2>2. QED
    BY <1>1, <2>1 DEF Within
<1>3. \A t : LossesBefore(t) = LossesTo(book, t) /\ InARow(t) = RowTo(book, t)
  BY DEF LossesBefore, LossesTo, InARow, RowTo
<1>4. ASSUME NEW o \in DOMAIN book.orders
      PROVE  Rested(book, book.orders[o].submitted)
  BY <1>1 DEF Within, Placed
<1>5. Spaced(book)
  BY <1>1 DEF Within
<1>6. QED
  BY <1>2, <1>3, <1>4, <1>5 DEF PaceHolds, Rested, Spaced

----------------------------------------------------------------------------
(* What a plan is, and what the risk policy grants of it.                  *)

LEMMA LeastOfTwo == ASSUME NEW a \in Int, NEW b \in Int PROVE Min({a, b}) \in Int
<1>1. \E m \in {a, b} : \A y \in {a, b} : m <= y
  BY SMT
<1>2. QED
  BY <1>1 DEF Min

\* Whole lots of a quantity are no more than it.
LEMMA LotsWithin ==
  ASSUME NEW q \in Int PROVE WholeLots(q) \in Int /\ WholeLots(q) <= q
<1>1. PICK n : n = LotSize /\ n \in Nat \ {0}
  BY RiskAssumption
<1>2. q \div n \in Int /\ (q \div n) * n <= q
  BY <1>1, DivWithin
<1>3. QED
  BY <1>1, <1>2 DEF WholeLots

LEMMA LossPositive ==
  ASSUME NEW entry \in Nat, NEW stop \in Nat
  PROVE  LET loss == PerUnitLoss(entry, stop, CostAllowance(entry)) IN
         /\ loss \in Nat \ {0} /\ Apart(entry, stop) \in Nat /\ Apart(entry, stop) * Scale <= loss
<1>1. PICK d, s, c : /\ d = Apart(entry, stop) /\ s = Scale /\ c = CostPerPrice
  OBVIOUS
<1>2. d \in Nat /\ s \in Nat \ {0} /\ c \in Nat
  BY <1>1, RiskAssumption DEF Apart
<1>3. d * s \in Nat /\ entry * c * 4 \in Nat
  BY <1>2
<1>4. PICK a : a = CostAllowance(entry) /\ a \in Nat \ {0}
  BY <1>1, <1>2, <1>3 DEF CostAllowance
<1>5. QED
  BY <1>1, <1>2, <1>3, <1>4 DEF PerUnitLoss

LEMMA PlanTyped ==
  ASSUME NEW long \in BOOLEAN, NEW mark \in Nat \ {0}, NEW equity \in Int, NEW cash \in Int,
         NEW plan \in PlanFor(long, mark, equity, cash)
  PROVE  /\ plan.long \in BOOLEAN /\ {plan.entry, plan.stop, plan.target} \subseteq Nat
         /\ plan.quantity \in Nat \ {0}
<1>1. PICK stop, target : stop = StopOf(long, mark) /\ target = TargetOf(long, mark, stop)
  OBVIOUS
<1>2. PICK loss : loss = PerUnitLoss(mark, stop, CostAllowance(mark))
  OBVIOUS
<1>3. PICK a, b, quantity :
        /\ a = Part(equity, SizingRisk) \div loss
        /\ b = cash \div (mark * (Scale + FeePerPrice))
        /\ quantity = WholeLots(Min({a, b, SizingQuantity}))
  OBVIOUS
<1>4. /\ plan = [long |-> long, entry |-> mark, stop |-> stop, target |-> target,
                 quantity |-> quantity]
      /\ stop > 0 /\ target > 0 /\ quantity > 0
  BY <1>1, <1>2, <1>3 DEF PlanFor
<1>5. stop \in Int
  <2>1. PICK s, x : s = AtrScale /\ x = Atr * StopMultiplier /\ s \in Nat \ {0} /\ x \in Nat
    BY RiskAssumption
  <2>2. mark * s - x \in Int /\ mark * s + x + s - 1 \in Int
    BY <2>1
  <2>3. QED
    BY <1>1, <2>1, <2>2, DivWithin DEF StopOf
<1>6. target \in Int
  <2>1. PICK r : r = RewardMultiple /\ r \in Nat
    BY RiskAssumption
  <2>2. (mark - stop) * r \in Int /\ (stop - mark) * r \in Int
    BY <1>5, <2>1
  <2>3. QED
    BY <1>1, <1>5, <2>1, <2>2 DEF TargetOf
<1>7. a \in Int
  <2>1. loss \in Nat \ {0}
    BY <1>2, <1>4, <1>5, LossPositive
  <2>2. Part(equity, SizingRisk) \in Int
    BY PartMonotone, RiskAssumption
  <2>3. QED
    BY <1>3, <2>1, <2>2, DivWithin
<1>8. b \in Int
  <2>1. PICK s, f : s = Scale /\ f = FeePerPrice /\ s \in Nat \ {0} /\ f \in Nat
    BY RiskAssumption
  <2>2. mark * (s + f) \in Nat \ {0}
    <3>1. s + f \in Nat \ {0}
      BY <2>1
    <3>2. QED
      BY <3>1
  <2>3. QED
    BY <1>3, <2>1, <2>2, DivWithin
<1>9. quantity \in Int
  <2>1. SizingQuantity \in Int
    BY RiskAssumption
  <2>2. Min({a, b, SizingQuantity}) \in Int
    BY <1>7, <1>8, <2>1, LeastOfThree
  <2>3. QED
    BY <1>3, <2>2, LotsWithin
<1>10. QED
  BY <1>4, <1>5, <1>6, <1>9

\* A drawdown only takes from the budget, which the peak bounds.
LEMMA BudgetBounded ==
  ASSUME NEW p, p.equity \in Nat, p.highWatermark \in Int, p.equity <= p.highWatermark
  PROVE  Budget(p) \in Int /\ Budget(p) <= Part(p.highWatermark, RiskPerTrade)
<1>1. PICK e, a, b : /\ e = p.equity /\ a = RiskPerTrade[1] /\ b = RiskPerTrade[2]
                     /\ a \in Nat \ {0} /\ b \in Nat \ {0} /\ RiskPerTrade = <<a, b>>
  BY RiskAssumption
<1>2. PICK x : x = e * a /\ x \in Nat
  BY <1>1
<1>3. PICK q : q = x \div b
  OBVIOUS
<1>4. q \in Int /\ q * b <= x /\ x < q * b + b
  <2>1. x \in Int /\ b \in Nat \ {0}
    BY ONLY <1>1, <1>2
  <2>2. QED
    BY ONLY <1>3, <2>1, DivWithin
<1>5. Part(e, RiskPerTrade) = q
  BY <1>1, <1>2, <1>3 DEF Part
<1>6. q <= Part(p.highWatermark, RiskPerTrade) /\ Part(p.highWatermark, RiskPerTrade) \in Int
  BY <1>1, <1>5, PartMonotone, RiskAssumption
<1>7. CASE ~Throttled(p)
  BY <1>1, <1>4, <1>5, <1>6, <1>7 DEF Budget, BaseRisk
<1>8. CASE Throttled(p)
  <2>1. PICK d : d = x \div (b * 2)
    OBVIOUS
  <2>2. Budget(p) = d
    BY <1>1, <1>2, <1>8, <2>1 DEF Budget, BaseRisk, Part
  <2>3. d \in Int /\ d * (b * 2) <= x
    <3>1. x \in Int /\ b * 2 \in Nat \ {0}
      BY ONLY <1>1, <1>2
    <3>2. QED
      BY ONLY <2>1, <3>1, DivWithin
  <2>4. d <= q
    <3> SUFFICES ASSUME q + 1 <= d PROVE FALSE
      BY <1>4, <2>3
    <3>1. (q + 1) * b <= d * b
      BY <1>1, <1>4, <2>3, TimesMonotone
    <3>2. (q + 1) * b = q * b + b /\ q * b \in Int /\ d * b \in Int /\ d * (b * 2) = d * b + d * b
      <4>1. q \in Int /\ b \in Int /\ d \in Int
        BY ONLY <1>1, <1>4, <2>3
      <4>2. QED
        BY ONLY <4>1
    <3>3. q * b + b <= d * b /\ d * b + d * b <= x
      BY ONLY <2>3, <3>1, <3>2
    <3>4. d * b > x /\ x >= 0
      BY ONLY <1>1, <1>2, <1>4, <3>2, <3>3
    <3>5. QED
      BY ONLY <1>2, <3>2, <3>3, <3>4
  <2>5. QED
    BY <1>4, <1>6, <2>2, <2>3, <2>4
<1>9. QED
  BY <1>7, <1>8

\* What is granted passed every gate, and its loss at the stop is within the budget.
LEMMA Granted ==
  ASSUME NEW plan, {plan.entry, plan.stop} \subseteq Nat, plan.quantity \in Nat \ {0},
         NEW p, p.equity \in Int, p.highWatermark \in Int, p.equity <= p.highWatermark,
         NEW counters, NEW at, NEW time, NEW closes,
         ApprovedQuantity(plan, p, counters, at, time, closes) = plan.quantity
  PROVE  /\ PaceAllows(counters, at) /\ Cardinality(DOMAIN p.positions) < MaximumPositions
         /\ Budget(p) \in Int /\ Budget(p) <= Part(p.highWatermark, RiskPerTrade)
         /\ Apart(plan.entry, plan.stop) * plan.quantity * Scale <= Budget(p)
<1>1. PICK cost, loss, q, r : /\ cost = CostAllowance(plan.entry)
                              /\ loss = PerUnitLoss(plan.entry, plan.stop, cost)
                              /\ r = RiskQuantity(plan, p, cost)
                              /\ q = WholeLots(Min({r, MaximumQuantity, plan.quantity}))
  OBVIOUS
<1>2. /\ PaceAllows(counters, at) /\ PortfolioAllows(plan, p, cost) /\ q = plan.quantity
  BY <1>1 DEF ApprovedQuantity
<1>3. p.equity \in Nat /\ Cardinality(DOMAIN p.positions) < MaximumPositions
  BY <1>2 DEF PortfolioAllows
<1>4. Budget(p) \in Int /\ Budget(p) <= Part(p.highWatermark, RiskPerTrade)
  BY <1>3, BudgetBounded
<1>5. PICK B, d, s : B = Budget(p) /\ d = Apart(plan.entry, plan.stop) /\ s = Scale
  OBVIOUS
<1>6. loss \in Nat \ {0} /\ d \in Nat /\ d * s <= loss /\ s \in Nat
  BY <1>1, <1>5, LossPositive, RiskAssumption
<1>7. PICK t : t = B \div loss
  OBVIOUS
<1>8. t \in Int /\ t * loss <= B
  BY <1>4, <1>5, <1>6, <1>7, DivWithin
<1>9. r \in Int /\ r <= t
  BY <1>1, <1>5, <1>7, <1>8, LotsWithin DEF RiskQuantity
<1>10. q <= r
  <2>1. Min({MaximumQuantity, plan.quantity, r}) \in Int /\ Min({MaximumQuantity, plan.quantity, r}) <= r
    BY <1>9, LeastOfThree, RiskAssumption
  <2>2. {r, MaximumQuantity, plan.quantity} = {MaximumQuantity, plan.quantity, r}
    OBVIOUS
  <2>3. PICK m : m = Min({r, MaximumQuantity, plan.quantity}) /\ m \in Int /\ m <= r
    BY <2>1, <2>2
  <2>4. WholeLots(m) \in Int /\ WholeLots(m) <= m
    BY <2>3, LotsWithin
  <2>5. QED
    BY <1>1, <1>9, <2>3, <2>4
<1>11. q \in Nat /\ q * loss <= B
  <2>1. q \in Nat /\ q <= t
    BY <1>2, <1>8, <1>9, <1>10
  <2>2. q * loss <= t * loss /\ q * loss \in Int /\ t * loss \in Int
    BY <1>6, <1>8, <2>1, TimesMonotone
  <2>3. QED
    BY <1>4, <1>5, <1>8, <2>1, <2>2
<1>12. d * q * s <= q * loss
  <2>1. (d * s) * q <= loss * q
    BY <1>6, <1>11, TimesMonotone
  <2>2. d * q * s = (d * s) * q /\ loss * q = q * loss
    BY <1>6, <1>11
  <2>3. QED
    BY <2>1, <2>2
<1>13. d * q * s \in Int /\ q * loss \in Int /\ B \in Int
  BY <1>4, <1>5, <1>6, <1>11
<1>14. d * q * s <= B
  BY <1>11, <1>12, <1>13
<1>15. QED
  BY <1>2, <1>3, <1>4, <1>5, <1>14

LEMMA NetType ==
  ASSUME NEW order, Fits(order), order.status = "CLOSED" PROVE Net(order) \in Int
<1>1. PICK e, x, q : e = order.entry /\ x = order.fills[2].price /\ q = order.terms.quantity
  OBVIOUS
<1>2. e \in Int /\ x \in Int /\ q \in Nat
  BY <1>1 DEF Fits, TermsOK
<1>3. Gain(order.terms, e, x) \in Int
  BY <1>2 DEF Gain
<1>4. /\ Value(Gain(order.terms, e, x), q) \in Int
      /\ FeeOn(e, q) \in Int /\ FeeOn(x, q) \in Int
  BY <1>2, <1>3, MoneyType
<1>5. QED
  BY <1>1, <1>4 DEF Net

\* A gate passed on any reading of the losses in a row is passed on the ledger's own.
LEMMA PaceRests ==
  ASSUME NEW l, NEW w, NEW P, Within(l, w, P), NEW at \in Nat, l.book.clock <= at,
         NEW streak \in Streaks(l.book), PaceAllows(Counters(l.book, streak, at), at)
  PROVE  Rested(l.book, at)
<1>1. PICK b : b = l.book
  OBVIOUS
<1>2. /\ IsFiniteSet(Closed(b)) /\ b.clock \in Nat
      /\ \A o \in Closed(b) : o \in DOMAIN b.orders /\ b.orders[o].status = "CLOSED"
  BY <1>1, FS_Subset DEF Within, SoundLedger, SoundBook, BookOK, Closed
<1>3. ASSUME NEW o \in Closed(b)
      PROVE  ExitOf(b, o) \in Nat /\ ExitOf(b, o) <= at /\ Net(b.orders[o]) \in Int
  <2>1. OrderSound(b.orders[o], l.events, b.clock) /\ Fits(b.orders[o])
    BY <1>1, <1>2 DEF Within, Placed, SoundLedger, SoundBook
  <2>2. PICK f, g : b.orders[o].fills = <<f, g>> /\ FillOK(g, "EXIT", l.events, b.clock)
    BY <1>2, <2>1 DEF OrderSound, Refusals, Entered
  <2>3. ExitOf(b, o) = g.at
    BY <2>2 DEF ExitOf
  <2>4. g.at \in Nat /\ g.at <= b.clock
    BY <2>2 DEF FillOK
  <2>5. QED
    BY <1>1, <1>2, <2>1, <2>3, <2>4, NetType
<1>4. LossesTo(b, at) = Closed(b)
  BY <1>3 DEF LossesTo
<1>5. streak \subseteq Closed(b) /\ IsFiniteSet(streak)
  BY <1>1, <1>2, FS_Subset DEF Streaks
<1>6. ASSUME NEW o \in RowTo(b, at) PROVE o \in streak
  <2> SUFFICES ASSUME o \notin streak PROVE FALSE
    OBVIOUS
  <2>1. o \in Closed(b) /\ \A x \in Closed(b) : ExitOf(b, x) >= ExitOf(b, o) => Net(b.orders[x]) < 0
    BY <1>4 DEF RowTo
  <2>2. PICK x \in Closed(b) \ streak : Net(b.orders[x]) >= 0 /\ ExitOf(b, o) <= ExitOf(b, x)
    BY <1>1, <2>1 DEF Streaks
  <2>3. Net(b.orders[x]) < 0
    BY <1>3, <2>1, <2>2
  <2>4. QED
    BY <1>3, <2>2, <2>3
<1>7. /\ Cardinality(RowTo(b, at)) <= Cardinality(streak)
      /\ Cardinality(RowTo(b, at)) \in Nat /\ Cardinality(streak) \in Nat
  BY <1>5, <1>6, FS_Subset, FS_CardinalityType
<1>8. ASSUME Cardinality(RowTo(b, at)) >= LossStreakLimit, NEW x \in RowTo(b, at)
      PROVE  at - ExitOf(b, x) >= LossCooldown
  <2>1. PICK E : E = {ExitOf(b, o) : o \in streak}
    OBVIOUS
  <2>2. IsFiniteSet(E) /\ E # {} /\ \A e \in E : e \in Int
    <3>1. IsFiniteSet(E)
      <4>1. PICK f : f = [o \in streak |-> ExitOf(b, o)]
        OBVIOUS
      <4>2. f \in Surjection(streak, E)
        BY <2>1, <4>1 DEF Surjection
      <4>3. QED
        BY ONLY <1>5, <4>2, FS_Surjection
    <3>2. ExitOf(b, x) \in E
      BY <1>6, <1>8, <2>1
    <3>3. \A e \in E : e \in Int
      BY <1>3, <1>5, <2>1
    <3>4. QED
      BY <3>1, <3>2, <3>3
  <2>3. \E m \in E : \A y \in E : y <= m
    BY <2>2, Largest
  <2>4. Max(E) \in Int /\ \A y \in E : y <= Max(E)
    BY <2>2, <2>3 DEF Max
  <2>5. PICK C : C = Counters(b, streak, at)
    OBVIOUS
  <2>6. C.losses = Cardinality(streak) /\ C.lastLoss = Max(E)
    BY <1>6, <1>8, <2>1, <2>5 DEF Counters
  <2>7. at - Max(E) >= LossCooldown
    <3>1. LossStreakLimit \in Nat
      BY RiskAssumption
    <3>2. Cardinality(streak) >= LossStreakLimit
      BY <1>7, <1>8, <3>1
    <3>3. QED
      BY <1>1, <2>5, <2>6, <3>2 DEF PaceAllows
  <2>8. ExitOf(b, x) \in E /\ ExitOf(b, x) \in Int
    BY <1>6, <1>8, <2>1, <2>2
  <2>9. QED
    BY <2>4, <2>7, <2>8, RiskAssumption
<1>9. QED
  BY <1>1, <1>8 DEF Rested

LEMMA ChosenIs ==
  ASSUME NEW scores, NEW at, NEW time, NEW P, NEW c \in Chosen(scores, at, time, P)
  PROVE  c.at = at /\ ~Suppressed(c, P)
<1>1. c \in Candidates(scores, at, time, P)
  BY DEF Chosen
<1>2. ~Suppressed(c, P) /\ \E k : c = Candidate(scores, k, at)
  BY <1>1 DEF Candidates
<1>3. QED
  BY <1>2 DEF Candidate

----------------------------------------------------------------------------
(* The core's steps keep its limits.                                       *)

LimitsInv == Within(Ledger, peak, previous) /\ peak \in Nat /\ last \in Nat

LEMMA LedgerWithin ==
  ASSUME NEW l, NEW w, NEW P, Within(l, w, P), Keep(l) PROVE Within(Ledger', w, P)
<1>1. PICK m : m = Ledger'
  OBVIOUS
<1>2. m.book = l.book /\ m.events = l.events
  BY <1>1 DEF Ledger, Keep
<1>3. Within(m, w, P)
  BY <1>2 DEF Within, SoundLedger, Placed
<1>4. QED
  BY <1>1, <1>3

LEMMA FinishWithin ==
  ASSUME NEW l, NEW w, NEW P, Within(l, w, P), NEW at \in Nat, NEW fails, Finish(l, at, fails)
  PROVE  Within(Ledger', w, P) /\ (last \in Nat => last' \in Nat)
<1>1. PICK m \in EndedLedgers(l, at) : Keep(m)
  BY DEF Finish
<1>2. Within(m, w, P)
  BY EndedWithin
<1>3. QED
  BY <1>1, <1>2, LedgerWithin DEF Finish

LEMMA AbstainWithin ==
  ASSUME LimitsInv, NEW l, Within(l, peak, previous), NEW at \in Nat, NEW chosen, NEW w \in Nat,
         peak <= w, NEW fails, Abstain(l, at, chosen, w, fails)
  PROVE  LimitsInv'
<1>1. Finish(l, at, fails) /\ peak' = w /\ previous' = previous
  BY DEF Abstain
<1>2. Within(l, w, previous)
  BY MoreWithin
<1>3. Within(Ledger', w, previous) /\ last' \in Nat
  BY <1>1, <1>2, FinishWithin DEF LimitsInv
<1>4. QED
  BY <1>1, <1>3 DEF LimitsInv

LEMMA RaiseWithin ==
  ASSUME LimitsInv, NEW l, Within(l, peak, previous), NEW chosen, NEW w \in Nat,
         peak <= w, Raise(l, chosen, w)
  PROVE  LimitsInv'
<1>1. Keep(l) /\ peak' = w /\ previous' = previous /\ last' = last
  BY DEF Raise
<1>2. Within(l, w, previous)
  BY MoreWithin
<1>3. Within(Ledger', w, previous)
  BY <1>1, <1>2, LedgerWithin
<1>4. QED
  BY <1>1, <1>3 DEF LimitsInv

\* The verdict is on the ledger, the peak and the candidates the order is submitted to.
LEMMA SubmitWithin ==
  ASSUME LimitsInv, NEW l, Within(l, peak, previous), NEW at \in Nat, NEW candidate,
         candidate.at = at, ~Suppressed(candidate, previous),
         NEW plan, plan.long \in BOOLEAN, {plan.entry, plan.stop, plan.target} \subseteq Nat,
         plan.quantity \in Nat \ {0},
         NEW w \in Nat, w = Larger(peak, Equity(l.book)),
         \E e \in l.events : e.id = <<"quote", at>>,
         plan.quantity \in RiskQuantities(l.book, plan, w, at),
         NEW fails, Submit(l, at, candidate, plan, w, fails)
  PROVE  LimitsInv'
<1>1. PICK p : p = Portfolio(l.book, w, at)
  OBVIOUS
<1>2. PICK streak \in Streaks(l.book) :
        plan.quantity = ApprovedQuantity(plan, p, Counters(l.book, streak, at), at,
                                         TimeOfDay(at), SessionLength)
  BY <1>1 DEF RiskQuantities
<1>3. /\ p.equity = Equity(l.book) /\ p.highWatermark = w
      /\ DOMAIN p.positions = Live(l.book)
  BY <1>1 DEF Portfolio, Positions
<1>4. p.equity \in Int /\ peak \in Nat /\ peak <= w /\ p.equity <= p.highWatermark /\ p.highWatermark \in Int
  BY <1>3, EquityType, PeakRises DEF LimitsInv
<1>5. /\ PaceAllows(Counters(l.book, streak, at), at) /\ Cardinality(Live(l.book)) < MaximumPositions
      /\ Budget(p) \in Int /\ Budget(p) <= Part(w, RiskPerTrade)
      /\ Apart(plan.entry, plan.stop) * plan.quantity * Scale <= Budget(p)
  BY <1>2, <1>3, <1>4, Granted
<1>6. Cardinality(Orders(l.book, DayOf(at))) < MaximumTradesPerDay
  BY <1>5 DEF PaceAllows, Counters
<1>7. l.book.clock <= at => Rested(l.book, at)
  BY <1>2, <1>5, PaceRests
<1>8. Within(l, w, previous)
  BY <1>4, MoreWithin
<1>9. \A old \in previous : old.strategy = candidate.strategy /\ old.direction = candidate.direction
                              => ~(at - old.at < EmitCooldown)
  BY DEF Suppressed
<1>10. PICK m \in After(l, SubmitRequest(candidate, plan, Budget(p), at)) : Finish(m, at, fails)
  BY <1>1 DEF Submit
<1>11. Within(m, w, previous \cup {candidate})
  <2>1. PICK budget : budget = Budget(p)
    OBVIOUS
  <2>2. /\ budget \in Int /\ budget <= Part(w, RiskPerTrade)
        /\ Apart(plan.entry, plan.stop) * plan.quantity * Scale <= budget
        /\ m \in After(l, SubmitRequest(candidate, plan, budget, at))
    BY <1>5, <1>10, <2>1
  <2>3. /\ plan.long \in BOOLEAN /\ {plan.entry, plan.stop, plan.target} \subseteq Nat
        /\ plan.quantity \in Nat \ {0}
        /\ at \in Nat /\ candidate.at = at /\ \E e \in l.events : e.id = <<"quote", at>>
    OBVIOUS
  <2>4. Cardinality(Live(l.book)) < MaximumPositions
    BY <1>5
  <2>5. Allowed(l, w, previous, at, candidate, plan, budget)
    BY ONLY <1>6, <1>7, <1>8, <1>9, <2>2, <2>3, <2>4 DEF Allowed
  <2>6. QED
    BY ONLY <2>2, <2>5, SubmittedWithin
<1>12. Within(Ledger', w, previous \cup {candidate}) /\ last' \in Nat
  BY <1>10, <1>11, FinishWithin DEF LimitsInv
<1>13. peak' = w /\ previous' = previous \cup {candidate}
  BY DEF Submit
<1>14. QED
  BY <1>12, <1>13 DEF LimitsInv

LEMMA DecideWithin ==
  ASSUME LimitsInv, NEW l, Within(l, peak, previous), NEW at \in Nat,
         NEW quote \in Quotes \cup {<<>>}, quote # <<>> => \E e \in l.events : e.id = <<"quote", at>>,
         NEW chosen, \A c \in chosen : c.at = at /\ ~Suppressed(c, previous),
         NEW review, NEW known, NEW where,
         Decide(l, at, quote, chosen, review, known, where)
  PROVE  LimitsInv'
<1>1. PICK w : w = Larger(peak, Equity(l.book))
  OBVIOUS
<1>2. w \in Nat /\ peak <= w /\ peak \in Nat /\ peak <= peak
  <2>1. Equity(l.book) \in Int
    BY EquityType
  <2>2. peak \in Nat
    BY DEF LimitsInv
  <2>3. w \in Int /\ peak <= w
    BY ONLY <1>1, <2>1, <2>2, PeakRises
  <2>4. QED
    BY ONLY <2>2, <2>3
<1>3. CASE Raise(l, {}, peak)
  BY <1>2, <1>3, RaiseWithin
<1>4. ASSUME NEW fails, NEW v \in {peak, w}, Abstain(l, at, chosen, v, fails) PROVE LimitsInv'
  BY <1>2, <1>4, AbstainWithin
<1>5. ASSUME quote # <<>>, NEW candidate \in chosen, NEW plan \in PlansOn(l.book, candidate, quote),
             Judge(l, at, candidate, plan, w, known, where)
      PROVE  LimitsInv'
  <2>1. CASE Raise(l, {candidate}, w)
    BY <1>2, <2>1, RaiseWithin
  <2>2. ASSUME NEW fails, Abstain(l, at, {candidate}, w, fails) PROVE LimitsInv'
    BY <1>2, <2>2, AbstainWithin
  <2>3. ASSUME plan.quantity \in RiskQuantities(l.book, plan, w, at), NEW fails,
               Submit(l, at, candidate, plan, w, fails)
        PROVE  LimitsInv'
    <3>1. PICK mark : mark = MarkOf(quote, candidate)
      OBVIOUS
    <3>2. mark \in Nat \ {0}
      <4>1. quote \in (Nat \ {0}) \X (Nat \ {0})
        BY <1>5, CoreAssumption
      <4>2. QED
        BY <3>1, <4>1 DEF MarkOf
    <3>3. plan \in PlanFor(candidate.direction = "LONG", mark, Equity(l.book), l.book.cash)
      BY <1>5, <3>1 DEF PlansOn
    <3>4. /\ plan.long \in BOOLEAN /\ {plan.entry, plan.stop, plan.target} \subseteq Nat
          /\ plan.quantity \in Nat \ {0}
      <4>1. Equity(l.book) \in Int /\ l.book.cash \in Int
        BY EquityType
      <4>2. (candidate.direction = "LONG") \in BOOLEAN
        OBVIOUS
      <4>3. QED
        BY ONLY <3>2, <3>3, <4>1, <4>2, PlanTyped
    <3>5. candidate.at = at /\ ~Suppressed(candidate, previous)
      BY <1>5
    <3>6. \E e \in l.events : e.id = <<"quote", at>>
      BY <1>5
    <3>7. QED
      BY <1>1, <1>2, <2>3, <3>4, <3>5, <3>6, SubmitWithin
  <2>4. QED
    BY <1>5, <2>1, <2>2, <2>3 DEF Judge
<1>6. QED
  BY <1>1, <1>3, <1>4, <1>5 DEF Decide

LEMMA LimitsStep == LimitsInv /\ [CoreNext]_coreVars => LimitsInv'
<1> SUFFICES ASSUME LimitsInv, [CoreNext]_coreVars PROVE LimitsInv'
  OBVIOUS
<1>1. ASSUME NEW at \in last + 1 .. Min({last + MaxGap, LastInstant}), NEW quote \in Quotes \cup {<<>>},
             NEW scores, NEW approves, NEW where, Process(at, quote, scores, approves, where)
      PROVE  LimitsInv'
  <2>1. at \in Nat
    <3>1. PICK m, n : m = last + MaxGap /\ n = LastInstant /\ m \in Nat /\ n \in Nat
      BY CoreAssumption DEF LimitsInv
    <3>2. Min({m, n}) \in Int
      BY <3>1, LeastOfTwo
    <3>3. QED
      BY <1>1, <3>1, <3>2 DEF LimitsInv
  <2>2. PICK chosen, known, review, ledger :
          /\ chosen = Chosen(scores, at, TimeOfDay(at), previous)
          /\ ledger \in QuotedLedgers(Ledger, at, quote)
          /\ Decide(ledger, at, quote, chosen, review, known, where)
    BY <1>1 DEF Process
  <2>3. \A c \in chosen : c.at = at /\ ~Suppressed(c, previous)
    BY <2>2, ChosenIs
  <2>4. Within(Ledger, peak, previous)
    BY DEF LimitsInv
  <2>5. Within(ledger, peak, previous) /\ (quote # <<>> => \E e \in ledger.events : e.id = <<"quote", at>>)
    <3>1. CASE quote = <<>>
      BY <2>2, <2>4, <3>1 DEF QuotedLedgers
    <3>2. CASE quote # <<>>
      <4>1. quote \in Quotes /\ ledger \in After(Ledger, QuoteRequest(at, quote))
        BY <2>2, <3>2 DEF QuotedLedgers
      <4>2. QED
        BY ZenonT(40), <2>1, <2>4, <4>1, QuotedWithin
    <3>3. QED
      BY <3>1, <3>2
  <2>6. QED
    BY <2>1, <2>2, <2>3, <2>5, DecideWithin
<1>2. CASE UNCHANGED coreVars
  <2>1. Ledger' = Ledger /\ peak' = peak /\ previous' = previous /\ last' = last
    BY <1>2 DEF coreVars, simulatorVars, Ledger
  <2>2. QED
    BY <2>1 DEF LimitsInv
<1>3. QED
  BY <1>1, <1>2 DEF CoreNext

LEMMA LimitsStart == CoreInit => LimitsInv
<1> SUFFICES ASSUME CoreInit PROVE LimitsInv
  OBVIOUS
<1>1. SoundLedger(Ledger)
  BY FreshSound DEF CoreInit
<1>2. Ledger.book.orders = [o \in {} |-> 0]
  BY DEF CoreInit, SimulatorInit, FreshBook, Ledger
<1>3. DOMAIN Ledger.book.orders = {}
  BY <1>2
<1>4. Live(Ledger.book) = {} /\ \A d : Orders(Ledger.book, d) = {}
  BY <1>3 DEF Live, Orders
<1>5. peak \in Nat /\ last \in Nat
  BY SimulatorAssumption DEF CoreInit
<1>6. Cardinality({}) = 0 /\ MaximumPositions \in Nat /\ MaximumTradesPerDay \in Nat
  BY FS_EmptySet, RiskAssumption
<1>7. QED
  BY <1>1, <1>3, <1>4, <1>5, <1>6 DEF LimitsInv, Within, Spaced

\* Whatever quotes, scores and reviews come, and whatever fails, the money at risk at the
\* stops and the pace of the orders stay within the risk policy: what each verdict grants
\* still holds once quotes have filled, moved and closed what was granted before
\* (RiskEngine.evaluate, DeterministicRiskPolicy.evaluate, the fill's risk gate).
THEOREM LimitsAreKept == CoreSpec => []LimitsHold
<1>1. LimitsInv => LimitsHold
  BY RiskBounded, PaceBounded DEF LimitsInv, LimitsHold
<1>2. QED
  BY <1>1, LimitsStart, LimitsStep, PTL DEF CoreSpec

----------------------------------------------------------------------------
(* The broker's reads, for any number of processes, tokens and approvals.  *)
(* The invariant follows the tokens of before an approval: each may be     *)
(* written to the file once more, by the process that was given it, and a  *)
(* rejection after a refresh takes one such write.                         *)

ReaderRow(tokens) ==
  [step : {"idle", "ask", "open", "write", "chmod", "send", "clear"}, turn : {1, 2},
   token : tokens, refused : tokens, tries : Int, handle : Nat]
Tokens == 0 .. issued

BrokerTypeOK ==
  /\ issued \in Nat /\ live \subseteq 1 .. issued /\ expired \subseteq 1 .. issued
  /\ file \in [number : Nat, holds : Tokens]
  /\ reader \in [Readers -> ReaderRow(Tokens)]
  /\ rejected \in [Readers -> Nat]

Carries(r) == reader[r].step \in {"open", "write", "chmod", "send"}
TokensMeant ==
  \A r \in Readers : /\ Carries(r) => reader[r].token # 0
                     /\ At(r, "clear") => reader[r].token = 0
                     /\ reader[r].token \notin expired

\* A token that is not in the file yet is known to the process it was given to only.
Unwritten(r) == reader[r].step \in {"open", "write"}
TokensOwn ==
  \A r \in Readers : Unwritten(r) =>
    /\ file.holds # reader[r].token
    /\ \A q \in Readers : reader[q].refused # reader[r].token
    /\ \A q \in Readers \ {r} : reader[q].token # reader[r].token

\* Once its process has cleared the file, a refused token does not come back.
RefusedGone ==
  \A r \in Readers : reader[r].refused # 0 /\ ~At(r, "clear") =>
    file.holds # reader[r].refused /\ reader[r].token # reader[r].refused

\* Tokens an approval ended, the processes that may still write one, and those whose
\* read is rejected unless something else fails it.
Stale(t) == t # 0 /\ t \notin live /\ t \notin expired
StaleWriters == {r \in Readers : Unwritten(r) /\ Stale(reader[r].token)}
Doomed(r) ==
  reader[r].turn = 2 /\ (Stale(reader[r].token) \/ (At(r, "idle") /\ Stale(file.holds)))
Rejections(r) ==
  rejected[r] + Cardinality(StaleWriters \ {r}) + (IF Doomed(r) THEN 1 ELSE 0)
RejectionsBounded == \A r \in Readers : Rejections(r) <= Cardinality(Readers)

BrokerInv == BrokerTypeOK /\ TokensMeant /\ TokensOwn /\ RefusedGone /\ RejectionsBounded

LEMMA Counted ==
  /\ Cardinality(Readers) \in Nat
  /\ \A r \in Readers : /\ IsFiniteSet(StaleWriters \ {r})
                        /\ Cardinality(StaleWriters \ {r}) \in Nat
                        /\ Cardinality(StaleWriters \ {r}) + 1 <= Cardinality(Readers)
<1>1. Cardinality(Readers) \in Nat
  BY BrokerAssumption, FS_CardinalityType
<1>2. ASSUME NEW r \in Readers
      PROVE  /\ IsFiniteSet(StaleWriters \ {r})
             /\ Cardinality(StaleWriters \ {r}) \in Nat
             /\ Cardinality(StaleWriters \ {r}) + 1 <= Cardinality(Readers)
  <2>1. StaleWriters \ {r} \subseteq Readers \ {r}
    BY DEF StaleWriters
  <2>2. IsFiniteSet(Readers \ {r}) /\ Cardinality(Readers \ {r}) = Cardinality(Readers) - 1
    BY BrokerAssumption, FS_RemoveElement
  <2>3. IsFiniteSet(StaleWriters \ {r})
        /\ Cardinality(StaleWriters \ {r}) <= Cardinality(Readers \ {r})
    BY <2>1, <2>2, FS_Subset
  <2>4. QED
    BY <1>1, <2>2, <2>3, FS_CardinalityType
<1>3. QED
  BY <1>1, <1>2

\* Nothing is added to what a process may yet be rejected for.
LEMMA NoMore ==
  ASSUME BrokerInv, BrokerTypeOK', NEW r \in Readers,
         (StaleWriters \ {r})' \subseteq StaleWriters \ {r}, Doomed(r)' => Doomed(r),
         rejected'[r] = rejected[r]
  PROVE  Rejections(r)' <= Cardinality(Readers)
<1>1. IsFiniteSet(StaleWriters \ {r}) /\ Cardinality(StaleWriters \ {r}) \in Nat
  BY Counted
<1>2. Cardinality((StaleWriters \ {r})') \in Nat
      /\ Cardinality((StaleWriters \ {r})') <= Cardinality(StaleWriters \ {r})
  BY <1>1, FS_Subset, FS_CardinalityType
<1>3. Rejections(r) <= Cardinality(Readers) /\ Cardinality(Readers) \in Nat
      /\ rejected[r] \in Nat
  BY Counted DEF BrokerInv, RejectionsBounded, BrokerTypeOK
<1>4. QED
  BY <1>1, <1>2, <1>3 DEF Rejections

----------------------------------------------------------------------------
(* The steps of a process q.                                               *)

LEMMA ReadCacheStep ==
  ASSUME BrokerInv, NEW q \in Readers, ReadCache(q)
  PROVE  BrokerInv'
<1> USE DEF BrokerInv
<1>1. PICK x : x = [reader[q] EXCEPT !.step = IF Cached THEN "send" ELSE "ask",
                                     !.token = IF Cached THEN file.holds ELSE 0, !.tries = 0]
  OBVIOUS
<1>2. /\ At(q, "idle") /\ reader' = [reader EXCEPT ![q] = x]
      /\ UNCHANGED <<file, issued, live, expired, rejected>>
  BY <1>1 DEF ReadCache
<1>3. /\ x.step = IF Cached THEN "send" ELSE "ask"
      /\ x.token = IF Cached THEN file.holds ELSE 0
      /\ x.turn = reader[q].turn /\ x.refused = reader[q].refused
  BY <1>1 DEF BrokerTypeOK, ReaderRow
<1>4. BrokerTypeOK'
  <2>1. reader[q] \in ReaderRow(Tokens) /\ file.holds \in Tokens /\ 0 \in Tokens
    BY DEF BrokerTypeOK, Tokens
  <2>2. PICK s, k : s = (IF Cached THEN "send" ELSE "ask") /\ k = IF Cached THEN file.holds ELSE 0
    OBVIOUS
  <2>3. s \in {"send", "ask"} /\ k \in Tokens
    BY <2>1, <2>2
  <2>4. x = [reader[q] EXCEPT !.step = s, !.token = k, !.tries = 0]
    BY <1>1, <2>2
  <2>5. x \in ReaderRow(Tokens)
    <3>1. PICK y : y = [reader[q] EXCEPT !.step = s, !.token = k]
      OBVIOUS
    <3>2. y \in ReaderRow(Tokens)
      BY ONLY <2>1, <2>3, <3>1 DEF ReaderRow
    <3>3. x = [y EXCEPT !.tries = 0]
      BY ONLY <2>4, <3>1
    <3>4. QED
      BY ONLY <3>2, <3>3 DEF ReaderRow
  <2>6. QED
    BY <1>2, <2>5 DEF BrokerTypeOK, Tokens
<1>5. \A r \in Readers : reader'[r] = IF r = q THEN x ELSE reader[r]
  BY <1>2 DEF BrokerTypeOK
<1>6. TokensMeant'
  BY <1>2, <1>3, <1>5 DEF TokensMeant, Carries, At, Cached, BrokerTypeOK, ReaderRow
<1>7. TokensOwn'
  BY <1>2, <1>3, <1>5 DEF TokensOwn, TokensMeant, Unwritten, Carries, At, Cached
<1>8. RefusedGone'
  BY <1>2, <1>3, <1>5 DEF RefusedGone, At, Cached
<1>9. ASSUME NEW r \in Readers PROVE Rejections(r)' <= Cardinality(Readers)
  <2>1. (StaleWriters \ {r})' \subseteq StaleWriters \ {r}
    BY <1>2, <1>3, <1>5 DEF StaleWriters, Unwritten, Stale
  <2>2. Doomed(r)' => Doomed(r)
    BY <1>2, <1>3, <1>5 DEF Doomed, Stale, At, Cached
  <2>3. QED
    BY <1>2, <1>4, <2>1, <2>2, NoMore
<1>10. QED
  BY <1>2, <1>4, <1>6, <1>7, <1>8, <1>9 DEF RejectionsBounded

\* The read ends, or the refused token is to be cleared.
LEMMA LeaveStep ==
  ASSUME BrokerInv, NEW q \in Readers, NEW t \in Tokens, NEW to \in {"idle", "clear"},
         t # 0 => t = reader[q].token /\ At(q, "send"),
         reader' = [reader EXCEPT ![q] = [step |-> to, turn |-> 1, token |-> 0, refused |-> t,
                                          tries |-> 0, handle |-> 0]],
         to = "idle" => t = 0,
         UNCHANGED <<file, issued, live, expired>>,
         rejected' = rejected \/ (Doomed(q) /\ rejected' = [rejected EXCEPT ![q] = @ + 1])
  PROVE  BrokerInv'
<1> USE DEF BrokerInv
<1>1. PICK x : x = [step |-> to, turn |-> 1, token |-> 0, refused |-> t, tries |-> 0, handle |-> 0]
  OBVIOUS
<1>2. /\ x.step = to /\ x.token = 0 /\ x.turn = 1 /\ x.refused = t
  BY <1>1
<1>3. reader' = [reader EXCEPT ![q] = x]
  BY <1>1
<1>4. BrokerTypeOK'
  <2>1. x \in ReaderRow(Tokens)
    BY <1>1 DEF ReaderRow, Tokens, BrokerTypeOK
  <2>2. QED
    BY <1>3, <2>1 DEF BrokerTypeOK, Tokens
<1>5. \A r \in Readers : reader'[r] = IF r = q THEN x ELSE reader[r]
  BY <1>3 DEF BrokerTypeOK
<1>6. TokensMeant'
  BY <1>2, <1>5 DEF TokensMeant, Carries, At, BrokerTypeOK
<1>7. TokensOwn'
  BY <1>2, <1>5 DEF TokensOwn, TokensMeant, Unwritten, Carries, At
<1>8. RefusedGone'
  BY <1>2, <1>5 DEF RefusedGone, At
<1>9. ASSUME NEW r \in Readers PROVE Rejections(r)' <= Cardinality(Readers)
  <2>1. (StaleWriters \ {r})' \subseteq StaleWriters \ {r}
    BY <1>2, <1>5 DEF StaleWriters, Unwritten, Stale
  <2>2. Doomed(r)' => Doomed(r) /\ r # q
    BY <1>2, <1>5 DEF Doomed, Stale, At
  <2>3. CASE rejected'[r] = rejected[r]
    BY <1>4, <2>1, <2>2, <2>3, NoMore
  <2>4. CASE r = q /\ Doomed(q) /\ rejected' = [rejected EXCEPT ![q] = @ + 1]
    <3>1. rejected[r] \in Nat /\ rejected'[r] = rejected[r] + 1
      BY <2>4 DEF BrokerTypeOK
    <3>2. IsFiniteSet(StaleWriters \ {r}) /\ Cardinality(StaleWriters \ {r}) \in Nat
      BY Counted
    <3>3. Cardinality((StaleWriters \ {r})') \in Nat
          /\ Cardinality((StaleWriters \ {r})') <= Cardinality(StaleWriters \ {r})
      BY <2>1, <3>2, FS_Subset, FS_CardinalityType
    <3>4. rejected[r] + Cardinality(StaleWriters \ {r}) + 1 <= Cardinality(Readers)
          /\ Cardinality(Readers) \in Nat
      BY <2>4, Counted DEF RejectionsBounded, Rejections
    <3>5. ~Doomed(r)'
      BY <2>2, <2>4
    <3>6. QED
      BY <3>1, <3>2, <3>3, <3>4, <3>5 DEF Rejections
  <2>5. QED
    BY <2>3, <2>4 DEF BrokerTypeOK
<1>10. QED
  BY <1>4, <1>6, <1>7, <1>8, <1>9 DEF RejectionsBounded

LEMMA AskTokenStep ==
  ASSUME BrokerInv, NEW q \in Readers, AskToken(q)
  PROVE  BrokerInv'
<1> USE DEF BrokerInv
<1>1. CASE Ends(q) /\ UNCHANGED <<file, issued, live, expired, rejected>>
  <2>1. reader' = [reader EXCEPT ![q] = [step |-> "idle", turn |-> 1, token |-> 0, refused |-> 0,
                                         tries |-> 0, handle |-> 0]]
    BY <1>1 DEF Ends, Resting
  <2>2. 0 \in Tokens
    BY DEF Tokens, BrokerTypeOK
  <2>3. QED
    BY <1>1, <2>1, <2>2, LeaveStep
<1>2. CASE /\ issued' = issued + 1 /\ live' = live \cup {issued + 1}
           /\ reader' = [reader EXCEPT ![q].step = "open", ![q].token = issued + 1]
           /\ UNCHANGED <<file, expired, rejected>>
  <2>1. PICK x : x = [reader[q] EXCEPT !.step = "open", !.token = issued + 1]
    OBVIOUS
  <2>2. /\ x.step = "open" /\ x.token = issued + 1
        /\ x.turn = reader[q].turn /\ x.refused = reader[q].refused
    BY <2>1 DEF BrokerTypeOK, ReaderRow
  <2>3. reader' = [reader EXCEPT ![q] = x]
    BY <1>2, <2>1
  <2>4. At(q, "ask")
    BY DEF AskToken
  <2>5. /\ issued \in Nat /\ issued' = issued + 1 /\ 1 .. issued \subseteq 1 .. issued'
        /\ Tokens \subseteq Tokens' /\ issued + 1 \in Tokens' /\ issued + 1 \in 1 .. issued'
        /\ issued + 1 \notin Tokens /\ issued + 1 \notin 1 .. issued
    BY <1>2 DEF BrokerTypeOK, Tokens
  <2>6. BrokerTypeOK'
    <3>1. x \in ReaderRow(Tokens')
      <4>1. PICK r : r = reader[q] /\ r \in ReaderRow(Tokens)
        BY DEF BrokerTypeOK
      <4>2. x = [r EXCEPT !.step = "open", !.token = issued + 1]
        BY <2>1, <4>1
      <4>3. PICK old, new : /\ old = Tokens /\ new = Tokens' /\ old \subseteq new
                            /\ issued + 1 \in new
        BY <2>5
      <4>4. x \in ReaderRow(new)
        BY ONLY <4>1, <4>2, <4>3 DEF ReaderRow
      <4>5. QED
        BY <4>3, <4>4
    <3>2. reader \in [Readers -> ReaderRow(Tokens')]
      BY <2>5 DEF BrokerTypeOK, ReaderRow
    <3>3. reader' \in [Readers -> ReaderRow(Tokens')]
      BY <2>3, <3>1, <3>2
    <3>4. file' \in [number : Nat, holds : Tokens']
      BY <1>2, <2>5 DEF BrokerTypeOK
    <3>5. issued' \in Nat /\ live' \subseteq 1 .. issued' /\ expired' \subseteq 1 .. issued'
          /\ rejected' \in [Readers -> Nat]
      BY <1>2, <2>5 DEF BrokerTypeOK
    <3>6. QED
      BY <3>3, <3>4, <3>5 DEF BrokerTypeOK
  <2>7. \A r \in Readers : /\ reader'[r] = IF r = q THEN x ELSE reader[r]
                           /\ reader[r].token # issued + 1 /\ reader[r].refused # issued + 1
    BY <2>3, <2>5 DEF BrokerTypeOK, ReaderRow
  <2>8. file' = file /\ file.holds # issued + 1 /\ issued + 1 \notin expired /\ expired' = expired
    BY <1>2, <2>5 DEF BrokerTypeOK
  <2>9. TokensMeant'
    BY <2>2, <2>5, <2>7, <2>8 DEF TokensMeant, Carries, At
  <2>10. TokensOwn'
    BY <2>2, <2>7, <2>8 DEF TokensOwn, Unwritten
  <2>11. RefusedGone'
    BY <2>2, <2>4, <2>7, <2>8 DEF RefusedGone, At
  <2>12. x.token \in live' /\ live \subseteq live'
    BY <1>2, <2>2
  <2>13. ASSUME NEW r \in Readers PROVE Rejections(r)' <= Cardinality(Readers)
    <3>1. (StaleWriters \ {r})' \subseteq StaleWriters \ {r}
      BY <2>7, <2>8, <2>12 DEF StaleWriters, Unwritten, Stale
    <3>2. Doomed(r)' => Doomed(r)
      BY <2>2, <2>7, <2>8, <2>12 DEF Doomed, Stale, At
    <3>3. QED
      BY <1>2, <2>6, <3>1, <3>2, NoMore
  <2>14. QED
    BY <2>6, <2>9, <2>10, <2>11, <2>13 DEF RejectionsBounded
<1>3. QED
  BY <1>1, <1>2 DEF AskToken

LEMMA OpenCacheStep ==
  ASSUME BrokerInv, NEW q \in Readers, OpenCache(q)
  PROVE  BrokerInv'
<1> USE DEF BrokerInv
<1>1. PICK number : number = IF file.number = 0 THEN reader[q].token ELSE file.number
  OBVIOUS
<1>2. PICK x : x = [reader[q] EXCEPT !.step = "write", !.handle = number]
  OBVIOUS
<1>3. /\ At(q, "open") /\ file' = [number |-> number, holds |-> 0]
      /\ reader' = [reader EXCEPT ![q] = x]
      /\ UNCHANGED <<issued, live, expired, rejected>>
  BY <1>1, <1>2 DEF OpenCache
<1>4. /\ x.step = "write" /\ x.token = reader[q].token
      /\ x.turn = reader[q].turn /\ x.refused = reader[q].refused /\ file'.holds = 0
  BY <1>2, <1>3 DEF BrokerTypeOK, ReaderRow
<1>5. BrokerTypeOK'
  <2>1. number \in Nat
    BY <1>1 DEF BrokerTypeOK, Tokens, ReaderRow
  <2>2. x \in ReaderRow(Tokens)
    BY ZenonT(40), <1>2, <2>1 DEF BrokerTypeOK, ReaderRow
  <2>3. QED
    BY <1>3, <2>1, <2>2 DEF BrokerTypeOK, Tokens
<1>6. \A r \in Readers : reader'[r] = IF r = q THEN x ELSE reader[r]
  BY <1>3 DEF BrokerTypeOK
<1>7. TokensMeant'
  BY <1>3, <1>4, <1>6 DEF TokensMeant, Carries, At
<1>8. TokensOwn'
  BY <1>3, <1>4, <1>6 DEF TokensOwn, TokensMeant, Unwritten, Carries, At
<1>9. RefusedGone'
  BY <1>3, <1>4, <1>6 DEF RefusedGone, At
<1>10. ASSUME NEW r \in Readers PROVE Rejections(r)' <= Cardinality(Readers)
  <2>1. (StaleWriters \ {r})' \subseteq StaleWriters \ {r}
    BY <1>3, <1>4, <1>6 DEF StaleWriters, Unwritten, Stale, At
  <2>2. Doomed(r)' => Doomed(r)
    BY <1>3, <1>4, <1>6 DEF Doomed, Stale, At
  <2>3. QED
    BY <1>3, <1>5, <2>1, <2>2, NoMore
<1>11. QED
  BY <1>5, <1>7, <1>8, <1>9, <1>10 DEF RejectionsBounded

\* A process writes over the tokens of others, or its own for the first and only time.
LEMMA WriteCacheStep ==
  ASSUME BrokerInv, NEW q \in Readers, WriteCache(q)
  PROVE  BrokerInv'
<1> USE DEF BrokerInv
<1>1. PICK x : x = [reader[q] EXCEPT !.step = "chmod"]
  OBVIOUS
<1>2. /\ At(q, "write") /\ reader' = [reader EXCEPT ![q] = x]
      /\ UNCHANGED <<issued, live, expired, rejected>>
  BY <1>1 DEF WriteCache, Goes
<1>3. /\ x.step = "chmod" /\ x.token = reader[q].token
      /\ x.turn = reader[q].turn /\ x.refused = reader[q].refused
  BY <1>1 DEF BrokerTypeOK, ReaderRow
<1>4. \/ file' = file
      \/ file' \in [number : Nat, holds : Tokens] /\ file'.holds \in {reader[q].token, 0}
  BY DEF WriteCache, BrokerTypeOK, ReaderRow, Tokens
<1>5. BrokerTypeOK'
  <2>1. x \in ReaderRow(Tokens)
    BY <1>1 DEF BrokerTypeOK, ReaderRow
  <2>2. file' \in [number : Nat, holds : Tokens]
    BY <1>4 DEF BrokerTypeOK
  <2>3. QED
    BY <1>2, <2>1, <2>2 DEF BrokerTypeOK, Tokens
<1>6. \A r \in Readers : reader'[r] = IF r = q THEN x ELSE reader[r]
  BY <1>2 DEF BrokerTypeOK
<1>7. Unwritten(q) /\ reader[q].token # 0 /\ reader[q].token \notin expired
  BY <1>2 DEF Unwritten, TokensMeant, Carries, At
<1>8. file'.holds \in {file.holds, reader[q].token, 0}
  BY <1>4
<1>9. TokensMeant'
  BY <1>2, <1>3, <1>6 DEF TokensMeant, Carries, At
<1>10. TokensOwn'
  <2>1. ASSUME NEW r \in Readers, Unwritten(r)'
        PROVE  /\ r # q /\ Unwritten(r) /\ reader'[r] = reader[r]
    BY <1>3, <1>6, <2>1 DEF Unwritten
  <2>2. ASSUME NEW r \in Readers, Unwritten(r)' PROVE reader[r].token # 0
    BY <2>1, <2>2 DEF TokensMeant, Carries, Unwritten
  <2>3. QED
    BY <1>3, <1>6, <1>7, <1>8, <2>1, <2>2 DEF TokensOwn
<1>11. RefusedGone'
  <2>1. \A r \in Readers : reader[r].refused # reader[q].token
    BY <1>7 DEF TokensOwn
  <2>2. QED
    BY <1>2, <1>3, <1>6, <1>8, <2>1 DEF RefusedGone, At
<1>12. ASSUME NEW r \in Readers PROVE Rejections(r)' <= Cardinality(Readers)
  <2>1. (StaleWriters \ {r})' \subseteq (StaleWriters \ {r}) \ {q}
    BY <1>2, <1>3, <1>6 DEF StaleWriters, Unwritten, Stale
  <2>2. CASE Doomed(r)' => Doomed(r)
    BY <1>2, <1>5, <2>1, <2>2, NoMore
  <2>3. CASE Doomed(r)' /\ ~Doomed(r)
    <3>1. r # q /\ q \in StaleWriters \ {r}
      <4>1. r # q
        BY <1>2, <1>3, <1>6, <2>3 DEF Doomed, Stale, At
      <4>2. Stale(file'.holds) /\ ~Stale(file.holds)
        BY <1>2, <1>6, <2>3, <4>1 DEF Doomed, Stale, At
      <4>3. Stale(reader[q].token)
        BY <1>8, <4>2 DEF Stale
      <4>4. QED
        BY <1>7, <4>1, <4>3 DEF StaleWriters
    <3>2. /\ IsFiniteSet(StaleWriters \ {r}) /\ Cardinality(StaleWriters \ {r}) \in Nat
          /\ Cardinality(Readers) \in Nat
      BY Counted
    <3>3. /\ IsFiniteSet((StaleWriters \ {r}) \ {q})
          /\ Cardinality((StaleWriters \ {r}) \ {q}) = Cardinality(StaleWriters \ {r}) - 1
      BY <3>1, <3>2, FS_RemoveElement
    <3>4. Cardinality((StaleWriters \ {r})') \in Nat
          /\ Cardinality((StaleWriters \ {r})') <= Cardinality(StaleWriters \ {r}) - 1
      BY <2>1, <3>3, FS_Subset, FS_CardinalityType
    <3>5. rejected[r] + Cardinality(StaleWriters \ {r}) <= Cardinality(Readers)
          /\ rejected[r] \in Nat /\ rejected'[r] = rejected[r]
      BY <1>2, <2>3, <3>2 DEF RejectionsBounded, Rejections, BrokerTypeOK
    <3>6. QED
      BY <2>3, <3>2, <3>4, <3>5 DEF Rejections
  <2>4. QED
    BY <2>2, <2>3
<1>13. QED
  BY <1>5, <1>9, <1>10, <1>11, <1>12 DEF RejectionsBounded

LEMMA ProtectStep ==
  ASSUME BrokerInv, NEW q \in Readers, Protect(q)
  PROVE  BrokerInv'
<1> USE DEF BrokerInv
<1>1. CASE Ends(q)
  <2>1. reader' = [reader EXCEPT ![q] = [step |-> "idle", turn |-> 1, token |-> 0, refused |-> 0,
                                         tries |-> 0, handle |-> 0]]
    BY <1>1 DEF Ends, Resting
  <2>2. 0 \in Tokens /\ UNCHANGED <<file, issued, live, expired, rejected>>
    BY DEF Tokens, BrokerTypeOK, Protect
  <2>3. QED
    BY <2>1, <2>2, LeaveStep
<1>2. CASE reader' = [reader EXCEPT ![q].step = "send", ![q].handle = 0]
  <2>1. PICK x : x = [reader[q] EXCEPT !.step = "send", !.handle = 0]
    OBVIOUS
  <2>2. /\ At(q, "chmod") /\ reader' = [reader EXCEPT ![q] = x]
        /\ UNCHANGED <<file, issued, live, expired, rejected>>
    BY <1>2, <2>1 DEF Protect
  <2>3. /\ x.step = "send" /\ x.token = reader[q].token
        /\ x.turn = reader[q].turn /\ x.refused = reader[q].refused
    BY <2>1 DEF BrokerTypeOK, ReaderRow
  <2>4. BrokerTypeOK'
    <3>1. x \in ReaderRow(Tokens)
      BY ZenonT(40), <2>1 DEF BrokerTypeOK, ReaderRow
    <3>2. QED
      BY <2>2, <3>1 DEF BrokerTypeOK, Tokens
  <2>5. \A r \in Readers : reader'[r] = IF r = q THEN x ELSE reader[r]
    BY <2>2 DEF BrokerTypeOK
  <2>6. TokensMeant'
    BY <2>2, <2>3, <2>5 DEF TokensMeant, Carries, At
  <2>7. TokensOwn'
    BY <2>2, <2>3, <2>5 DEF TokensOwn, Unwritten
  <2>8. RefusedGone'
    BY <2>2, <2>3, <2>5 DEF RefusedGone, At
  <2>9. ASSUME NEW r \in Readers PROVE Rejections(r)' <= Cardinality(Readers)
    <3>1. (StaleWriters \ {r})' \subseteq StaleWriters \ {r}
      BY <2>2, <2>3, <2>5 DEF StaleWriters, Unwritten, Stale
    <3>2. Doomed(r)' => Doomed(r)
      BY <2>2, <2>3, <2>5 DEF Doomed, Stale, At
    <3>3. QED
      BY <2>2, <2>4, <3>1, <3>2, NoMore
  <2>10. QED
    BY <2>4, <2>6, <2>7, <2>8, <2>9 DEF RejectionsBounded
<1>3. QED
  BY <1>1, <1>2 DEF Protect

LEMMA SendStep ==
  ASSUME BrokerInv, NEW q \in Readers, Send(q)
  PROVE  BrokerInv'
<1> USE DEF BrokerInv
<1>1. /\ At(q, "send") /\ 0 \in Tokens /\ reader[q].token \in Tokens
      /\ UNCHANGED <<file, issued, live, expired>>
  BY DEF Send, BrokerTypeOK, ReaderRow, Tokens
<1>2. CASE Ends(q) /\ UNCHANGED rejected
  <2>1. reader' = [reader EXCEPT ![q] = [step |-> "idle", turn |-> 1, token |-> 0, refused |-> 0,
                                         tries |-> 0, handle |-> 0]]
    BY <1>2 DEF Ends, Resting
  <2>2. QED
    BY <1>1, <1>2, <2>1, LeaveStep
<1>3. CASE reader' = [reader EXCEPT ![q].tries = @ + 1] /\ UNCHANGED rejected
  <2>1. PICK x : x = [reader[q] EXCEPT !.tries = @ + 1]
    OBVIOUS
  <2>2. reader' = [reader EXCEPT ![q] = x]
    BY <1>3, <2>1
  <2>3. /\ x.step = reader[q].step /\ x.token = reader[q].token
        /\ x.turn = reader[q].turn /\ x.refused = reader[q].refused
    BY <2>1 DEF BrokerTypeOK, ReaderRow
  <2>4. BrokerTypeOK'
    <3>1. x \in ReaderRow(Tokens)
      BY <2>1 DEF BrokerTypeOK, ReaderRow
    <3>2. QED
      BY <1>1, <1>3, <2>2, <3>1 DEF BrokerTypeOK, Tokens
  <2>5. \A r \in Readers : reader'[r] = IF r = q THEN x ELSE reader[r]
    BY <2>2 DEF BrokerTypeOK
  <2>6. \A r \in Readers : /\ reader'[r].step = reader[r].step /\ reader'[r].token = reader[r].token
                           /\ reader'[r].turn = reader[r].turn
                           /\ reader'[r].refused = reader[r].refused
    BY <2>3, <2>5
  <2>7. TokensMeant'
    BY <1>1, <2>6 DEF TokensMeant, Carries, At
  <2>8. TokensOwn'
    BY <1>1, <2>6 DEF TokensOwn, Unwritten
  <2>9. RefusedGone'
    BY <1>1, <2>6 DEF RefusedGone, At
  <2>10. ASSUME NEW r \in Readers PROVE Rejections(r)' <= Cardinality(Readers)
    <3>1. (StaleWriters \ {r})' \subseteq StaleWriters \ {r}
      BY <1>1, <2>6 DEF StaleWriters, Unwritten, Stale
    <3>2. Doomed(r)' => Doomed(r)
      BY <1>1, <2>6 DEF Doomed, Stale, At
    <3>3. QED
      BY <1>3, <2>4, <3>1, <3>2, NoMore
  <2>11. QED
    BY <2>4, <2>7, <2>8, <2>9, <2>10 DEF RejectionsBounded
<1>4. CASE TurnedAway(q) /\ UNCHANGED rejected
  <2>1. reader' = [reader EXCEPT ![q] = [step |-> "clear", turn |-> 1, token |-> 0,
                                         refused |-> reader[q].token, tries |-> 0, handle |-> 0]]
    <3>1. PICK t : t = reader[q].token
      OBVIOUS
    <3>2. [Resting EXCEPT !.step = "clear", !.refused = t]
            = [step |-> "clear", turn |-> 1, token |-> 0, refused |-> t, tries |-> 0, handle |-> 0]
      <4>1. PICK a : a = [Resting EXCEPT !.step = "clear"]
        OBVIOUS
      <4>2. a = [step |-> "clear", turn |-> 1, token |-> 0, refused |-> 0, tries |-> 0, handle |-> 0]
        BY ONLY <4>1 DEF Resting
      <4>3. [Resting EXCEPT !.step = "clear", !.refused = t] = [a EXCEPT !.refused = t]
        BY ONLY <4>1
      <4>4. QED
        BY ONLY <4>2, <4>3
    <3>3. TurnedAway(q) <=> reader' = [reader EXCEPT ![q] =
                                         [Resting EXCEPT !.step = "clear", !.refused = t]]
      BY <3>1 DEF TurnedAway
    <3>4. QED
      BY <1>4, <3>1, <3>2, <3>3
  <2>2. QED
    BY <1>1, <1>4, <2>1, LeaveStep
<1>5. CASE /\ reader[q].token \notin live /\ reader[q].turn # 1
           /\ Ends(q) /\ rejected' = [rejected EXCEPT ![q] = @ + 1]
  <2>1. reader' = [reader EXCEPT ![q] = [step |-> "idle", turn |-> 1, token |-> 0, refused |-> 0,
                                         tries |-> 0, handle |-> 0]]
    BY <1>5 DEF Ends, Resting
  <2>2. Stale(reader[q].token)
    BY <1>1, <1>5 DEF TokensMeant, Carries, At, Stale
  <2>3. Doomed(q)
    BY <1>5, <2>2 DEF Doomed, BrokerTypeOK, ReaderRow
  <2>4. QED
    BY <1>1, <1>5, <2>1, <2>3, LeaveStep
<1>6. QED
  BY <1>2, <1>3, <1>4, <1>5 DEF Send

LEMMA ClearCacheStep ==
  ASSUME BrokerInv, NEW q \in Readers, ClearCache(q)
  PROVE  BrokerInv'
<1> USE DEF BrokerInv
<1>1. PICK x : x = [reader[q] EXCEPT !.step = "idle", !.turn = 2]
  OBVIOUS
<1>2. /\ At(q, "clear") /\ reader' = [reader EXCEPT ![q] = x]
      /\ file' = [number |-> 0, holds |-> 0] /\ UNCHANGED <<issued, live, expired, rejected>>
  BY <1>1 DEF ClearCache, Cleared, NoFile
<1>3. /\ x.step = "idle" /\ x.token = reader[q].token /\ x.turn = 2
      /\ x.refused = reader[q].refused /\ file'.holds = 0
  BY <1>1, <1>2 DEF BrokerTypeOK, ReaderRow
<1>4. reader[q].token = 0
  BY <1>2 DEF TokensMeant
<1>5. BrokerTypeOK'
  <2>1. x \in ReaderRow(Tokens)
    BY ZenonT(40), <1>1 DEF BrokerTypeOK, ReaderRow
  <2>2. QED
    BY <1>2, <2>1 DEF BrokerTypeOK, Tokens
<1>6. \A r \in Readers : reader'[r] = IF r = q THEN x ELSE reader[r]
  BY <1>2 DEF BrokerTypeOK
<1>7. TokensMeant'
  BY <1>2, <1>3, <1>6 DEF TokensMeant, Carries, At
<1>8. TokensOwn'
  BY <1>3, <1>6 DEF TokensOwn, TokensMeant, Unwritten, Carries
<1>9. RefusedGone'
  BY <1>3, <1>4, <1>6 DEF RefusedGone, At
<1>10. ASSUME NEW r \in Readers PROVE Rejections(r)' <= Cardinality(Readers)
  <2>1. (StaleWriters \ {r})' \subseteq StaleWriters \ {r}
    BY <1>2, <1>3, <1>6 DEF StaleWriters, Unwritten, Stale
  <2>2. Doomed(r)' => Doomed(r)
    BY <1>2, <1>3, <1>4, <1>6 DEF Doomed, Stale, At
  <2>3. QED
    BY <1>2, <1>5, <2>1, <2>2, NoMore
<1>11. QED
  BY <1>5, <1>7, <1>8, <1>9, <1>10 DEF RejectionsBounded

----------------------------------------------------------------------------
(* The broker's steps.                                                     *)

\* An approval leaves each other process one token to write.
LEMMA RevokeStep ==
  ASSUME BrokerInv, Revoke
  PROVE  BrokerInv'
<1> USE DEF BrokerInv
<1>1. /\ live' = {} /\ UNCHANGED <<file, issued, expired, reader>>
      /\ rejected' = [r \in Readers |-> 0]
  BY DEF Revoke, Calm
<1>2. BrokerTypeOK'
  BY <1>1 DEF BrokerTypeOK, Tokens
<1>3. TokensMeant' /\ TokensOwn' /\ RefusedGone'
  BY <1>1 DEF TokensMeant, Carries, At, TokensOwn, Unwritten, RefusedGone
<1>4. ASSUME NEW r \in Readers PROVE Rejections(r)' <= Cardinality(Readers)
  <2>1. /\ Cardinality(Readers) \in Nat /\ IsFiniteSet(Readers \ {r})
        /\ Cardinality(Readers \ {r}) = Cardinality(Readers) - 1
    BY BrokerAssumption, FS_RemoveElement, FS_CardinalityType
  <2>2. (StaleWriters \ {r})' \subseteq Readers \ {r}
    BY DEF StaleWriters
  <2>3. /\ Cardinality((StaleWriters \ {r})') \in Nat
        /\ Cardinality((StaleWriters \ {r})') <= Cardinality(Readers) - 1
    BY <2>1, <2>2, FS_Subset, FS_CardinalityType
  <2>4. rejected'[r] = 0
    BY <1>1
  <2>5. QED
    BY <2>1, <2>3, <2>4 DEF Rejections
<1>5. QED
  BY <1>2, <1>3, <1>4 DEF RejectionsBounded

\* A token that ends with its life ends in no process's hands and makes none stale.
LEMMA ExpireStep ==
  ASSUME BrokerInv, NEW n \in 1 .. issued, Expire(n)
  PROVE  BrokerInv'
<1> USE DEF BrokerInv
<1>1. /\ n \in live /\ live' = live \ {n} /\ expired' = expired \cup {n}
      /\ UNCHANGED <<file, issued, reader, rejected>>
      /\ \A r \in Readers : reader[r].token # n
  BY DEF Expire, InHand
<1>2. BrokerTypeOK'
  BY <1>1 DEF BrokerTypeOK, Tokens
<1>3. TokensMeant' /\ TokensOwn' /\ RefusedGone'
  BY <1>1 DEF TokensMeant, Carries, At, TokensOwn, Unwritten, RefusedGone
<1>4. \A t : Stale(t)' => Stale(t)
  BY <1>1 DEF Stale
<1>5. ASSUME NEW r \in Readers PROVE Rejections(r)' <= Cardinality(Readers)
  <2>1. (StaleWriters \ {r})' \subseteq StaleWriters \ {r}
    BY <1>1 DEF StaleWriters, Unwritten, Stale
  <2>2. Doomed(r)' => Doomed(r)
    BY <1>1 DEF Doomed, Stale, At
  <2>3. QED
    BY <1>1, <1>2, <2>1, <2>2, NoMore
<1>6. QED
  BY <1>2, <1>3, <1>5 DEF RejectionsBounded

----------------------------------------------------------------------------
LEMMA BrokerStarts == BrokerInit => BrokerInv
<1> SUFFICES ASSUME BrokerInit PROVE BrokerInv
  OBVIOUS
<1>1. /\ issued = 0 /\ live = {} /\ expired = {} /\ file = [number |-> 0, holds |-> 0]
      /\ reader = [r \in Readers |-> [step |-> "idle", turn |-> 1, token |-> 0, refused |-> 0,
                                      tries |-> 0, handle |-> 0]]
      /\ rejected = [r \in Readers |-> 0]
  BY DEF BrokerInit, NoFile, Resting, Calm
<1>2. \A r \in Readers : /\ reader[r].step = "idle" /\ reader[r].turn = 1
                         /\ reader[r].token = 0 /\ reader[r].refused = 0 /\ rejected[r] = 0
  BY <1>1
<1>3. BrokerTypeOK
  BY <1>1 DEF BrokerTypeOK, ReaderRow, Tokens
<1>4. TokensMeant /\ TokensOwn /\ RefusedGone
  BY <1>1, <1>2 DEF TokensMeant, TokensOwn, RefusedGone, Carries, At, Unwritten
<1>5. RejectionsBounded
  <2>1. \A r \in Readers : rejected[r] = 0 /\ ~Doomed(r)
    BY <1>2 DEF Doomed
  <2>2. ASSUME NEW r \in Readers PROVE Rejections(r) <= Cardinality(Readers)
    <3>1. /\ rejected[r] = 0 /\ ~Doomed(r) /\ Cardinality(StaleWriters \ {r}) \in Nat
          /\ Cardinality(StaleWriters \ {r}) + 1 <= Cardinality(Readers)
          /\ Cardinality(Readers) \in Nat
      BY <2>1, Counted
    <3>2. QED
      BY <3>1 DEF Rejections
  <2>3. QED
    BY <2>2 DEF RejectionsBounded
<1>6. QED
  BY <1>3, <1>4, <1>5 DEF BrokerInv

LEMMA BrokerStep == BrokerInv /\ [BrokerNext]_brokerVars => BrokerInv'
<1> SUFFICES ASSUME BrokerInv, [BrokerNext]_brokerVars PROVE BrokerInv'
  OBVIOUS
<1>1. ASSUME NEW q \in Readers,
             ReadCache(q) \/ AskToken(q) \/ OpenCache(q) \/ WriteCache(q)
               \/ Protect(q) \/ Send(q) \/ ClearCache(q)
      PROVE  BrokerInv'
  BY <1>1, ReadCacheStep, AskTokenStep, OpenCacheStep, WriteCacheStep, ProtectStep, SendStep,
     ClearCacheStep
<1>2. CASE Revoke
  BY <1>2, RevokeStep
<1>3. ASSUME NEW n \in 1 .. issued, Expire(n) PROVE BrokerInv'
  BY <1>3, ExpireStep
<1>4. CASE UNCHANGED brokerVars
  BY <1>4 DEF brokerVars, BrokerInv, BrokerTypeOK, Tokens, TokensMeant, Carries, At, TokensOwn,
              Unwritten, RefusedGone, RejectionsBounded, Rejections, StaleWriters, Stale, Doomed
<1>5. QED
  BY <1>1, <1>2, <1>3, <1>4 DEF BrokerNext

\* Refresh once (groww.py, _request): a read that was refused is not sent again with the
\* token it was refused with, and after an approval no process is rejected over both turns
\* more often than there are processes.
THEOREM ReadsSettle == BrokerSpec => []ReadsHeal
<1>1. BrokerInv => ReadsHeal
  <2> SUFFICES ASSUME BrokerInv, NEW r \in Readers
               PROVE  /\ reader[r].step = "send" => reader[r].token # reader[r].refused
                      /\ rejected[r] <= Cardinality(Readers)
    BY DEF ReadsHeal
  <2>1. reader[r].step = "send" => reader[r].token # reader[r].refused
    BY DEF BrokerInv, RefusedGone, TokensMeant, Carries, At
  <2>2. /\ rejected[r] \in Nat /\ Cardinality(StaleWriters \ {r}) \in Nat
        /\ Cardinality(Readers) \in Nat /\ Rejections(r) <= Cardinality(Readers)
    BY Counted DEF BrokerInv, BrokerTypeOK, RejectionsBounded
  <2>3. QED
    BY <2>1, <2>2 DEF Rejections
<1>2. QED
  BY <1>1, BrokerStarts, BrokerStep, PTL DEF BrokerSpec

----------------------------------------------------------------------------
(* Fractions: lowest terms, and the order of ratios.                       *)

\* n divides a when a is a multiple of it.
LEMMA Divides ==
  ASSUME NEW a \in Nat, NEW n \in Nat \ {0}
  PROVE  a % n = 0 <=> \E k \in Nat : a = k * n
<1>1. ASSUME a % n = 0 PROVE \E k \in Nat : a = k * n
  <2>1. a \div n \in Nat
    BY DivNat
  <2>2. a = (a \div n) * n
    BY <1>1
  <2>3. QED
    BY <2>1, <2>2
<1>2. ASSUME NEW k \in Nat, a = k * n PROVE a % n = 0
  <2>1. a \div n = k
    BY <1>2, DivIs
  <2>2. a = (a \div n) * n + (a % n)
    OBVIOUS
  <2>3. QED
    BY <1>2, <2>1, <2>2
<1>3. QED
  BY <1>1, <1>2

LEMMA Cancels ==
  ASSUME NEW a \in Int, NEW b \in Int, NEW n \in Nat \ {0}, a * n = b * n
  PROVE  a = b
<1>1. CASE a < b
  <2>1. (a + 1) * n <= b * n
    BY <1>1, TimesMonotone
  <2>2. QED
    BY <2>1
<1>2. CASE b < a
  <2>1. (b + 1) * n <= a * n
    BY <1>2, TimesMonotone
  <2>2. QED
    BY <2>1
<1>3. QED
  BY <1>1, <1>2

\* p / q is the ratio every equal one is a multiple of.
Reduced(p0, q0) ==
  /\ p0 \in Nat /\ q0 \in Nat \ {0}
  /\ \A u \in Nat, v \in Nat : u * q0 = p0 * v => \E k \in Nat : u = k * p0 /\ v = k * q0

LEMMA ReducedExists ==
  ASSUME NEW a \in Nat, NEW b \in Nat \ {0}
  PROVE  \E x, y : Reduced(x, y) /\ a * y = x * b
<1> DEFINE D == {y \in Nat \ {0} : \E x \in Nat : a * y = x * b}
<1>1. b \in D
  OBVIOUS
<1>2. D \subseteq Nat /\ D # {}
  BY <1>1
<1>3. PICK y \in D : \A m \in D : <<m, y>> \notin OpToRel(<, Nat)
  <2> HIDE DEF D
  <2> QED
    BY <1>2, NatLessThanWellFounded, WFMin
<1>4. \A m \in D : y <= m
  <2> HIDE DEF D
  <2> SUFFICES ASSUME NEW m \in D, m < y PROVE FALSE
    BY <1>2
  <2>1. <<m, y>> \in OpToRel(<, Nat)
    BY <1>2 DEF OpToRel
  <2> QED
    BY <1>3, <2>1
<1>5. y \in Nat \ {0}
  BY <1>3
<1>6. PICK x \in Nat : a * y = x * b
  BY <1>3
<1>7. ASSUME NEW u \in Nat, NEW v \in Nat, u * y = x * v
      PROVE  \E k \in Nat : u = k * x /\ v = k * y
  <2>1. PICK k \in Nat : k * y <= v /\ v < k * y + y
    <3>1. v \div y \in Nat
      BY <1>5, DivNat
    <3>2. (v \div y) * y <= v /\ v < (v \div y) * y + y
      BY <1>5, DivWithin
    <3>3. QED
      BY <3>1, <3>2
  <2>2. PICK r : r = v - k * y /\ r \in Nat /\ r < y
    BY <1>5, <2>1
  <2>3. (u - k * x) * y = x * r
    <3>1. (u - k * x) * y = u * y - (k * x) * y
      BY <1>5, <2>1
    <3>2. x * r = x * v - x * (k * y)
      BY <1>5, <2>1, <2>2
    <3>3. (k * x) * y = x * (k * y)
      BY <1>5, <2>1
    <3>4. QED
      BY <1>7, <3>1, <3>2, <3>3
  <2>4. u - k * x \in Nat
    <3>1. u - k * x \in Int
      BY <2>1
    <3>2. x * r >= 0
      BY <2>2
    <3>3. SUFFICES ASSUME u - k * x <= -1 PROVE FALSE
      BY <3>1
    <3>4. (u - k * x) * y <= (-1) * y
      BY <1>5, <3>1, <3>3, TimesMonotone
    <3>5. (-1) * y < 0
      BY <1>5
    <3>6. QED
      BY <2>3, <3>2, <3>4, <3>5
  <2>5. a * r = (u - k * x) * b
    <3>1. PICK w : w = u - k * x /\ w \in Nat
      BY <2>4
    <3>2. (a * r) * y = (w * b) * y
      <4>1. (a * r) * y = (a * y) * r
        BY <1>5, <2>2
      <4>2. (a * y) * r = (x * b) * r
        BY <1>6
      <4>3. (x * b) * r = (x * r) * b
        BY <2>2
      <4>4. (x * r) * b = (w * y) * b
        BY <2>3, <3>1
      <4>5. (w * y) * b = (w * b) * y
        BY <1>5, <3>1
      <4>6. QED
        BY <4>1, <4>2, <4>3, <4>4, <4>5
    <3>3. a * r \in Int /\ w * b \in Int
      BY <2>2, <3>1
    <3>4. QED
      BY <1>5, <3>1, <3>2, <3>3, Cancels
  <2>6. r = 0
    <3>1. SUFFICES ASSUME r # 0 PROVE FALSE
      OBVIOUS
    <3>2. r \in D
      BY <2>2, <2>4, <2>5, <3>1
    <3>3. y <= r
      BY <1>4, <3>2
    <3>4. QED
      BY <1>5, <2>2, <3>3
  <2>7. v = k * y
    BY <1>5, <2>1, <2>2, <2>6
  <2>8. u - k * x = 0
    <3>1. (u - k * x) * y = 0 * y
      BY <2>3, <2>6, <1>5
    <3>2. QED
      BY <1>5, <2>4, <3>1, Cancels
  <2>9. QED
    BY <2>1, <2>7, <2>8
<1>8. QED
  BY <1>5, <1>6, <1>7 DEF Reduced

LEMMA ReducedIsLowest ==
  ASSUME NEW a \in Nat \ {0}, NEW b \in Nat \ {0}, NEW x, NEW y, Reduced(x, y), a * y = x * b
  PROVE  Lowest(<<a, b>>) = <<x, y>>
<1>1. x \in Nat /\ y \in Nat \ {0}
  BY DEF Reduced
<1>2. PICK k \in Nat : a = k * x /\ b = k * y
  BY DEF Reduced
<1>3. k # 0
  BY <1>1, <1>2
<1>4. x # 0
  BY <1>1, <1>2
<1> DEFINE m == Min({a, b})
           N == {n \in 1 .. m : a % n = 0 /\ b % n = 0}
<1>5. m = IF a <= b THEN a ELSE b
  BY DEF Min
<1>6. m \in Nat
  BY <1>5
<1>7. k \in N
  <2>1. k <= a /\ k <= b
    <3>1. 1 * k <= x * k /\ 1 * k <= y * k
      BY <1>1, <1>4, TimesMonotone
    <3>2. QED
      BY <1>1, <1>2, <3>1
  <2>2. a = x * k /\ b = y * k
    BY <1>1, <1>2
  <2>3. a % k = 0 /\ b % k = 0
    BY <1>1, <1>3, <2>2, Divides
  <2>4. QED
    BY <1>3, <1>5, <1>6, <2>1, <2>3
<1>8. ASSUME NEW n \in N PROVE n <= k
  <2>1. n \in Nat \ {0} /\ a % n = 0 /\ b % n = 0
    BY <1>6, <1>8
  <2>2. PICK u \in Nat : a = u * n
    BY <2>1, Divides
  <2>3. PICK v \in Nat : b = v * n
    BY <2>1, Divides
  <2>4. u * y = x * v
    <3>1. (u * y) * n = (x * v) * n
      <4>1. (u * y) * n = a * y
        BY <1>1, <2>1, <2>2
      <4>2. (x * v) * n = x * b
        BY <1>1, <2>1, <2>3
      <4>3. QED
        BY <4>1, <4>2
    <3>2. u * y \in Int /\ x * v \in Int
      BY <1>1
    <3>3. QED
      BY <2>1, <3>1, <3>2, Cancels
  <2>5. PICK j \in Nat : u = j * x /\ v = j * y
    BY <2>4 DEF Reduced
  <2>6. (j * n) * y = k * y
    <3>1. k * y = (j * y) * n
      BY <1>2, <2>3, <2>5
    <3>2. (j * y) * n = (j * n) * y
      BY <1>1, <2>1
    <3>3. QED
      BY <3>1, <3>2
  <2>7. j * n = k
    BY <1>1, <2>1, <2>6, Cancels
  <2>8. j # 0
    BY <1>3, <2>1, <2>7
  <2>9. 1 * n <= j * n
    BY <2>1, <2>8, TimesMonotone
  <2>10. QED
    BY <2>1, <2>7, <2>9
<1>9. Max(N) = k
  <2>1. N \subseteq Nat
    BY <1>6
  <2> HIDE DEF N
  <2>2. \A n \in N : k >= n
    BY <1>8, <2>1
  <2>3. ASSUME NEW n \in N, \A o \in N : n >= o PROVE n = k
    BY <1>7, <1>8, <2>1, <2>3
  <2>4. QED
    BY <1>7, <2>2, <2>3 DEF Max
<1>10. a \div k = x /\ b \div k = y
  <2>1. a = x * k /\ b = y * k
    BY <1>1, <1>2
  <2>2. QED
    BY <1>1, <1>3, <2>1, DivIs
<1>11. QED
  <2>1. ~(a <= 0)
    OBVIOUS
  <2> DEFINE f == <<a, b>>
  <2>2. f[1] = a /\ f[2] = b
    OBVIOUS
  <2> HIDE DEF f
  <2>3. Max({n \in 1 .. Min({f[1], f[2]}) : f[1] % n = 0 /\ f[2] % n = 0}) = k
    BY <1>9, <2>2
  <2>4. Lowest(f) = <<f[1] \div k, f[2] \div k>>
    BY <2>1, <2>2, <2>3 DEF Lowest
  <2>5. QED
    BY <1>10, <2>2, <2>4 DEF f

\* Equal ratios have one lowest form, which is equal to them.
LEMMA LowestCanonical ==
  ASSUME NEW a \in Nat, NEW b \in Nat \ {0}, NEW c \in Nat, NEW d \in Nat \ {0}, a * d = c * b
  PROVE  Lowest(<<a, b>>) = Lowest(<<c, d>>)
<1>1. CASE a = 0
  <2>1. c * b = 0 * b
    BY <1>1
  <2>2. c = 0
    BY <2>1, Cancels
  <2>3. QED
    BY <1>1, <2>2 DEF Lowest
<1>2. CASE a # 0
  <2>1. c # 0
    <3>1. SUFFICES ASSUME c = 0 PROVE FALSE
      OBVIOUS
    <3>2. a * d = 0 * d
      BY <3>1
    <3>3. QED
      BY <1>2, <3>2, Cancels
  <2>2. PICK x, y : Reduced(x, y) /\ a * y = x * b
    BY ReducedExists
  <2>3. x \in Nat /\ y \in Nat \ {0}
    BY <2>2 DEF Reduced
  <2>4. c * y = x * d
    <3>1. (c * y) * b = (x * d) * b
      <4>1. (c * y) * b = (c * b) * y
        BY <2>3
      <4>2. (c * b) * y = (a * d) * y
        OBVIOUS
      <4>3. (a * d) * y = (a * y) * d
        BY <2>3
      <4>4. (a * y) * d = (x * b) * d
        BY <2>2
      <4>5. (x * b) * d = (x * d) * b
        BY <2>3
      <4>6. QED
        BY <4>1, <4>2, <4>3, <4>4, <4>5
    <3>2. c * y \in Int /\ x * d \in Int
      BY <2>3
    <3>3. QED
      BY <3>1, <3>2, Cancels
  <2>5. QED
    BY <1>2, <2>1, <2>2, <2>4, ReducedIsLowest
<1>3. QED
  BY <1>1, <1>2

InLowestTerms(f) == f \in Nat \X (Nat \ {0}) /\ Lowest(f) = f

LEMMA LowestIsLowest ==
  ASSUME NEW a \in Nat, NEW b \in Nat \ {0}, NEW f, f = Lowest(<<a, b>>)
  PROVE  InLowestTerms(f) /\ f[1] * b = a * f[2]
<1>1. CASE a = 0
  <2>1. f = <<0, 1>>
    BY <1>1 DEF Lowest
  <2>2. Lowest(f) = <<0, 1>>
    BY <2>1 DEF Lowest
  <2>3. f[1] = 0 /\ f[2] = 1
    BY <2>1
  <2>4. QED
    BY <1>1, <2>1, <2>2, <2>3 DEF InLowestTerms
<1>2. CASE a # 0
  <2>2. PICK x, y : Reduced(x, y) /\ a * y = x * b
    BY ReducedExists
  <2>3. x \in Nat /\ y \in Nat \ {0}
    BY <2>2 DEF Reduced
  <2>4. f = <<x, y>>
    BY <1>2, <2>2, ReducedIsLowest
  <2>5. Lowest(<<a, b>>) = Lowest(<<x, y>>)
    BY <2>2, <2>3, LowestCanonical
  <2>6. f[1] = x /\ f[2] = y
    BY <2>4
  <2>7. QED
    BY <2>2, <2>3, <2>4, <2>5, <2>6 DEF InLowestTerms
<1>3. QED
  BY <1>1, <1>2

\* Of two fractions in lowest terms one is above the other, or they are the same.
LEMMA SameRatio ==
  ASSUME NEW f, InLowestTerms(f), NEW g, InLowestTerms(g), ~Above(f, g), ~Above(g, f)
  PROVE  f = g
<1>1. PICK a \in Nat, b \in Nat \ {0} : f = <<a, b>> /\ f[1] = a /\ f[2] = b
  BY DEF InLowestTerms
<1>2. PICK c \in Nat, d \in Nat \ {0} : g = <<c, d>> /\ g[1] = c /\ g[2] = d
  BY DEF InLowestTerms
<1>3. a * d = c * b
  <2>1. a * d \in Int /\ c * b \in Int
    OBVIOUS
  <2>2. ~(a * d > c * b) /\ ~(c * b > a * d)
    BY <1>1, <1>2 DEF Above
  <2>3. QED
    BY <2>1, <2>2
<1>4. QED
  BY <1>1, <1>2, <1>3, LowestCanonical DEF InLowestTerms

LEMMA NotAboveTransitive ==
  ASSUME NEW f \in Nat \X (Nat \ {0}), NEW g \in Nat \X (Nat \ {0}), NEW h \in Nat \X (Nat \ {0}),
         ~Above(f, g), ~Above(g, h)
  PROVE  ~Above(f, h)
<1>1. PICK a \in Nat, b \in Nat \ {0} : f[1] = a /\ f[2] = b
  OBVIOUS
<1>2. PICK c \in Nat, d \in Nat \ {0} : g[1] = c /\ g[2] = d
  OBVIOUS
<1>3. PICK x \in Nat, y \in Nat \ {0} : h[1] = x /\ h[2] = y
  OBVIOUS
<1>4. PICK ad, cb, cy, xd, ay, xb :
         /\ ad = a * d /\ cb = c * b /\ cy = c * y /\ xd = x * d /\ ay = a * y /\ xb = x * b
  OBVIOUS
<1>5. {ad, cb, cy, xd, ay, xb} \subseteq Nat
  BY <1>4
<1>6. ad <= cb /\ cy <= xd
  BY <1>1, <1>2, <1>3, <1>4, <1>5 DEF Above
<1>7. ad * y <= cb * y /\ cy * b <= xd * b
  BY <1>5, <1>6, TimesMonotone
<1>8. ad * y = ay * d /\ cb * y = cy * b /\ xd * b = xb * d
  BY <1>4
<1>9. ay * d <= xb * d
  <2>1. {ay * d, cb * y, xb * d} \subseteq Nat
    BY <1>5
  <2>2. QED
    BY <1>7, <1>8, <2>1
<1>10. ay <= xb
  <2>1. SUFFICES ASSUME xb + 1 <= ay PROVE FALSE
    BY <1>5
  <2>2. (xb + 1) * d <= ay * d
    BY <1>5, <2>1, TimesMonotone
  <2>3. (xb + 1) * d = xb * d + d
    BY <1>5
  <2>4. ay * d \in Nat /\ xb * d \in Nat
    BY <1>5
  <2>5. QED
    BY <1>9, <2>2, <2>3, <2>4
<1>11. QED
  BY <1>1, <1>3, <1>4, <1>5, <1>10 DEF Above

\* What is added to a fraction to reach a greater one makes it that one.
LEMMA PlusMinus ==
  ASSUME NEW f, InLowestTerms(f), NEW g, InLowestTerms(g), g = f \/ Above(g, f)
  PROVE  Plus(f, Minus(g, f)) = g
<1>1. PICK a \in Nat, b \in Nat \ {0} : f = <<a, b>> /\ f[1] = a /\ f[2] = b
  BY DEF InLowestTerms
<1>2. PICK c \in Nat, d \in Nat \ {0} : g = <<c, d>> /\ g[1] = c /\ g[2] = d
  BY DEF InLowestTerms
<1>3. PICK n : n = c * b - a * d /\ n \in Nat
  <2>1. CASE g = f
    BY <1>1, <1>2, <2>1
  <2>2. CASE Above(g, f)
    BY <1>1, <1>2, <2>2 DEF Above
  <2>3. QED
    BY <2>1, <2>2
<1>4. PICK m : m = d * b /\ m \in Nat \ {0}
  OBVIOUS
<1>5. PICK w : w = Minus(g, f) /\ w = Lowest(<<n, m>>)
  BY <1>1, <1>2, <1>3, <1>4 DEF Minus
<1>6. InLowestTerms(w) /\ w[1] * m = n * w[2]
  BY <1>3, <1>4, <1>5, LowestIsLowest
<1>7. PICK x \in Nat, y \in Nat \ {0} : w[1] = x /\ w[2] = y
  BY <1>6 DEF InLowestTerms
<1>8. PICK u : u = a * y + x * b /\ u \in Nat
  BY <1>7
<1>9. PICK v : v = b * y /\ v \in Nat \ {0}
  BY <1>7
<1>10. Plus(f, w) = Lowest(<<u, v>>)
  BY <1>1, <1>7, <1>8, <1>9 DEF Plus
<1>11. u * d = c * v
  <2>1. x * (d * b) = (c * b - a * d) * y
    BY <1>3, <1>4, <1>6, <1>7
  <2>2. u * d = (a * y) * d + (x * b) * d
    BY <1>7, <1>8
  <2>3. (x * b) * d = x * (d * b)
    BY <1>7
  <2>4. (c * b - a * d) * y = c * (b * y) - (a * y) * d
    BY <1>7
  <2>5. {(a * y) * d, c * (b * y), (x * b) * d} \subseteq Nat
    BY <1>7
  <2>6. QED
    BY <1>9, <2>1, <2>2, <2>3, <2>4, <2>5
<1>12. Lowest(<<u, v>>) = Lowest(<<c, d>>)
  BY <1>8, <1>9, <1>11, LowestCanonical
<1>13. QED
  BY <1>2, <1>5, <1>10, <1>12 DEF InLowestTerms

----------------------------------------------------------------------------
(* The learner's environment: equities, falls and what is paid.            *)

ShadowEnvs ==
  [position : {-1, 0, 1}, entry : Int, entryFee : Nat, net : Int, peak : Nat \ {0},
   drawdown : Nat \X (Nat \ {0}), entries : Nat, invalid : Nat]

\* The peak of what has been seen, and the deepest of its falls.
FallsHold(s, high, fall) ==
  /\ s \in Seq(Int) /\ s # <<>> /\ s[1] > 0
  /\ \A n \in DOMAIN s : \E k \in 1 .. n : \A m \in 1 .. n : s[m] <= s[k]
  /\ high = PeakOf(s, Len(s))
  /\ fall \in FallsOf(s) /\ \A g \in FallsOf(s) : ~Above(g, fall)

Invested(e) == IF e.position = 0 THEN 0 ELSE e.entry * e.position + e.entryFee

ShadowInv ==
  /\ index \in 0 .. Rows - 1 /\ row \in TapeRows /\ env \in ShadowEnvs
  /\ equities \in Seq(Int)
  /\ reward = [gain |-> EquityOf(env, row) - StartingCapital, drawdown |-> env.drawdown,
               entries |-> env.entries]
  /\ till = StartingCapital + env.net - Invested(env)
  /\ Done => env.position = 0
  /\ env.position = 1 => env.entry + env.entryFee <= StartingCapital + env.net
  /\ FallsHold(<<StartingCapital>> \o equities, env.peak, env.drawdown)

----------------------------------------------------------------------------
LEMMA PeakIs ==
  ASSUME NEW s \in Seq(Int), NEW n \in DOMAIN s, NEW k \in 1 .. n, \A m \in 1 .. n : s[m] <= s[k]
  PROVE  PeakOf(s, n) = s[k]
<1> DEFINE S == {s[m] : m \in 1 .. n}
<1>1. S \subseteq Int
  OBVIOUS
<1>2. s[k] \in S /\ \A x \in S : s[k] >= x
  OBVIOUS
<1> HIDE DEF S
<1>3. ASSUME NEW x \in S, \A y \in S : x >= y PROVE x = s[k]
  BY <1>1, <1>2, <1>3
<1>4. Max(S) = s[k]
  BY <1>2, <1>3 DEF Max
<1>5. QED
  BY <1>4 DEF PeakOf, S

LEMMA PeakHolds ==
  ASSUME NEW s, NEW high, NEW fall, FallsHold(s, high, fall), NEW n \in DOMAIN s
  PROVE  /\ PeakOf(s, n) \in Nat \ {0}
         /\ \A m \in 1 .. n : s[m] <= PeakOf(s, n)
         /\ \E k \in 1 .. n : PeakOf(s, n) = s[k]
<1>1. s \in Seq(Int) /\ s[1] > 0
  BY DEF FallsHold
<1>2. PICK k \in 1 .. n : \A m \in 1 .. n : s[m] <= s[k]
  BY DEF FallsHold
<1>3. PeakOf(s, n) = s[k]
  BY <1>1, <1>2, PeakIs
<1>4. s[k] \in Int /\ 1 \in 1 .. n /\ s[1] \in Int
  BY <1>1
<1>5. s[k] > 0
  BY <1>1, <1>2, <1>4
<1>6. QED
  BY <1>2, <1>3, <1>4, <1>5

LEMMA FallsAreLowest ==
  ASSUME NEW s, NEW high, NEW fall, FallsHold(s, high, fall), NEW g \in FallsOf(s)
  PROVE  InLowestTerms(g)
<1>1. PICK n \in DOMAIN s : g = Lowest(<<PeakOf(s, n) - s[n], PeakOf(s, n)>>)
  BY DEF FallsOf
<1>2. PICK k : k = PeakOf(s, n)
  OBVIOUS
<1>3. s \in Seq(Int) /\ n \in 1 .. n
  BY DEF FallsHold
<1>4. k \in Nat \ {0} /\ s[n] <= k /\ s[n] \in Int
  BY <1>2, <1>3, PeakHolds
<1>5. k - s[n] \in Nat
  BY <1>4
<1>6. QED
  BY <1>1, <1>2, <1>4, <1>5, LowestIsLowest

LEMMA DeepestIs ==
  ASSUME NEW s, NEW high, NEW fall, FallsHold(s, high, fall)
  PROVE  DeepestFall(s) = fall
<1>1. fall \in FallsOf(s) /\ \A g \in FallsOf(s) : ~Above(g, fall)
  BY DEF FallsHold
<1>2. ASSUME NEW f \in FallsOf(s), \A g \in FallsOf(s) : ~Above(g, f) PROVE f = fall
  BY <1>1, <1>2, FallsAreLowest, SameRatio
<1>3. QED
  BY <1>1, <1>2 DEF DeepestFall

\* One equity more: the earlier peaks and falls stay.
LEMMA FallsGrow ==
  ASSUME NEW s, NEW high, NEW dd, FallsHold(s, high, dd), NEW after \in Int,
         NEW top, top = Max({high, after}), NEW fall, fall = Lowest(<<top - after, top>>)
  PROVE  /\ FallsHold(Append(s, after), top, IF Above(fall, dd) THEN fall ELSE dd)
         /\ top \in Nat \ {0}
         /\ InLowestTerms(fall) /\ InLowestTerms(dd)
<1> DEFINE l == Len(s)
           t == Append(s, after)
<1>1. /\ s \in Seq(Int) /\ s # <<>> /\ s[1] > 0 /\ high = PeakOf(s, l)
      /\ \A n \in DOMAIN s : \E k \in 1 .. n : \A m \in 1 .. n : s[m] <= s[k]
      /\ dd \in FallsOf(s) /\ \A g \in FallsOf(s) : ~Above(g, dd)
  BY DEF FallsHold
<1>2. l \in Nat \ {0} /\ DOMAIN s = 1 .. l /\ l \in DOMAIN s
  BY <1>1
<1>3. /\ t \in Seq(Int) /\ DOMAIN t = 1 .. l + 1 /\ Len(t) = l + 1 /\ t[l + 1] = after
      /\ \A n \in 1 .. l : t[n] = s[n]
  BY <1>1
<1>4. PICK p \in 1 .. l : high = s[p] /\ \A m \in 1 .. l : s[m] <= s[p]
  BY <1>1, <1>2, PeakHolds
<1>5. high \in Nat \ {0}
  BY <1>1, <1>2, PeakHolds
<1> HIDE DEF t, l
<1>6. top = IF high >= after THEN high ELSE after
  <2>1. \A x \in {high, after} : (\A y \in {high, after} : x >= y)
                                   => x = IF high >= after THEN high ELSE after
    BY <1>5
  <2>2. \E x \in {high, after} : \A y \in {high, after} : x >= y
    BY <1>5
  <2>3. QED
    BY <2>1, <2>2 DEF Max
<1>7. top \in Nat \ {0} /\ after <= top /\ high <= top
  BY <1>5, <1>6
<1>8. PICK k \in 1 .. l + 1 : t[k] = top /\ \A m \in 1 .. l + 1 : t[m] <= t[k]
  <2>1. \A n \in 1 .. l : s[n] \in Int
    BY <1>1, <1>2
  <2>2. CASE high >= after
    <3>1. t[p] = top /\ p \in 1 .. l + 1
      BY <1>2, <1>3, <1>4, <1>6, <2>2
    <3>2. ASSUME NEW m \in 1 .. l + 1 PROVE t[m] <= t[p]
      <4>1. CASE m = l + 1
        BY <1>3, <1>7, <3>1, <4>1
      <4>2. CASE m \in 1 .. l
        BY <1>3, <1>4, <4>2
      <4>3. QED
        BY <1>2, <4>1, <4>2
    <3>3. QED
      BY <3>1, <3>2
  <2>3. CASE ~(high >= after)
    <3>1. t[l + 1] = top /\ l + 1 \in 1 .. l + 1
      BY <1>2, <1>3, <1>6, <2>3
    <3>2. ASSUME NEW m \in 1 .. l + 1 PROVE t[m] <= t[l + 1]
      <4>1. CASE m = l + 1
        BY <1>3, <1>7, <3>1, <4>1
      <4>2. CASE m \in 1 .. l
        <5>1. t[m] = s[m] /\ s[m] <= high /\ s[m] \in Int
          BY <1>3, <1>4, <2>1, <4>2
        <5>2. QED
          BY <1>5, <1>7, <3>1, <5>1
      <4>3. QED
        BY <1>2, <4>1, <4>2
    <3>3. QED
      BY <3>1, <3>2
  <2>4. QED
    BY <2>2, <2>3
<1>9. PeakOf(t, l + 1) = top
  <2>1. l + 1 \in DOMAIN t
    BY <1>2, <1>3
  <2>2. QED
    BY <1>3, <1>8, <2>1, PeakIs
<1>10. ASSUME NEW n \in 1 .. l
       PROVE  PeakOf(t, n) = PeakOf(s, n) /\ \E j \in 1 .. n : \A m \in 1 .. n : t[m] <= t[j]
  <2>1. \A m \in 1 .. n : t[m] = s[m]
    BY <1>2, <1>3
  <2>2. {t[m] : m \in 1 .. n} = {s[m] : m \in 1 .. n}
    BY <2>1
  <2>3. PICK j \in 1 .. n : \A m \in 1 .. n : s[m] <= s[j]
    BY <1>1, <1>2
  <2>4. QED
    BY <2>1, <2>2, <2>3 DEF PeakOf
<1>11. FallsOf(t) = FallsOf(s) \cup {fall}
  <2>1. \A n \in 1 .. l : Lowest(<<PeakOf(t, n) - t[n], PeakOf(t, n)>>)
                            = Lowest(<<PeakOf(s, n) - s[n], PeakOf(s, n)>>)
    BY <1>3, <1>10
  <2>2. Lowest(<<PeakOf(t, l + 1) - t[l + 1], PeakOf(t, l + 1)>>) = fall
    BY <1>3, <1>9
  <2>3. DOMAIN t = (DOMAIN s) \cup {l + 1}
    BY <1>2, <1>3
  <2>4. QED
    BY <1>2, <2>1, <2>2, <2>3 DEF FallsOf
<1>12. InLowestTerms(fall)
  <2>1. top - after \in Nat
    BY <1>7
  <2>2. QED
    BY <1>7, <2>1, LowestIsLowest
<1>13. InLowestTerms(dd)
  BY <1>1, FallsAreLowest
<1>14. ASSUME NEW g \in FallsOf(t)
       PROVE  ~Above(g, IF Above(fall, dd) THEN fall ELSE dd)
  <2>1. CASE Above(fall, dd)
    <3>1. PICK a \in Nat, b \in Nat \ {0} : fall[1] = a /\ fall[2] = b
      BY <1>12 DEF InLowestTerms
    <3>2. PICK c \in Nat, d \in Nat \ {0} : dd[1] = c /\ dd[2] = d
      BY <1>13 DEF InLowestTerms
    <3>3. a * b \in Nat /\ a * d \in Nat /\ c * b \in Nat
      OBVIOUS
    <3>4. ~Above(fall, fall) /\ ~Above(dd, fall)
      BY <2>1, <3>1, <3>2, <3>3 DEF Above
    <3>5. CASE g \in FallsOf(s)
      <4>1. ~Above(g, dd) /\ InLowestTerms(g)
        BY <1>1, <3>5, FallsAreLowest
      <4>2. QED
        BY <1>12, <1>13, <2>1, <3>4, <4>1, NotAboveTransitive DEF InLowestTerms
    <3>6. QED
      BY <1>11, <2>1, <3>4, <3>5
  <2>2. CASE ~Above(fall, dd)
    BY <1>1, <1>11, <2>2
  <2>3. QED
    BY <2>1, <2>2
<1>15. FallsHold(t, top, IF Above(fall, dd) THEN fall ELSE dd)
  <2>1. t # <<>> /\ t[1] > 0
    BY <1>1, <1>2, <1>3
  <2>2. ASSUME NEW n \in DOMAIN t PROVE \E j \in 1 .. n : \A m \in 1 .. n : t[m] <= t[j]
    <3>1. CASE n \in 1 .. l
      BY <1>10, <3>1
    <3>2. CASE n = l + 1
      BY <1>8, <3>2
    <3>3. QED
      BY <1>2, <1>3, <3>1, <3>2
  <2>3. (IF Above(fall, dd) THEN fall ELSE dd) \in FallsOf(t)
    BY <1>1, <1>11
  <2>4. QED
    BY <1>3, <1>9, <1>14, <2>1, <2>2, <2>3 DEF FallsHold
<1>16. QED
  BY <1>7, <1>12, <1>13, <1>15 DEF t

----------------------------------------------------------------------------
\* What is bought and sold costs at least nothing.
LEMMA ShadowMoney ==
  ASSUME NEW q \in TapeQuotes, NEW side \in {-1, 1}
  PROVE  /\ WithSlippage(Opens(side, q), side) \in Nat
         /\ FeeOf(WithSlippage(Opens(side, q), side)) \in Nat
         /\ WithSlippage(Closes(side, q), -side) \in Nat
         /\ FeeOf(WithSlippage(Closes(side, q), -side)) \in Nat
         /\ Closes(side, q) * SlippageBase * FeeBase \in Nat
<1>1. PICK B, F : B = SlippageBase /\ F = FeeBase
  OBVIOUS
<1>2. PICK r, f : r = SlippageRate /\ f = FeeRate
  OBVIOUS
<1>3. B \in Nat \ {0} /\ F \in Nat \ {0} /\ r \in Nat /\ f \in Nat /\ r < B
  BY <1>1, <1>2, ShadowAssumption
<1>4. \A x \in Nat, z \in {-1, 1} : x * (B + z * r) * F \in Nat
  <2>1. \A z \in {-1, 1} : B + z * r \in Nat
    BY <1>3
  <2>2. \A x \in Nat, n \in Nat : x * n * F \in Nat
    BY <1>3
  <2>3. QED
    BY <2>1, <2>2
<1>5. \A x \in Nat, z \in {-1, 1} : WithSlippage(x, z) \in Nat
  BY <1>1, <1>2, <1>4 DEF WithSlippage
<1>6. ASSUME NEW x \in Nat PROVE FeeOf(x) \in Nat
  <2>1. x \div F \in Nat
    BY <1>3, DivNat
  <2>2. (x \div F) * f \in Nat
    BY <1>3, <2>1
  <2>3. QED
    BY <1>1, <1>2, <2>2 DEF FeeOf
<1>7. Opens(side, q) \in Nat /\ Closes(side, q) \in Nat
  BY ShadowAssumption DEF Opens, Closes
<1>8. -side \in {-1, 1}
  OBVIOUS
<1>9. \A x \in Nat : x * B * F \in Nat
  BY <1>3
<1>10. QED
  BY <1>1, <1>5, <1>6, <1>7, <1>8, <1>9

LEMMA EquityTyped ==
  ASSUME NEW e \in ShadowEnvs, NEW r \in TapeRows
  PROVE  EquityOf(e, r) \in Int
<1>1. e.position \in {-1, 0, 1} /\ e.entry \in Int /\ e.entryFee \in Nat /\ e.net \in Int
      /\ r.quote \in TapeQuotes /\ StartingCapital \in Int
  BY ShadowAssumption DEF ShadowEnvs, TapeRows
<1>2. CASE e.position = 0
  BY <1>1, <1>2 DEF EquityOf
<1>3. CASE e.position # 0
  <2>1. PICK w : w = Closes(e.position, r.quote) * SlippageBase * FeeBase /\ w \in Nat
    BY <1>1, <1>3, ShadowMoney
  <2>2. (w - e.entry) * e.position \in Int
    BY <1>1, <2>1
  <2>3. QED
    BY <1>1, <1>3, <2>1, <2>2 DEF EquityOf
<1>4. QED
  BY <1>2, <1>3

\* _enter(): either nothing happens, or a side is opened that the equity pays for.
LEMMA EntryPaid ==
  ASSUME NEW e \in ShadowEnvs, NEW action, NEW next \in TapeRows, NEW before \in Int,
         NEW n, n = AfterEntry(e, action, next, before)
  PROVE  \/ n = e
         \/ /\ action \in {"LONG", "SHORT"} /\ n \in ShadowEnvs
            /\ n.position \in {-1, 1} /\ n.entries = e.entries + 1 /\ n.net = e.net
            /\ n.peak = e.peak /\ n.drawdown = e.drawdown /\ n.invalid = e.invalid
            /\ n.entry + n.entryFee <= before
<1>1. CASE n = e
  BY <1>1
<1>2. CASE n # e
  <2>1. PICK side : side = SideOf(action) /\ side \in {-1, 1}
    BY DEF SideOf
  <2>2. PICK price : price = WithSlippage(Opens(side, next.quote), side)
    OBVIOUS
  <2>3. PICK fee : fee = FeeOf(price)
    OBVIOUS
  <2>4. price \in Nat /\ fee \in Nat
    BY <2>1, <2>2, <2>3, ShadowMoney DEF TapeRows
  <2>5. /\ action \in {"LONG", "SHORT"} /\ price + fee <= before
        /\ n = [e EXCEPT !.position = side, !.entry = price, !.entryFee = fee, !.entries = @ + 1]
    BY <1>2, <2>1, <2>2, <2>3 DEF AfterEntry
  <2>6. /\ n.position = side /\ n.entry = price /\ n.entryFee = fee /\ n.entries = e.entries + 1
        /\ n.net = e.net /\ n.peak = e.peak /\ n.drawdown = e.drawdown /\ n.invalid = e.invalid
    BY <2>5 DEF ShadowEnvs
  <2>7. n \in ShadowEnvs
    <3>1. side \in {-1, 0, 1} /\ price \in Int /\ e.entries + 1 \in Nat
      BY <2>1, <2>4 DEF ShadowEnvs
    <3>2. QED
      BY <2>4, <2>5, <3>1 DEF ShadowEnvs
  <2>8. QED
    BY <2>1, <2>4, <2>5, <2>6, <2>7
<1>3. QED
  BY <1>1, <1>2

\* _close(): what the position cost is taken out of what it brought.
LEMMA SettledBooks ==
  ASSUME NEW e \in ShadowEnvs, e.position # 0, NEW next \in TapeRows, NEW n, n = Settled(e, next)
  PROVE  LET price == WithSlippage(Closes(e.position, next.quote), -e.position)
         IN  /\ n \in ShadowEnvs /\ n.position = 0 /\ n.entries = e.entries
             /\ n.peak = e.peak /\ n.drawdown = e.drawdown /\ n.invalid = e.invalid
             /\ price * e.position - FeeOf(price) \in Int
             /\ n.net = e.net - Invested(e) + (price * e.position - FeeOf(price))
<1>1. e.position \in {-1, 1} /\ e.entry \in Int /\ e.entryFee \in Nat /\ e.net \in Int
  BY DEF ShadowEnvs
<1>2. PICK price : price = WithSlippage(Closes(e.position, next.quote), -e.position)
  OBVIOUS
<1>3. PICK fee : fee = FeeOf(price)
  OBVIOUS
<1>4. price \in Nat /\ fee \in Nat
  BY <1>1, <1>2, <1>3, ShadowMoney DEF TapeRows
<1>5. PICK net : net = e.net + (price - e.entry) * e.position - e.entryFee - fee
  OBVIOUS
<1>6. n = [e EXCEPT !.position = 0, !.net = net]
  BY <1>2, <1>3, <1>5 DEF Settled
<1>7. PICK x, y : x = price * e.position /\ y = e.entry * e.position
  OBVIOUS
<1>8. x \in Int /\ y \in Int /\ (price - e.entry) * e.position = x - y
  BY <1>1, <1>4, <1>7
<1>9. net = e.net - (y + e.entryFee) + (x - fee) /\ net \in Int
  BY <1>1, <1>4, <1>5, <1>8
<1>10. Invested(e) = y + e.entryFee
  BY <1>1, <1>7 DEF Invested
<1>11. n \in ShadowEnvs /\ n.position = 0 /\ n.entries = e.entries
       /\ n.peak = e.peak /\ n.drawdown = e.drawdown /\ n.invalid = e.invalid /\ n.net = net
  BY <1>6, <1>9 DEF ShadowEnvs
<1>12. QED
  BY <1>2, <1>3, <1>4, <1>7, <1>8, <1>9, <1>10, <1>11

\* The equity does not depend on the peak, the drawdown and the counts.
LEMMA EquitySame ==
  ASSUME NEW e, NEW n, NEW r, n.position = e.position, n.entry = e.entry,
         n.entryFee = e.entryFee, n.net = e.net
  PROVE  EquityOf(n, r) = EquityOf(e, r) /\ Invested(n) = Invested(e)
BY DEF EquityOf, Invested

LEMMA ShadowMoves ==
  ASSUME ShadowInv, NEW wanted \in ActionSet, NEW next \in TapeRows, ShadowStep(wanted, next)
  PROVE  ShadowInv'
<1>1. PICK action : action = (IF wanted \in ActionMask THEN wanted ELSE "NO_TRADE")
  OBVIOUS
<1>2. PICK before : before = EquityOf(env, row)
  OBVIOUS
<1>3. PICK entered : entered = AfterEntry(env, action, next, before)
  OBVIOUS
<1>4. PICK leaves \in BOOLEAN : leaves = (entered.position # 0 /\ (action = "EXIT" \/ index + 1 = Rows - 1))
  OBVIOUS
<1>5. PICK settled : settled = (IF leaves THEN Settled(entered, next) ELSE entered)
  OBVIOUS
<1>6. PICK after : after = EquityOf(settled, next)
  OBVIOUS
<1>7. PICK top : top = Max({env.peak, after})
  OBVIOUS
<1>8. PICK fall : fall = Lowest(<<top - after, top>>)
  OBVIOUS
<1>9. PICK dd : dd = (IF Above(fall, env.drawdown) THEN fall ELSE env.drawdown)
  OBVIOUS
<1>10. PICK price : price = WithSlippage(Closes(entered.position, next.quote), -entered.position)
  OBVIOUS
<1>11. PICK odd : odd = (IF wanted = action THEN 0 ELSE 1) /\ odd \in Nat
  OBVIOUS
<1>12. /\ ~Done /\ index' = index + 1 /\ row' = next
       /\ env' = [settled EXCEPT !.peak = top, !.drawdown = dd, !.invalid = @ + odd]
       /\ reward' = [gain |-> reward.gain + (after - before),
                     drawdown |-> Plus(reward.drawdown, Minus(dd, env.drawdown)),
                     entries |-> reward.entries + (entered.entries - env.entries)]
       /\ equities' = Append(equities, after)
       /\ till' = till - (IF entered.entries = env.entries THEN 0
                          ELSE entered.entry * entered.position + entered.entryFee)
                       + IF ~leaves THEN 0 ELSE price * entered.position - FeeOf(price)
  BY <1>1, <1>2, <1>3, <1>4, <1>5, <1>6, <1>7, <1>8, <1>9, <1>10, <1>11 DEF ShadowStep
<1>13. env \in ShadowEnvs /\ row \in TapeRows /\ index \in 0 .. Rows - 1 /\ equities \in Seq(Int)
       /\ Rows \in Nat /\ StartingCapital \in Nat \ {0}
  BY ShadowAssumption DEF ShadowInv
<1>14. index + 1 \in 0 .. Rows - 1 /\ (Done' <=> index + 1 = Rows - 1)
  BY <1>12, <1>13 DEF Done
<1>15. before \in Int
  BY <1>2, <1>13, EquityTyped
<1>16. /\ wanted \in ActionMask => action = wanted
       /\ action \in ActionMask /\ action \in ActionSet
  BY <1>1 DEF ActionMask, ActionSet
<1>17. action \in {"LONG", "SHORT"} => env.position = 0
  BY <1>16 DEF ActionMask
<1>18. /\ entered \in ShadowEnvs /\ entered.net = env.net /\ entered.peak = env.peak
       /\ entered.drawdown = env.drawdown /\ entered.invalid = env.invalid
       /\ entered.entries = env.entries \/ entered.entries = env.entries + 1
       /\ entered.entries = env.entries => entered = env
       /\ entered.entries # env.entries
            => env.position = 0 /\ entered.position # 0 /\ entered.entry + entered.entryFee <= before
  <2>1. env.entries \in Nat
    BY <1>13 DEF ShadowEnvs
  <2>2. CASE entered = env
    BY <1>13, <2>1, <2>2
  <2>3. CASE entered # env
    BY <1>3, <1>13, <1>15, <1>17, <2>1, <2>3, EntryPaid
  <2>4. QED
    BY <2>2, <2>3
<1>19. Invested(entered) \in Int /\ Invested(env) \in Int
  BY <1>13, <1>18 DEF Invested, ShadowEnvs
<1>20. PICK spent : spent = (IF entered.entries = env.entries THEN 0
                            ELSE entered.entry * entered.position + entered.entryFee)
  OBVIOUS
<1>21. spent \in Int /\ Invested(entered) = Invested(env) + spent
  <2>1. CASE entered.entries = env.entries
    BY <1>18, <1>19, <1>20, <2>1
  <2>2. CASE entered.entries # env.entries
    <3>1. Invested(env) = 0
      BY <1>18, <2>2 DEF Invested
    <3>2. Invested(entered) = spent
      BY <1>18, <1>20, <2>2 DEF Invested
    <3>3. QED
      BY <1>19, <3>1, <3>2
  <2>3. QED
    BY <2>1, <2>2
<1>22. PICK brought : brought = (IF ~leaves THEN 0 ELSE price * entered.position - FeeOf(price))
  OBVIOUS
<1>23. /\ settled \in ShadowEnvs /\ settled.entries = entered.entries
       /\ settled.peak = env.peak /\ settled.drawdown = env.drawdown
       /\ settled.invalid = env.invalid /\ brought \in Int
       /\ settled.net - Invested(settled) = entered.net - Invested(entered) + brought
       /\ leaves => settled.position = 0
       /\ ~leaves => settled = entered
  <2>1. CASE leaves
    <3>1. entered.position # 0
      BY <1>4, <2>1
    <3>2. settled = Settled(entered, next)
      BY <1>5, <2>1
    <3>3. /\ settled \in ShadowEnvs /\ settled.position = 0 /\ settled.entries = entered.entries
          /\ settled.peak = entered.peak /\ settled.drawdown = entered.drawdown
          /\ settled.invalid = entered.invalid /\ brought \in Int
          /\ settled.net = entered.net - Invested(entered) + brought
      BY <1>10, <1>18, <1>22, <2>1, <3>1, <3>2, SettledBooks
    <3>4. Invested(settled) = 0
      BY <3>3 DEF Invested
    <3>5. settled.net \in Int /\ entered.net \in Int
      BY <1>18, <3>3 DEF ShadowEnvs
    <3>6. QED
      BY <1>18, <1>19, <2>1, <3>3, <3>4, <3>5
  <2>2. CASE ~leaves
    <3>1. settled = entered /\ brought = 0
      BY <1>5, <1>22, <2>2
    <3>2. entered.net \in Int
      BY <1>18 DEF ShadowEnvs
    <3>3. QED
      BY <1>18, <1>19, <2>2, <3>1, <3>2
  <2>3. QED
    BY <2>1, <2>2
<1>24. after \in Int
  BY <1>6, <1>23, EquityTyped
<1> DEFINE seen == <<StartingCapital>> \o equities
<1>25. FallsHold(seen, env.peak, env.drawdown)
  BY DEF ShadowInv
<1>26. seen' = Append(seen, after)
  <2>1. PICK so, now, c : /\ so = equities /\ now = equities' /\ now = Append(so, after)
                          /\ c = StartingCapital /\ c \in Int /\ so \in Seq(Int)
    BY <1>12, <1>13
  <2>2. <<c>> \o now = Append(<<c>> \o so, after)
    BY SMTT(30), <1>24, <2>1
  <2> QED
    BY <2>1, <2>2
<1>27. /\ FallsHold(Append(seen, after), top, dd) /\ top \in Nat \ {0}
       /\ InLowestTerms(fall) /\ InLowestTerms(env.drawdown)
  <2> HIDE DEF seen
  <2> QED
    BY SMTT(30), <1>7, <1>8, <1>9, <1>24, <1>25, FallsGrow
<1>28. InLowestTerms(dd) /\ dd \in Nat \X (Nat \ {0})
  BY <1>9, <1>27 DEF InLowestTerms
<1>29. Plus(env.drawdown, Minus(dd, env.drawdown)) = dd
  <2>1. dd = env.drawdown \/ Above(dd, env.drawdown)
    BY <1>9
  <2>2. QED
    BY <1>27, <1>28, <2>1, PlusMinus
<1>30. /\ env' \in ShadowEnvs /\ env'.position = settled.position /\ env'.entry = settled.entry
       /\ env'.entryFee = settled.entryFee /\ env'.net = settled.net /\ env'.peak = top
       /\ env'.drawdown = dd /\ env'.entries = settled.entries
  <2>1. settled.invalid + odd \in Nat
    BY <1>11, <1>23 DEF ShadowEnvs
  <2>2. env' = [settled EXCEPT !.peak = top, !.drawdown = dd, !.invalid = settled.invalid + odd]
    BY <1>12
  <2>3. env' \in ShadowEnvs
    BY <1>23, <1>27, <1>28, <2>1, <2>2 DEF ShadowEnvs
  <2>4. /\ env'.position = settled.position /\ env'.entry = settled.entry
        /\ env'.entryFee = settled.entryFee /\ env'.net = settled.net /\ env'.peak = top
        /\ env'.drawdown = dd /\ env'.entries = settled.entries
    BY <1>23, <2>2 DEF ShadowEnvs
  <2>5. QED
    BY <2>3, <2>4
<1>31. EquityOf(env', row') = after /\ Invested(env') = Invested(settled)
  BY <1>6, <1>12, <1>30, EquitySame
<1>32. reward' = [gain |-> EquityOf(env', row') - StartingCapital, drawdown |-> env'.drawdown,
                 entries |-> env'.entries]
  <2>1. reward = [gain |-> before - StartingCapital, drawdown |-> env.drawdown,
                  entries |-> env.entries]
    BY <1>2 DEF ShadowInv
  <2>2. reward.gain + (after - before) = after - StartingCapital
    BY <1>13, <1>15, <1>24, <2>1
  <2>3. reward.entries + (entered.entries - env.entries) = entered.entries
    <3>1. entered.entries \in Nat /\ env.entries \in Nat
      BY <1>13, <1>18 DEF ShadowEnvs
    <3>2. QED
      BY <2>1, <3>1
  <2>4. Plus(reward.drawdown, Minus(dd, env.drawdown)) = dd
    BY <1>29, <2>1
  <2>5. QED
    BY <1>12, <1>23, <1>30, <1>31, <2>2, <2>3, <2>4
<1>33. till' = StartingCapital + env'.net - Invested(env')
  <2>1. till = StartingCapital + env.net - Invested(env)
    BY DEF ShadowInv
  <2>2. till' = till - spent + brought
    BY <1>12, <1>20, <1>22
  <2>3. env.net \in Int /\ settled.net \in Int
    BY <1>13, <1>23 DEF ShadowEnvs
  <2>4. Invested(settled) \in Int
    BY <1>23 DEF Invested, ShadowEnvs
  <2>5. settled.net - Invested(settled) = env.net - (Invested(env) + spent) + brought
    BY <1>18, <1>21, <1>23
  <2>6. spent \in Int /\ brought \in Int /\ Invested(env) \in Int /\ StartingCapital \in Int
    BY <1>13, <1>19, <1>21, <1>23
  <2>7. till' = StartingCapital + settled.net - Invested(settled)
    BY <2>1, <2>2, <2>3, <2>4, <2>5, <2>6
  <2>8. QED
    BY <1>30, <1>31, <2>7
<1>34. Done' => env'.position = 0
  BY <1>4, <1>14, <1>23, <1>30
<1>35. env'.position = 1 => env'.entry + env'.entryFee <= StartingCapital + env'.net
  <2>1. SUFFICES ASSUME env'.position = 1
                 PROVE  entered.entry + entered.entryFee <= StartingCapital + entered.net
    BY <1>23, <1>30
  <2>2. entered.position = 1
    <3>1. settled.position = 1
      BY <1>30, <2>1
    <3>2. ~leaves
      BY <1>23, <3>1
    <3>3. QED
      BY <1>23, <3>1, <3>2
  <2>3. CASE entered.entries = env.entries
    BY <1>18, <2>2, <2>3 DEF ShadowInv
  <2>4. CASE entered.entries # env.entries
    <3>1. before = StartingCapital + env.net
      <4>1. env.position = 0 /\ env.net \in Int
        BY <1>13, <1>18, <2>4 DEF ShadowEnvs
      <4>2. QED
        BY <1>2, <1>13, <4>1 DEF EquityOf
    <3>2. QED
      BY <1>18, <2>4, <3>1
  <2>5. QED
    BY <2>3, <2>4
<1>36. equities' \in Seq(Int)
  BY <1>12, <1>13, <1>24
<1>37. FallsHold((<<StartingCapital>> \o equities)', env'.peak, env'.drawdown)
  BY <1>26, <1>27, <1>30
<1>38. QED
  BY <1>12, <1>14, <1>30, <1>32, <1>33, <1>34, <1>35, <1>36, <1>37 DEF ShadowInv

LEMMA ShadowOpens == ShadowInit => ShadowInv
<1>1. SUFFICES ASSUME ShadowInit PROVE ShadowInv
  OBVIOUS
<1>2. Rows \in Nat /\ Rows >= 2 /\ StartingCapital \in Nat \ {0}
  BY ShadowAssumption
<1>3. env = [position |-> 0, entry |-> 0, entryFee |-> 0, net |-> 0, peak |-> StartingCapital,
             drawdown |-> <<0, 1>>, entries |-> 0, invalid |-> 0]
  BY <1>1 DEF ShadowInit
<1>4. env \in ShadowEnvs
  BY <1>2, <1>3 DEF ShadowEnvs
<1>5. EquityOf(env, row) = StartingCapital /\ Invested(env) = 0
  BY <1>2, <1>3 DEF EquityOf, Invested
<1>6. FallsHold(<<StartingCapital>> \o equities, StartingCapital, <<0, 1>>)
  <2> DEFINE s == <<StartingCapital>>
  <2>1. <<StartingCapital>> \o equities = s
    BY <1>1, <1>2 DEF ShadowInit
  <2>2. s \in Seq(Int) /\ s # <<>> /\ s[1] = StartingCapital /\ Len(s) = 1 /\ DOMAIN s = {1}
    BY <1>2
  <2> HIDE DEF s
  <2>3. PeakOf(s, 1) = StartingCapital
    BY <1>2, <2>2, PeakIs
  <2>4. FallsOf(s) = {<<0, 1>>}
    <3>1. Lowest(<<StartingCapital - StartingCapital, StartingCapital>>) = <<0, 1>>
      BY <1>2 DEF Lowest
    <3>2. QED
      BY <2>2, <2>3, <3>1 DEF FallsOf
  <2>5. ~Above(<<0, 1>>, <<0, 1>>)
    BY DEF Above
  <2>6. \A n \in DOMAIN s : \E k \in 1 .. n : \A m \in 1 .. n : s[m] <= s[k]
    BY <1>2, <2>2
  <2>7. s[1] > 0 /\ <<0, 1>> \in FallsOf(s) /\ \A g \in FallsOf(s) : ~Above(g, <<0, 1>>)
    BY <1>2, <2>2, <2>4, <2>5
  <2>8. QED
    BY <2>1, <2>2, <2>3, <2>6, <2>7 DEF FallsHold
<1>7. ~Done
  BY <1>1, <1>2 DEF ShadowInit, Done
<1>8. env.peak = StartingCapital /\ env.drawdown = <<0, 1>> /\ env.position = 0 /\ env.entries = 0
      /\ env.net = 0
  BY <1>3
<1>9. /\ index = 0 /\ row \in TapeRows /\ equities = <<>> /\ till = StartingCapital
      /\ reward = [gain |-> 0, drawdown |-> <<0, 1>>, entries |-> 0]
  BY <1>1 DEF ShadowInit
<1>10. QED
  BY <1>2, <1>4, <1>5, <1>6, <1>7, <1>8, <1>9 DEF ShadowInv

LEMMA ShadowExplains == ShadowInv => RewardExplained
<1>1. SUFFICES ASSUME ShadowInv PROVE RewardExplained
  OBVIOUS
<1>2. env \in ShadowEnvs /\ row \in TapeRows /\ StartingCapital \in Nat
  BY <1>1, ShadowAssumption DEF ShadowInv
<1>3. env.net \in Int /\ env.entry \in Int /\ env.entryFee \in Nat
  BY <1>2 DEF ShadowEnvs
<1>4. env.drawdown = DeepestFall(<<StartingCapital>> \o equities)
  BY <1>1, DeepestIs DEF ShadowInv
<1>5. env.position = 0 => till = StartingCapital + env.net
  BY <1>1, <1>2, <1>3 DEF ShadowInv, Invested
<1>6. Done => env.position = 0 /\ EquityOf(env, row) = StartingCapital + env.net
  BY <1>1, <1>2, <1>3 DEF ShadowInv, EquityOf
<1>7. env.position = 1 => EquityOf(env, row) >= 0
  <2>1. SUFFICES ASSUME env.position = 1 PROVE EquityOf(env, row) >= 0
    OBVIOUS
  <2>2. PICK w : w = Closes(env.position, row.quote) * SlippageBase * FeeBase /\ w \in Nat
    BY <1>2, <2>1, ShadowMoney DEF TapeRows
  <2>3. EquityOf(env, row) = StartingCapital + env.net + ((w - env.entry) * 1 - env.entryFee)
    BY <2>1, <2>2 DEF EquityOf
  <2>4. env.entry + env.entryFee <= StartingCapital + env.net
    BY <1>1, <2>1 DEF ShadowInv
  <2>5. QED
    BY <1>2, <1>3, <2>2, <2>3, <2>4
<1>8. reward = [gain |-> EquityOf(env, row) - StartingCapital, drawdown |-> env.drawdown,
                entries |-> env.entries]
  BY <1>1 DEF ShadowInv
<1>9. QED
  BY <1>4, <1>5, <1>6, <1>7, <1>8 DEF RewardExplained

\* For any tape of quotes, costs and policy, whatever it asks for, the reward is that of the
\* report: its gain the equity's, its penalty the deepest fall's, and an episode ends flat
\* with the money that was paid and received (step(), report()).
THEOREM RewardIsExplained == ShadowSpec => []RewardExplained
<1>1. ShadowInv /\ [ShadowNext]_shadowVars => ShadowInv'
  <2>1. SUFFICES ASSUME ShadowInv, [ShadowNext]_shadowVars PROVE ShadowInv'
    OBVIOUS
  <2>2. CASE ShadowNext
    BY <2>1, <2>2, ShadowMoves DEF ShadowNext
  <2>3. CASE UNCHANGED shadowVars
    BY <2>1, <2>3 DEF ShadowInv, shadowVars, Done
  <2>4. QED
    BY <2>1, <2>2, <2>3
<1>2. QED
  BY <1>1, ShadowOpens, ShadowExplains, PTL DEF ShadowSpec

----------------------------------------------------------------------------
(* The study of policies: books of one stream in several scenarios.        *)

StudyTrades == [at : Nat, until : Nat, proceeds : Int, pnl : Int]
StudyBooks ==
  [cash : Int, realized : Int, lastExit : Int, trades : Seq(StudyTrades), vetoes : Nat,
   exclusions : Nat, holds : Nat]

\* What a book is at any time of the stream, by its scenario.
BookFair(scenario, b, at, count) ==
  /\ b \in StudyBooks
  /\ Len(b.trades) + b.holds + b.vetoes + b.exclusions = count
  /\ b.cash = StudyCapital + NetOf(b.trades) /\ b.realized = NetOf(b.trades)
  /\ b.cash >= IF b.trades = <<>> THEN 0 ELSE b.trades[Len(b.trades)].proceeds
  /\ b.lastExit = IF b.trades = <<>> THEN Never ELSE b.trades[Len(b.trades)].until
  /\ \A i \in 2 .. Len(b.trades) :
       b.trades[i].at >= b.trades[i - 1].until + scenario.cooldown
  /\ \A day \in Nat : Cardinality(TradesOn(b, day)) <= scenario.cap

Extended(b, c) ==
  \A i \in TradesOn(b, 0) : i \in DOMAIN c.trades /\ c.trades[i] = b.trades[i]

\* On its first day a tight book is the loose one, until it is at its cap.
Aligned(b, c, cap, at) ==
  /\ Extended(b, c)
  /\ StudyDayOf(at) = 0 => b = c \/ Cardinality(TradesOn(b, 0)) >= cap

Looser(s, t) ==
  /\ Scenarios[t].cooldown = Scenarios[s].cooldown
  /\ Scenarios[t].window = Scenarios[s].window
  /\ Scenarios[t].cap >= Scenarios[s].cap

StudyInv ==
  /\ studied.at \in Nat /\ studied.count \in Nat /\ studied.unbought \in Nat
  /\ studied = [at |-> studied.at, count |-> studied.count, unbought |-> studied.unbought]
  /\ DOMAIN books = DOMAIN Scenarios
  /\ \A s \in DOMAIN Scenarios :
       /\ DOMAIN books[s] = Policies
       /\ books[s]["hold"].trades = <<>>
       /\ studied.unbought = 0 => books[s]["ai"] = books[s]["deterministic"]
       /\ \A p0 \in Policies :
            /\ BookFair(Scenarios[s], books[s][p0], studied.at, studied.count)
            /\ \A t \in DOMAIN Scenarios :
                 Looser(s, t) => Aligned(books[s][p0], books[t][p0], Scenarios[s].cap, studied.at)

----------------------------------------------------------------------------
LEMMA NetIsTotal ==
  ASSUME NEW trades, NEW S, NEW f, \A i \in S : f[i] = trades[i].pnl
  PROVE  MapThenSumSet(LAMBDA i : trades[i].pnl, S) = Total(f, S)
<1> DEFINE ByTrade(g) == g = [s \in SUBSET S |-> IF s = {} THEN 0
                                ELSE trades[Pick(s)].pnl + g[s \ {Pick(s)}]]
<1>1. ASSUME NEW s \in SUBSET S, s # {} PROVE trades[Pick(s)].pnl = f[Pick(s)]
  BY <1>1, Picked
<1>2. ASSUME NEW g PROVE ByTrade(g) <=> IsSum(g, f, S)
  <2>1. [s \in SUBSET S |-> IF s = {} THEN 0 ELSE trades[Pick(s)].pnl + g[s \ {Pick(s)}]]
          = [s \in SUBSET S |-> IF s = {} THEN 0 ELSE f[Pick(s)] + g[s \ {Pick(s)}]]
    BY <1>1
  <2> QED
    BY <2>1 DEF IsSum
<1>3. (CHOOSE g : ByTrade(g)) = (CHOOSE g : IsSum(g, f, S))
  <2> HIDE DEF ByTrade
  <2> QED
    BY <1>2
<1>4. Total(f, S) = (CHOOSE g : IsSum(g, f, S))[S]
  BY DEF Total, MapThenSumSet, MapThenFoldSet, IsSum, Pick
<1>5. MapThenSumSet(LAMBDA i : trades[i].pnl, S) = (CHOOSE g : ByTrade(g))[S]
  BY DEF MapThenSumSet, MapThenFoldSet, Pick
<1> QED
  BY <1>3, <1>4, <1>5

LEMMA NetOfIs ==
  ASSUME NEW trades, NEW f, \A i \in DOMAIN trades : f[i] = trades[i].pnl
  PROVE  NetOf(trades) = Total(f, DOMAIN trades)
<1>1. PICK S : S = DOMAIN trades
  OBVIOUS
<1>2. MapThenSumSet(LAMBDA i : trades[i].pnl, S) = Total(f, S)
  BY <1>1, NetIsTotal
<1>3. QED
  BY <1>1, <1>2 DEF NetOf

LEMMA IntervalGrows ==
  ASSUME NEW l \in Nat
  PROVE  IsFiniteSet(1 .. l) /\ 1 .. l + 1 = (1 .. l) \cup {l + 1} /\ l + 1 \notin 1 .. l
<1>1. IsFiniteSet(1 .. l)
  BY FS_Interval
<1>2. 1 .. l + 1 = (1 .. l) \cup {l + 1} /\ l + 1 \notin 1 .. l
  OBVIOUS
<1>3. QED
  BY <1>1, <1>2

LEMMA NetGrows ==
  ASSUME NEW trades \in Seq(StudyTrades), NEW trade \in StudyTrades
  PROVE  NetOf(trades) \in Int /\ NetOf(Append(trades, trade)) = NetOf(trades) + trade.pnl
<1> DEFINE l == Len(trades)
           more == Append(trades, trade)
           f == [i \in 1 .. l + 1 |-> more[i].pnl]
<1>1. /\ l \in Nat /\ DOMAIN trades = 1 .. l /\ DOMAIN more = 1 .. l + 1
      /\ more[l + 1] = trade /\ \A i \in 1 .. l : more[i] = trades[i] /\ trades[i] \in StudyTrades
  OBVIOUS
<1> HIDE DEF more, l
<1>2. IsFiniteSet(1 .. l) /\ 1 .. l + 1 = (1 .. l) \cup {l + 1} /\ l + 1 \notin 1 .. l
  BY <1>1, IntervalGrows
<1>3. \A i \in 1 .. l + 1 : f[i] \in Int /\ f[i] = more[i].pnl
  BY <1>1, <1>2 DEF StudyTrades
<1>4. \A i \in 1 .. l : f[i] = trades[i].pnl
  BY <1>1, <1>2
<1>5. f[l + 1] = trade.pnl
  BY <1>1
<1> HIDE DEF f
<1>6. NetOf(trades) = Total(f, 1 .. l)
  <2>1. \A i \in DOMAIN trades : f[i] = trades[i].pnl
    BY <1>1, <1>4
  <2> QED
    BY <1>1, <2>1, NetOfIs
<1>7. NetOf(more) = Total(f, 1 .. l + 1)
  <2>1. \A i \in DOMAIN more : f[i] = more[i].pnl
    BY <1>1, <1>3
  <2> QED
    BY <1>1, <2>1, NetOfIs
<1>8. Total(f, (1 .. l) \cup {l + 1}) = f[l + 1] + Total(f, 1 .. l)
  BY <1>2, <1>3, TotalWith
<1>9. Total(f, 1 .. l) \in Int
  BY <1>2, <1>3, TotalInteger
<1>10. trade.pnl \in Int
  BY DEF StudyTrades
<1>11. Total(f, 1 .. l + 1) = trade.pnl + Total(f, 1 .. l)
  BY <1>2, <1>5, <1>8
<1>12. NetOf(more) = NetOf(trades) + trade.pnl
  BY <1>6, <1>7, <1>9, <1>10, <1>11
<1>13. QED
  BY <1>6, <1>9, <1>12 DEF more

\* A trade more is one of its day's, and no other's.
LEMMA DayGrows ==
  ASSUME NEW b \in StudyBooks, NEW c \in StudyBooks, NEW trade \in StudyTrades,
         c.trades = Append(b.trades, trade), NEW day
  PROVE  /\ TradesOn(c, day) = TradesOn(b, day) \cup (IF StudyDayOf(trade.at) = day
                                                       THEN {Len(b.trades) + 1} ELSE {})
         /\ IsFiniteSet(TradesOn(b, day)) /\ Cardinality(TradesOn(b, day)) \in Nat
         /\ Len(b.trades) + 1 \notin TradesOn(b, day)
         /\ StudyDayOf(trade.at) = day
              => Cardinality(TradesOn(c, day)) = Cardinality(TradesOn(b, day)) + 1
<1>1. PICK l : l = Len(b.trades)
  OBVIOUS
<1>2. /\ l \in Nat /\ DOMAIN b.trades = 1 .. l /\ DOMAIN c.trades = 1 .. l + 1
      /\ c.trades[l + 1] = trade /\ \A i \in 1 .. l : c.trades[i] = b.trades[i]
  BY <1>1 DEF StudyBooks
<1>3. 1 .. l + 1 = (1 .. l) \cup {l + 1} /\ l + 1 \notin 1 .. l /\ IsFiniteSet(1 .. l)
  BY <1>2, IntervalGrows
<1>4. TradesOn(b, day) \subseteq 1 .. l
  BY <1>2 DEF TradesOn
<1>5. IsFiniteSet(TradesOn(b, day)) /\ Cardinality(TradesOn(b, day)) \in Nat
  BY <1>3, <1>4, FS_Subset, FS_CardinalityType
<1>6. TradesOn(c, day) = TradesOn(b, day) \cup (IF StudyDayOf(trade.at) = day THEN {l + 1} ELSE {})
  BY <1>2, <1>3 DEF TradesOn
<1>7. l + 1 \notin TradesOn(b, day)
  BY <1>3, <1>4
<1>8. QED
  BY <1>1, <1>5, <1>6, <1>7, FS_AddElement

LEMMA FoundTyped ==
  ASSUME NEW path \in Paths, NEW money \in Nat
  PROVE  LET found == FoundBy(path, money)
         IN  found.cost \in Nat /\ found.closes \in Nat /\ found.proceeds \in Int
<1> DEFINE S == {t \in DOMAIN path : t <= money}
<1>1. 0 \in S /\ S \subseteq Nat /\ \A t \in S : t <= money
  BY BaselineAssumption
<1>2. S \subseteq DOMAIN path
  OBVIOUS
<1> DEFINE D == {money - t : t \in S}
<1> HIDE DEF S
<1>3. D \subseteq Nat /\ D # {}
  BY <1>1
<1>4. PICK n \in D : \A m \in D : <<m, n>> \notin OpToRel(<, Nat)
  <2> HIDE DEF D
  <2> QED
    BY <1>3, NatLessThanWellFounded, WFMin
<1>5. PICK k \in S : n = money - k
  BY <1>4
<1>6. ASSUME NEW t \in S PROVE k >= t
  <2>1. money - t \in D /\ money - t \in Nat /\ n \in Nat
    BY <1>3, <1>4
  <2>2. ~(money - t < n)
    BY <1>4, <2>1 DEF OpToRel
  <2>3. QED
    BY <1>1, <1>5, <2>1, <2>2
<1>7. Max(S) \in S
  BY <1>6 DEF Max
<1>8. Max(S) \in DOMAIN path
  BY <1>2, <1>7
<1>9. QED
  BY <1>8, BaselineAssumption DEF FoundBy, S

\* What becomes of a book: its counts, or one trade more.
ResultOf(scenario, policy, b, item, now, path, c) ==
  \/ c = [b EXCEPT !.exclusions = @ + 1]
  \/ c = [b EXCEPT !.holds = @ + 1]
  \/ c = [b EXCEPT !.vetoes = @ + 1]
  \/ /\ policy # "hold" /\ ~Vetoed(scenario, b, item, now) /\ b.cash \in Nat
     /\ FoundBy(path, b.cash).cost <= b.cash
     /\ c = Traded(b, now, FoundBy(path, b.cash))

LEMMA ConsideredIs ==
  ASSUME NEW scenario, NEW policy, NEW b \in StudyBooks, NEW item, NEW now,
         NEW path \in Paths, NEW c, c = Considered(scenario, policy, b, item, now, path)
  PROVE  ResultOf(scenario, policy, b, item, now, path, c)
<1>1. b.cash \in Int
  BY DEF StudyBooks
<1>2. ~Missing(b, path) => b.cash \in Nat /\ FoundBy(path, b.cash).cost <= b.cash
  <2>1. SUFFICES ASSUME ~Missing(b, path)
                 PROVE  b.cash \in Nat /\ FoundBy(path, b.cash).cost <= b.cash
    OBVIOUS
  <2>2. b.cash \in Nat /\ ~(FoundBy(path, b.cash).cost > b.cash)
    BY <1>1, <2>1 DEF Missing
  <2>3. FoundBy(path, b.cash).cost \in Nat
    BY <2>2, FoundTyped
  <2>4. QED
    BY <2>2, <2>3
<1>3. QED
  BY <1>2 DEF Considered, ResultOf

LEMMA TradedIs ==
  ASSUME NEW b \in StudyBooks, NEW now \in Nat, NEW path \in Paths, b.cash \in Nat,
         NEW c, c = Traded(b, now, FoundBy(path, b.cash))
  PROVE  \E trade \in StudyTrades :
           /\ trade.at = now /\ c.trades = Append(b.trades, trade)
           /\ c \in StudyBooks /\ c.lastExit = trade.until
           /\ c.cash = b.cash + trade.pnl /\ c.realized = b.realized + trade.pnl
           /\ trade.pnl = trade.proceeds - FoundBy(path, b.cash).cost
           /\ c.holds = b.holds /\ c.vetoes = b.vetoes /\ c.exclusions = b.exclusions
<1>1. PICK found : found = FoundBy(path, b.cash)
  OBVIOUS
<1>2. found.cost \in Nat /\ found.closes \in Nat /\ found.proceeds \in Int
  BY <1>1, FoundTyped
<1>3. PICK end : end = now + found.closes /\ end \in Nat
  BY <1>2
<1>4. PICK net : net = found.proceeds - found.cost /\ net \in Int
  BY <1>2
<1>5. PICK trade : trade = [at |-> now, until |-> end, proceeds |-> found.proceeds, pnl |-> net]
  OBVIOUS
<1>6. trade \in StudyTrades
  BY <1>2, <1>3, <1>4, <1>5 DEF StudyTrades
<1>7. c = [b EXCEPT !.cash = b.cash - found.cost + found.proceeds, !.realized = b.realized + net,
                    !.lastExit = end, !.trades = Append(b.trades, trade)]
  BY <1>1, <1>3, <1>4, <1>5 DEF Traded, TradedUntil
<1>8. /\ b.cash \in Int /\ b.realized \in Int /\ b.trades \in Seq(StudyTrades)
  BY DEF StudyBooks
<1>9. b.cash - found.cost + found.proceeds = b.cash + net /\ b.cash + net \in Int
      /\ b.realized + net \in Int /\ end \in Int /\ Append(b.trades, trade) \in Seq(StudyTrades)
  BY SMTT(30), <1>2, <1>3, <1>4, <1>6, <1>8
<1>10. c \in StudyBooks
  BY <1>7, <1>9 DEF StudyBooks
<1>11. /\ c.cash = b.cash + net /\ c.realized = b.realized + net /\ c.lastExit = end
       /\ c.trades = Append(b.trades, trade) /\ c.holds = b.holds /\ c.vetoes = b.vetoes
       /\ c.exclusions = b.exclusions
  BY <1>7, <1>9 DEF StudyBooks
<1>12. trade.at = now /\ trade.until = end /\ trade.pnl = net /\ trade.proceeds = found.proceeds
  BY <1>5
<1>13. QED
  BY <1>1, <1>4, <1>6, <1>10, <1>11, <1>12

LEMMA CountedBooks ==
  ASSUME NEW b \in StudyBooks, NEW c,
         \/ c = [b EXCEPT !.exclusions = @ + 1]
         \/ c = [b EXCEPT !.holds = @ + 1]
         \/ c = [b EXCEPT !.vetoes = @ + 1]
  PROVE  /\ c \in StudyBooks /\ c.cash = b.cash /\ c.realized = b.realized
         /\ c.lastExit = b.lastExit /\ c.trades = b.trades
         /\ c.holds + c.vetoes + c.exclusions = b.holds + b.vetoes + b.exclusions + 1
         /\ \A day : TradesOn(c, day) = TradesOn(b, day)
<1>1. b.holds \in Nat /\ b.vetoes \in Nat /\ b.exclusions \in Nat
  BY DEF StudyBooks
<1>2. b.holds + 1 \in Nat /\ b.vetoes + 1 \in Nat /\ b.exclusions + 1 \in Nat
  BY <1>1
<1>3. CASE c = [b EXCEPT !.exclusions = @ + 1]
  <2>1. c = [b EXCEPT !.exclusions = b.exclusions + 1]
    BY <1>3
  <2>2. c \in StudyBooks
    BY <1>2, <2>1 DEF StudyBooks
  <2>3. /\ c.cash = b.cash /\ c.realized = b.realized /\ c.lastExit = b.lastExit
        /\ c.trades = b.trades /\ c.exclusions = b.exclusions + 1
        /\ c.holds = b.holds /\ c.vetoes = b.vetoes
    BY <2>1 DEF StudyBooks
  <2>4. \A day : TradesOn(c, day) = TradesOn(b, day)
    BY <2>3 DEF TradesOn
  <2>5. c.holds + c.vetoes + c.exclusions = b.holds + b.vetoes + b.exclusions + 1
    BY <1>1, <2>3
  <2>6. QED
    BY <2>2, <2>3, <2>4, <2>5
<1>4. CASE c = [b EXCEPT !.holds = @ + 1]
  <2>1. c = [b EXCEPT !.holds = b.holds + 1]
    BY <1>4
  <2>2. c \in StudyBooks
    BY <1>2, <2>1 DEF StudyBooks
  <2>3. /\ c.cash = b.cash /\ c.realized = b.realized /\ c.lastExit = b.lastExit
        /\ c.trades = b.trades /\ c.holds = b.holds + 1
        /\ c.vetoes = b.vetoes /\ c.exclusions = b.exclusions
    BY <2>1 DEF StudyBooks
  <2>4. \A day : TradesOn(c, day) = TradesOn(b, day)
    BY <2>3 DEF TradesOn
  <2>5. c.holds + c.vetoes + c.exclusions = b.holds + b.vetoes + b.exclusions + 1
    BY <1>1, <2>3
  <2>6. QED
    BY <2>2, <2>3, <2>4, <2>5
<1>5. CASE c = [b EXCEPT !.vetoes = @ + 1]
  <2>1. c = [b EXCEPT !.vetoes = b.vetoes + 1]
    BY <1>5
  <2>2. c \in StudyBooks
    BY <1>2, <2>1 DEF StudyBooks
  <2>3. /\ c.cash = b.cash /\ c.realized = b.realized /\ c.lastExit = b.lastExit
        /\ c.trades = b.trades /\ c.vetoes = b.vetoes + 1
        /\ c.holds = b.holds /\ c.exclusions = b.exclusions
    BY <2>1 DEF StudyBooks
  <2>4. \A day : TradesOn(c, day) = TradesOn(b, day)
    BY <2>3 DEF TradesOn
  <2>5. c.holds + c.vetoes + c.exclusions = b.holds + b.vetoes + b.exclusions + 1
    BY <1>1, <2>3
  <2>6. QED
    BY <2>2, <2>3, <2>4, <2>5
<1>6. QED
  BY <1>3, <1>4, <1>5

LEMMA StaysFair ==
  ASSUME NEW s \in DOMAIN Scenarios, NEW policy, NEW b, NEW at \in Nat, NEW count \in Nat,
         BookFair(Scenarios[s], b, at, count), NEW item \in Items, NEW now \in Nat, at <= now,
         NEW path \in Paths, NEW c, c = Considered(Scenarios[s], policy, b, item, now, path)
  PROVE  BookFair(Scenarios[s], c, now, count + 1)
<1>1. PICK cap, cooldown : cap = Scenarios[s].cap /\ cooldown = Scenarios[s].cooldown
  OBVIOUS
<1>2. cap \in Nat /\ cooldown \in Nat /\ StudyCapital \in Nat /\ StudyDay \in Nat \ {0}
  BY <1>1, BaselineAssumption
<1>3. /\ b \in StudyBooks /\ Len(b.trades) + b.holds + b.vetoes + b.exclusions = count
      /\ b.cash = StudyCapital + NetOf(b.trades) /\ b.realized = NetOf(b.trades)
      /\ b.cash >= IF b.trades = <<>> THEN 0 ELSE b.trades[Len(b.trades)].proceeds
      /\ b.lastExit = IF b.trades = <<>> THEN Never ELSE b.trades[Len(b.trades)].until
      /\ \A i \in 2 .. Len(b.trades) : b.trades[i].at >= b.trades[i - 1].until + cooldown
      /\ \A day \in Nat : Cardinality(TradesOn(b, day)) <= cap
  BY <1>1 DEF BookFair
<1>4. /\ b.holds \in Nat /\ b.vetoes \in Nat /\ b.exclusions \in Nat /\ Len(b.trades) \in Nat
      /\ b.trades \in Seq(StudyTrades) /\ b.cash \in Int
  BY <1>3 DEF StudyBooks
<1>5. CASE \/ c = [b EXCEPT !.exclusions = @ + 1] \/ c = [b EXCEPT !.holds = @ + 1]
           \/ c = [b EXCEPT !.vetoes = @ + 1]
  <2>1. /\ c \in StudyBooks /\ c.cash = b.cash /\ c.realized = b.realized
        /\ c.lastExit = b.lastExit /\ c.trades = b.trades
        /\ c.holds + c.vetoes + c.exclusions = b.holds + b.vetoes + b.exclusions + 1
        /\ \A day : TradesOn(c, day) = TradesOn(b, day)
    BY <1>3, <1>5, CountedBooks
  <2>2. Len(c.trades) + c.holds + c.vetoes + c.exclusions = count + 1
    <3>1. c.holds \in Nat /\ c.vetoes \in Nat /\ c.exclusions \in Nat
      BY <2>1 DEF StudyBooks
    <3>2. PICK l, m : l = Len(b.trades) /\ m = b.holds + b.vetoes + b.exclusions
      OBVIOUS
    <3>3. l \in Nat /\ m \in Nat /\ l + m = count
      <4>1. l \in Nat /\ l + b.holds + b.vetoes + b.exclusions = count
        BY <1>3, <1>4, <3>2
      <4>2. PICK h, v, e : h = b.holds /\ v = b.vetoes /\ e = b.exclusions
        OBVIOUS
      <4>3. h \in Nat /\ v \in Nat /\ e \in Nat /\ m = h + v + e /\ l + h + v + e = count
        BY <1>4, <3>2, <4>1, <4>2
      <4>4. QED
        BY <4>1, <4>3
    <3>4. c.holds + c.vetoes + c.exclusions = m + 1 /\ Len(c.trades) = l
      BY <2>1, <3>2
    <3>5. QED
      BY <3>1, <3>3, <3>4
  <2>3. QED
    BY <1>1, <1>3, <2>1, <2>2 DEF BookFair
<1>6. CASE /\ ~Vetoed(Scenarios[s], b, item, now) /\ b.cash \in Nat
           /\ FoundBy(path, b.cash).cost <= b.cash
           /\ c = Traded(b, now, FoundBy(path, b.cash))
  <2>1. PICK trade \in StudyTrades :
           /\ trade.at = now /\ c.trades = Append(b.trades, trade)
           /\ c \in StudyBooks /\ c.lastExit = trade.until
           /\ c.cash = b.cash + trade.pnl /\ c.realized = b.realized + trade.pnl
           /\ trade.pnl = trade.proceeds - FoundBy(path, b.cash).cost
           /\ c.holds = b.holds /\ c.vetoes = b.vetoes /\ c.exclusions = b.exclusions
    BY <1>3, <1>6, TradedIs
  <2>2. trade.pnl \in Int /\ trade.proceeds \in Int /\ trade.until \in Nat
    BY DEF StudyTrades
  <2>3. PICK l : l = Len(b.trades) /\ l \in Nat
    BY <1>4
  <2>4. /\ c.trades # <<>> /\ Len(c.trades) = l + 1 /\ c.trades[l + 1] = trade
        /\ \A i \in 1 .. l : c.trades[i] = b.trades[i]
    BY <1>4, <2>1, <2>3
  <2>5. Len(c.trades) + c.holds + c.vetoes + c.exclusions = count + 1
    <3>1. l + b.holds + b.vetoes + b.exclusions = count
      BY <1>3, <2>3
    <3>2. l + 1 + b.holds + b.vetoes + b.exclusions = count + 1
      BY SMTT(30), <1>4, <2>3, <3>1
    <3>3. QED
      BY <2>1, <2>4, <3>2
  <2>6. NetOf(b.trades) \in Int /\ NetOf(c.trades) = NetOf(b.trades) + trade.pnl
    BY <1>4, <2>1, NetGrows
  <2>7. c.cash = StudyCapital + NetOf(c.trades) /\ c.realized = NetOf(c.trades)
    BY <1>2, <1>3, <2>1, <2>2, <2>6
  <2>8. c.cash >= trade.proceeds
    <3>1. FoundBy(path, b.cash).cost \in Nat
      BY <1>6, FoundTyped
    <3>2. QED
      BY <1>6, <2>1, <2>2, <3>1
  <2>9. /\ ~(now < b.lastExit) /\ ~(Cardinality(TradesOn(b, StudyDayOf(now))) >= cap)
        /\ b.lastExit = Never \/ ~(now - b.lastExit < cooldown)
    BY <1>1, <1>6 DEF Vetoed
  <2>10. ASSUME NEW i \in 2 .. l + 1
         PROVE  c.trades[i].at >= c.trades[i - 1].until + cooldown
    <3>1. CASE i \in 2 .. l
      <4>1. i - 1 \in 1 .. l /\ i \in 1 .. l
        BY <2>3, <3>1
      <4>2. QED
        BY <1>3, <2>3, <2>4, <3>1, <4>1
    <3>2. CASE i = l + 1
      <4>1. l \in 1 .. l /\ b.trades # <<>>
        BY <1>4, <2>3, <3>2
      <4>2. b.lastExit = b.trades[l].until /\ b.trades[l].until \in Nat
        <5>1. b.trades[l] \in StudyTrades
          BY <1>4, <2>3, <4>1
        <5>2. b.trades[l].until \in Nat
          BY <5>1 DEF StudyTrades
        <5>3. QED
          BY <1>3, <2>3, <4>1, <5>2
      <4>3. b.lastExit # Never
        BY <1>2, <4>2 DEF Never
      <4>4. now >= b.trades[l].until + cooldown
        BY <1>2, <2>9, <4>2, <4>3
      <4>5. QED
        BY <2>1, <2>3, <2>4, <3>2, <4>1, <4>4
    <3>3. QED
      BY <2>3, <3>1, <3>2
  <2>11. ASSUME NEW day \in Nat PROVE Cardinality(TradesOn(c, day)) <= cap
    <3>9. /\ TradesOn(c, day) = TradesOn(b, day) \cup (IF StudyDayOf(trade.at) = day
                                                      THEN {Len(b.trades) + 1} ELSE {})
          /\ Cardinality(TradesOn(b, day)) \in Nat
          /\ StudyDayOf(trade.at) = day
               => Cardinality(TradesOn(c, day)) = Cardinality(TradesOn(b, day)) + 1
      <4>1. b \in StudyBooks /\ c \in StudyBooks /\ c.trades = Append(b.trades, trade)
        BY <1>3, <2>1
      <4>2. QED
        BY <4>1, DayGrows
    <3>1. CASE StudyDayOf(now) = day
      <4>1. /\ Cardinality(TradesOn(c, day)) = Cardinality(TradesOn(b, day)) + 1
            /\ Cardinality(TradesOn(b, day)) \in Nat
        BY <2>1, <3>9, <3>1
      <4>2. QED
        BY <1>2, <2>9, <3>1, <4>1
    <3>2. CASE StudyDayOf(now) # day
      <4>1. TradesOn(c, day) = TradesOn(b, day)
        BY <2>1, <3>9, <3>2
      <4>2. QED
        BY <1>3, <4>1
    <3>3. QED
      BY <3>1, <3>2
  <2>12. QED
    BY <1>1, <2>1, <2>4, <2>5, <2>7, <2>8, <2>10, <2>11 DEF BookFair
<1>7. \/ c = [b EXCEPT !.exclusions = @ + 1]
      \/ c = [b EXCEPT !.holds = @ + 1]
      \/ c = [b EXCEPT !.vetoes = @ + 1]
      \/ /\ ~Vetoed(Scenarios[s], b, item, now) /\ b.cash \in Nat
         /\ FoundBy(path, b.cash).cost <= b.cash
         /\ c = Traded(b, now, FoundBy(path, b.cash))
  <2>1. ResultOf(Scenarios[s], policy, b, item, now, path, c)
    BY <1>3, ConsideredIs
  <2>2. QED
    BY <2>1 DEF ResultOf
<1>8. QED
  BY <1>5, <1>6, <1>7

\* _portfolio() on its first day, by the day of the opportunities.
LEMMA FirstDays ==
  ASSUME NEW at \in Nat, NEW now \in Nat, at <= now
  PROVE  /\ StudyDayOf(at) \in Nat /\ StudyDayOf(now) \in Nat
         /\ StudyDayOf(now) = 0 => StudyDayOf(at) = 0
<1>1. PICK d : d = StudyDay /\ d \in Nat \ {0}
  BY BaselineAssumption
<1>2. at \div d \in Nat /\ now \div d \in Nat /\ at \div d <= now \div d
  BY <1>1, DivNat, DivMonotone
<1>3. QED
  BY <1>1, <1>2 DEF StudyDayOf

Keeping(scenario, policy, b, item, now, c) ==
  /\ c \in StudyBooks
  /\ \A i \in DOMAIN b.trades : i \in DOMAIN c.trades /\ c.trades[i] = b.trades[i]
  /\ \/ c.trades = b.trades
     \/ /\ policy # "hold" /\ ~Vetoed(scenario, b, item, now)
        /\ \A day : day # StudyDayOf(now) => TradesOn(c, day) = TradesOn(b, day)

LEMMA TradesKept ==
  ASSUME NEW scenario, NEW policy, NEW b \in StudyBooks, NEW item, NEW now \in Nat,
         NEW path \in Paths, NEW c, c = Considered(scenario, policy, b, item, now, path)
  PROVE  Keeping(scenario, policy, b, item, now, c)
<1>1. CASE \/ c = [b EXCEPT !.exclusions = @ + 1] \/ c = [b EXCEPT !.holds = @ + 1]
           \/ c = [b EXCEPT !.vetoes = @ + 1]
  BY <1>1, CountedBooks DEF Keeping
<1>2. CASE /\ policy # "hold" /\ ~Vetoed(scenario, b, item, now) /\ b.cash \in Nat
           /\ c = Traded(b, now, FoundBy(path, b.cash))
  <2>1. PICK trade \in StudyTrades :
           trade.at = now /\ c.trades = Append(b.trades, trade) /\ c \in StudyBooks
    BY <1>2, TradedIs
  <2>2. ASSUME NEW day, day # StudyDayOf(now) PROVE TradesOn(c, day) = TradesOn(b, day)
    <3>1. TradesOn(c, day) = TradesOn(b, day) \cup (IF StudyDayOf(trade.at) = day
                                                     THEN {Len(b.trades) + 1} ELSE {})
      BY <2>1, DayGrows
    <3>2. QED
      BY <2>1, <2>2, <3>1
  <2>3. b.trades \in Seq(StudyTrades)
    BY DEF StudyBooks
  <2>4. \A i \in DOMAIN b.trades : i \in DOMAIN c.trades /\ c.trades[i] = b.trades[i]
    BY <2>1, <2>3
  <2>5. QED
    BY <1>2, <2>1, <2>2, <2>4 DEF Keeping
<1>3. \/ c = [b EXCEPT !.exclusions = @ + 1]
      \/ c = [b EXCEPT !.holds = @ + 1]
      \/ c = [b EXCEPT !.vetoes = @ + 1]
      \/ /\ policy # "hold" /\ ~Vetoed(scenario, b, item, now) /\ b.cash \in Nat
         /\ c = Traded(b, now, FoundBy(path, b.cash))
  <2>1. ResultOf(scenario, policy, b, item, now, path, c)
    BY ConsideredIs
  <2>2. QED
    BY <2>1 DEF ResultOf
<1>4. QED
  BY <1>1, <1>2, <1>3

\* Where the books of a tight and a looser cap part, the tight one is at its cap.
LEMMA StaysAligned ==
  ASSUME NEW s \in DOMAIN Scenarios, NEW t \in DOMAIN Scenarios, Looser(s, t), NEW policy,
         NEW b \in StudyBooks, NEW d \in StudyBooks, NEW at \in Nat,
         Aligned(b, d, Scenarios[s].cap, at),
         NEW item \in Items, NEW now \in Nat, at <= now, NEW path \in Paths,
         NEW b2, b2 = Considered(Scenarios[s], policy, b, item, now, path),
         NEW d2, d2 = Considered(Scenarios[t], policy, d, item, now, path)
  PROVE  Aligned(b2, d2, Scenarios[s].cap, now)
<1>1. /\ b2 \in StudyBooks
      /\ \A i \in DOMAIN b.trades : i \in DOMAIN b2.trades /\ b2.trades[i] = b.trades[i]
      /\ \/ b2.trades = b.trades
         \/ /\ policy # "hold" /\ ~Vetoed(Scenarios[s], b, item, now)
            /\ \A day : day # StudyDayOf(now) => TradesOn(b2, day) = TradesOn(b, day)
  <2>1. Keeping(Scenarios[s], policy, b, item, now, b2)
    BY TradesKept
  <2>2. QED
    BY <2>1 DEF Keeping
<1>2. \A i \in DOMAIN d.trades : i \in DOMAIN d2.trades /\ d2.trades[i] = d.trades[i]
  <2>1. Keeping(Scenarios[t], policy, d, item, now, d2)
    BY TradesKept
  <2>2. QED
    BY <2>1 DEF Keeping
<1>3. Extended(b, d) /\ (StudyDayOf(at) = 0 => b = d \/ Cardinality(TradesOn(b, 0)) >= Scenarios[s].cap)
  BY DEF Aligned
<1>4. StudyDayOf(now) = 0 => StudyDayOf(at) = 0
  BY FirstDays
<1>5. b2.trades = b.trades => \A day : TradesOn(b2, day) = TradesOn(b, day)
  BY DEF TradesOn
<1>6. TradesOn(b2, 0) = TradesOn(b, 0) => Extended(b2, d2)
  <2>1. TradesOn(b, 0) \subseteq DOMAIN b.trades
    BY DEF TradesOn
  <2>2. QED
    BY <1>1, <1>2, <1>3, <2>1 DEF Extended
<1>7. CASE StudyDayOf(now) # 0
  <2>1. TradesOn(b2, 0) = TradesOn(b, 0)
    BY <1>1, <1>5, <1>7
  <2>2. QED
    BY <1>6, <1>7, <2>1 DEF Aligned
<1>8. CASE StudyDayOf(now) = 0 /\ Cardinality(TradesOn(b, 0)) >= Scenarios[s].cap
  <2>1. Vetoed(Scenarios[s], b, item, now)
    BY <1>8 DEF Vetoed
  <2>2. b2.trades = b.trades
    BY <1>1, <2>1
  <2>3. QED
    BY <1>5, <1>6, <1>8, <2>2 DEF Aligned
<1>9. CASE StudyDayOf(now) = 0 /\ b = d /\ ~(Cardinality(TradesOn(b, 0)) >= Scenarios[s].cap)
  <2>1. Cardinality(TradesOn(b, 0)) \in Nat
    <3>1. b.trades \in Seq(StudyTrades)
      BY DEF StudyBooks
    <3>2. IsFiniteSet(1 .. Len(b.trades)) /\ DOMAIN b.trades = 1 .. Len(b.trades)
      BY <3>1, FS_Interval
    <3>3. TradesOn(b, 0) \subseteq 1 .. Len(b.trades)
      BY <3>2 DEF TradesOn
    <3>4. QED
      BY <3>2, <3>3, FS_Subset, FS_CardinalityType
  <2>2. ~(Cardinality(TradesOn(b, 0)) >= Scenarios[t].cap)
    <3>1. Scenarios[s].cap \in Nat /\ Scenarios[t].cap \in Nat /\ Scenarios[t].cap >= Scenarios[s].cap
      BY BaselineAssumption DEF Looser
    <3>2. QED
      BY <1>9, <2>1, <3>1
  <2>3. Vetoed(Scenarios[s], b, item, now) <=> Vetoed(Scenarios[t], b, item, now)
    BY <1>9, <2>2 DEF Vetoed, Looser
  <2>4. b2 = d2
    BY <1>9, <2>3 DEF Considered
  <2>5. Extended(b2, b2)
    BY DEF Extended, TradesOn
  <2>6. QED
    BY <2>4, <2>5 DEF Aligned
<1>10. QED
  BY <1>3, <1>4, <1>7, <1>8, <1>9

LEMMA StudyMoves ==
  ASSUME StudyInv, NEW item \in Items, NEW gap \in Gaps, NEW path \in Paths,
         Consider(item, gap, path)
  PROVE  StudyInv'
<1>1. PICK at, count, unbought : at = studied.at /\ count = studied.count /\ unbought = studied.unbought
  OBVIOUS
<1>2. at \in Nat /\ count \in Nat /\ unbought \in Nat /\ gap \in Nat
  BY <1>1, BaselineAssumption DEF StudyInv
<1>3. PICK now : now = at + gap /\ now \in Nat /\ at <= now
  BY <1>2
<1>4. PICK passed : /\ passed = (IF item.kind # "unmeasurable" /\ ~item.bought THEN 1 ELSE 0)
                    /\ passed \in Nat
  OBVIOUS
<1>5. studied' = [at |-> now, count |-> count + 1, unbought |-> unbought + passed]
  BY <1>1, <1>3, <1>4 DEF Consider
<1>6. /\ studied'.at = now /\ studied'.count = count + 1 /\ studied'.unbought = unbought + passed
      /\ unbought + passed \in Nat /\ count + 1 \in Nat
  BY <1>2, <1>4, <1>5
<1>7. /\ DOMAIN books' = DOMAIN Scenarios
      /\ \A s \in DOMAIN Scenarios :
           /\ DOMAIN books'[s] = Policies
           /\ \A p0 \in Policies :
                books'[s][p0] = Considered(Scenarios[s], p0, books[s][p0], item, now, path)
  BY <1>1, <1>3 DEF Consider
<1>8. ASSUME NEW s \in DOMAIN Scenarios, NEW p0 \in Policies
      PROVE  /\ BookFair(Scenarios[s], books[s][p0], at, count)
             /\ BookFair(Scenarios[s], books'[s][p0], now, count + 1)
             /\ books[s][p0] \in StudyBooks
  <2>1. BookFair(Scenarios[s], books[s][p0], at, count)
    BY <1>1 DEF StudyInv
  <2>2. books'[s][p0] = Considered(Scenarios[s], p0, books[s][p0], item, now, path)
    BY <1>7
  <2>3. BookFair(Scenarios[s], books'[s][p0], now, count + 1)
    BY <1>2, <1>3, <2>1, <2>2, StaysFair
  <2>4. QED
    BY <2>1, <2>3 DEF BookFair
<1>9. ASSUME NEW s \in DOMAIN Scenarios, NEW t \in DOMAIN Scenarios, Looser(s, t),
             NEW p0 \in Policies
      PROVE  Aligned(books'[s][p0], books'[t][p0], Scenarios[s].cap, now)
  <2>1. Aligned(books[s][p0], books[t][p0], Scenarios[s].cap, at)
    BY <1>1, <1>9 DEF StudyInv
  <2>2. /\ books'[s][p0] = Considered(Scenarios[s], p0, books[s][p0], item, now, path)
        /\ books'[t][p0] = Considered(Scenarios[t], p0, books[t][p0], item, now, path)
    BY <1>7
  <2>3. books[s][p0] \in StudyBooks /\ books[t][p0] \in StudyBooks
    BY <1>8
  <2>4. QED
    BY <1>2, <1>3, <1>9, <2>1, <2>2, <2>3, StaysAligned
<1>10. ASSUME NEW s \in DOMAIN Scenarios
       PROVE  books'[s]["hold"].trades = <<>>
  <2>1. "hold" \in Policies
    BY DEF Policies
  <2>2. /\ books[s]["hold"] \in StudyBooks
        /\ books'[s]["hold"] = Considered(Scenarios[s], "hold", books[s]["hold"], item, now, path)
    BY <1>7, <1>8, <2>1
  <2>3. books'[s]["hold"].trades = books[s]["hold"].trades
    <3>1. PICK b, c : b = books[s]["hold"] /\ c = books'[s]["hold"]
      OBVIOUS
    <3>2. b \in StudyBooks /\ c = Considered(Scenarios[s], "hold", b, item, now, path)
      BY <2>2, <3>1
    <3>3. now \in Nat
      BY <1>3
    <3>4. Keeping(Scenarios[s], "hold", b, item, now, c)
      BY <3>2, <3>3, TradesKept
    <3>5. c.trades = b.trades
      BY <3>4 DEF Keeping
    <3>6. QED
      BY <3>1, <3>5
  <2>4. QED
    BY <2>3 DEF StudyInv
<1>11. ASSUME NEW s \in DOMAIN Scenarios, unbought + passed = 0
       PROVE  books'[s]["ai"] = books'[s]["deterministic"]
  <2>1. unbought = 0 /\ passed = 0
    BY <1>2, <1>4, <1>11
  <2>2. books[s]["ai"] = books[s]["deterministic"]
    BY <1>1, <2>1 DEF StudyInv
  <2>3. item.kind = "unmeasurable" \/ item.bought
    BY <1>4, <2>1
  <2>4. \A b : Considered(Scenarios[s], "ai", b, item, now, path)
                = Considered(Scenarios[s], "deterministic", b, item, now, path)
    BY <2>3 DEF Considered
  <2>5. "ai" \in Policies /\ "deterministic" \in Policies
    BY DEF Policies
  <2>6. QED
    BY <1>7, <2>2, <2>4, <2>5
<1>12. studied' = [at |-> studied'.at, count |-> studied'.count, unbought |-> studied'.unbought]
  BY <1>5
<1>13. ASSUME NEW s \in DOMAIN Scenarios, NEW p0 \in Policies
       PROVE  /\ BookFair(Scenarios[s], books'[s][p0], studied'.at, studied'.count)
              /\ \A t \in DOMAIN Scenarios :
                   Looser(s, t) => Aligned(books'[s][p0], books'[t][p0], Scenarios[s].cap, studied'.at)
  BY <1>6, <1>8, <1>9
<1>14. /\ studied'.at \in Nat /\ studied'.count \in Nat /\ studied'.unbought \in Nat
  BY <1>3, <1>6
<1>15. ASSUME NEW s \in DOMAIN Scenarios
       PROVE  /\ DOMAIN books'[s] = Policies /\ books'[s]["hold"].trades = <<>>
              /\ studied'.unbought = 0 => books'[s]["ai"] = books'[s]["deterministic"]
  BY <1>6, <1>7, <1>10, <1>11
<1>16. QED
  BY <1>7, <1>12, <1>13, <1>14, <1>15 DEF StudyInv

LEMMA StudyOpens == BaselinesInit => StudyInv
<1>1. SUFFICES ASSUME BaselinesInit PROVE StudyInv
  OBVIOUS
<1>2. studied = [at |-> 0, count |-> 0, unbought |-> 0]
  BY <1>1 DEF BaselinesInit
<1>3. /\ DOMAIN books = DOMAIN Scenarios
      /\ \A s \in DOMAIN Scenarios :
           DOMAIN books[s] = Policies /\ \A p0 \in Policies : books[s][p0] = NewBook
  BY <1>1 DEF BaselinesInit
<1>4. StudyCapital \in Nat /\ StudyDay \in Nat \ {0}
  BY BaselineAssumption
<1>5. /\ NewBook \in StudyBooks /\ NewBook.trades = <<>> /\ NewBook.cash = StudyCapital
      /\ NewBook.realized = 0 /\ NewBook.lastExit = Never /\ NewBook.holds = 0
      /\ NewBook.vetoes = 0 /\ NewBook.exclusions = 0
  <2>1. Never \in Int /\ StudyCapital \in Int /\ <<>> \in Seq(StudyTrades)
    BY <1>4 DEF Never
  <2>2. QED
    BY <2>1 DEF NewBook, StudyBooks
<1>6. NetOf(<<>>) = 0
  <2>1. DOMAIN <<>> = {}
    OBVIOUS
  <2>2. \A i \in DOMAIN <<>> : <<>>[i] = <<>>[i].pnl
    OBVIOUS
  <2>3. NetOf(<<>>) = Total(<<>>, DOMAIN <<>>)
    BY <2>2, NetOfIs
  <2>4. QED
    BY <2>1, <2>3, TotalEmpty
<1>7. \A day : TradesOn(NewBook, day) = {}
  BY <1>5 DEF TradesOn
<1>8. ASSUME NEW s \in DOMAIN Scenarios PROVE BookFair(Scenarios[s], NewBook, 0, 0)
  <2>1. Cardinality({}) = 0 /\ Scenarios[s].cap \in Nat
    BY FS_EmptySet, BaselineAssumption
  <2>2. \A day \in Nat : Cardinality(TradesOn(NewBook, day)) <= Scenarios[s].cap
    BY <1>7, <2>1
  <2>3. Len(NewBook.trades) = 0 /\ \A i \in 2 .. Len(NewBook.trades) : FALSE
    BY <1>5
  <2>4. Len(NewBook.trades) + NewBook.holds + NewBook.vetoes + NewBook.exclusions = 0
    BY <1>5, <2>3
  <2>5. NewBook.cash = StudyCapital + NetOf(NewBook.trades) /\ NewBook.realized = NetOf(NewBook.trades)
    BY <1>4, <1>5, <1>6
  <2>6. QED
    BY <1>4, <1>5, <2>2, <2>3, <2>4, <2>5 DEF BookFair
<1>9. \A cap : Aligned(NewBook, NewBook, cap, 0)
  BY <1>7 DEF Aligned, Extended
<1>10. studied.at = 0 /\ studied.count = 0 /\ studied.unbought = 0
  BY <1>2
<1>11. QED
  BY <1>2, <1>3, <1>5, <1>8, <1>9, <1>10 DEF StudyInv, Policies

LEMMA StudyCompares == StudyInv => BaselinesComparable
<1>1. SUFFICES ASSUME StudyInv, NEW s \in DOMAIN Scenarios
               PROVE  /\ \A p0 \in Policies :
                           /\ BookFair(Scenarios[s], books[s][p0], studied.at, studied.count)
                           /\ \A t \in DOMAIN Scenarios :
                                Looser(s, t) => Extended(books[s][p0], books[t][p0])
                      /\ books[s]["hold"].trades = <<>>
                      /\ studied.unbought = 0 => books[s]["ai"] = books[s]["deterministic"]
                      /\ \A day \in 0 .. StudyDayOf(studied.at) : day \in Nat
  BY DEF BaselinesComparable, BookFair, Extended, Looser
<1>2. QED
  BY <1>1 DEF StudyInv, Aligned

\* For any stream of opportunities, any ways out and scenarios, the books of the policies can
\* be set against one another (_portfolio(), unbiased_baselines()).
THEOREM BaselinesCompare == BaselinesSpec => []BaselinesComparable
<1>1. StudyInv /\ [BaselinesNext]_baselineVars => StudyInv'
  <2>1. SUFFICES ASSUME StudyInv, [BaselinesNext]_baselineVars PROVE StudyInv'
    OBVIOUS
  <2>2. CASE BaselinesNext
    BY <2>1, <2>2, StudyMoves DEF BaselinesNext
  <2>3. CASE UNCHANGED baselineVars
    BY <2>1, <2>3 DEF StudyInv, baselineVars
  <2>4. QED
    BY <2>1, <2>2, <2>3
<1>2. QED
  BY <1>1, StudyOpens, StudyCompares, PTL DEF BaselinesSpec

----------------------------------------------------------------------------
(* The journal and the datasets over the candle history, for any batches,  *)
(* session, clerks and horizons.  A candle, once stored, stays as it is    *)
(* and keeps its sources; so what was complete when it was read is what    *)
(* will be read again, although late batches go on adding to the past.     *)

HistoryOK ==
  /\ minute \in Nat
  /\ \A o \in DOMAIN candles : o \in Nat /\ candles[o].available \in Nat
  /\ \A l \in links : l[2] \in DOMAIN raw

\* A trading decision saw every candle of the session up to its time.
Whole(r) ==
  r.at \in Ticks /\ r.bars = [o \in SessionOpens .. r.at - 1 |-> r.bars[o]]

\* What is written down of a decision, and of a label of one, is backed by the history.
RowStands(r) ==
  /\ r.at \in Nat
  /\ Backed(r.bars, r.at)
  /\ r.refs \subseteq Provenance(r.bars, r.at)
  /\ r.refs = {} => DOMAIN r.bars = {}
  /\ r.trade => Whole(r)

RunOf(r, h, y) == CandlesAsOf(candles, r.at, r.at + h, y.available)

LabelStands(r, h, y) ==
  /\ y.available \in Nat /\ r.at + h <= y.available /\ r.at + h <= SessionCloses
  /\ DOMAIN RunOf(r, h, y) = r.at .. r.at + h - 1
  /\ y.refs \subseteq Provenance(RunOf(r, h, y), y.available)
  /\ y.movement = Movement(r.bars[r.at - 1], RunOf(r, h, y)[r.at + h - 1])

\* The inductive invariant: what is on record stands, and so does what a clerk is about
\* to write, whatever happens between its read and its write.  (The bounded variables r
\* and y name rows, so that what is said of a row can be carried to the next state.)
RecordsInv ==
  /\ HistoryOK
  /\ \A d \in DOMAIN decisions : \A r \in {decisions[d]} : RowStands(r)
  /\ \A l \in DOMAIN labels : \E d \in DOMAIN decisions, h \in Horizons :
        /\ l = <<d, h>>
        /\ \A r \in {decisions[d]}, y \in {labels[l]} : LabelStands(r, h, y)
  /\ clerk = [w \in Clerks |-> clerk[w]]
  /\ \A w \in Clerks : clerk[w].step = "decided" => \A r \in {clerk[w].row} : RowStands(r)
  /\ \A w \in Clerks : clerk[w].step = "labelled" =>
        \E d \in DOMAIN decisions, h \in Horizons :
          /\ d = clerk[w].id /\ h = clerk[w].h
          /\ \A r \in {decisions[d]}, y \in {clerk[w].row} : LabelStands(r, h, y)

----------------------------------------------------------------------------
(* The history only grows.                                                 *)

Grows ==
  /\ \A o \in DOMAIN candles : o \in DOMAIN candles' /\ candles'[o] = candles[o]
  /\ links \subseteq links'
  /\ \A b \in DOMAIN raw : b \in DOMAIN raw' /\ raw'[b] = raw[b]

LEMMA HistoryGrows ==
  ASSUME HistoryOK, HistoryNext \/ UNCHANGED historyVars
  PROVE  HistoryOK' /\ Grows
<1>1. CASE UNCHANGED historyVars
  BY <1>1 DEF HistoryOK, Grows, historyVars
<1>2. CASE Tick
  BY <1>2 DEF Tick, HistoryOK, Grows
<1>3. ASSUME NEW b \in Batches, NEW at \in Times, Record(b, at)
      PROVE  HistoryOK' /\ Grows
  <2>1. at \in Nat
    BY DEF Times, HistoryOK
  <2>2. /\ raw' = [x \in DOMAIN raw \cup {b} |-> IF x \in DOMAIN raw THEN raw[x] ELSE at]
        /\ candles' = [o \in DOMAIN candles \cup DOMAIN BarsOf[b] |->
                         IF o \in DOMAIN candles THEN candles[o]
                         ELSE [close |-> BarsOf[b][o], available |-> at]]
        /\ links' = links \cup {<<o, b>> : o \in DOMAIN BarsOf[b]}
        /\ minute' = minute
    BY <1>3 DEF Record, Added
  <2>3. DOMAIN BarsOf[b] \subseteq Nat
    BY HistoryAssumption
  <2>4. Grows
    BY <2>2 DEF Grows
  <2>5. \A o \in DOMAIN candles' : o \in Nat /\ candles'[o].available \in Nat
    BY <2>1, <2>2, <2>3 DEF HistoryOK
  <2>6. \A l \in links' : l[2] \in DOMAIN raw'
    BY <2>2 DEF HistoryOK
  <2>7. QED
    BY <2>2, <2>4, <2>5, <2>6 DEF HistoryOK
<1>4. QED
  BY <1>1, <1>2, <1>3 DEF HistoryNext

LEMMA SourcesGrow ==
  ASSUME HistoryOK, Grows, NEW o, NEW asOf
  PROVE  SourcesOf(o, asOf) \subseteq SourcesOf(o, asOf)'
<1> SUFFICES ASSUME NEW b \in SourcesOf(o, asOf) PROVE b \in SourcesOf(o, asOf)'
  OBVIOUS
<1>1. b \in Batches /\ <<o, b>> \in links /\ raw[b] <= asOf
  BY DEF SourcesOf
<1>2. b \in DOMAIN raw
  BY <1>1 DEF HistoryOK
<1>3. <<o, b>> \in links' /\ raw'[b] = raw[b]
  BY <1>1, <1>2 DEF Grows
<1>4. QED
  BY <1>1, <1>3 DEF SourcesOf

LEMMA ProvenanceGrows ==
  ASSUME HistoryOK, Grows, NEW bars, NEW asOf
  PROVE  Provenance(bars, asOf) \subseteq Provenance(bars, asOf)'
BY SourcesGrow DEF Provenance

LEMMA BackedStays ==
  ASSUME HistoryOK, Grows, NEW bars, NEW asOf, Backed(bars, asOf)
  PROVE  Backed(bars, asOf)'
<1> SUFFICES ASSUME NEW o \in DOMAIN bars
             PROVE  /\ o \in DOMAIN candles' /\ o + 1 <= asOf
                    /\ candles'[o].available <= asOf
                    /\ candles'[o].close = bars[o]
                    /\ SourcesOf(o, asOf)' # {}
  BY DEF Backed
<1>1. /\ o \in DOMAIN candles /\ o + 1 <= asOf /\ candles[o].available <= asOf
      /\ candles[o].close = bars[o] /\ SourcesOf(o, asOf) # {}
  BY DEF Backed
<1>2. o \in DOMAIN candles' /\ candles'[o] = candles[o]
  BY <1>1 DEF Grows
<1>3. SourcesOf(o, asOf)' # {}
  BY <1>1, SourcesGrow
<1>4. QED
  BY <1>1, <1>2, <1>3

\* A run of candles that is complete is read again as it was.
LEMMA RunStays ==
  ASSUME HistoryOK, HistoryOK', Grows, NEW from \in Nat, NEW to \in Nat, NEW asOf \in Nat,
         DOMAIN CandlesAsOf(candles, from, to, asOf) = from .. to - 1
  PROVE  CandlesAsOf(candles', from, to, asOf) = CandlesAsOf(candles, from, to, asOf)
<1> DEFINE seen(t) == {o \in DOMAIN t : /\ from <= o /\ o < to /\ o + 1 <= to /\ o + 1 <= asOf
                                        /\ t[o].available <= asOf}
<1>1. seen(candles) = from .. to - 1
  BY DEF CandlesAsOf
<1>2. \A o \in seen(candles) : o \in DOMAIN candles' /\ candles'[o] = candles[o]
  BY DEF Grows
<1>3. seen(candles) \subseteq seen(candles')
  BY <1>2
<1>4. \A o \in seen(candles') : o \in Nat /\ from <= o /\ o < to
  BY DEF HistoryOK
<1>5. seen(candles') \subseteq from .. to - 1
  BY <1>4
<1>6. seen(candles') = seen(candles)
  BY <1>1, <1>3, <1>5
<1>7. [o \in seen(candles') |-> candles'[o].close] = [o \in seen(candles) |-> candles[o].close]
  BY <1>2, <1>6
<1>8. QED
  BY <1>7 DEF CandlesAsOf

LEMMA RowStays ==
  ASSUME HistoryOK, Grows, NEW r, RowStands(r)
  PROVE  RowStands(r)'
<1>1. Backed(r.bars, r.at)'
  BY BackedStays DEF RowStands
<1>2. r.refs \subseteq Provenance(r.bars, r.at)'
  BY ProvenanceGrows DEF RowStands
<1>3. QED
  BY <1>1, <1>2 DEF RowStands, Whole

LEMMA LabelStays ==
  ASSUME HistoryOK, HistoryOK', Grows, NEW r, NEW h \in Nat, NEW y, r.at \in Nat, LabelStands(r, h, y)
  PROVE  LabelStands(r, h, y)'
<1>1. RunOf(r, h, y)' = RunOf(r, h, y)
  <2>1. r.at + h \in Nat /\ y.available \in Nat
    BY DEF LabelStands
  <2>2. DOMAIN CandlesAsOf(candles, r.at, r.at + h, y.available) = r.at .. r.at + h - 1
    BY DEF LabelStands, RunOf
  <2>3. CandlesAsOf(candles', r.at, r.at + h, y.available)
          = CandlesAsOf(candles, r.at, r.at + h, y.available)
    <3>1. PICK from \in Nat, to \in Nat, asOf \in Nat :
                 from = r.at /\ to = r.at + h /\ asOf = y.available
      BY <2>1
    <3>2. DOMAIN CandlesAsOf(candles, from, to, asOf) = from .. to - 1
      BY <2>2, <3>1
    <3>3. CandlesAsOf(candles', from, to, asOf) = CandlesAsOf(candles, from, to, asOf)
      BY <3>2, RunStays
    <3>4. QED
      BY <3>1, <3>3
  <2>4. QED
    BY <2>3 DEF RunOf
<1> DEFINE run == RunOf(r, h, y)
<1>2. PICK z : z = run
  OBVIOUS
<1>3. Provenance(z, y.available) \subseteq Provenance(z, y.available)'
  BY ProvenanceGrows
<1>4. y.refs \subseteq Provenance(z, y.available)
  BY <1>2 DEF LabelStands
<1>5. y.refs \subseteq (Provenance(RunOf(r, h, y), y.available))'
  BY <1>1, <1>2, <1>3, <1>4
<1>6. QED
  BY <1>1, <1>5 DEF LabelStands

----------------------------------------------------------------------------
(* Decisions.                                                              *)

\* Ready features are those of a whole session so far.
LEMMA ReadyIsWhole ==
  ASSUME NEW bars, NEW at \in Nat, Ready(bars, {}, at), bars = [o \in DOMAIN bars |-> bars[o]]
  PROVE  at \in Ticks /\ DOMAIN bars = SessionOpens .. at - 1 /\ DOMAIN bars # {}
<1>1. at \in Ticks /\ Quality(bars, SessionOpens, at, at) = {} /\ DOMAIN bars # {}
  BY DEF Ready
<1>2. SessionOpens \in Nat /\ SessionCloses \in Nat /\ SessionOpens < at /\ at <= SessionCloses
  BY <1>1, HistoryAssumption DEF Ticks
<1> DEFINE expected == {o \in SessionOpens .. at : SessionOpens <= o /\ o + 1 <= at}
<1>3. Lesser(at, at) = at /\ Lesser(SessionCloses, at) = at
  BY <1>2 DEF Lesser
<1>4. /\ expected \ DOMAIN bars = {}
      /\ {o \in DOMAIN bars : o \notin expected \/ o + 1 > at} = {}
  <2>1. (SessionOpens < at /\ SessionCloses > SessionOpens) = TRUE
    BY <1>2
  <2>2. QED
    BY <1>1, <1>3, <2>1 DEF Quality
<1>5. expected = SessionOpens .. at - 1
  BY <1>2
<1>6. QED
  BY <1>1, <1>4, <1>5

\* A frame of the session at that time shows the same candles, then and ever after.
LEMMA WholeFrame ==
  ASSUME HistoryOK, NEW r, Whole(r), Backed(r.bars, r.at)
  PROVE  Frame(candles, r.at) = [bars |-> r.bars, reasons |-> {}]
<1>1. PICK at \in Ticks : at = r.at
  BY DEF Whole
<1>2. SessionOpens \in Nat /\ SessionCloses \in Nat /\ SessionOpens < at /\ at <= SessionCloses
      /\ at \in Nat
  BY HistoryAssumption DEF Ticks
<1>3. PICK bars : bars = r.bars
  OBVIOUS
<1>4. bars = [o \in SessionOpens .. at - 1 |-> bars[o]]
  BY <1>1, <1>3 DEF Whole
<1> DEFINE seen == {o \in DOMAIN candles : /\ SessionOpens <= o /\ o < at /\ o + 1 <= at
                                           /\ o + 1 <= at /\ candles[o].available <= at}
<1>5. seen = SessionOpens .. at - 1
  <2>1. \A o \in SessionOpens .. at - 1 : o \in DOMAIN candles /\ candles[o].available <= at
    BY <1>1, <1>3, <1>4 DEF Backed
  <2>2. \A o \in DOMAIN candles : o \in Nat
    BY DEF HistoryOK
  <2>3. QED
    BY <1>2, <2>1, <2>2
<1>6. \A o \in SessionOpens .. at - 1 : candles[o].close = bars[o]
  BY <1>1, <1>3, <1>4 DEF Backed
<1>7. CandlesAsOf(candles, SessionOpens, at, at) = bars
  <2>1. [o \in seen |-> candles[o].close] = [o \in SessionOpens .. at - 1 |-> bars[o]]
    BY <1>5, <1>6
  <2>2. QED
    BY <1>4, <2>1 DEF CandlesAsOf
<1>8. DOMAIN bars = SessionOpens .. at - 1 /\ DOMAIN bars # {}
  BY <1>2, <1>4
<1>9. Quality(bars, SessionOpens, at, at) = {}
  <2> DEFINE expected == {o \in SessionOpens .. at : SessionOpens <= o /\ o + 1 <= at}
  <2>1. Lesser(at, at) = at /\ Lesser(SessionCloses, at) = at
    BY <1>2 DEF Lesser
  <2>2. expected = SessionOpens .. at - 1
    BY <1>2
  <2>3. expected \ DOMAIN bars = {}
    BY <1>8, <2>2
  <2>4. {o \in DOMAIN bars : o \notin expected \/ o + 1 > at} = {}
    BY <1>2, <1>8, <2>2
  <2>5. (SessionOpens < at /\ SessionCloses > SessionOpens) = TRUE
    BY <1>2
  <2>6. QED
    BY <2>1, <2>3, <2>4, <2>5 DEF Quality
<1>10. QED
  BY <1>1, <1>3, <1>7, <1>8, <1>9 DEF Frame, Snapshot

----------------------------------------------------------------------------
(* The invariant is inductive.                                             *)

LEMMA RecordsInit == JournalInit => RecordsInv
BY DEF JournalInit, HistoryInit, RecordsInv, HistoryOK, Free

\* A journal that keeps what it had.
Kept(old, new) == \A k \in DOMAIN old : k \in DOMAIN new /\ new[k] = old[k]

LEMMA InsertedKeeps ==
  ASSUME NEW table, NEW key, NEW new
  PROVE  /\ Kept(table, Inserted(table, key, new))
         /\ \A k \in DOMAIN Inserted(table, key, new) :
              k \in DOMAIN table \/ (k = key /\ Inserted(table, key, new)[k] = new)
BY DEF Inserted, Kept

\* What was on record, or held by a clerk, stands in the next state.
LEMMA OldStands ==
  ASSUME RecordsInv, HistoryOK', Grows, Kept(decisions, decisions')
  PROVE  /\ \A d \in DOMAIN decisions : \A r \in {decisions'[d]} : RowStands(r)'
         /\ \A l \in DOMAIN labels : \E d \in DOMAIN decisions', h \in Horizons :
              /\ l = <<d, h>>
              /\ \A r \in {decisions'[d]}, y \in {labels[l]} : LabelStands(r, h, y)'
         /\ \A w \in Clerks : clerk[w].step = "decided" =>
              \A r \in {clerk[w].row} : RowStands(r)'
         /\ \A w \in Clerks : clerk[w].step = "labelled" =>
              \E d \in DOMAIN decisions', h \in Horizons :
                /\ d = clerk[w].id /\ h = clerk[w].h
                /\ \A r \in {decisions'[d]}, y \in {clerk[w].row} : LabelStands(r, h, y)'
<1>1. HistoryOK
  BY DEF RecordsInv
<1>2. \A d \in DOMAIN decisions : d \in DOMAIN decisions' /\ decisions'[d] = decisions[d]
  BY DEF Kept
<1>3. \A r : RowStands(r) => RowStands(r)'
  BY <1>1, RowStays
<1>4. \A d \in DOMAIN decisions : decisions[d].at \in Nat
  BY DEF RecordsInv, RowStands
<1>5. ASSUME NEW d \in DOMAIN decisions, NEW h \in Horizons, NEW y,
             \A r \in {decisions[d]} : LabelStands(r, h, y)
      PROVE  \A r \in {decisions'[d]} : LabelStands(r, h, y)'
  <2>1. PICK r : r = decisions[d]
    OBVIOUS
  <2>2. LabelStands(r, h, y) /\ r.at \in Nat /\ h \in Nat
    BY <1>4, <1>5, <2>1, JournalAssumption
  <2>3. LabelStands(r, h, y)'
    BY <1>1, <2>2, LabelStays
  <2>4. QED
    BY <1>2, <2>1, <2>3
<1>6. \A d \in DOMAIN decisions : \A r \in {decisions'[d]} : RowStands(r)'
  BY <1>2, <1>3 DEF RecordsInv
<1>7. ASSUME NEW l \in DOMAIN labels
      PROVE  \E d \in DOMAIN decisions', h \in Horizons :
               /\ l = <<d, h>>
               /\ \A r \in {decisions'[d]}, y \in {labels[l]} : LabelStands(r, h, y)'
  <2>1. PICK d \in DOMAIN decisions, h \in Horizons :
          /\ l = <<d, h>>
          /\ \A r \in {decisions[d]}, y \in {labels[l]} : LabelStands(r, h, y)
    BY DEF RecordsInv
  <2>2. \A r \in {decisions'[d]}, y \in {labels[l]} : LabelStands(r, h, y)'
    BY <1>5, <2>1
  <2>3. QED
    BY <1>2, <2>1, <2>2
<1>8. \A w \in Clerks : clerk[w].step = "decided" => \A r \in {clerk[w].row} : RowStands(r)'
  BY <1>3 DEF RecordsInv
<1>9. ASSUME NEW w \in Clerks, clerk[w].step = "labelled"
      PROVE  \E d \in DOMAIN decisions', h \in Horizons :
               /\ d = clerk[w].id /\ h = clerk[w].h
               /\ \A r \in {decisions'[d]}, y \in {clerk[w].row} : LabelStands(r, h, y)'
  <2>1. PICK d \in DOMAIN decisions, h \in Horizons :
          /\ d = clerk[w].id /\ h = clerk[w].h
          /\ \A r \in {decisions[d]}, y \in {clerk[w].row} : LabelStands(r, h, y)
    BY <1>9 DEF RecordsInv
  <2>2. \A r \in {decisions'[d]}, y \in {clerk[w].row} : LabelStands(r, h, y)'
    BY <1>5, <2>1
  <2>3. QED
    BY <1>2, <2>1, <2>2
<1>10. QED
  BY <1>6, <1>7, <1>8, <1>9

\* Steps that leave the journal and the clerks alone.
LEMMA HistoryStep ==
  ASSUME RecordsInv, HistoryNext \/ UNCHANGED historyVars, UNCHANGED <<decisions, labels, clerk>>
  PROVE  RecordsInv'
<1>1. HistoryOK' /\ Grows
  BY HistoryGrows DEF RecordsInv
<1>2. Kept(decisions, decisions')
  BY DEF Kept
<1>3. decisions' = decisions /\ labels' = labels /\ clerk' = clerk
  OBVIOUS
<1>4. QED
  BY <1>1, <1>2, <1>3, OldStands DEF RecordsInv

\* What a clerk takes from the history to write down.
LEMMA DecisionStands ==
  ASSUME HistoryOK, NEW w \in Clerks, NEW d, NEW at \in Times, NEW b \in Batches, NEW side,
         NEW trade \in BOOLEAN, BeginRecord(w, d, at, Observed(b, at), side, trade)
  PROVE  \A r \in {[at |-> at, bars |-> Observed(b, at), side |-> side, trade |-> trade,
                    refs |-> Provenance(Observed(b, at), at)]} : RowStands(r)
<1>1. PICK bars : bars = Observed(b, at)
  OBVIOUS
<1>2. PICK r : r = [at |-> at, bars |-> bars, side |-> side, trade |-> trade,
                    refs |-> Provenance(bars, at)]
  OBVIOUS
<1>3. bars = [o \in DOMAIN bars |-> bars[o]]
  BY <1>1 DEF Observed, InSession, Only
<1>4. at \in Nat
  BY DEF Times, HistoryOK
<1>5. (trade => Ready(bars, {}, at)) /\ Backed(bars, at)
  BY <1>1 DEF BeginRecord
<1>6. trade => Whole(r)
  <2> SUFFICES ASSUME trade PROVE Whole(r)
    OBVIOUS
  <2>1. at \in Ticks /\ DOMAIN bars = SessionOpens .. at - 1
    BY <1>3, <1>4, <1>5, ReadyIsWhole
  <2>2. bars = [o \in SessionOpens .. at - 1 |-> bars[o]]
    BY <1>3, <2>1
  <2>3. r.at = at /\ r.bars = bars
    BY <1>2
  <2>4. QED
    BY <2>1, <2>2, <2>3 DEF Whole
<1>7. Provenance(bars, at) = {} => DOMAIN bars = {}
  <2> SUFFICES ASSUME NEW o \in DOMAIN bars PROVE Provenance(bars, at) # {}
    OBVIOUS
  <2>1. PICK source : source \in SourcesOf(o, at)
    BY <1>5 DEF Backed
  <2>2. source \in Provenance(bars, at)
    BY <2>1 DEF Provenance
  <2>3. QED
    BY <2>2
<1>8. RowStands(r)
  <2>1. r.at = at /\ r.bars = bars /\ r.trade = trade /\ r.refs = Provenance(bars, at)
    BY <1>2
  <2>2. QED
    BY <1>4, <1>5, <1>6, <1>7, <2>1 DEF RowStands
<1>9. QED
  BY <1>1, <1>2, <1>8

LEMMA NewLabelStands ==
  ASSUME RecordsInv, NEW w \in Clerks, NEW d \in Decisions, NEW h \in Horizons, NEW asOf \in Times,
         BeginLabel(w, d, h, asOf)
  PROVE  /\ d \in DOMAIN decisions
         /\ clerk' = [clerk EXCEPT ![w] = clerk'[w]] \/ w \notin DOMAIN clerk
         /\ w \in DOMAIN clerk => clerk'[w].id = d /\ clerk'[w].h = h /\ clerk'[w].step = "labelled"
         /\ w \in DOMAIN clerk =>
              \A r \in {decisions[d]}, y \in {clerk'[w].row} : LabelStands(r, h, y)
<1> DEFINE close == Outcome(d, h, asOf)[Target(d, h) - 1]
           new == [available |-> asOf, close |-> close, movement |-> Movement(Reference(d), close),
                   refs |-> Provenance(Outcome(d, h, asOf), asOf)]
<1>1. /\ d \in DOMAIN decisions /\ OutcomeStatus(d, h, asOf) = "READY"
      /\ clerk' = [clerk EXCEPT ![w] = [step |-> "labelled", id |-> d, h |-> h, row |-> new]]
  BY DEF BeginLabel
<1>2. /\ ~(Target(d, h) > asOf) /\ Target(d, h) <= SessionCloses
      /\ DOMAIN Outcome(d, h, asOf) = decisions[d].at .. Target(d, h) - 1
  BY <1>1 DEF OutcomeStatus
<1>3. asOf \in Nat
  BY DEF Times, HistoryOK, RecordsInv
<1>4. ASSUME NEW r, r = decisions[d], NEW y, y = new PROVE LabelStands(r, h, y)
  <2>1. y.available = asOf /\ y.movement = Movement(Reference(d), close)
        /\ y.refs = Provenance(Outcome(d, h, asOf), asOf)
    BY <1>4
  <2>2. RunOf(r, h, y) = Outcome(d, h, asOf)
    BY <1>4, <2>1 DEF RunOf, Outcome, Target
  <2>3. Reference(d) = r.bars[r.at - 1] /\ Target(d, h) = r.at + h
    BY <1>4 DEF Reference, Bars, Target
  <2>4. r.at \in Nat /\ h \in Nat
    BY <1>1, <1>4, JournalAssumption DEF RecordsInv, RowStands
  <2>5. r.at + h <= asOf
    BY <1>2, <1>3, <2>3, <2>4
  <2>6. DOMAIN RunOf(r, h, y) = r.at .. r.at + h - 1
    <3>1. DOMAIN Outcome(d, h, asOf) = decisions[d].at .. Target(d, h) - 1
      BY <1>2
    <3>2. decisions[d].at .. Target(d, h) - 1 = r.at .. r.at + h - 1
      BY <1>4, <2>3, <2>4
    <3>3. QED
      BY <2>2, <3>1, <3>2
  <2>7. y.refs \subseteq Provenance(RunOf(r, h, y), y.available)
    BY <2>1, <2>2
  <2>8. y.movement = Movement(r.bars[r.at - 1], RunOf(r, h, y)[r.at + h - 1])
    <3>1. Target(d, h) - 1 = r.at + h - 1
      BY <2>3, <2>4
    <3>2. QED
      BY <2>1, <2>2, <2>3, <3>1
  <2>9. y.available \in Nat /\ r.at + h <= y.available /\ r.at + h <= SessionCloses
    BY <1>2, <1>3, <2>1, <2>3, <2>5
  <2>10. QED
    BY <2>6, <2>7, <2>8, <2>9 DEF LabelStands
<1>5. QED
  BY <1>1, <1>4

LEMMA RecordsNext ==
  ASSUME RecordsInv, [JournalNext]_journalVars
  PROVE  RecordsInv'
<1> USE DEF historyVars
<1>1. CASE UNCHANGED journalVars
  BY <1>1, HistoryStep DEF journalVars
<1>2. CASE HistoryNext /\ UNCHANGED <<decisions, lifecycle, labels, clerk>>
  BY <1>2, HistoryStep
<1>3. ASSUME NEW d \in Decisions, NEW e \in Events, AppendEvent(d, e) PROVE RecordsInv'
  BY <1>3, HistoryStep DEF AppendEvent
<1>4. ASSUME NEW w \in Clerks, Killed(w) PROVE RecordsInv'
  <2>1. HistoryOK' /\ Grows
    BY <1>4, HistoryGrows DEF Killed, RecordsInv
  <2>2. decisions' = decisions /\ labels' = labels /\ clerk' = [clerk EXCEPT ![w] = Free]
    BY <1>4 DEF Killed
  <2>3. Kept(decisions, decisions')
    BY <2>2 DEF Kept
  <2>4. clerk'[w].step = "free"
    BY <2>2 DEF RecordsInv, Free
  <2>5. clerk' = [v \in Clerks |-> clerk'[v]] /\ \A v \in Clerks : v # w => clerk'[v] = clerk[v]
    BY <2>2 DEF RecordsInv
  <2>6. QED
    BY <2>1, <2>2, <2>3, <2>4, <2>5, OldStands DEF RecordsInv
<1>5. ASSUME NEW w \in Clerks, NEW d \in Decisions, NEW at \in Times, NEW b \in Batches,
             NEW side \in Sides, NEW t \in BOOLEAN, BeginRecord(w, d, at, Observed(b, at), side, t)
      PROVE  RecordsInv'
  <2> DEFINE new == [at |-> at, bars |-> Observed(b, at), side |-> side, trade |-> t,
                     refs |-> Provenance(Observed(b, at), at)]
  <2>1. HistoryOK' /\ Grows /\ HistoryOK
    BY <1>5, HistoryGrows DEF BeginRecord, RecordsInv
  <2>2. /\ decisions' = decisions /\ labels' = labels
        /\ clerk' = [clerk EXCEPT ![w] = [step |-> "decided", id |-> d, row |-> new]]
    BY <1>5 DEF BeginRecord
  <2>3. Kept(decisions, decisions')
    BY <2>2 DEF Kept
  <2>4. \A r \in {new} : RowStands(r)
    BY <1>5, <2>1, DecisionStands
  <2>5. \A r \in {new} : RowStands(r)'
    BY <2>1, <2>4, RowStays
  <2>6. clerk'[w].step = "decided" /\ clerk'[w].row = new
    BY <2>2 DEF RecordsInv
  <2>7. clerk' = [v \in Clerks |-> clerk'[v]] /\ \A v \in Clerks : v # w => clerk'[v] = clerk[v]
    BY <2>2 DEF RecordsInv
  <2>8. \A r \in {clerk'[w].row} : RowStands(r)'
    BY <2>5, <2>6
  <2> HIDE DEF new
  <2>9. QED
    BY <2>1, <2>2, <2>3, <2>6, <2>7, <2>8, OldStands DEF RecordsInv
<1>6. ASSUME NEW w \in Clerks, NEW d \in Decisions, NEW h \in Horizons, NEW asOf \in Times,
             BeginLabel(w, d, h, asOf)
      PROVE  RecordsInv'
  <2>1. HistoryOK' /\ Grows /\ HistoryOK
    BY <1>6, HistoryGrows DEF BeginLabel, RecordsInv
  <2>2. decisions' = decisions /\ labels' = labels /\ d \in DOMAIN decisions
    BY <1>6 DEF BeginLabel
  <2>3. Kept(decisions, decisions')
    BY <2>2 DEF Kept
  <2>4. w \in DOMAIN clerk
    BY DEF RecordsInv
  <2>5. PICK y : y = clerk'[w].row
    OBVIOUS
  <2>6. PICK r : r = decisions[d]
    OBVIOUS
  <2>7. LabelStands(r, h, y)
    BY <1>6, <2>4, <2>5, <2>6, NewLabelStands
  <2>8. r.at \in Nat /\ h \in Nat
    BY <2>2, <2>6, JournalAssumption DEF RecordsInv, RowStands
  <2>9. LabelStands(r, h, y)'
    BY <2>1, <2>7, <2>8, LabelStays
  <2>10. clerk'[w].step = "labelled" /\ clerk'[w].id = d /\ clerk'[w].h = h
    BY <1>6, <2>4, NewLabelStands
  <2>11. clerk' = [v \in Clerks |-> clerk'[v]] /\ \A v \in Clerks : v # w => clerk'[v] = clerk[v]
    BY <1>6 DEF RecordsInv, BeginLabel
  <2>12. \E e \in DOMAIN decisions', k \in Horizons :
           /\ e = clerk'[w].id /\ k = clerk'[w].h
           /\ \A q \in {decisions'[e]}, z \in {clerk'[w].row} : LabelStands(q, k, z)'
    BY <2>2, <2>5, <2>6, <2>9, <2>10
  <2>13. QED
    BY <2>1, <2>2, <2>3, <2>10, <2>11, <2>12, OldStands DEF RecordsInv
<1>7. ASSUME NEW w \in Clerks, FinishRecord(w) PROVE RecordsInv'
  <2>1. HistoryOK' /\ Grows /\ HistoryOK
    BY <1>7, HistoryGrows DEF FinishRecord, RecordsInv
  <2>2. /\ clerk[w].step = "decided" /\ labels' = labels
        /\ decisions' = Inserted(decisions, clerk[w].id, clerk[w].row)
        /\ clerk' = [clerk EXCEPT ![w] = Free]
    BY <1>7 DEF FinishRecord
  <2>3. /\ Kept(decisions, decisions')
        /\ \A k \in DOMAIN decisions' : k \in DOMAIN decisions \/ decisions'[k] = clerk[w].row
    BY <2>2, InsertedKeeps
  <2>4. \A k \in DOMAIN decisions' : \A r \in {decisions'[k]} : RowStands(r)'
    BY <2>1, <2>2, <2>3, OldStands
  <2>5. clerk'[w].step = "free"
    BY <2>2 DEF RecordsInv, Free
  <2>6. clerk' = [v \in Clerks |-> clerk'[v]] /\ \A v \in Clerks : v # w => clerk'[v] = clerk[v]
    BY <2>2 DEF RecordsInv
  <2>7. QED
    BY <2>1, <2>2, <2>3, <2>4, <2>5, <2>6, OldStands DEF RecordsInv
<1>8. ASSUME NEW w \in Clerks, FinishLabel(w) PROVE RecordsInv'
  <2>1. HistoryOK' /\ Grows /\ HistoryOK
    BY <1>8, HistoryGrows DEF FinishLabel, RecordsInv
  <2>2. /\ clerk[w].step = "labelled" /\ decisions' = decisions
        /\ labels' = Inserted(labels, <<clerk[w].id, clerk[w].h>>, clerk[w].row)
        /\ clerk' = [clerk EXCEPT ![w] = Free]
    BY <1>8 DEF FinishLabel
  <2>3. Kept(decisions, decisions')
    BY <2>2 DEF Kept
  <2>4. /\ Kept(labels, labels')
        /\ \A k \in DOMAIN labels' :
             k \in DOMAIN labels \/ (k = <<clerk[w].id, clerk[w].h>> /\ labels'[k] = clerk[w].row)
    BY <2>2, InsertedKeeps
  <2>5. ASSUME NEW l \in DOMAIN labels'
        PROVE  \E d \in DOMAIN decisions', h \in Horizons :
                 /\ l = <<d, h>>
                 /\ \A r \in {decisions'[d]}, y \in {labels'[l]} : LabelStands(r, h, y)'
    <3>1. CASE l \in DOMAIN labels
      <4>1. labels'[l] = labels[l]
        BY <2>4, <3>1 DEF Kept
      <4>2. QED
        BY <2>1, <2>3, <3>1, <4>1, OldStands
    <3>2. CASE l \notin DOMAIN labels
      <4>1. l = <<clerk[w].id, clerk[w].h>> /\ labels'[l] = clerk[w].row
        BY <2>4, <3>2
      <4>2. PICK d \in DOMAIN decisions', h \in Horizons :
              /\ d = clerk[w].id /\ h = clerk[w].h
              /\ \A r \in {decisions'[d]}, y \in {clerk[w].row} : LabelStands(r, h, y)'
        BY <2>1, <2>2, <2>3, OldStands
      <4>3. QED
        BY <4>1, <4>2
    <3>3. QED
      BY <3>1, <3>2
  <2>6. clerk'[w].step = "free"
    BY <2>2 DEF RecordsInv, Free
  <2>7. clerk' = [v \in Clerks |-> clerk'[v]] /\ \A v \in Clerks : v # w => clerk'[v] = clerk[v]
    BY <2>2 DEF RecordsInv
  <2>8. QED
    BY <2>1, <2>2, <2>3, <2>5, <2>6, <2>7, OldStands DEF RecordsInv
<1>9. QED
  BY <1>1, <1>2, <1>3, <1>4, <1>5, <1>6, <1>7, <1>8 DEF JournalNext

LEMMA RecordsShown == RecordsInv => RecordsStand
<1> SUFFICES ASSUME RecordsInv PROVE RecordsStand
  OBVIOUS
<1>1. ASSUME NEW d \in DOMAIN decisions
      PROVE  /\ Backed(Bars(d), decisions[d].at)
             /\ decisions[d].refs \subseteq Provenance(Bars(d), decisions[d].at)
             /\ decisions[d].refs = {} => DOMAIN Bars(d) = {}
             /\ decisions[d].trade =>
                  Frame(candles, decisions[d].at) = [bars |-> Bars(d), reasons |-> {}]
  <2>1. PICK r : r = decisions[d]
    OBVIOUS
  <2>2. RowStands(r) /\ HistoryOK
    BY <2>1 DEF RecordsInv
  <2>3. r.trade => Frame(candles, r.at) = [bars |-> r.bars, reasons |-> {}]
    BY <2>2, WholeFrame DEF RowStands
  <2>4. QED
    BY <2>1, <2>2, <2>3 DEF RowStands, Bars
<1>2. ASSUME NEW l \in DOMAIN labels
      PROVE  LET d == l[1] h == l[2] asOf == labels[l].available
                 run == Outcome(d, h, asOf)
             IN  /\ Target(d, h) <= asOf /\ Target(d, h) <= SessionCloses
                 /\ DOMAIN run = decisions[d].at .. Target(d, h) - 1
                 /\ labels[l].refs \subseteq Provenance(run, asOf)
                 /\ labels[l].movement = Movement(Reference(d), run[Target(d, h) - 1])
  <2>1. PICK d \in DOMAIN decisions, h \in Horizons :
          /\ l = <<d, h>>
          /\ \A r \in {decisions[d]}, y \in {labels[l]} : LabelStands(r, h, y)
    BY DEF RecordsInv
  <2>2. PICK r, y : r = decisions[d] /\ y = labels[l]
    OBVIOUS
  <2>3. LabelStands(r, h, y)
    BY <2>1, <2>2
  <2>4. l[1] = d /\ l[2] = h
    BY <2>1
  <2>5. Outcome(d, h, y.available) = RunOf(r, h, y) /\ Target(d, h) = r.at + h
        /\ Reference(d) = r.bars[r.at - 1]
    BY <2>2 DEF Outcome, RunOf, Target, Reference, Bars
  <2>6. /\ r.at + h <= y.available /\ r.at + h <= SessionCloses
        /\ DOMAIN RunOf(r, h, y) = r.at .. r.at + h - 1
        /\ y.refs \subseteq Provenance(RunOf(r, h, y), y.available)
        /\ y.movement = Movement(r.bars[r.at - 1], RunOf(r, h, y)[r.at + h - 1])
    BY <2>3 DEF LabelStands
  <2>7. r.at \in Nat /\ h \in Nat
    BY <2>2, JournalAssumption DEF RecordsInv, RowStands
  <2> DEFINE run == Outcome(d, h, y.available)
  <2>8. /\ Target(d, h) <= y.available /\ Target(d, h) <= SessionCloses
        /\ DOMAIN run = decisions[d].at .. Target(d, h) - 1
        /\ y.refs \subseteq Provenance(run, y.available)
        /\ y.movement = Movement(Reference(d), run[Target(d, h) - 1])
    <3>1. r.at + h - 1 = Target(d, h) - 1 /\ r.at = decisions[d].at
      BY <2>2, <2>5, <2>7
    <3>2. DOMAIN run = decisions[d].at .. Target(d, h) - 1
      BY <2>5, <2>6, <3>1
    <3>3. run[Target(d, h) - 1] = RunOf(r, h, y)[r.at + h - 1]
      BY <2>5, <3>1
    <3>4. QED
      BY <2>5, <2>6, <3>2, <3>3
  <2>9. QED
    BY ONLY <2>2, <2>4, <2>8
<1>3. QED
  BY <1>1, <1>2 DEF RecordsStand, EvidenceStands, LabelsStand

LEMMA RecordsInvariant == JournalSpec => []RecordsInv
<1>1. RecordsInv /\ [JournalNext]_journalVars => RecordsInv'
  BY RecordsNext
<1>2. QED
  BY <1>1, RecordsInit, PTL DEF JournalSpec

\* Whatever arrives late, is contradicted or is read between two transactions, a decision's
\* evidence can be produced for ever and a label tells what its market did
\* (decision_journal.py's record and label_outcomes).
THEOREM JournalStands == JournalSpec => []RecordsStand
BY RecordsInvariant, RecordsShown, PTL

----------------------------------------------------------------------------
(* Datasets.                                                               *)

LEMMA SplitsLocated ==
  ASSUME NEW at \in Nat, at < SplitEnds[3]
  PROVE  Split(at) \in 1 .. 3 /\ at < SplitEnds[Split(at)]
<1> DEFINE located(i) == at < SplitEnds[i] /\ \A j \in 1 .. i - 1 : at >= SplitEnds[j]
<1>1. SplitEnds[1] \in Nat /\ SplitEnds[2] \in Nat /\ SplitEnds[3] \in Nat
  BY DatasetAssumption
<1>2. \E i \in 1 .. 3 : located(i)
  <2>1. CASE at < SplitEnds[1]
    BY <2>1
  <2>2. CASE at >= SplitEnds[1] /\ at < SplitEnds[2]
    <3>1. located(2)
      BY <2>2
    <3>2. QED
      BY <3>1
  <2>3. CASE at >= SplitEnds[1] /\ at >= SplitEnds[2]
    <3>1. located(3)
      BY <2>3
    <3>2. QED
      BY <3>1
  <2>4. QED
    BY <1>1, <2>1, <2>2, <2>3
<1>3. QED
  BY <1>2 DEF Split

\* A read whose clock is before an instant does not tell the history from what was known
\* of it before that instant.
LEMMA SameBefore ==
  ASSUME HistoryOK, NEW end \in Nat, NEW from, NEW to, NEW asOf \in Int, asOf < end
  PROVE  CandlesAsOf(candles, from, to, asOf)
           = CandlesAsOf(KnownBefore(candles, end), from, to, asOf)
<1> DEFINE known == KnownBefore(candles, end)
           seen(t) == {o \in DOMAIN t : /\ from <= o /\ o < to /\ o + 1 <= to /\ o + 1 <= asOf
                                        /\ t[o].available <= asOf}
<1>1. /\ DOMAIN known = {o \in DOMAIN candles : candles[o].available < end}
      /\ \A o \in DOMAIN known : known[o] = candles[o]
  BY DEF KnownBefore, Only
<1>2. \A o \in DOMAIN candles : candles[o].available <= asOf => o \in DOMAIN known
  BY <1>1 DEF HistoryOK
<1> HIDE DEF known
<1>3. seen(candles) = seen(known)
  BY <1>1, <1>2
<1>4. [o \in seen(candles) |-> candles[o].close] = [o \in seen(known) |-> known[o].close]
  BY <1>1, <1>3
<1>5. QED
  BY <1>4 DEF CandlesAsOf, known

LEMMA SealedSplits == HistoryOK => SplitsAreSealed
<1> SUFFICES ASSUME HistoryOK, NEW i \in 1 .. 3, NEW asOf \in SplitEnds[3] .. SplitEnds[3] + 1
             PROVE  RowsOf(i, Dataset(candles, asOf))
                      = RowsOf(i, Dataset(KnownBefore(candles, SplitEnds[i]), asOf))
  BY DEF SplitsAreSealed
<1> DEFINE known == KnownBefore(candles, SplitEnds[i])
<1>1. SplitEnds[i] \in Nat /\ SplitEnds[3] \in Nat /\ asOf \in Int
  BY DatasetAssumption
<1>2. ASSUME NEW at \in Ticks, at < SplitEnds[3], Split(at) = i
      PROVE  /\ Sampled(candles, at, asOf) <=> Sampled(known, at, asOf)
             /\ Row(candles, at, asOf) = Row(known, at, asOf)
  <2>1. at \in Nat /\ at < SplitEnds[i]
    <3>1. at \in Nat
      BY HistoryAssumption DEF Ticks
    <3>2. QED
      BY <1>2, <3>1, SplitsLocated
  <2>2. Frame(candles, at) = Frame(known, at)
    <3>1. CandlesAsOf(candles, SessionOpens, at, at) = CandlesAsOf(known, SessionOpens, at, at)
      BY <1>1, <2>1, SameBefore
    <3>2. QED
      BY <3>1 DEF Frame, Snapshot
  <2>3. Label(candles, at, asOf) = Label(known, at, asOf)
    <3>1. LabelCutoff(at, asOf) \in Int /\ LabelCutoff(at, asOf) < SplitEnds[i]
      BY <1>1, <1>2 DEF LabelCutoff, Lesser
    <3>2. QED
      BY <1>1, <3>1, SameBefore DEF Label
  <2>4. QED
    BY <2>2, <2>3 DEF Sampled, Row
<1>3. \A table, at : Sampled(table, at, asOf) => at < SplitEnds[3]
  BY DEF Sampled
<1>4. \A table, at : Row(table, at, asOf).split = Split(at)
  BY DEF Row
<1> HIDE DEF known
<1>5. \A r : r \in RowsOf(i, Dataset(candles, asOf)) <=> r \in RowsOf(i, Dataset(known, asOf))
  BY <1>2, <1>3, <1>4 DEF RowsOf, Dataset
<1>6. QED
  BY <1>5 DEF known

\* For any splits, session and history, however late and whatever its candles, no split's
\* samples depend on what became known after it ended (ml/datasets.py's build).
THEOREM SplitsStaySealed == JournalSpec => []SplitsAreSealed
<1>1. RecordsInv => SplitsAreSealed
  BY SealedSplits DEF RecordsInv
<1>2. QED
  BY <1>1, RecordsInvariant, PTL
===============================================================================
