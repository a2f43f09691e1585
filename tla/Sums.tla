-------------------------------- MODULE Sums --------------------------------
(***************************************************************************)
(* What the specifications need to know of MapThenSumSet, the sum of a     *)
(* finite set's weights: money held, spent or at risk.  The sum is defined *)
(* by a recursive function over the subsets of the set; that the function  *)
(* exists, and each fact about it, is proved by taking a smallest subset   *)
(* that violates it.                                                       *)
(***************************************************************************)
EXTENDS FiniteSetsExt, FiniteSetTheorems, Integers, TLAPS

\* The weights f summed over S.
Total(f, S) == MapThenSumSet(LAMBDA c : f[c], S)

Pick(s) == CHOOSE x \in s : TRUE
IsSum(g, f, S) ==
  g = [s \in SUBSET S |-> IF s = {} THEN 0 ELSE f[Pick(s)] + g[s \ {Pick(s)}]]

\* A nonempty family of subsets of a finite set has a smallest member.
LEMMA Smallest ==
  ASSUME NEW S, IsFiniteSet(S), NEW T \in SUBSET SUBSET S, T # {}
  PROVE  \E m \in T : \A u \in T : u \subseteq m => u = m
<1>1. IsWellFoundedOn(StrictSubsetOrdering(S), SUBSET S)
  BY FS_StrictSubsetOrderingWellFounded, FS_FiniteSubsetsOfFinite
<1>2. PICK m \in T : \A u \in T : <<u, m>> \notin StrictSubsetOrdering(S)
  BY <1>1, WFMin
<1>3. ASSUME NEW u \in T, u \subseteq m PROVE u = m
  BY <1>2, <1>3 DEF StrictSubsetOrdering
<1> QED
  BY <1>3

\* The picked element of a nonempty set is one of its elements.
LEMMA Picked == ASSUME NEW s, s # {} PROVE Pick(s) \in s
BY DEF Pick

LEMMA SumStep ==
  ASSUME NEW g, NEW f, NEW S, IsSum(g, f, S), NEW s \in SUBSET S
  PROVE  /\ s = {} => g[s] = 0
         /\ s # {} => g[s] = f[Pick(s)] + g[s \ {Pick(s)}]
BY DEF IsSum

LEMMA SumUnique ==
  ASSUME NEW f, NEW S, IsFiniteSet(S), NEW g, NEW h, IsSum(g, f, S), IsSum(h, f, S)
  PROVE  g = h
<1> DEFINE T == {s \in SUBSET S : g[s] # h[s]}
<1>1. T = {}
  <2> SUFFICES ASSUME T # {} PROVE FALSE
    OBVIOUS
  <2>a. T \in SUBSET SUBSET S
    OBVIOUS
  <2>1. PICK m \in T : \A u \in T : u \subseteq m => u = m
    <3> HIDE DEF T
    <3> QED
      BY <2>a, Smallest
  <2>2. m # {} /\ m \in SUBSET S
    BY <2>1, SumStep
  <2>3. m \ {Pick(m)} \notin T /\ m \ {Pick(m)} \in SUBSET S
    BY <2>1, <2>2, Picked
  <2>4. g[m \ {Pick(m)}] = h[m \ {Pick(m)}]
    BY <2>3
  <2> QED
    BY <2>1, <2>2, <2>4, SumStep
<1>2. \A s \in SUBSET S : g[s] = h[s]
  BY <1>1
<1>3. g = [s \in SUBSET S |-> g[s]] /\ h = [s \in SUBSET S |-> h[s]]
  BY DEF IsSum
<1> QED
  BY <1>2, <1>3

LEMMA SumRestricted ==
  ASSUME NEW f, NEW S, NEW g, IsSum(g, f, S), NEW U \in SUBSET S
  PROVE  IsSum([s \in SUBSET U |-> g[s]], f, U)
<1> DEFINE h == [s \in SUBSET U |-> g[s]]
<1>1. ASSUME NEW s \in SUBSET U
      PROVE  h[s] = IF s = {} THEN 0 ELSE f[Pick(s)] + h[s \ {Pick(s)}]
  <2>1. s \in SUBSET S /\ s \ {Pick(s)} \in SUBSET U
    OBVIOUS
  <2>2. h[s] = g[s] /\ h[s \ {Pick(s)}] = g[s \ {Pick(s)}]
    BY <2>1
  <2> HIDE DEF h
  <2>3. CASE s = {}
    BY <2>1, <2>2, <2>3, SumStep
  <2>4. CASE s # {}
    <3>1. g[s] = f[Pick(s)] + g[s \ {Pick(s)}]
      BY <2>1, <2>4, SumStep
    <3> QED
      BY <2>2, <2>4, <3>1
  <2> QED
    BY <2>3, <2>4
<1> QED
  BY <1>1 DEF IsSum

\* The recursive function exists over every finite set.
LEMMA SumExists ==
  ASSUME NEW f, NEW S, IsFiniteSet(S)
  PROVE  \E g : IsSum(g, f, S)
<1> DEFINE Bad == {U \in SUBSET S : ~\E g : IsSum(g, f, U)}
<1> SUFFICES ASSUME Bad # {} PROVE FALSE
  OBVIOUS
<1>a. Bad \in SUBSET SUBSET S
  OBVIOUS
<1>1. PICK U \in Bad : \A V \in Bad : V \subseteq U => V = U
  <2> HIDE DEF Bad
  <2> QED
    BY <1>a, Smallest
<1> DEFINE G(V) == CHOOSE g : IsSum(g, f, V)
           Rest(s) == s \ {Pick(s)}
           h == [s \in SUBSET U |-> IF s = {} THEN 0 ELSE f[Pick(s)] + G(Rest(s))[Rest(s)]]
<1>2. ASSUME NEW V \in SUBSET U, V # U PROVE IsSum(G(V), f, V)
  BY <1>1, <1>2
<1>3. ASSUME NEW s \in SUBSET U, s # {}
      PROVE  Rest(s) \in SUBSET U /\ Rest(s) # U /\ Rest(s) \subseteq s
  BY <1>3, Picked
<1>4. ASSUME NEW V \in SUBSET U, V # U PROVE h[V] = G(V)[V]
  <2>1. IsSum(G(V), f, V)
    BY <1>2, <1>4
  <2>2. CASE V = {}
    BY <2>1, <2>2, SumStep
  <2>3. CASE V # {}
    <3> DEFINE W == Rest(V)
    <3>1. W \in SUBSET U /\ W # U /\ W \in SUBSET V
      BY <1>3, <2>3
    <3>2. IsSum(G(W), f, W)
      BY <1>2, <3>1
    <3>3. IsSum([s \in SUBSET W |-> G(V)[s]], f, W)
      BY <2>1, <3>1, SumRestricted
    <3>4. IsFiniteSet(W)
      BY <1>1, <3>1, FS_Subset
    <3> HIDE DEF G
    <3>5. G(W) = [s \in SUBSET W |-> G(V)[s]]
      BY <3>2, <3>3, <3>4, SumUnique
    <3>6. G(W)[W] = G(V)[W]
      BY <3>5
    <3>7. G(V)[V] = f[Pick(V)] + G(V)[W]
      BY <2>1, <2>3, SumStep
    <3> QED
      BY <2>3, <3>6, <3>7
  <2> QED
    BY <2>2, <2>3
<1>5. \A s \in SUBSET U : h[s] = IF s = {} THEN 0 ELSE f[Pick(s)] + h[Rest(s)]
  <2> SUFFICES ASSUME NEW s \in SUBSET U
               PROVE  h[s] = IF s = {} THEN 0 ELSE f[Pick(s)] + h[Rest(s)]
    OBVIOUS
  <2>1. CASE s = {}
    BY <2>1
  <2>2. CASE s # {}
    <3>1. h[s] = f[Pick(s)] + G(Rest(s))[Rest(s)]
      BY <2>2
    <3>2. h[Rest(s)] = G(Rest(s))[Rest(s)]
      BY <1>3, <1>4, <2>2
    <3> HIDE DEF h, G
    <3> QED
      BY <2>2, <3>1, <3>2
  <2> QED
    BY <2>1, <2>2
<1>6. IsSum(h, f, U)
  <2>1. h = [s \in SUBSET U |-> h[s]]
    OBVIOUS
  <2> HIDE DEF h
  <2> QED
    BY <1>5, <2>1 DEF IsSum
<1> QED
  BY <1>1, <1>6
-----------------------------------------------------------------------------
\* One step of the recursion, for the sum itself.
LEMMA TotalStep ==
  ASSUME NEW f, NEW S, IsFiniteSet(S)
  PROVE  /\ S = {} => Total(f, S) = 0
         /\ S # {} => Total(f, S) = f[Pick(S)] + Total(f, S \ {Pick(S)})
<1>1. ASSUME NEW U, IsFiniteSet(U) PROVE \E g : IsSum(g, f, U) /\ Total(f, U) = g[U]
  <2> DEFINE h == CHOOSE g : IsSum(g, f, U)
  <2>1. IsSum(h, f, U)
    BY <1>1, SumExists
  <2>2. Total(f, U) = h[U]
    BY DEF Total, MapThenSumSet, MapThenFoldSet, IsSum, Pick
  <2> QED
    BY <2>1, <2>2
<1>2. PICK g : IsSum(g, f, S) /\ Total(f, S) = g[S]
  BY <1>1
<1>3. S = {} => Total(f, S) = 0
  BY <1>2, SumStep
<1>4. ASSUME S # {} PROVE Total(f, S) = f[Pick(S)] + Total(f, S \ {Pick(S)})
  <2> DEFINE R == S \ {Pick(S)}
  <2>1. R \in SUBSET S /\ IsFiniteSet(R)
    BY FS_Subset
  <2>2. PICK h : IsSum(h, f, R) /\ Total(f, R) = h[R]
    BY <1>1, <2>1
  <2>3. IsSum([s \in SUBSET R |-> g[s]], f, R)
    BY <1>2, <2>1, SumRestricted
  <2>4. h = [s \in SUBSET R |-> g[s]]
    BY <2>1, <2>2, <2>3, SumUnique
  <2>5. h[R] = g[R]
    BY <2>4
  <2>6. g[S] = f[Pick(S)] + g[R]
    BY <1>2, <1>4, SumStep
  <2> QED
    BY <1>2, <2>2, <2>5, <2>6
<1> QED
  BY <1>3, <1>4

LEMMA TotalEmpty == ASSUME NEW f PROVE Total(f, {}) = 0
BY TotalStep, FS_EmptySet

\* Weights of nothing sum to nothing.
LEMMA TotalNothing ==
  ASSUME NEW f, NEW S, IsFiniteSet(S), \A x \in S : f[x] = 0
  PROVE  Total(f, S) = 0
<1> DEFINE Bad == {U \in SUBSET S : Total(f, U) # 0}
<1> SUFFICES ASSUME Bad # {} PROVE FALSE
  OBVIOUS
<1>a. Bad \in SUBSET SUBSET S
  OBVIOUS
<1>1. PICK U \in Bad : \A V \in Bad : V \subseteq U => V = U
  <2> HIDE DEF Bad
  <2> QED
    BY <1>a, Smallest
<1>2. U # {}
  BY <1>1, TotalEmpty
<1>3. Pick(U) \in U /\ U \ {Pick(U)} \in SUBSET S /\ U \ {Pick(U)} \notin Bad /\ IsFiniteSet(U)
  BY <1>1, <1>2, Picked, FS_Subset
<1>4. Total(f, U) = f[Pick(U)] + Total(f, U \ {Pick(U)})
  BY <1>2, <1>3, TotalStep
<1> QED
  BY <1>1, <1>3, <1>4

\* Natural weights have a natural sum.
LEMMA TotalType ==
  ASSUME NEW f, NEW S, IsFiniteSet(S), \A x \in S : f[x] \in Nat
  PROVE  Total(f, S) \in Nat
<1> DEFINE Bad == {U \in SUBSET S : Total(f, U) \notin Nat}
<1> SUFFICES ASSUME Bad # {} PROVE FALSE
  OBVIOUS
<1>a. Bad \in SUBSET SUBSET S
  OBVIOUS
<1>1. PICK U \in Bad : \A V \in Bad : V \subseteq U => V = U
  <2> HIDE DEF Bad
  <2> QED
    BY <1>a, Smallest
<1>2. U \in SUBSET S /\ IsFiniteSet(U)
  BY FS_Subset
<1>3. U # {}
  <2>1. Total(f, U) \notin Nat
    OBVIOUS
  <2> HIDE DEF Bad
  <2>2. Total(f, {}) = 0
    BY TotalEmpty
  <2> QED
    BY <2>1, <2>2
<1>4. Pick(U) \in U /\ U \ {Pick(U)} \notin Bad
  BY <1>1, <1>3, Picked
<1>5. Total(f, U \ {Pick(U)}) \in Nat /\ f[Pick(U)] \in Nat
  BY <1>2, <1>4
<1>6. Total(f, U) = f[Pick(U)] + Total(f, U \ {Pick(U)})
  BY <1>2, <1>3, TotalStep
<1> QED
  BY <1>5, <1>6

\* Integer weights have an integer sum.
LEMMA TotalInteger ==
  ASSUME NEW f, NEW S, IsFiniteSet(S), \A x \in S : f[x] \in Int
  PROVE  Total(f, S) \in Int
<1> DEFINE Bad == {U \in SUBSET S : Total(f, U) \notin Int}
<1> SUFFICES ASSUME Bad # {} PROVE FALSE
  OBVIOUS
<1>a. Bad \in SUBSET SUBSET S
  OBVIOUS
<1>1. PICK U \in Bad : \A V \in Bad : V \subseteq U => V = U
  <2> HIDE DEF Bad
  <2> QED
    BY <1>a, Smallest
<1>2. U \in SUBSET S /\ IsFiniteSet(U)
  BY FS_Subset
<1>3. U # {}
  <2>1. Total(f, U) \notin Int
    OBVIOUS
  <2> HIDE DEF Bad
  <2>2. Total(f, {}) = 0
    BY TotalEmpty
  <2> QED
    BY <2>1, <2>2
<1>4. Pick(U) \in U /\ U \ {Pick(U)} \notin Bad
  BY <1>1, <1>3, Picked
<1>5. Total(f, U \ {Pick(U)}) \in Int /\ f[Pick(U)] \in Int
  BY <1>2, <1>4
<1>6. Total(f, U) = f[Pick(U)] + Total(f, U \ {Pick(U)})
  BY <1>2, <1>3, TotalStep
<1> QED
  BY <1>5, <1>6

\* Any element can be taken out of the sum, not only the picked one.
LEMMA TotalWithout ==
  ASSUME NEW f, NEW S, IsFiniteSet(S), \A y \in S : f[y] \in Int, NEW z \in S
  PROVE  Total(f, S) = f[z] + Total(f, S \ {z})
<1> DEFINE Bad == {U \in SUBSET S : \E x \in U : Total(f, U) # f[x] + Total(f, U \ {x})}
<1> SUFFICES ASSUME Bad # {} PROVE FALSE
  OBVIOUS
<1>a. Bad \in SUBSET SUBSET S
  OBVIOUS
<1>1. PICK U \in Bad : \A V \in Bad : V \subseteq U => V = U
  <2> HIDE DEF Bad
  <2> QED
    BY <1>a, Smallest
<1>b. PICK x \in U : Total(f, U) # f[x] + Total(f, U \ {x})
  BY <1>1
<1> DEFINE p == Pick(U)
<1>2. U \in SUBSET S /\ IsFiniteSet(U) /\ x \in U /\ p \in U
  BY <1>1, FS_Subset, Picked
<1>3. Total(f, U) = f[p] + Total(f, U \ {p})
  BY <1>2, TotalStep
<1>4. p # x
  BY <1>b, <1>3
<1>5. U \ {p} \notin Bad /\ U \ {x} \notin Bad
  BY <1>1, <1>2
<1> HIDE DEF p
<1>6. Total(f, U \ {p}) = f[x] + Total(f, (U \ {p}) \ {x})
  BY <1>2, <1>4, <1>5
<1>7. Total(f, U \ {x}) = f[p] + Total(f, (U \ {x}) \ {p})
  BY <1>2, <1>4, <1>5
<1>8. (U \ {p}) \ {x} = (U \ {x}) \ {p}
  OBVIOUS
<1>9. IsFiniteSet((U \ {x}) \ {p}) /\ (\A y \in (U \ {x}) \ {p} : f[y] \in Int)
  BY <1>2, FS_Subset
<1>10. Total(f, (U \ {x}) \ {p}) \in Int /\ f[x] \in Int /\ f[p] \in Int
  BY <1>2, <1>9, TotalInteger
<1>11. \A a, b, rest \in Int : a + (b + rest) = b + (a + rest)
  OBVIOUS
<1> HIDE DEF Bad
<1> DEFINE rest == Total(f, (U \ {x}) \ {p})
<1>12. Total(f, U \ {p}) = f[x] + rest /\ Total(f, U \ {x}) = f[p] + rest
  BY <1>6, <1>7, <1>8
<1>13. rest \in Int
  BY <1>10
<1> HIDE DEF rest
<1>14. f[p] + (f[x] + rest) = f[x] + (f[p] + rest)
  BY <1>10, <1>11, <1>13
<1> QED
  BY <1>b, <1>3, <1>12, <1>14

\* A set with one more element sums to that much more.
LEMMA TotalWith ==
  ASSUME NEW f, NEW S, IsFiniteSet(S), NEW z, z \notin S, \A y \in S \cup {z} : f[y] \in Int
  PROVE  Total(f, S \cup {z}) = f[z] + Total(f, S)
<1>1. IsFiniteSet(S \cup {z}) /\ (S \cup {z}) \ {z} = S
  BY FS_AddElement
<1>2. Total(f, S \cup {z}) = f[z] + Total(f, (S \cup {z}) \ {z})
  BY <1>1, TotalWithout
<1> QED
  BY <1>1, <1>2

\* Weights that are nowhere larger have a sum that is not larger; only the
\* weights of the elements count.
LEMMA TotalMonotone ==
  ASSUME NEW f, NEW g, NEW S, IsFiniteSet(S),
         \A x \in S : f[x] \in Int /\ g[x] \in Int /\ f[x] <= g[x]
  PROVE  Total(f, S) <= Total(g, S)
<1> DEFINE Bad == {U \in SUBSET S : ~(Total(f, U) <= Total(g, U))}
<1> SUFFICES ASSUME Bad # {} PROVE FALSE
  OBVIOUS
<1>a. Bad \in SUBSET SUBSET S
  OBVIOUS
<1>1. PICK U \in Bad : \A V \in Bad : V \subseteq U => V = U
  <2> HIDE DEF Bad
  <2> QED
    BY <1>a, Smallest
<1>2. U \in SUBSET S /\ IsFiniteSet(U)
  BY FS_Subset
<1>3. U # {}
  <2>1. ~(Total(f, U) <= Total(g, U))
    OBVIOUS
  <2> HIDE DEF Bad
  <2>2. Total(f, {}) = 0 /\ Total(g, {}) = 0
    BY TotalEmpty
  <2> QED
    BY <2>1, <2>2
<1> DEFINE p == Pick(U)
           R == U \ {p}
<1>4. p \in U /\ R \in SUBSET S /\ R \notin Bad /\ IsFiniteSet(R)
  BY <1>1, <1>2, <1>3, Picked, FS_Subset
<1>5. Total(f, R) <= Total(g, R)
  BY <1>4
<1>6. Total(f, U) = f[p] + Total(f, R) /\ Total(g, U) = g[p] + Total(g, R)
  BY <1>2, <1>3, TotalStep
<1>7. Total(f, R) \in Int /\ Total(g, R) \in Int /\ f[p] \in Int /\ g[p] \in Int /\ f[p] <= g[p]
  BY <1>2, <1>4, TotalInteger
<1> HIDE DEF p, R
<1> QED
  BY <1>1, <1>5, <1>6, <1>7

\* Only the weights of the elements count.
LEMMA TotalSame ==
  ASSUME NEW f, NEW g, NEW S, IsFiniteSet(S), \A x \in S : f[x] = g[x]
  PROVE  Total(f, S) = Total(g, S)
<1> DEFINE Bad == {U \in SUBSET S : Total(f, U) # Total(g, U)}
<1> SUFFICES ASSUME Bad # {} PROVE FALSE
  OBVIOUS
<1>a. Bad \in SUBSET SUBSET S
  OBVIOUS
<1>1. PICK U \in Bad : \A V \in Bad : V \subseteq U => V = U
  <2> HIDE DEF Bad
  <2> QED
    BY <1>a, Smallest
<1>2. U \in SUBSET S /\ IsFiniteSet(U)
  BY FS_Subset
<1>3. U # {}
  <2>1. Total(f, U) # Total(g, U)
    OBVIOUS
  <2> HIDE DEF Bad
  <2>2. Total(f, {}) = 0 /\ Total(g, {}) = 0
    BY TotalEmpty
  <2> QED
    BY <2>1, <2>2
<1>4. Pick(U) \in U /\ U \ {Pick(U)} \notin Bad
  BY <1>1, <1>3, Picked
<1>5. Total(f, U \ {Pick(U)}) = Total(g, U \ {Pick(U)}) /\ f[Pick(U)] = g[Pick(U)]
  BY <1>2, <1>4
<1>6. /\ Total(f, U) = f[Pick(U)] + Total(f, U \ {Pick(U)})
      /\ Total(g, U) = g[Pick(U)] + Total(g, U \ {Pick(U)})
  BY <1>2, <1>3, TotalStep
<1> QED
  BY <1>5, <1>6

\* A subset sums to no more than the set.
LEMMA TotalOfPart ==
  ASSUME NEW f, NEW S, IsFiniteSet(S), \A x \in S : f[x] \in Nat, NEW Q \in SUBSET S
  PROVE  Total(f, Q) <= Total(f, S)
<1> DEFINE Bad == {U \in SUBSET S : Q \subseteq U /\ ~(Total(f, Q) <= Total(f, U))}
<1> SUFFICES ASSUME Bad # {} PROVE FALSE
  OBVIOUS
<1>a. Bad \in SUBSET SUBSET S
  OBVIOUS
<1>1. PICK U \in Bad : \A V \in Bad : V \subseteq U => V = U
  <2> HIDE DEF Bad
  <2> QED
    BY <1>a, Smallest
<1>2. U \in SUBSET S /\ IsFiniteSet(U) /\ IsFiniteSet(Q) /\ Q \subseteq U
  BY <1>1, FS_Subset
<1>3. Total(f, Q) \in Nat
  BY <1>2, TotalType
<1>b. U # Q
  BY <1>1, <1>3
<1>4. PICK x \in U : x \notin Q
  BY <1>2, <1>b
<1>5. U \ {x} \in SUBSET S /\ Q \subseteq U \ {x} /\ U \ {x} # U /\ IsFiniteSet(U \ {x})
  BY <1>2, <1>4, FS_Subset
<1>6. Total(f, Q) <= Total(f, U \ {x})
  BY <1>1, <1>5
<1>7. Total(f, U) = f[x] + Total(f, U \ {x})
  BY <1>2, TotalWithout
<1>8. Total(f, U \ {x}) \in Nat /\ f[x] \in Nat
  BY <1>2, <1>5, TotalType
<1> QED
  BY <1>1, <1>3, <1>6, <1>7, <1>8

\* A set sums to what its two parts sum to.
LEMMA TotalSplit ==
  ASSUME NEW f, NEW S, IsFiniteSet(S), \A x \in S : f[x] \in Int, NEW Q \in SUBSET S
  PROVE  Total(f, S) = Total(f, Q) + Total(f, S \ Q)
<1> DEFINE Bad == {U \in SUBSET S : Total(f, S) # Total(f, U) + Total(f, S \ U)}
<1> SUFFICES ASSUME Bad # {} PROVE FALSE
  OBVIOUS
<1>a. Bad \in SUBSET SUBSET S
  OBVIOUS
<1>1. PICK U \in Bad : \A V \in Bad : V \subseteq U => V = U
  <2> HIDE DEF Bad
  <2> QED
    BY <1>a, Smallest
<1>2. ASSUME NEW V \in SUBSET S PROVE IsFiniteSet(V) /\ Total(f, V) \in Int
  BY FS_Subset, TotalInteger
<1>3. U # {}
  <2>1. Total(f, {}) = 0 /\ S \ {} = S /\ Total(f, S) \in Int
    BY TotalEmpty, <1>2
  <2>2. {} \notin Bad
    BY <2>1
  <2> QED
    BY <1>1, <2>2
<1> DEFINE p == Pick(U)
           V == U \ {p}
<1>4. U \in SUBSET S /\ p \in U /\ V \in SUBSET S /\ V \notin Bad
  BY <1>1, <1>3, Picked
<1>5. Total(f, U) = f[p] + Total(f, V)
  BY <1>2, <1>4, TotalStep
<1>6. p \in S \ V /\ (S \ V) \ {p} = S \ U /\ S \ V \in SUBSET S
  BY <1>4
<1>7. Total(f, S \ V) = f[p] + Total(f, S \ U)
  <2>1. Total(f, S \ V) = f[p] + Total(f, (S \ V) \ {p})
    BY <1>2, <1>6, TotalWithout
  <2> QED
    BY <1>6, <2>1
<1>8. Total(f, S) = Total(f, V) + Total(f, S \ V)
  BY <1>4
<1>9. /\ Total(f, V) \in Int /\ Total(f, S \ U) \in Int /\ f[p] \in Int
      /\ Total(f, S) # Total(f, U) + Total(f, S \ U)
  BY <1>1, <1>2, <1>4
<1> HIDE DEF p, V, Bad
<1> QED
  BY <1>5, <1>7, <1>8, <1>9

\* Differences sum to the difference of the sums.
LEMMA TotalDifference ==
  ASSUME NEW f, NEW g, NEW h, NEW S, IsFiniteSet(S),
         \A x \in S : f[x] \in Int /\ g[x] \in Int /\ h[x] = f[x] - g[x]
  PROVE  Total(h, S) = Total(f, S) - Total(g, S)
<1> DEFINE Bad == {U \in SUBSET S : Total(h, U) # Total(f, U) - Total(g, U)}
<1> SUFFICES ASSUME Bad # {} PROVE FALSE
  OBVIOUS
<1>a. Bad \in SUBSET SUBSET S
  OBVIOUS
<1>1. PICK U \in Bad : \A V \in Bad : V \subseteq U => V = U
  <2> HIDE DEF Bad
  <2> QED
    BY <1>a, Smallest
<1>2. U # {}
  <2>1. Total(f, {}) = 0 /\ Total(g, {}) = 0 /\ Total(h, {}) = 0
    BY TotalEmpty
  <2>2. {} \notin Bad
    BY <2>1
  <2> QED
    BY <1>1, <2>2
<1> DEFINE p == Pick(U)
           V == U \ {p}
<1>3. U \in SUBSET S /\ IsFiniteSet(U) /\ p \in U /\ V \in SUBSET S /\ V \notin Bad /\ IsFiniteSet(V)
  BY <1>1, <1>2, Picked, FS_Subset
<1>4. /\ Total(f, U) = f[p] + Total(f, V) /\ Total(g, U) = g[p] + Total(g, V)
      /\ Total(h, U) = h[p] + Total(h, V)
  BY <1>2, <1>3, TotalStep
<1>5. Total(f, V) \in Int /\ Total(g, V) \in Int /\ f[p] \in Int /\ g[p] \in Int /\ h[p] = f[p] - g[p]
  BY <1>3, TotalInteger
<1>6. Total(h, V) = Total(f, V) - Total(g, V) /\ Total(h, U) # Total(f, U) - Total(g, U)
  BY <1>1, <1>3
<1> HIDE DEF p, V, Bad
<1> QED
  BY <1>4, <1>5, <1>6

\* Weights that are at most a bound sum to at most their number times it.
LEMMA TotalBounded ==
  ASSUME NEW f, NEW S, IsFiniteSet(S), NEW n \in Int, \A x \in S : f[x] \in Int /\ f[x] <= n
  PROVE  Total(f, S) <= Cardinality(S) * n
<1> DEFINE Bad == {U \in SUBSET S : ~(Total(f, U) <= Cardinality(U) * n)}
<1> SUFFICES ASSUME Bad # {} PROVE FALSE
  OBVIOUS
<1>a. Bad \in SUBSET SUBSET S
  OBVIOUS
<1>1. PICK U \in Bad : \A V \in Bad : V \subseteq U => V = U
  <2> HIDE DEF Bad
  <2> QED
    BY <1>a, Smallest
<1>2. U \in SUBSET S /\ IsFiniteSet(U)
  BY FS_Subset
<1>3. U # {}
  <2>1. ~(Total(f, U) <= Cardinality(U) * n)
    OBVIOUS
  <2> HIDE DEF Bad
  <2>2. Total(f, {}) = 0 /\ Cardinality({}) = 0
    BY TotalEmpty, FS_EmptySet
  <2> QED
    BY <2>1, <2>2
<1>4. PICK p, R : p = Pick(U) /\ R = U \ {p}
  OBVIOUS
<1>5. p \in U /\ R \in SUBSET S /\ R \notin Bad /\ IsFiniteSet(R)
  BY <1>1, <1>2, <1>3, <1>4, Picked, FS_Subset
<1>6. PICK k : k = Cardinality(R)
  OBVIOUS
<1>7. k \in Nat /\ Cardinality(U) = k + 1
  BY <1>2, <1>4, <1>5, <1>6, FS_RemoveElement, FS_CardinalityType
<1>8. Total(f, R) <= k * n /\ Total(f, R) \in Int /\ Total(f, U) = f[p] + Total(f, R)
  BY <1>2, <1>3, <1>4, <1>5, <1>6, TotalStep, TotalInteger
<1>9. f[p] \in Int /\ f[p] <= n
  BY <1>2, <1>5
<1>10. (k + 1) * n = k * n + n /\ k * n \in Int
  BY <1>7
<1>11. Total(f, U) <= (k + 1) * n
  BY <1>8, <1>9, <1>10
<1>12. QED
  BY <1>1, <1>7, <1>11

\* A nonempty finite set of integers has a largest element.
LEMMA Largest ==
  ASSUME NEW E, IsFiniteSet(E), E # {}, \A x \in E : x \in Int
  PROVE  \E m \in E : \A y \in E : y <= m
<1> DEFINE T == {U \in SUBSET E : U # {} /\ \A x \in U, y \in E : x <= y => y \in U}
<1>1. T \in SUBSET SUBSET E /\ E \in T
  OBVIOUS
<1>2. PICK M \in T : \A U \in T : U \subseteq M => U = M
  <2>1. T # {}
    BY <1>1
  <2> HIDE DEF T
  <2> QED
    BY <1>1, <2>1, Smallest
<1>3. PICK m \in M : m \in E
  BY <1>2
<1>4. ASSUME NEW y \in E, m < y PROVE FALSE
  <2> DEFINE U == {j \in E : y <= j}
  <2>a. y \in U /\ \A j \in U : j \in E /\ y <= j
    BY <1>4
  <2>b. \A x \in U, z \in E : x <= z => z \in U
    OBVIOUS
  <2>c. \A j \in E : m <= j => j \in M
    BY <1>2, <1>3
  <2>d. \A j \in U : m <= j
    BY <1>3, <1>4, <2>a
  <2>1. U \in T /\ U \subseteq M
    BY <2>a, <2>b, <2>c, <2>d
  <2>2. m \in U
    BY <1>2, <1>3, <2>1
  <2> QED
    BY <1>3, <1>4, <2>2
<1>5. \A y \in E : y <= m
  BY <1>3, <1>4
<1> QED
  BY <1>3, <1>5

----------------------------------------------------------------------------
(* Whole numbers: products in order, quotients, and the least of three.    *)

LEMMA TimesMonotone ==
  ASSUME NEW a \in Int, NEW b \in Int, a <= b, NEW n \in Nat
  PROVE  a * n <= b * n
<1>1. (b - a) * n >= 0
  OBVIOUS
<1>2. (b - a) * n = b * n - a * n
  OBVIOUS
<1>3. QED
  BY <1>1, <1>2

LEMMA DivWithin ==
  ASSUME NEW a \in Int, NEW n \in Nat \ {0}
  PROVE  a \div n \in Int /\ (a \div n) * n <= a /\ a < (a \div n) * n + n
OBVIOUS

LEMMA DivIs ==
  ASSUME NEW x \in Int, NEW n \in Nat \ {0}, NEW d \in Int, d * n <= x, x < d * n + n
  PROVE  x \div n = d
<1>1. PICK e : e = x \div n /\ e \in Int /\ e * n <= x /\ x < e * n + n
  BY DivWithin
<1>2. ~(d + 1 <= e)
  <2> SUFFICES ASSUME d + 1 <= e PROVE FALSE
    OBVIOUS
  <2>1. (d + 1) * n <= e * n
    BY <1>1, TimesMonotone
  <2>2. QED
    BY <1>1, <2>1
<1>3. ~(e + 1 <= d)
  <2> SUFFICES ASSUME e + 1 <= d PROVE FALSE
    OBVIOUS
  <2>1. (e + 1) * n <= d * n
    BY <1>1, TimesMonotone
  <2>2. QED
    BY <1>1, <2>1
<1>4. QED
  BY <1>1, <1>2, <1>3

LEMMA FitsBelow ==
  ASSUME NEW x \in Int, NEW n \in Nat \ {0}, NEW d \in Int, d * n <= x
  PROVE  d <= x \div n
<1>1. PICK e : e = x \div n /\ e \in Int /\ x < e * n + n
  BY DivWithin
<1>2. SUFFICES ASSUME e + 1 <= d PROVE FALSE
  BY <1>1
<1>3. (e + 1) * n <= d * n
  BY <1>1, <1>2, TimesMonotone
<1>4. QED
  BY <1>1, <1>3

LEMMA DivMonotone ==
  ASSUME NEW a \in Int, NEW b \in Int, a <= b, NEW n \in Nat \ {0}
  PROVE  a \div n <= b \div n
<1>1. PICK d : d = a \div n /\ d \in Int /\ d * n <= a
  BY DivWithin
<1>2. d * n <= b
  BY <1>1
<1>3. QED
  BY <1>1, <1>2, FitsBelow

LEMMA DivNat == ASSUME NEW x \in Nat, NEW n \in Nat \ {0} PROVE x \div n \in Nat
<1>1. x \div n \in Int
  BY DivWithin
<1>2. 0 <= x \div n
  BY FitsBelow
<1>3. QED
  BY <1>1, <1>2

LEMMA LeastOfThree ==
  ASSUME NEW a \in Int, NEW b \in Int, NEW c \in Int
  PROVE  Min({a, b, c}) \in Int /\ Min({a, b, c}) <= c
<1>1. \E m \in {a, b, c} : \A y \in {a, b, c} : m <= y
  BY SMT
<1>2. QED
  BY <1>1 DEF Min
=============================================================================
