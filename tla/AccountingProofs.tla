-------------------------- MODULE AccountingProofs --------------------------
(***************************************************************************)
(* What sums are, and what the methods of Accounting do to any database,   *)
(* for the proofs about the modules that call them.                        *)
(***************************************************************************)
EXTENDS Accounting, FiniteSetTheorems, WellFoundedInduction, TLAPS

-----------------------------------------------------------------------------
(* Sums.  The provers have no induction over finite sets; a set that is    *)
(* smallest among those a statement fails for takes its place.             *)

\* A set of subsets of a finite set has a smallest one: what is false of a
\* finite set is false of one whose parts it is true of.
LEMMA SmallestSet ==
  ASSUME NEW S, IsFiniteSet(S), NEW A \in SUBSET (SUBSET S), A # {}
  PROVE  \E T \in A : \A U \in A : U \subseteq T => U = T
<1>1. IsWellFoundedOn(StrictSubsetOrdering(S), FiniteSubsetsOf(S))
  BY FS_StrictSubsetOrderingWellFounded
<1>2. IsWellFoundedOn(StrictSubsetOrdering(S), SUBSET S)
  BY <1>1, FS_FiniteSubsetsOfFinite
<1>3. PICK T \in A : \A U \in A : <<U, T>> \notin StrictSubsetOrdering(S)
  BY <1>2, WFMin
<1> QED
  BY <1>3 DEF StrictSubsetOrdering

\* The element of a set that a sum takes first.
First(s) == CHOOSE x \in s : TRUE

\* g has the sum of f over every subset of S.
IsSum(f, g, S) ==
  g = [s \in SUBSET S |-> IF s = {} THEN 0 ELSE f[First(s)] + g[s \ {First(s)}]]

LEMMA FirstIn ==
  ASSUME NEW s, s # {}
  PROVE  First(s) \in s
BY DEF First

LEMMA SumsAgree ==
  ASSUME NEW f, NEW S, IsFiniteSet(S), NEW R, NEW g, NEW h, IsSum(f, g, S), IsSum(f, h, R),
         NEW T, T \subseteq S, T \subseteq R
  PROVE  g[T] = h[T]
<1> DEFINE A == {U \in SUBSET S : U \subseteq R /\ g[U] # h[U]}
<1> SUFFICES ASSUME A # {} PROVE FALSE
  OBVIOUS
<1>0. A \in SUBSET (SUBSET S)
  OBVIOUS
<1>1. PICK U \in A : \A V \in A : V \subseteq U => V = U
  <2> HIDE DEF A
  <2> QED
    BY <1>0, SmallestSet
<1>2. U \in SUBSET S /\ U \in SUBSET R
  OBVIOUS
<1>3. U # {}
  BY <1>2 DEF IsSum
<1>4. First(U) \in U
  BY <1>3, FirstIn
<1> DEFINE V == U \ {First(U)}
<1>5. V \in SUBSET S /\ V \in SUBSET R /\ V # U /\ V \subseteq U
  BY <1>2, <1>4
<1>6. g[V] = h[V]
  BY <1>1, <1>5
<1>7. g[U] = f[First(U)] + g[V] /\ h[U] = f[First(U)] + h[V]
  BY <1>2, <1>3 DEF IsSum
<1> QED
  BY <1>6, <1>7

LEMMA SumExists ==
  ASSUME NEW f, NEW S, IsFiniteSet(S)
  PROVE  \E g : IsSum(f, g, S)
<1> DEFINE G == [s \in SUBSET S |-> (CHOOSE g : IsSum(f, g, s))[s]]
           Sub(T) == [s \in SUBSET T |-> G[s]]
           A == {T \in SUBSET S : ~IsSum(f, Sub(T), T)}
<1> SUFFICES ASSUME A # {} PROVE FALSE
  <2>1. S \notin A => IsSum(f, Sub(S), S)
    OBVIOUS
  <2> QED
    BY <2>1
<1>0. A \in SUBSET (SUBSET S)
  OBVIOUS
<1>1. PICK T \in A : \A U \in A : U \subseteq T => U = T
  <2> HIDE DEF A
  <2> QED
    BY <1>0, SmallestSet
<1> DEFINE Body(s) == IF s = {} THEN 0 ELSE f[First(s)] + G[s \ {First(s)}]
<1>2. \A s \in SUBSET T : s # T => G[s] = Body(s)
  <2> SUFFICES ASSUME NEW s \in SUBSET T, s # T
               PROVE  G[s] = Body(s)
    OBVIOUS
  <2>1. IsSum(f, Sub(s), s)
    BY <1>1
  <2>2. s \in SUBSET s /\ s \ {First(s)} \in SUBSET s
    OBVIOUS
  <2>3. Sub(s)[s] = IF s = {} THEN 0 ELSE f[First(s)] + Sub(s)[s \ {First(s)}]
    BY <2>1, <2>2 DEF IsSum
  <2>4. Sub(s)[s] = G[s] /\ Sub(s)[s \ {First(s)}] = G[s \ {First(s)}]
    BY <2>2
  <2> QED
    BY <2>3, <2>4
<1> DEFINE g0 == [s \in SUBSET T |-> IF s = T THEN Body(T) ELSE G[s]]
<1> HIDE DEF G
<1>3. IsSum(f, g0, T)
  <2>1. ASSUME NEW s \in SUBSET T
        PROVE  g0[s] = IF s = {} THEN 0 ELSE f[First(s)] + g0[s \ {First(s)}]
    <3>1. s # {} => s \ {First(s)} # T /\ s \ {First(s)} \in SUBSET T
      BY FirstIn
    <3>2. g0[s] = Body(s)
      BY <1>2
    <3>3. s # {} => g0[s \ {First(s)}] = G[s \ {First(s)}]
      BY <3>1
    <3> QED
      BY <3>2, <3>3
  <2>2. g0 = [s \in SUBSET T |-> IF s = {} THEN 0 ELSE f[First(s)] + g0[s \ {First(s)}]]
    BY <2>1
  <2> QED
    BY <2>2 DEF IsSum
<1> DEFINE g == CHOOSE h : IsSum(f, h, T)
<1>4. IsSum(f, g, T)
  BY <1>3
<1>5. IsFiniteSet(T)
  BY FS_Subset
<1>6. g[T] = g0[T]
  <2> HIDE DEF g, g0
  <2> QED
    BY <1>3, <1>4, <1>5, SumsAgree
<1>7. G[T] = g[T]
  BY DEF G
<1>8. G[T] = Body(T)
  BY <1>6, <1>7
<1>9. \A s \in SUBSET T : G[s] = Body(s)
  BY <1>2, <1>8
<1>10. IsSum(f, Sub(T), T)
  <2>1. ASSUME NEW s \in SUBSET T
        PROVE  Sub(T)[s] = IF s = {} THEN 0 ELSE f[First(s)] + Sub(T)[s \ {First(s)}]
    <3>1. s \ {First(s)} \in SUBSET T
      OBVIOUS
    <3> QED
      BY <1>9, <3>1
  <2>2. Sub(T) = [s \in SUBSET T |-> IF s = {} THEN 0 ELSE f[First(s)] + Sub(T)[s \ {First(s)}]]
    BY <2>1
  <2> QED
    BY <2>2 DEF IsSum
<1> QED
  BY <1>10

LEMMA TotalIsSum ==
  ASSUME NEW f, NEW S, IsFiniteSet(S)
  PROVE  \E g : IsSum(f, g, S) /\ Total(f, S) = g[S]
<1>1. \E g : IsSum(f, g, S)
  BY SumExists
<1> QED
  BY <1>1 DEF Total, MapThenSumSet, MapThenFoldSet, IsSum, First

\* What a sum is: nothing, or what it takes first and the rest.
LEMMA TotalFirst ==
  ASSUME NEW f, NEW S, IsFiniteSet(S)
  PROVE  /\ S = {} => Total(f, S) = 0
         /\ S # {} => Total(f, S) = f[First(S)] + Total(f, S \ {First(S)})
<1> DEFINE R == S \ {First(S)}
<1>1. PICK g : IsSum(f, g, S) /\ Total(f, S) = g[S]
  BY TotalIsSum
<1>2. IsFiniteSet(R)
  BY FS_Subset
<1>3. PICK h : IsSum(f, h, R) /\ Total(f, R) = h[R]
  BY <1>2, TotalIsSum
<1>4. S \in SUBSET S /\ R \in SUBSET S /\ R \in SUBSET R
  OBVIOUS
<1>5. g[R] = h[R]
  BY <1>1, <1>3, <1>4, SumsAgree
<1>6. g[S] = IF S = {} THEN 0 ELSE f[First(S)] + g[R]
  BY <1>1, <1>4 DEF IsSum
<1> QED
  BY <1>1, <1>3, <1>5, <1>6

\* A sum of natural numbers is one.
LEMMA TotalNat ==
  ASSUME NEW S, IsFiniteSet(S), NEW f, \A x \in S : f[x] \in Nat
  PROVE  Total(f, S) \in Nat
<1> DEFINE A == {T \in SUBSET S : Total(f, T) \notin Nat}
<1> SUFFICES ASSUME A # {} PROVE FALSE
  OBVIOUS
<1>1. A \in SUBSET (SUBSET S)
  OBVIOUS
<1>2. PICK T \in A : \A U \in A : U \subseteq T => U = T
  <2> HIDE DEF A
  <2> QED
    BY <1>1, SmallestSet
<1>3. IsFiniteSet(T)
  BY FS_Subset
<1>4. T # {} => /\ First(T) \in T
                /\ Total(f, T \ {First(T)}) \in Nat
  BY <1>2, FirstIn
<1> QED
  BY <1>3, <1>4, TotalFirst

\* It depends on the values it adds up, and on no other.
LEMMA TotalSame ==
  ASSUME NEW S, IsFiniteSet(S), NEW f, NEW g, \A x \in S : f[x] = g[x]
  PROVE  Total(f, S) = Total(g, S)
<1> DEFINE A == {T \in SUBSET S : Total(f, T) # Total(g, T)}
<1> SUFFICES ASSUME A # {} PROVE FALSE
  OBVIOUS
<1>1. A \in SUBSET (SUBSET S)
  OBVIOUS
<1>2. PICK T \in A : \A U \in A : U \subseteq T => U = T
  <2> HIDE DEF A
  <2> QED
    BY <1>1, SmallestSet
<1>3. IsFiniteSet(T)
  BY FS_Subset
<1>4. T # {} => /\ First(T) \in T
                /\ Total(f, T \ {First(T)}) = Total(g, T \ {First(T)})
  BY <1>2, FirstIn
<1> QED
  BY <1>3, <1>4, TotalFirst

\* The order in which a sum takes the elements makes no difference.
LEMMA TotalRemove ==
  ASSUME NEW S, IsFiniteSet(S), NEW f, \A y \in S : f[y] \in Nat, NEW x \in S
  PROVE  Total(f, S) = f[x] + Total(f, S \ {x})
<1> DEFINE A == {T \in SUBSET S : \E y \in T : Total(f, T) # f[y] + Total(f, T \ {y})}
<1> SUFFICES ASSUME A # {} PROVE FALSE
  <2>1. S \notin A
    OBVIOUS
  <2> QED
    BY <2>1
<1>1. A \in SUBSET (SUBSET S)
  OBVIOUS
<1>2. PICK T \in A : \A U \in A : U \subseteq T => U = T
  <2> HIDE DEF A
  <2> QED
    BY <1>1, SmallestSet
<1>3. PICK y \in T : Total(f, T) # f[y] + Total(f, T \ {y})
  OBVIOUS
<1> DEFINE z == First(T)
<1>4. /\ z \in T /\ f[z] \in Nat /\ f[y] \in Nat
      /\ Total(f, T) = f[z] + Total(f, T \ {z})
  BY <1>3, FS_Subset, FirstIn, TotalFirst
<1>5. y # z
  BY <1>3, <1>4
<1> HIDE DEF z
<1> DEFINE U == T \ {y, z}
<1>6. /\ (T \ {z}) \ {y} = U /\ (T \ {y}) \ {z} = U
      /\ T \ {z} # T /\ T \ {y} # T /\ y \in T \ {z} /\ z \in T \ {y}
      /\ T \ {z} \in SUBSET S /\ T \ {y} \in SUBSET S
  BY <1>3, <1>4, <1>5
<1>7. T \ {z} \notin A /\ T \ {y} \notin A
  <2> HIDE DEF A
  <2> QED
    BY <1>2, <1>6
<1>8. Total(f, T \ {z}) = f[y] + Total(f, U)
  BY <1>6, <1>7
<1>9. Total(f, T \ {y}) = f[z] + Total(f, U)
  BY <1>6, <1>7
<1>10. Total(f, U) \in Nat
  <2>1. U \in SUBSET S
    OBVIOUS
  <2>2. IsFiniteSet(U)
    BY <2>1, FS_Subset
  <2> QED
    BY <2>1, <2>2, TotalNat
<1> HIDE DEF U, A
<1> QED
  BY <1>3, <1>4, <1>8, <1>9, <1>10

LEMMA TotalEmpty == \A f : Total(f, {}) = 0
BY FS_EmptySet, TotalFirst

LEMMA TotalAdd ==
  ASSUME NEW S, IsFiniteSet(S), NEW f, NEW x, x \notin S,
         \A y \in S \cup {x} : f[y] \in Nat
  PROVE  Total(f, S \cup {x}) = f[x] + Total(f, S)
<1>1. IsFiniteSet(S \cup {x}) /\ x \in S \cup {x} /\ (S \cup {x}) \ {x} = S
  BY FS_AddElement
<1> QED
  BY <1>1, TotalRemove

\* A value that changes changes the sum by as much.
LEMMA TotalChange ==
  ASSUME NEW S, IsFiniteSet(S), NEW f, NEW g, NEW x \in S,
         \A y \in S : f[y] \in Nat /\ g[y] \in Nat, \A y \in S \ {x} : f[y] = g[y]
  PROVE  Total(g, S) + f[x] = Total(f, S) + g[x]
<1>1. IsFiniteSet(S \ {x})
  BY FS_Subset
<1>2. Total(f, S \ {x}) = Total(g, S \ {x}) /\ Total(f, S \ {x}) \in Nat
  BY <1>1, TotalSame, TotalNat
<1>3. Total(f, S) = f[x] + Total(f, S \ {x}) /\ Total(g, S) = g[x] + Total(g, S \ {x})
  BY TotalRemove
<1> QED
  BY <1>2, <1>3

\* The sum of sums.
LEMMA TotalPlus ==
  ASSUME NEW S, IsFiniteSet(S), NEW f, NEW g, NEW h,
         \A y \in S : f[y] \in Nat /\ g[y] \in Nat /\ h[y] = f[y] + g[y]
  PROVE  Total(h, S) = Total(f, S) + Total(g, S)
<1> DEFINE A == {T \in SUBSET S : Total(h, T) # Total(f, T) + Total(g, T)}
<1> SUFFICES ASSUME A # {} PROVE FALSE
  OBVIOUS
<1>1. A \in SUBSET (SUBSET S)
  OBVIOUS
<1>2. PICK T \in A : \A U \in A : U \subseteq T => U = T
  <2> HIDE DEF A
  <2> QED
    BY <1>1, SmallestSet
<1>3. IsFiniteSet(T)
  BY FS_Subset
<1> DEFINE R == T \ {First(T)}
<1>4. T # {} => First(T) \in T /\ Total(h, R) = Total(f, R) + Total(g, R)
  BY <1>2, FirstIn
<1>5. IsFiniteSet(R) /\ R \in SUBSET S
  BY FS_Subset
<1>6. Total(f, R) \in Nat /\ Total(g, R) \in Nat
  BY <1>5, TotalNat
<1>7. T # {} => /\ Total(h, T) = h[First(T)] + Total(h, R)
                /\ Total(f, T) = f[First(T)] + Total(f, R)
                /\ Total(g, T) = g[First(T)] + Total(g, R)
  BY <1>3, TotalFirst
<1>8. T = {} => Total(h, T) = 0 /\ Total(f, T) = 0 /\ Total(g, T) = 0
  BY TotalEmpty
<1>9. Total(h, T) # Total(f, T) + Total(g, T) /\ T \in SUBSET S
  OBVIOUS
<1> HIDE DEF R, A
<1> QED
  BY <1>4, <1>6, <1>7, <1>8, <1>9

\* A part of a sum is not greater than the sum.
LEMMA TotalPart ==
  ASSUME NEW S, IsFiniteSet(S), NEW f, \A y \in S : f[y] \in Nat, NEW R \in SUBSET S
  PROVE  Total(f, R) <= Total(f, S)
<1> DEFINE A == {T \in SUBSET S : ~(Total(f, R \cap T) <= Total(f, T))}
<1> SUFFICES ASSUME A # {} PROVE FALSE
  <2>1. S \notin A /\ R \cap S = R
    OBVIOUS
  <2> QED
    BY <2>1
<1>1. A \in SUBSET (SUBSET S)
  OBVIOUS
<1>2. PICK T \in A : \A U \in A : U \subseteq T => U = T
  <2> HIDE DEF A
  <2> QED
    BY <1>1, SmallestSet
<1> DEFINE x == First(T)
           U == T \ {x}
<1>3. IsFiniteSet(T) /\ IsFiniteSet(U) /\ IsFiniteSet(R \cap T) /\ IsFiniteSet(R \cap U)
  BY FS_Subset
<1>4. T # {}
  BY <1>3, TotalEmpty
<1>5. x \in T /\ f[x] \in Nat /\ Total(f, T) = f[x] + Total(f, U)
  BY <1>3, <1>4, FirstIn, TotalFirst
<1> HIDE DEF x
<1>6. Total(f, R \cap U) <= Total(f, U)
  BY <1>2, <1>5
<1>7. /\ Total(f, R \cap U) \in Nat /\ Total(f, U) \in Nat
  BY <1>3, TotalNat
<1>8. CASE x \in R
  <2>1. x \in R \cap T /\ (R \cap T) \ {x} = R \cap U
    BY <1>5, <1>8
  <2>2. Total(f, R \cap T) = f[x] + Total(f, R \cap U)
    BY <1>3, <2>1, TotalRemove
  <2> QED
    BY <1>5, <1>6, <1>7, <2>2
<1>9. CASE x \notin R
  <2>1. R \cap T = R \cap U
    BY <1>9
  <2>2. ~(Total(f, R \cap T) <= Total(f, T))
    OBVIOUS
  <2>3. Total(f, R \cap T) = Total(f, R \cap U)
    BY <2>1
  <2> DEFINE t == Total(f, R \cap T)
             u == Total(f, R \cap U)
  <2> HIDE DEF U, A, t, u
  <2>4. t = u /\ u <= Total(f, U) /\ u \in Nat /\ ~(t <= Total(f, T))
    BY <1>6, <1>7, <2>2, <2>3 DEF t, u
  <2> QED
    BY <1>5, <1>7, <2>4
<1> QED
  BY <1>8, <1>9

\* A bound on every value, by the same factors, is one on the sum.
LEMMA TotalBound ==
  ASSUME NEW S, IsFiniteSet(S), NEW f, NEW g, NEW p \in Nat, NEW q \in Nat,
         \A y \in S : f[y] \in Nat /\ g[y] \in Nat /\ p * f[y] <= q * g[y]
  PROVE  p * Total(f, S) <= q * Total(g, S)
<1> DEFINE A == {T \in SUBSET S : ~(p * Total(f, T) <= q * Total(g, T))}
<1> SUFFICES ASSUME A # {} PROVE FALSE
  OBVIOUS
<1>1. A \in SUBSET (SUBSET S)
  OBVIOUS
<1>2. PICK T \in A : \A U \in A : U \subseteq T => U = T
  <2> HIDE DEF A
  <2> QED
    BY <1>1, SmallestSet
<1> DEFINE x == First(T)
           U == T \ {x}
<1>3. IsFiniteSet(T) /\ IsFiniteSet(U)
  BY FS_Subset
<1>4. T # {}
  <2>1. Total(f, {}) = 0 /\ Total(g, {}) = 0 /\ p * 0 <= q * 0
    BY TotalEmpty
  <2>2. ~(p * Total(f, T) <= q * Total(g, T))
    OBVIOUS
  <2> QED
    BY <2>1, <2>2
<1>5. /\ x \in T /\ x \in S
      /\ Total(f, T) = f[x] + Total(f, U)
      /\ Total(g, T) = g[x] + Total(g, U)
  BY <1>3, <1>4, FirstIn, TotalFirst
<1>6. p * Total(f, U) <= q * Total(g, U)
  BY <1>2, <1>5
<1>7. Total(f, U) \in Nat /\ Total(g, U) \in Nat
  BY <1>3, TotalNat
<1>8. ~(p * Total(f, T) <= q * Total(g, T))
  OBVIOUS
<1> HIDE DEF x, U, A
<1>9. p * f[x] <= q * g[x] /\ f[x] \in Nat /\ g[x] \in Nat
  BY <1>5
<1>10. ASSUME NEW a \in Nat, NEW b \in Nat, NEW c \in Nat, NEW d \in Nat,
              p * a <= q * b, p * c <= q * d
       PROVE  p * (a + c) <= q * (b + d)
  <2>1. p * (a + c) = p * a + p * c /\ q * (b + d) = q * b + q * d
    OBVIOUS
  <2> QED
    BY <1>10, <2>1
<1> QED
  BY <1>5, <1>6, <1>7, <1>8, <1>9, <1>10

-----------------------------------------------------------------------------
(* Every method of Accounting maps databases to databases.                 *)

LEMMA MatureBlockType ==
  ASSUME NEW d \in Ledger, NEW b \in Blocks
  PROVE  MatureBlock(d, b) \in Ledger
<1> DEFINE owed == [m \in Miners |-> d.owed[m] + d.credits[b][m]]
           status == [d.status EXCEPT ![b] = "matured"]
<1>1. owed \in [Miners -> Nat]
  BY DEF Ledger
<1>2. status \in [Blocks -> BlockStatus]
  BY DEF Ledger, BlockStatus
<1> HIDE DEF owed, status
<1>3. [d EXCEPT !.owed = owed, !.status = status] \in Ledger
  BY <1>1, <1>2 DEF Ledger
<1> QED
  BY <1>3 DEF MatureBlock, owed, status

LEMMA OrphanBlockType ==
  ASSUME NEW d \in Ledger, NEW b \in Blocks
  PROVE  OrphanBlock(d, b) \in Ledger
<1> DEFINE credits == [d.credits EXCEPT ![b] = Nothing]
           fate == IF d.status[b] = "immature" THEN "orphaned" ELSE d.status[b]
           status == [d.status EXCEPT ![b] = fate]
<1>1. credits \in [Blocks -> [Miners -> Nat]]
  BY DEF Ledger, Nothing
<1>2. status \in [Blocks -> BlockStatus]
  BY DEF Ledger, BlockStatus
<1> HIDE DEF credits, status
<1>3. [d EXCEPT !.credits = credits, !.status = status] \in Ledger
  BY <1>1, <1>2 DEF Ledger
<1> QED
  BY <1>3 DEF OrphanBlock, credits, status

LEMMA BeginPayoutType ==
  ASSUME NEW d \in Ledger, NEW c \in Comments, NEW items \in [Miners -> Nat]
  PROVE  BeginPayout(d, c, items) \in Ledger
BY DEF BeginPayout, Ledger, Intent

LEMMA SetPayoutTxidType ==
  ASSUME NEW d \in Ledger, NEW c \in Comments
  PROVE  SetPayoutTxid(d, c) \in Ledger
BY DEF SetPayoutTxid, Ledger, Intent, Pending

LEMMA ClearPayoutType ==
  ASSUME NEW d \in Ledger, NEW c \in Comments
  PROVE  ClearPayout(d, c) \in Ledger
BY DEF ClearPayout, Ledger, Intent, NoIntent, Nothing

LEMMA RecordPayoutsType ==
  ASSUME NEW d \in Ledger, NEW c \in Comments, NEW items \in [Miners -> Nat]
  PROVE  RecordPayouts(d, c, items) \in Ledger
<1> DEFINE pending == [d.pending EXCEPT ![c] = NoIntent]
           owed == [m \in Miners |-> Clamp(d.owed[m] - items[m])]
           paid == [m \in Miners |-> d.paid[m] + items[m]]
<1>1. pending \in [Comments -> Intent]
  BY DEF Ledger, Intent, NoIntent, Nothing
<1>2. owed \in [Miners -> Nat] /\ paid \in [Miners -> Nat]
  BY DEF Ledger, Clamp
<1> HIDE DEF pending, owed, paid
<1>3. [d EXCEPT !.pending = pending, !.owed = owed, !.paid = paid] \in Ledger
  BY <1>1, <1>2 DEF Ledger
<1> QED
  BY <1>3 DEF RecordPayouts, pending, owed, paid

LEMMA AdjustBalanceType ==
  ASSUME NEW d \in Ledger, NEW m \in Miners, NEW delta \in Int
  PROVE  AdjustBalance(d, m, delta) \in Ledger
BY DEF AdjustBalance, Ledger, Clamp

LEMMA SweepStaleType ==
  ASSUME NEW d \in Ledger, NEW idle \in SUBSET Miners
  PROVE  /\ SweepStale(d, idle) \in Ledger
         /\ Total(d.owed, Swept(d, idle)) \in Nat
         /\ IsFiniteSet(Swept(d, idle))
<1>1. Swept(d, idle) \in SUBSET Miners /\ \A m \in Miners : d.owed[m] \in Nat
  BY DEF Swept, Ledger
<1>2. IsFiniteSet(Swept(d, idle))
  BY <1>1, TablesFinite, FS_Subset
<1>3. Total(d.owed, Swept(d, idle)) \in Nat
  BY <1>1, <1>2, TotalNat
<1> DEFINE sum == Total(d.owed, Swept(d, idle))
          owed == [m \in Miners |->
                     CASE m \in Swept(d, idle) -> 0
                       [] m = Faucet           -> d.owed[m] + sum
                       [] OTHER                -> d.owed[m]]
<1>4. Faucet \notin Swept(d, idle)
  BY DEF Swept
<1>5. ASSUME NEW m \in Miners
      PROVE  owed[m] \in Nat
  <2> HIDE DEF sum
  <2>1. sum \in Nat /\ d.owed[m] \in Nat
    BY <1>1, <1>3 DEF sum
  <2>2. d.owed[m] + sum \in Nat
    BY <2>1
  <2> QED
    BY <1>4, <2>1, <2>2
<1>6. owed \in [Miners -> Nat]
  BY <1>5
<1>7. SweepStale(d, idle) = [d EXCEPT !.owed = owed]
  BY DEF SweepStale
<1> HIDE DEF owed
<1>8. SweepStale(d, idle) \in Ledger
  BY <1>6, <1>7 DEF Ledger
<1> QED
  BY <1>2, <1>3, <1>8

LEMMA PendingType ==
  ASSUME NEW d \in Ledger
  PROVE  /\ d.pending \in [Comments -> Intent]
         /\ d.owed \in [Miners -> Nat]
         /\ d.paid \in [Miners -> Nat]
BY DEF Ledger

LEMMA NoIntentType == NoIntent \in Intent
BY DEF NoIntent, Intent, Nothing

LEMMA EmptyLedgerType == EmptyLedger \in Ledger
BY NoIntentType DEF EmptyLedger, Ledger, Nothing, BlockStatus

-----------------------------------------------------------------------------
(* What each method leaves alone, and what it does to the intents.         *)

LEMMA MaturityKeeps ==
  ASSUME NEW d \in Ledger, NEW b \in Blocks
  PROVE  /\ MatureBlock(d, b).pending = d.pending /\ MatureBlock(d, b).paid = d.paid
         /\ OrphanBlock(d, b).pending = d.pending /\ OrphanBlock(d, b).paid = d.paid
BY DEF MatureBlock, OrphanBlock, Ledger

LEMMA CreditBlockDoes ==
  ASSUME NEW d \in Ledger, NEW b \in Blocks, NEW split \in [Miners -> Nat]
  PROVE  LET e == CreditBlock(d, b, split)
         IN  /\ e \in Ledger
             /\ e.owed = d.owed
             /\ d.status[b] # "none" => e = d
             /\ d.status[b] = "none" =>
                  /\ e.status[b] = "immature" /\ e.credits[b] = split
                  /\ \A x \in Blocks \ {b} :
                       e.status[x] = d.status[x] /\ e.credits[x] = d.credits[x]
<1> DEFINE status == [d.status EXCEPT ![b] = "immature"]
           credits == [d.credits EXCEPT ![b] = split]
           e == [d EXCEPT !.status = status, !.credits = credits]
<1>1. status \in [Blocks -> BlockStatus] /\ credits \in [Blocks -> [Miners -> Nat]]
  BY DEF Ledger, BlockStatus
<1>2. /\ status[b] = "immature" /\ credits[b] = split
      /\ \A x \in Blocks \ {b} : status[x] = d.status[x] /\ credits[x] = d.credits[x]
  BY DEF Ledger
<1> HIDE DEF status, credits
<1>3. e \in Ledger /\ e.status = status /\ e.credits = credits /\ e.owed = d.owed
  BY <1>1 DEF Ledger
<1>4. CreditBlock(d, b, split) = IF d.status[b] # "none" THEN d ELSE e
  BY DEF CreditBlock, status, credits
<1> HIDE DEF e
<1> QED
  BY <1>2, <1>3, <1>4

LEMMA MatureBlockDoes ==
  ASSUME NEW d \in Ledger, NEW b \in Blocks
  PROVE  LET e == MatureBlock(d, b)
         IN  /\ e \in Ledger
             /\ e.credits = d.credits
             /\ d.status[b] # "immature" => e = d
             /\ d.status[b] = "immature" =>
                  /\ e.status[b] = "matured"
                  /\ \A x \in Blocks \ {b} : e.status[x] = d.status[x]
                  /\ \A m \in Miners : e.owed[m] = d.owed[m] + d.credits[b][m]
<1> DEFINE status == [d.status EXCEPT ![b] = "matured"]
           owed == [m \in Miners |-> d.owed[m] + d.credits[b][m]]
           e == [d EXCEPT !.owed = owed, !.status = status]
<1>1. /\ status[b] = "matured"
      /\ \A x \in Blocks \ {b} : status[x] = d.status[x]
  BY DEF Ledger
<1>2. \A m \in Miners : owed[m] = d.owed[m] + d.credits[b][m]
  OBVIOUS
<1>3. MatureBlock(d, b) = IF d.status[b] # "immature" THEN d ELSE e
  BY DEF MatureBlock
<1> HIDE DEF status, owed
<1>4. e.status = status /\ e.credits = d.credits /\ e.owed = owed
  BY DEF Ledger
<1> HIDE DEF e
<1> QED
  BY <1>1, <1>2, <1>3, <1>4, MatureBlockType

LEMMA OrphanBlockDoes ==
  ASSUME NEW d \in Ledger, NEW b \in Blocks
  PROVE  LET e == OrphanBlock(d, b)
         IN  /\ e \in Ledger
             /\ e.owed = d.owed
             /\ e.status[b] = IF d.status[b] = "immature" THEN "orphaned" ELSE d.status[b]
             /\ \A x \in Blocks \ {b} :
                  e.status[x] = d.status[x] /\ e.credits[x] = d.credits[x]
<1> DEFINE fate == IF d.status[b] = "immature" THEN "orphaned" ELSE d.status[b]
           status == [d.status EXCEPT ![b] = fate]
           credits == [d.credits EXCEPT ![b] = Nothing]
           e == [d EXCEPT !.credits = credits, !.status = status]
<1>1. /\ status[b] = fate
      /\ \A x \in Blocks \ {b} : status[x] = d.status[x] /\ credits[x] = d.credits[x]
  BY DEF Ledger
<1>2. OrphanBlock(d, b) = e
  BY DEF OrphanBlock
<1> HIDE DEF status, credits
<1>3. e.status = status /\ e.credits = credits /\ e.owed = d.owed
  BY DEF Ledger
<1> HIDE DEF e
<1> QED
  BY <1>1, <1>2, <1>3, OrphanBlockType

LEMMA SweepKeeps ==
  ASSUME NEW d \in Ledger, NEW idle \in SUBSET Miners
  PROVE  SweepStale(d, idle).pending = d.pending /\ SweepStale(d, idle).paid = d.paid
BY DEF SweepStale, Ledger

LEMMA BeginPayoutDoes ==
  ASSUME NEW d \in Ledger, NEW c \in Comments, NEW items \in [Miners -> Nat]
  PROVE  /\ BeginPayout(d, c, items).paid = d.paid
         /\ BeginPayout(d, c, items).pending[c].txid = "null"
         /\ BeginPayout(d, c, items).pending[c].items = items
         /\ \A k \in Comments \ {c} : BeginPayout(d, c, items).pending[k] = d.pending[k]
BY DEF BeginPayout, Ledger

LEMMA SetPayoutTxidDoes ==
  ASSUME NEW d \in Ledger, NEW c \in Comments
  PROVE  /\ SetPayoutTxid(d, c).paid = d.paid
         /\ SetPayoutTxid(d, c).pending[c].txid =
              IF Pending(d, c) THEN "known" ELSE "absent"
         /\ SetPayoutTxid(d, c).pending[c].items = d.pending[c].items
         /\ \A k \in Comments \ {c} : SetPayoutTxid(d, c).pending[k] = d.pending[k]
BY DEF SetPayoutTxid, Ledger, Pending, Intent

LEMMA ClearPayoutDoes ==
  ASSUME NEW d \in Ledger, NEW c \in Comments
  PROVE  /\ ClearPayout(d, c).paid = d.paid
         /\ ClearPayout(d, c).pending[c].txid = "absent"
         /\ \A k \in Comments \ {c} : ClearPayout(d, c).pending[k] = d.pending[k]
BY DEF ClearPayout, Ledger, NoIntent

LEMMA RecordPayoutsDoes ==
  ASSUME NEW d \in Ledger, NEW c \in Comments, NEW items \in [Miners -> Nat]
  PROVE  /\ RecordPayouts(d, c, items).paid =
              IF Pending(d, c) THEN [m \in Miners |-> d.paid[m] + items[m]] ELSE d.paid
         /\ RecordPayouts(d, c, items).pending[c].txid = "absent"
         /\ \A k \in Comments \ {c} : RecordPayouts(d, c, items).pending[k] = d.pending[k]
BY DEF RecordPayouts, Ledger, NoIntent, Pending
=============================================================================
