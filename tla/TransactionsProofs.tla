------------------------- MODULE TransactionsProofs -------------------------
(***************************************************************************)
(* Proofs about Transactions and TransactionEngine, for any accounts,      *)
(* finite sets of transactions, orders of the accounts, fees, reserve and  *)
(* number of passes.                                                       *)
(*                                                                         *)
(* The walks over transactions are folds.  A fold is unfolded into a       *)
(* function on the subsets of what it walks over, and what it preserves is *)
(* proved by induction on the subsets (SubsetInduction).  LedgerOK is the  *)
(* invariant of one ledger, LedgerInv that of the state, RelayInv that of  *)
(* the HashRouter, FateInv says what has become of what the server held.   *)
(***************************************************************************)
EXTENDS Transactions, FiniteSetTheorems, WellFoundedInduction, TLAPS

USE ZenonT(10), SMTT(30)

-----------------------------------------------------------------------------
\* A set of naturals has a least element, and one that holds 0 and every successor holds
\* all naturals.
LEMMA Smallest ==
    ASSUME NEW T, T \subseteq Nat, T # {}
    PROVE  \E n \in T : \A m \in T : n <= m
<1> DEFINE R == OpToRel(<, Nat)
<1>1. IsWellFoundedOn(R, Nat)
  BY NatLessThanWellFounded
<1>2. \A m, n \in Nat : m < n => <<m, n>> \in R
  BY DEF OpToRel
<1> HIDE DEF R
<1>3. PICK n \in T : \A m \in T : ~(<<m, n>> \in R)
  BY <1>1, WFMin
<1>4. \A m \in T : n <= m
  <2> TAKE m \in T
  <2>1. ~(m < n)
    BY <1>2, <1>3
  <2> QED BY <2>1
<1> QED BY <1>4

LEMMA AllNaturals ==
    ASSUME NEW T, T \subseteq Nat, 0 \in T, \A n \in T : n + 1 \in T
    PROVE  T = Nat
<1> DEFINE U == Nat \ T
<1> SUFFICES ASSUME U # {} PROVE FALSE
  OBVIOUS
<1>1. PICK n \in U : \A m \in U : n <= m
  BY Smallest
<1>2. n - 1 \in Nat /\ n - 1 \notin U
  BY <1>1
<1>3. (n - 1) + 1 = n
  BY <1>1
<1> QED BY <1>1, <1>2, <1>3

\* Induction over the subsets of a finite set.
Hereditary(T, S) == \A s \in SUBSET S : (\A x \in s : s \ {x} \in T) => s \in T

LEMMA SubsetInduction ==
    ASSUME NEW S, IsFiniteSet(S), NEW T, Hereditary(T, S)
    PROVE  SUBSET S \subseteq T
<1> DEFINE B == (SUBSET S) \ T
           N == {n \in Nat : \E s \in B : Cardinality(s) = n}
<1> SUFFICES ASSUME B # {} PROVE FALSE
  OBVIOUS
<1>1. \A s \in B : IsFiniteSet(s) /\ Cardinality(s) \in Nat
  BY FS_Subset, FS_CardinalityType
<1>2. N \subseteq Nat /\ N # {}
  BY <1>1
<1>3. PICK n \in N : \A m \in N : n <= m
  <2> HIDE DEF N
  <2> QED BY <1>2, Smallest
<1>4. PICK s \in B : Cardinality(s) = n
  BY <1>3
<1>5. ASSUME NEW x \in s PROVE s \ {x} \in T
  <2> SUFFICES ASSUME s \ {x} \in B PROVE FALSE
    BY <1>4
  <2>1. Cardinality(s \ {x}) = n - 1
    BY <1>1, <1>4, FS_RemoveElement
  <2>2. Cardinality(s \ {x}) \in N
    BY <1>1
  <2>3. n \in Nat /\ n <= n - 1
    BY <1>3, <2>1, <2>2
  <2> QED BY <2>3
<1> QED BY <1>4, <1>5 DEF Hereditary

-----------------------------------------------------------------------------
\* What MapThenFoldSet recurses on exists: b for the empty set, and for another one the step
\* from what its subset without the picked element has.  V is what the steps stay in.
IsFold(f, S, b, pick, step) ==
    f = [s \in SUBSET S |-> IF s = {} THEN b ELSE step[<<f[s \ {pick[s]}], pick[s]>>]]

Picks(pick, S) == \A s \in SUBSET S : s # {} => pick[s] \in s

StaysIn(V, step, S) == \A v \in V, x \in S : step[<<v, x>>] \in V

LEMMA FoldExists ==
    ASSUME NEW S, IsFiniteSet(S), NEW V, NEW b \in V,
           NEW pick, Picks(pick, S), NEW step, StaysIn(V, step, S)
    PROVE  \E f : f \in [SUBSET S -> V] /\ IsFold(f, S, b, pick, step)
<1> DEFINE D(n) == {s \in SUBSET S : Cardinality(s) <= n}
           e(f, s) == IF s = {} THEN b ELSE step[<<f[s \ {pick[s]}], pick[s]>>]
           E == {n \in Nat : \E f \in [D(n) -> V] : \A s \in D(n) : f[s] = e(f, s)}
<1>1. ASSUME NEW s \in SUBSET S
      PROVE  /\ IsFiniteSet(s) /\ Cardinality(s) \in Nat /\ Cardinality(s) <= Cardinality(S)
             /\ Cardinality(s) = 0 <=> s = {}
             /\ \A x \in s : Cardinality(s \ {x}) = Cardinality(s) - 1
  BY FS_Subset, FS_CardinalityType, FS_EmptySet, FS_RemoveElement
<1>2. 0 \in E
  <2> DEFINE f == [s \in D(0) |-> b]
  <2>1. \A s \in D(0) : s = {}
    BY <1>1
  <2>2. f \in [D(0) -> V] /\ \A s \in D(0) : f[s] = e(f, s)
    BY <2>1
  <2> QED BY <2>2
<1>3. ASSUME NEW n \in E PROVE n + 1 \in E
  <2> DEFINE m == n + 1
  <2>0. n \in Nat /\ m \in Nat /\ n < m
    OBVIOUS
  <2>1. PICK f \in [D(n) -> V] : \A s \in D(n) : f[s] = e(f, s)
    BY <1>3
  <2> DEFINE g == [s \in D(m) |-> IF s \in D(n) THEN f[s] ELSE e(f, s)]
  <2>2. ASSUME NEW s \in D(m), s # {} PROVE s \ {pick[s]} \in D(n)
    <3>0. s \in SUBSET S /\ s # {}
      BY <2>2
    <3>1. pick[s] \in s /\ s \in SUBSET S
      BY <3>0 DEF Picks
    <3>2. Cardinality(s \ {pick[s]}) = Cardinality(s) - 1 /\ Cardinality(s) \in Nat
      BY <1>1, <3>1
    <3>3. Cardinality(s) <= n + 1
      OBVIOUS
    <3>4. Cardinality(s) - 1 <= n
      BY <2>0, <3>2, <3>3
    <3> QED BY <3>1, <3>2, <3>4
  <2>3. ASSUME NEW s \in D(m) PROVE e(f, s) \in V
    <3>1. CASE s = {}
      BY <3>1
    <3>2. CASE s # {}
      <4>1. f[s \ {pick[s]}] \in V /\ pick[s] \in S
        BY <2>2, <3>2 DEF Picks
      <4> QED BY <3>2, <4>1 DEF StaysIn
    <3> QED BY <3>1, <3>2
  <2>4. g \in [D(m) -> V]
    BY <2>3
  <2>5. ASSUME NEW s \in D(m) PROVE g[s] = e(f, s) /\ e(g, s) = e(f, s)
    <3>1. g[s] = e(f, s)
      BY <2>1
    <3>2. s # {} => g[s \ {pick[s]}] = f[s \ {pick[s]}]
      <4> SUFFICES ASSUME s # {} PROVE g[s \ {pick[s]}] = f[s \ {pick[s]}]
        OBVIOUS
      <4> DEFINE r == s \ {pick[s]}
      <4>1. r \in D(n)
        BY <2>2
      <4>2. r \in D(m)
        BY <4>1, <2>0, <1>1
      <4> HIDE DEF r
      <4>3. g[r] = f[r]
        BY <4>1, <4>2
      <4> QED BY <4>3 DEF r
    <3> QED BY <3>1, <3>2
  <2> HIDE DEF m, g, D, e
  <2>6. \A s \in D(m) : g[s] = e(g, s)
    BY <2>5
  <2>7. m \in E
    BY <2>0, <2>4, <2>6
  <2> QED BY <2>7 DEF m
<1> HIDE DEF E
<1>4. E = Nat
  <2>1. E \subseteq Nat
    BY DEF E
  <2> QED BY <2>1, <1>2, <1>3, AllNaturals
<1> DEFINE n == Cardinality(S)
<1>5. n \in E
  BY <1>4, FS_CardinalityType
<1>6. D(n) = SUBSET S
  BY <1>1
<1>7. PICK f \in [D(n) -> V] : \A s \in D(n) : f[s] = e(f, s)
  BY <1>5 DEF E
<1>8. f \in [SUBSET S -> V] /\ \A s \in SUBSET S : f[s] = e(f, s)
  <2> HIDE DEF D, e, n
  <2> QED BY <1>6, <1>7
<1>9. f = [s \in SUBSET S |-> e(f, s)]
  <2> HIDE DEF e
  <2> QED BY <1>8
<1> QED BY <1>8, <1>9 DEF IsFold

\* A finite set has an element that no other comes after, in an order that is transitive and
\* has no element come after itself.
StrictOn(order, S) ==
    /\ \A t \in S : <<t, t>> \notin order
    /\ \A t, u, v \in S : <<t, u>> \in order /\ <<u, v>> \in order => <<t, v>> \in order

LEMMA Maximal ==
    ASSUME NEW S, IsFiniteSet(S), NEW order, StrictOn(order, S), NEW s, s \subseteq S, s # {}
    PROVE  \E t \in s : \A u \in s : <<t, u>> \notin order
<1> DEFINE T == {r \in SUBSET S : r = {} \/ \E t \in r : \A u \in r : <<t, u>> \notin order}
<1>1. ASSUME NEW r \in SUBSET S, \A x \in r : r \ {x} \in T PROVE r \in T
  <2> SUFFICES ASSUME r # {} PROVE \E t \in r : \A u \in r : <<t, u>> \notin order
    OBVIOUS
  <2>1. PICK x \in r : TRUE
    OBVIOUS
  <2>2. r \ {x} \in T
    BY <1>1
  <2>3. CASE r \ {x} = {}
    BY <2>3 DEF StrictOn
  <2>4. CASE r \ {x} # {}
    <3>1. PICK t \in r \ {x} : \A u \in r \ {x} : <<t, u>> \notin order
      BY <2>2, <2>4
    <3>2. CASE <<t, x>> \notin order
      BY <3>1, <3>2
    <3>3. CASE <<t, x>> \in order
      <4>1. \A u \in r : <<x, u>> \notin order
        BY <3>1, <3>3 DEF StrictOn
      <4> QED BY <4>1
    <3> QED BY <3>2, <3>3
  <2> QED BY <2>3, <2>4
<1> HIDE DEF T
<1>2. SUBSET S \subseteq T
  <2>1. Hereditary(T, S)
    BY <1>1 DEF Hereditary
  <2> QED BY <2>1, SubsetInduction, Zenon
<1> QED BY <1>2 DEF T

LEMMA LastExists ==
    ASSUME NEW S, IsFiniteSet(S), NEW order, StrictOn(order, S), NEW s, s \subseteq S, s # {}
    PROVE  LastIn(order, s) \in s
BY Maximal DEF LastIn

LEMMA MaxExists ==
    ASSUME NEW S, IsFiniteSet(S), S \subseteq Nat, NEW s, s \subseteq S, s # {}
    PROVE  Max(s) \in s /\ \A n \in s : n <= Max(s)
<1> DEFINE order == {p \in S \X S : p[1] < p[2]}
<1>1. \A m, n \in S : <<m, n>> \in order <=> m < n
  OBVIOUS
<1> HIDE DEF order
<1>2. StrictOn(order, S)
  BY <1>1 DEF StrictOn
<1>3. PICK m \in s : \A n \in s : <<m, n>> \notin order
  BY <1>2, Maximal
<1>4. \A n \in s : m >= n
  <2> TAKE n \in s
  <2>1. m \in S /\ n \in S /\ m \in Nat /\ n \in Nat
    OBVIOUS
  <2>2. ~(m < n)
    BY <1>1, <1>3, <2>1
  <2> QED BY <2>1, <2>2
<1>5. Max(s) \in s /\ \A n \in s : Max(s) >= n
  BY <1>4 DEF Max
<1> QED BY <1>5

-----------------------------------------------------------------------------
\* Sums of a function with a finite domain.
AnyOf(s) == CHOOSE x \in s : TRUE

IsSum(g, f, S) ==
    g = [s \in SUBSET S |-> IF s = {} THEN 0 ELSE f[AnyOf(s)] + g[s \ {AnyOf(s)}]]

LEMMA AnyOfIn ==
    ASSUME NEW s, s # {}
    PROVE  AnyOf(s) \in s
BY DEF AnyOf

LEMMA SumExists ==
    ASSUME NEW S, IsFiniteSet(S), NEW f \in [S -> Nat]
    PROVE  \E g : g \in [SUBSET S -> Nat] /\ IsSum(g, f, S) /\ SumFunction(f) = g[S]
<1> DEFINE pick == [s \in SUBSET S |-> AnyOf(s)]
           step == [p \in Nat \X S |-> f[p[2]] + p[1]]
           sum == CHOOSE g : IsSum(g, f, S)
<1>1. \A s \in SUBSET S : s # {} => pick[s] \in s
  BY AnyOfIn
<1>2. \A v \in Nat, x \in S : step[<<v, x>>] \in Nat /\ step[<<v, x>>] = f[x] + v
  OBVIOUS
<1>3. PICK h : h \in [SUBSET S -> Nat] /\ IsFold(h, S, 0, pick, step)
  <2> HIDE DEF pick, step
  <2>1. 0 \in Nat
    OBVIOUS
  <2>2. Picks(pick, S) /\ StaysIn(Nat, step, S)
    BY <1>1, <1>2 DEF Picks, StaysIn
  <2> QED BY <2>1, <2>2, FoldExists, Zenon
<1>4. ASSUME NEW s \in SUBSET S
      PROVE  h[s] = IF s = {} THEN 0 ELSE f[AnyOf(s)] + h[s \ {AnyOf(s)}]
  <2>1. h[s] = IF s = {} THEN 0 ELSE step[<<h[s \ {pick[s]}], pick[s]>>]
    <3> HIDE DEF pick, step
    <3> QED BY <1>3 DEF IsFold
  <2>2. s # {} => AnyOf(s) \in S /\ h[s \ {AnyOf(s)}] \in Nat /\ pick[s] = AnyOf(s)
    BY <1>3, AnyOfIn
  <2> HIDE DEF pick, step
  <2> QED BY <2>1, <2>2, <1>2
<1>5. IsSum(h, f, S)
  <2> DEFINE e(s) == IF s = {} THEN 0 ELSE f[AnyOf(s)] + h[s \ {AnyOf(s)}]
  <2>1. \A s \in SUBSET S : h[s] = e(s)
    BY <1>4
  <2> HIDE DEF e
  <2>2. h = [s \in SUBSET S |-> e(s)]
    BY <1>3, <2>1
  <2> QED BY <2>2 DEF IsSum, e
<1>6. IsSum(sum, f, S)
  BY <1>5
<1>7. SumFunction(f) = sum[S]
  <2>1. DOMAIN f = S
    OBVIOUS
  <2> QED BY <2>1 DEF SumFunction, SumFunctionOnSet, FoldFunctionOnSet, MapThenFoldSet, IsSum, AnyOf
<1> HIDE DEF sum
<1> DEFINE T == {s \in SUBSET S : sum[s] \in Nat}
<1>8. ASSUME NEW s \in SUBSET S, \A x \in s : s \ {x} \in T PROVE s \in T
  <2>1. sum[s] = IF s = {} THEN 0 ELSE f[AnyOf(s)] + sum[s \ {AnyOf(s)}]
    BY <1>6 DEF IsSum
  <2>2. CASE s = {}
    BY <2>1, <2>2
  <2>3. CASE s # {}
    <3>1. f[AnyOf(s)] \in Nat /\ sum[s \ {AnyOf(s)}] \in Nat
      BY <1>8, <2>3, AnyOfIn
    <3> QED BY <2>1, <2>3, <3>1
  <2> QED BY <2>2, <2>3
<1>9. SUBSET S \subseteq T
  <2>1. Hereditary(T, S)
    BY <1>8 DEF Hereditary
  <2> HIDE DEF T
  <2> QED BY <2>1, SubsetInduction, Zenon
<1>10. sum \in [SUBSET S -> Nat]
  <2>1. \A s \in SUBSET S : sum[s] \in Nat
    BY <1>9
  <2>2. \E e : sum = [s \in SUBSET S |-> e[s]]
    <3> DEFINE e == [s \in SUBSET S |-> IF s = {} THEN 0 ELSE f[AnyOf(s)] + sum[s \ {AnyOf(s)}]]
    <3>1. sum = e
      BY <1>6 DEF IsSum
    <3>2. e = [s \in SUBSET S |-> e[s]]
      OBVIOUS
    <3> HIDE DEF e
    <3> QED BY <3>1, <3>2
  <2> QED BY <2>1, <2>2
<1> QED BY <1>6, <1>7, <1>10

SumOf(g, f, s) == g[s] = IF s = {} THEN 0 ELSE f[AnyOf(s)] + g[s \ {AnyOf(s)}]
Without(g, f, s, x) == g[s] = f[x] + g[s \ {x}]

LEMMA SumOfSubset ==
    ASSUME NEW S, NEW f, NEW g, IsSum(g, f, S), NEW s \in SUBSET S
    PROVE  SumOf(g, f, s)
BY DEF IsSum, SumOf

\* Any element may be the one added last.
LEMMA SumWithout ==
    ASSUME NEW S, IsFiniteSet(S), NEW f \in [S -> Nat], NEW g \in [SUBSET S -> Nat],
           IsSum(g, f, S), NEW x \in S
    PROVE  Without(g, f, S, x)
<1> DEFINE T == {s \in SUBSET S : \A y \in s : g[s] = f[y] + g[s \ {y}]}
<1>1. ASSUME NEW s \in SUBSET S, \A y \in s : s \ {y} \in T PROVE s \in T
  <2> SUFFICES ASSUME NEW y \in s PROVE g[s] = f[y] + g[s \ {y}]
    OBVIOUS
  <2> DEFINE z == AnyOf(s)
             r == (s \ {y}) \ {z}
  <2>1. z \in s /\ g[s] = f[z] + g[s \ {z}]
    BY SumOfSubset, AnyOfIn DEF SumOf
  <2>2. CASE y = z
    BY <2>1, <2>2
  <2>3. CASE y # z
    <3>1. r = (s \ {z}) \ {y}
      OBVIOUS
    <3>2. g[s \ {z}] = f[y] + g[r]
      BY <1>1, <2>1, <2>3, <3>1
    <3>3. g[s \ {y}] = f[z] + g[r]
      BY <1>1, <2>1, <2>3
    <3>4. f[y] \in Nat /\ f[z] \in Nat /\ g[r] \in Nat
      BY <2>1
    <3> HIDE DEF r, z
    <3> QED BY <2>1, <3>2, <3>3, <3>4
  <2> QED BY <2>2, <2>3
<1>2. SUBSET S \subseteq T
  <2>1. Hereditary(T, S)
    BY <1>1 DEF Hereditary
  <2> HIDE DEF T
  <2> QED BY <2>1, SubsetInduction, Zenon
<1> QED BY <1>2 DEF Without

\* Functions that agree on a set have the same sum over it.
LEMMA SumsAgree ==
    ASSUME NEW S, NEW f, NEW g, IsSum(g, f, S), NEW R, NEW e, NEW h, IsSum(h, e, R),
           NEW Q, IsFiniteSet(Q), Q \subseteq S, Q \subseteq R, \A x \in Q : f[x] = e[x]
    PROVE  g[Q] = h[Q]
<1> DEFINE T == {s \in SUBSET Q : g[s] = h[s]}
<1>1. ASSUME NEW s \in SUBSET Q, \A x \in s : s \ {x} \in T PROVE s \in T
  <2>0. s \in SUBSET S /\ s \in SUBSET R
    OBVIOUS
  <2>1. SumOf(g, f, s)
    BY <2>0, SumOfSubset, Zenon
  <2>2. SumOf(h, e, s)
    BY <2>0, SumOfSubset, Zenon
  <2>3. s # {} => f[AnyOf(s)] = e[AnyOf(s)] /\ g[s \ {AnyOf(s)}] = h[s \ {AnyOf(s)}]
    BY <1>1, AnyOfIn
  <2> QED BY <2>1, <2>2, <2>3 DEF SumOf
<1>2. SUBSET Q \subseteq T
  <2>1. Hereditary(T, Q)
    BY <1>1 DEF Hereditary
  <2> HIDE DEF T
  <2> QED BY <2>1, SubsetInduction, Zenon
<1> QED BY <1>2

\* What a sum becomes when one summand changes, and when one more is added.
LEMMA SumChange ==
    ASSUME NEW S, IsFiniteSet(S), NEW f \in [S -> Nat], NEW e \in [S -> Nat], NEW x \in S,
           \A y \in S \ {x} : e[y] = f[y]
    PROVE  /\ SumFunction(f) \in Nat /\ SumFunction(e) \in Nat
           /\ SumFunction(e) + f[x] = SumFunction(f) + e[x]
<1>1. PICK g : g \in [SUBSET S -> Nat] /\ IsSum(g, f, S) /\ SumFunction(f) = g[S]
  BY SumExists
<1>2. PICK h : h \in [SUBSET S -> Nat] /\ IsSum(h, e, S) /\ SumFunction(e) = h[S]
  BY SumExists
<1>3. Without(g, f, S, x)
  BY <1>1, SumWithout, Zenon
<1>6. Without(h, e, S, x)
  BY <1>2, SumWithout, Zenon
<1>4. g[S \ {x}] = h[S \ {x}]
  <2>1. IsFiniteSet(S \ {x}) /\ \A y \in S \ {x} : f[y] = e[y]
    BY FS_Subset
  <2> QED BY <1>1, <1>2, <2>1, SumsAgree
<1>5. g[S \ {x}] \in Nat /\ f[x] \in Nat /\ e[x] \in Nat /\ g[S] \in Nat /\ h[S] \in Nat
  BY <1>1, <1>2
<1> QED BY <1>1, <1>2, <1>3, <1>4, <1>5, <1>6 DEF Without

LEMMA SumAdd ==
    ASSUME NEW S, IsFiniteSet(S), NEW x, x \notin S,
           NEW f \in [S -> Nat], NEW e \in [S \cup {x} -> Nat], \A y \in S : e[y] = f[y]
    PROVE  /\ SumFunction(f) \in Nat /\ SumFunction(e) \in Nat
           /\ SumFunction(e) = SumFunction(f) + e[x]
<1> DEFINE R == S \cup {x}
<1>0. IsFiniteSet(R) /\ R \ {x} = S /\ x \in R
  BY FS_AddElement
<1>1. PICK g : g \in [SUBSET S -> Nat] /\ IsSum(g, f, S) /\ SumFunction(f) = g[S]
  BY SumExists
<1>2. PICK h : h \in [SUBSET R -> Nat] /\ IsSum(h, e, R) /\ SumFunction(e) = h[R]
  BY <1>0, SumExists
<1>3. h[R] = e[x] + h[S]
  <2> HIDE DEF R
  <2>1. e \in [R -> Nat]
    BY DEF R
  <2>2. Without(h, e, R, x)
    BY <1>0, <1>2, <2>1, SumWithout, Zenon
  <2> QED BY <1>0, <2>2 DEF Without
<1>4. g[S] = h[S]
  <2>1. S \subseteq R /\ \A y \in S : f[y] = e[y]
    OBVIOUS
  <2> HIDE DEF R
  <2> QED BY <1>1, <1>2, <2>1, SumsAgree
<1>5. g[S] \in Nat /\ e[x] \in Nat /\ h[R] \in Nat
  BY <1>1, <1>2
<1> QED BY <1>1, <1>2, <1>3, <1>4, <1>5

-----------------------------------------------------------------------------
\* The coins of the account roots, when one of them changes.
Root == [seq : Nat, bal : Nat]

LEMMA CoinsType ==
    ASSUME NEW acct \in [Account -> Root]
    PROVE  Coins(acct) \in Nat
<1> DEFINE f == [a \in Account |-> acct[a].bal]
<1>1. f \in [Account -> Nat]
  BY DEF Root
<1>2. FeeAccount \in Account /\ IsFiniteSet(Account)
  BY EngineAssumption
<1> HIDE DEF f
<1>3. SumFunction(f) \in Nat
  BY <1>1, <1>2, SumChange
<1> QED BY <1>3 DEF Coins, f

LEMMA CoinsChange ==
    ASSUME NEW acct \in [Account -> Root], NEW a \in Account, NEW new \in [Account -> Root],
           \A b \in Account \ {a} : new[b].bal = acct[b].bal
    PROVE  Coins(new) + acct[a].bal = Coins(acct) + new[a].bal
<1> DEFINE f == [b \in Account |-> acct[b].bal]
           e == [b \in Account |-> new[b].bal]
<1>1. f \in [Account -> Nat] /\ e \in [Account -> Nat]
  BY DEF Root
<1>2. \A b \in Account \ {a} : e[b] = f[b]
  OBVIOUS
<1>3. f[a] = acct[a].bal /\ e[a] = new[a].bal
  OBVIOUS
<1>4. IsFiniteSet(Account)
  BY EngineAssumption
<1> HIDE DEF f, e
<1>5. SumFunction(e) + f[a] = SumFunction(f) + e[a]
  BY <1>1, <1>2, <1>4, SumChange
<1> QED BY <1>3, <1>5 DEF Coins, f, e

SetRoot(acct, a, r) == [acct EXCEPT ![a] = r]

CoinsMoved(acct, a, r) ==
    /\ SetRoot(acct, a, r) \in [Account -> Root]
    /\ Coins(SetRoot(acct, a, r)) + acct[a].bal = Coins(acct) + r.bal

LEMMA CoinsSet ==
    ASSUME NEW acct \in [Account -> Root], NEW a \in Account, NEW r \in Root
    PROVE  CoinsMoved(acct, a, r)
<1> DEFINE new == SetRoot(acct, a, r)
<1>1. new \in [Account -> Root] /\ new[a] = r /\ \A b \in Account \ {a} : new[b].bal = acct[b].bal
  BY DEF SetRoot
<1> HIDE DEF new
<1>2. Coins(new) + acct[a].bal = Coins(acct) + new[a].bal
  BY <1>1, CoinsChange
<1> QED BY <1>1, <1>2 DEF new, CoinsMoved

LEMMA MinOfTwo ==
    ASSUME NEW m \in Nat, NEW n \in Nat
    PROVE  Min({m, n}) = IF m <= n THEN m ELSE n
BY DEF Min

LEMMA MaxOfTwo ==
    ASSUME NEW m \in Nat, NEW n \in Nat
    PROVE  Max({m, n}) = IF m <= n THEN n ELSE m
BY DEF Max

\* An account that does not exist has no coins.
RootsOK(acct) ==
    /\ acct \in [Account -> Root]
    /\ \A a \in Account : acct[a].seq = 0 => acct[a].bal = 0

\* A transaction has used its sequence number, and no account's number has gone back.
Used(acct, new, t) ==
    /\ RootsOK(new)
    /\ new[t.src].seq = t.seq + 1
    /\ \A a \in Account \ {t.src} : new[a].seq >= acct[a].seq

TransactionFields(t) ==
    /\ t.id \in Nat /\ t.src \in Account /\ t.seq \in Nat /\ t.dst \in Account /\ t.amt \in Nat
    /\ t.fee \in Nat /\ t.last \in Nat /\ t.ts \in Nat /\ t.good \in BOOLEAN

LEMMA Fields ==
    ASSUME NEW t \in Transaction
    PROVE  TransactionFields(t)
BY DEF Transaction, TransactionFields

LEMMA RootFields ==
    ASSUME NEW acct \in [Account -> Root], NEW a \in Account
    PROVE  acct[a] \in Root /\ acct[a].seq \in Nat /\ acct[a].bal \in Nat
BY DEF Root

LEMMA FeePaidOK ==
    ASSUME NEW t \in Transaction, NEW acct, RootsOK(acct), acct[t.src].bal >= t.fee
    PROVE  /\ Used(acct, FeePaid(acct, t), t)
           /\ Coins(FeePaid(acct, t)) = Coins(acct)
           /\ FeePaid(acct, t)[t.src].bal >= acct[t.src].bal - t.fee
<1> DEFINE r == [seq |-> t.seq + 1, bal |-> acct[t.src].bal - t.fee]
           a == SetRoot(acct, t.src, r)
           q == [seq |-> IF a[FeeAccount].seq = 0 THEN 1 ELSE a[FeeAccount].seq,
                 bal |-> a[FeeAccount].bal + t.fee]
           b == SetRoot(a, FeeAccount, q)
<1>1. t.src \in Account /\ t.seq \in Nat /\ t.fee \in Nat /\ FeeAccount \in Account
  BY Fields, EngineAssumption DEF TransactionFields
<1>0. acct \in [Account -> Root]
  BY DEF RootsOK
<1>2. acct[t.src].bal \in Nat
  BY <1>0, <1>1, RootFields
<1>3. FeePaid(acct, t) = b
  BY <1>1 DEF FeePaid, SetRoot
<1>4. r \in Root /\ r.bal = acct[t.src].bal - t.fee /\ r.seq = t.seq + 1 /\ r.bal \in Nat
  BY <1>1, <1>2 DEF Root
<1> HIDE DEF r
<1>5. a \in [Account -> Root] /\ Coins(a) + acct[t.src].bal = Coins(acct) + r.bal
  <2>1. CoinsMoved(acct, t.src, r)
    BY <1>0, <1>1, <1>4, CoinsSet, Zenon
  <2> QED BY <2>1 DEF CoinsMoved
<1>6. a[t.src] = r /\ \A c \in Account \ {t.src} : a[c] = acct[c]
  BY <1>0, <1>1 DEF SetRoot
<1> HIDE DEF a
<1>7. a[FeeAccount].seq \in Nat /\ a[FeeAccount].bal \in Nat
  BY <1>1, <1>5, RootFields
<1>8. q \in Root /\ q.bal = a[FeeAccount].bal + t.fee /\ q.seq \in Nat /\ q.seq >= a[FeeAccount].seq
      /\ q.seq > 0 /\ (a[FeeAccount].seq # 0 => q.seq = a[FeeAccount].seq)
  BY <1>1, <1>7 DEF Root
<1> HIDE DEF q
<1>9. b \in [Account -> Root] /\ Coins(b) + a[FeeAccount].bal = Coins(a) + q.bal
  <2>1. CoinsMoved(a, FeeAccount, q)
    BY <1>1, <1>5, <1>8, CoinsSet, Zenon
  <2> QED BY <2>1 DEF CoinsMoved
<1>10. b[FeeAccount] = q /\ \A c \in Account \ {FeeAccount} : b[c] = a[c]
  BY <1>1, <1>5 DEF SetRoot
<1> HIDE DEF b
<1>11. Coins(b) = Coins(acct)
  <2>1. Coins(b) \in Nat /\ Coins(a) \in Nat /\ Coins(acct) \in Nat
    BY <1>0, <1>5, <1>9, CoinsType
  <2> QED BY <2>1, <1>1, <1>2, <1>4, <1>5, <1>7, <1>8, <1>9
<1>12. b[t.src].seq = t.seq + 1 /\ b[t.src].bal >= acct[t.src].bal - t.fee
  <2>1. CASE t.src = FeeAccount
    <3>1. a[FeeAccount].seq # 0
      BY <2>1, <1>1, <1>4, <1>6
    <3>2. q.seq = t.seq + 1
      BY <2>1, <3>1, <1>4, <1>6, <1>8
    <3>3. q.bal = r.bal + t.fee
      BY <2>1, <1>6, <1>8
    <3> QED BY <2>1, <3>2, <3>3, <1>1, <1>2, <1>4, <1>10
  <2>2. CASE t.src # FeeAccount
    <3>1. b[t.src] = r
      BY <2>2, <1>1, <1>6, <1>10
    <3> QED BY <3>1, <1>2, <1>1, <1>4
  <2> QED BY <2>1, <2>2
<1>13. \A c \in Account \ {t.src} : b[c].seq >= acct[c].seq
  <2> TAKE c \in Account \ {t.src}
  <2>1. a[c] = acct[c] /\ acct[c].seq \in Nat
    BY <1>0, <1>6, RootFields
  <2>2. CASE c = FeeAccount
    BY <2>1, <2>2, <1>8, <1>10
  <2>3. CASE c # FeeAccount
    BY <2>1, <2>3, <1>10
  <2> QED BY <2>2, <2>3
<1>14. \A c \in Account : b[c].seq = 0 => b[c].bal = 0
  <2> TAKE c \in Account
  <2>1. CASE c = FeeAccount
    BY <2>1, <1>8, <1>10
  <2>2. CASE c # FeeAccount /\ c = t.src
    BY <2>2, <1>1, <1>4, <1>6, <1>10
  <2>3. CASE c # FeeAccount /\ c # t.src
    BY <2>3, <1>6, <1>10 DEF RootsOK
  <2> QED BY <2>1, <2>2, <2>3
<1> QED BY <1>3, <1>9, <1>11, <1>12, <1>13, <1>14 DEF Used, RootsOK

LEMMA doApplyOK ==
    ASSUME NEW t \in Transaction, t.src # t.dst, NEW l, RootsOK(l.acct),
           l.acct[t.src].bal >= t.fee
    PROVE  LET r == doApply(l, t, FeePaid(l.acct, t))
           IN  r.ter = "tes" => Used(l.acct, r.acct, t) /\ Coins(r.acct) = Coins(l.acct)
<1> DEFINE acct == FeePaid(l.acct, t)
           D == Destination(acct, t)
           dst == CHOOSE d \in D : TRUE
           m == Max({reserve, t.fee})
           src == acct[t.src]
           p == [seq |-> src.seq, bal |-> src.bal - t.amt]
           a == SetRoot(acct, t.src, p)
           q == [seq |-> dst.seq, bal |-> dst.bal + t.amt]
           b == SetRoot(a, t.dst, q)
           r == doApply(l, t, acct)
<1> SUFFICES ASSUME r.ter = "tes" PROVE Used(l.acct, r.acct, t) /\ Coins(r.acct) = Coins(l.acct)
  OBVIOUS
<1>1. TransactionFields(t)
  BY Fields
<1>2. /\ Used(l.acct, acct, t) /\ Coins(acct) = Coins(l.acct)
      /\ src.bal >= l.acct[t.src].bal - t.fee
  BY FeePaidOK
<1>3. D # {} /\ ~(l.acct[t.src].bal < t.amt + m) /\ r = Ends("tes", b)
  BY DEF doApply, Ends, SetRoot
<1>4. r.acct = b
  BY <1>3 DEF Ends
<1>5. reserve \in Nat /\ FeeAccount \in Account
  BY EngineAssumption
<1>6. m \in Nat /\ t.fee <= m
  BY <1>1, <1>5, MaxOfTwo DEF TransactionFields
<1> HIDE DEF m, acct, D, r
<1>7. acct \in [Account -> Root] /\ RootsOK(acct)
  BY <1>2 DEF Used, RootsOK
<1>8. dst \in Root /\ dst.seq > 0 /\ dst.bal = acct[t.dst].bal
      /\ (acct[t.dst].seq # 0 => dst.seq = acct[t.dst].seq)
  <2>1. dst \in D
    BY <1>3
  <2>2. acct[t.dst] \in Root /\ acct[t.dst].seq \in Nat /\ acct[t.dst].bal \in Nat
    BY <1>1, <1>7, RootFields DEF TransactionFields
  <2> HIDE DEF dst
  <2>3. CASE acct[t.dst].seq > 0
    <3>1. dst = acct[t.dst]
      BY <2>1, <2>3 DEF D, Destination, Exists
    <3> QED BY <2>2, <2>3, <3>1
  <2>4. CASE ~(acct[t.dst].seq > 0)
    <3>1. dst = [seq |-> 1, bal |-> 0]
      BY <2>1, <2>4 DEF D, Destination, Exists
    <3>2. acct[t.dst].seq = 0
      BY <2>2, <2>4
    <3>3. acct[t.dst].bal = 0
      BY <1>1, <1>7, <3>2 DEF RootsOK, TransactionFields
    <3> QED BY <3>1, <3>2, <3>3 DEF Root
  <2> QED BY <2>3, <2>4
<1> HIDE DEF dst
<1>9. src.bal \in Nat /\ src.seq \in Nat /\ src \in Root /\ dst.bal \in Nat /\ dst.seq \in Nat
      /\ l.acct[t.src].bal \in Nat
  BY <1>1, <1>7, <1>8, RootFields DEF TransactionFields, RootsOK, Root
<1> HIDE DEF src
<1>10. src.bal >= t.amt
  BY <1>1, <1>2, <1>3, <1>6, <1>9 DEF TransactionFields
<1>11. p \in Root /\ p.seq = src.seq /\ p.bal = src.bal - t.amt /\ p.bal \in Nat
  BY <1>1, <1>9, <1>10 DEF Root, TransactionFields
<1>12. q \in Root /\ q.seq = dst.seq /\ q.bal = dst.bal + t.amt /\ q.bal \in Nat
  BY <1>1, <1>9 DEF Root, TransactionFields
<1>13. t.src \in Account /\ t.dst \in Account /\ t.amt \in Nat /\ t.seq \in Nat
  BY <1>1 DEF TransactionFields
<1> HIDE DEF p, q
<1>14. a \in [Account -> Root] /\ Coins(a) + src.bal = Coins(acct) + p.bal
  <2>1. CoinsMoved(acct, t.src, p)
    BY <1>7, <1>11, <1>13, CoinsSet, Zenon
  <2> QED BY <2>1 DEF CoinsMoved, src
<1>15. a[t.src] = p /\ \A c \in Account \ {t.src} : a[c] = acct[c]
  BY <1>7, <1>13 DEF SetRoot
<1> HIDE DEF a
<1>16. b \in [Account -> Root] /\ Coins(b) + a[t.dst].bal = Coins(a) + q.bal
  <2>1. CoinsMoved(a, t.dst, q)
    BY <1>12, <1>13, <1>14, CoinsSet, Zenon
  <2> QED BY <2>1 DEF CoinsMoved
<1>17. b[t.dst] = q /\ \A c \in Account \ {t.dst} : b[c] = a[c]
  BY <1>13, <1>14 DEF SetRoot
<1> HIDE DEF b
<1>18. Coins(b) = Coins(l.acct)
  <2>1. Coins(b) \in Nat /\ Coins(a) \in Nat /\ Coins(acct) \in Nat
    BY <1>7, <1>14, <1>16, CoinsType
  <2>2. a[t.dst].bal = dst.bal
    BY <1>8, <1>13, <1>15
  <2> QED BY <2>1, <2>2, <1>2, <1>9, <1>11, <1>12, <1>13, <1>14, <1>16
<1>19. b[t.src] = p /\ p.seq = t.seq + 1
  <2>1. src.seq = t.seq + 1
    BY <1>2 DEF Used, src
  <2> QED BY <2>1, <1>11, <1>13, <1>15, <1>17
<1>20. ASSUME NEW c \in Account \ {t.src}
       PROVE  b[c].seq >= l.acct[c].seq /\ (b[c].seq = 0 => b[c].bal = 0)
  <2>1. acct[c].seq >= l.acct[c].seq /\ acct[c].seq \in Nat /\ l.acct[c].seq \in Nat
        /\ (acct[c].seq = 0 => acct[c].bal = 0)
    BY <1>2, <1>7, RootFields DEF Used, RootsOK
  <2>2. CASE c = t.dst
    <3>1. b[c].seq = dst.seq
      BY <2>2, <1>12, <1>17
    <3> QED BY <2>1, <2>2, <3>1, <1>8, <1>9
  <2>3. CASE c # t.dst
    BY <2>1, <2>3, <1>15, <1>17
  <2> QED BY <2>2, <2>3
<1>21. RootsOK(b)
  <2>1. b[t.src].seq # 0
    BY <1>13, <1>19
  <2> QED BY <2>1, <1>16, <1>20 DEF RootsOK
<1>22. b[t.src].seq = t.seq + 1
  BY <1>19
<1>23. Used(l.acct, b, t)
  BY <1>20, <1>21, <1>22 DEF Used
<1> QED BY <1>4, <1>18, <1>23

LEMMA CheckedOK ==
    ASSUME NEW t \in Transaction, NEW l, RootsOK(l.acct), NEW open \in BOOLEAN,
           Checked(l, t, open) = "tes"
    PROVE  /\ ~Redundant(t)
           /\ l.acct[t.src].seq = t.seq
           /\ l.acct[t.src].bal >= t.fee
<1>1. ~Redundant(t) /\ checkSeq(l, t) = "tes" /\ payFee(l, t, open) = "tes"
  BY DEF Checked
<1>2. l.acct[t.src].seq \in Nat /\ t.seq \in Nat
  BY Fields, RootFields DEF TransactionFields, RootsOK
<1>3. ~(l.acct[t.src].seq < t.seq) /\ ~(l.acct[t.src].seq > t.seq)
  BY <1>1 DEF checkSeq
<1>4. l.acct[t.src].bal >= t.fee
  BY <1>1 DEF payFee
<1> QED BY <1>1, <1>2, <1>3, <1>4

\* What transact leaves when it succeeds.
Succeeded(l, t, r) ==
    /\ l.acct[t.src].seq = t.seq
    /\ Used(l.acct, r.acct, t)
    /\ Coins(r.acct) = Coins(l.acct)

LEMMA transactOK ==
    ASSUME NEW t \in Transaction, NEW l, RootsOK(l.acct), NEW open \in BOOLEAN,
           NEW r, r = transact(l, t, Checked(l, t, open)), r.ter = "tes"
    PROVE  Succeeded(l, t, r)
<1>1. Checked(l, t, open) = "tes"
  BY DEF transact, Ends
<1>2. ~Redundant(t) /\ l.acct[t.src].seq = t.seq /\ l.acct[t.src].bal >= t.fee
  BY <1>1, CheckedOK
<1>3. CASE t.amt = 0
  <2>1. r.acct = FeePaid(l.acct, t)
    BY <1>1, <1>3 DEF transact, doMessage, Ends
  <2>2. Used(l.acct, FeePaid(l.acct, t), t) /\ Coins(FeePaid(l.acct, t)) = Coins(l.acct)
    BY <1>2, FeePaidOK
  <2> QED BY <1>2, <2>1, <2>2 DEF Succeeded
<1>4. CASE t.amt # 0
  <2>1. r = doApply(l, t, FeePaid(l.acct, t))
    BY <1>1, <1>4 DEF transact
  <2>2. t.src # t.dst
    BY <1>2, <1>4, Fields DEF Redundant, TransactionFields
  <2>3. Used(l.acct, r.acct, t) /\ Coins(r.acct) = Coins(l.acct)
    BY <1>2, <2>1, <2>2, doApplyOK
  <2> QED BY <1>2, <2>3 DEF Succeeded
<1> QED BY <1>3, <1>4

-----------------------------------------------------------------------------
\* The invariant of a ledger whose transactions are of K.
LedgerType(K) ==
    [seq : Nat, close : Nat, txns : SUBSET K, claimed : SUBSET K, prior : SUBSET K,
     acct : [Account -> Root]]

\* Every transaction of the chain has a number the source has left behind.
Once(l) ==
    LET chain == l.txns \cup l.prior
    IN  /\ l.txns \cap l.prior = {}
        /\ l.claimed \subseteq chain
        /\ \A t \in chain : t.seq < l.acct[t.src].seq
        /\ \A t, u \in chain : t.src = u.src /\ t.seq = u.seq => t = u

Accounted(l) ==
    /\ Coins(l.acct) <= Coins(Genesis)
    /\ Coins(l.acct) + Fees(l.claimed) >= Coins(Genesis)

LedgerOK(K, l) == l \in LedgerType(K) /\ RootsOK(l.acct) /\ Once(l) /\ Accounted(l)

LEMMA LedgerFields ==
    ASSUME NEW K, NEW l \in LedgerType(K)
    PROVE  /\ l.seq \in Nat /\ l.close \in Nat
           /\ l.txns \subseteq K /\ l.claimed \subseteq K /\ l.prior \subseteq K
           /\ l.acct \in [Account -> Root]
BY DEF LedgerType

\* What K is: transactions, and finitely many.
Finitely(K) == IsFiniteSet(K) /\ K \subseteq Transaction

LEMMA FeesAdd ==
    ASSUME NEW K, Finitely(K), NEW C, C \subseteq K, NEW t \in K, t \notin C
    PROVE  Fees(C) \in Nat /\ Fees(C \cup {t}) = Fees(C) + t.fee
<1> DEFINE R == C \cup {t}
           f == [u \in C |-> u.fee]
           e == [u \in R |-> u.fee]
<1>1. IsFiniteSet(C)
  BY FS_Subset DEF Finitely
<1>2. \A u \in R : u.fee \in Nat
  BY Fields DEF Finitely, TransactionFields
<1>3. f \in [C -> Nat] /\ e \in [R -> Nat] /\ \A u \in C : e[u] = f[u]
  BY <1>2
<1>4. e[t] = t.fee
  OBVIOUS
<1>5. Fees(C) = SumFunction(f) /\ Fees(C \cup {t}) = SumFunction(e)
  BY DEF Fees
<1> HIDE DEF f, e
<1>6. SumFunction(f) \in Nat /\ SumFunction(e) = SumFunction(f) + e[t]
  BY <1>1, <1>3, SumAdd
<1> QED BY <1>4, <1>5, <1>6

LEMMA FeesType ==
    ASSUME NEW K, Finitely(K), NEW C, C \subseteq K
    PROVE  Fees(C) \in Nat
<1> DEFINE f == [u \in C |-> u.fee]
<1>1. IsFiniteSet(C)
  BY FS_Subset DEF Finitely
<1>2. \A u \in C : u.fee \in Nat
  BY Fields DEF Finitely, TransactionFields
<1>3. f \in [C -> Nat]
  BY <1>2
<1>4. Fees(C) = SumFunction(f)
  BY DEF Fees
<1> HIDE DEF f
<1>5. \E g : g \in [SUBSET C -> Nat] /\ IsSum(g, f, C) /\ SumFunction(f) = g[C]
  BY <1>1, <1>3, SumExists
<1>6. SumFunction(f) \in Nat
  BY <1>5
<1> QED BY <1>4, <1>6

\* A transaction whose number is the account's next is new to the chain, and may join it once
\* its number is used.
Joined(l, m, t) ==
    /\ m.txns = l.txns \cup {t} /\ m.prior = l.prior
    /\ m.claimed \subseteq l.claimed \cup {t}
    /\ l.acct[t.src].seq = t.seq
    /\ Used(l.acct, m.acct, t)

LEMMA JoinedOnce ==
    ASSUME NEW K, Finitely(K), NEW l, LedgerOK(K, l), NEW t \in K, NEW m, Joined(l, m, t)
    PROVE  Once(m) /\ t \notin l.claimed
<1> DEFINE chain == l.txns \cup l.prior
           new == m.txns \cup m.prior
<1>1. l.txns \subseteq K /\ l.prior \subseteq K /\ l.acct \in [Account -> Root]
  BY LedgerFields DEF LedgerOK
<1>2. chain \subseteq Transaction /\ t \in Transaction
  BY <1>1 DEF Finitely
<1>3. t.src \in Account /\ t.seq \in Nat
  BY <1>2, Fields DEF TransactionFields
<1>4. ASSUME NEW u \in chain
      PROVE  u.seq \in Nat /\ u.src \in Account /\ u.seq < l.acct[u.src].seq
             /\ l.acct[u.src].seq \in Nat
  BY <1>1, <1>2, Fields, RootFields DEF TransactionFields, LedgerOK, Once
<1>5. t \notin chain
  <2> SUFFICES ASSUME t \in chain PROVE FALSE
    OBVIOUS
  <2>1. t.seq < t.seq
    BY <1>4 DEF Joined
  <2> QED BY <2>1, <1>3
<1>6. new = chain \cup {t}
  BY DEF Joined
<1>7. m.txns \cap m.prior = {}
  BY <1>5 DEF Joined, LedgerOK, Once
<1>8. l.claimed \subseteq chain
  BY DEF LedgerOK, Once
<1>9. m.claimed \subseteq new
  BY <1>6, <1>8 DEF Joined
<1>10. \A u \in new : u.seq < m.acct[u.src].seq
  <2> TAKE u \in new
  <2>1. m.acct[t.src].seq = t.seq + 1
    BY DEF Joined, Used
  <2>2. CASE u = t
    BY <2>1, <2>2, <1>3
  <2>3. CASE u # t
    <3>1. u \in chain
      BY <2>3, <1>6
    <3>2. u.seq \in Nat /\ u.src \in Account /\ u.seq < l.acct[u.src].seq
          /\ l.acct[u.src].seq \in Nat
      BY <1>4, <3>1
    <3>3. CASE u.src = t.src
      <4>1. l.acct[u.src].seq = t.seq
        BY <3>3 DEF Joined
      <4>2. u.seq < t.seq + 1
        BY <3>2, <4>1, <1>3
      <4> QED BY <2>1, <3>3, <4>2
    <3>4. CASE u.src # t.src
      <4>1. m.acct[u.src].seq >= l.acct[u.src].seq /\ m.acct[u.src].seq \in Nat
        BY <3>2, <3>4, RootFields DEF Joined, Used, RootsOK
      <4> QED BY <3>2, <4>1
    <3> QED BY <3>3, <3>4
  <2> QED BY <2>2, <2>3
<1>11. \A u, v \in new : u.src = v.src /\ u.seq = v.seq => u = v
  <2>1. \A u, v \in chain : u.src = v.src /\ u.seq = v.seq => u = v
    BY DEF LedgerOK, Once
  <2>2. ASSUME NEW u \in chain PROVE ~(u.src = t.src /\ u.seq = t.seq)
    <3> SUFFICES ASSUME u.src = t.src, u.seq = t.seq PROVE FALSE
      OBVIOUS
    <3>1. t.seq < l.acct[t.src].seq
      BY <1>4
    <3>2. t.seq < t.seq
      BY <3>1 DEF Joined
    <3> QED BY <3>2, <1>3
  <2> HIDE DEF chain, new
  <2> QED BY <1>6, <2>1, <2>2
<1> QED BY <1>5, <1>7, <1>8, <1>9, <1>10, <1>11 DEF Once

\* The fee is claimed, as far as the balance goes.
LEMMA ClaimedOK ==
    ASSUME NEW K, Finitely(K), NEW l, LedgerOK(K, l), NEW t \in K, l.acct[t.src].seq = t.seq
    PROVE  LedgerOK(K, Claimed(l, t))
<1> DEFINE f == Min({t.fee, l.acct[t.src].bal})
           p == [seq |-> t.seq + 1, bal |-> l.acct[t.src].bal - f]
           a == SetRoot(l.acct, t.src, p)
           m == Claimed(l, t)
<1>1. t \in Transaction /\ t.src \in Account /\ t.seq \in Nat /\ t.fee \in Nat
  BY Fields DEF Finitely, TransactionFields
<1>2. l \in LedgerType(K) /\ l.acct \in [Account -> Root] /\ l.claimed \subseteq K
      /\ l.txns \subseteq K
  BY LedgerFields DEF LedgerOK
<1>3. l.acct[t.src].bal \in Nat
  BY <1>1, <1>2, RootFields
<1>4. f \in Nat /\ f <= t.fee /\ f <= l.acct[t.src].bal
  BY <1>1, <1>3, MinOfTwo
<1>5. m = [l EXCEPT !.acct = a, !.txns = @ \cup {t}, !.claimed = @ \cup {t}]
  BY <1>1, <1>2 DEF Claimed, SetRoot, LedgerType
<1> HIDE DEF f, m
<1>6. p \in Root /\ p.seq = t.seq + 1 /\ p.bal = l.acct[t.src].bal - f /\ p.bal \in Nat
  BY <1>1, <1>3, <1>4 DEF Root
<1> HIDE DEF p
<1>7. a \in [Account -> Root] /\ Coins(a) + l.acct[t.src].bal = Coins(l.acct) + p.bal
  <2>1. CoinsMoved(l.acct, t.src, p)
    BY <1>1, <1>2, <1>6, CoinsSet, Zenon
  <2> QED BY <2>1 DEF CoinsMoved
<1>8. a[t.src] = p /\ \A c \in Account \ {t.src} : a[c] = l.acct[c]
  BY <1>1, <1>2 DEF SetRoot
<1> HIDE DEF a
<1>9. /\ m \in LedgerType(K) /\ m.acct = a /\ m.txns = l.txns \cup {t}
      /\ m.claimed = l.claimed \cup {t} /\ m.prior = l.prior
  BY <1>2, <1>5, <1>7 DEF LedgerType
<1>10. RootsOK(a)
  <2> SUFFICES ASSUME NEW c \in Account, a[c].seq = 0 PROVE a[c].bal = 0
    BY <1>7 DEF RootsOK
  <2>1. c # t.src
    BY <1>1, <1>6, <1>8
  <2> QED BY <2>1, <1>8 DEF LedgerOK, RootsOK
<1>11. Used(l.acct, a, t)
  <2>1. \A c \in Account \ {t.src} : a[c].seq >= l.acct[c].seq
    <3> TAKE c \in Account \ {t.src}
    <3>1. a[c] = l.acct[c] /\ l.acct[c].seq \in Nat
      BY <1>2, <1>8, RootFields
    <3> QED BY <3>1
  <2> QED BY <1>6, <1>8, <1>10, <2>1 DEF Used
<1>12. Joined(l, m, t)
  BY <1>9, <1>11 DEF Joined
<1>13. Once(m) /\ t \notin l.claimed
  BY <1>12, JoinedOnce
<1>14. Fees(l.claimed) \in Nat /\ Fees(m.claimed) = Fees(l.claimed) + t.fee
  BY <1>2, <1>9, <1>13, FeesAdd
<1>15. Coins(a) \in Nat /\ Coins(l.acct) \in Nat /\ Coins(Genesis) \in Nat
  BY <1>2, <1>7, CoinsType, EngineAssumption DEF Root
<1>16. Accounted(l)
  BY DEF LedgerOK
<1>17. Accounted(m)
  BY <1>1, <1>3, <1>4, <1>6, <1>7, <1>9, <1>14, <1>15, <1>16 DEF Accounted
<1> QED BY <1>9, <1>10, <1>13, <1>17 DEF LedgerOK, m

LEMMA applyTransactionOK ==
    ASSUME NEW K, Finitely(K), NEW l, LedgerOK(K, l), NEW t \in K,
           NEW open \in BOOLEAN, NEW retry \in BOOLEAN
    PROVE  LedgerOK(K, applyTransaction(l, t, open, retry).ledger)
<1> DEFINE r == transact(l, t, Checked(l, t, open))
           x == applyTransaction(l, t, open, retry)
<1>1. t \in Transaction
  BY DEF Finitely
<1>2. l \in LedgerType(K) /\ RootsOK(l.acct) /\ l.claimed \subseteq K
  BY LedgerFields DEF LedgerOK
<1>3. CASE r.ter = "tes"
  <2> DEFINE m == [l EXCEPT !.acct = r.acct, !.txns = @ \cup {t}]
  <2>1. x.ledger = m
    BY <1>3 DEF applyTransaction, Reprocessed
  <2>2. Succeeded(l, t, r)
    BY <1>1, <1>2, <1>3, transactOK
  <2> HIDE DEF r, x
  <2>3. r.acct \in [Account -> Root] /\ RootsOK(r.acct)
    BY <2>2 DEF Succeeded, Used, RootsOK
  <2>4. /\ m \in LedgerType(K) /\ m.acct = r.acct /\ m.txns = l.txns \cup {t}
        /\ m.prior = l.prior /\ m.claimed = l.claimed
    BY <1>2, <2>3 DEF LedgerType
  <2> HIDE DEF m
  <2>5. Joined(l, m, t)
    BY <2>2, <2>4 DEF Joined, Succeeded
  <2>6. Once(m)
    BY <2>5, JoinedOnce
  <2>7. Accounted(m)
    BY <2>2, <2>4 DEF Accounted, Succeeded, LedgerOK
  <2> QED BY <2>1, <2>3, <2>4, <2>6, <2>7 DEF LedgerOK, x
<1>4. CASE r.ter # "tes" /\ r.ter = "tec" /\ ~retry /\ Claimable(l, t, open)
  <2>1. x.ledger = Claimed(l, t)
    BY <1>4 DEF applyTransaction, Reprocessed
  <2>2. l.acct[t.src].seq = t.seq
    BY <1>4 DEF Claimable
  <2> QED BY <2>1, <2>2, ClaimedOK
<1>5. CASE r.ter # "tes" /\ ~(r.ter = "tec" /\ ~retry /\ Claimable(l, t, open))
  <2>1. x.ledger = l
    BY <1>5 DEF applyTransaction, Reprocessed
  <2> QED BY <2>1
<1> QED BY <1>3, <1>4, <1>5

LEMMA AttemptOK ==
    ASSUME NEW K, Finitely(K), NEW l, LedgerOK(K, l), NEW t \in K,
           NEW open \in BOOLEAN, NEW retry \in BOOLEAN
    PROVE  LedgerOK(K, Attempt(l, t, open, retry).ledger)
<1>1. LedgerOK(K, applyTransaction(l, t, open, retry).ledger)
  BY applyTransactionOK
<1> QED BY <1>1 DEF Attempt, Judged

LEMMA NewLedgerOK ==
    ASSUME NEW K, Finitely(K), NEW l, LedgerOK(K, l)
    PROVE  LedgerOK(K, NewLedger(l)) /\ NewLedger(l).txns = {}
<1> DEFINE m == NewLedger(l)
<1>1. l \in LedgerType(K) /\ RootsOK(l.acct) /\ Once(l) /\ Accounted(l)
  BY DEF LedgerOK
<1>2. resolution \in Nat
  BY EngineAssumption
<1>3. /\ m \in LedgerType(K) /\ m.acct = l.acct /\ m.txns = {} /\ m.claimed = l.claimed
      /\ m.prior = l.prior \cup l.txns
  BY <1>1, <1>2 DEF NewLedger, LedgerType
<1> HIDE DEF m
<1>4. m.txns \cup m.prior = l.txns \cup l.prior
  BY <1>3
<1>5. Once(m)
  BY <1>1, <1>3, <1>4 DEF Once
<1> QED BY <1>1, <1>3, <1>5 DEF LedgerOK, Accounted, m

LEMMA FirstLedgerOK ==
    ASSUME NEW K, Finitely(K)
    PROVE  LedgerOK(K, FirstLedger)
<1>1. resolution \in Nat /\ Genesis \in [Account -> Root] /\ RootsOK(Genesis)
  BY EngineAssumption DEF Root, RootsOK
<1>2. FirstLedger \in LedgerType(K)
  BY <1>1 DEF FirstLedger, LedgerType
<1>3. Fees({}) \in Nat /\ Coins(Genesis) \in Nat
  BY <1>1, FeesType, CoinsType
<1> QED BY <1>1, <1>2, <1>3 DEF FirstLedger, LedgerOK, Once, Accounted

-----------------------------------------------------------------------------
\* The orders are strict.
LEMMA CanonicalStrict ==
    ASSUME NEW rank \in [Account -> Nat], NEW ts, ts \subseteq Transaction
    PROVE  StrictOn(Canonical(rank, ts), ts)
<1>1. \A t, u \in ts : <<t, u>> \in Canonical(rank, ts) <=> Precedes(rank, t, u)
  BY DEF Canonical
<1>2. \A t \in ts : rank[t.src] \in Nat /\ t.seq \in Nat /\ t.id \in Nat
  BY Fields DEF TransactionFields
<1>3. \A t \in ts : ~Precedes(rank, t, t)
  BY <1>2 DEF Precedes
<1>4. ASSUME NEW t \in ts, NEW u \in ts, NEW v \in ts, Precedes(rank, t, u), Precedes(rank, u, v)
      PROVE  Precedes(rank, t, v)
  BY <1>2, <1>4 DEF Precedes
<1> QED BY <1>1, <1>3, <1>4 DEF StrictOn

LEMMA ByIdStrict ==
    ASSUME NEW S, S \subseteq Transaction, NEW ts, ts \subseteq S
    PROVE  StrictOn(ById(S), ts)
<1>1. \A t, u \in ts : <<t, u>> \in ById(S) <=> t.id < u.id
  BY DEF ById
<1>2. \A t \in ts : t.id \in Nat
  BY Fields DEF TransactionFields
<1> QED BY <1>1, <1>2 DEF StrictOn

\* A walk over the transactions ts of K keeps the ledger's invariant.
LedgersOK(K) == {l \in LedgerType(K) : LedgerOK(K, l)}

LEMMA InLedgersOK ==
    ASSUME NEW K, NEW l
    PROVE  l \in LedgersOK(K) <=> LedgerOK(K, l)
BY DEF LedgersOK, LedgerOK

AppliesOne(l, t) == applyTransaction(l, t, TRUE, FALSE).ledger

IsApplied(g, l, ts, order) ==
    g = [s \in SUBSET ts |-> IF s = {} THEN l
                             ELSE AppliesOne(g[s \ {LastIn(order, s)}], LastIn(order, s))]

LEMMA AppliesOneOK ==
    ASSUME NEW K, Finitely(K), NEW l \in LedgersOK(K), NEW t \in K
    PROVE  AppliesOne(l, t) \in LedgersOK(K)
<1>1. LedgerOK(K, AppliesOne(l, t))
  BY InLedgersOK, applyTransactionOK DEF AppliesOne
<1> QED BY <1>1, InLedgersOK

\* g[s] is what the walk over s leaves.
AppliedIs(K, l, ts, order, g) ==
    /\ Applied(l, ts, order) = g[ts]
    /\ \A s \in SUBSET ts :
           /\ g[s] \in LedgersOK(K)
           /\ g[s] = IF s = {} THEN l
                     ELSE AppliesOne(g[s \ {LastIn(order, s)}], LastIn(order, s))

LEMMA AppliedUnfolds ==
    ASSUME NEW K, Finitely(K), NEW l, LedgerOK(K, l), NEW ts, ts \subseteq K,
           NEW order, StrictOn(order, ts)
    PROVE  \E g : AppliedIs(K, l, ts, order, g)
<1> DEFINE V == LedgersOK(K)
           pick == [s \in SUBSET ts |-> LastIn(order, s)]
           step == [p \in V \X ts |-> AppliesOne(p[1], p[2])]
           walk == CHOOSE g : IsApplied(g, l, ts, order)
<1>0. l \in V /\ IsFiniteSet(ts)
  BY InLedgersOK, FS_Subset DEF Finitely
<1>1. \A s \in SUBSET ts : s # {} => LastIn(order, s) \in s
  BY <1>0, LastExists
<1>2. Picks(pick, ts)
  BY <1>1 DEF Picks
<1>3. \A v \in V, t \in ts : AppliesOne(v, t) \in V
  BY AppliesOneOK
<1>4. StaysIn(V, step, ts)
  <2> HIDE DEF V
  <2> QED BY <1>3 DEF StaysIn
<1>5. PICK h : h \in [SUBSET ts -> V] /\ IsFold(h, ts, l, pick, step)
  <2> HIDE DEF pick, step, V
  <2> QED BY <1>0, <1>2, <1>4, FoldExists, Zenon
<1> HIDE DEF V
<1> DEFINE e(g, s) == IF s = {} THEN l ELSE AppliesOne(g[s \ {LastIn(order, s)}], LastIn(order, s))
<1>6. ASSUME NEW s \in SUBSET ts PROVE h[s] = e(h, s)
  <2>1. h[s] = IF s = {} THEN l ELSE step[<<h[s \ {pick[s]}], pick[s]>>]
    <3> HIDE DEF pick, step
    <3> QED BY <1>5 DEF IsFold
  <2>2. s # {} => LastIn(order, s) \in ts /\ h[s \ {LastIn(order, s)}] \in V
                  /\ pick[s] = LastIn(order, s)
    BY <1>1, <1>5
  <2>3. \A v \in V, t \in ts : step[<<v, t>>] = AppliesOne(v, t)
    OBVIOUS
  <2> HIDE DEF pick, step
  <2> QED BY <2>1, <2>2, <2>3
<1>7. h = [s \in SUBSET ts |-> e(h, s)]
  <2> HIDE DEF e
  <2> QED BY <1>5, <1>6
<1>8. IsApplied(walk, l, ts, order)
  <2>1. IsApplied(h, l, ts, order)
    BY <1>7 DEF IsApplied
  <2> QED BY <2>1
<1>9. Applied(l, ts, order) = walk[ts]
  BY DEF Applied, MapThenFoldSet, IsApplied, AppliesOne
<1> HIDE DEF walk
<1>10. \A s \in SUBSET ts : walk[s] = e(walk, s)
  BY <1>8 DEF IsApplied
<1> DEFINE T == {s \in SUBSET ts : walk[s] \in V}
<1>11. ASSUME NEW s \in SUBSET ts, \A x \in s : s \ {x} \in T PROVE s \in T
  <2>1. CASE s = {}
    BY <1>0, <1>10, <2>1
  <2>2. CASE s # {}
    <3>1. LastIn(order, s) \in ts /\ walk[s \ {LastIn(order, s)}] \in V
      BY <1>1, <1>11, <2>2
    <3> QED BY <1>3, <1>10, <2>2, <3>1
  <2> QED BY <2>1, <2>2
<1>12. SUBSET ts \subseteq T
  <2>1. Hereditary(T, ts)
    BY <1>11 DEF Hereditary
  <2> HIDE DEF T
  <2> QED BY <1>0, <2>1, SubsetInduction, Zenon
<1>13. \A s \in SUBSET ts : walk[s] \in LedgersOK(K)
  BY <1>12 DEF V
<1> QED BY <1>9, <1>10, <1>13 DEF AppliedIs

LEMMA AppliedOK ==
    ASSUME NEW K, Finitely(K), NEW l, LedgerOK(K, l), NEW ts, ts \subseteq K,
           NEW order, StrictOn(order, ts)
    PROVE  LedgerOK(K, Applied(l, ts, order))
<1>1. PICK g : AppliedIs(K, l, ts, order, g)
  BY AppliedUnfolds, Zenon
<1> QED BY <1>1, InLedgersOK DEF AppliedIs

\* The same for the walk of applyTransactions, which also collects what may be retried.
WalkStates(K) ==
    {s \in [ledger : LedgerType(K), left : SUBSET K, changed : BOOLEAN] : LedgerOK(K, s.ledger)}

WalksOne(s, t, open, retry) == Walked(s, t, Attempt(s.ledger, t, open, retry))

Start(l) == [ledger |-> l, left |-> {}, changed |-> FALSE]

IsWalk(g, l, ts, order, open, retry) ==
    g = [s \in SUBSET ts |-> IF s = {} THEN Start(l)
                             ELSE WalksOne(g[s \ {LastIn(order, s)}], LastIn(order, s), open, retry)]

LEMMA WalksOneOK ==
    ASSUME NEW K, Finitely(K), NEW s \in WalkStates(K), NEW t \in K,
           NEW open \in BOOLEAN, NEW retry \in BOOLEAN
    PROVE  WalksOne(s, t, open, retry) \in WalkStates(K)
<1> DEFINE r == Attempt(s.ledger, t, open, retry)
           w == WalksOne(s, t, open, retry)
<1>1. LedgerOK(K, s.ledger) /\ s.left \subseteq K
  BY DEF WalkStates
<1>2. LedgerOK(K, r.ledger) /\ r.ledger \in LedgerType(K)
  BY <1>1, AttemptOK DEF LedgerOK
<1> HIDE DEF r
<1>3. w = [ledger |-> r.ledger, left |-> IF r.out = "retry" THEN s.left \cup {t} ELSE s.left,
           changed |-> s.changed \/ r.out = "success"]
  BY DEF WalksOne, Walked, r
<1>4. (IF r.out = "retry" THEN s.left \cup {t} ELSE s.left) \in SUBSET K
  BY <1>1
<1>5. (s.changed \/ r.out = "success") \in BOOLEAN
  OBVIOUS
<1> QED BY <1>2, <1>3, <1>4, <1>5 DEF WalkStates

LEMMA StartOK ==
    ASSUME NEW K, NEW l, LedgerOK(K, l)
    PROVE  Start(l) \in WalkStates(K)
BY DEF Start, WalkStates, LedgerOK

\* g[s] is what the walk over s leaves.
WalkIs(K, l, ts, order, open, retry, g) ==
    /\ Walk(l, ts, order, open, retry) = g[ts]
    /\ \A s \in SUBSET ts :
           /\ g[s] \in WalkStates(K)
           /\ g[s] = IF s = {} THEN Start(l)
                     ELSE WalksOne(g[s \ {LastIn(order, s)}], LastIn(order, s), open, retry)

LEMMA WalkUnfolds ==
    ASSUME NEW K, Finitely(K), NEW l, LedgerOK(K, l), NEW ts, ts \subseteq K,
           NEW order, StrictOn(order, ts), NEW open \in BOOLEAN, NEW retry \in BOOLEAN
    PROVE  \E g : WalkIs(K, l, ts, order, open, retry, g)
<1> DEFINE V == WalkStates(K)
           pick == [s \in SUBSET ts |-> LastIn(order, s)]
           step == [p \in V \X ts |-> WalksOne(p[1], p[2], open, retry)]
           walk == CHOOSE g : IsWalk(g, l, ts, order, open, retry)
<1>0. Start(l) \in V /\ IsFiniteSet(ts)
  BY StartOK, FS_Subset DEF Finitely
<1>1. \A s \in SUBSET ts : s # {} => LastIn(order, s) \in s
  BY <1>0, LastExists
<1>2. Picks(pick, ts)
  BY <1>1 DEF Picks
<1>3. \A v \in V, t \in ts : WalksOne(v, t, open, retry) \in V
  BY WalksOneOK
<1>4. StaysIn(V, step, ts)
  <2> HIDE DEF V
  <2> QED BY <1>3 DEF StaysIn
<1>5. PICK h : h \in [SUBSET ts -> V] /\ IsFold(h, ts, Start(l), pick, step)
  <2> HIDE DEF pick, step, V
  <2> QED BY <1>0, <1>2, <1>4, FoldExists, Zenon
<1> HIDE DEF V
<1> DEFINE e(g, s) == IF s = {} THEN Start(l)
                      ELSE WalksOne(g[s \ {LastIn(order, s)}], LastIn(order, s), open, retry)
<1>6. ASSUME NEW s \in SUBSET ts PROVE h[s] = e(h, s)
  <2>1. h[s] = IF s = {} THEN Start(l) ELSE step[<<h[s \ {pick[s]}], pick[s]>>]
    <3> HIDE DEF pick, step
    <3> QED BY <1>5 DEF IsFold
  <2>2. s # {} => LastIn(order, s) \in ts /\ h[s \ {LastIn(order, s)}] \in V
                  /\ pick[s] = LastIn(order, s)
    BY <1>1, <1>5
  <2>3. \A v \in V, t \in ts : step[<<v, t>>] = WalksOne(v, t, open, retry)
    OBVIOUS
  <2> HIDE DEF pick, step
  <2> QED BY <2>1, <2>2, <2>3
<1>7. h = [s \in SUBSET ts |-> e(h, s)]
  <2> HIDE DEF e
  <2> QED BY <1>5, <1>6
<1>8. IsWalk(walk, l, ts, order, open, retry)
  <2>1. IsWalk(h, l, ts, order, open, retry)
    BY <1>7 DEF IsWalk
  <2> QED BY <2>1
<1>9. Walk(l, ts, order, open, retry) = walk[ts]
  BY DEF Walk, MapThenFoldSet, IsWalk, WalksOne, Start
<1> HIDE DEF walk
<1>10. \A s \in SUBSET ts : walk[s] = e(walk, s)
  BY <1>8 DEF IsWalk
<1> DEFINE T == {s \in SUBSET ts : walk[s] \in V}
<1>11. ASSUME NEW s \in SUBSET ts, \A x \in s : s \ {x} \in T PROVE s \in T
  <2>1. CASE s = {}
    BY <1>0, <1>10, <2>1
  <2>2. CASE s # {}
    <3>1. LastIn(order, s) \in ts /\ walk[s \ {LastIn(order, s)}] \in V
      BY <1>1, <1>11, <2>2
    <3> QED BY <1>3, <1>10, <2>2, <3>1
  <2> QED BY <2>1, <2>2
<1>12. SUBSET ts \subseteq T
  <2>1. Hereditary(T, ts)
    BY <1>11 DEF Hereditary
  <2> HIDE DEF T
  <2> QED BY <1>0, <2>1, SubsetInduction, Zenon
<1>13. \A s \in SUBSET ts : walk[s] \in WalkStates(K)
  BY <1>12 DEF V
<1> QED BY <1>9, <1>10, <1>13 DEF WalkIs

LEMMA WalkOK ==
    ASSUME NEW K, Finitely(K), NEW l, LedgerOK(K, l), NEW ts, ts \subseteq K,
           NEW order, StrictOn(order, ts), NEW open \in BOOLEAN, NEW retry \in BOOLEAN
    PROVE  Walk(l, ts, order, open, retry) \in WalkStates(K)
<1>1. PICK g : WalkIs(K, l, ts, order, open, retry, g)
  BY WalkUnfolds, Zenon
<1> QED BY <1>1 DEF WalkIs

\* And for the passes over what may be retried.
PassStates(K) ==
    {s \in [ledger : LedgerType(K), left : SUBSET K, certain : BOOLEAN, done : BOOLEAN] :
        LedgerOK(K, s.ledger)}

Begin(l, left) == [ledger |-> l, left |-> left, certain |-> TRUE, done |-> FALSE]

PassNumbers == 0 .. TOTAL_PASSES - 1

IsPasses(g, l, left, rank, open) ==
    g = [s \in SUBSET PassNumbers |->
            IF s = {} THEN Begin(l, left) ELSE Pass(g[s \ {Max(s)}], Max(s), rank, open)]

LEMMA PassOK ==
    ASSUME NEW K, Finitely(K), NEW s \in PassStates(K), NEW n \in PassNumbers,
           NEW rank \in [Account -> Nat], NEW open \in BOOLEAN
    PROVE  Pass(s, n, rank, open) \in PassStates(K)
<1> DEFINE w == Walk(s.ledger, s.left, Canonical(rank, s.left), open, s.certain)
           q == Pass(s, n, rank, open)
<1>1. LedgerOK(K, s.ledger) /\ s.left \subseteq K /\ s.certain \in BOOLEAN
  BY DEF PassStates
<1>2. StrictOn(Canonical(rank, s.left), s.left)
  BY <1>1, CanonicalStrict DEF Finitely
<1>3. w \in WalkStates(K)
  BY <1>1, <1>2, WalkOK, Zenon
<1>4. CASE s.done
  BY <1>4 DEF Pass
<1>5. CASE ~s.done
  <2>1. q = [ledger |-> w.ledger, left |-> w.left,
             certain |-> s.certain /\ w.changed /\ n < RETRY_PASSES,
             done |-> ~w.changed /\ ~s.certain]
    BY <1>5 DEF Pass, Passed
  <2> HIDE DEF w
  <2>2. w.ledger \in LedgerType(K) /\ w.left \in SUBSET K /\ LedgerOK(K, w.ledger)
    BY <1>3 DEF WalkStates
  <2>3. (s.certain /\ w.changed /\ n < RETRY_PASSES) \in BOOLEAN
        /\ (~w.changed /\ ~s.certain) \in BOOLEAN
    OBVIOUS
  <2> QED BY <2>1, <2>2, <2>3 DEF PassStates
<1> QED BY <1>4, <1>5

\* g[s] is what the passes of s leave.
PassesAre(K, l, left, rank, open, g) ==
    /\ Passes(l, left, rank, open) = g[PassNumbers]
    /\ \A s \in SUBSET PassNumbers :
           /\ g[s] \in PassStates(K)
           /\ g[s] = IF s = {} THEN Begin(l, left)
                     ELSE Pass(g[s \ {Max(s)}], Max(s), rank, open)

LEMMA PassesUnfold ==
    ASSUME NEW K, Finitely(K), NEW l, LedgerOK(K, l), NEW left, left \subseteq K,
           NEW rank \in [Account -> Nat], NEW open \in BOOLEAN
    PROVE  \E g : PassesAre(K, l, left, rank, open, g)
<1> DEFINE V == PassStates(K)
           pick == [s \in SUBSET PassNumbers |-> Max(s)]
           step == [p \in V \X PassNumbers |-> Pass(p[1], p[2], rank, open)]
           passes == CHOOSE g : IsPasses(g, l, left, rank, open)
<1>0. Begin(l, left) \in V /\ IsFiniteSet(PassNumbers) /\ PassNumbers \subseteq Nat
  <2>1. Begin(l, left) \in PassStates(K)
    BY DEF Begin, PassStates, LedgerOK
  <2>2. TOTAL_PASSES \in Nat
    BY EngineAssumption
  <2>3. IsFiniteSet(PassNumbers) /\ PassNumbers \subseteq Nat
    BY <2>2, FS_Interval DEF PassNumbers
  <2> QED BY <2>1, <2>3
<1>1. \A s \in SUBSET PassNumbers : s # {} => Max(s) \in s
  BY <1>0, MaxExists
<1>2. Picks(pick, PassNumbers)
  BY <1>1 DEF Picks
<1>3. \A v \in V, t \in PassNumbers : Pass(v, t, rank, open) \in V
  BY PassOK
<1>4. StaysIn(V, step, PassNumbers)
  <2> HIDE DEF V
  <2> QED BY <1>3 DEF StaysIn
<1>5. PICK h : h \in [SUBSET PassNumbers -> V] /\ IsFold(h, PassNumbers, Begin(l, left), pick, step)
  <2> HIDE DEF pick, step, V
  <2> QED BY <1>0, <1>2, <1>4, FoldExists, Zenon
<1> HIDE DEF V
<1> DEFINE e(g, s) == IF s = {} THEN Begin(l, left)
                      ELSE Pass(g[s \ {Max(s)}], Max(s), rank, open)
<1>6. ASSUME NEW s \in SUBSET PassNumbers PROVE h[s] = e(h, s)
  <2>1. h[s] = IF s = {} THEN Begin(l, left) ELSE step[<<h[s \ {pick[s]}], pick[s]>>]
    <3> HIDE DEF pick, step
    <3> QED BY <1>5 DEF IsFold
  <2>2. s # {} => Max(s) \in PassNumbers /\ h[s \ {Max(s)}] \in V
                  /\ pick[s] = Max(s)
    BY <1>1, <1>5
  <2>3. \A v \in V, t \in PassNumbers : step[<<v, t>>] = Pass(v, t, rank, open)
    OBVIOUS
  <2> HIDE DEF pick, step
  <2> QED BY <2>1, <2>2, <2>3
<1>7. h = [s \in SUBSET PassNumbers |-> e(h, s)]
  <2> HIDE DEF e
  <2> QED BY <1>5, <1>6
<1>8. IsPasses(passes, l, left, rank, open)
  <2>1. IsPasses(h, l, left, rank, open)
    BY <1>7 DEF IsPasses
  <2> QED BY <2>1
<1>9. Passes(l, left, rank, open) = passes[PassNumbers]
  BY DEF Passes, MapThenFoldSet, IsPasses, Begin, PassNumbers
<1> HIDE DEF passes
<1>10. \A s \in SUBSET PassNumbers : passes[s] = e(passes, s)
  BY <1>8 DEF IsPasses
<1> DEFINE T == {s \in SUBSET PassNumbers : passes[s] \in V}
<1>11. ASSUME NEW s \in SUBSET PassNumbers, \A x \in s : s \ {x} \in T PROVE s \in T
  <2>1. CASE s = {}
    BY <1>0, <1>10, <2>1
  <2>2. CASE s # {}
    <3>1. Max(s) \in PassNumbers /\ passes[s \ {Max(s)}] \in V
      BY <1>1, <1>11, <2>2
    <3> QED BY <1>3, <1>10, <2>2, <3>1
  <2> QED BY <2>1, <2>2
<1>12. SUBSET PassNumbers \subseteq T
  <2>1. Hereditary(T, PassNumbers)
    BY <1>11 DEF Hereditary
  <2> HIDE DEF T
  <2> QED BY <1>0, <2>1, SubsetInduction, Zenon
<1>13. \A s \in SUBSET PassNumbers : passes[s] \in PassStates(K)
  BY <1>12 DEF V
<1> QED BY <1>9, <1>10, <1>13 DEF PassesAre

LEMMA PassesOK ==
    ASSUME NEW K, Finitely(K), NEW l, LedgerOK(K, l), NEW left, left \subseteq K,
           NEW rank \in [Account -> Nat], NEW open \in BOOLEAN
    PROVE  Passes(l, left, rank, open) \in PassStates(K)
<1>1. PICK g : PassesAre(K, l, left, rank, open, g)
  BY PassesUnfold, Zenon
<1> QED BY <1>1 DEF PassesAre

LEMMA applyTransactionsOK ==
    ASSUME NEW K, Finitely(K), NEW set, set \subseteq K, NEW l, LedgerOK(K, l), NEW check,
           NEW left, left \subseteq K, NEW rank \in [Account -> Nat], NEW open \in BOOLEAN
    PROVE  LET q == applyTransactions(set, l, check, left, rank, open)
           IN  LedgerOK(K, q.ledger) /\ q.left \subseteq K
<1> DEFINE ts == set \ check.txns
           first == Walk(l, ts, ById(set), open, TRUE)
           q == applyTransactions(set, l, check, left, rank, open)
<1>1. ts \subseteq K /\ StrictOn(ById(set), ts)
  BY ByIdStrict DEF Finitely
<1>2. TRUE \in BOOLEAN
  OBVIOUS
<1>3. first \in WalkStates(K)
  <2> HIDE DEF ts
  <2> QED BY <1>1, <1>2, WalkOK, Zenon
<1>4. q = Passes(first.ledger, left \cup first.left, rank, open)
  BY DEF applyTransactions, Retried
<1> HIDE DEF first, q
<1>5. LedgerOK(K, first.ledger) /\ left \cup first.left \subseteq K
  BY <1>3 DEF WalkStates
<1>6. q \in PassStates(K)
  BY <1>4, <1>5, PassesOK
<1> QED BY <1>6 DEF PassStates, q

-----------------------------------------------------------------------------
(* What becomes of a transaction.  A transaction u that is applied changes *)
(* its source, the account it pays and the fee account, and no other.      *)
Touched(acct, new, u) ==
    \A a \in Account \ {FeeAccount} :
        \/ new[a] = acct[a]
        \/ /\ a = u.src /\ acct[a].seq = u.seq /\ acct[a].seq > 0
           /\ new[a].seq = u.seq + 1 /\ new[a].bal <= acct[a].bal
        \/ u.amt > 0 /\ u.dst = a

\* The ledger l becomes m, as transactions are tried on it.
Follows(l, m) ==
    /\ m.seq = l.seq /\ m.close = l.close /\ m.prior = l.prior
    /\ l.txns \subseteq m.txns
    /\ \A a \in Account : l.acct[a].seq <= m.acct[a].seq

Effect(l, m, u) ==
    /\ Follows(l, m)
    /\ m.txns \subseteq l.txns \cup {u}
    /\ m = l \/ (u \in m.txns /\ Touched(l.acct, m.acct, u))

LEMMA FollowsItself ==
    ASSUME NEW K, NEW l, LedgerOK(K, l)
    PROVE  Follows(l, l)
<1>1. \A a \in Account : l.acct[a].seq \in Nat
  BY LedgerFields, RootFields DEF LedgerOK
<1> QED BY <1>1 DEF Follows

LEMMA FollowsFurther ==
    ASSUME NEW K, NEW l, LedgerOK(K, l), NEW m, LedgerOK(K, m), NEW n, LedgerOK(K, n),
           Follows(l, m), Follows(m, n)
    PROVE  Follows(l, n)
<1>1. \A a \in Account : l.acct[a].seq \in Nat /\ m.acct[a].seq \in Nat /\ n.acct[a].seq \in Nat
  BY LedgerFields, RootFields DEF LedgerOK
<1>2. \A a \in Account : l.acct[a].seq <= n.acct[a].seq
  BY <1>1 DEF Follows
<1> QED BY <1>2 DEF Follows

LEMMA FeePaidTouches ==
    ASSUME NEW t \in Transaction, NEW acct, RootsOK(acct), acct[t.src].bal >= t.fee,
           NEW a \in Account \ {FeeAccount}
    PROVE  LET new == FeePaid(acct, t)
           IN  /\ a # t.src => new[a] = acct[a]
               /\ a = t.src => new[a].seq = t.seq + 1 /\ new[a].bal = acct[a].bal - t.fee
<1>1. t.src \in Account /\ FeeAccount \in Account /\ acct \in [Account -> Root]
  BY Fields, EngineAssumption DEF TransactionFields, RootsOK
<1> DEFINE paid == [acct EXCEPT ![t.src] = [seq |-> t.seq + 1, bal |-> acct[t.src].bal - t.fee]]
<1>2. paid \in [Account -> [seq : {t.seq + 1} \cup Nat, bal : {acct[t.src].bal - t.fee} \cup Nat]]
  BY <1>1 DEF Root
<1>3. FeePaid(acct, t)[a] = paid[a]
  BY <1>1, <1>2 DEF FeePaid
<1> QED BY <1>1, <1>3

LEMMA doApplyTouches ==
    ASSUME NEW t \in Transaction, t.src # t.dst, NEW l, RootsOK(l.acct),
           l.acct[t.src].bal >= t.fee, NEW r, r = doApply(l, t, FeePaid(l.acct, t)),
           r.ter = "tes", NEW a \in Account \ {FeeAccount}, a # t.dst
    PROVE  /\ a # t.src => r.acct[a] = l.acct[a]
           /\ a = t.src => /\ r.acct[a].seq = t.seq + 1
                           /\ r.acct[a].bal = l.acct[a].bal - t.fee - t.amt
<1> DEFINE acct == FeePaid(l.acct, t)
           dst == CHOOSE d \in Destination(acct, t) : TRUE
           spent == [acct EXCEPT ![t.src] = [seq |-> acct[t.src].seq, bal |-> acct[t.src].bal - t.amt]]
           q == [spent EXCEPT ![t.dst] = [seq |-> dst.seq, bal |-> dst.bal + t.amt]]
<1>1. r = Ends("tes", q)
  BY DEF doApply, Ends
<1>2. r.acct = q
  BY <1>1 DEF Ends
<1>3. /\ a # t.src => acct[a] = l.acct[a]
      /\ a = t.src => acct[a].seq = t.seq + 1 /\ acct[a].bal = l.acct[a].bal - t.fee
  BY FeePaidTouches
<1>4. acct \in [Account -> Root]
  BY FeePaidOK DEF Used, RootsOK
<1> HIDE DEF acct, dst
<1>5. q[a] = spent[a]
  BY <1>4
<1>6. /\ a # t.src => q[a] = acct[a]
      /\ a = t.src => q[a].seq = acct[a].seq /\ q[a].bal = acct[a].bal - t.amt
  BY <1>4, <1>5
<1> QED BY <1>2, <1>3, <1>6

LEMMA transactTouches ==
    ASSUME NEW t \in Transaction, NEW l, RootsOK(l.acct), NEW open \in BOOLEAN,
           NEW r, r = transact(l, t, Checked(l, t, open)), r.ter = "tes"
    PROVE  Touched(l.acct, r.acct, t)
<1>1. Checked(l, t, open) = "tes"
  BY DEF transact, Ends
<1>2. ~Redundant(t) /\ l.acct[t.src].seq = t.seq /\ l.acct[t.src].bal >= t.fee
  BY <1>1, CheckedOK
<1>3. l.acct[t.src].seq > 0
  BY <1>1 DEF Checked, Exists
<1>4. /\ t.src \in Account /\ t.fee \in Nat /\ t.amt \in Nat /\ t.seq \in Nat
      /\ l.acct[t.src].bal \in Nat
  BY Fields, RootFields DEF TransactionFields, RootsOK
<1> SUFFICES ASSUME NEW a \in Account \ {FeeAccount}, ~(t.amt > 0 /\ t.dst = a)
             PROVE  /\ a # t.src => r.acct[a] = l.acct[a]
                    /\ a = t.src => r.acct[a].seq = t.seq + 1 /\ r.acct[a].bal <= l.acct[a].bal
  BY <1>2, <1>3 DEF Touched
<1>5. CASE t.amt = 0
  <2>1. r.acct = FeePaid(l.acct, t)
    BY <1>1, <1>5 DEF transact, doMessage, Ends
  <2>2. /\ a # t.src => r.acct[a] = l.acct[a]
        /\ a = t.src => r.acct[a].seq = t.seq + 1 /\ r.acct[a].bal = l.acct[a].bal - t.fee
    BY <1>2, <2>1, FeePaidTouches
  <2> QED BY <1>4, <2>2
<1>6. CASE t.amt # 0
  <2>1. r = doApply(l, t, FeePaid(l.acct, t))
    BY <1>1, <1>6 DEF transact
  <2>2. t.src # t.dst /\ a # t.dst
    BY <1>2, <1>4, <1>6 DEF Redundant
  <2>3. /\ a # t.src => r.acct[a] = l.acct[a]
        /\ a = t.src => /\ r.acct[a].seq = t.seq + 1
                        /\ r.acct[a].bal = l.acct[a].bal - t.fee - t.amt
    BY <1>2, <2>1, <2>2, doApplyTouches
  <2> QED BY <1>4, <2>3
<1> QED BY <1>5, <1>6

LEMMA ClaimedTouches ==
    ASSUME NEW K, Finitely(K), NEW l, LedgerOK(K, l), NEW t \in K, NEW open, Claimable(l, t, open)
    PROVE  Touched(l.acct, Claimed(l, t).acct, t)
<1>1. t.src \in Account /\ t.fee \in Nat /\ t.seq \in Nat
  BY Fields DEF Finitely, TransactionFields
<1>2. l \in LedgerType(K) /\ l.acct \in [Account -> Root] /\ l.acct[t.src].bal \in Nat
  BY <1>1, LedgerFields, RootFields DEF LedgerOK
<1>3. l.acct[t.src].seq = t.seq /\ l.acct[t.src].seq > 0
  BY DEF Claimable, Exists
<1> DEFINE f == Min({t.fee, l.acct[t.src].bal})
           p == [seq |-> t.seq + 1, bal |-> l.acct[t.src].bal - f]
           new == Claimed(l, t).acct
<1>4. f \in Nat /\ f <= l.acct[t.src].bal
  BY <1>1, <1>2, MinOfTwo
<1>5. new = SetRoot(l.acct, t.src, p)
  BY <1>1, <1>2 DEF Claimed, SetRoot, LedgerType
<1> HIDE DEF f, new
<1>6. p.seq = t.seq + 1 /\ p.bal <= l.acct[t.src].bal
  BY <1>2, <1>4
<1> HIDE DEF p
<1>7. new[t.src] = p /\ \A a \in Account \ {t.src} : new[a] = l.acct[a]
  BY <1>1, <1>2, <1>5 DEF SetRoot
<1> QED BY <1>3, <1>6, <1>7 DEF Touched, new

LEMMA applyEffect ==
    ASSUME NEW K, Finitely(K), NEW l, LedgerOK(K, l), NEW t \in K,
           NEW open \in BOOLEAN, NEW retry \in BOOLEAN
    PROVE  Effect(l, applyTransaction(l, t, open, retry).ledger, t)
<1> DEFINE r == transact(l, t, Checked(l, t, open))
           x == applyTransaction(l, t, open, retry)
<1>1. t \in Transaction /\ t.src \in Account /\ t.seq \in Nat
  BY Fields DEF Finitely, TransactionFields
<1>2. l \in LedgerType(K) /\ RootsOK(l.acct)
  BY DEF LedgerOK
<1>3. ASSUME NEW m, m.seq = l.seq, m.close = l.close, m.prior = l.prior, m.txns = l.txns \cup {t},
             l.acct[t.src].seq = t.seq, Used(l.acct, m.acct, t), Touched(l.acct, m.acct, t)
      PROVE  Effect(l, m, t)
  <2>1. \A a \in Account : l.acct[a].seq \in Nat /\ m.acct[a].seq \in Nat
    BY <1>2, <1>3, RootFields DEF Used, RootsOK
  <2>2. \A a \in Account : l.acct[a].seq <= m.acct[a].seq
    BY <1>1, <1>3, <2>1 DEF Used
  <2> QED BY <1>3, <2>2 DEF Effect, Follows
<1>4. CASE r.ter = "tes"
  <2> DEFINE m == [l EXCEPT !.acct = r.acct, !.txns = @ \cup {t}]
  <2>1. x.ledger = m
    BY <1>4 DEF applyTransaction, Reprocessed
  <2>2. Succeeded(l, t, r) /\ Touched(l.acct, r.acct, t)
    BY <1>1, <1>2, <1>4, transactOK, transactTouches
  <2> HIDE DEF r, x
  <2>3. /\ m.seq = l.seq /\ m.close = l.close /\ m.acct = r.acct
        /\ m.txns = l.txns \cup {t} /\ m.prior = l.prior
    BY <1>2 DEF LedgerType
  <2> HIDE DEF m
  <2>4. Effect(l, m, t)
    BY <1>3, <2>2, <2>3 DEF Succeeded
  <2> QED BY <2>1, <2>4 DEF x
<1>5. CASE r.ter # "tes" /\ r.ter = "tec" /\ ~retry /\ Claimable(l, t, open)
  <2> DEFINE m == Claimed(l, t)
  <2>1. x.ledger = m
    BY <1>5 DEF applyTransaction, Reprocessed
  <2>2. l.acct[t.src].seq = t.seq
    BY <1>5 DEF Claimable
  <2>3. Touched(l.acct, m.acct, t)
    BY <1>5, ClaimedTouches
  <2>4. m.seq = l.seq /\ m.close = l.close /\ m.prior = l.prior /\ m.txns = l.txns \cup {t}
    BY <1>2 DEF Claimed, LedgerType
  <2>5. Used(l.acct, m.acct, t)
    <3>1. LedgerOK(K, m)
      BY <2>2, ClaimedOK
    <3>2. RootsOK(m.acct)
      BY <3>1 DEF LedgerOK
    <3>3. m.acct = SetRoot(l.acct, t.src, [seq |-> t.seq + 1, bal |-> l.acct[t.src].bal -
                                           Min({t.fee, l.acct[t.src].bal})])
      BY <1>1, <1>2 DEF Claimed, SetRoot, LedgerType
    <3>4. l.acct \in [Account -> Root]
      BY <1>2 DEF RootsOK
    <3>5. m.acct[t.src].seq = t.seq + 1 /\ \A a \in Account \ {t.src} : m.acct[a] = l.acct[a]
      BY <1>1, <3>3, <3>4 DEF SetRoot
    <3>6. \A a \in Account : l.acct[a].seq \in Nat
      BY <3>4, RootFields
    <3>7. \A a \in Account \ {t.src} : m.acct[a].seq >= l.acct[a].seq
      BY <3>5, <3>6
    <3> QED BY <3>2, <3>5, <3>7 DEF Used
  <2> HIDE DEF m
  <2>6. Effect(l, m, t)
    BY <1>3, <2>2, <2>3, <2>4, <2>5
  <2> QED BY <2>1, <2>6
<1>6. CASE r.ter # "tes" /\ ~(r.ter = "tec" /\ ~retry /\ Claimable(l, t, open))
  <2>1. x.ledger = l
    BY <1>6 DEF applyTransaction, Reprocessed
  <2>2. Effect(l, l, t)
    BY FollowsItself DEF Effect
  <2> QED BY <2>1, <2>2
<1> QED BY <1>4, <1>5, <1>6

LEMMA AttemptEffect ==
    ASSUME NEW K, Finitely(K), NEW l, LedgerOK(K, l), NEW t \in K,
           NEW open \in BOOLEAN, NEW retry \in BOOLEAN
    PROVE  Effect(l, Attempt(l, t, open, retry).ledger, t)
<1>1. Effect(l, applyTransaction(l, t, open, retry).ledger, t)
  BY applyEffect
<1>2. Effect(l, l, t)
  BY FollowsItself DEF Effect
<1> QED BY <1>1, <1>2 DEF Attempt, Judged

(* t cannot be applied to m, nor to what m becomes, unless m credits its   *)
(* source.  A transaction that waits only needs its predecessors.          *)
Hopeless(m, t, open) ==
    \/ ~Independent(t, m.txns)
    \/ ~t.good \/ Redundant(t) \/ Unfunded(m, t)
    \/ m.acct[t.src].seq = 0 \/ m.acct[t.src].seq > t.seq
    \/ t.last > 0 /\ m.seq > t.last
    \/ open /\ t.fee < feeDue
    \/ m.acct[t.src].bal < t.fee /\ (open \/ m.acct[t.src].bal = 0)

Waiting(m, t) == m.acct[t.src].seq < t.seq

\* The numbers that decide on a transaction.
Numbers(l, t) ==
    /\ TransactionFields(t)
    /\ l.acct[t.src].seq \in Nat /\ l.acct[t.src].bal \in Nat
    /\ l.seq \in Nat /\ feeDue \in Nat /\ reserve \in Nat

LEMMA NumbersOf ==
    ASSUME NEW K, Finitely(K), NEW l, LedgerOK(K, l), NEW t \in K
    PROVE  Numbers(l, t)
<1>1. TransactionFields(t)
  BY Fields DEF Finitely
<1>2. l.acct \in [Account -> Root] /\ l.seq \in Nat
  BY LedgerFields DEF LedgerOK
<1>3. l.acct[t.src].seq \in Nat /\ l.acct[t.src].bal \in Nat
  BY <1>1, <1>2, RootFields DEF TransactionFields
<1> QED BY <1>1, <1>2, <1>3, EngineAssumption DEF Numbers

\* The account of a transaction that stays independent.
Dwindles(l, m, t, u) ==
    \/ m.acct[t.src] = l.acct[t.src]
    \/ /\ t.src = u.src /\ l.acct[t.src].seq = u.seq /\ l.acct[t.src].seq > 0 /\ u \in m.txns
       /\ m.acct[t.src].seq = u.seq + 1 /\ m.acct[t.src].bal <= l.acct[t.src].bal

LEMMA EffectDwindles ==
    ASSUME NEW l, NEW t, t.src \in Account, NEW u, NEW m, Effect(l, m, u), Independent(t, m.txns)
    PROVE  Dwindles(l, m, t, u)
<1>1. CASE m = l
  BY <1>1 DEF Dwindles
<1>2. CASE m # l
  <2>1. u \in m.txns /\ Touched(l.acct, m.acct, u)
    BY <1>2 DEF Effect
  <2>2. t.src # FeeAccount /\ ~(u.amt > 0 /\ u.dst = t.src)
    BY <2>1 DEF Independent
  <2> QED BY <2>1, <2>2 DEF Touched, Dwindles
<1> QED BY <1>1, <1>2

LEMMA HopelessStays ==
    ASSUME NEW K, Finitely(K), NEW l, LedgerOK(K, l), NEW m, LedgerOK(K, m), NEW t \in K,
           NEW u \in K, Effect(l, m, u), NEW open \in BOOLEAN, Hopeless(l, t, open)
    PROVE  Hopeless(m, t, open)
<1> SUFFICES ASSUME Independent(t, m.txns) PROVE Hopeless(m, t, open)
  BY DEF Hopeless
<1>1. Numbers(l, t) /\ Numbers(m, t) /\ u.seq \in Nat
  BY NumbersOf DEF Numbers, TransactionFields
<1>2. t.src \in Account
  BY <1>1 DEF Numbers, TransactionFields
<1>3. Dwindles(l, m, t, u)
  BY <1>2, EffectDwindles
<1>4. m.seq = l.seq /\ l.txns \subseteq m.txns
  BY DEF Effect, Follows
<1>5. Independent(t, l.txns)
  BY <1>4 DEF Independent
<1>6. CASE m.acct[t.src] = l.acct[t.src]
  BY <1>4, <1>5, <1>6 DEF Hopeless, Unfunded
<1>7. CASE /\ l.acct[t.src].seq > 0
           /\ m.acct[t.src].seq > l.acct[t.src].seq /\ m.acct[t.src].bal <= l.acct[t.src].bal
  <2> DEFINE ls == l.acct[t.src].seq
             lb == l.acct[t.src].bal
             ms == m.acct[t.src].seq
             mb == m.acct[t.src].bal
  <2>1. ls \in Nat /\ lb \in Nat /\ ms \in Nat /\ mb \in Nat /\ ls > 0 /\ ms > ls /\ mb <= lb
    BY <1>1, <1>7 DEF Numbers
  <2>2. t.seq \in Nat /\ t.fee \in Nat /\ t.amt \in Nat /\ reserve \in Nat
    BY <1>1 DEF Numbers, TransactionFields
  <2>3. lb < reserve + t.amt => mb < reserve + t.amt
    BY <2>1, <2>2
  <2>4. lb < t.fee => mb < t.fee
    BY <2>1, <2>2
  <2>5. (lb = 0 => mb = 0) /\ (ls > t.seq => ms > t.seq) /\ ls # 0
    BY <2>1, <2>2
  <2>6. Unfunded(l, t) => Unfunded(m, t)
    BY <2>3 DEF Unfunded
  <2> QED BY <1>4, <1>5, <2>4, <2>5, <2>6 DEF Hopeless
<1>8. Dwindles(l, m, t, u) /\ m.acct[t.src] # l.acct[t.src]
      => l.acct[t.src].seq > 0 /\ m.acct[t.src].seq > l.acct[t.src].seq
         /\ m.acct[t.src].bal <= l.acct[t.src].bal
  BY <1>1 DEF Dwindles
<1> QED BY <1>3, <1>6, <1>7, <1>8

LEMMA WaitingStays ==
    ASSUME NEW K, Finitely(K), NEW l, LedgerOK(K, l), NEW m, LedgerOK(K, m), NEW t \in K,
           NEW u \in K, Effect(l, m, u), NEW open \in BOOLEAN, Waiting(l, t)
    PROVE  \/ Hopeless(m, t, open) \/ Waiting(m, t)
           \/ u.src = t.src /\ u.seq < t.seq /\ u \in m.txns
<1> SUFFICES ASSUME Independent(t, m.txns)
             PROVE  Waiting(m, t) \/ (u.src = t.src /\ u.seq < t.seq /\ u \in m.txns)
  BY DEF Hopeless
<1>1. t.src \in Account
  BY NumbersOf DEF Numbers, TransactionFields
<1>2. Dwindles(l, m, t, u)
  BY <1>1, EffectDwindles
<1> QED BY <1>2 DEF Dwindles, Waiting

\* Neither kind can be applied.
LEMMA NotApplied ==
    ASSUME NEW K, Finitely(K), NEW l, LedgerOK(K, l), NEW t \in K, NEW open \in BOOLEAN,
           NEW retry \in BOOLEAN, Independent(t, l.txns), Hopeless(l, t, open) \/ Waiting(l, t)
    PROVE  ~applyTransaction(l, t, open, retry).did
<1>1. Numbers(l, t)
  BY NumbersOf
<1> DEFINE c == Checked(l, t, open)
<1>2. c \notin {"tes", "tec"}
  <2> SUFFICES ASSUME ~Redundant(t), ~Unfunded(l, t), t.good, l.acct[t.src].seq > 0,
                      checkSeq(l, t) = "tes"
               PROVE  payFee(l, t, open) \notin {"tes", "tec"}
    BY DEF Checked, Exists, checkSeq
  <2>1. ~(l.acct[t.src].seq < t.seq) /\ ~(l.acct[t.src].seq > t.seq) /\ ~(t.last > 0 /\ l.seq > t.last)
    BY DEF checkSeq
  <2>2. l.acct[t.src].seq # 0
    BY <1>1 DEF Numbers
  <2>3. \/ open /\ t.fee < feeDue
        \/ l.acct[t.src].bal < t.fee /\ (open \/ l.acct[t.src].bal = 0)
    BY <2>1, <2>2 DEF Hopeless, Waiting
  <2> QED BY <1>1, <2>3 DEF payFee, Numbers, TransactionFields
<1> HIDE DEF c
<1>3. transact(l, t, c).ter = c
  BY <1>2 DEF transact, Ends
<1> QED BY <1>2, <1>3 DEF applyTransaction, Reprocessed, c

\* A transaction that is neither passes every check, and a final attempt applies it.
LEMMA Applies ==
    ASSUME NEW K, Finitely(K), NEW l, LedgerOK(K, l), NEW t \in K, NEW open \in BOOLEAN,
           ~Hopeless(l, t, open), ~Waiting(l, t)
    PROVE  applyTransaction(l, t, open, FALSE).did
<1>1. Numbers(l, t)
  BY NumbersOf
<1>2. /\ Independent(t, l.txns) /\ t.good /\ ~Redundant(t) /\ ~Unfunded(l, t)
      /\ l.acct[t.src].seq # 0 /\ ~(l.acct[t.src].seq > t.seq) /\ ~(l.acct[t.src].seq < t.seq)
      /\ ~(t.last > 0 /\ l.seq > t.last) /\ ~(open /\ t.fee < feeDue)
      /\ ~(l.acct[t.src].bal < t.fee /\ (open \/ l.acct[t.src].bal = 0))
  BY DEF Hopeless, Waiting
<1>3. checkSeq(l, t) = "tes"
  BY <1>2 DEF checkSeq
<1>4. Exists(l.acct, t.src) /\ l.acct[t.src].seq = t.seq /\ t.fee > 0
  BY <1>1, <1>2 DEF Numbers, Exists, Independent, TransactionFields
<1> DEFINE c == Checked(l, t, open)
           r == transact(l, t, c)
<1>5. c = payFee(l, t, open)
  BY <1>2, <1>3, <1>4 DEF Checked
<1>6. CASE l.acct[t.src].bal >= t.fee
  <2>1. c = "tes"
    BY <1>2, <1>5, <1>6 DEF payFee
  <2>2. l.acct[t.src].bal > 0
    BY <1>1, <1>4, <1>6 DEF Numbers, TransactionFields
  <2>3. Claimable(l, t, open)
    BY <1>4, <1>6, <2>2 DEF Claimable
  <2> HIDE DEF c
  <2>4. r.ter \in {"tes", "tec"}
    BY <2>1 DEF transact, doMessage, doApply, Ends
  <2> HIDE DEF r
  <2>5. Reprocessed(l, t, open, FALSE, r).did
    BY <2>3, <2>4 DEF Reprocessed
  <2> QED BY <2>5 DEF applyTransaction, r, c
<1>7. CASE ~(l.acct[t.src].bal >= t.fee)
  <2>1. l.acct[t.src].bal < t.fee
    BY <1>1, <1>7 DEF Numbers, TransactionFields
  <2>2. ~open /\ l.acct[t.src].bal > 0
    BY <1>1, <1>2, <2>1 DEF Numbers
  <2>3. c = "tec"
    BY <1>5, <1>7, <2>2 DEF payFee
  <2>4. Claimable(l, t, open)
    BY <1>4, <2>2 DEF Claimable
  <2> HIDE DEF c
  <2>5. r.ter = "tec"
    BY <2>3 DEF transact, Ends
  <2> HIDE DEF r
  <2>6. Reprocessed(l, t, open, FALSE, r).did
    BY <2>4, <2>5 DEF Reprocessed
  <2> QED BY <2>6 DEF applyTransaction, r, c
<1> QED BY <1>6, <1>7

\* What is refused, and not to be retried.
Refused(m, t, open) ==
    \/ ~t.good \/ Redundant(t) \/ Unfunded(m, t)
    \/ m.acct[t.src].seq > t.seq
    \/ t.last > 0 /\ m.seq > t.last
    \/ open /\ t.fee < feeDue

\* What an attempt says of the transaction.
LEMMA Attempted ==
    ASSUME NEW K, Finitely(K), NEW l, LedgerOK(K, l), NEW t \in K, NEW open \in BOOLEAN,
           NEW retry \in BOOLEAN, NEW r, r = applyTransaction(l, t, open, retry)
    PROVE  /\ r.did => r.ledger.acct[t.src].seq > t.seq
           /\ r.did \/ r.ledger = l
           /\ ~r.did /\ r.ter \in {"tef", "tem", "tel"} => Refused(l, t, open)
<1> DEFINE c == Checked(l, t, open)
           q == transact(l, t, c)
<1>0. r = Reprocessed(l, t, open, retry, q)
  BY DEF applyTransaction
<1>1. r.did => r.ledger.acct[t.src].seq > t.seq
  <2> SUFFICES ASSUME r.did PROVE r.ledger.acct[t.src].seq > t.seq
    OBVIOUS
  <2>1. r.ledger \in {[l EXCEPT !.acct = q.acct, !.txns = @ \cup {t}], Claimed(l, t)}
    <3> HIDE DEF q
    <3> QED BY <1>0 DEF Reprocessed
  <2>2. l \in LedgerType(K)
    BY DEF LedgerOK
  <2>3. t \in r.ledger.txns
    <3> HIDE DEF q
    <3>1. [l EXCEPT !.acct = q.acct, !.txns = @ \cup {t}].txns = l.txns \cup {t}
      BY <2>2, SMT DEF LedgerType
    <3>2. Claimed(l, t).txns = l.txns \cup {t}
      BY <2>2 DEF Claimed, LedgerType
    <3> QED BY <2>1, <3>1, <3>2
  <2>4. LedgerOK(K, r.ledger)
    BY applyTransactionOK
  <2>5. t.seq < r.ledger.acct[t.src].seq
    BY <2>3, <2>4 DEF LedgerOK, Once
  <2> QED BY <2>4, <2>5, NumbersOf DEF Numbers, TransactionFields
<1>2. r.did \/ r.ledger = l
  <2> HIDE DEF q
  <2> QED BY <1>0 DEF Reprocessed
<1>3. ~r.did /\ r.ter \in {"tef", "tem", "tel"} => Refused(l, t, open)
  <2> SUFFICES ASSUME ~r.did, r.ter \in {"tef", "tem", "tel"} PROVE Refused(l, t, open)
    OBVIOUS
  <2>1. q.ter = r.ter
    <3> HIDE DEF q
    <3> QED BY <1>0 DEF Reprocessed
  <2>2. c = r.ter
    <3>1. c # "tes" => q.ter = c
      BY DEF transact, Ends
    <3>2. c = "tes" => q.ter \in {"tes", "tec"}
      <4> HIDE DEF c
      <4> QED BY DEF transact, doMessage, doApply, Ends
    <3> QED BY <2>1, <3>1, <3>2
  <2>3. CASE Redundant(t) \/ Unfunded(l, t) \/ ~t.good
    BY <2>3 DEF Refused
  <2>4. CASE ~(Redundant(t) \/ Unfunded(l, t) \/ ~t.good)
    <3>1. checkSeq(l, t) = "tef" \/ payFee(l, t, open) = "tel"
      BY <2>2, <2>4 DEF Checked, checkSeq, payFee
    <3> QED BY <3>1 DEF checkSeq, payFee, Refused
  <2> QED BY <2>3, <2>4
<1> QED BY <1>1, <1>2, <1>3

LEMMA Outcome ==
    ASSUME NEW K, Finitely(K), NEW l, LedgerOK(K, l), NEW t \in K, NEW open \in BOOLEAN,
           NEW retry \in BOOLEAN, NEW r, r = applyTransaction(l, t, open, retry)
    PROVE  /\ r.did => Hopeless(r.ledger, t, open)
           /\ r.did \/ r.ledger = l
           /\ ~r.did /\ r.ter \in {"tef", "tem", "tel"} => Hopeless(l, t, open)
           /\ ~r.did /\ ~retry => Hopeless(l, t, open) \/ Waiting(l, t)
<1>1. /\ r.did => r.ledger.acct[t.src].seq > t.seq
      /\ r.did \/ r.ledger = l
      /\ ~r.did /\ r.ter \in {"tef", "tem", "tel"} => Refused(l, t, open)
  BY Attempted
<1>2. ~r.did /\ ~retry => Hopeless(l, t, open) \/ Waiting(l, t)
  <2> SUFFICES ASSUME ~r.did, ~retry PROVE Hopeless(l, t, open) \/ Waiting(l, t)
    OBVIOUS
  <2>1. retry = FALSE
    OBVIOUS
  <2>2. ~applyTransaction(l, t, open, FALSE).did
    BY <2>1
  <2> QED BY <2>2, Applies
<1> QED BY <1>1, <1>2 DEF Hopeless, Refused

PutOff(l, t, open) == ~open /\ t.ts >= l.close - 1

\* The walk over s has made q of l.
WalkFacts(K, l, s, open, final, q) ==
    /\ Follows(l, q.ledger) /\ q.ledger.txns \subseteq l.txns \cup s /\ q.left \subseteq s
    /\ \A t \in K : Hopeless(l, t, open) => Hopeless(q.ledger, t, open)
    /\ \A t \in s : Hopeless(q.ledger, t, open) \/ t \in q.left
    /\ final => \A t \in s : \/ PutOff(l, t, open) \/ Hopeless(q.ledger, t, open)
                             \/ Waiting(q.ledger, t)

\* Within an account the order is that of the numbers.
InOrder(order, ts) ==
    \A t, u \in ts : t.src = u.src /\ t.seq < u.seq => <<t, u>> \in order

LEMMA CanonicalInOrder ==
    ASSUME NEW rank, NEW ts
    PROVE  InOrder(Canonical(rank, ts), ts)
BY DEF InOrder, Canonical, Precedes

LEMMA WalkStep ==
    ASSUME NEW K, Finitely(K), NEW l, LedgerOK(K, l), NEW s, s \subseteq K, NEW x \in s,
           NEW open \in BOOLEAN, NEW retry \in BOOLEAN, NEW final, final => ~retry,
           NEW p \in WalkStates(K), WalkFacts(K, l, s \ {x}, open, final, p),
           final => \A t \in s : ~(x.src = t.src /\ x.seq < t.seq),
           NEW q, q = WalksOne(p, x, open, retry)
    PROVE  WalkFacts(K, l, s, open, final, q)
<1> DEFINE r == Attempt(p.ledger, x, open, retry)
           a == applyTransaction(p.ledger, x, open, retry)
<1>0. x \in K /\ LedgerOK(K, p.ledger) /\ p.ledger.close = l.close
  BY DEF WalkStates, WalkFacts, Follows
<1>1. Effect(p.ledger, r.ledger, x) /\ LedgerOK(K, r.ledger)
  BY <1>0, AttemptEffect, AttemptOK
<1>2. /\ q.ledger = r.ledger
      /\ q.left = IF r.out = "retry" THEN p.left \cup {x} ELSE p.left
  BY DEF WalksOne, Walked
<1>3. /\ r.out # "retry" => Hopeless(r.ledger, x, open)
      /\ final => PutOff(l, x, open) \/ Hopeless(r.ledger, x, open) \/ Waiting(r.ledger, x)
  <2>1. CASE PutOff(p.ledger, x, open)
    <3>1. r.out = "retry"
      BY <2>1 DEF Attempt, PutOff
    <3>2. PutOff(l, x, open)
      BY <1>0, <2>1 DEF PutOff
    <3> QED BY <3>1, <3>2
  <2>2. CASE ~PutOff(p.ledger, x, open)
    <3>1. r = Judged(a)
      BY <2>2 DEF Attempt, PutOff
    <3>2. /\ a.did => Hopeless(a.ledger, x, open)
          /\ a.did \/ a.ledger = p.ledger
          /\ ~a.did /\ a.ter \in {"tef", "tem", "tel"} => Hopeless(p.ledger, x, open)
          /\ ~a.did /\ ~retry => Hopeless(p.ledger, x, open) \/ Waiting(p.ledger, x)
      BY <1>0, Outcome
    <3> HIDE DEF a, r
    <3>3. r.ledger = a.ledger
          /\ (r.out # "retry" => a.did \/ a.ter \in {"tef", "tem", "tel"})
      BY <3>1 DEF Judged
    <3> QED BY <3>2, <3>3
  <2> QED BY <2>1, <2>2
<1> HIDE DEF r, a
<1>4. ASSUME NEW t \in K, Hopeless(p.ledger, t, open) PROVE Hopeless(r.ledger, t, open)
  BY <1>0, <1>1, <1>4, HopelessStays
<1>5. Follows(l, q.ledger) /\ q.ledger.txns \subseteq l.txns \cup s /\ q.left \subseteq s
  <2>1. Follows(l, r.ledger)
    BY <1>0, <1>1, FollowsFurther DEF WalkFacts, Effect
  <2> QED BY <1>1, <1>2, <2>1 DEF WalkFacts, Effect
<1>6. \A t \in K : Hopeless(l, t, open) => Hopeless(q.ledger, t, open)
  BY <1>2, <1>4 DEF WalkFacts
<1>7. ASSUME NEW t \in s PROVE Hopeless(q.ledger, t, open) \/ t \in q.left
  <2>1. CASE t = x
    BY <1>2, <1>3, <2>1
  <2>2. CASE t # x
    BY <1>2, <1>4, <2>2 DEF WalkFacts
  <2> QED BY <2>1, <2>2
<1>8. ASSUME final, NEW t \in s
      PROVE  PutOff(l, t, open) \/ Hopeless(q.ledger, t, open) \/ Waiting(q.ledger, t)
  <2>1. CASE t = x
    BY <1>2, <1>3, <1>8, <2>1
  <2>2. CASE t # x
    <3>1. PutOff(l, t, open) \/ Hopeless(p.ledger, t, open) \/ Waiting(p.ledger, t)
      BY <1>8, <2>2 DEF WalkFacts
    <3>2. Waiting(p.ledger, t) => \/ Hopeless(r.ledger, t, open) \/ Waiting(r.ledger, t)
                                  \/ x.src = t.src /\ x.seq < t.seq
      BY <1>0, <1>1, WaitingStays
    <3>3. t \in K
      OBVIOUS
    <3> QED BY <1>2, <1>4, <1>8, <3>1, <3>2, <3>3
  <2> QED BY <2>1, <2>2
<1> QED BY <1>5, <1>6, <1>7, <1>8 DEF WalkFacts

LEMMA WalkTells ==
    ASSUME NEW K, Finitely(K), NEW l, LedgerOK(K, l), NEW ts, ts \subseteq K,
           NEW order, StrictOn(order, ts), NEW open \in BOOLEAN, NEW retry \in BOOLEAN,
           NEW final, final => ~retry /\ InOrder(order, ts)
    PROVE  WalkFacts(K, l, ts, open, final, Walk(l, ts, order, open, retry))
<1>1. PICK g : WalkIs(K, l, ts, order, open, retry, g)
  BY WalkUnfolds, Zenon
<1>2. IsFiniteSet(ts)
  BY FS_Subset DEF Finitely
<1> DEFINE T == {s \in SUBSET ts : WalkFacts(K, l, s, open, final, g[s])}
<1>3. ASSUME NEW s \in SUBSET ts, \A x \in s : s \ {x} \in T PROVE s \in T
  <2>1. CASE s = {}
    <3>1. g[s] = Start(l)
      BY <1>1, <2>1 DEF WalkIs
    <3>2. g[s].ledger = l /\ g[s].left = {}
      BY <3>1 DEF Start
    <3> QED BY <2>1, <3>2, FollowsItself DEF WalkFacts
  <2>2. CASE s # {}
    <3> DEFINE x == LastIn(order, s)
               p == g[s \ {x}]
    <3>1. x \in s /\ \A u \in s : <<x, u>> \notin order
      <4>1. \E t \in s : \A u \in s : <<t, u>> \notin order
        BY <1>2, <2>2, Maximal
      <4> QED BY <4>1 DEF LastIn
    <3>2. g[s] = WalksOne(p, x, open, retry)
      BY <1>1, <2>2 DEF WalkIs
    <3>3. s \ {x} \in T /\ p \in WalkStates(K)
      BY <1>1, <1>3, <3>1 DEF WalkIs
    <3>4. final => \A t \in s : ~(x.src = t.src /\ x.seq < t.seq)
      BY <3>1 DEF InOrder
    <3> HIDE DEF x
    <3>5. WalkFacts(K, l, s \ {x}, open, final, p)
      BY <3>3
    <3> HIDE DEF p
    <3>6. WalkFacts(K, l, s, open, final, g[s])
      BY <3>1, <3>2, <3>3, <3>4, <3>5, WalkStep
    <3> QED BY <3>6
  <2> QED BY <2>1, <2>2
<1>4. SUBSET ts \subseteq T
  <2>1. Hereditary(T, ts)
    BY <1>3 DEF Hereditary
  <2> HIDE DEF T
  <2> QED BY <1>2, <2>1, SubsetInduction, Zenon
<1>5. WalkFacts(K, l, ts, open, final, g[ts])
  BY <1>4
<1> QED BY <1>1, <1>5 DEF WalkIs

(* The transactions S have been tried on l, which has become s.ledger: what *)
(* may still be applied is left.                                            *)
TryFacts(K, l, S, open, s) ==
    /\ Follows(l, s.ledger) /\ s.ledger.txns \subseteq l.txns \cup S /\ s.left \subseteq S
    /\ \A t \in K : Hopeless(l, t, open) => Hopeless(s.ledger, t, open)
    /\ \A t \in S : Hopeless(s.ledger, t, open) \/ t \in s.left

\* And after a final pass, none of them can be applied now.
Tried(l, S, open, m) ==
    \A t \in S : PutOff(l, t, open) \/ Hopeless(m, t, open) \/ Waiting(m, t)

PassFacts(K, l, S, open, s) ==
    /\ TryFacts(K, l, S, open, s)
    /\ s.done => ~s.certain /\ Tried(l, S, open, s.ledger)

LEMMA PassStep ==
    ASSUME NEW K, Finitely(K), NEW l, LedgerOK(K, l), NEW S, S \subseteq K, NEW n \in PassNumbers,
           NEW rank \in [Account -> Nat], NEW open \in BOOLEAN,
           NEW s \in PassStates(K), PassFacts(K, l, S, open, s),
           NEW q, q = Pass(s, n, rank, open)
    PROVE  /\ PassFacts(K, l, S, open, q)
           /\ n >= RETRY_PASSES => ~q.certain
           /\ ~s.certain => Tried(l, S, open, q.ledger)
<1> DEFINE order == Canonical(rank, s.left)
           w == Walk(s.ledger, s.left, order, open, s.certain)
<1>1. LedgerOK(K, s.ledger) /\ s.left \subseteq K /\ s.certain \in BOOLEAN
  BY DEF PassStates
<1>2. StrictOn(order, s.left) /\ InOrder(order, s.left)
  BY <1>1, CanonicalStrict, CanonicalInOrder DEF Finitely
<1>3. CASE s.done /\ ~s.certain
  <2>1. q = s
    BY <1>3 DEF Pass
  <2> QED BY <1>3, <2>1 DEF PassFacts
<1>4. CASE ~s.done
  <2>1. q = Passed(s, n, w)
    BY <1>4 DEF Pass
  <2> HIDE DEF order
  <2>2. w \in WalkStates(K)
    BY <1>1, <1>2, WalkOK, Zenon
  <2>3. WalkFacts(K, s.ledger, s.left, open, ~s.certain, w)
    BY <1>1, <1>2, WalkTells
  <2> HIDE DEF w
  <2>4. /\ q.ledger = w.ledger /\ q.left = w.left
        /\ (q.certain <=> s.certain /\ w.changed /\ n < RETRY_PASSES)
        /\ (q.done <=> ~w.changed /\ ~s.certain)
    <3> DEFINE c == s.certain /\ w.changed /\ n < RETRY_PASSES
               d == ~w.changed /\ ~s.certain
    <3>1. q = [ledger |-> w.ledger, left |-> w.left, certain |-> c, done |-> d]
      BY <2>1 DEF Passed
    <3> HIDE DEF c, d
    <3>2. q.ledger = w.ledger /\ q.left = w.left /\ q.certain = c /\ q.done = d
      BY <3>1
    <3> QED BY <3>2 DEF c, d
  <2>5. TryFacts(K, l, S, open, s)
    BY DEF PassFacts
  <2>6. LedgerOK(K, w.ledger)
    BY <2>2 DEF WalkStates
  <2>7. Follows(l, w.ledger)
    BY <1>1, <2>3, <2>5, <2>6, FollowsFurther DEF WalkFacts, TryFacts
  <2>8. TryFacts(K, l, S, open, q)
    <3>1. w.ledger.txns \subseteq l.txns \cup S /\ w.left \subseteq S
      BY <2>3, <2>5 DEF WalkFacts, TryFacts
    <3>2. \A t \in K : Hopeless(s.ledger, t, open) => Hopeless(w.ledger, t, open)
      BY <2>3 DEF WalkFacts
    <3>3. \A t \in S : Hopeless(w.ledger, t, open) \/ t \in w.left
      BY <2>3, <2>5, <3>2 DEF WalkFacts, TryFacts
    <3> QED BY <2>4, <2>5, <2>7, <3>1, <3>2, <3>3 DEF TryFacts
  <2>9. ~s.certain => Tried(l, S, open, q.ledger)
    <3> SUFFICES ASSUME ~s.certain, NEW t \in S
                 PROVE  PutOff(l, t, open) \/ Hopeless(w.ledger, t, open) \/ Waiting(w.ledger, t)
      BY <2>4 DEF Tried
    <3>1. CASE Hopeless(s.ledger, t, open)
      BY <2>3, <3>1 DEF WalkFacts
    <3>2. CASE t \in s.left
      <4>1. \/ PutOff(s.ledger, t, open) \/ Hopeless(w.ledger, t, open) \/ Waiting(w.ledger, t)
        BY <2>3, <3>2 DEF WalkFacts
      <4>2. s.ledger.close = l.close
        BY <2>5 DEF TryFacts, Follows
      <4> QED BY <4>1, <4>2 DEF PutOff
    <3> QED BY <2>5, <3>1, <3>2 DEF TryFacts
  <2>10. n >= RETRY_PASSES => ~(n < RETRY_PASSES)
    BY EngineAssumption DEF PassNumbers
  <2>11. q.done => ~q.certain
    BY <2>4
  <2>12. q.done => ~s.certain
    BY <2>4
  <2>13. PassFacts(K, l, S, open, q)
    BY <2>8, <2>9, <2>11, <2>12 DEF PassFacts
  <2>14. n >= RETRY_PASSES => ~q.certain
    BY <2>4, <2>10
  <2> QED BY <2>9, <2>13, <2>14
<1> QED BY <1>3, <1>4 DEF PassFacts

LEMMA PassesTell ==
    ASSUME NEW K, Finitely(K), NEW l, LedgerOK(K, l), NEW S, S \subseteq K,
           NEW rank \in [Account -> Nat], NEW open \in BOOLEAN
    PROVE  LET q == Passes(l, S, rank, open)
           IN  TryFacts(K, l, S, open, q) /\ Tried(l, S, open, q.ledger)
<1>1. PICK g : PassesAre(K, l, S, rank, open, g)
  BY PassesUnfold, Zenon
<1>2. RETRY_PASSES \in Nat /\ TOTAL_PASSES \in Nat /\ RETRY_PASSES + 1 < TOTAL_PASSES
  BY EngineAssumption
<1>3. IsFiniteSet(PassNumbers) /\ PassNumbers \subseteq Nat
  BY <1>2, FS_Interval DEF PassNumbers
<1>4. \A s \in SUBSET PassNumbers : s # {} => Max(s) \in s /\ \A n \in s : n <= Max(s)
  BY <1>3, MaxExists
<1> DEFINE Over(s) == s # {} /\ Max(s) >= RETRY_PASSES => ~g[s].certain
           T == {s \in SUBSET PassNumbers : PassFacts(K, l, S, open, g[s]) /\ Over(s)}
<1>5. ASSUME NEW s \in SUBSET PassNumbers, \A x \in s : s \ {x} \in T PROVE s \in T
  <2>1. CASE s = {}
    <3>1. g[s] = Begin(l, S)
      BY <1>1, <2>1 DEF PassesAre
    <3>2. g[s].ledger = l /\ g[s].left = S /\ ~g[s].done
      BY <3>1 DEF Begin
    <3>3. PassFacts(K, l, S, open, g[s])
      BY <3>2, FollowsItself DEF PassFacts, TryFacts
    <3> QED BY <2>1, <3>3
  <2>2. CASE s # {}
    <3> DEFINE n == Max(s)
               p == g[s \ {n}]
    <3>1. n \in s /\ n \in PassNumbers
      BY <1>4, <2>2
    <3>2. g[s] = Pass(p, n, rank, open) /\ p \in PassStates(K)
      BY <1>1, <2>2 DEF PassesAre
    <3>3. PassFacts(K, l, S, open, p)
      BY <1>5, <3>1
    <3> HIDE DEF n, p
    <3>4. PassFacts(K, l, S, open, g[s]) /\ (n >= RETRY_PASSES => ~g[s].certain)
      BY <3>1, <3>2, <3>3, PassStep
    <3> QED BY <3>4 DEF n
  <2> QED BY <2>1, <2>2
<1>6. SUBSET PassNumbers \subseteq T
  <2>1. Hereditary(T, PassNumbers)
    BY <1>5 DEF Hereditary
  <2> HIDE DEF T
  <2> QED BY <1>3, <2>1, SubsetInduction, Zenon
<1> DEFINE last == TOTAL_PASSES - 1
           before == PassNumbers \ {last}
<1>7. /\ last \in PassNumbers /\ \A n \in PassNumbers : n <= last /\ n \in Int
      /\ last - 1 \in before /\ last - 1 >= RETRY_PASSES
  BY <1>2 DEF PassNumbers
<1>8. Max(PassNumbers) = last
  <2>1. Max(PassNumbers) \in PassNumbers /\ last <= Max(PassNumbers)
    BY <1>4, <1>7
  <2> QED BY <1>2, <1>7, <2>1
<1>9. before \in SUBSET PassNumbers /\ before # {}
  BY <1>7
<1>10. last - 1 <= Max(before) /\ Max(before) \in Int
  BY <1>4, <1>7, <1>9
<1>11. Max(before) >= RETRY_PASSES
  BY <1>2, <1>7, <1>10
<1>12. before \in T
  BY <1>6, <1>9
<1>13. PassFacts(K, l, S, open, g[before]) /\ ~g[before].certain
  BY <1>9, <1>11, <1>12
<1>14. g[PassNumbers] = Pass(g[before], last, rank, open) /\ g[before] \in PassStates(K)
  BY <1>1, <1>7, <1>8 DEF PassesAre
<1> HIDE DEF before, last, T
<1>15. PassFacts(K, l, S, open, g[PassNumbers]) /\ Tried(l, S, open, g[PassNumbers].ledger)
  BY <1>7, <1>13, <1>14, PassStep
<1> QED BY <1>1, <1>15 DEF PassesAre, PassFacts

LEMMA applyTransactionsTells ==
    ASSUME NEW K, Finitely(K), NEW set, set \subseteq K, NEW l, LedgerOK(K, l), NEW check,
           NEW left, left \subseteq K, NEW rank \in [Account -> Nat], NEW open \in BOOLEAN
    PROVE  LET q == applyTransactions(set, l, check, left, rank, open)
               S == left \cup (set \ check.txns)
           IN  TryFacts(K, l, S, open, q) /\ Tried(l, S, open, q.ledger)
<1> DEFINE ts == set \ check.txns
           S == left \cup ts
           f == Walk(l, ts, ById(set), open, TRUE)
           R == left \cup f.left
           q == applyTransactions(set, l, check, left, rank, open)
<1>1. ts \subseteq K /\ StrictOn(ById(set), ts)
  BY ByIdStrict DEF Finitely
<1>2. TRUE \in BOOLEAN /\ FALSE \in BOOLEAN
  OBVIOUS
<1> HIDE DEF ts
<1>3. f \in WalkStates(K)
  BY <1>1, <1>2, WalkOK, Zenon
<1>4. WalkFacts(K, l, ts, open, FALSE, f)
  BY <1>1, <1>2, WalkTells
<1>5. q = Passes(f.ledger, R, rank, open)
  BY DEF applyTransactions, Retried, ts
<1> HIDE DEF f, q
<1>6. LedgerOK(K, f.ledger) /\ R \subseteq K
  BY <1>3 DEF WalkStates
<1> HIDE DEF R
<1>7. TryFacts(K, f.ledger, R, open, q) /\ Tried(f.ledger, R, open, q.ledger)
  BY <1>5, <1>6, PassesTell
<1>8. LedgerOK(K, q.ledger)
  BY <1>5, <1>6, PassesOK DEF PassStates
<1>9. Follows(l, q.ledger)
  BY <1>4, <1>6, <1>7, <1>8, FollowsFurther DEF WalkFacts, TryFacts
<1>10. R \subseteq S /\ f.left \subseteq ts /\ f.ledger.txns \subseteq l.txns \cup ts
  BY <1>4 DEF WalkFacts, R
<1>11. q.ledger.txns \subseteq l.txns \cup S /\ q.left \subseteq S
  BY <1>7, <1>10 DEF TryFacts
<1>12. \A t \in K : Hopeless(f.ledger, t, open) => Hopeless(q.ledger, t, open)
  BY <1>7 DEF TryFacts
<1>13. \A t \in K : Hopeless(l, t, open) => Hopeless(q.ledger, t, open)
  BY <1>4, <1>12 DEF WalkFacts
<1>14. \A t \in S : Hopeless(f.ledger, t, open) \/ t \in R
  BY <1>4 DEF WalkFacts, R
<1>15. S \subseteq K
  BY <1>1
<1> HIDE DEF S
<1>16. \A t \in S : Hopeless(q.ledger, t, open) \/ t \in q.left
  BY <1>7, <1>12, <1>14, <1>15 DEF TryFacts
<1>17. TryFacts(K, l, S, open, q)
  BY <1>9, <1>11, <1>13, <1>16 DEF TryFacts
<1>18. f.ledger.close = l.close
  BY <1>4 DEF WalkFacts, Follows
<1>19. Tried(l, S, open, q.ledger)
  <2> SUFFICES ASSUME NEW t \in S
               PROVE  PutOff(l, t, open) \/ Hopeless(q.ledger, t, open) \/ Waiting(q.ledger, t)
    BY DEF Tried
  <2>1. t \in R => PutOff(f.ledger, t, open) \/ Hopeless(q.ledger, t, open) \/ Waiting(q.ledger, t)
    BY <1>7 DEF Tried
  <2> QED BY <1>12, <1>14, <1>15, <1>18, <2>1 DEF PutOff
<1> QED BY <1>17, <1>19 DEF S, ts, q

\* The walk of the held and the local transactions, which is final.
ApplyFacts(K, l, s, m) ==
    /\ Follows(l, m) /\ m.txns \subseteq l.txns \cup s
    /\ \A t \in K : Hopeless(l, t, TRUE) => Hopeless(m, t, TRUE)
    /\ \A t \in s : Hopeless(m, t, TRUE) \/ Waiting(m, t)
    /\ \A t \in K : Waiting(l, t) =>
           \/ Hopeless(m, t, TRUE) \/ Waiting(m, t)
           \/ \E u \in s : u.src = t.src /\ u.seq < t.seq /\ u \in m.txns

LEMMA ApplyStep ==
    ASSUME NEW K, Finitely(K), NEW l, LedgerOK(K, l), NEW s, s \subseteq K, NEW x \in s,
           NEW p, LedgerOK(K, p), ApplyFacts(K, l, s \ {x}, p),
           \A t \in s : ~(x.src = t.src /\ x.seq < t.seq),
           NEW m, m = AppliesOne(p, x)
    PROVE  ApplyFacts(K, l, s, m)
<1>0. x \in K /\ TRUE \in BOOLEAN /\ FALSE \in BOOLEAN
  OBVIOUS
<1> DEFINE a == applyTransaction(p, x, TRUE, FALSE)
<1>1. m = a.ledger
  BY DEF AppliesOne
<1>2. Effect(p, m, x) /\ LedgerOK(K, m)
  BY <1>0, <1>1, applyEffect, applyTransactionOK
<1>3. Hopeless(m, x, TRUE) \/ Waiting(m, x)
  <2>1. /\ a.did => Hopeless(a.ledger, x, TRUE)
        /\ a.did \/ a.ledger = p
        /\ ~a.did => Hopeless(p, x, TRUE) \/ Waiting(p, x)
    BY <1>0, Outcome
  <2> HIDE DEF a
  <2> QED BY <1>1, <2>1
<1> HIDE DEF a
<1>4. ASSUME NEW t \in K, Hopeless(p, t, TRUE) PROVE Hopeless(m, t, TRUE)
  BY <1>0, <1>2, <1>4, HopelessStays
<1>5. ASSUME NEW t \in K, Waiting(p, t)
      PROVE  \/ Hopeless(m, t, TRUE) \/ Waiting(m, t)
             \/ x.src = t.src /\ x.seq < t.seq /\ x \in m.txns
  <2>1. ASSUME NEW open \in BOOLEAN
        PROVE  \/ Hopeless(m, t, open) \/ Waiting(m, t)
               \/ x.src = t.src /\ x.seq < t.seq /\ x \in m.txns
    BY <1>0, <1>2, <1>5, WaitingStays
  <2> QED BY <1>0, <2>1
<1>6. Follows(l, m) /\ m.txns \subseteq l.txns \cup s /\ p.txns \subseteq m.txns
  <2>1. Follows(l, m)
    BY <1>2, FollowsFurther DEF ApplyFacts, Effect
  <2> QED BY <1>2, <2>1 DEF ApplyFacts, Effect, Follows
<1>7. \A t \in K : Hopeless(l, t, TRUE) => Hopeless(m, t, TRUE)
  BY <1>4 DEF ApplyFacts
<1>8. ASSUME NEW t \in s PROVE Hopeless(m, t, TRUE) \/ Waiting(m, t)
  <2>1. CASE t = x
    BY <1>3, <2>1
  <2>2. CASE t # x
    <3>1. t \in K /\ (Hopeless(p, t, TRUE) \/ Waiting(p, t))
      BY <2>2 DEF ApplyFacts
    <3> QED BY <1>4, <1>5, <3>1
  <2> QED BY <2>1, <2>2
<1>9. ASSUME NEW t \in K, Waiting(l, t)
      PROVE  \/ Hopeless(m, t, TRUE) \/ Waiting(m, t)
             \/ \E u \in s : u.src = t.src /\ u.seq < t.seq /\ u \in m.txns
  <2>1. \/ Hopeless(p, t, TRUE) \/ Waiting(p, t)
        \/ \E u \in s \ {x} : u.src = t.src /\ u.seq < t.seq /\ u \in p.txns
    BY <1>9 DEF ApplyFacts
  <2> QED BY <1>4, <1>5, <1>6, <2>1
<1> QED BY <1>6, <1>7, <1>8, <1>9 DEF ApplyFacts

LEMMA AppliedTells ==
    ASSUME NEW K, Finitely(K), NEW l, LedgerOK(K, l), NEW ts, ts \subseteq K,
           NEW rank \in [Account -> Nat]
    PROVE  ApplyFacts(K, l, ts, Applied(l, ts, Canonical(rank, ts)))
<1> DEFINE order == Canonical(rank, ts)
<1>0. StrictOn(order, ts) /\ InOrder(order, ts)
  BY CanonicalStrict, CanonicalInOrder DEF Finitely
<1> HIDE DEF order
<1>1. PICK g : AppliedIs(K, l, ts, order, g)
  BY <1>0, AppliedUnfolds, Zenon
<1>2. IsFiniteSet(ts)
  BY FS_Subset DEF Finitely
<1> DEFINE T == {s \in SUBSET ts : ApplyFacts(K, l, s, g[s])}
<1>3. ASSUME NEW s \in SUBSET ts, \A x \in s : s \ {x} \in T PROVE s \in T
  <2>1. CASE s = {}
    <3>1. g[s] = l
      BY <1>1, <2>1 DEF AppliedIs
    <3> QED BY <2>1, <3>1, FollowsItself DEF ApplyFacts
  <2>2. CASE s # {}
    <3> DEFINE x == LastIn(order, s)
               p == g[s \ {x}]
    <3>1. x \in s /\ \A u \in s : <<x, u>> \notin order
      <4>1. \E t \in s : \A u \in s : <<t, u>> \notin order
        BY <1>0, <1>2, <2>2, Maximal
      <4> QED BY <4>1 DEF LastIn
    <3>2. g[s] = AppliesOne(p, x)
      BY <1>1, <2>2 DEF AppliedIs
    <3>3. s \ {x} \in T /\ LedgerOK(K, p)
      BY <1>1, <1>3, <3>1, InLedgersOK DEF AppliedIs
    <3>4. \A t \in s : ~(x.src = t.src /\ x.seq < t.seq)
      BY <1>0, <3>1 DEF InOrder
    <3> HIDE DEF x
    <3>5. ApplyFacts(K, l, s \ {x}, p)
      BY <3>3
    <3> HIDE DEF p
    <3>6. ApplyFacts(K, l, s, g[s])
      BY <3>1, <3>2, <3>3, <3>4, <3>5, ApplyStep
    <3> QED BY <3>6
  <2> QED BY <2>1, <2>2
<1>4. SUBSET ts \subseteq T
  <2>1. Hereditary(T, ts)
    BY <1>3 DEF Hereditary
  <2> HIDE DEF T
  <2> QED BY <1>2, <2>1, SubsetInduction, Zenon
<1>5. ApplyFacts(K, l, ts, g[ts])
  BY <1>4
<1> QED BY <1>1, <1>5 DEF AppliedIs, order

-----------------------------------------------------------------------------
(* What the passes complete.  What is refused stays so, unless it is a     *)
(* payment and something of S credits its source.  Every pass but one ends *)
(* with fewer transactions left than it had, or is the last.               *)
Payers(K) == \A t \in K : t.amt > 0 => t.src # FeeAccount

Gone(S, m, t, open) == Credited(t, S) \/ Refused(m, t, open)

LEMMA GoneStays ==
    ASSUME NEW K, Finitely(K), Payers(K), NEW l, LedgerOK(K, l), NEW m, LedgerOK(K, m), NEW t \in K,
           NEW S, NEW u \in S, Effect(l, m, u), NEW open \in BOOLEAN, Gone(S, l, t, open)
    PROVE  Gone(S, m, t, open)
<1> SUFFICES ASSUME ~Credited(t, S), Refused(l, t, open) PROVE Refused(m, t, open)
  BY DEF Gone
<1>1. Numbers(l, t) /\ Numbers(m, t) /\ t.src \in Account
  BY NumbersOf DEF Numbers, TransactionFields
<1>2. m.seq = l.seq /\ l.acct[t.src].seq <= m.acct[t.src].seq
  BY <1>1 DEF Effect, Follows
<1>3. l.acct[t.src].seq > t.seq => m.acct[t.src].seq > t.seq
  BY <1>1, <1>2 DEF Numbers, TransactionFields
<1>4. ASSUME Unfunded(l, t) PROVE Unfunded(m, t)
  <2>1. t.amt > 0 /\ t.src # FeeAccount /\ ~(u.amt > 0 /\ u.dst = t.src)
    BY <1>4 DEF Unfunded, Payers, Credited
  <2>2. m.acct[t.src] = l.acct[t.src] \/ m.acct[t.src].bal <= l.acct[t.src].bal
    BY <1>1, <2>1 DEF Effect, Touched
  <2> QED BY <1>1, <1>4, <2>2 DEF Unfunded, Numbers, TransactionFields
<1> QED BY <1>2, <1>3, <1>4 DEF Refused

LEMMA RefusedFails ==
    ASSUME NEW K, Finitely(K), NEW l, LedgerOK(K, l), NEW t \in K, NEW open \in BOOLEAN,
           NEW retry \in BOOLEAN, Refused(l, t, open)
    PROVE  ~applyTransaction(l, t, open, retry).did
<1>1. Numbers(l, t)
  BY NumbersOf
<1> DEFINE c == Checked(l, t, open)
<1>2. c \notin {"tes", "tec"}
  <2> SUFFICES ASSUME ~Redundant(t), ~Unfunded(l, t), t.good, checkSeq(l, t) = "tes"
               PROVE  payFee(l, t, open) \notin {"tes", "tec"}
    BY DEF Checked, checkSeq
  <2>1. ~(l.acct[t.src].seq > t.seq) /\ ~(t.last > 0 /\ l.seq > t.last)
    BY DEF checkSeq
  <2>2. open /\ t.fee < feeDue
    BY <2>1 DEF Refused
  <2> QED BY <2>2 DEF payFee
<1> HIDE DEF c
<1>3. transact(l, t, c).ter = c
  BY <1>2 DEF transact, Ends
<1> QED BY <1>2, <1>3 DEF applyTransaction, Reprocessed, c

\* What one walk over s, a part of S, completes.
Futile(l, t, open, retry) == PutOff(l, t, open) \/ ~applyTransaction(l, t, open, retry).did

WalkEnds(S, l, s, open, retry, q) ==
    /\ \A t \in S : Gone(S, l, t, open) => Gone(S, q.ledger, t, open)
    /\ \A t \in s : t \in q.left \/ Gone(S, q.ledger, t, open)
    /\ q.left \subseteq s /\ q.ledger.close = l.close
    /\ q.changed => q.left # s
    /\ ~q.changed => q.ledger = l /\ \A t \in s : Futile(l, t, open, retry)

LEMMA WalkEndsStep ==
    ASSUME NEW K, Finitely(K), Payers(K), NEW S, S \subseteq K, NEW l, LedgerOK(K, l),
           NEW s, s \subseteq S, NEW x \in s,
           NEW open \in BOOLEAN, NEW retry \in BOOLEAN,
           NEW p \in WalkStates(K), WalkEnds(S, l, s \ {x}, open, retry, p),
           NEW q, q = WalksOne(p, x, open, retry)
    PROVE  WalkEnds(S, l, s, open, retry, q)
<1> DEFINE r == Attempt(p.ledger, x, open, retry)
           a == applyTransaction(p.ledger, x, open, retry)
<1>0. x \in K /\ x \in S /\ LedgerOK(K, p.ledger) /\ p.ledger.close = l.close /\ p.changed \in BOOLEAN
  BY DEF WalkStates, WalkEnds
<1>1. Effect(p.ledger, r.ledger, x) /\ LedgerOK(K, r.ledger)
  BY <1>0, AttemptEffect, AttemptOK
<1>2. /\ q.ledger = r.ledger
      /\ q.left = IF r.out = "retry" THEN p.left \cup {x} ELSE p.left
      /\ q.changed <=> p.changed \/ r.out = "success"
  <2> DEFINE c == p.changed \/ r.out = "success"
  <2>1. q = [ledger |-> r.ledger, left |-> IF r.out = "retry" THEN p.left \cup {x} ELSE p.left,
             changed |-> c]
    BY DEF WalksOne, Walked
  <2> HIDE DEF c, r
  <2>2. q.ledger = r.ledger /\ q.changed = c
        /\ q.left = IF r.out = "retry" THEN p.left \cup {x} ELSE p.left
    BY <2>1
  <2> QED BY <2>2 DEF c
<1>3. /\ r.out # "retry" => Gone(S, r.ledger, x, open)
      /\ r.out # "success" => r.ledger = p.ledger /\ Futile(p.ledger, x, open, retry)
  <2>1. CASE PutOff(p.ledger, x, open)
    <3>1. r = [out |-> "retry", ledger |-> p.ledger]
      BY <2>1 DEF Attempt, PutOff
    <3>2. r.out = "retry" /\ r.ledger = p.ledger
      BY <3>1
    <3> QED BY <2>1, <3>2 DEF Futile
  <2>2. CASE ~PutOff(p.ledger, x, open)
    <3>1. r = Judged(a)
      BY <2>2 DEF Attempt, PutOff
    <3>2. /\ a.did => a.ledger.acct[x.src].seq > x.seq
          /\ a.did \/ a.ledger = p.ledger
          /\ ~a.did /\ a.ter \in {"tef", "tem", "tel"} => Refused(p.ledger, x, open)
      BY <1>0, Attempted
    <3>3. ~a.did => Futile(p.ledger, x, open, retry)
      BY DEF Futile
    <3> HIDE DEF a, r
    <3>4. r.ledger = a.ledger
          /\ (r.out # "retry" => a.did \/ a.ter \in {"tef", "tem", "tel"})
          /\ (r.out # "success" => ~a.did)
      BY <3>1 DEF Judged
    <3>5. r.out # "retry" => Refused(r.ledger, x, open)
      BY <3>2, <3>4 DEF Refused
    <3> QED BY <3>2, <3>3, <3>4, <3>5 DEF Gone
  <2> QED BY <2>1, <2>2
<1> HIDE DEF r, a
<1>4. ASSUME NEW t \in S, Gone(S, p.ledger, t, open) PROVE Gone(S, r.ledger, t, open)
  BY <1>0, <1>1, <1>4, GoneStays
<1>5. \A t \in S : Gone(S, l, t, open) => Gone(S, q.ledger, t, open)
  BY <1>2, <1>4 DEF WalkEnds
<1>6. ASSUME NEW t \in s PROVE t \in q.left \/ Gone(S, q.ledger, t, open)
  <2>1. CASE t = x
    BY <1>2, <1>3, <2>1
  <2>2. CASE t # x
    BY <1>2, <1>4, <2>2 DEF WalkEnds
  <2> QED BY <2>1, <2>2
<1>7. q.left \subseteq s /\ q.ledger.close = l.close
  BY <1>0, <1>1, <1>2 DEF WalkEnds, Effect, Follows
<1>8. q.changed => q.left # s
  <2>1. p.left \subseteq s \ {x} /\ (p.changed => p.left # s \ {x})
    BY DEF WalkEnds
  <2>2. CASE p.changed
    <3>1. PICK y \in s \ {x} : y \notin p.left
      BY <2>1, <2>2
    <3>2. y \in s /\ y \notin q.left
      BY <1>2, <3>1
    <3> QED BY <3>2
  <2>3. CASE r.out = "success"
    <3>1. q.left = p.left
      BY <1>2, <2>3
    <3>2. x \in s /\ x \notin q.left
      BY <2>1, <3>1
    <3> QED BY <3>2
  <2> QED BY <1>2, <2>2, <2>3
<1>9. ASSUME ~q.changed PROVE q.ledger = l /\ \A t \in s : Futile(l, t, open, retry)
  <2>1. ~p.changed /\ r.out # "success"
    BY <1>2, <1>9
  <2>2. p.ledger = l /\ \A t \in s \ {x} : Futile(l, t, open, retry)
    BY <2>1 DEF WalkEnds
  <2>3. r.ledger = p.ledger /\ Futile(p.ledger, x, open, retry)
    BY <1>3, <2>1
  <2> QED BY <1>2, <2>2, <2>3
<1> QED BY <1>5, <1>6, <1>7, <1>8, <1>9 DEF WalkEnds

LEMMA WalkEnded ==
    ASSUME NEW K, Finitely(K), Payers(K), NEW S, S \subseteq K, NEW l, LedgerOK(K, l),
           NEW ts, ts \subseteq S, NEW order, StrictOn(order, ts),
           NEW open \in BOOLEAN, NEW retry \in BOOLEAN
    PROVE  WalkEnds(S, l, ts, open, retry, Walk(l, ts, order, open, retry))
<1>0. ts \subseteq K /\ IsFiniteSet(ts)
  BY FS_Subset DEF Finitely
<1>1. PICK g : WalkIs(K, l, ts, order, open, retry, g)
  BY <1>0, WalkUnfolds, Zenon
<1> DEFINE T == {s \in SUBSET ts : WalkEnds(S, l, s, open, retry, g[s])}
<1>2. ASSUME NEW s \in SUBSET ts, \A x \in s : s \ {x} \in T PROVE s \in T
  <2>1. CASE s = {}
    <3>1. g[s] = Start(l)
      BY <1>1, <2>1 DEF WalkIs
    <3>2. g[s].ledger = l /\ g[s].left = {} /\ ~g[s].changed
      BY <3>1 DEF Start
    <3> QED BY <2>1, <3>2 DEF WalkEnds
  <2>2. CASE s # {}
    <3> DEFINE x == LastIn(order, s)
               p == g[s \ {x}]
    <3>1. x \in s
      BY <1>0, <2>2, LastExists
    <3>2. g[s] = WalksOne(p, x, open, retry)
      BY <1>1, <2>2 DEF WalkIs
    <3>3. s \ {x} \in T /\ p \in WalkStates(K) /\ s \subseteq S
      BY <1>1, <1>2, <3>1 DEF WalkIs
    <3> HIDE DEF x
    <3>4. WalkEnds(S, l, s \ {x}, open, retry, p)
      BY <3>3
    <3> HIDE DEF p
    <3>5. WalkEnds(S, l, s, open, retry, g[s])
      BY <3>1, <3>2, <3>3, <3>4, WalkEndsStep
    <3> QED BY <3>5
  <2> QED BY <2>1, <2>2
<1>3. SUBSET ts \subseteq T
  <2>1. Hereditary(T, ts)
    BY <1>2 DEF Hereditary
  <2> HIDE DEF T
  <2> QED BY <1>0, <2>1, SubsetInduction, Zenon
<1>4. WalkEnds(S, l, ts, open, retry, g[ts])
  BY <1>3
<1> QED BY <1>1, <1>4 DEF WalkIs

\* What is left after n passes.
Slack(s) == IF s.certain THEN 0 ELSE 1

PassEnds(S, l, n, open, s) ==
    /\ s.left \subseteq S /\ s.ledger.close = l.close
    /\ \A t \in S : t \in s.left \/ Gone(S, s.ledger, t, open)
    /\ s.done => \A t \in s.left : Futile(s.ledger, t, open, FALSE)
    /\ ~s.done => Cardinality(s.left) + n <= Cardinality(S) + Slack(s)

LEMMA PassEndsStep ==
    ASSUME NEW K, Finitely(K), Payers(K), NEW S, S \subseteq K, NEW l, NEW n \in Nat,
           NEW pass \in PassNumbers, NEW rank \in [Account -> Nat], NEW open \in BOOLEAN,
           NEW s \in PassStates(K), PassEnds(S, l, n, open, s),
           NEW q, q = Pass(s, pass, rank, open)
    PROVE  PassEnds(S, l, n + 1, open, q)
<1> DEFINE order == Canonical(rank, s.left)
           w == Walk(s.ledger, s.left, order, open, s.certain)
<1>1. LedgerOK(K, s.ledger) /\ s.left \subseteq K /\ s.certain \in BOOLEAN /\ s.left \subseteq S
  BY DEF PassStates, PassEnds
<1>2. StrictOn(order, s.left)
  BY <1>1, CanonicalStrict DEF Finitely
<1>3. CASE s.done
  <2>1. q = s
    BY <1>3 DEF Pass
  <2> QED BY <1>3, <2>1 DEF PassEnds
<1>4. CASE ~s.done
  <2>1. q = Passed(s, pass, w)
    BY <1>4 DEF Pass
  <2> HIDE DEF order
  <2>2. w \in WalkStates(K)
    BY <1>1, <1>2, WalkOK, Zenon
  <2>3. WalkEnds(S, s.ledger, s.left, open, s.certain, w)
    BY <1>1, <1>2, WalkEnded
  <2> HIDE DEF w
  <2>4. /\ q.ledger = w.ledger /\ q.left = w.left
        /\ (q.certain <=> s.certain /\ w.changed /\ pass < RETRY_PASSES)
        /\ (q.done <=> ~w.changed /\ ~s.certain)
    <3> DEFINE c == s.certain /\ w.changed /\ pass < RETRY_PASSES
               d == ~w.changed /\ ~s.certain
    <3>1. q = [ledger |-> w.ledger, left |-> w.left, certain |-> c, done |-> d]
      BY <2>1 DEF Passed
    <3> HIDE DEF c, d
    <3>2. q.ledger = w.ledger /\ q.left = w.left /\ q.certain = c /\ q.done = d
      BY <3>1
    <3> QED BY <3>2 DEF c, d
  <2>5. q.left \subseteq s.left /\ q.left \subseteq S /\ q.ledger.close = l.close
    BY <2>3, <2>4 DEF WalkEnds, PassEnds
  <2>6. ASSUME NEW t \in S PROVE t \in q.left \/ Gone(S, q.ledger, t, open)
    BY <2>3, <2>4 DEF WalkEnds, PassEnds
  <2>7. ASSUME q.done, NEW t \in q.left PROVE Futile(q.ledger, t, open, FALSE)
    <3>1. ~w.changed /\ s.certain = FALSE
      BY <1>1, <2>4, <2>7
    <3>2. WalkEnds(S, s.ledger, s.left, open, FALSE, w)
      BY <2>3, <3>1
    <3>3. w.ledger = s.ledger /\ \A u \in s.left : Futile(s.ledger, u, open, FALSE)
      BY <3>1, <3>2 DEF WalkEnds
    <3> QED BY <2>4, <2>5, <2>7, <3>3
  <2>8. ASSUME ~q.done PROVE Cardinality(q.left) + (n + 1) <= Cardinality(S) + Slack(q)
    <3>1. IsFiniteSet(S) /\ IsFiniteSet(s.left) /\ IsFiniteSet(q.left)
      BY <1>1, <2>5, FS_Subset DEF Finitely
    <3>2. Cardinality(S) \in Nat /\ Cardinality(s.left) \in Nat /\ Cardinality(q.left) \in Nat
      BY <3>1, FS_CardinalityType
    <3>3. Cardinality(s.left) + n <= Cardinality(S) + Slack(s)
      BY <1>4 DEF PassEnds
    <3>4. Slack(s) \in {0, 1} /\ Slack(q) \in {0, 1}
      BY DEF Slack
    <3>5. CASE w.changed
      <4>1. q.left # s.left
        BY <2>3, <2>4, <3>5 DEF WalkEnds
      <4>2. Cardinality(q.left) < Cardinality(s.left)
        <5>1. q.left \in SUBSET s.left
          BY <2>5
        <5>2. /\ Cardinality(q.left) <= Cardinality(s.left)
              /\ Cardinality(s.left) = Cardinality(q.left) => s.left = q.left
          BY <3>1, <5>1, FS_Subset
        <5> QED BY <3>2, <4>1, <5>2
      <4>3. Slack(s) <= Slack(q)
        BY <2>4 DEF Slack
      <4> QED BY <3>2, <3>3, <3>4, <4>2, <4>3
    <3>6. CASE ~w.changed
      <4>1. s.certain /\ ~q.certain
        BY <2>4, <2>8, <3>6
      <4>2. Slack(s) = 0 /\ Slack(q) = 1
        BY <4>1 DEF Slack
      <4>3. Cardinality(q.left) <= Cardinality(s.left)
        BY <2>5, <3>1, FS_Subset
      <4> QED BY <3>2, <3>3, <4>2, <4>3
    <3> QED BY <3>5, <3>6
  <2> QED BY <2>5, <2>6, <2>7, <2>8 DEF PassEnds
<1> QED BY <1>3, <1>4

\* What may still be applied to m, of the transactions S that were tried on l.
Completed(l, S, open, m) ==
    Cardinality(S) < TOTAL_PASSES =>
        \A t \in S : \/ PutOff(l, t, open) \/ Credited(t, S)
                     \/ ~applyTransaction(m, t, open, FALSE).did

LEMMA PassesComplete ==
    ASSUME NEW K, Finitely(K), Payers(K), NEW S, S \subseteq K, NEW l, LedgerOK(K, l),
           NEW rank \in [Account -> Nat], NEW open \in BOOLEAN,
           NEW R, R \subseteq S, \A t \in S : t \in R \/ Gone(S, l, t, open)
    PROVE  Completed(l, S, open, Passes(l, R, rank, open).ledger)
<1>0. R \subseteq K /\ IsFiniteSet(S) /\ IsFiniteSet(R) /\ R \in SUBSET S
  BY FS_Subset DEF Finitely
<1>1. PICK g : PassesAre(K, l, R, rank, open, g)
  BY <1>0, PassesUnfold, Zenon
<1>2. TOTAL_PASSES \in Nat /\ TOTAL_PASSES > 0 /\ 0 \in Int /\ TOTAL_PASSES - 1 \in Int
  BY EngineAssumption
<1>3. IsFiniteSet(PassNumbers) /\ PassNumbers \subseteq Nat /\ Cardinality(PassNumbers) = TOTAL_PASSES
  <2>1. IsFiniteSet(0 .. TOTAL_PASSES - 1)
        /\ Cardinality(0 .. TOTAL_PASSES - 1)
             = IF 0 > TOTAL_PASSES - 1 THEN 0 ELSE (TOTAL_PASSES - 1) - 0 + 1
    BY <1>2, FS_Interval
  <2> QED BY <1>2, <2>1 DEF PassNumbers
<1>4. \A s \in SUBSET PassNumbers : s # {} => Max(s) \in s
  BY <1>3, MaxExists
<1>5. \A s \in SUBSET PassNumbers : IsFiniteSet(s) /\ Cardinality(s) \in Nat
  BY <1>3, FS_Subset, FS_CardinalityType
<1> DEFINE T == {s \in SUBSET PassNumbers : PassEnds(S, l, Cardinality(s), open, g[s])}
<1>6. ASSUME NEW s \in SUBSET PassNumbers, \A x \in s : s \ {x} \in T PROVE s \in T
  <2>1. CASE s = {}
    <3>1. g[s] = Begin(l, R)
      BY <1>1, <2>1 DEF PassesAre
    <3>2. g[s].ledger = l /\ g[s].left = R /\ ~g[s].done /\ g[s].certain
      BY <3>1 DEF Begin
    <3>3. Cardinality(s) = 0 /\ Slack(g[s]) = 0
      BY <2>1, <3>2, FS_EmptySet DEF Slack
    <3>4. Cardinality(R) <= Cardinality(S) /\ Cardinality(R) \in Nat /\ Cardinality(S) \in Nat
      BY <1>0, FS_Subset, FS_CardinalityType
    <3>5. Cardinality(g[s].left) + Cardinality(s) <= Cardinality(S) + Slack(g[s])
      BY <3>2, <3>3, <3>4
    <3> QED BY <3>2, <3>5 DEF PassEnds
  <2>2. CASE s # {}
    <3> DEFINE n == Max(s)
               p == g[s \ {n}]
               k == Cardinality(s \ {n})
    <3>1. n \in s /\ n \in PassNumbers
      BY <1>4, <2>2
    <3>2. g[s] = Pass(p, n, rank, open) /\ p \in PassStates(K)
      BY <1>1, <2>2 DEF PassesAre
    <3>3. k \in Nat /\ Cardinality(s) = k + 1
      <4>1. s \ {n} \in SUBSET PassNumbers
        OBVIOUS
      <4>2. k = Cardinality(s) - 1
        BY <1>5, <3>1, FS_RemoveElement
      <4>3. k \in Nat
        BY <1>5, <4>1
      <4> HIDE DEF k
      <4> QED BY <1>5, <4>2, <4>3
    <3>4. PassEnds(S, l, k, open, p)
      BY <1>6, <3>1
    <3> HIDE DEF n, p, k
    <3>5. PassEnds(S, l, k + 1, open, g[s])
      BY <3>1, <3>2, <3>3, <3>4, PassEndsStep
    <3> QED BY <3>3, <3>5
  <2> QED BY <2>1, <2>2
<1>7. SUBSET PassNumbers \subseteq T
  <2>1. Hereditary(T, PassNumbers)
    BY <1>6 DEF Hereditary
  <2> HIDE DEF T
  <2> QED BY <1>3, <2>1, SubsetInduction, Zenon
<1> DEFINE q == g[PassNumbers]
<1>8. PassEnds(S, l, TOTAL_PASSES, open, q)
  BY <1>3, <1>7
<1>9. q = Passes(l, R, rank, open) /\ q \in PassStates(K)
  BY <1>1 DEF PassesAre
<1> HIDE DEF q
<1>10. LedgerOK(K, q.ledger) /\ FALSE \in BOOLEAN /\ q.left \subseteq S
  BY <1>8, <1>9 DEF PassStates, PassEnds
<1>11. ASSUME Cardinality(S) < TOTAL_PASSES, NEW t \in S
       PROVE  PutOff(l, t, open) \/ Credited(t, S) \/ ~applyTransaction(q.ledger, t, open, FALSE).did
  <2>1. CASE Gone(S, q.ledger, t, open)
    <3>1. t \in K
      OBVIOUS
    <3> QED BY <1>10, <2>1, <3>1, RefusedFails DEF Gone
  <2>2. CASE t \in q.left /\ q.done
    <3>1. Futile(q.ledger, t, open, FALSE) /\ q.ledger.close = l.close
      BY <1>8, <2>2 DEF PassEnds
    <3> QED BY <3>1 DEF Futile, PutOff
  <2>3. CASE t \in q.left /\ ~q.done
    <3>1. Cardinality(q.left) + TOTAL_PASSES <= Cardinality(S) + Slack(q) /\ Slack(q) \in {0, 1}
      BY <1>8, <2>3 DEF PassEnds, Slack
    <3>2. IsFiniteSet(q.left) /\ Cardinality(q.left) \in Nat /\ Cardinality(S) \in Nat
      BY <1>0, <1>10, FS_Subset, FS_CardinalityType
    <3>3. Cardinality(q.left) = 0
      BY <1>2, <1>11, <3>1, <3>2
    <3>4. q.left = {}
      BY <3>2, <3>3, FS_EmptySet
    <3> QED BY <2>3, <3>4
  <2> QED BY <1>8, <2>1, <2>2, <2>3 DEF PassEnds
<1> QED BY <1>9, <1>11 DEF Completed

LEMMA applyTransactionsCompletes ==
    ASSUME NEW K, Finitely(K), Payers(K), NEW set, set \subseteq K, NEW l, LedgerOK(K, l), NEW check,
           NEW left, left \subseteq K, NEW rank \in [Account -> Nat], NEW open \in BOOLEAN
    PROVE  LET q == applyTransactions(set, l, check, left, rank, open)
               S == left \cup (set \ check.txns)
           IN  Completed(l, S, open, q.ledger)
<1> DEFINE ts == set \ check.txns
           S == left \cup ts
           f == Walk(l, ts, ById(set), open, TRUE)
           R == left \cup f.left
           q == applyTransactions(set, l, check, left, rank, open)
<1>1. ts \subseteq S /\ S \subseteq K /\ ts \subseteq K /\ StrictOn(ById(set), ts) /\ TRUE \in BOOLEAN
  BY ByIdStrict DEF Finitely
<1>2. q = Passes(f.ledger, R, rank, open)
  BY DEF applyTransactions, Retried
<1> HIDE DEF ts, q
<1>3. f \in WalkStates(K)
  BY <1>1, WalkOK, Zenon
<1> HIDE DEF S
<1>4. WalkEnds(S, l, ts, open, TRUE, f)
  BY <1>1, WalkEnded
<1> HIDE DEF f
<1>5. LedgerOK(K, f.ledger) /\ f.ledger.close = l.close
  BY <1>3, <1>4 DEF WalkStates, WalkEnds
<1>6. R \subseteq S
  BY <1>4 DEF WalkEnds, S
<1>7. \A t \in S : t \in R \/ Gone(S, f.ledger, t, open)
  BY <1>4 DEF WalkEnds, S
<1> HIDE DEF R
<1>8. Completed(f.ledger, S, open, q.ledger)
  BY <1>1, <1>2, <1>5, <1>6, <1>7, PassesComplete
<1>9. Completed(l, S, open, q.ledger)
  BY <1>5, <1>8 DEF Completed, PutOff
<1> QED BY <1>9 DEF S, ts, q

-----------------------------------------------------------------------------
\* The state: the transactions anywhere are those of the setup, and every ledger at hand has
\* the invariant.
Flag == {"seen", "BAD", "SIGGOOD", "RELAYED"}

\* Who was relayed is flagged, and the flag stops the next relay.
RelayOK(X, r, s) ==
    /\ r \in [X -> SUBSET Flag]
    /\ s \in [X -> Nat]
    /\ \A t \in X : s[t] = 0 \/ (s[t] = 1 /\ "RELAYED" \in r[t])

RelayInv == RelayOK(Txns, router, sent)

LEMMA FlaggedOK ==
    ASSUME NEW X, NEW r, NEW s, RelayOK(X, r, s), NEW t \in X, NEW flags \in SUBSET Flag
    PROVE  RelayOK(X, Flagged(r, t, flags), s)
<1> DEFINE q == Flagged(r, t, flags)
<1>1. q \in [X -> SUBSET Flag]
  BY DEF Flagged, RelayOK, Flag
<1>2. \A u \in X : r[u] \subseteq q[u]
  BY DEF Flagged, RelayOK
<1> QED BY <1>1, <1>2 DEF RelayOK

LEMMA Flags ==
    /\ {} \in SUBSET Flag /\ {"BAD"} \in SUBSET Flag
    /\ {"SIGGOOD"} \in SUBSET Flag /\ {"RELAYED"} \in SUBSET Flag
BY DEF Flag

LEMMA swapSetOK ==
    ASSUME NEW X, NEW r, RelayOK(X, r, sent), NEW t \in X, NEW relay, swapSet(r, sent, t, relay)
    PROVE  RelayOK(X, router', sent')
<1>1. CASE relay /\ "RELAYED" \notin r[t]
  <2> DEFINE q == Flagged(r, t, {"RELAYED"})
  <2>1. router' = q /\ sent' = [sent EXCEPT ![t] = @ + 1]
    BY <1>1 DEF swapSet
  <2>2. RelayOK(X, q, sent)
    BY Flags, FlaggedOK
  <2>3. "RELAYED" \in q[t]
    BY DEF Flagged, RelayOK
  <2>4. sent[t] = 0
    BY <1>1 DEF RelayOK
  <2> HIDE DEF q
  <2>5. sent' \in [X -> Nat] /\ sent'[t] = 1 /\ \A u \in X \ {t} : sent'[u] = sent[u]
    BY <2>1, <2>2, <2>4 DEF RelayOK
  <2>6. \A u \in X : sent'[u] = 0 \/ (sent'[u] = 1 /\ "RELAYED" \in q[u])
    BY <2>2, <2>3, <2>5 DEF RelayOK
  <2> QED BY <2>1, <2>2, <2>5, <2>6 DEF RelayOK
<1>2. CASE ~(relay /\ "RELAYED" \notin r[t])
  <2>1. router' = r /\ sent' = sent
    BY <1>2 DEF swapSet
  <2> QED BY <2>1
<1> QED BY <1>1, <1>2

LEMMA processRelay ==
    ASSUME NEW X, NEW r, RelayOK(X, r, sent), NEW t \in X, NEW bLocal, NEW bFailHard, NEW full,
           processTransactionCb(t, r, bLocal, bFailHard, full)
    PROVE  RelayOK(X, router', sent')
<1>1. CASE "BAD" \in r[t] \/ ~t.good
  <2>1. sent' = sent /\ router' \in {r, Flagged(r, t, {"BAD"})}
    BY <1>1 DEF processTransactionCb
  <2>2. RelayOK(X, Flagged(r, t, {"BAD"}), sent)
    BY Flags, FlaggedOK
  <2> QED BY <2>1, <2>2
<1>2. CASE ~("BAD" \in r[t] \/ ~t.good)
  <2> DEFINE a == applyTransaction(current, t, TRUE, FALSE)
             q == Flagged(r, t, {"SIGGOOD"})
             relay == a.did \/ (~full /\ ~bFailHard /\ bLocal)
  <2>1. swapSet(q, sent, t, relay)
    BY <1>2 DEF processTransactionCb, doTransaction
  <2>2. RelayOK(X, q, sent)
    BY Flags, FlaggedOK
  <2> HIDE DEF q, relay
  <2> QED BY <2>1, <2>2, swapSetOK
<1> QED BY <1>1, <1>2

LEMMA RelayInit == Init => RelayInv
<1> SUFFICES ASSUME Init PROVE RelayInv
  OBVIOUS
<1> DEFINE X == Txns
<1>1. router = [t \in X |-> {}] /\ sent = [t \in X |-> 0]
  BY DEF Init
<1> HIDE DEF X
<1>2. RelayOK(X, router, sent)
  BY <1>1 DEF RelayOK
<1> QED BY <1>2 DEF RelayInv, X

LEMMA RelayNext == RelayInv /\ [Next]_vars => RelayInv'
<1> SUFFICES ASSUME RelayInv, [Next]_vars PROVE RelayInv'
  OBVIOUS
<1> DEFINE X == Txns
<1>1. setup' = setup
  BY DEF Next, vars, Arrival, JobRuns, Round, doSubmit, onTransaction, gotNode, checkTransaction,
         submitTransaction, processTransactionCbVoid, beginConsensus, closeLedger, handleLCL,
         acceptBuild, acceptPush, switchLastClosedLedger, addDisputedTransaction,
         networkCloses, setValidLedger
<1>2. X' = X
  BY <1>1 DEF Txns
<1>3. RelayOK(X, router, sent)
  BY DEF RelayInv
<1> SUFFICES RelayOK(X, router', sent')
  BY <1>2 DEF RelayInv
<1> HIDE DEF X
<1>4. ASSUME routing' = routing PROVE RelayOK(X, router', sent')
  BY <1>3, <1>4 DEF routing
<1>5. ASSUME NEW t \in X, NEW flags \in SUBSET Flag, router' = Flagged(router, t, flags), sent' = sent
      PROVE  RelayOK(X, router', sent')
  BY <1>3, <1>5, FlaggedOK
<1>6. ASSUME NEW t \in X, Arrival(t) PROVE RelayOK(X, router', sent')
  <2>1. CASE doSubmit(t)
    <3>1. CASE t.good
      <4>1. PICK full \in BOOLEAN : processTransactionCb(t, router, TRUE, t \in setup.failHard, full)
        BY <2>1, <3>1 DEF doSubmit
      <4> QED BY <1>3, <4>1, processRelay
    <3>2. CASE ~t.good
      BY <1>4, <2>1, <3>2 DEF doSubmit
    <3> QED BY <3>1, <3>2
  <2>2. CASE onTransaction(t)
    BY <1>5, <2>2, Flags DEF onTransaction
  <2>3. CASE gotNode(t)
    BY <1>4, <2>3 DEF gotNode
  <2> QED BY <1>6, <2>1, <2>2, <2>3 DEF Arrival
<1>7. ASSUME NEW t \in X, JobRuns(t) PROVE RelayOK(X, router', sent')
  <2>1. CASE checkTransaction(t)
    <3>1. CASE (t.last > 0 /\ t.last < valid.seq) \/ ~t.good
      <4>1. router' = Flagged(router, t, {"BAD"}) /\ sent' = sent
        BY <2>1, <3>1 DEF checkTransaction
      <4> QED BY <1>5, <4>1, Flags
    <3>2. CASE ~((t.last > 0 /\ t.last < valid.seq) \/ ~t.good)
      <4>1. PICK full \in BOOLEAN :
              processTransactionCb(t, Flagged(router, t, {"SIGGOOD"}), FALSE, FALSE, full)
        BY <2>1, <3>2 DEF checkTransaction
      <4>2. RelayOK(X, Flagged(router, t, {"SIGGOOD"}), sent)
        BY <1>3, Flags, FlaggedOK
      <4> QED BY <4>1, <4>2, processRelay
    <3> QED BY <3>1, <3>2
  <2>2. CASE submitTransaction(t)
    <3>1. sent' = sent /\ router' \in {router, Flagged(router, t, {"BAD"}),
                                       Flagged(router, t, {"SIGGOOD"})}
      BY <2>2 DEF submitTransaction
    <3>2. router' = router => RelayOK(X, router', sent')
      BY <1>3, <3>1
    <3> QED BY <1>5, <3>1, <3>2, Flags
  <2>3. CASE processTransactionCbVoid(t)
    <3>1. PICK full \in BOOLEAN : processTransactionCb(t, router, FALSE, FALSE, full)
      BY <2>3 DEF processTransactionCbVoid
    <3> QED BY <1>3, <3>1, processRelay
  <2> QED BY <1>7, <2>1, <2>2, <2>3 DEF JobRuns
<1>8. CASE closeLedger
  <2> DEFINE q == [t \in X |-> IF t \in mHeldTransactions
                               THEN router[t] \cup {"seen", "SIGGOOD"} ELSE router[t]]
  <2>1. router' = q /\ sent' = sent
    BY <1>8 DEF closeLedger, X
  <2>2. q \in [X -> SUBSET Flag] /\ \A t \in X : router[t] \subseteq q[t]
    BY <1>3 DEF RelayOK, Flag
  <2> HIDE DEF q
  <2> QED BY <1>3, <2>1, <2>2 DEF RelayOK
<1>9. ASSUME NEW t \in X, addDisputedTransaction(t) PROVE RelayOK(X, router', sent')
  <2>1. RelayOK(X, Flagged(router, t, {}), sent)
    BY <1>3, Flags, FlaggedOK
  <2>2. swapSet(Flagged(router, t, {}), sent, t, TRUE)
    BY <1>9 DEF addDisputedTransaction
  <2> QED BY <2>1, <2>2, swapSetOK
<1>10. CASE \/ beginConsensus \/ handleLCL \/ acceptBuild \/ acceptPush
            \/ switchLastClosedLedger \/ networkCloses \/ setValidLedger \/ UNCHANGED vars
  BY <1>4, <1>10 DEF beginConsensus, handleLCL, acceptBuild, acceptPush, switchLastClosedLedger,
                     networkCloses, setValidLedger, vars
<1> QED BY <1>6, <1>7, <1>8, <1>9, <1>10 DEF Next, Round, X

LEMMA RelayInvariance == Spec => []RelayInv
BY RelayInit, RelayNext, PTL DEF Spec

-----------------------------------------------------------------------------
(* The state: K are the transactions the scenario knows.  Every ledger the *)
(* server works on is LedgerOK, the ones that accept has built and not yet *)
(* pushed included, and every queue holds transactions of K only.          *)
BuiltOK(K, b) == LedgerOK(K, b.lcl) /\ LedgerOK(K, b.ol) /\ b.left \subseteq K

ChainsOK(K) ==
    /\ LedgerOK(K, current) /\ LedgerOK(K, closed) /\ LedgerOK(K, valid)
    /\ network = None \/ LedgerOK(K, network)

QueuesOK(K) ==
    /\ mHeldTransactions \subseteq K
    /\ {e.txn : e \in m_txns} \subseteq K

RoundOK(K) ==
    /\ LedgerOK(K, mPreviousLedger)
    /\ position \subseteq K /\ mDisputes \subseteq K
    /\ state = "accept" => BuiltOK(K, built)

LedgerInv ==
    /\ setup \in Setups
    /\ ChainsOK(Known(setup)) /\ QueuesOK(Known(setup)) /\ RoundOK(Known(setup))

\* What the scenario provides for a set K of transactions.
Provides(K) ==
    /\ Finitely(K) /\ Payers(K)
    /\ Txns \subseteq K /\ \A s \in setup.sets : s \subseteq K
    /\ setup.salted \in [Account -> Nat] /\ setup.unsalted \in [Account -> Nat]

LEMMA KnownProvides ==
    ASSUME setup \in Setups
    PROVE  Provides(Known(setup))
<1>1. /\ Known(setup) \subseteq Transaction /\ IsFiniteSet(Known(setup))
      /\ {setup.salted, setup.unsalted} \subseteq [Account -> Nat]
  BY SetupsAssumption
<1>2. Txns \subseteq Known(setup) /\ \A s \in setup.sets : s \subseteq Known(setup)
  BY DEF Txns, Known
<1>3. Payers(Known(setup))
  BY PayersExist DEF Payers
<1> QED BY <1>1, <1>2, <1>3 DEF Provides, Finitely

LEMMA LedgerInit == Init => LedgerInv
<1> SUFFICES ASSUME Init PROVE LedgerInv
  OBVIOUS
<1> DEFINE K == Known(setup)
<1>1. setup \in Setups
  BY DEF Init
<1>2. Finitely(K)
  BY <1>1, KnownProvides DEF Provides
<1> HIDE DEF K
<1>3. LedgerOK(K, FirstLedger) /\ LedgerOK(K, NewLedger(FirstLedger))
  BY <1>2, FirstLedgerOK, NewLedgerOK
<1>4. ChainsOK(K) /\ QueuesOK(K) /\ RoundOK(K)
  BY <1>3 DEF Init, ChainsOK, QueuesOK, RoundOK
<1> QED BY <1>1, <1>4 DEF LedgerInv, K

LEMMA processLedger ==
    ASSUME NEW K, Provides(K), ChainsOK(K), QueuesOK(K), NEW t \in K, NEW r,
           NEW bLocal, NEW bFailHard, NEW full, processTransactionCb(t, r, bLocal, bFailHard, full)
    PROVE  LedgerOK(K, current') /\ QueuesOK(K)'
<1>1. CASE "BAD" \in r[t] \/ ~t.good
  <2>1. current' = current /\ mHeldTransactions' = mHeldTransactions /\ m_txns' = m_txns
    BY <1>1 DEF processTransactionCb, queues
  <2> QED BY <2>1 DEF ChainsOK, QueuesOK
<1>2. CASE ~("BAD" \in r[t] \/ ~t.good)
  <2> DEFINE a == applyTransaction(current, t, TRUE, FALSE)
  <2>1. LedgerOK(K, a.ledger)
    <3>1. TRUE \in BOOLEAN /\ FALSE \in BOOLEAN
      OBVIOUS
    <3> QED BY <3>1, applyTransactionOK DEF Provides, ChainsOK
  <2>2. doTransaction(t, r, a, bLocal, bFailHard, full)
    BY <1>2 DEF processTransactionCb
  <2> HIDE DEF a
  <2>3. /\ current' = a.ledger
        /\ mHeldTransactions' \subseteq mHeldTransactions \cup {t}
        /\ m_txns' \subseteq m_txns \cup {LocalTx(t)}
    BY <2>2 DEF doTransaction
  <2>4. LocalTx(t).txn = t
    BY DEF LocalTx
  <2>5. \A e \in m_txns' : e.txn \in K
    BY <2>3, <2>4 DEF QueuesOK
  <2> QED BY <2>1, <2>3, <2>5 DEF QueuesOK
<1> QED BY <1>1, <1>2

LEMMA HeldAppliedOK ==
    ASSUME NEW K, Provides(K), QueuesOK(K), NEW l, LedgerOK(K, l)
    PROVE  LedgerOK(K, HeldApplied(l))
<1> DEFINE order == Canonical(setup.salted, mHeldTransactions)
<1>1. mHeldTransactions \subseteq K /\ Finitely(K) /\ setup.salted \in [Account -> Nat]
  BY DEF QueuesOK, Provides
<1>2. StrictOn(order, mHeldTransactions)
  BY <1>1, CanonicalStrict DEF Finitely
<1> HIDE DEF order
<1>3. LedgerOK(K, Applied(l, mHeldTransactions, order))
  BY <1>1, <1>2, AppliedOK
<1> QED BY <1>3 DEF HeldApplied, order

LEMMA LocalAppliedOK ==
    ASSUME NEW K, Provides(K), QueuesOK(K), NEW l, LedgerOK(K, l)
    PROVE  LedgerOK(K, LocalApplied(l))
<1> DEFINE ts == {e.txn : e \in m_txns}
           order == Canonical(setup.unsalted, ts)
<1>1. ts \subseteq K /\ Finitely(K) /\ setup.unsalted \in [Account -> Nat]
  BY DEF QueuesOK, Provides
<1> HIDE DEF ts
<1>2. StrictOn(order, ts)
  BY <1>1, CanonicalStrict DEF Finitely
<1> HIDE DEF order
<1>3. LedgerOK(K, Applied(l, ts, order))
  BY <1>1, <1>2, AppliedOK
<1> QED BY <1>3 DEF LocalApplied, order, ts

LEMMA PositionsOK ==
    ASSUME NEW K, RoundOK(K), NEW set \in Positions
    PROVE  set \subseteq K
BY DEF RoundOK, Positions

\* The next ledger accept builds from the set that was agreed on, and the open one on it.
LEMMA BuildOK ==
    ASSUME NEW K, Provides(K), RoundOK(K), NEW set, set \subseteq K, NEW l, LedgerOK(K, l)
    PROVE  BuiltOK(K, Built(applyTransactions(set, NewLedger(l), NewLedger(l), {}, setup.salted,
                                              FALSE), mDisputes \ set))
<1> DEFINE n == NewLedger(l)
           lcl == applyTransactions(set, n, n, {}, setup.salted, FALSE)
           no == mDisputes \ set
           m == NewLedger(lcl.ledger)
           ol == applyTransactions({}, m, lcl.ledger, lcl.left \cup no, setup.salted, TRUE)
<1>0. /\ Finitely(K) /\ setup.salted \in [Account -> Nat]
      /\ {} \subseteq K /\ TRUE \in BOOLEAN /\ FALSE \in BOOLEAN
  BY DEF Provides
<1>1. LedgerOK(K, n)
  BY <1>0, NewLedgerOK
<1> HIDE DEF n
<1>2. LedgerOK(K, lcl.ledger) /\ lcl.left \subseteq K
  BY <1>0, <1>1, applyTransactionsOK
<1> HIDE DEF lcl
<1>3. LedgerOK(K, m)
  BY <1>0, <1>2, NewLedgerOK
<1>4. no \subseteq K /\ lcl.left \cup no \subseteq K
  BY <1>2 DEF RoundOK
<1> HIDE DEF m, no
<1>5. LedgerOK(K, ol.ledger) /\ ol.left \subseteq K
  BY <1>0, <1>3, <1>4, applyTransactionsOK
<1> HIDE DEF ol
<1>6. Built(lcl, no) \in {Opened(lcl.ledger, [ledger |-> m, left |-> lcl.left]),
                          Opened(lcl.ledger, ol)}
  BY DEF Built, m, ol
<1>7. BuiltOK(K, Built(lcl, no))
  BY <1>2, <1>3, <1>5, <1>6 DEF BuiltOK, Opened
<1> QED BY <1>7 DEF lcl, n, no

LEMMA PushOK ==
    ASSUME NEW K, Provides(K), ChainsOK(K), QueuesOK(K), BuiltOK(K, built), acceptPush
    PROVE  LedgerOK(K, current')
<1> DEFINE old == applyTransactions(current.txns, built.ol, built.lcl, built.left, setup.salted, TRUE)
           l == IF current.txns = {} THEN built.ol ELSE old.ledger
<1>1. Finitely(K) /\ setup.salted \in [Account -> Nat] /\ TRUE \in BOOLEAN
  BY DEF Provides
<1>2. current.txns \subseteq K
  BY LedgerFields DEF ChainsOK, LedgerOK
<1>3. LedgerOK(K, built.ol) /\ built.left \subseteq K
  BY DEF BuiltOK
<1>4. LedgerOK(K, old.ledger)
  BY <1>1, <1>2, <1>3, applyTransactionsOK
<1>5. current' = LocalApplied(l)
  BY DEF acceptPush
<1> HIDE DEF old
<1>6. LedgerOK(K, l)
  BY <1>3, <1>4
<1> HIDE DEF l
<1>7. LedgerOK(K, LocalApplied(l))
  BY <1>6, LocalAppliedOK
<1> QED BY <1>5, <1>7

LEMMA networkClosesOK ==
    ASSUME NEW K, Provides(K), ChainsOK(K), RoundOK(K), networkCloses
    PROVE  LedgerOK(K, network')
<1> DEFINE n == NewLedger(valid)
<1>1. PICK set \in {{}, position} \cup setup.sets :
        network' = applyTransactions(set, n, n, {}, setup.salted, FALSE).ledger
  BY DEF networkCloses
<1>2. set \subseteq K /\ {} \subseteq K
  BY DEF Provides, RoundOK
<1>3. Finitely(K) /\ setup.salted \in [Account -> Nat] /\ FALSE \in BOOLEAN
  BY DEF Provides
<1>4. LedgerOK(K, n)
  BY <1>3, NewLedgerOK DEF ChainsOK
<1> HIDE DEF n
<1>5. LedgerOK(K, applyTransactions(set, n, n, {}, setup.salted, FALSE).ledger)
  BY <1>2, <1>3, <1>4, applyTransactionsOK
<1> QED BY <1>1, <1>5

\* A ledger that is preferred to another is one of the network's.
LEMMA PreferredOK ==
    ASSUME NEW K, ChainsOK(K), NEW l, NEW n \in Preferred(l)
    PROVE  LedgerOK(K, n)
BY DEF ChainsOK, Preferred

LEMMA ActionsKeepLedgers ==
    ASSUME NEW K, Provides(K), ChainsOK(K), QueuesOK(K), RoundOK(K), Next
    PROVE  ChainsOK(K)' /\ QueuesOK(K)' /\ RoundOK(K)'
<1>0. Txns \subseteq K
  BY DEF Provides
<1>1. ASSUME NEW t \in K, NEW r, NEW bLocal, NEW bFailHard, NEW full,
             processTransactionCb(t, r, bLocal, bFailHard, full),
             UNCHANGED <<closed, valid, network, round>>
      PROVE  ChainsOK(K)' /\ QueuesOK(K)' /\ RoundOK(K)'
  <2>1. LedgerOK(K, current') /\ QueuesOK(K)'
    BY <1>1, processLedger
  <2> QED BY <1>1, <2>1 DEF ChainsOK, RoundOK, round
<1>2. ASSUME UNCHANGED <<current, closed, valid, network, mHeldTransactions, m_txns, round>>
      PROVE  ChainsOK(K)' /\ QueuesOK(K)' /\ RoundOK(K)'
  BY <1>2 DEF ChainsOK, QueuesOK, RoundOK, round
<1>3. ASSUME NEW t \in Txns, Arrival(t) PROVE ChainsOK(K)' /\ QueuesOK(K)' /\ RoundOK(K)'
  <2>1. CASE doSubmit(t)
    <3>1. PICK full \in BOOLEAN :
             IF t.good THEN processTransactionCb(t, router, TRUE, t \in setup.failHard, full)
                       ELSE UNCHANGED <<current, queues, routing>>
      BY <2>1 DEF doSubmit
    <3>2. UNCHANGED <<closed, valid, network, round>>
      BY <2>1 DEF doSubmit
    <3>3. CASE t.good
      BY <1>0, <1>1, <3>1, <3>2, <3>3
    <3>4. CASE ~t.good
      BY <1>2, <3>1, <3>2, <3>4 DEF queues
    <3> QED BY <3>3, <3>4
  <2>2. CASE onTransaction(t) \/ gotNode(t)
    BY <1>2, <2>2 DEF onTransaction, gotNode, ledgers, queues
  <2> QED BY <1>3, <2>1, <2>2 DEF Arrival
<1>4. ASSUME NEW t \in Txns, JobRuns(t) PROVE ChainsOK(K)' /\ QueuesOK(K)' /\ RoundOK(K)'
  <2>1. CASE checkTransaction(t)
    <3>1. UNCHANGED <<closed, valid, network, round>>
      BY <2>1 DEF checkTransaction
    <3>2. CASE (t.last > 0 /\ t.last < valid.seq) \/ ~t.good
      BY <1>2, <2>1, <3>1, <3>2 DEF checkTransaction, queues
    <3>3. CASE ~((t.last > 0 /\ t.last < valid.seq) \/ ~t.good)
      <4>1. PICK full \in BOOLEAN :
              processTransactionCb(t, Flagged(router, t, {"SIGGOOD"}), FALSE, FALSE, full)
        BY <2>1, <3>3 DEF checkTransaction
      <4> QED BY <1>0, <1>1, <3>1, <4>1
    <3> QED BY <3>2, <3>3
  <2>2. CASE submitTransaction(t)
    BY <1>2, <2>2 DEF submitTransaction, ledgers, queues
  <2>3. CASE processTransactionCbVoid(t)
    <3>1. PICK full \in BOOLEAN : processTransactionCb(t, router, FALSE, FALSE, full)
      BY <2>3 DEF processTransactionCbVoid
    <3>2. UNCHANGED <<closed, valid, network, round>>
      BY <2>3 DEF processTransactionCbVoid
    <3> QED BY <1>0, <1>1, <3>1, <3>2
  <2> QED BY <1>4, <2>1, <2>2, <2>3 DEF JobRuns
<1>5. CASE beginConsensus
  BY <1>5 DEF beginConsensus, ledgers, queues, ChainsOK, QueuesOK, RoundOK
<1>6. CASE closeLedger
  <2>1. LedgerOK(K, HeldApplied(current))
    BY HeldAppliedOK DEF ChainsOK
  <2>2. current' = HeldApplied(current) /\ position' = current'.txns
    BY <1>6 DEF closeLedger
  <2>3. LedgerOK(K, current')
    BY <2>1, <2>2
  <2>4. position' \subseteq K
    BY <2>2, <2>3, LedgerFields DEF LedgerOK
  <2> QED BY <1>6, <2>3, <2>4 DEF closeLedger, ChainsOK, QueuesOK, RoundOK
<1>7. CASE handleLCL
  <2>1. LedgerOK(K, mPreviousLedger')
    BY <1>7, PreferredOK DEF handleLCL
  <2>2. position' \subseteq K
    BY <1>7, PositionsOK DEF handleLCL
  <2> QED BY <1>7, <2>1, <2>2 DEF handleLCL, ledgers, queues, ChainsOK, QueuesOK, RoundOK
<1>8. CASE acceptBuild
  <2>1. PICK set \in Positions :
          /\ position' = set
          /\ built' = Built(applyTransactions(set, NewLedger(mPreviousLedger),
                                              NewLedger(mPreviousLedger), {}, setup.salted, FALSE),
                            mDisputes \ set)
    BY <1>8 DEF acceptBuild
  <2>2. set \subseteq K
    BY PositionsOK
  <2>3. BuiltOK(K, built')
    BY <2>1, <2>2, BuildOK DEF RoundOK
  <2> QED BY <1>8, <2>1, <2>2, <2>3 DEF acceptBuild, ledgers, queues, ChainsOK, QueuesOK, RoundOK
<1>9. CASE acceptPush
  <2>1. BuiltOK(K, built)
    BY <1>9 DEF acceptPush, RoundOK
  <2>2. LedgerOK(K, current')
    BY <1>9, <2>1, PushOK
  <2>3. closed' = built.lcl /\ LedgerOK(K, closed')
    BY <1>9, <2>1 DEF acceptPush, BuiltOK
  <2> QED BY <1>9, <2>2, <2>3 DEF acceptPush, queues, ChainsOK, QueuesOK, RoundOK
<1>10. CASE switchLastClosedLedger
  <2>1. PICK l \in Preferred(closed) : closed' = l /\ current' = NewLedger(l)
    BY <1>10 DEF switchLastClosedLedger
  <2>2. LedgerOK(K, l) /\ LedgerOK(K, NewLedger(l))
    BY PreferredOK, NewLedgerOK DEF Provides
  <2> QED BY <1>10, <2>1, <2>2 DEF switchLastClosedLedger, queues, round, ChainsOK, QueuesOK, RoundOK
<1>11. ASSUME NEW t \in Txns, addDisputedTransaction(t)
       PROVE  ChainsOK(K)' /\ QueuesOK(K)' /\ RoundOK(K)'
  BY <1>0, <1>11 DEF addDisputedTransaction, ledgers, queues, ChainsOK, QueuesOK, RoundOK
<1>12. CASE networkCloses
  BY <1>12, networkClosesOK DEF networkCloses, queues, round, ChainsOK, QueuesOK, RoundOK
<1>13. CASE setValidLedger
  <2>1. LedgerOK(K, valid') /\ network' = None
    BY <1>13 DEF setValidLedger, ChainsOK
  <2>2. \A e \in m_txns' : e.txn \in K
    BY <1>13 DEF setValidLedger, QueuesOK
  <2> QED BY <1>13, <2>1, <2>2 DEF setValidLedger, round, ChainsOK, QueuesOK, RoundOK
<1> QED BY <1>3, <1>4, <1>5, <1>6, <1>7, <1>8, <1>9, <1>10, <1>11, <1>12, <1>13 DEF Next, Round

\* The scenario is chosen once.
LEMMA SetupStays == [Next]_vars => setup' = setup
BY DEF Next, vars, Arrival, JobRuns, Round, doSubmit, onTransaction, gotNode, checkTransaction,
       submitTransaction, processTransactionCbVoid, beginConsensus, closeLedger, handleLCL,
       acceptBuild, acceptPush, switchLastClosedLedger, addDisputedTransaction,
       networkCloses, setValidLedger

LEMMA LedgerNext == LedgerInv /\ [Next]_vars => LedgerInv'
<1> SUFFICES ASSUME LedgerInv, [Next]_vars PROVE LedgerInv'
  OBVIOUS
<1> DEFINE K == Known(setup)
<1>1. K' = K /\ setup' = setup /\ setup \in Setups
  BY SetupStays DEF LedgerInv
<1>2. Provides(K) /\ ChainsOK(K) /\ QueuesOK(K) /\ RoundOK(K)
  BY KnownProvides DEF LedgerInv
<1> SUFFICES ChainsOK(K)' /\ QueuesOK(K)' /\ RoundOK(K)'
  BY <1>1 DEF LedgerInv
<1>3. CASE Next
  <2> HIDE DEF K
  <2>1. ASSUME NEW J, Provides(J), ChainsOK(J), QueuesOK(J), RoundOK(J)
        PROVE  ChainsOK(J)' /\ QueuesOK(J)' /\ RoundOK(J)'
    BY <1>3, <2>1, ActionsKeepLedgers
  <2> QED BY <1>1, <1>2, <2>1
<1>4. CASE UNCHANGED vars
  BY <1>1, <1>2, <1>4 DEF vars, ledgers, queues, round, ChainsOK, QueuesOK, RoundOK
<1> QED BY <1>3, <1>4

LEMMA LedgerInvariance == Spec => []LedgerInv
BY LedgerInit, LedgerNext, PTL DEF Spec

-----------------------------------------------------------------------------
(* HashRouter::swapSet: whatever the threads that process a transaction    *)
(* and the consensus that disputes it do, in whatever order, it is relayed *)
(* to the peers at most once.                                              *)
THEOREM Relayed == Spec => []RelayedOnce
<1>1. RelayInv => RelayedOnce
  <2> SUFFICES ASSUME RelayInv, NEW t \in Txns PROVE sent[t] <= 1
    BY DEF RelayedOnce
  <2> QED BY DEF RelayInv, RelayOK
<1> QED BY RelayInvariance, <1>1, PTL

(* Transactor::checkSeq: along the chain of the open, the closed and the   *)
(* validated ledger no transaction is applied twice and no two use one     *)
(* sequence number of an account, by whatever way and however often they   *)
(* came in, for any accounts, transactions, orders and number of passes.   *)
THEOREM SequencesUsedOnce == Spec => []OncePerSequence
<1>1. LedgerInv => OncePerSequence
  <2> SUFFICES ASSUME LedgerInv PROVE OncePerSequence
    OBVIOUS
  <2>1. \A l \in Ledgers : LedgerOK(Known(setup), l)
    BY DEF LedgerInv, ChainsOK, Ledgers
  <2> QED BY <2>1 DEF LedgerOK, Once, OncePerSequence
<1> QED BY LedgerInvariance, <1>1, PTL

(* Transactor::payFee, Payment::doApply and the reprocessing of            *)
(* TransactionEngine::applyTransaction: no account is overdrawn, no coin   *)
(* is made, and what is missing is no more than the fees of transactions   *)
(* that claimed their fee, in every ledger the server works on.            *)
THEOREM CoinsKept == Spec => []CoinsAccounted
<1>1. LedgerInv => CoinsAccounted
  <2> SUFFICES ASSUME LedgerInv, NEW l \in Ledgers
               PROVE  /\ \A a \in Account : l.acct[a].bal >= 0
                      /\ Coins(l.acct) <= Coins(Genesis)
                      /\ Coins(l.acct) + Fees(l.claimed) >= Coins(Genesis)
    BY DEF CoinsAccounted
  <2> DEFINE K == Known(setup)
  <2>1. LedgerOK(K, l)
    BY DEF LedgerInv, ChainsOK, Ledgers
  <2> HIDE DEF K
  <2>2. l.acct \in [Account -> Root] /\ Accounted(l)
    BY <2>1, LedgerFields DEF LedgerOK
  <2>3. \A a \in Account : l.acct[a].bal \in Nat
    BY <2>2, RootFields
  <2>4. \A a \in Account : l.acct[a].bal >= 0
    BY <2>3
  <2> QED BY <2>2, <2>4 DEF Accounted
<1> QED BY LedgerInvariance, <1>1, PTL

-----------------------------------------------------------------------------
(* What the server holds.  A LocalTx that is no longer held is settled by  *)
(* the validated ledger, whose successors only go on; and while accept has *)
(* a ledger built and not yet pushed, what we voted against is left over   *)
(* or cannot be applied.                                                   *)
Later(l, m) == l.seq <= m.seq /\ \A a \in Account : l.acct[a].seq <= m.acct[a].seq

Settles(l, e) == l.seq > e.expire \/ l.acct[e.txn.src].seq > e.txn.seq

SubmittedOK(K) ==
    /\ network = None \/ Later(valid, network)
    /\ \A e \in submitted : e.txn \in K /\ e.expire \in Nat /\ (e \in m_txns \/ Settles(valid, e))

Pending(m, left, t) ==
    /\ Hopeless(m, t, TRUE) \/ t \in left
    /\ Hopeless(m, t, TRUE) \/ Waiting(m, t)

OpenedOK(b, no) ==
    /\ b.ol.prior = b.lcl.prior \cup b.lcl.txns
    /\ \A t \in no : Pending(b.ol, b.left, t)

FateInv ==
    /\ SubmittedOK(Known(setup))
    /\ state = "accept" => OpenedOK(built, mDisputes \ position)

LEMMA FateInit == Init => FateInv
BY DEF Init, FateInv, SubmittedOK

LEMMA FollowsLater ==
    ASSUME NEW K, Finitely(K), NEW l, LedgerOK(K, l), NEW m, Follows(NewLedger(l), m)
    PROVE  Later(l, m) /\ m.prior = l.prior \cup l.txns
<1>1. l.seq \in Nat
  BY LedgerFields DEF LedgerOK
<1> QED BY <1>1 DEF NewLedger, Follows, Later

LEMMA OpenedFields ==
    ASSUME NEW x, NEW y, NEW b, b = Opened(x, y)
    PROVE  b.lcl = x /\ b.ol = y.ledger /\ b.left = y.left
BY DEF Opened

Agreed(set, l) == applyTransactions(set, NewLedger(l), NewLedger(l), {}, setup.salted, FALSE)

BuiltFate(K, l, set, no, b) ==
    /\ OpenedOK(b, no)
    /\ LedgerOK(K, b.lcl) /\ b.lcl.txns \subseteq set /\ b.lcl.prior = l.prior \cup l.txns
    /\ Tried(b.lcl, set, FALSE, b.lcl) /\ Completed(b.lcl, set, FALSE, b.lcl)

LEMMA BuildFate ==
    ASSUME NEW K, Provides(K), RoundOK(K), NEW set, set \subseteq K, NEW l, LedgerOK(K, l),
           NEW lcl, lcl = Agreed(set, l)
    PROVE  BuiltFate(K, l, set, mDisputes \ set, Built(lcl, mDisputes \ set))
<1> DEFINE n == NewLedger(l)
           no == mDisputes \ set
           m == NewLedger(lcl.ledger)
           more == lcl.left \cup no
           ol == applyTransactions({}, m, lcl.ledger, more, setup.salted, TRUE)
           b == Built(lcl, no)
<1>0. /\ Finitely(K) /\ Payers(K) /\ setup.salted \in [Account -> Nat]
      /\ {} \subseteq K /\ TRUE \in BOOLEAN /\ FALSE \in BOOLEAN
  BY DEF Provides
<1>1. LedgerOK(K, n) /\ n.txns = {}
  BY <1>0, NewLedgerOK
<1>2. TryFacts(K, n, {} \cup (set \ n.txns), FALSE, lcl)
      /\ Tried(n, {} \cup (set \ n.txns), FALSE, lcl.ledger)
      /\ Completed(n, {} \cup (set \ n.txns), FALSE, lcl.ledger)
  <2> DEFINE q == applyTransactions(set, n, n, {}, setup.salted, FALSE)
  <2>1. q = lcl
    BY DEF Agreed
  <2>2. TryFacts(K, n, {} \cup (set \ n.txns), FALSE, q)
        /\ Tried(n, {} \cup (set \ n.txns), FALSE, q.ledger)
    <3> HIDE DEF n
    <3> QED BY <1>0, <1>1, applyTransactionsTells
  <2>3. Completed(n, {} \cup (set \ n.txns), FALSE, q.ledger)
    <3> HIDE DEF n
    <3> QED BY <1>0, <1>1, applyTransactionsCompletes
  <2> HIDE DEF q, n
  <2> QED BY <2>1, <2>2, <2>3
<1>3. LedgerOK(K, lcl.ledger) /\ lcl.left \subseteq K
  <2> DEFINE q == applyTransactions(set, n, n, {}, setup.salted, FALSE)
  <2>1. q = lcl
    BY DEF Agreed
  <2>2. LedgerOK(K, q.ledger) /\ q.left \subseteq K
    <3> HIDE DEF n
    <3> QED BY <1>0, <1>1, applyTransactionsOK
  <2> HIDE DEF q
  <2> QED BY <2>1, <2>2
<1>4. {} \cup (set \ n.txns) = set
  BY <1>1
<1>5. Follows(n, lcl.ledger) /\ lcl.ledger.txns \subseteq set /\ Tried(n, set, FALSE, lcl.ledger)
      /\ Completed(n, set, FALSE, lcl.ledger)
  BY <1>1, <1>2, <1>4 DEF TryFacts
<1>6. lcl.ledger.prior = l.prior \cup l.txns /\ lcl.ledger.close = n.close
  <2>1. lcl.ledger.prior = l.prior \cup l.txns
    BY <1>0, <1>5, FollowsLater
  <2> HIDE DEF n
  <2> QED BY <1>5, <2>1 DEF Follows
<1> HIDE DEF n
<1>7. Tried(lcl.ledger, set, FALSE, lcl.ledger) /\ Completed(lcl.ledger, set, FALSE, lcl.ledger)
  BY <1>5, <1>6 DEF Tried, Completed, PutOff
<1>8. LedgerOK(K, m) /\ more \subseteq K
  BY <1>0, <1>3, NewLedgerOK DEF RoundOK
<1>9. m.prior = lcl.ledger.prior \cup lcl.ledger.txns
  BY DEF NewLedger
<1> HIDE DEF m, more
<1>10. TryFacts(K, m, more \cup ({} \ lcl.ledger.txns), TRUE, ol)
       /\ Tried(m, more \cup ({} \ lcl.ledger.txns), TRUE, ol.ledger)
  BY <1>0, <1>8, applyTransactionsTells
<1> HIDE DEF ol
<1>11. more \cup ({} \ lcl.ledger.txns) = more
  OBVIOUS
<1>12. TryFacts(K, m, more, TRUE, ol) /\ Tried(m, more, TRUE, ol.ledger)
  BY <1>10, <1>11
<1>20. b = Opened(lcl.ledger, IF no = {} THEN [ledger |-> m, left |-> lcl.left] ELSE ol)
  BY DEF Built, m, ol, more
<1> HIDE DEF no, b
<1>14. b.lcl = lcl.ledger
  BY <1>20, OpenedFields
<1>15. OpenedOK(b, no)
  <2>1. CASE no = {}
    <3>1. b.ol = m
      <4>1. b = Opened(lcl.ledger, [ledger |-> m, left |-> lcl.left])
        BY <1>20, <2>1
      <4> QED BY <4>1, OpenedFields
    <3> QED BY <1>9, <1>14, <2>1, <3>1 DEF OpenedOK
  <2>2. CASE no # {}
    <3>1. b.ol = ol.ledger /\ b.left = ol.left
      <4>1. b = Opened(lcl.ledger, ol)
        BY <1>20, <2>2
      <4> QED BY <4>1, OpenedFields
    <3>2. ol.ledger.prior = m.prior
      BY <1>12 DEF TryFacts, Follows
    <3>3. ASSUME NEW t \in no PROVE Pending(ol.ledger, ol.left, t)
      <4>1. t \in more
        BY DEF more
      <4>2. Hopeless(ol.ledger, t, TRUE) \/ t \in ol.left
        BY <1>12, <4>1 DEF TryFacts
      <4>3. Hopeless(ol.ledger, t, TRUE) \/ Waiting(ol.ledger, t)
        BY <1>12, <4>1 DEF Tried, PutOff
      <4> QED BY <4>2, <4>3 DEF Pending
    <3> QED BY <1>9, <1>14, <3>1, <3>2, <3>3 DEF OpenedOK
  <2> QED BY <2>1, <2>2
<1> QED BY <1>3, <1>5, <1>6, <1>7, <1>14, <1>15 DEF BuiltFate, no, b

\* A transaction that is processed is held for as long as it has to.
LEMMA processFate ==
    ASSUME NEW K, Provides(K), ChainsOK(K), SubmittedOK(K), NEW t \in K, NEW r,
           NEW bLocal, NEW bFailHard, NEW full, processTransactionCb(t, r, bLocal, bFailHard, full),
           UNCHANGED <<valid, network>>
    PROVE  SubmittedOK(K)'
<1>1. CASE "BAD" \in r[t] \/ ~t.good
  <2>1. m_txns' = m_txns /\ submitted' = submitted
    BY <1>1 DEF processTransactionCb, queues
  <2> QED BY <2>1 DEF SubmittedOK, Settles, Later
<1>2. CASE ~("BAD" \in r[t] \/ ~t.good)
  <2> DEFINE a == applyTransaction(current, t, TRUE, FALSE)
             e == LocalTx(t)
  <2>1. doTransaction(t, r, a, bLocal, bFailHard, full)
    BY <1>2 DEF processTransactionCb
  <2> HIDE DEF a
  <2>2. \/ submitted' = submitted /\ m_txns' = m_txns
        \/ submitted' = submitted \cup {e} /\ m_txns' = m_txns \cup {e}
    BY <2>1 DEF doTransaction
  <2>3. e.txn = t /\ e.expire \in Nat
    <3>1. holdLedgers \in Nat
      BY SetupsAssumption
    <3>2. current.seq \in Nat /\ t.last \in Nat
      BY LedgerFields, Fields DEF ChainsOK, LedgerOK, Provides, Finitely, TransactionFields
    <3>3. Min({current.seq + holdLedgers, t.last + 1}) \in Nat
      BY <3>1, <3>2, MinOfTwo
    <3> QED BY <3>1, <3>2, <3>3 DEF LocalTx
  <2> HIDE DEF e
  <2>4. \A f \in submitted' : f.txn \in K /\ f.expire \in Nat /\ (f \in m_txns' \/ Settles(valid, f))
    BY <2>2, <2>3 DEF SubmittedOK
  <2> QED BY <2>4 DEF SubmittedOK, Settles, Later
<1> QED BY <1>1, <1>2

\* The network's next ledger goes on from the validated one.
LEMMA networkLater ==
    ASSUME NEW K, Provides(K), ChainsOK(K), RoundOK(K), networkCloses
    PROVE  Later(valid, network')
<1> DEFINE n == NewLedger(valid)
<1>1. PICK set \in {{}, position} \cup setup.sets :
        network' = applyTransactions(set, n, n, {}, setup.salted, FALSE).ledger
  BY DEF networkCloses
<1>2. set \subseteq K /\ {} \subseteq K
  BY DEF Provides, RoundOK
<1>3. Finitely(K) /\ setup.salted \in [Account -> Nat] /\ FALSE \in BOOLEAN
  BY DEF Provides
<1>4. LedgerOK(K, n) /\ LedgerOK(K, valid)
  BY <1>3, NewLedgerOK DEF ChainsOK
<1>5. Follows(n, network')
  <2> DEFINE q == applyTransactions(set, n, n, {}, setup.salted, FALSE)
  <2>1. TryFacts(K, n, {} \cup (set \ n.txns), FALSE, q)
    <3> HIDE DEF n
    <3> QED BY <1>2, <1>3, <1>4, applyTransactionsTells
  <2>2. network' = q.ledger
    BY <1>1
  <2> HIDE DEF q, n
  <2> QED BY <2>1, <2>2 DEF TryFacts
<1> QED BY <1>3, <1>4, <1>5, FollowsLater

\* LocalTxs::sweep only removes what the new validated ledger settles.
LEMMA sweepFate ==
    ASSUME NEW K, Provides(K), ChainsOK(K), SubmittedOK(K), setValidLedger
    PROVE  SubmittedOK(K)'
<1>1. valid' = network /\ network' = None /\ submitted' = submitted
      /\ m_txns' = {e \in m_txns : ~can_remove(e, network)}
  BY DEF setValidLedger
<1>2. Later(valid, network) /\ LedgerOK(K, network) /\ LedgerOK(K, valid)
  BY DEF setValidLedger, SubmittedOK, ChainsOK
<1>3. valid.seq \in Nat /\ network.seq \in Nat
  BY <1>2, LedgerFields DEF LedgerOK
<1>4. ASSUME NEW e \in submitted PROVE e \in m_txns' \/ Settles(network, e)
  <2>1. e.txn \in K /\ e.expire \in Nat /\ (e \in m_txns \/ Settles(valid, e))
    BY DEF SubmittedOK
  <2>2. Numbers(valid, e.txn) /\ Numbers(network, e.txn)
    BY <1>2, <2>1, NumbersOf DEF Provides
  <2>3. CASE Settles(valid, e)
    BY <1>2, <1>3, <2>1, <2>2, <2>3 DEF Settles, Later, Numbers, TransactionFields
  <2>4. CASE e \in m_txns /\ can_remove(e, network)
    <3>1. e.txn \in network.txns => network.acct[e.txn.src].seq > e.txn.seq
      BY <1>2, <2>2 DEF LedgerOK, Once, Numbers, TransactionFields
    <3> QED BY <2>4, <3>1 DEF can_remove, Settles
  <2>5. CASE e \in m_txns /\ ~can_remove(e, network)
    BY <1>1, <2>5
  <2> QED BY <2>1, <2>3, <2>4, <2>5
<1> QED BY <1>1, <1>4 DEF SubmittedOK

\* Only accept makes a ledger that is not yet pushed.
LEMMA OpenedOnce ==
    ASSUME Next, state' = "accept"
    PROVE  acceptBuild \/ (state = "accept" /\ UNCHANGED <<built, mDisputes, position>>)
BY DEF Next, Arrival, JobRuns, Round, doSubmit, onTransaction, gotNode, checkTransaction,
       submitTransaction, processTransactionCbVoid, beginConsensus, closeLedger, handleLCL,
       acceptPush, switchLastClosedLedger, addDisputedTransaction, networkCloses,
       setValidLedger, round

LEMMA ActionsKeepFate ==
    ASSUME NEW K, Provides(K), ChainsOK(K), RoundOK(K), SubmittedOK(K), Next
    PROVE  SubmittedOK(K)'
<1>0. Txns \subseteq K
  BY DEF Provides
<1>1. ASSUME UNCHANGED <<valid, network, m_txns, submitted>> PROVE SubmittedOK(K)'
  BY <1>1 DEF SubmittedOK, Settles, Later
<1>2. ASSUME NEW t \in Txns, Arrival(t) PROVE SubmittedOK(K)'
  <2>1. CASE doSubmit(t)
    <3>1. PICK full \in BOOLEAN :
             IF t.good THEN processTransactionCb(t, router, TRUE, t \in setup.failHard, full)
                       ELSE UNCHANGED <<current, queues, routing>>
      BY <2>1 DEF doSubmit
    <3>2. UNCHANGED <<valid, network>>
      BY <2>1 DEF doSubmit
    <3>3. CASE t.good
      BY <1>0, <3>1, <3>2, <3>3, processFate
    <3>4. CASE ~t.good
      BY <1>1, <3>1, <3>2, <3>4 DEF queues
    <3> QED BY <3>3, <3>4
  <2>2. CASE onTransaction(t) \/ gotNode(t)
    BY <1>1, <2>2 DEF onTransaction, gotNode, ledgers, queues
  <2> QED BY <1>2, <2>1, <2>2 DEF Arrival
<1>3. ASSUME NEW t \in Txns, JobRuns(t) PROVE SubmittedOK(K)'
  <2>1. CASE checkTransaction(t)
    <3>1. UNCHANGED <<valid, network>>
      BY <2>1 DEF checkTransaction
    <3>2. CASE (t.last > 0 /\ t.last < valid.seq) \/ ~t.good
      BY <1>1, <2>1, <3>1, <3>2 DEF checkTransaction, queues
    <3>3. CASE ~((t.last > 0 /\ t.last < valid.seq) \/ ~t.good)
      <4>1. PICK full \in BOOLEAN :
              processTransactionCb(t, Flagged(router, t, {"SIGGOOD"}), FALSE, FALSE, full)
        BY <2>1, <3>3 DEF checkTransaction
      <4> QED BY <1>0, <3>1, <4>1, processFate
    <3> QED BY <3>2, <3>3
  <2>2. CASE submitTransaction(t)
    BY <1>1, <2>2 DEF submitTransaction, ledgers, queues
  <2>3. CASE processTransactionCbVoid(t)
    <3>1. PICK full \in BOOLEAN : processTransactionCb(t, router, FALSE, FALSE, full)
      BY <2>3 DEF processTransactionCbVoid
    <3>2. UNCHANGED <<valid, network>>
      BY <2>3 DEF processTransactionCbVoid
    <3> QED BY <1>0, <3>1, <3>2, processFate
  <2> QED BY <1>3, <2>1, <2>2, <2>3 DEF JobRuns
<1>4. CASE Round
  BY <1>1, <1>4 DEF Round, beginConsensus, closeLedger, handleLCL, acceptBuild, acceptPush,
                    switchLastClosedLedger, addDisputedTransaction, ledgers, queues
<1>5. CASE networkCloses
  <2>1. Later(valid, network')
    BY <1>5, networkLater
  <2>2. UNCHANGED <<valid, m_txns, submitted>>
    BY <1>5 DEF networkCloses, queues
  <2> QED BY <2>1, <2>2 DEF SubmittedOK, Settles, Later
<1>6. CASE setValidLedger
  BY <1>6, sweepFate
<1> QED BY <1>2, <1>3, <1>4, <1>5, <1>6 DEF Next

LEMMA acceptBuildFate ==
    ASSUME NEW K, Provides(K), RoundOK(K), acceptBuild
    PROVE  /\ BuiltFate(K, mPreviousLedger, position', mDisputes \ position', built')
           /\ position' \subseteq K /\ mDisputes' = mDisputes
<1>1. PICK set \in Positions :
        /\ position' = set
        /\ built' = Built(Agreed(set, mPreviousLedger), mDisputes \ set)
  BY DEF acceptBuild, Agreed
<1>2. set \subseteq K /\ LedgerOK(K, mPreviousLedger)
  BY PositionsOK DEF RoundOK
<1>3. BuiltFate(K, mPreviousLedger, set, mDisputes \ set,
                Built(Agreed(set, mPreviousLedger), mDisputes \ set))
  BY <1>2, BuildFate
<1>4. mDisputes' = mDisputes
  BY DEF acceptBuild
<1> QED BY <1>1, <1>2, <1>3, <1>4, Zenon

LEMMA FateNext == LedgerInv /\ FateInv /\ [Next]_vars => FateInv'
<1> SUFFICES ASSUME LedgerInv, FateInv, [Next]_vars PROVE FateInv'
  OBVIOUS
<1> DEFINE K == Known(setup)
<1>1. K' = K /\ setup' = setup
  BY SetupStays
<1>2. Provides(K) /\ ChainsOK(K) /\ RoundOK(K) /\ SubmittedOK(K)
  BY KnownProvides DEF LedgerInv, FateInv
<1> SUFFICES SubmittedOK(K)' /\ (state' = "accept" => OpenedOK(built', mDisputes' \ position'))
  BY <1>1 DEF FateInv
<1>3. CASE Next
  <2> HIDE DEF K
  <2>1. ASSUME NEW J, Provides(J), ChainsOK(J), RoundOK(J), SubmittedOK(J)
        PROVE  SubmittedOK(J)'
    BY <1>3, <2>1, ActionsKeepFate
  <2>2. SubmittedOK(K)'
    BY <1>1, <1>2, <2>1
  <2>3. ASSUME state' = "accept" PROVE OpenedOK(built', mDisputes' \ position')
    <3>1. CASE acceptBuild
      BY <1>2, <3>1, acceptBuildFate DEF BuiltFate
    <3>2. CASE state = "accept" /\ UNCHANGED <<built, mDisputes, position>>
      BY <3>2 DEF FateInv
    <3> QED BY <1>3, <2>3, <3>1, <3>2, OpenedOnce
  <2> QED BY <2>2, <2>3
<1>4. CASE UNCHANGED vars
  <2>1. UNCHANGED <<valid, network, submitted, m_txns, state, built, mDisputes, position>>
    BY <1>4 DEF vars, ledgers, queues, round
  <2> HIDE DEF K
  <2>2. SubmittedOK(K)'
    BY <1>1, <1>2, <2>1 DEF SubmittedOK, Settles, Later
  <2> QED BY <2>1, <2>2 DEF FateInv
<1> QED BY <1>3, <1>4

LEMMA FateInvariance == Spec => []FateInv
BY FateInit, FateNext, LedgerInvariance, PTL DEF Spec

-----------------------------------------------------------------------------
(* LedgerConsensus accept and applyTransactions, for any set, any order of *)
(* the accounts and any number of passes: the next ledger is built from    *)
(* the agreed set alone, and what it leaves out of it is put off by its    *)
(* timestamp or cannot be applied to it, but for transactions whose source *)
(* that ledger credits: payments, and any in a set that is not smaller     *)
(* than the number of passes.                                              *)
THEOREM AgreedIsBuilt == Spec => AgreedApplied
<1> DEFINE P == acceptBuild =>
          /\ built'.lcl.txns \subseteq position'
          /\ built'.lcl.prior = mPreviousLedger.prior \cup mPreviousLedger.txns
          /\ \A t \in position' :
                 \/ t.ts >= built'.lcl.close - 1
                 \/ ~applyTransaction(built'.lcl, t, FALSE, FALSE).did
                 \/ /\ ~Independent(t, built'.lcl.txns)
                    /\ \/ Credited(t, position')
                       \/ Cardinality(position') >= TOTAL_PASSES
<1>1. ASSUME LedgerInv PROVE P
  <2> SUFFICES ASSUME acceptBuild PROVE P
    OBVIOUS
  <2> DEFINE K == Known(setup)
             l == built'.lcl
             set == position'
  <2>1. Provides(K) /\ RoundOK(K) /\ Finitely(K) /\ FALSE \in BOOLEAN
    BY <1>1, KnownProvides DEF LedgerInv, Provides
  <2> HIDE DEF K
  <2>2. BuiltFate(K, mPreviousLedger, set, mDisputes \ set, built') /\ set \subseteq K
    BY <2>1, acceptBuildFate
  <2>3. /\ LedgerOK(K, l) /\ l.txns \subseteq set
        /\ l.prior = mPreviousLedger.prior \cup mPreviousLedger.txns
        /\ Tried(l, set, FALSE, l) /\ Completed(l, set, FALSE, l)
    BY <2>2 DEF BuiltFate
  <2> HIDE DEF l, set
  <2>4. ASSUME NEW t \in set, Independent(t, l.txns), ~(t.ts >= l.close - 1)
        PROVE  ~applyTransaction(l, t, FALSE, FALSE).did
    <3>1. t \in K /\ (Hopeless(l, t, FALSE) \/ Waiting(l, t))
      BY <2>2, <2>3, <2>4 DEF Tried, PutOff
    <3> QED BY <2>1, <2>3, <2>4, <3>1, NotApplied
  <2>5. ASSUME NEW t \in set, ~Credited(t, set), ~(Cardinality(set) >= TOTAL_PASSES),
               ~(t.ts >= l.close - 1)
        PROVE  ~applyTransaction(l, t, FALSE, FALSE).did
    <3>1. Cardinality(set) \in Nat /\ TOTAL_PASSES \in Nat
      BY <2>1, <2>2, FS_Subset, FS_CardinalityType, EngineAssumption DEF Finitely
    <3>2. Cardinality(set) < TOTAL_PASSES
      BY <2>5, <3>1
    <3> QED BY <2>3, <2>5, <3>2 DEF Completed, PutOff
  <2>6. \A t \in set : \/ t.ts >= l.close - 1
                       \/ ~applyTransaction(l, t, FALSE, FALSE).did
                       \/ /\ ~Independent(t, l.txns)
                          /\ Credited(t, set) \/ Cardinality(set) >= TOTAL_PASSES
    BY <2>4, <2>5
  <2> QED BY <2>3, <2>6 DEF l, set
<1>2. LedgerInv => [P]_vars
  BY <1>1
<1> HIDE DEF P
<1>3. Spec => [][P]_vars
  BY <1>2, LedgerInvariance, PTL
<1> QED BY <1>3 DEF AgreedApplied, P

-----------------------------------------------------------------------------
\* The open ledger before LocalTxs::apply, and what it says of the transactions ts.
Reopened ==
    IF current.txns = {} THEN built.ol
    ELSE applyTransactions(current.txns, built.ol, built.lcl, built.left, setup.salted, TRUE).ledger

Decided(m, ts) == \A t \in ts : Hopeless(m, t, TRUE) \/ Waiting(m, t)

\* Of what the old open ledger has and of what we voted against nothing is forgotten.
LEMMA ReopenedDecides ==
    ASSUME NEW K, Provides(K), ChainsOK(K), BuiltOK(K, built), NEW no, no \subseteq K,
           OpenedOK(built, no)
    PROVE  LedgerOK(K, Reopened) /\ Decided(Reopened, current.txns \cup no)
<1> DEFINE ol == built.ol
           ts == current.txns
           S == built.left \cup (ts \ built.lcl.txns)
           q == applyTransactions(ts, ol, built.lcl, built.left, setup.salted, TRUE)
<1>0. /\ Finitely(K) /\ setup.salted \in [Account -> Nat] /\ TRUE \in BOOLEAN
      /\ ts \subseteq K /\ LedgerOK(K, ol) /\ built.left \subseteq K
  BY LedgerFields DEF Provides, ChainsOK, LedgerOK, BuiltOK
<1>1. CASE ts = {}
  <2>1. Reopened = ol
    BY <1>1 DEF Reopened
  <2>2. Decided(ol, ts \cup no)
    BY <1>1 DEF OpenedOK, Pending, Decided
  <2> QED BY <1>0, <2>1, <2>2
<1>2. CASE ts # {}
  <2>1. Reopened = q.ledger
    BY <1>2 DEF Reopened
  <2>2. TryFacts(K, ol, S, TRUE, q) /\ Tried(ol, S, TRUE, q.ledger)
    <3> HIDE DEF ol, ts
    <3> QED BY <1>0, applyTransactionsTells DEF S
  <2>3. LedgerOK(K, q.ledger)
    <3> HIDE DEF ol, ts
    <3> QED BY <1>0, applyTransactionsOK
  <2>4. ol.prior = built.lcl.prior \cup built.lcl.txns
    BY DEF OpenedOK
  <2> HIDE DEF q
  <2>5. ASSUME NEW t \in S PROVE Hopeless(q.ledger, t, TRUE) \/ Waiting(q.ledger, t)
    BY <2>2 DEF Tried, PutOff
  <2>6. ASSUME NEW t \in ts, t \in built.lcl.txns PROVE Hopeless(q.ledger, t, TRUE)
    <3>1. t \in q.ledger.prior
      BY <2>2, <2>4, <2>6 DEF TryFacts, Follows
    <3>2. t.seq < q.ledger.acct[t.src].seq
      BY <2>3, <3>1 DEF LedgerOK, Once
    <3>3. Numbers(q.ledger, t)
      BY <1>0, <2>3, NumbersOf
    <3> QED BY <3>2, <3>3 DEF Hopeless, Numbers, TransactionFields
  <2>7. ASSUME NEW t \in no PROVE Hopeless(q.ledger, t, TRUE) \/ Waiting(q.ledger, t)
    <3>1. Hopeless(ol, t, TRUE) \/ t \in built.left
      BY DEF OpenedOK, Pending
    <3>2. t \in K
      OBVIOUS
    <3>3. Hopeless(ol, t, TRUE) => Hopeless(q.ledger, t, TRUE)
      BY <2>2, <3>2 DEF TryFacts
    <3> QED BY <2>5, <3>1, <3>3
  <2>8. Decided(q.ledger, ts \cup no)
    BY <2>5, <2>6, <2>7 DEF Decided
  <2> QED BY <2>1, <2>3, <2>8
<1> QED BY <1>1, <1>2

\* What LocalTxs::apply leaves out of the new open ledger.
LEMMA PushLoses ==
    ASSUME NEW K, Provides(K), ChainsOK(K), QueuesOK(K), RoundOK(K), SubmittedOK(K), acceptPush,
           OpenedOK(built, mDisputes \ position),
           NEW t \in current.txns \cup (mDisputes \ position) \cup Unsettled,
           Independent(t, current'.txns), ~Overtaken(t, current'.txns)
    PROVE  ~applyTransaction(current', t, TRUE, FALSE).did
<1> DEFINE ts == {e.txn : e \in m_txns}
           no == mDisputes \ position
           l == Reopened
           m == current'
<1>0. /\ Finitely(K) /\ setup.unsalted \in [Account -> Nat] /\ ts \subseteq K /\ no \subseteq K
      /\ TRUE \in BOOLEAN /\ FALSE \in BOOLEAN
  BY DEF Provides, QueuesOK, RoundOK
<1>1. BuiltOK(K, built) /\ LedgerOK(K, m)
  BY PushOK DEF acceptPush, RoundOK
<1>2. LedgerOK(K, l) /\ Decided(l, current.txns \cup no)
  BY <1>0, <1>1, ReopenedDecides
<1>3. m = Applied(l, ts, Canonical(setup.unsalted, ts))
  BY DEF acceptPush, LocalApplied, Reopened
<1>4. ~Overtaken(t, m.txns) /\ Independent(t, m.txns)
  OBVIOUS
<1> HIDE DEF l, m
<1>5. ApplyFacts(K, l, ts, m)
  <2> HIDE DEF ts
  <2> QED BY <1>0, <1>2, <1>3, AppliedTells
<1>6. t \in Unsettled => t \in ts
  <2> SUFFICES ASSUME NEW e \in submitted, valid.seq <= e.expire,
                      valid.acct[e.txn.src].seq <= e.txn.seq
               PROVE  e \in m_txns
    BY DEF Unsettled
  <2>1. e.txn \in K /\ e.expire \in Nat /\ (e \in m_txns \/ Settles(valid, e))
    BY DEF SubmittedOK
  <2>2. Numbers(valid, e.txn)
    BY <1>0, <2>1, NumbersOf DEF ChainsOK
  <2> QED BY <2>1, <2>2 DEF Settles, Numbers, TransactionFields
<1>7. t \in K
  BY <1>0, <1>6, LedgerFields DEF ChainsOK, LedgerOK
<1>8. Hopeless(m, t, TRUE) \/ Waiting(m, t)
  <2>1. CASE t \in ts
    BY <1>5, <2>1 DEF ApplyFacts
  <2>2. CASE t \notin ts
    <3>1. Hopeless(l, t, TRUE) \/ Waiting(l, t)
      BY <1>2, <1>6, <2>2 DEF Decided
    <3>2. ~\E u \in ts : u.src = t.src /\ u.seq < t.seq /\ u \in m.txns
      BY <1>4, <2>2 DEF Overtaken
    <3> QED BY <1>5, <1>7, <3>1, <3>2 DEF ApplyFacts
  <2> QED BY <2>1, <2>2
<1>9. ~applyTransaction(m, t, TRUE, FALSE).did
  BY <1>0, <1>1, <1>4, <1>7, <1>8, NotApplied
<1> QED BY <1>9 DEF m

(* LedgerConsensus accept under the locks, LocalTxs and the sweep of       *)
(* setValidLedger together: whatever fell between the building of the next *)
(* ledger and its push, and however many rounds, jumps and validations     *)
(* ago a client submitted a transaction, the new open ledger leaves out    *)
(* nothing that is still held and could be applied to it, but for the      *)
(* transactions whose source that ledger credits or which a local one      *)
(* makes way for.                                                          *)
THEOREM PushLosesNothing == Spec => NothingLost
<1> DEFINE P == acceptPush =>
                  \A t \in current.txns \cup (mDisputes \ position) \cup Unsettled :
                      Independent(t, current'.txns) /\ ~Overtaken(t, current'.txns)
                          => ~applyTransaction(current', t, TRUE, FALSE).did
<1>1. ASSUME LedgerInv, FateInv PROVE P
  <2> DEFINE K == Known(setup)
  <2>1. Provides(K) /\ ChainsOK(K) /\ QueuesOK(K) /\ RoundOK(K) /\ SubmittedOK(K)
    BY <1>1, KnownProvides DEF LedgerInv, FateInv
  <2>2. acceptPush => OpenedOK(built, mDisputes \ position)
    BY <1>1 DEF FateInv, acceptPush
  <2> HIDE DEF K
  <2> QED BY <2>1, <2>2, PushLoses
<1>2. LedgerInv /\ FateInv => [P]_vars
  BY <1>1
<1> HIDE DEF P
<1>3. Spec => [][P]_vars
  BY <1>2, LedgerInvariance, FateInvariance, PTL
<1> QED BY <1>3 DEF NothingLost, P

=============================================================================
