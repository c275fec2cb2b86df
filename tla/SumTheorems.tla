------------------------------ MODULE SumTheorems ------------------------------
(***************************************************************************)
(* What the proofs need of sums over a finite set.  MapThenSumSet is       *)
(* defined by a function that recurs on subsets; that such a function      *)
(* exists, and what it returns, is shown by induction on their size.  Two  *)
(* lemmas of arithmetic, on products and minima, go with them.             *)
(***************************************************************************)
EXTENDS Integers, FiniteSetsExt, FiniteSetTheorems, NaturalsInduction, WellFoundedInduction, TLAPS

(* The sum of f over S.                                                    *)
Sum(f, S) == MapThenSumSet(LAMBDA x : f[x], S)

-----------------------------------------------------------------------------
(* A set of naturals that is not empty has a least element.                *)
LEMMA LeastNat ==
    ASSUME NEW T \in SUBSET Nat, T # {}
    PROVE  \E m \in T : \A y \in T : m <= y
<1> DEFINE R == {ss \in Nat \X Nat : ss[1] < ss[2]}
<1>1. IsWellFoundedOn(R, Nat)
  BY NatLessThanWellFounded DEF OpToRel
<1>2. PICK m \in T : \A y \in T : ~(<<y, m>> \in R)
  BY <1>1, WFMin
<1>3. ASSUME NEW y \in T PROVE m <= y
  <2>1. y \in Nat /\ m \in Nat
    OBVIOUS
  <2>2. <<y, m>> \notin R
    BY <1>2
  <2>3. ~(y < m)
    BY <2>1, <2>2
  <2> QED
    BY <2>1, <2>3
<1> QED
  BY <1>3

(* A set that holds zero and successors holds every natural.               *)
LEMMA SetInduction ==
    ASSUME NEW S, 0 \in S, \A n \in Nat : n \in S => n + 1 \in S
    PROVE  Nat \subseteq S
<1> SUFFICES ASSUME NEW x \in Nat, x \notin S PROVE FALSE
  OBVIOUS
<1> DEFINE T == {n \in Nat : n \notin S}
<1>1. PICK m \in T : \A y \in T : m <= y
  BY LeastNat
<1>2. m # 0 /\ m \in Nat
  BY <1>1
<1>3. m - 1 \in Nat /\ m - 1 < m /\ (m - 1) + 1 = m
  BY <1>2
<1>4. m - 1 \in S
  BY <1>1, <1>3
<1> QED
  BY <1>1, <1>3, <1>4

(* The sign of a product.                                                  *)
LEMMA ProductSigns ==
    ASSUME NEW m \in Int, NEW n \in Int
    PROVE  /\ m * n \in Int
           /\ (m > 0 /\ n > 0) \/ (m < 0 /\ n < 0) => m * n > 0
           /\ (m > 0 /\ n < 0) \/ (m < 0 /\ n > 0) => m * n < 0
           /\ m = 0 \/ n = 0 => m * n = 0
  OBVIOUS

(* Of two numbers the smaller one.                                         *)
LEMMA MinOfTwo ==
    ASSUME NEW m \in Int, NEW n \in Int
    PROVE  Min({m, n}) = IF m <= n THEN m ELSE n
<1> DEFINE T == {m, n}
           x == IF m <= n THEN m ELSE n
<1>1. x \in T /\ \A y \in T : x <= y
  OBVIOUS
<1>2. \A z \in T : (\A y \in T : z <= y) => z = x
  OBVIOUS
<1> HIDE DEF T, x
<1>3. Min(T) = x
  BY <1>1, <1>2 DEF Min
<1> QED
  BY <1>3 DEF T, x

-----------------------------------------------------------------------------
Pick(s) == CHOOSE x \in s : TRUE

(* The recursion of MapThenSumSet, for a function on a part of the         *)
(* subsets.                                                                *)
Recurs(g, f, P) == g = [s \in P |-> IF s = {} THEN 0 ELSE f[Pick(s)] + g[s \ {Pick(s)}]]

UpTo(S, n) == {s \in SUBSET S : Cardinality(s) <= n}

(* Taking out an element leaves a smaller subset.                          *)
LEMMA PickType ==
    ASSUME NEW S, IsFiniteSet(S), NEW n \in Nat, NEW s \in UpTo(S, n + 1), s # {}
    PROVE  /\ Pick(s) \in s /\ Pick(s) \in S
           /\ s \ {Pick(s)} \in UpTo(S, n) /\ s \ {Pick(s)} \in UpTo(S, n + 1)
<1>1. Pick(s) \in s
  BY DEF Pick
<1>2. s \subseteq S /\ IsFiniteSet(s) /\ Cardinality(s) \in Nat
  BY FS_Subset, FS_CardinalityType DEF UpTo
<1>3. Cardinality(s \ {Pick(s)}) = Cardinality(s) - 1
  BY <1>1, <1>2, FS_RemoveElement
<1> QED
  BY <1>1, <1>2, <1>3 DEF UpTo

(* The function exists on the subsets of every size.                       *)
LEMMA RecursionExists ==
    ASSUME NEW S, IsFiniteSet(S), NEW f
    PROVE  \A n \in Nat : \E g : Recurs(g, f, UpTo(S, n))
<1> DEFINE N == {n \in Nat : \E g : Recurs(g, f, UpTo(S, n))}
<1>1. 0 \in N
  <2>1. \A s \in UpTo(S, 0) : s = {}
    <3> SUFFICES ASSUME NEW s \in UpTo(S, 0) PROVE s = {}
      OBVIOUS
    <3>1. IsFiniteSet(s) /\ Cardinality(s) \in Nat /\ Cardinality(s) <= 0
      BY FS_Subset, FS_CardinalityType DEF UpTo
    <3> QED
      BY <3>1, FS_EmptySet
  <2> DEFINE g == [s \in UpTo(S, 0) |-> 0]
  <2>2. Recurs(g, f, UpTo(S, 0))
    BY <2>1 DEF Recurs
  <2> QED
    BY <2>2
<1>2. ASSUME NEW n \in Nat, n \in N PROVE n + 1 \in N
  <2>1. PICK g : Recurs(g, f, UpTo(S, n))
    BY <1>2
  <2> DEFINE h == [s \in UpTo(S, n + 1) |->
                      IF s = {} THEN 0 ELSE f[Pick(s)] + g[s \ {Pick(s)}]]
  <2>2. \A s \in UpTo(S, n) : s \in UpTo(S, n + 1)
    <3> SUFFICES ASSUME NEW s \in UpTo(S, n) PROVE Cardinality(s) <= n + 1 /\ s \in SUBSET S
      BY DEF UpTo
    <3>1. Cardinality(s) \in Nat /\ Cardinality(s) <= n
      BY FS_Subset, FS_CardinalityType DEF UpTo
    <3> QED
      BY <3>1 DEF UpTo
  <2>3. \A s \in UpTo(S, n) : h[s] = g[s]
    BY <2>1, <2>2 DEF Recurs
  <2>4. \A s \in UpTo(S, n + 1) : s # {} => s \ {Pick(s)} \in UpTo(S, n)
    BY PickType
  <2> DEFINE k == [s \in UpTo(S, n + 1) |->
                      IF s = {} THEN 0 ELSE f[Pick(s)] + h[s \ {Pick(s)}]]
  <2>5. \A s \in UpTo(S, n + 1) : h[s] = k[s]
    BY <2>3, <2>4
  <2>6. h = k
    BY <2>5
  <2>7. Recurs(h, f, UpTo(S, n + 1))
    BY <2>6 DEF Recurs
  <2> QED
    BY <2>7
<1> HIDE DEF N
<1>3. Nat \subseteq N
  BY <1>1, <1>2, SetInduction
<1> QED
  BY <1>3 DEF N

(* The sum is the value at S of a function that recurs.                    *)
LEMMA SumRecurs ==
    ASSUME NEW S, IsFiniteSet(S), NEW f
    PROVE  \E g : Recurs(g, f, SUBSET S) /\ Sum(f, S) = g[S]
<1>1. Cardinality(S) \in Nat
  BY FS_CardinalityType
<1>2. UpTo(S, Cardinality(S)) = SUBSET S
  BY FS_Subset DEF UpTo
<1>3. PICK g : Recurs(g, f, SUBSET S)
  <2>1. \E g : Recurs(g, f, UpTo(S, Cardinality(S)))
    BY <1>1, RecursionExists
  <2> QED
    BY <2>1, <1>2
<1> DEFINE c == CHOOSE it : Recurs(it, f, SUBSET S)
<1>4. Recurs(c, f, SUBSET S)
  BY <1>3
<1>5. Sum(f, S) = c[S]
  BY DEF Sum, MapThenSumSet, MapThenFoldSet, Recurs, Pick
<1> QED
  BY <1>4, <1>5

-----------------------------------------------------------------------------
(* Every subset is reached by adding elements one at a time.               *)
LEMMA SubsetInduction ==
    ASSUME NEW S, IsFiniteSet(S), NEW G, {} \in G,
           \A s \in SUBSET S : s # {} /\ s \ {Pick(s)} \in G => s \in G
    PROVE  S \in G
<1> DEFINE N == {n \in Nat : UpTo(S, n) \subseteq G}
<1>1. 0 \in N
  <2> SUFFICES ASSUME NEW s \in UpTo(S, 0) PROVE s = {}
    OBVIOUS
  <2>1. IsFiniteSet(s) /\ Cardinality(s) \in Nat /\ Cardinality(s) <= 0
    BY FS_Subset, FS_CardinalityType DEF UpTo
  <2> QED
    BY <2>1, FS_EmptySet
<1>2. ASSUME NEW n \in Nat, n \in N PROVE n + 1 \in N
  <2> SUFFICES ASSUME NEW s \in UpTo(S, n + 1), s # {} PROVE s \in G
    OBVIOUS
  <2>1. s \ {Pick(s)} \in UpTo(S, n)
    BY PickType
  <2>2. s \in SUBSET S
    BY DEF UpTo
  <2> QED
    BY <1>2, <2>1, <2>2
<1> HIDE DEF N
<1>3. Nat \subseteq N
  BY <1>1, <1>2, SetInduction
<1>4. Cardinality(S) \in Nat /\ S \in UpTo(S, Cardinality(S))
  BY FS_CardinalityType DEF UpTo
<1> QED
  BY <1>3, <1>4 DEF N

(* The sum of naturals is a natural, that of integers an integer.          *)
LEMMA SumType ==
    ASSUME NEW S, IsFiniteSet(S), NEW f, NEW T \in {Nat, Int}, \A x \in S : f[x] \in T
    PROVE  Sum(f, S) \in T
<1>1. PICK g : Recurs(g, f, SUBSET S) /\ Sum(f, S) = g[S]
  BY SumRecurs
<1> DEFINE G == {s \in SUBSET S : g[s] \in T}
<1>2. {} \in G
  BY <1>1 DEF Recurs
<1>3. ASSUME NEW s \in SUBSET S, s # {}, s \ {Pick(s)} \in G PROVE s \in G
  <2>1. Pick(s) \in S
    BY <1>3 DEF Pick
  <2>2. g[s] = f[Pick(s)] + g[s \ {Pick(s)}]
    BY <1>1, <1>3 DEF Recurs
  <2>3. f[Pick(s)] \in T /\ g[s \ {Pick(s)}] \in T
    BY <1>3, <2>1
  <2> QED
    BY <2>2, <2>3
<1> HIDE DEF G
<1>4. S \in G
  BY <1>2, <1>3, SubsetInduction
<1> QED
  BY <1>1, <1>4 DEF G

(* Sums add.                                                               *)
LEMMA SumAdds ==
    ASSUME NEW S, IsFiniteSet(S), NEW f, NEW g, NEW h,
           \A x \in S : f[x] \in Int /\ g[x] \in Int /\ h[x] = f[x] + g[x]
    PROVE  Sum(h, S) = Sum(f, S) + Sum(g, S)
<1>1. PICK F : Recurs(F, f, SUBSET S) /\ Sum(f, S) = F[S]
  BY SumRecurs
<1>2. PICK K : Recurs(K, g, SUBSET S) /\ Sum(g, S) = K[S]
  BY SumRecurs
<1>3. PICK H : Recurs(H, h, SUBSET S) /\ Sum(h, S) = H[S]
  BY SumRecurs
<1> DEFINE G == {s \in SUBSET S : F[s] \in Int /\ K[s] \in Int /\ H[s] = F[s] + K[s]}
<1>4. {} \in G
  BY <1>1, <1>2, <1>3 DEF Recurs
<1>5. ASSUME NEW s \in SUBSET S, s # {}, s \ {Pick(s)} \in G PROVE s \in G
  <2>1. Pick(s) \in S
    BY <1>5 DEF Pick
  <2>2. /\ F[s] = f[Pick(s)] + F[s \ {Pick(s)}]
        /\ K[s] = g[Pick(s)] + K[s \ {Pick(s)}]
        /\ H[s] = h[Pick(s)] + H[s \ {Pick(s)}]
    BY <1>1, <1>2, <1>3, <1>5 DEF Recurs
  <2>3. /\ f[Pick(s)] \in Int /\ g[Pick(s)] \in Int
        /\ h[Pick(s)] = f[Pick(s)] + g[Pick(s)]
    BY <2>1
  <2>4. LET t == s \ {Pick(s)} IN F[t] \in Int /\ K[t] \in Int /\ H[t] = F[t] + K[t]
    BY <1>5
  <2> QED
    BY <2>2, <2>3, <2>4
<1> HIDE DEF G
<1>6. S \in G
  BY <1>4, <1>5, SubsetInduction
<1> QED
  BY <1>1, <1>2, <1>3, <1>6 DEF G

(* One term that is not zero is the sum.                                   *)
LEMMA SumSingle ==
    ASSUME NEW S, IsFiniteSet(S), NEW d, NEW a \in S, d[a] \in Int,
           \A x \in S : x # a => d[x] = 0
    PROVE  Sum(d, S) = d[a]
<1>1. PICK D : Recurs(D, d, SUBSET S) /\ Sum(d, S) = D[S]
  BY SumRecurs
<1> DEFINE G == {s \in SUBSET S : D[s] = IF a \in s THEN d[a] ELSE 0}
<1>2. {} \in G
  BY <1>1 DEF Recurs
<1>3. ASSUME NEW s \in SUBSET S, s # {}, s \ {Pick(s)} \in G PROVE s \in G
  <2>1. Pick(s) \in S /\ Pick(s) \in s
    BY <1>3 DEF Pick
  <2>2. D[s] = d[Pick(s)] + D[s \ {Pick(s)}]
    BY <1>1, <1>3 DEF Recurs
  <2>3. D[s \ {Pick(s)}] = IF a \in s \ {Pick(s)} THEN d[a] ELSE 0
    BY <1>3
  <2>4. CASE Pick(s) = a
    BY <2>1, <2>2, <2>3, <2>4
  <2>5. CASE Pick(s) # a
    BY <2>1, <2>2, <2>3, <2>5
  <2> QED
    BY <2>4, <2>5
<1> HIDE DEF G
<1>4. S \in G
  BY <1>2, <1>3, SubsetInduction
<1> QED
  BY <1>1, <1>4 DEF G

(* Nothing sums to zero.                                                   *)
LEMMA SumOfZeros ==
    ASSUME NEW S, IsFiniteSet(S), NEW f, \A x \in S : f[x] = 0
    PROVE  Sum(f, S) = 0
<1>1. \A x \in S : f[x] \in Int /\ f[x] = f[x] + f[x]
  OBVIOUS
<1>2. Sum(f, S) = Sum(f, S) + Sum(f, S)
  BY <1>1, SumAdds
<1>3. Sum(f, S) \in Int
  BY <1>1, SumType
<1> HIDE DEF Sum
<1>4. \A k \in Int : k = k + k => k = 0
  OBVIOUS
<1> QED
  BY <1>2, <1>3, <1>4

(* Changing one term changes the sum by as much.                           *)
LEMMA SumChanges ==
    ASSUME NEW S, IsFiniteSet(S), NEW f, NEW a \in S, NEW h,
           \A x \in S : f[x] \in Int, h[a] \in Int, \A x \in S : x # a => h[x] = f[x]
    PROVE  Sum(h, S) = Sum(f, S) + (h[a] - f[a])
<1> DEFINE d == [x \in S |-> IF x = a THEN h[a] - f[a] ELSE 0]
<1>1. d[a] = h[a] - f[a] /\ d[a] \in Int /\ \A x \in S : x # a => d[x] = 0
  OBVIOUS
<1>2. \A x \in S : f[x] \in Int /\ d[x] \in Int /\ h[x] = f[x] + d[x]
  OBVIOUS
<1> HIDE DEF d
<1>3. Sum(h, S) = Sum(f, S) + Sum(d, S)
  BY <1>2, SumAdds
<1>4. Sum(d, S) = d[a]
  BY <1>1, SumSingle
<1> QED
  BY <1>1, <1>3, <1>4

(* Functions that agree have the same sum.                                 *)
LEMMA SumSame ==
    ASSUME NEW S, IsFiniteSet(S), NEW f, NEW h, \A x \in S : f[x] \in Int /\ h[x] = f[x]
    PROVE  Sum(h, S) = Sum(f, S)
<1> DEFINE z == [x \in S |-> 0]
<1>1. \A x \in S : f[x] \in Int /\ z[x] \in Int /\ h[x] = f[x] + z[x]
  OBVIOUS
<1>2. \A x \in S : z[x] = 0
  OBVIOUS
<1> HIDE DEF z
<1>3. Sum(h, S) = Sum(f, S) + Sum(z, S)
  BY <1>1, SumAdds
<1>4. Sum(z, S) = 0
  BY <1>2, SumOfZeros
<1>5. Sum(f, S) \in Int
  BY SumType
<1> HIDE DEF Sum
<1> QED
  BY <1>3, <1>4, <1>5

AnyOrder(g, f, S) == \A s \in SUBSET S : \A x \in s : g[s] = f[x] + g[s \ {x}]

(* The recursion may take out any element first.                           *)
LEMMA TakeOutAny ==
    ASSUME NEW S, IsFiniteSet(S), NEW f, \A x \in S : f[x] \in Int, NEW g, Recurs(g, f, SUBSET S)
    PROVE  AnyOrder(g, f, S)
<1>0. \A s \in SUBSET S : g[s] \in Int
  <2> DEFINE G == {s \in SUBSET S : g[s] \in Int}
             N == {n \in Nat : UpTo(S, n) \subseteq G}
  <2>1. 0 \in N
    <3> SUFFICES ASSUME NEW s \in UpTo(S, 0) PROVE s \in G
      OBVIOUS
    <3>1. s \in SUBSET S /\ IsFiniteSet(s) /\ Cardinality(s) \in Nat /\ Cardinality(s) <= 0
      BY FS_Subset, FS_CardinalityType DEF UpTo
    <3>2. s = {}
      BY <3>1, FS_EmptySet
    <3> QED
      BY <3>1, <3>2 DEF Recurs
  <2>2. ASSUME NEW n \in Nat, n \in N PROVE n + 1 \in N
    <3> SUFFICES ASSUME NEW s \in UpTo(S, n + 1) PROVE s \in G
      OBVIOUS
    <3>1. s \in SUBSET S
      BY DEF UpTo
    <3>2. CASE s = {}
      BY <3>1, <3>2 DEF Recurs
    <3>3. CASE s # {}
      <4>1. Pick(s) \in S /\ s \ {Pick(s)} \in UpTo(S, n)
        BY <3>3, PickType
      <4>2. g[s] = f[Pick(s)] + g[s \ {Pick(s)}]
        BY <3>1, <3>3 DEF Recurs
      <4>3. g[s \ {Pick(s)}] \in Int
        BY <2>2, <4>1
      <4> QED
        BY <3>1, <4>1, <4>2, <4>3
    <3> QED
      BY <3>2, <3>3
  <2> HIDE DEF N
  <2>3. Nat \subseteq N
    BY <2>1, <2>2, SetInduction
  <2>4. ASSUME NEW s \in SUBSET S PROVE g[s] \in Int
    <3>1. Cardinality(s) \in Nat /\ s \in UpTo(S, Cardinality(s))
      BY FS_Subset, FS_CardinalityType DEF UpTo
    <3> QED
      BY <2>3, <3>1 DEF N
  <2> QED
    BY <2>4
<1> DEFINE Any(s) == \A x \in s : g[s] = f[x] + g[s \ {x}]
           M == {n \in Nat : \A s \in UpTo(S, n) : Any(s)}
<1>1. 0 \in M
  <2> SUFFICES ASSUME NEW s \in UpTo(S, 0) PROVE s = {}
    OBVIOUS
  <2>1. IsFiniteSet(s) /\ Cardinality(s) \in Nat /\ Cardinality(s) <= 0
    BY FS_Subset, FS_CardinalityType DEF UpTo
  <2> QED
    BY <2>1, FS_EmptySet
<1>2. ASSUME NEW n \in Nat, n \in M PROVE n + 1 \in M
  <2> SUFFICES ASSUME NEW s \in UpTo(S, n + 1), NEW x \in s PROVE g[s] = f[x] + g[s \ {x}]
    OBVIOUS
  <2> DEFINE p == Pick(s)
  <2>1. s \in SUBSET S /\ p \in s /\ p \in S /\ x \in S /\ s \ {p} \in UpTo(S, n)
    BY PickType DEF UpTo
  <2>2. s \ {x} \in UpTo(S, n)
    <3>1. IsFiniteSet(s) /\ Cardinality(s) \in Nat /\ Cardinality(s) <= n + 1
      BY <2>1, FS_Subset, FS_CardinalityType DEF UpTo
    <3>2. Cardinality(s \ {x}) = Cardinality(s) - 1
      BY <3>1, FS_RemoveElement
    <3> QED
      BY <2>1, <3>1, <3>2 DEF UpTo
  <2>3. g[s] = f[p] + g[s \ {p}]
    BY <2>1 DEF Recurs
  <2> HIDE DEF p
  <2>4. CASE x = p
    BY <2>3, <2>4 DEF AnyOrder
  <2>5. CASE x # p
    <3>1. x \in s \ {p} /\ p \in s \ {x}
      BY <2>1, <2>5
    <3>2. g[s \ {p}] = f[x] + g[(s \ {p}) \ {x}]
      BY <1>2, <2>1, <3>1
    <3>3. g[s \ {x}] = f[p] + g[(s \ {x}) \ {p}]
      BY <1>2, <2>2, <3>1
    <3>4. (s \ {p}) \ {x} = (s \ {x}) \ {p} /\ (s \ {x}) \ {p} \in SUBSET S
      BY <2>1
    <3>5. g[(s \ {x}) \ {p}] \in Int /\ f[x] \in Int /\ f[p] \in Int
      BY <1>0, <2>1, <3>4
    <3>6. \A i, j, k \in Int : i + (j + k) = j + (i + k)
      OBVIOUS
    <3>7. g[s] = f[p] + (f[x] + g[(s \ {x}) \ {p}])
      BY <2>3, <3>2, <3>4
    <3> QED
      BY <3>3, <3>5, <3>6, <3>7
  <2> QED
    BY <2>4, <2>5
<1> HIDE DEF M
<1>3. Nat \subseteq M
  BY <1>1, <1>2, SetInduction
<1>4. ASSUME NEW s \in SUBSET S PROVE Any(s)
  <2>1. Cardinality(s) \in Nat /\ s \in UpTo(S, Cardinality(s))
    BY FS_Subset, FS_CardinalityType DEF UpTo
  <2> QED
    BY <1>3, <2>1 DEF M
<1> QED
  BY <1>4 DEF AnyOrder

(* One more element adds its term.                                         *)
LEMMA SumGrows ==
    ASSUME NEW S, IsFiniteSet(S), NEW a, a \notin S, NEW f, \A x \in S \cup {a} : f[x] \in Int
    PROVE  Sum(f, S \cup {a}) = Sum(f, S) + f[a]
<1> DEFINE T == S \cup {a}
<1>1. IsFiniteSet(T) /\ T \ {a} = S /\ a \in T /\ S \in SUBSET T
  BY FS_AddElement
<1>2. PICK g : Recurs(g, f, SUBSET T) /\ Sum(f, T) = g[T]
  BY <1>1, SumRecurs
<1>3. PICK h : Recurs(h, f, SUBSET S) /\ Sum(f, S) = h[S]
  BY SumRecurs
<1>4. g[T] = f[a] + g[S]
  <2>1. \A x \in T : f[x] \in Int
    OBVIOUS
  <2> HIDE DEF T
  <2>2. IsFiniteSet(T) /\ Recurs(g, f, SUBSET T)
    BY <1>1, <1>2
  <2>3. AnyOrder(g, f, T)
    BY <2>1, <2>2, TakeOutAny
  <2>4. T \in SUBSET T /\ a \in T
    BY <1>1
  <2>5. g[T] = f[a] + g[T \ {a}]
    BY <2>3, <2>4 DEF AnyOrder
  <2>6. T \ {a} = S
    BY <1>1
  <2> QED
    BY <2>5, <2>6
<1> DEFINE G == {s \in SUBSET S : g[s] = h[s]}
<1>5. {} \in G
  BY <1>2, <1>3 DEF Recurs
<1>6. ASSUME NEW s \in SUBSET S, s # {}, s \ {Pick(s)} \in G PROVE s \in G
  <2>1. s \in SUBSET T
    OBVIOUS
  <2>2. g[s] = f[Pick(s)] + g[s \ {Pick(s)}]
    BY <1>2, <1>6, <2>1 DEF Recurs
  <2>3. h[s] = f[Pick(s)] + h[s \ {Pick(s)}]
    BY <1>3, <1>6 DEF Recurs
  <2> QED
    BY <1>6, <2>2, <2>3
<1> HIDE DEF G
<1>7. S \in G
  BY <1>5, <1>6, SubsetInduction
<1>8. Sum(f, S) \in Int /\ f[a] \in Int
  BY SumType
<1>9. Sum(f, T) = f[a] + Sum(f, S)
  BY <1>2, <1>3, <1>4, <1>7 DEF G
<1> HIDE DEF Sum
<1>10. \A m, n \in Int : m + n = n + m
  OBVIOUS
<1> QED
  BY <1>8, <1>9, <1>10
=============================================================================
