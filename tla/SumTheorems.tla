---------------------------- MODULE SumTheorems ----------------------------
(* What the proofs need of numbers, finite sets and the costs of assignments: *)
(* a least element where the library has induction over an operator, and the  *)
(* sums of MapThenSumSet.  A sum is computed by a recursive function over the *)
(* subsets of its set that takes out a chosen element; that the choice does   *)
(* not matter is proved here, once, for the sum of a function.  Chains stand   *)
(* for the recursive functions over an interval of numbers.                   *)
EXTENDS MinMatching, TLAPS, FunctionTheorems, FiniteSetTheorems, WellFoundedInduction

-----------------------------------------------------------------------------
(* Least elements                                                             *)

\* A set of numbers that is not empty has a least one.
LEMMA LeastNatural ==
    ASSUME NEW T \in SUBSET Nat, T # {}
    PROVE  \E m \in T : \A n \in T : m <= n
<1> DEFINE Less == {mn \in Nat \X Nat : mn[1] < mn[2]}
<1>1. IsWellFoundedOn(Less, Nat)
  BY NatLessThanWellFounded DEF OpToRel
<1> HIDE DEF Less
<1>2. PICK m \in T : \A n \in T : ~(<<n, m>> \in Less)
  BY <1>1, WFMin
<1>3. \A n \in T : <<n, m>> \in Less <=> n < m
  BY DEF Less
<1>4. \A n \in T : ~(n < m)
  BY <1>2, <1>3, Zenon
<1>5. \A n \in T : m <= n
  BY <1>4, T \in SUBSET Nat
<1>6. QED
  BY <1>5

\* Among subsets of a finite set there is one that holds no other of them: a
\* least counterexample to start an argument by induction from.
LEMMA LeastSubset ==
    ASSUME NEW S, IsFiniteSet(S), NEW B \in SUBSET SUBSET S, B # {}
    PROVE  \E s \in B : /\ IsFiniteSet(s)
                        /\ \A u \in SUBSET s : u # s => u \notin B
<1> DEFINE K == {k \in Nat : \E s \in B : Cardinality(s) = k}
<1>1. \A s \in B : IsFiniteSet(s) /\ Cardinality(s) \in Nat
  BY FS_Subset, FS_CardinalityType
<1>2. PICK k \in K : \A n \in K : k <= n
  <2>1. K # {} /\ K \in SUBSET Nat
    BY <1>1
  <2> HIDE DEF K
  <2> QED
    BY <2>1, LeastNatural
<1>3. PICK s \in B : Cardinality(s) = k
  OBVIOUS
<1>4. ASSUME NEW u \in SUBSET s, u # s, u \in B
      PROVE  FALSE
  <2>1. Cardinality(u) <= k /\ Cardinality(u) # k
    BY <1>1, <1>3, <1>4, FS_Subset
  <2>2. Cardinality(u) \in K /\ Cardinality(u) \in Nat
    BY <1>1, <1>4
  <2>3. k <= Cardinality(u)
    BY <2>2, <1>2
  <2> HIDE DEF K
  <2> QED
    BY <2>1, <2>2, <2>3, <1>1, <1>3
<1> QED
  BY <1>1, <1>4

-----------------------------------------------------------------------------
(* The recursive function behind a sum                                        *)

Picked(s) == CHOOSE x \in s : TRUE

\* g sums h over the subsets of S the way MapThenSumSet does.
IsSum(g, h, S) ==
    g = [s \in SUBSET S |-> IF s = {} THEN 0 ELSE h[Picked(s)] + g[s \ {Picked(s)}]]

LEMMA PickedIn ==
    ASSUME NEW s, s # {}
    PROVE  Picked(s) \in s
BY DEF Picked

\* Two such functions agree where what they sum does.
SameBelow(g, h, S, f, k, T, U) ==
    /\ IsSum(g, h, S) /\ IsSum(f, k, T)
    /\ U \in SUBSET S /\ U \in SUBSET T /\ IsFiniteSet(U)
    /\ \A x \in U : h[x] = k[x]

LEMMA SumsAgree ==
    ASSUME NEW S, NEW T, NEW g, NEW h, NEW f, NEW k, NEW U,
           SameBelow(g, h, S, f, k, T, U)
    PROVE  \A s \in SUBSET U : g[s] = f[s]
<1> DEFINE B == {s \in SUBSET U : g[s] # f[s]}
<1>1. \A s \in SUBSET U :
        /\ g[s] = IF s = {} THEN 0 ELSE h[Picked(s)] + g[s \ {Picked(s)}]
        /\ f[s] = IF s = {} THEN 0 ELSE k[Picked(s)] + f[s \ {Picked(s)}]
  BY DEF IsSum, SameBelow
<1>2. ASSUME B # {}
      PROVE  FALSE
  <2>1. PICK s \in B : \A u \in SUBSET s : u # s => u \notin B
    <3>1. IsFiniteSet(U) /\ B \in SUBSET SUBSET U
      BY DEF SameBelow
    <3> HIDE DEF B
    <3> QED
      BY <1>2, <3>1, LeastSubset
  <2>2. s # {}
    BY <1>1
  <2>3. Picked(s) \in s /\ s \ {Picked(s)} \in SUBSET U
    BY <2>2, PickedIn
  <2>4. g[s \ {Picked(s)}] = f[s \ {Picked(s)}]
    BY <2>1, <2>3
  <2> QED
    BY <2>2, <2>3, <2>4, <1>1 DEF SameBelow
<1> QED
  BY <1>2

\* For every finite set there is one.
LEMMA SumExists ==
    ASSUME NEW S, IsFiniteSet(S), NEW h
    PROVE  \E g : IsSum(g, h, S)
<1> DEFINE B == {s \in SUBSET S : ~ \E g : IsSum(g, h, s)}
<1> SUFFICES ASSUME B # {}
             PROVE  FALSE
  OBVIOUS
<1>1. PICK s \in B : IsFiniteSet(s) /\ \A u \in SUBSET s : u # s => u \notin B
  <2>1. B \in SUBSET SUBSET S
    OBVIOUS
  <2> HIDE DEF B
  <2> QED
    BY <2>1, LeastSubset
<1> DEFINE G(v) == CHOOSE g : IsSum(g, h, v)
           Rest(u) == u \ {Picked(u)}
           g0 == [u \in SUBSET s |-> IF u = {} THEN 0 ELSE h[Picked(u)] + G(Rest(u))[Rest(u)]]
<1>2. ASSUME NEW v \in SUBSET s, v # s
      PROVE  IsSum(G(v), h, v) /\ IsFiniteSet(v)
  <2>1. v \notin B /\ v \in SUBSET S
    BY <1>1, <1>2
  <2>2. \E g : IsSum(g, h, v)
    BY <2>1
  <2>3. IsFiniteSet(v)
    BY <1>1, FS_Subset
  <2> QED
    BY <2>2, <2>3
<1>3. \A u \in SUBSET s : u # {} => Picked(u) \in u /\ Rest(u) \in SUBSET u
                                    /\ Rest(u) \in SUBSET s /\ Rest(u) # s
  BY PickedIn
<1>4. \A u \in SUBSET s :
        g0[u] = IF u = {} THEN 0 ELSE h[Picked(u)] + G(Rest(u))[Rest(u)]
  <2> HIDE DEF G, Rest
  <2> QED
    OBVIOUS
<1> HIDE DEF g0, G, Rest
<1>5. ASSUME NEW v \in SUBSET s, v # s
      PROVE  g0[v] = G(v)[v]
  <2>1. IsSum(G(v), h, v) /\ IsFiniteSet(v)
    BY <1>2, <1>5
  <2>2. G(v)[v] = IF v = {} THEN 0 ELSE h[Picked(v)] + G(v)[Rest(v)]
    BY <2>1 DEF IsSum, Rest
  <2>3. ASSUME v # {}
        PROVE  G(v)[Rest(v)] = G(Rest(v))[Rest(v)]
    <3>1. Rest(v) \in SUBSET v /\ Rest(v) \in SUBSET s /\ Rest(v) # s
      BY <1>3, <2>3
    <3>2. IsSum(G(Rest(v)), h, Rest(v))
      BY <3>1, <1>2
    <3>3. Rest(v) \in SUBSET v /\ Rest(v) \in SUBSET Rest(v) /\ IsFiniteSet(Rest(v))
      BY <3>1, <1>2
    <3>4. SameBelow(G(v), h, v, G(Rest(v)), h, Rest(v), Rest(v))
      BY <2>1, <3>2, <3>3 DEF SameBelow
    <3> QED
      BY <3>3, <3>4, SumsAgree
  <2> QED
    BY <2>2, <2>3, <1>4
<1>6. IsSum(g0, h, s)
  <2>1. \A u \in SUBSET s : g0[u] = IF u = {} THEN 0 ELSE h[Picked(u)] + g0[Rest(u)]
    BY <1>3, <1>4, <1>5
  <2>2. g0 = [u \in SUBSET s |-> g0[u]]
    BY DEF g0
  <2> QED
    BY <2>1, <2>2 DEF IsSum, Rest
<1> QED
  BY <1>6

-----------------------------------------------------------------------------
(* The sum of a function                                                      *)

Total(h, S) == (CHOOSE g : IsSum(g, h, S))[S]

LEMMA TotalIs ==
    ASSUME NEW S, IsFiniteSet(S), NEW h, NEW g, IsSum(g, h, S), NEW s \in SUBSET S
    PROVE  Total(h, s) = g[s]
<1>1. IsFiniteSet(s)
  BY FS_Subset
<1>2. IsSum(CHOOSE f : IsSum(f, h, s), h, s)
  BY <1>1, SumExists
<1>3. s \in SUBSET S /\ s \in SUBSET s
  OBVIOUS
<1> DEFINE f == CHOOSE f : IsSum(f, h, s)
<1> HIDE DEF f
<1>4. IsSum(f, h, s)
  BY <1>2 DEF f
<1>5. SameBelow(g, h, S, f, h, s, s)
  BY <1>1, <1>3, <1>4 DEF SameBelow
<1>6. \A u \in SUBSET s : g[u] = f[u]
  BY <1>5, SumsAgree
<1> QED
  BY <1>3, <1>6 DEF Total, f

\* Only the values on the set count.
LEMMA TotalAgrees ==
    ASSUME NEW S, IsFiniteSet(S), NEW h, NEW k, \A x \in S : h[x] = k[x]
    PROVE  Total(h, S) = Total(k, S)
<1>1. PICK g : IsSum(g, h, S)
  BY SumExists
<1>2. PICK f : IsSum(f, k, S)
  BY SumExists
<1>3. S \in SUBSET S
  OBVIOUS
<1>4. \A s \in SUBSET S : g[s] = f[s]
  <2>1. SameBelow(g, h, S, f, k, S, S)
    BY <1>1, <1>2, <1>3 DEF SameBelow
  <2> QED
    BY <2>1, SumsAgree
<1> QED
  BY <1>1, <1>2, <1>3, <1>4, TotalIs

\* A sum of integers is one, and any element may be taken out of it.
LEMMA IntTotalTakes ==
    ASSUME NEW S, IsFiniteSet(S), NEW h, \A x \in S : h[x] \in Int
    PROVE  /\ Total(h, S) \in Int
           /\ Total(h, {}) = 0
           /\ \A x \in S : Total(h, S) = h[x] + Total(h, S \ {x})
<1>1. PICK g : IsSum(g, h, S)
  BY SumExists
<1> DEFINE Rest(u) == u \ {Picked(u)}
<1>2. \A u \in SUBSET S : g[u] = IF u = {} THEN 0 ELSE h[Picked(u)] + g[Rest(u)]
  BY <1>1 DEF IsSum
<1>3. \A u \in SUBSET S : u # {} => Picked(u) \in u
  BY PickedIn
<1> HIDE DEF Rest
<1>4. \A u \in SUBSET S : g[u] \in Int
  <2> DEFINE B == {u \in SUBSET S : g[u] \notin Int}
  <2> SUFFICES ASSUME B # {}
               PROVE  FALSE
    OBVIOUS
  <2>1. PICK s \in B : \A u \in SUBSET s : u # s => u \notin B
    <3>1. B \in SUBSET SUBSET S
      OBVIOUS
    <3> HIDE DEF B
    <3> QED
      BY <3>1, LeastSubset
  <2>2. s # {}
    BY <1>2
  <2>3. Picked(s) \in s /\ Rest(s) \in SUBSET s /\ Rest(s) # s
    BY <2>2, <1>3 DEF Rest
  <2>4. g[Rest(s)] \in Int /\ h[Picked(s)] \in Int
    BY <2>1, <2>3
  <2> QED
    BY <2>2, <2>4, <1>2
<1>5. \A u \in SUBSET S : \A x \in u : g[u] = h[x] + g[u \ {x}]
  <2> DEFINE B == {u \in SUBSET S : \E x \in u : g[u] # h[x] + g[u \ {x}]}
  <2> SUFFICES ASSUME B # {}
               PROVE  FALSE
    OBVIOUS
  <2>1. PICK s \in B : \A u \in SUBSET s : u # s => u \notin B
    <3>1. B \in SUBSET SUBSET S
      OBVIOUS
    <3> HIDE DEF B
    <3> QED
      BY <3>1, LeastSubset
  <2>2. PICK x \in s : g[s] # h[x] + g[s \ {x}]
    BY <2>1
  <2> DEFINE y == Picked(s)
             w == s \ {x, y}
  <2>3. y \in s /\ g[s] = h[y] + g[s \ {y}]
    BY <2>2, <1>2, <1>3 DEF Rest
  <2>4. x # y
    BY <2>2, <2>3
  <2>5. /\ s \ {y} \in SUBSET s /\ s \ {y} # s /\ x \in s \ {y}
        /\ s \ {x} \in SUBSET s /\ s \ {x} # s /\ y \in s \ {x}
        /\ (s \ {y}) \ {x} = w /\ (s \ {x}) \ {y} = w
    BY <2>2, <2>3, <2>4
  <2>6. s \ {y} \notin B /\ s \ {x} \notin B
    BY <2>1, <2>5
  <2>7. s \ {y} \in SUBSET S /\ s \ {x} \in SUBSET S /\ w \in SUBSET S
    OBVIOUS
  <2>8. g[s \ {y}] = h[x] + g[(s \ {y}) \ {x}] /\ g[s \ {x}] = h[y] + g[(s \ {x}) \ {y}]
    BY <2>5, <2>6, <2>7
  <2>9. g[s \ {y}] = h[x] + g[w] /\ g[s \ {x}] = h[y] + g[w]
    BY <2>5, <2>8
  <2>10. h[x] \in Int /\ h[y] \in Int /\ g[w] \in Int
    BY <2>3, <2>7, <1>4
  <2> HIDE DEF w, y
  <2> QED
    BY <2>2, <2>3, <2>9, <2>10
<1>6. S \in SUBSET S /\ {} \in SUBSET S /\ \A x \in S : S \ {x} \in SUBSET S
  OBVIOUS
<1>7. /\ Total(h, S) = g[S] /\ Total(h, {}) = g[{}]
      /\ \A x \in S : Total(h, S \ {x}) = g[S \ {x}]
  BY <1>1, <1>6, TotalIs
<1> QED
  BY <1>2, <1>4, <1>5, <1>6, <1>7

\* A sum of numbers is a number, and any element may be taken out of it.
LEMMA TotalTakes ==
    ASSUME NEW S, IsFiniteSet(S), NEW h, \A x \in S : h[x] \in Nat
    PROVE  /\ Total(h, S) \in Nat
           /\ Total(h, {}) = 0
           /\ \A x \in S : Total(h, S) = h[x] + Total(h, S \ {x})
<1>1. \A x \in S : h[x] \in Int
  OBVIOUS
<1> DEFINE B == {u \in SUBSET S : Total(h, u) \notin Nat}
<1>2. ASSUME B # {}
      PROVE  FALSE
  <2>1. PICK s \in B : IsFiniteSet(s) /\ \A u \in SUBSET s : u # s => u \notin B
    <3>1. B \in SUBSET SUBSET S
      OBVIOUS
    <3> HIDE DEF B
    <3> QED
      BY <1>2, <3>1, LeastSubset
  <2>2. /\ Total(h, {}) = 0
        /\ \A x \in s : Total(h, s) = h[x] + Total(h, s \ {x})
    BY <1>1, <2>1, IntTotalTakes
  <2>3. Total(h, s) \notin Nat /\ \A x \in s : Total(h, s \ {x}) \in Nat
    BY <2>1
  <2>4. s # {}
    BY <2>2, <2>3
  <2>5. PICK x : x \in s
    BY <2>4
  <2>6. Total(h, s \ {x}) \in Nat /\ h[x] \in Nat /\ Total(h, s) = h[x] + Total(h, s \ {x})
    BY <2>1, <2>2, <2>3, <2>5
  <2> QED
    BY <2>3, <2>6
<1>3. Total(h, S) \in Nat
  BY <1>2
<1> QED
  BY <1>1, <1>3, IntTotalTakes

\* A part of a sum is no more than the sum.
LEMMA TotalSplits ==
    ASSUME NEW S, IsFiniteSet(S), NEW h, \A x \in S : h[x] \in Nat, NEW T \in SUBSET S
    PROVE  Total(h, S) = Total(h, T) + Total(h, S \ T)
<1> DEFINE B == {u \in SUBSET T : Total(h, u \cup (S \ T)) # Total(h, u) + Total(h, S \ T)}
<1>1. IsFiniteSet(T) /\ IsFiniteSet(S \ T)
  BY FS_Subset
<1>2. B = {}
  <2> SUFFICES ASSUME B # {}
               PROVE  FALSE
    OBVIOUS
  <2>1. PICK s \in B : \A u \in SUBSET s : u # s => u \notin B
    <3>1. B \in SUBSET SUBSET T
      OBVIOUS
    <3> HIDE DEF B
    <3> QED
      BY <1>1, <3>1, LeastSubset
  <2> DEFINE R == S \ T
             U == s \cup R
  <2>2. CASE s = {}
    <3>1. Total(h, s) = 0 /\ Total(h, R) \in Nat /\ U = R
      BY <2>2, <1>1, TotalTakes
    <3> HIDE DEF R, U
    <3>2. Total(h, U) = Total(h, s) + Total(h, R)
      BY <3>1
    <3> QED
      BY <3>2 DEF U, R
  <2>3. ASSUME NEW x \in s
        PROVE  FALSE
    <3> DEFINE v == s \ {x}
    <3>1. v \in SUBSET s /\ v # s /\ v \in SUBSET T
      OBVIOUS
    <3>2. Total(h, v \cup R) = Total(h, v) + Total(h, R)
      BY <2>1, <3>1
    <3>3. U \in SUBSET S /\ x \in U /\ U \ {x} = v \cup R
      OBVIOUS
    <3>4. /\ IsFiniteSet(U) /\ IsFiniteSet(s) /\ IsFiniteSet(v)
          /\ \A y \in U : h[y] \in Nat
          /\ \A y \in s : h[y] \in Nat
          /\ \A y \in v : h[y] \in Nat
          /\ \A y \in R : h[y] \in Nat
      BY <3>1, <3>3, FS_Subset
    <3>5. Total(h, U) = h[x] + Total(h, U \ {x})
      <4> HIDE DEF U
      <4> QED
        BY <3>3, <3>4, TotalTakes
    <3>6. Total(h, s) = h[x] + Total(h, v)
      BY <3>4, TotalTakes
    <3>7. Total(h, v) \in Nat /\ Total(h, R) \in Nat /\ h[x] \in Nat
      <4> HIDE DEF v, R
      <4> QED
        BY <3>4, <1>1, TotalTakes DEF R
    <3>8. Total(h, U) # Total(h, s) + Total(h, R)
      OBVIOUS
    <3> HIDE DEF U, R, v, B
    <3>9. Total(h, U) = h[x] + (Total(h, v) + Total(h, R))
      BY <3>2, <3>3, <3>5
    <3>10. h[x] + (Total(h, v) + Total(h, R)) = (h[x] + Total(h, v)) + Total(h, R)
      BY <3>7
    <3> QED
      BY <3>6, <3>8, <3>9, <3>10
  <2> QED
    BY <2>2, <2>3
<1>3. T \cup (S \ T) = S
  OBVIOUS
<1> QED
  BY <1>2, <1>3

\* A sum is the same under other names.
LEMMA TotalRenamed ==
    ASSUME NEW S, IsFiniteSet(S), NEW T, NEW F \in Bijection(S, T),
           NEW h, \A y \in T : h[y] \in Nat, NEW k, \A x \in S : k[x] = h[F[x]]
    PROVE  Total(h, T) = Total(k, S)
<1> DEFINE Im(u) == {F[x] : x \in u}
           B == {u \in SUBSET S : Total(h, Im(u)) # Total(k, u)}
<1>1. /\ F \in [S -> T] /\ \A x, y \in S : F[x] = F[y] => x = y
      /\ Im(S) = T
  BY Fun_BijectionProperties
<1>2. IsFiniteSet(T)
  BY FS_Bijection, Fun_ExistsBij
<1>3. B = {}
  <2> SUFFICES ASSUME B # {}
               PROVE  FALSE
    OBVIOUS
  <2>1. PICK s \in B : IsFiniteSet(s) /\ \A u \in SUBSET s : u # s => u \notin B
    <3>1. B \in SUBSET SUBSET S
      OBVIOUS
    <3> HIDE DEF B
    <3> QED
      BY <3>1, LeastSubset
  <2>2. Im(s) \in SUBSET T /\ IsFiniteSet(Im(s))
    BY <1>1, <1>2, FS_Subset
  <2>3. (\A y \in Im(s) : h[y] \in Nat) /\ (\A x \in s : k[x] \in Nat)
    BY <1>1
  <2>4. CASE s = {}
    <3>1. Im(s) = {}
      BY <2>4
    <3>2. Total(h, {}) = 0 /\ Total(k, {}) = 0
      BY <2>1, <2>2, <2>3, TotalTakes
    <3> QED
      BY <3>1, <3>2, <2>1, <2>4
  <2>5. ASSUME NEW x \in s
        PROVE  FALSE
    <3>1. s \ {x} \in SUBSET s /\ s \ {x} # s /\ F[x] \in Im(s) /\ k[x] = h[F[x]]
      OBVIOUS
    <3>2. Im(s) \ {F[x]} = Im(s \ {x})
      BY <1>1
    <3>3. Total(h, Im(s \ {x})) = Total(k, s \ {x})
      BY <2>1, <3>1
    <3>4. Total(h, Im(s)) = h[F[x]] + Total(h, Im(s) \ {F[x]})
      <4> HIDE DEF Im
      <4> QED
        BY <2>2, <2>3, <3>1, TotalTakes
    <3>5. Total(k, s) = k[x] + Total(k, s \ {x})
      BY <2>1, <2>3, TotalTakes
    <3>6. Total(h, Im(s)) # Total(k, s)
      BY <2>1
    <3> HIDE DEF Im
    <3> QED
      BY <3>1, <3>2, <3>3, <3>4, <3>5, <3>6
  <2> QED
    BY <2>4, <2>5
<1>4. Total(h, Im(S)) = Total(k, S)
  BY <1>3
<1> QED
  BY <1>1, <1>4

\* A sum of smaller numbers is no larger.
LEMMA TotalMonotone ==
    ASSUME NEW S, IsFiniteSet(S), NEW h, NEW k,
           \A x \in S : h[x] \in Nat /\ k[x] \in Nat /\ h[x] <= k[x]
    PROVE  Total(h, S) <= Total(k, S)
<1> DEFINE B == {u \in SUBSET S : ~(Total(h, u) <= Total(k, u))}
<1> SUFFICES ASSUME B # {}
             PROVE  FALSE
  OBVIOUS
<1>1. PICK s \in B : IsFiniteSet(s) /\ \A u \in SUBSET s : u # s => u \notin B
  <2>1. B \in SUBSET SUBSET S
    OBVIOUS
  <2> HIDE DEF B
  <2> QED
    BY <2>1, LeastSubset
<1>2. (\A x \in s : h[x] \in Nat) /\ (\A x \in s : k[x] \in Nat)
  OBVIOUS
<1>3. CASE s = {}
  <2>1. Total(h, {}) = 0 /\ Total(k, {}) = 0
    BY <1>1, <1>2, TotalTakes
  <2> QED
    BY <1>3, <2>1
<1>4. ASSUME NEW x \in s
      PROVE  FALSE
  <2> DEFINE v == s \ {x}
  <2>1. v \in SUBSET s /\ v # s /\ v \in SUBSET S /\ IsFiniteSet(v)
    BY <1>1, FS_Subset
  <2>2. /\ Total(h, s) = h[x] + Total(h, v)
        /\ Total(k, s) = k[x] + Total(k, v)
    BY <1>1, <1>2, TotalTakes
  <2>3. Total(h, v) \in Nat /\ Total(k, v) \in Nat
    BY <1>2, <2>1, TotalTakes
  <2>4. Total(h, v) <= Total(k, v)
    BY <1>1, <2>1
  <2>5. h[x] \in Nat /\ k[x] \in Nat /\ h[x] <= k[x]
    OBVIOUS
  <2>6. ~(Total(h, s) <= Total(k, s))
    BY <1>1
  <2> HIDE DEF v, B
  <2> QED
    BY <2>2, <2>3, <2>4, <2>5, <2>6
<1> QED
  BY <1>3, <1>4

-----------------------------------------------------------------------------
(* The cost of an assignment                                                  *)

\* It is the sum of the costs of its links.
LEMMA AssignmentCostIs ==
    ASSUME NEW f, IsFiniteSet(DOMAIN f), NEW d, NEW none, NEW m,
           NEW k, \A p \in DOMAIN f : k[p] = LinkCost(p, f[p], d, none, m)
    PROVE  AssignmentCost(f, d, none, m) = Total(k, DOMAIN f)
<1> DEFINE e(p) == LinkCost(p, f[p], d, none, m)
           S == DOMAIN f
           E == CHOOSE g : g = [s \in SUBSET S |->
                    IF s = {} THEN 0 ELSE e(Picked(s)) + g[s \ {Picked(s)}]]
<1>1. AssignmentCost(f, d, none, m) = E[S]
  BY DEF AssignmentCost, MapThenSumSet, MapThenFoldSet, Picked
<1> HIDE DEF S
<1>2. \A s \in SUBSET S : s # {} => k[Picked(s)] = e(Picked(s))
  BY PickedIn DEF S
<1>3. PICK g : IsSum(g, k, S)
  BY SumExists DEF S
<1>4. ASSUME NEW w
      PROVE  IsSum(w, k, S) <=> w = [s \in SUBSET S |->
                 IF s = {} THEN 0 ELSE e(Picked(s)) + w[s \ {Picked(s)}]]
  <2> HIDE DEF e
  <2>1. [s \in SUBSET S |-> IF s = {} THEN 0 ELSE k[Picked(s)] + w[s \ {Picked(s)}]]
        = [s \in SUBSET S |-> IF s = {} THEN 0 ELSE e(Picked(s)) + w[s \ {Picked(s)}]]
    BY <1>2
  <2> QED
    BY <2>1 DEF IsSum
<1>5. IsSum(E, k, S)
  <2>1. \E w : w = [s \in SUBSET S |->
                 IF s = {} THEN 0 ELSE e(Picked(s)) + w[s \ {Picked(s)}]]
    BY <1>3, <1>4
  <2> HIDE DEF e
  <2>2. E = [s \in SUBSET S |-> IF s = {} THEN 0 ELSE e(Picked(s)) + E[s \ {Picked(s)}]]
    BY <2>1
  <2> HIDE DEF E
  <2> QED
    BY <2>2, <1>4
<1> HIDE DEF E
<1>6. S \in SUBSET S /\ IsFiniteSet(S)
  BY DEF S
<1>7. Total(k, S) = E[S]
  BY <1>5, <1>6, TotalIs
<1> QED
  BY <1>1, <1>7 DEF S

-----------------------------------------------------------------------------
(* Chains: each value is that of a function of the one before it              *)

\* c goes from a, by F, and is in W all the way.
IsChain(c, lo, hi, a, F, W) ==
    /\ c = [g \in lo .. hi |-> IF g = lo THEN a ELSE F[<<g - 1, c[g - 1]>>]]
    /\ \A g \in lo .. hi : c[g] \in W[g]

\* A function that keeps its values in W has a chain from any start in W.
LEMMA ChainExists ==
    ASSUME NEW lo \in Int, NEW hi \in Int, NEW a, NEW F, NEW W, a \in W[lo],
           \A g \in lo + 1 .. hi : \A v : v \in W[g - 1] => F[<<g - 1, v>>] \in W[g]
    PROVE  \E c : IsChain(c, lo, hi, a, F, W)
<1> DEFINE Upto(m) == \E c : IsChain(c, lo, lo + m, a, F, W)
           Bad == {m \in Nat : lo + m <= hi /\ ~Upto(m)}
<1>1. Bad = {}
  <2>1. SUFFICES ASSUME Bad # {} PROVE FALSE
    OBVIOUS
  <2>2. PICK m \in Bad : \A n \in Bad : m <= n
    <3>1. Bad \in SUBSET Nat
      OBVIOUS
    <3> HIDE DEF Bad
    <3>2. QED
      BY <2>1, <3>1, LeastNatural
  <2>3. m \in Nat /\ lo + m <= hi /\ ~Upto(m)
    BY <2>2
  <2>4. CASE m = 0
    <3>1. PICK c : c = [g \in lo .. lo |-> a]
      OBVIOUS
    <3>2. lo .. lo + 0 = {lo}
      OBVIOUS
    <3>3. c = [g \in lo .. lo + 0 |-> IF g = lo THEN a ELSE F[<<g - 1, c[g - 1]>>]]
      BY <3>1, <3>2
    <3>4. \A g \in lo .. lo + 0 : c[g] \in W[g]
      BY <3>1, <3>2
    <3>5. QED
      BY <2>3, <2>4, <3>3, <3>4 DEF IsChain
  <2>5. CASE m > 0
    <3>1. PICK l : l = m - 1
      OBVIOUS
    <3>2. l \in Nat /\ l + 1 = m /\ l \notin Bad
      BY <2>2, <2>3, <2>5, <3>1
    <3>3. PICK c : IsChain(c, lo, lo + l, a, F, W)
      BY <2>3, <3>2
    <3>4. /\ c = [g \in lo .. lo + l |-> IF g = lo THEN a ELSE F[<<g - 1, c[g - 1]>>]]
          /\ \A g \in lo .. lo + l : c[g] \in W[g]
      BY <3>3 DEF IsChain
    <3>5. PICK x : x = F[<<lo + l, c[lo + l]>>]
      OBVIOUS
    <3>6. x \in W[lo + m]
      <4>1. lo + m \in lo + 1 .. hi /\ lo + m - 1 = lo + l /\ lo + l \in lo .. lo + l
        BY <2>3, <3>2
      <4>2. c[lo + l] \in W[lo + l]
        BY <3>4, <4>1
      <4>3. QED
        BY <3>5, <4>1, <4>2
    <3>7. PICK d : d = [g \in lo .. lo + m |-> IF g = lo + m THEN x ELSE c[g]]
      OBVIOUS
    <3>8. DOMAIN d = lo .. lo + m /\ d[lo + m] = x /\ \A g \in lo .. lo + l : d[g] = c[g] /\ g \in lo .. lo + m
      BY <2>3, <3>2, <3>7
    <3>9. ASSUME NEW g \in lo .. lo + m
          PROVE  d[g] = (IF g = lo THEN a ELSE F[<<g - 1, d[g - 1]>>]) /\ d[g] \in W[g]
      <4>1. CASE g = lo + m
        <5>1. g # lo /\ g - 1 = lo + l /\ g - 1 \in lo .. lo + l
          BY <2>3, <3>2, <4>1
        <5>2. d[g - 1] = c[lo + l]
          BY <3>8, <5>1
        <5>3. QED
          BY <3>5, <3>6, <3>8, <4>1, <5>1, <5>2
      <4>2. CASE g # lo + m
        <5>1. g \in lo .. lo + l
          BY <2>3, <3>2, <4>2
        <5>2. g # lo => g - 1 \in lo .. lo + l
          BY <5>1, <3>2
        <5>3. d[g] = c[g] /\ (g # lo => d[g - 1] = c[g - 1])
          BY <3>8, <5>1, <5>2
        <5>4. c[g] = (IF g = lo THEN a ELSE F[<<g - 1, c[g - 1]>>]) /\ c[g] \in W[g]
          BY <3>4, <5>1
        <5>5. QED
          BY <5>3, <5>4
      <4>3. QED
        BY <4>1, <4>2
    <3>10. d = [g \in lo .. lo + m |-> IF g = lo THEN a ELSE F[<<g - 1, d[g - 1]>>]]
      <4>1. d = [g \in lo .. lo + m |-> d[g]]
        BY <3>7
      <4>2. \A g \in lo .. lo + m : d[g] = (IF g = lo THEN a ELSE F[<<g - 1, d[g - 1]>>])
        BY <3>9
      <4>3. QED
        BY <4>1, <4>2
    <3>11. QED
      BY <2>3, <3>9, <3>10 DEF IsChain
  <2>6. QED
    BY <2>3, <2>4, <2>5
<1>2. CASE lo <= hi
  <2>1. hi - lo \in Nat /\ lo + (hi - lo) = hi
    BY <1>2
  <2>2. hi - lo \notin Bad
    BY <1>1
  <2>3. Upto(hi - lo)
    BY <2>1, <2>2
  <2>4. PICK c : IsChain(c, lo, lo + (hi - lo), a, F, W)
    BY <2>3
  <2>5. QED
    BY <2>1, <2>4
<1>3. CASE lo > hi
  <2>1. lo .. hi = {}
    BY <1>3
  <2>2. PICK c : c = [g \in {} |-> a]
    OBVIOUS
  <2>3. c = [g \in lo .. hi |-> IF g = lo THEN a ELSE F[<<g - 1, c[g - 1]>>]]
    BY <2>1, <2>2
  <2>4. QED
    BY <2>1, <2>3 DEF IsChain
<1>4. QED
  BY <1>2, <1>3

\* What starts in W and stays there from one to the next is there all the way.
LEMMA ChainStays ==
    ASSUME NEW lo \in Int, NEW hi \in Int, NEW c, NEW W, lo <= hi => c[lo] \in W[lo],
           \A g \in lo + 1 .. hi : c[g - 1] \in W[g - 1] => c[g] \in W[g]
    PROVE  \A g \in lo .. hi : c[g] \in W[g]
<1> DEFINE Bad == {m \in Nat : lo + m <= hi /\ c[lo + m] \notin W[lo + m]}
<1>1. Bad = {}
  <2>1. SUFFICES ASSUME Bad # {} PROVE FALSE
    OBVIOUS
  <2>2. PICK m \in Bad : \A n \in Bad : m <= n
    <3>1. Bad \in SUBSET Nat
      OBVIOUS
    <3> HIDE DEF Bad
    <3>2. QED
      BY <2>1, <3>1, LeastNatural
  <2>3. m \in Nat /\ lo + m <= hi /\ c[lo + m] \notin W[lo + m]
    BY <2>2
  <2>4. m # 0
    <3>1. m = 0 => lo + m = lo
      OBVIOUS
    <3>2. QED
      BY <2>3, <3>1
  <2>5. m - 1 \in Nat /\ m - 1 \notin Bad
    BY <2>2, <2>3, <2>4
  <2>6. PICK g : g = lo + m
    OBVIOUS
  <2>7. g \in lo + 1 .. hi /\ g - 1 = lo + (m - 1)
    BY <2>3, <2>4, <2>6
  <2>8. c[lo + (m - 1)] \in W[lo + (m - 1)]
    BY <2>3, <2>5
  <2>9. c[g - 1] \in W[g - 1]
    BY <2>7, <2>8
  <2>10. QED
    BY <2>3, <2>6, <2>7, <2>9
<1>2. ASSUME NEW g \in lo .. hi
      PROVE  c[g] \in W[g]
  <2>1. g - lo \in Nat /\ lo + (g - lo) = g
    OBVIOUS
  <2>2. g - lo \notin Bad
    BY <1>1
  <2>3. c[lo + (g - lo)] \in W[lo + (g - lo)]
    BY <2>1, <2>2
  <2>4. QED
    BY <2>1, <2>3
<1>3. QED
  BY <1>2

=============================================================================
