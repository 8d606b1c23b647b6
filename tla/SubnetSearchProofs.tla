------------------------- MODULE SubnetSearchProofs -------------------------
(* That the branch-and-bound search of a subnetwork returns an optimum, for   *)
(* every number of particles and every matrix of distances.                   *)
EXTENDS SubnetSearch, SumTheorems

N == Len(Order)
AnyLink == NextNet \cup {NONE}
Matrices == [PrevNet \X NextNet -> Nat]

-----------------------------------------------------------------------------
(* Order numbers the previous particles                                       *)

LEMMA OrderNumbers ==
    /\ N \in Nat \ {0}
    /\ Order \in Bijection(1 .. N, PrevNet)
    /\ Order \in [1 .. N -> PrevNet]
    /\ \A i, j \in 1 .. N : Order[i] = Order[j] => i = j
    /\ \A i \in 1 .. N : Order[i] \in PrevNet
<1>1. N \in Nat \ {0} /\ Order \in [1 .. N -> PrevNet]
  BY OrderAssumption DEF N
<1>2. \A p \in PrevNet : \E i \in 1 .. N : Order[i] = p
  BY DEF PrevNet, N
<1>3. Order \in Surjection(1 .. N, PrevNet)
  BY <1>1, <1>2 DEF Surjection
<1>4. IsFiniteSet(1 .. N) /\ Cardinality(1 .. N) = N
  BY <1>1, FS_Interval
<1>5. Order \in Injection(1 .. N, PrevNet)
  BY <1>3, <1>4, FS_SurjSameCardinalityImpliesInj, OrderAssumption DEF N
<1> QED
  BY <1>1, <1>3, <1>5 DEF Injection, IsInjective, Bijection

LEMMA IndexNumbers ==
    /\ \A p \in PrevNet : Index(p) \in 1 .. N /\ Order[Index(p)] = p
    /\ \A i \in 1 .. N : Index(Order[i]) = i
<1>1. \A p \in PrevNet : \E i \in 1 .. N : Order[i] = p
  BY DEF PrevNet, N
<1>2. \A p \in PrevNet : Index(p) \in 1 .. N /\ Order[Index(p)] = p
  BY <1>1 DEF Index, N
<1> QED
  BY <1>2, OrderNumbers

-----------------------------------------------------------------------------
(* What an assignment costs, up to the particle tried at a depth              *)

Costs(d, f) == [i \in 1 .. N |-> LinkCost(Order[i], f[Order[i]], d, NONE, MaxDispSq)]

CostTo(d, f, k) == Total(Costs(d, f), 1 .. k)

LEMMA CostsAreNumbers ==
    ASSUME NEW d \in Matrices, NEW f \in [PrevNet -> AnyLink]
    PROVE  \A i \in 1 .. N : Costs(d, f)[i] \in Nat
<1>1. \A i \in 1 .. N : Order[i] \in PrevNet /\ f[Order[i]] \in AnyLink
  BY OrderNumbers
<1>2. \A p \in PrevNet, n \in NextNet : d[p, n] \in Nat
  BY DEF Matrices
<1> QED
  BY <1>1, <1>2, DistAssumption DEF Costs, LinkCost, AnyLink

\* One particle more adds the cost of its link.
LEMMA CostGrows ==
    ASSUME NEW d \in Matrices, NEW f \in [PrevNet -> AnyLink], NEW k \in 1 .. N
    PROVE  /\ CostTo(d, f, k) \in Nat /\ CostTo(d, f, k - 1) \in Nat
           /\ CostTo(d, f, 0) = 0
           /\ CostTo(d, f, k) = Costs(d, f)[k] + CostTo(d, f, k - 1)
<1>1. N \in Nat /\ k \in Nat /\ k - 1 \in Nat /\ k \in 1 .. k
  BY OrderNumbers
<1>2. IsFiniteSet(1 .. k) /\ IsFiniteSet(1 .. (k - 1))
  BY <1>1, FS_Interval
<1>3. /\ \A i \in 1 .. k : Costs(d, f)[i] \in Nat
      /\ \A i \in 1 .. (k - 1) : Costs(d, f)[i] \in Nat
  BY <1>1, CostsAreNumbers
<1>4. (1 .. k) \ {k} = 1 .. (k - 1) /\ 1 .. 0 = {}
  BY <1>1
<1>5. /\ Total(Costs(d, f), 1 .. k) \in Nat
      /\ Total(Costs(d, f), {}) = 0
      /\ Total(Costs(d, f), 1 .. k) = Costs(d, f)[k] + Total(Costs(d, f), (1 .. k) \ {k})
  BY <1>1, <1>2, <1>3, TotalTakes
<1>6. Total(Costs(d, f), 1 .. (k - 1)) \in Nat
  BY <1>2, <1>3, TotalTakes
<1> QED
  BY <1>4, <1>5, <1>6 DEF CostTo

\* The whole costs no less than its beginning.
LEMMA BeginningCostsLess ==
    ASSUME NEW d \in Matrices, NEW f \in [PrevNet -> AnyLink], NEW k \in 0 .. N
    PROVE  /\ CostTo(d, f, k) \in Nat /\ CostTo(d, f, N) \in Nat
           /\ CostTo(d, f, k) <= CostTo(d, f, N)
<1>1. N \in Nat /\ k \in Nat
  BY OrderNumbers
<1>2. IsFiniteSet(1 .. N) /\ 1 .. k \in SUBSET (1 .. N) /\ (1 .. N) \ (1 .. k) \in SUBSET (1 .. N)
  BY <1>1, FS_Interval
<1>3. /\ Total(Costs(d, f), 1 .. N) \in Nat
      /\ Total(Costs(d, f), 1 .. k) \in Nat
      /\ Total(Costs(d, f), (1 .. N) \ (1 .. k)) \in Nat
  <2>1. \A S \in SUBSET (1 .. N) : IsFiniteSet(S) /\ \A i \in S : Costs(d, f)[i] \in Nat
    BY <1>2, FS_Subset, CostsAreNumbers
  <2>2. \A S \in SUBSET (1 .. N) : Total(Costs(d, f), S) \in Nat
    BY <2>1, TotalTakes
  <2> QED
    BY <1>2, <2>2
<1>4. Total(Costs(d, f), 1 .. N)
        = Total(Costs(d, f), 1 .. k) + Total(Costs(d, f), (1 .. N) \ (1 .. k))
  BY <1>2, CostsAreNumbers, TotalSplits
<1> QED
  BY <1>3, <1>4 DEF CostTo

\* A trial on a stack costs what every assignment that begins like it does.
LEMMA DispIsCost ==
    ASSUME NEW d \in Matrices, NEW f \in [PrevNet -> AnyLink], NEW c, Len(c) \in 0 .. N,
           \A i \in 1 .. Len(c) : f[Order[i]] = c[i]
    PROVE  MapThenSumSet(LAMBDA i : LinkCost(Order[i], c[i], d, NONE, MaxDispSq),
                         1 .. Len(c)) = CostTo(d, f, Len(c))
<1> DEFINE S == 1 .. Len(c)
           h == Costs(d, f)
           e(i) == LinkCost(Order[i], c[i], d, NONE, MaxDispSq)
           E == CHOOSE g : g = [s \in SUBSET S |->
                    IF s = {} THEN 0 ELSE e(Picked(s)) + g[s \ {Picked(s)}]]
<1>1. N \in Nat /\ IsFiniteSet(S) /\ S \in SUBSET (1 .. N)
  BY OrderNumbers, FS_Interval
<1>2. \A i \in S : h[i] = e(i)
  BY <1>1 DEF Costs
<1>3. MapThenSumSet(LAMBDA i : LinkCost(Order[i], c[i], d, NONE, MaxDispSq), S) = E[S]
  BY DEF MapThenSumSet, MapThenFoldSet, Picked
<1> HIDE DEF S, h
<1>4. PICK g : IsSum(g, h, S)
  BY <1>1, SumExists
<1>5. \A s \in SUBSET S : s # {} => h[Picked(s)] = e(Picked(s))
  BY <1>2, PickedIn
<1>6. ASSUME NEW w
      PROVE  IsSum(w, h, S) <=> w = [s \in SUBSET S |->
                 IF s = {} THEN 0 ELSE e(Picked(s)) + w[s \ {Picked(s)}]]
  <2> HIDE DEF e
  <2>1. [s \in SUBSET S |-> IF s = {} THEN 0 ELSE h[Picked(s)] + w[s \ {Picked(s)}]]
        = [s \in SUBSET S |-> IF s = {} THEN 0 ELSE e(Picked(s)) + w[s \ {Picked(s)}]]
    BY <1>5
  <2> QED
    BY <2>1 DEF IsSum
<1>7. IsSum(E, h, S)
  <2>1. \E w : w = [s \in SUBSET S |->
                 IF s = {} THEN 0 ELSE e(Picked(s)) + w[s \ {Picked(s)}]]
    BY <1>4, <1>6
  <2> HIDE DEF e
  <2>2. E = [s \in SUBSET S |-> IF s = {} THEN 0 ELSE e(Picked(s)) + E[s \ {Picked(s)}]]
    BY <2>1
  <2> HIDE DEF E
  <2> QED
    BY <2>2, <1>6
<1> HIDE DEF E
<1>8. Total(h, S) = E[S]
  BY <1>1, <1>7, TotalIs
<1> QED
  BY <1>3, <1>8 DEF S, h, CostTo

\* And the cost of an assignment is that of its last particle.
LEMMA CostOfAssignment ==
    ASSUME NEW d \in Matrices, NEW f \in [PrevNet -> AnyLink]
    PROVE  AssignmentCost(f, d, NONE, MaxDispSq) = CostTo(d, f, N)
<1> DEFINE e(p) == LinkCost(p, f[p], d, NONE, MaxDispSq)
           k == [p \in PrevNet |-> e(p)]
<1>1. N \in Nat /\ IsFiniteSet(1 .. N) /\ IsFiniteSet(PrevNet)
  BY OrderNumbers, FS_Interval, FS_Bijection, Fun_ExistsBij
<1>2. DOMAIN f = PrevNet /\ \A p \in PrevNet : k[p] = e(p)
  OBVIOUS
<1> HIDE DEF k
<1>3. AssignmentCost(f, d, NONE, MaxDispSq) = Total(k, PrevNet)
  BY <1>1, <1>2, AssignmentCostIs
<1>4. Total(k, PrevNet) = Total(Costs(d, f), 1 .. N)
  <2>1. \A p \in PrevNet : k[p] \in Nat
    <3>1. \A p \in PrevNet : k[p] = e(p)
      BY DEF k
    <3>2. \A p \in PrevNet : f[p] \in AnyLink
      OBVIOUS
    <3>3. \A p \in PrevNet, n \in NextNet : d[p, n] \in Nat
      BY DEF Matrices
    <3> QED
      BY <3>1, <3>2, <3>3, DistAssumption DEF LinkCost, AnyLink
  <2>2. \A i \in 1 .. N : Costs(d, f)[i] = k[Order[i]]
    BY OrderNumbers DEF Costs, k
  <2> QED
    BY <1>1, <2>1, <2>2, OrderNumbers, TotalRenamed
<1> QED
  BY <1>3, <1>4 DEF CostTo

-----------------------------------------------------------------------------
(* The invariant                                                              *)

\* The assignments of the subnetwork, as the reference definition has them.
Valid == {f \in [PrevNet -> AnyLink] :
            /\ \A p \in PrevNet : f[p] \in Cand(p) \cup {NONE}
            /\ InjectiveOn(f, NONE)}

CostOf(f) == CostTo(dist, f, N)

SearchTypes ==
    /\ dist \in [PrevNet \X NextNet -> DistVals] /\ IsSubnet
    /\ stack \in Seq([left : SUBSET NextNet, nulled : BOOLEAN])
    /\ Len(stack) <= N
    /\ cur \in Seq(AnyLink)
    /\ Len(cur) = IF Len(stack) = 0 THEN 0 ELSE Len(stack) - 1
    /\ minDisp \in Nat

\* The pairs on trial and those left to try are candidates, and no partner is on
\* trial twice.
TrialFits ==
    /\ \A i \in 1 .. Len(stack) : stack[i].left \in SUBSET Cand(Order[i])
    /\ \A i \in 1 .. Len(cur) : cur[i] \in Cand(Order[i]) \cup {NONE}
    /\ \A i, j \in 1 .. Len(cur) : i # j /\ cur[i] # NONE => cur[i] # cur[j]

\* Nothing is recorded and the bound is the first one, or an assignment is and
\* the bound is its cost.
Recorded ==
    \/ best = <<>> /\ minDisp = MaxDispSq * Bigger(Len(Order), Cardinality(NextNet))
    \/ /\ Len(best) = N
       /\ AsAssignment(best) \in Valid
       /\ minDisp = CostOf(AsAssignment(best))

\* Every assignment below the bound can still be come to.
Covered == \A f \in Valid : minDisp <= CostOf(f) \/ Reachable(f)

SearchInv == SearchTypes /\ TrialFits /\ Recorded /\ Covered

LEMMA DistTyped ==
    ASSUME SearchTypes
    PROVE  /\ dist \in Matrices
           /\ \A p \in PrevNet, n \in NextNet : dist[p, n] \in Nat
BY DistAssumption DEF SearchTypes, Matrices

\* They are the assignments of MinMatching.
LEMMA ValidIs ==
    Assignments(PrevNet, [p \in PrevNet |-> Cand(p)], NONE) = Valid
<1> DEFINE cand == [p \in PrevNet |-> Cand(p)]
           all == (UNION {cand[p] : p \in PrevNet}) \cup {NONE}
<1>1. \A p \in PrevNet : cand[p] = Cand(p) /\ Cand(p) \in SUBSET NextNet
  BY DEF Cand
<1>2. all \in SUBSET AnyLink /\ \A p \in PrevNet : Cand(p) \cup {NONE} \in SUBSET all
  BY <1>1 DEF AnyLink
<1>3. Assignments(PrevNet, cand, NONE) =
        {f \in [PrevNet -> all] : /\ \A p \in PrevNet : f[p] \in cand[p] \cup {NONE}
                                  /\ InjectiveOn(f, NONE)}
  BY DEF Assignments
<1> HIDE DEF all, cand
<1>4. ASSUME NEW f
      PROVE  f \in Assignments(PrevNet, cand, NONE) <=> f \in Valid
  BY <1>1, <1>2, <1>3 DEF Valid
<1> QED
  BY <1>4 DEF cand

-----------------------------------------------------------------------------
(* What the bound is compared with                                            *)

\* The call at this depth has tried every particle before Trying as f has it.
BeginsLike(f) == \A j \in 1 .. (depth - 1) : f[Order[j]] = cur[j]

LinkOf(f) == LinkCost(Trying, f[Trying], dist, NONE, MaxDispSq)

\* disp and the link of this depth are no more than the whole will cost.
LEMMA BoundIsBelow ==
    ASSUME SearchTypes, Active, NEW f \in Valid, BeginsLike(f)
    PROVE  /\ Disp \in Nat /\ LinkOf(f) \in Nat /\ CostOf(f) \in Nat
           /\ Disp + LinkOf(f) <= CostOf(f)
           /\ AtBase => CostOf(f) = Disp + LinkOf(f)
<1>1. /\ depth \in 1 .. N /\ Len(cur) = depth - 1 /\ Len(cur) \in 0 .. N
      /\ N \in Nat /\ N = Len(Order)
  BY OrderNumbers DEF SearchTypes, depth, Active, N
<1>2. f \in [PrevNet -> AnyLink] /\ dist \in Matrices
  BY DistTyped DEF Valid
<1>3. \A i \in 1 .. Len(cur) : f[Order[i]] = cur[i]
  BY <1>1 DEF BeginsLike
<1>4. Disp = CostTo(dist, f, depth - 1)
  <2>1. Disp = CostTo(dist, f, Len(cur))
    BY <1>1, <1>2, <1>3, DispIsCost DEF Disp
  <2> QED
    BY <2>1, <1>1
<1>5. Costs(dist, f)[depth] = LinkOf(f)
  BY <1>1 DEF Costs, LinkOf, Trying
<1>6. Costs(dist, f)[depth] \in Nat
  BY <1>1, <1>2, CostsAreNumbers
<1>7. /\ CostTo(dist, f, depth) \in Nat /\ CostTo(dist, f, depth - 1) \in Nat
      /\ CostTo(dist, f, depth) = Costs(dist, f)[depth] + CostTo(dist, f, depth - 1)
  BY <1>1, <1>2, CostGrows
<1>8. /\ CostTo(dist, f, N) \in Nat /\ CostTo(dist, f, depth) <= CostTo(dist, f, N)
  BY <1>1, <1>2, BeginningCostsLess
<1>9. CostTo(dist, f, depth) = Disp + LinkOf(f)
  BY <1>4, <1>5, <1>6, <1>7
<1>10. AtBase => depth = N
  BY DEF AtBase, N
<1> QED
  BY <1>4, <1>5, <1>6, <1>7, <1>8, <1>9, <1>10 DEF CostOf

\* An assignment never gives a next particle that is on trial before.
LEMMA NotRepeated ==
    ASSUME SearchTypes, Active, NEW f \in Valid, BeginsLike(f), f[Trying] # NONE
    PROVE  ~Repeated(f[Trying])
<1>1. /\ depth \in 1 .. N /\ Len(cur) = depth - 1 /\ N \in Nat
  BY OrderNumbers DEF SearchTypes, depth, Active, N
<1>2. ASSUME NEW i \in 1 .. Len(cur), cur[i] = f[Trying]
      PROVE  FALSE
  <2>1. i \in 1 .. N /\ i # depth /\ f[Order[i]] = f[Order[depth]]
    BY <1>1, <1>2 DEF BeginsLike, Trying
  <2>2. Order[i] # Order[depth] /\ Order[i] \in PrevNet /\ Order[depth] \in PrevNet
    BY <1>1, <2>1, OrderNumbers
  <2>3. f \in [PrevNet -> AnyLink]
    BY DEF Valid
  <2> QED
    BY <2>1, <2>2, <2>3 DEF Valid, InjectiveOn, Trying
<1> QED
  BY <1>2 DEF Repeated

\* A trial that the base case completes is an assignment, at the cost it has.
LEMMA TrialCompletes ==
    ASSUME SearchTypes, TrialFits, Active, AtBase,
           NEW x \in Cand(Trying) \cup {NONE}, x = NONE \/ ~Repeated(x)
    PROVE  /\ Len(Append(cur, x)) = N
           /\ AsAssignment(Append(cur, x)) \in Valid
           /\ CostOf(AsAssignment(Append(cur, x)))
                = Disp + LinkCost(Trying, x, dist, NONE, MaxDispSq)
<1> DEFINE s == Append(cur, x)
           f == AsAssignment(s)
<1>1. /\ depth = N /\ N \in Nat /\ N >= 1 /\ Len(cur) = N - 1 /\ Len(cur) \in Nat
      /\ cur \in Seq(AnyLink)
  BY OrderNumbers DEF SearchTypes, depth, Active, N, AtBase
<1>2. x \in AnyLink
  BY DEF Cand, AnyLink
<1>3. /\ Len(s) = N /\ s[N] = x /\ s \in Seq(AnyLink)
      /\ \A i \in 1 .. (N - 1) : s[i] = cur[i]
  BY <1>1, <1>2
<1> HIDE DEF s
<1>4. \A i \in 1 .. N : f[Order[i]] = s[i]
  BY IndexNumbers, OrderNumbers DEF AsAssignment
<1>5. f \in [PrevNet -> AnyLink]
  <2>1. \A p \in PrevNet : s[Index(p)] \in AnyLink
    BY <1>3, IndexNumbers
  <2> QED
    BY <2>1 DEF AsAssignment
<1> HIDE DEF f
<1>6. \A i \in 1 .. N : s[i] \in Cand(Order[i]) \cup {NONE}
  <2>1. s[N] \in Cand(Order[N]) \cup {NONE}
    BY <1>1, <1>3 DEF Trying
  <2>2. \A i \in 1 .. (N - 1) : s[i] \in Cand(Order[i]) \cup {NONE}
    BY <1>1, <1>3 DEF TrialFits
  <2>3. \A i \in 1 .. N : i = N \/ i \in 1 .. (N - 1)
    BY <1>1
  <2> QED
    BY <2>1, <2>2, <2>3
<1>7. \A i, j \in 1 .. N : i # j /\ s[i] # NONE => s[i] # s[j]
  <2>1. \A i, j \in 1 .. (N - 1) : i # j /\ s[i] # NONE => s[i] # s[j]
    BY <1>1, <1>3 DEF TrialFits
  <2>2. \A i \in 1 .. (N - 1) : s[i] = s[N] => s[i] = NONE
    BY <1>1, <1>3 DEF Repeated
  <2>3. \A i \in 1 .. N : i = N \/ i \in 1 .. (N - 1)
    BY <1>1
  <2> QED
    BY <2>1, <2>2, <2>3
<1>8. f \in Valid
  <2>1. \A p \in PrevNet : f[p] \in Cand(p) \cup {NONE}
    BY <1>4, <1>6, IndexNumbers
  <2>2. ASSUME NEW p \in PrevNet, NEW q \in PrevNet, p # q, f[p] # NONE
        PROVE  f[p] # f[q]
    <3>1. Index(p) # Index(q) /\ Index(p) \in 1 .. N /\ Index(q) \in 1 .. N
      BY <2>2, IndexNumbers
    <3>2. f[p] = s[Index(p)] /\ f[q] = s[Index(q)]
      BY <1>4, <3>1, IndexNumbers
    <3> QED
      BY <3>1, <3>2, <2>2, <1>7
  <2>3. DOMAIN f = PrevNet
    BY <1>5
  <2>4. InjectiveOn(f, NONE)
    BY <2>2, <2>3 DEF InjectiveOn
  <2> QED
    BY <1>5, <2>1, <2>4 DEF Valid
<1>9. BeginsLike(f)
  BY <1>1, <1>3, <1>4 DEF BeginsLike
<1>10. f[Trying] = x
  BY <1>1, <1>3, <1>4 DEF Trying
<1>11. CostOf(f) = Disp + LinkOf(f)
  BY <1>8, <1>9, BoundIsBelow
<1>12. LinkOf(f) = LinkCost(Trying, x, dist, NONE, MaxDispSq)
  BY <1>10 DEF LinkOf
<1> QED
  BY <1>3, <1>8, <1>11, <1>12 DEF f, s

-----------------------------------------------------------------------------
(* At the end                                                                 *)

LEMMA ProductGrows ==
    ASSUME NEW m \in Nat, NEW a \in Nat, NEW b \in Nat, a <= b
    PROVE  m * a \in Nat /\ m * b \in Nat /\ m * a <= m * b
OBVIOUS

\* Before anything is recorded the bound is above the cost of some assignment:
\* one candidate of the first particle, and no link for the others.
LEMMA FirstBoundIsBeaten ==
    ASSUME SearchTypes
    PROVE  \E f \in Valid :
              CostOf(f) < MaxDispSq * Bigger(Len(Order), Cardinality(NextNet))
<1>1. N \in Nat /\ N >= 1 /\ N = Len(Order) /\ Cardinality(NextNet) \in Nat /\ MaxDispSq \in Nat
  BY OrderNumbers, OrderAssumption, DistAssumption, FS_CardinalityType DEF N
<1>2. Order[1] \in PrevNet
  BY <1>1, OrderNumbers
<1>3. PICK n \in Cand(Order[1]) : TRUE
  BY <1>2 DEF SearchTypes, IsSubnet
<1> DEFINE none == [p \in PrevNet |-> NONE]
           f == [p \in PrevNet |-> IF p = Order[1] THEN n ELSE NONE]
<1>4. none \in [PrevNet -> AnyLink] /\ f \in [PrevNet -> AnyLink] /\ n \in NextNet /\ n # NONE
  BY OrderAssumption DEF AnyLink, Cand
<1>5. f \in Valid
  <2>1. \A p \in PrevNet : f[p] \in Cand(p) \cup {NONE}
    OBVIOUS
  <2>2. InjectiveOn(f, NONE)
    BY <1>4 DEF InjectiveOn
  <2> QED
    BY <1>4, <2>1, <2>2 DEF Valid
<1>6. /\ \A i \in 1 .. N : Costs(dist, none)[i] = MaxDispSq
      /\ Costs(dist, f)[1] < MaxDispSq
      /\ \A i \in 2 .. N : Costs(dist, f)[i] = MaxDispSq
  <2>1. \A i \in 1 .. N : none[Order[i]] = NONE
    BY OrderNumbers
  <2>2. f[Order[1]] = n /\ dist[Order[1], n] < MaxDispSq
    BY <1>2 DEF Cand
  <2>3. \A i \in 2 .. N : f[Order[i]] = NONE /\ i \in 1 .. N
    BY <1>1, OrderNumbers
  <2> HIDE DEF f, none
  <2>4. \A g, i : i \in 1 .. N =>
          Costs(dist, g)[i] = IF g[Order[i]] = NONE THEN MaxDispSq ELSE dist[Order[i], g[Order[i]]]
    BY DEF Costs, LinkCost
  <2>5. \A i \in 1 .. N : Costs(dist, none)[i] = MaxDispSq
    BY <2>1, <2>4
  <2>6. Costs(dist, f)[1] < MaxDispSq
    <3>1. 1 \in 1 .. N
      BY <1>1
    <3>2. Costs(dist, f)[1] = dist[Order[1], f[Order[1]]]
      BY <3>1, <2>2, <2>4, <1>4
    <3>3. Costs(dist, f)[1] = dist[Order[1], n]
      BY <3>2, <2>2
    <3> QED
      BY <3>3, <2>2
  <2>7. \A i \in 2 .. N : Costs(dist, f)[i] = MaxDispSq
    BY <2>3, <2>4
  <2> QED
    BY <2>5, <2>6, <2>7
<1> HIDE DEF f, none
<1>7. dist \in Matrices
  BY DistTyped
<1>8. \A k \in 1 .. N : /\ CostTo(dist, none, k) = MaxDispSq * k
                        /\ CostTo(dist, f, k) < MaxDispSq * k
  <2> DEFINE B == {k \in 1 .. N : ~ /\ CostTo(dist, none, k) = MaxDispSq * k
                                    /\ CostTo(dist, f, k) < MaxDispSq * k}
  <2> SUFFICES ASSUME B # {}
               PROVE  FALSE
    OBVIOUS
  <2>1. PICK k \in B : \A j \in B : k <= j
    <3>1. B \in SUBSET Nat
      BY <1>1
    <3> HIDE DEF B
    <3> QED
      BY <3>1, LeastNatural
  <2>2. k \in 1 .. N /\ k \in Nat
    BY <1>1
  <2>3. /\ CostTo(dist, none, 0) = 0 /\ CostTo(dist, f, 0) = 0
        /\ CostTo(dist, none, k) = MaxDispSq + CostTo(dist, none, k - 1)
        /\ CostTo(dist, f, k) = Costs(dist, f)[k] + CostTo(dist, f, k - 1)
        /\ CostTo(dist, none, k - 1) \in Nat /\ CostTo(dist, f, k - 1) \in Nat
        /\ Costs(dist, f)[k] \in Nat
    BY <2>2, <1>4, <1>6, <1>7, CostGrows, CostsAreNumbers
  <2>4. CASE k = 1
    BY <2>3, <2>4, <1>6, <1>1
  <2>5. CASE k # 1
    <3>1. k - 1 \in 1 .. N /\ k \in 2 .. N /\ k - 1 \notin B
      <4>1. k - 1 \in 1 .. N /\ k \in 2 .. N /\ ~(k <= k - 1)
        BY <2>2, <2>5, <1>1
      <4> HIDE DEF B
      <4> QED
        BY <4>1, <2>1
    <3>2. /\ CostTo(dist, none, k - 1) = MaxDispSq * (k - 1)
          /\ CostTo(dist, f, k - 1) < MaxDispSq * (k - 1)
      BY <3>1
    <3>3. MaxDispSq * k = MaxDispSq + MaxDispSq * (k - 1) /\ MaxDispSq * (k - 1) \in Nat
      BY <2>2, <2>5, <1>1
    <3>4. Costs(dist, f)[k] = MaxDispSq
      BY <3>1, <1>6
    <3>5. k \notin B
      BY <2>3, <3>2, <3>3, <3>4, <1>1
    <3> QED
      BY <3>5
  <2> QED
    BY <2>4, <2>5
<1>9. CostOf(f) < MaxDispSq * N /\ CostOf(f) \in Nat
  BY <1>1, <1>4, <1>7, <1>8, BeginningCostsLess DEF CostOf
<1>10. MaxDispSq * N <= MaxDispSq * Bigger(N, Cardinality(NextNet))
  <2>1. Bigger(N, Cardinality(NextNet)) \in Nat /\ N <= Bigger(N, Cardinality(NextNet))
    BY <1>1 DEF Bigger
  <2> QED
    BY <1>1, <2>1, ProductGrows
<1>11. MaxDispSq * N \in Nat /\ MaxDispSq * Bigger(N, Cardinality(NextNet)) \in Nat
  <2>1. Bigger(N, Cardinality(NextNet)) \in Nat
    BY <1>1 DEF Bigger
  <2> QED
    BY <1>1, <2>1
<1> QED
  BY <1>1, <1>5, <1>9, <1>10, <1>11

\* The optimum of MinMatching, in terms of these costs; there is one.
LEMMA OptimalIs ==
    ASSUME SearchTypes
    PROVE  /\ \A f : f \in Optimal <=> f \in Valid /\ \A g \in Valid : CostOf(f) <= CostOf(g)
           /\ \E f : f \in Optimal
           /\ \A f \in Valid : /\ AssignmentCost(f, dist, NONE, MaxDispSq) = CostOf(f)
                               /\ CostOf(f) \in Nat
<1> DEFINE costs == {AssignmentCost(f, dist, NONE, MaxDispSq) : f \in Valid}
<1>1. \A f \in Valid : /\ AssignmentCost(f, dist, NONE, MaxDispSq) = CostOf(f)
                       /\ CostOf(f) \in Nat
  <2>1. \A f \in Valid : f \in [PrevNet -> AnyLink]
    BY DEF Valid
  <2>2. \A f \in Valid : CostTo(dist, f, N) \in Nat
    <3>1. N \in 0 .. N
      BY OrderNumbers
    <3> QED
      BY <2>1, <3>1, DistTyped, BeginningCostsLess
  <2> QED
    BY <2>1, <2>2, DistTyped, CostOfAssignment DEF CostOf
<1>2. costs \in SUBSET Nat /\ costs # {}
  BY <1>1, FirstBoundIsBeaten
<1> HIDE DEF costs
<1>3. Min(costs) \in costs /\ \A c \in costs : Min(costs) <= c
  <2>1. \E m \in costs : \A c \in costs : m <= c
    BY <1>2, LeastNatural
  <2> QED
    BY <2>1 DEF Min
<1>4. Optimal = {f \in Valid : AssignmentCost(f, dist, NONE, MaxDispSq) = Min(costs)}
  BY ValidIs DEF Optimal, OptimalAssignments, costs
<1>5. \A f \in Valid : CostOf(f) \in costs
  BY <1>1 DEF costs
<1>6. PICK least \in Valid : CostOf(least) = Min(costs)
  BY <1>1, <1>3 DEF costs
<1>7. \A f \in Optimal : f \in Valid /\ \A g \in Valid : CostOf(f) <= CostOf(g)
  BY <1>1, <1>3, <1>4, <1>5
<1>8. ASSUME NEW f \in Valid, \A g \in Valid : CostOf(f) <= CostOf(g)
      PROVE  f \in Optimal
  <2>1. CostOf(f) <= Min(costs) /\ Min(costs) <= CostOf(f) /\ CostOf(f) \in Nat
        /\ Min(costs) \in Nat
    BY <1>1, <1>2, <1>3, <1>5, <1>6, <1>8
  <2>2. CostOf(f) = Min(costs)
    BY <2>1
  <2> QED
    BY <1>1, <1>4, <2>2
<1>9. least \in Optimal
  BY <1>1, <1>4, <1>6
<1> QED
  BY <1>1, <1>7, <1>8, <1>9

LEMMA InvMeansOptimal == SearchInv => SearchOptimal
<1> SUFFICES ASSUME SearchInv
             PROVE  SearchOptimal
  OBVIOUS
<1>1. SearchTypes /\ Recorded /\ Covered
  BY DEF SearchInv
<1>2. N \in Nat /\ N >= 1 /\ N = Len(Order)
  BY OrderNumbers DEF N
<1>3. best # <<>> => /\ Len(best) = N
                     /\ AsAssignment(best) \in Valid
                     /\ minDisp = CostOf(AsAssignment(best))
  BY <1>1 DEF Recorded
<1>4. BoundIsCost
  BY <1>1, <1>3, OptimalIs DEF BoundIsCost
<1>5. PICK f \in Optimal : TRUE
  BY <1>1, OptimalIs
<1>6. f \in Valid /\ \A g \in Valid : CostOf(f) <= CostOf(g)
  BY <1>1, OptimalIs
<1>7. ASSUME ~Reachable(f)
      PROVE  BestIsOptimal
  <2>1. minDisp <= CostOf(f) /\ minDisp \in Nat /\ \A g \in Valid : CostOf(g) \in Nat
    BY <1>1, <1>6, <1>7, OptimalIs DEF Covered, SearchTypes
  <2>2. CASE best = <<>> /\ minDisp = MaxDispSq * Bigger(Len(Order), Cardinality(NextNet))
    <3>1. PICK g \in Valid : CostOf(g) < minDisp
      BY <1>1, <2>2, FirstBoundIsBeaten
    <3>2. CostOf(f) <= CostOf(g)
      BY <1>6
    <3>3. FALSE
      BY <2>1, <3>1, <3>2, <1>6
    <3> QED
      BY <3>3
  <2>3. CASE /\ Len(best) = N
             /\ AsAssignment(best) \in Valid
             /\ minDisp = CostOf(AsAssignment(best))
    <3> DEFINE b == AsAssignment(best)
    <3> HIDE DEF b
    <3>1. b \in Valid /\ minDisp = CostOf(b)
      BY <2>3 DEF b
    <3>2. \A g \in Valid : CostOf(b) <= CostOf(g)
      BY <3>1, <2>1, <1>6
    <3>3. b \in Optimal
      BY <1>1, <3>1, <3>2, OptimalIs
    <3> QED
      BY <3>3, <2>3, <1>2 DEF BestIsOptimal, b
  <2> QED
    BY <2>2, <2>3, <1>1 DEF Recorded
<1>8. ~Active => ~Reachable(f)
  BY <1>1, OrderNumbers DEF Active, depth, Reachable, SearchTypes
<1> QED
  BY <1>4, <1>5, <1>7, <1>8 DEF SearchOptimal

-----------------------------------------------------------------------------
(* The steps                                                                  *)

LEMMA SearchStarts == Init => SearchInv
<1> SUFFICES ASSUME Init
             PROVE  SearchInv
  OBVIOUS
<1>1. /\ N \in Nat /\ N >= 1 /\ N = Len(Order) /\ Order[1] \in PrevNet
      /\ Cardinality(NextNet) \in Nat /\ MaxDispSq \in Nat
  BY OrderNumbers, OrderAssumption, DistAssumption, FS_CardinalityType DEF N
<1>2. /\ stack = <<Call(1)>> /\ Len(stack) = 1 /\ stack[1] = Call(1)
      /\ cur = <<>> /\ best = <<>>
      /\ minDisp = MaxDispSq * Bigger(Len(Order), Cardinality(NextNet))
      /\ dist \in [PrevNet \X NextNet -> DistVals] /\ IsSubnet
  BY DEF Init
<1>3. Call(1) \in [left : SUBSET NextNet, nulled : BOOLEAN]
  BY DEF Call, Cand
<1>4. minDisp \in Nat
  BY <1>1, <1>2 DEF Bigger
<1>5. SearchTypes
  BY <1>1, <1>2, <1>3, <1>4 DEF SearchTypes
<1>6. TrialFits /\ Recorded
  <2>1. \A i \in 1 .. Len(stack) : stack[i].left \in SUBSET Cand(Order[i])
    BY <1>2 DEF Call
  <2> QED
    BY <1>2, <2>1 DEF TrialFits, Recorded
<1>7. ASSUME NEW f \in Valid
      PROVE  Reachable(f)
  <2>1. f[Order[1]] \in Cand(Order[1]) \cup {NONE}
    BY <1>1 DEF Valid
  <2>2. f[Order[1]] \in stack[1].left \/ (f[Order[1]] = NONE /\ ~stack[1].nulled)
    BY <2>1, <1>2 DEF Call
  <2> QED
    BY <2>2, <1>2 DEF Reachable
<1> QED
  BY <1>5, <1>6, <1>7 DEF SearchInv, Covered

Calls == [left : SUBSET NextNet, nulled : BOOLEAN]

LEMMA AtTop ==
    ASSUME SearchTypes, Active
    PROVE  /\ depth \in 1 .. N /\ N \in Nat /\ N = Len(Order) /\ Len(cur) = depth - 1
           /\ stack \in Seq(Calls) /\ stack[depth] = Top /\ Top \in Calls
           /\ Trying \in PrevNet /\ Trying = Order[depth]
           /\ cur \in Seq(AnyLink)
<1>1. /\ depth \in 1 .. N /\ N \in Nat /\ N = Len(Order) /\ Len(cur) = depth - 1
      /\ stack \in Seq(Calls) /\ depth = Len(stack) /\ cur \in Seq(AnyLink)
  BY OrderNumbers DEF SearchTypes, Active, depth, N, Calls
<1>2. stack[depth] \in Calls
  BY <1>1
<1> QED
  BY <1>1, <1>2, OrderNumbers DEF Top, Trying

\* One turn of the loop of the innermost call.
LEMMA StackTurns ==
    ASSUME SearchTypes, Active, NEW r \in Calls
    PROVE  /\ [stack EXCEPT ![depth] = r] \in Seq(Calls)
           /\ Len([stack EXCEPT ![depth] = r]) = depth
           /\ [stack EXCEPT ![depth] = r][depth] = r
           /\ \A i \in 1 .. (depth - 1) : [stack EXCEPT ![depth] = r][i] = stack[i]
<1>1. depth = Len(stack) /\ depth \in Nat /\ depth \in 1 .. depth
  BY AtTop DEF depth
<1> QED
  BY <1>1, AtTop

LEMMA TurnOf ==
    ASSUME SearchTypes, Active
    PROVE  /\ Nulled = [stack EXCEPT ![depth] = [left |-> Top.left, nulled |-> TRUE]]
           /\ \A n : Advance(n) = [stack EXCEPT ![depth] =
                                     [left |-> Top.left \ {n}, nulled |-> Top.nulled]]
<1>1. Top \in Calls /\ stack[depth] = Top
  BY AtTop
<1>2. [Top EXCEPT !.nulled = TRUE] = [left |-> Top.left, nulled |-> TRUE]
  <2>1. \A b : [Top EXCEPT !.nulled = b] = [left |-> Top.left, nulled |-> b]
    BY <1>1 DEF Calls
  <2> QED
    BY <2>1, Zenon
<1>3. \A n : [Top EXCEPT !.left = Top.left \ {n}]
               = [left |-> Top.left \ {n}, nulled |-> Top.nulled]
  BY <1>1 DEF Calls
<1> QED
  BY <1>1, <1>2, <1>3 DEF Nulled, Advance

\* An outer call, or the innermost one, can still come to f.
OuterReach(f) ==
    \E i \in 1 .. (depth - 1) :
        /\ \A j \in 1 .. (i - 1) : f[Order[j]] = cur[j]
        /\ f[Order[i]] \in stack[i].left \/ (f[Order[i]] = NONE /\ ~stack[i].nulled)

LEMMA ReachSplits ==
    ASSUME SearchTypes, Active, NEW f, Reachable(f)
    PROVE  \/ OuterReach(f)
           \/ /\ BeginsLike(f)
              /\ f[Trying] \in Top.left \/ (f[Trying] = NONE /\ ~Top.nulled)
<1>1. PICK i \in 1 .. depth :
        /\ \A j \in 1 .. (i - 1) : f[Order[j]] = cur[j]
        /\ f[Order[i]] \in stack[i].left \/ (f[Order[i]] = NONE /\ ~stack[i].nulled)
  BY DEF Reachable, depth
<1>2. depth \in Nat /\ (i = depth \/ i \in 1 .. (depth - 1))
  BY AtTop
<1> QED
  BY <1>1, <1>2, AtTop DEF OuterReach, BeginsLike

LEMMA OuterStays ==
    ASSUME SearchTypes, Active, NEW f, OuterReach(f), Len(stack') \in Nat,
           depth - 1 <= Len(stack'),
           \A i \in 1 .. (depth - 1) : stack'[i] = stack[i],
           \A i \in 1 .. (depth - 2) : cur'[i] = cur[i]
    PROVE  Reachable(f)'
<1>1. PICK i \in 1 .. (depth - 1) :
        /\ \A j \in 1 .. (i - 1) : f[Order[j]] = cur[j]
        /\ f[Order[i]] \in stack[i].left \/ (f[Order[i]] = NONE /\ ~stack[i].nulled)
  BY DEF OuterReach
<1>2. depth \in Nat
  BY AtTop
<1>3. i \in 1 .. Len(stack') /\ \A j \in 1 .. (i - 1) : cur'[j] = cur[j]
  BY <1>2
<1> QED
  BY <1>1, <1>3 DEF Reachable

LEMMA SameNet ==
    ASSUME dist' = dist
    PROVE  /\ Valid' = Valid /\ IsSubnet' = IsSubnet
           /\ \A p : Cand(p)' = Cand(p)
           /\ \A f : CostOf(f)' = CostOf(f)
BY DEF Valid, Cand, IsSubnet, CostOf

\* The invariant is kept when the innermost call turns and the bound does not
\* grow: every assignment the turn gives up costs at least the new bound.
LEMMA TurnKeeps ==
    ASSUME SearchInv, Active, NEW r \in Calls, r.left \in SUBSET Top.left,
           stack' = [stack EXCEPT ![depth] = r], dist' = dist, cur' = cur,
           Recorded', minDisp' \in Nat, minDisp' <= minDisp,
           \A f \in Valid :
              /\ BeginsLike(f)
              /\ f[Trying] \in Top.left \/ (f[Trying] = NONE /\ ~Top.nulled)
              => \/ f[Trying] \in r.left \/ (f[Trying] = NONE /\ ~r.nulled)
                 \/ minDisp' <= CostOf(f)
    PROVE  SearchInv'
<1>0. SearchTypes /\ TrialFits /\ Covered
  BY DEF SearchInv
<1>1. /\ stack' \in Seq(Calls) /\ Len(stack') = depth /\ stack'[depth] = r
      /\ \A i \in 1 .. (depth - 1) : stack'[i] = stack[i]
  BY <1>0, StackTurns
<1>2. /\ depth \in 1 .. N /\ N \in Nat /\ Len(cur) = depth - 1 /\ depth = Len(stack)
      /\ Trying = Order[depth]
  BY <1>0, AtTop DEF depth
<1>3. SearchTypes'
  BY <1>0, <1>1, <1>2, SameNet DEF SearchTypes, Calls
<1>4. TrialFits'
  <2>1. \A i \in 1 .. depth : stack'[i].left \in SUBSET Cand(Order[i])
    <3>1. \A i \in 1 .. depth : i = depth \/ i \in 1 .. (depth - 1)
      BY <1>2
    <3>2. \A i \in 1 .. depth : stack[i].left \in SUBSET Cand(Order[i])
      BY <1>0, <1>2 DEF TrialFits
    <3>3. Top = stack[depth] /\ depth \in 1 .. depth
      BY <1>2 DEF Top
    <3>4. r.left \in SUBSET Cand(Order[depth])
      BY <3>2, <3>3
    <3>5. \A i \in 1 .. (depth - 1) : stack'[i].left \in SUBSET Cand(Order[i])
      <4>1. \A i \in 1 .. (depth - 1) : i \in 1 .. depth
        BY <1>2
      <4> QED
        BY <4>1, <1>1, <3>2, Zenon
    <3> QED
      BY <1>1, <3>1, <3>4, <3>5
  <2>2. \A i : Cand(Order[i])' = Cand(Order[i])
    BY DEF Cand
  <2> QED
    BY <1>0, <1>1, <2>1, <2>2 DEF TrialFits
<1>5. ASSUME NEW f \in Valid
      PROVE  minDisp' <= CostOf(f) \/ Reachable(f)'
  <2>0. CostOf(f) \in Nat /\ minDisp \in Nat
    BY <1>0, OptimalIs DEF SearchTypes
  <2>1. CASE minDisp <= CostOf(f)
    BY <2>0, <2>1
  <2>2. CASE Reachable(f)
    <3>1. CASE OuterReach(f)
      <4>1. Len(stack') \in Nat /\ depth - 1 <= Len(stack')
        BY <1>1, <1>2
      <4> QED
        BY <1>0, <1>1, <3>1, <4>1, OuterStays
    <3>2. CASE /\ BeginsLike(f)
               /\ f[Trying] \in Top.left \/ (f[Trying] = NONE /\ ~Top.nulled)
      <4>1. CASE f[Trying] \in r.left \/ (f[Trying] = NONE /\ ~r.nulled)
        <5>1. depth \in 1 .. Len(stack')
          BY <1>1, <1>2
        <5> QED
          BY <5>1, <4>1, <3>2, <1>1, <1>2 DEF Reachable, BeginsLike
      <4> QED
        BY <3>2, <4>1
    <3> QED
      BY <1>0, <2>2, <3>1, <3>2, ReachSplits
  <2> QED
    BY <1>0, <2>1, <2>2 DEF Covered
<1>6. Covered'
  BY <1>5, SameNet DEF Covered
<1> QED
  BY <1>3, <1>4, <1>6 DEF SearchInv

LEMMA RecordedStays ==
    ASSUME SearchTypes, Recorded, dist' = dist, best' = best, minDisp' = minDisp
    PROVE  Recorded'
<1>1. AsAssignment(best)' = AsAssignment(best)
  BY DEF AsAssignment, Index
<1> QED
  BY <1>1, SameNet DEF Recorded, CostOf

LEMMA AppendFacts ==
    ASSUME NEW S, NEW s \in Seq(S), NEW x \in S
    PROVE  /\ Append(s, x) \in Seq(S) /\ Len(Append(s, x)) = Len(s) + 1
           /\ Append(s, x)[Len(s) + 1] = x
           /\ \A i \in 1 .. Len(s) : Append(s, x)[i] = s[i]
OBVIOUS

\* The same when it turns and calls the search of the next particle.
LEMMA DescentKeeps ==
    ASSUME SearchInv, Active, ~AtBase, NEW x \in Cand(Trying) \cup {NONE},
           x = NONE \/ ~Repeated(x), NEW r \in Calls, r.left \in SUBSET Top.left,
           stack' = Append([stack EXCEPT ![depth] = r], Call(depth + 1)),
           cur' = Append(cur, x), dist' = dist, best' = best, minDisp' = minDisp,
           \A f \in Valid :
              /\ BeginsLike(f)
              /\ f[Trying] \in Top.left \/ (f[Trying] = NONE /\ ~Top.nulled)
              => \/ f[Trying] \in r.left \/ (f[Trying] = NONE /\ ~r.nulled)
                 \/ f[Trying] = x
    PROVE  SearchInv'
<1>0. SearchTypes /\ TrialFits /\ Covered /\ Recorded
  BY DEF SearchInv
<1>1. /\ depth \in 1 .. N /\ N \in Nat /\ Len(cur) = depth - 1 /\ depth = Len(stack)
      /\ Trying = Order[depth] /\ depth + 1 \in 1 .. N
      /\ cur \in Seq(AnyLink) /\ x \in AnyLink
  <2>1. /\ depth \in 1 .. N /\ N \in Nat /\ Len(cur) = depth - 1 /\ N = Len(Order)
        /\ Trying = Order[depth] /\ cur \in Seq(AnyLink)
    BY <1>0, AtTop
  <2>2. depth # N
    BY <2>1 DEF AtBase
  <2>3. depth + 1 \in 1 .. N
    BY <2>1, <2>2
  <2>4. x \in AnyLink
    BY DEF AnyLink, Cand
  <2> QED
    BY <2>1, <2>3, <2>4 DEF depth
<1> DEFINE t == [stack EXCEPT ![depth] = r]
<1>2. /\ t \in Seq(Calls) /\ Len(t) = depth /\ t[depth] = r
      /\ \A i \in 1 .. (depth - 1) : t[i] = stack[i]
  <2> QED
    BY <1>0, StackTurns, Zenon
<1>3. stack' = Append(t, Call(depth + 1))
  OBVIOUS
<1> HIDE DEF t
<1>4. Call(depth + 1) \in Calls
  BY DEF Call, Calls, Cand
<1>5. /\ stack' \in Seq(Calls) /\ Len(stack') = depth + 1
      /\ stack'[depth + 1] = Call(depth + 1) /\ stack'[depth] = r
      /\ \A i \in 1 .. (depth - 1) : stack'[i] = stack[i]
  <2> DEFINE c == Call(depth + 1)
  <2> HIDE DEF c
  <2>0. /\ Append(t, c) \in Seq(Calls) /\ Len(Append(t, c)) = Len(t) + 1
        /\ Append(t, c)[Len(t) + 1] = c
        /\ \A i \in 1 .. Len(t) : Append(t, c)[i] = t[i]
    <3>1. t \in Seq(Calls) /\ c \in Calls
      BY <1>2, <1>4 DEF c
    <3> QED
      BY <3>1, AppendFacts
  <2>1. stack' = Append(t, c)
    BY <1>3 DEF c
  <2>2. /\ stack' \in Seq(Calls) /\ Len(stack') = depth + 1 /\ stack'[depth + 1] = Call(depth + 1)
        /\ \A i \in 1 .. Len(t) : stack'[i] = t[i]
    BY <2>0, <2>1, <1>2, Zenon DEF c
  <2>3. depth \in 1 .. Len(t) /\ \A i \in 1 .. (depth - 1) : i \in 1 .. Len(t)
    BY <1>1, <1>2
  <2> QED
    BY <1>2, <2>2, <2>3
<1>6. /\ cur' \in Seq(AnyLink) /\ Len(cur') = depth /\ cur'[depth] = x
      /\ \A i \in 1 .. (depth - 1) : cur'[i] = cur[i]
  BY <1>1
<1>7. SearchTypes'
  BY <1>0, <1>1, <1>5, <1>6, SameNet DEF SearchTypes, Calls
<1>8. TrialFits'
  <2>1. \A i \in 1 .. depth : cur'[i] \in Cand(Order[i]) \cup {NONE}
    <3>1. \A i \in 1 .. (depth - 1) : cur'[i] \in Cand(Order[i]) \cup {NONE}
      BY <1>0, <1>1, <1>6 DEF TrialFits
    <3>2. cur'[depth] \in Cand(Order[depth]) \cup {NONE}
      BY <1>1, <1>6
    <3>3. \A i \in 1 .. depth : i = depth \/ i \in 1 .. (depth - 1)
      BY <1>1
    <3> QED
      BY <3>1, <3>2, <3>3
  <2>2. \A i, j \in 1 .. depth : i # j /\ cur'[i] # NONE => cur'[i] # cur'[j]
    <3>1. \A i, j \in 1 .. (depth - 1) : i # j /\ cur'[i] # NONE => cur'[i] # cur'[j]
      BY <1>0, <1>1, <1>6 DEF TrialFits
    <3>2. \A i \in 1 .. (depth - 1) : cur'[i] = x => x = NONE
      BY <1>1, <1>6 DEF Repeated
    <3>3. \A i \in 1 .. depth : i = depth \/ i \in 1 .. (depth - 1)
      BY <1>1
    <3> QED
      BY <1>6, <3>1, <3>2, <3>3
  <2>3. \A i : Cand(Order[i])' = Cand(Order[i])
    BY DEF Cand
  <2>4. \A i \in 1 .. (depth + 1) : stack'[i].left \in SUBSET Cand(Order[i])
    <3>1. \A i \in 1 .. (depth + 1) : i = depth + 1 \/ i = depth \/ i \in 1 .. (depth - 1)
      BY <1>1
    <3>2. \A i \in 1 .. depth : stack[i].left \in SUBSET Cand(Order[i])
      BY <1>0, <1>1 DEF TrialFits
    <3>3. Top = stack[depth] /\ depth \in 1 .. depth
      BY <1>1 DEF Top
    <3>4. stack'[depth].left \in SUBSET Cand(Order[depth])
      BY <1>5, <3>2, <3>3
    <3>5. \A i \in 1 .. (depth - 1) : stack'[i].left \in SUBSET Cand(Order[i])
      BY <1>1, <1>5, <3>2
    <3>6. stack'[depth + 1].left \in SUBSET Cand(Order[depth + 1])
      BY <1>5 DEF Call
    <3> QED
      BY <3>1, <3>4, <3>5, <3>6
  <2> QED
    BY <1>5, <1>6, <2>1, <2>2, <2>3, <2>4 DEF TrialFits
<1>9. ASSUME NEW f \in Valid
      PROVE  minDisp' <= CostOf(f) \/ Reachable(f)'
  <2>1. CASE minDisp <= CostOf(f)
    BY <2>1
  <2>2. CASE Reachable(f)
    <3>1. CASE OuterReach(f)
      <4>1. Len(stack') \in Nat /\ depth - 1 <= Len(stack')
        BY <1>1, <1>5
      <4>2. \A i \in 1 .. (depth - 2) : cur'[i] = cur[i]
        BY <1>1, <1>6
      <4> QED
        BY <1>0, <1>5, <3>1, <4>1, <4>2, OuterStays
    <3>2. CASE /\ BeginsLike(f)
               /\ f[Trying] \in Top.left \/ (f[Trying] = NONE /\ ~Top.nulled)
      <4>0. /\ depth \in 1 .. Len(stack') /\ depth + 1 \in 1 .. Len(stack')
            /\ \A j \in 1 .. (depth - 1) : f[Order[j]] = cur'[j]
        BY <1>1, <1>5, <1>6, <3>2 DEF BeginsLike
      <4>1. CASE f[Trying] \in r.left \/ (f[Trying] = NONE /\ ~r.nulled)
        BY <4>0, <4>1, <1>1, <1>5 DEF Reachable
      <4>2. CASE f[Trying] = x
        <5>0. \A j \in 1 .. ((depth + 1) - 1) : j = depth \/ j \in 1 .. (depth - 1)
          BY <1>1
        <5>1. \A j \in 1 .. ((depth + 1) - 1) : f[Order[j]] = cur'[j]
          BY <5>0, <4>0, <4>2, <1>1, <1>6
        <5>2. f[Order[depth + 1]] \in Cand(Order[depth + 1]) \cup {NONE}
          BY <1>1, OrderNumbers DEF Valid
        <5>3. \/ f[Order[depth + 1]] \in stack'[depth + 1].left
              \/ f[Order[depth + 1]] = NONE /\ ~stack'[depth + 1].nulled
          BY <5>2, <1>5 DEF Call
        <5> QED
          BY <4>0, <5>1, <5>3 DEF Reachable
      <4> QED
        BY <3>2, <4>1, <4>2
    <3> QED
      BY <1>0, <2>2, <3>1, <3>2, ReachSplits
  <2> QED
    BY <1>0, <2>1, <2>2 DEF Covered
<1>10. Covered'
  BY <1>9, SameNet DEF Covered
<1>11. Recorded'
  BY <1>0, RecordedStays
<1> QED
  BY <1>7, <1>8, <1>10, <1>11 DEF SearchInv

\* A call that has nothing left to try can come to nothing any more.
LEMMA ReturnKeeps == SearchInv /\ Return => SearchInv'
<1> SUFFICES ASSUME SearchInv, Return
             PROVE  SearchInv'
  OBVIOUS
<1>0. SearchTypes /\ TrialFits /\ Covered /\ Recorded /\ Active
  BY DEF SearchInv, Return
<1>1. /\ depth \in 1 .. N /\ N \in Nat /\ Len(cur) = depth - 1 /\ depth = Len(stack)
      /\ cur \in Seq(AnyLink) /\ stack \in Seq(Calls)
  BY <1>0, AtTop DEF depth
<1>2. /\ stack' = SubSeq(stack, 1, depth - 1) /\ cur' = SubSeq(cur, 1, depth - 2)
      /\ dist' = dist /\ minDisp' = minDisp /\ best' = best
      /\ Top.left = {} /\ Top.nulled
  BY DEF Return
<1>3. /\ stack' \in Seq(Calls) /\ Len(stack') = depth - 1
      /\ \A i \in 1 .. (depth - 1) : stack'[i] = stack[i]
  BY <1>1, <1>2
<1>4. /\ cur' \in Seq(AnyLink) /\ \A i \in 1 .. (depth - 2) : cur'[i] = cur[i]
      /\ Len(cur') = IF depth = 1 THEN 0 ELSE depth - 2
  <2>1. CASE depth = 1
    <3>1. cur = <<>> /\ cur' = <<>>
      BY <2>1, <1>1, <1>2
    <3> QED
      BY <2>1, <3>1
  <2>2. CASE depth # 1
    BY <2>2, <1>1, <1>2
  <2> QED
    BY <2>1, <2>2
<1>5. SearchTypes'
  BY <1>0, <1>1, <1>2, <1>3, <1>4, SameNet DEF SearchTypes, Calls
<1>6. TrialFits'
  <2>1. \A i \in 1 .. Len(cur') : i \in 1 .. Len(cur) /\ cur'[i] = cur[i]
    <3>1. CASE depth = 1
      <4>1. Len(cur') = 0
        BY <3>1, <1>4
      <4> QED
        BY <4>1
    <3>2. CASE depth # 1
      <4>1. Len(cur') = depth - 2
        BY <3>2, <1>4
      <4>2. \A i \in 1 .. (depth - 2) : i \in 1 .. Len(cur)
        BY <1>1
      <4> QED
        BY <4>1, <4>2, <1>4
    <3> QED
      BY <3>1, <3>2
  <2>2. \A i : Cand(Order[i])' = Cand(Order[i])
    BY <1>2 DEF Cand
  <2>3. \A i \in 1 .. Len(cur') : cur'[i] \in Cand(Order[i]) \cup {NONE}
    BY <2>1, <1>0 DEF TrialFits
  <2>4. \A i, j \in 1 .. Len(cur') : i # j /\ cur'[i] # NONE => cur'[i] # cur'[j]
    BY <2>1, <1>0 DEF TrialFits
  <2>5. \A i \in 1 .. Len(stack') : stack'[i].left \in SUBSET Cand(Order[i])
    <3>1. \A i \in 1 .. Len(stack') : i \in 1 .. Len(stack) /\ stack'[i] = stack[i]
      BY <1>1, <1>3
    <3>2. \A i \in 1 .. Len(stack) : stack[i].left \in SUBSET Cand(Order[i])
      BY <1>0 DEF TrialFits
    <3> QED
      BY <3>1, <3>2
  <2> QED
    BY <2>2, <2>3, <2>4, <2>5 DEF TrialFits
<1>7. ASSUME NEW f \in Valid
      PROVE  minDisp' <= CostOf(f) \/ Reachable(f)'
  <2>1. CASE minDisp <= CostOf(f)
    BY <2>1, <1>2
  <2>2. CASE Reachable(f)
    <3>1. OuterReach(f)
      BY <1>0, <1>2, <2>2, ReachSplits
    <3> QED
      BY <1>0, <1>1, <1>3, <1>4, <3>1, OuterStays
  <2> QED
    BY <1>0, <2>1, <2>2 DEF Covered
<1>8. Covered'
  BY <1>2, <1>7, SameNet DEF Covered
<1>9. Recorded'
  BY <1>0, <1>2, RecordedStays
<1> QED
  BY <1>5, <1>6, <1>8, <1>9 DEF SearchInv

LEMMA BaseLinkKeeps == \A n \in NextNet : SearchInv /\ BaseLink(n) => SearchInv'
<1> SUFFICES ASSUME NEW n \in NextNet, SearchInv, BaseLink(n)
             PROVE  SearchInv'
  OBVIOUS
<1>0. /\ SearchTypes /\ TrialFits /\ Recorded /\ Active /\ AtBase
      /\ n \in Top.left /\ n # NONE
  BY OrderAssumption DEF SearchInv, BaseLink, Nearest
<1>1. n \in Cand(Trying) /\ Top \in Calls
  BY <1>0, AtTop DEF TrialFits, depth
<1> DEFINE r == [left |-> Top.left \ {n}, nulled |-> Top.nulled]
<1>2. r \in Calls /\ r.left = Top.left \ {n} /\ r.nulled = Top.nulled
  BY <1>1 DEF Calls
<1>3. stack' = [stack EXCEPT ![depth] = r] /\ dist' = dist /\ cur' = cur
  BY <1>0, TurnOf DEF BaseLink
<1>4. LinkCost(Trying, n, dist, NONE, MaxDispSq) = dist[Trying, n]
  BY <1>0 DEF LinkCost
<1> HIDE DEF r
<1>5. CASE Disp + dist[Trying, n] < minDisp /\ ~Repeated(n)
  <2> DEFINE s == Append(cur, n)
  <2>1. /\ Len(s) = N /\ AsAssignment(s) \in Valid
        /\ CostOf(AsAssignment(s)) = Disp + dist[Trying, n]
    BY <1>0, <1>1, <1>4, <1>5, TrialCompletes
  <2>2. best' = s /\ minDisp' = Disp + dist[Trying, n]
    BY <1>5 DEF BaseLink
  <2> HIDE DEF s
  <2>3. minDisp' = CostOf(AsAssignment(s)) /\ minDisp' \in Nat /\ minDisp' <= minDisp
    <3>1. CostOf(AsAssignment(s)) \in Nat /\ minDisp \in Nat
      BY <1>0, <2>1, OptimalIs DEF SearchTypes
    <3>2. minDisp' = CostOf(AsAssignment(s)) /\ minDisp' < minDisp
      BY <2>1, <2>2, <1>5
    <3> QED
      BY <3>1, <3>2
  <2>4. AsAssignment(best)' = AsAssignment(s)
    BY <2>2 DEF AsAssignment
  <2>5. Recorded'
    BY <1>3, <2>1, <2>2, <2>3, <2>4, SameNet DEF Recorded, CostOf
  <2>6. ASSUME NEW f \in Valid, BeginsLike(f), f[Trying] = n
        PROVE  minDisp' <= CostOf(f)
    BY <1>0, <1>4, <2>2, <2>3, <2>6, BoundIsBelow DEF LinkOf
  <2> QED
    BY <1>0, <1>2, <1>3, <2>3, <2>5, <2>6, TurnKeeps
<1>6. CASE ~(Disp + dist[Trying, n] < minDisp /\ ~Repeated(n))
  <2>1. best' = best /\ minDisp' = minDisp /\ minDisp \in Nat
    BY <1>0, <1>6 DEF BaseLink, SearchTypes
  <2>2. Recorded' /\ minDisp' \in Nat /\ minDisp' <= minDisp
    BY <1>0, <1>3, <2>1, RecordedStays
  <2>3. ASSUME NEW f \in Valid, BeginsLike(f), f[Trying] = n
        PROVE  minDisp' <= CostOf(f)
    <3>1. ~Repeated(n)
      BY <1>0, <2>3, NotRepeated
    <3>2. CostOf(f) = Disp + LinkOf(f) /\ CostOf(f) \in Nat
      BY <1>0, <2>3, BoundIsBelow
    <3>3. LinkOf(f) = dist[Trying, n]
      BY <1>4, <2>3 DEF LinkOf
    <3>4. CostOf(f) = Disp + dist[Trying, n] /\ ~(Disp + dist[Trying, n] < minDisp)
      BY <1>6, <3>1, <3>2, <3>3
    <3>5. ~(CostOf(f) < minDisp)
      BY <3>4
    <3> QED
      BY <2>1, <3>2, <3>5
  <2> QED
    BY <1>0, <1>2, <1>3, <2>2, <2>3, TurnKeeps
<1> QED
  BY <1>5, <1>6

LEMMA DescendLinkKeeps == \A n \in NextNet : SearchInv /\ DescendLink(n) => SearchInv'
<1> SUFFICES ASSUME NEW n \in NextNet, SearchInv, DescendLink(n)
             PROVE  SearchInv'
  OBVIOUS
<1>0. /\ SearchTypes /\ TrialFits /\ Recorded /\ Active /\ ~AtBase
      /\ n \in Top.left /\ n # NONE
      /\ dist' = dist /\ best' = best /\ minDisp' = minDisp /\ minDisp \in Nat
  BY OrderAssumption DEF SearchInv, DescendLink, Nearest, SearchTypes
<1>1. n \in Cand(Trying) /\ Top \in Calls
  BY <1>0, AtTop DEF TrialFits, depth
<1> DEFINE r == [left |-> Top.left \ {n}, nulled |-> Top.nulled]
<1>2. r \in Calls /\ r.left = Top.left \ {n} /\ r.nulled = Top.nulled
  BY <1>1 DEF Calls
<1>3. Advance(n) = [stack EXCEPT ![depth] = r]
  BY <1>0, TurnOf
<1>4. LinkCost(Trying, n, dist, NONE, MaxDispSq) = dist[Trying, n]
  BY <1>0 DEF LinkCost
<1> HIDE DEF r
<1>5. CASE Disp + dist[Trying, n] > minDisp \/ Repeated(n)
  <2>1. stack' = [stack EXCEPT ![depth] = r] /\ cur' = cur
    BY <1>3, <1>5 DEF DescendLink
  <2>2. Recorded' /\ minDisp' \in Nat /\ minDisp' <= minDisp
    BY <1>0, RecordedStays
  <2>3. ASSUME NEW f \in Valid, BeginsLike(f), f[Trying] = n
        PROVE  minDisp' <= CostOf(f)
    <3>1. ~Repeated(n)
      BY <1>0, <2>3, NotRepeated
    <3>2. Disp + LinkOf(f) <= CostOf(f) /\ CostOf(f) \in Nat /\ Disp + LinkOf(f) \in Nat
      BY <1>0, <2>3, BoundIsBelow
    <3>3. LinkOf(f) = dist[Trying, n]
      BY <1>4, <2>3 DEF LinkOf
    <3>4. Disp + LinkOf(f) > minDisp
      BY <1>5, <3>1, <3>3
    <3> QED
      BY <1>0, <3>2, <3>4
  <2> QED
    BY <1>0, <1>2, <2>1, <2>2, <2>3, TurnKeeps
<1>6. CASE ~(Disp + dist[Trying, n] > minDisp \/ Repeated(n))
  <2>1. /\ stack' = Append([stack EXCEPT ![depth] = r], Call(depth + 1))
        /\ cur' = Append(cur, n)
    BY <1>3, <1>6 DEF DescendLink
  <2> QED
    BY <1>0, <1>1, <1>2, <1>6, <2>1, DescentKeeps
<1> QED
  BY <1>5, <1>6

LEMMA BaseNullKeeps == SearchInv /\ BaseNull => SearchInv'
<1> SUFFICES ASSUME SearchInv, BaseNull
             PROVE  SearchInv'
  OBVIOUS
<1>0. /\ SearchTypes /\ TrialFits /\ Recorded /\ Active /\ AtBase
      /\ Top.left = {} /\ ~Top.nulled
  BY DEF SearchInv, BaseNull, TryNull
<1>1. Top \in Calls
  BY <1>0, AtTop
<1> DEFINE r == [left |-> Top.left, nulled |-> TRUE]
<1>2. r \in Calls /\ r.left = Top.left /\ r.nulled
  BY <1>1 DEF Calls
<1>3. stack' = [stack EXCEPT ![depth] = r] /\ dist' = dist /\ cur' = cur
  BY <1>0, TurnOf DEF BaseNull
<1>4. LinkCost(Trying, NONE, dist, NONE, MaxDispSq) = MaxDispSq
  BY DEF LinkCost
<1> HIDE DEF r
<1>5. CASE Disp + MaxDispSq < minDisp
  <2> DEFINE s == Append(cur, NONE)
  <2>1. /\ Len(s) = N /\ AsAssignment(s) \in Valid
        /\ CostOf(AsAssignment(s)) = Disp + MaxDispSq
    <3>1. NONE \in Cand(Trying) \cup {NONE}
      OBVIOUS
    <3> QED
      BY <1>0, <1>4, <3>1, TrialCompletes
  <2>2. best' = s /\ minDisp' = Disp + MaxDispSq
    BY <1>5 DEF BaseNull
  <2> HIDE DEF s
  <2>3. minDisp' = CostOf(AsAssignment(s)) /\ minDisp' \in Nat /\ minDisp' <= minDisp
    <3>1. CostOf(AsAssignment(s)) \in Nat /\ minDisp \in Nat
      BY <1>0, <2>1, OptimalIs DEF SearchTypes
    <3>2. minDisp' = CostOf(AsAssignment(s)) /\ minDisp' < minDisp
      BY <2>1, <2>2, <1>5
    <3> QED
      BY <3>1, <3>2
  <2>4. AsAssignment(best)' = AsAssignment(s)
    BY <2>2 DEF AsAssignment
  <2>5. Recorded'
    BY <1>3, <2>1, <2>2, <2>3, <2>4, SameNet DEF Recorded, CostOf
  <2>6. ASSUME NEW f \in Valid, BeginsLike(f), f[Trying] = NONE
        PROVE  minDisp' <= CostOf(f)
    <3>1. CostOf(f) = Disp + LinkOf(f) /\ LinkOf(f) = MaxDispSq
      BY <1>0, <1>4, <2>6, BoundIsBelow DEF LinkOf
    <3> QED
      BY <2>2, <2>3, <3>1
  <2> QED
    BY <1>0, <1>2, <1>3, <2>3, <2>5, <2>6, TurnKeeps
<1>6. CASE ~(Disp + MaxDispSq < minDisp)
  <2>1. best' = best /\ minDisp' = minDisp /\ minDisp \in Nat
    BY <1>0, <1>6 DEF BaseNull, SearchTypes
  <2>2. Recorded' /\ minDisp' \in Nat /\ minDisp' <= minDisp
    BY <1>0, <1>3, <2>1, RecordedStays
  <2>3. ASSUME NEW f \in Valid, BeginsLike(f), f[Trying] = NONE
        PROVE  minDisp' <= CostOf(f)
    <3>1. CostOf(f) = Disp + LinkOf(f) /\ LinkOf(f) = MaxDispSq /\ CostOf(f) \in Nat
      BY <1>0, <1>4, <2>3, BoundIsBelow DEF LinkOf
    <3>2. ~(CostOf(f) < minDisp)
      BY <1>6, <3>1
    <3> QED
      BY <2>1, <3>1, <3>2
  <2> QED
    BY <1>0, <1>2, <1>3, <2>2, <2>3, TurnKeeps
<1> QED
  BY <1>5, <1>6

LEMMA DescendNullKeeps == SearchInv /\ DescendNull => SearchInv'
<1> SUFFICES ASSUME SearchInv, DescendNull
             PROVE  SearchInv'
  OBVIOUS
<1>0. /\ SearchTypes /\ TrialFits /\ Recorded /\ Active /\ ~AtBase
      /\ Top.left = {} /\ ~Top.nulled
      /\ dist' = dist /\ best' = best /\ minDisp' = minDisp /\ minDisp \in Nat
  BY DEF SearchInv, DescendNull, TryNull, SearchTypes
<1>1. Top \in Calls
  BY <1>0, AtTop
<1> DEFINE r == [left |-> Top.left, nulled |-> TRUE]
<1>2. r \in Calls /\ r.left = Top.left /\ r.nulled
  BY <1>1 DEF Calls
<1>3. Nulled = [stack EXCEPT ![depth] = r]
  BY <1>0, TurnOf
<1>4. LinkCost(Trying, NONE, dist, NONE, MaxDispSq) = MaxDispSq
  BY DEF LinkCost
<1> HIDE DEF r
<1>5. CASE Disp + MaxDispSq < minDisp
  <2>1. /\ stack' = Append([stack EXCEPT ![depth] = r], Call(depth + 1))
        /\ cur' = Append(cur, NONE)
    BY <1>3, <1>5 DEF DescendNull
  <2>2. NONE \in Cand(Trying) \cup {NONE}
    OBVIOUS
  <2> QED
    BY <1>0, <1>2, <2>1, <2>2, DescentKeeps
<1>6. CASE ~(Disp + MaxDispSq < minDisp)
  <2>1. stack' = [stack EXCEPT ![depth] = r] /\ cur' = cur
    BY <1>3, <1>6 DEF DescendNull
  <2>2. Recorded' /\ minDisp' \in Nat /\ minDisp' <= minDisp
    BY <1>0, RecordedStays
  <2>3. ASSUME NEW f \in Valid, BeginsLike(f), f[Trying] = NONE
        PROVE  minDisp' <= CostOf(f)
    <3>1. /\ Disp + LinkOf(f) <= CostOf(f) /\ LinkOf(f) = MaxDispSq /\ CostOf(f) \in Nat
          /\ Disp \in Nat /\ MaxDispSq \in Nat
      BY <1>0, <1>4, <2>3, BoundIsBelow, DistAssumption DEF LinkOf
    <3>2. minDisp <= Disp + MaxDispSq
      BY <1>0, <1>6, <3>1
    <3> QED
      BY <1>0, <3>1, <3>2
  <2> QED
    BY <1>0, <1>2, <2>1, <2>2, <2>3, TurnKeeps
<1> QED
  BY <1>5, <1>6

LEMMA SearchSteps == SearchInv /\ [Next]_vars => SearchInv'
<1> SUFFICES ASSUME SearchInv, [Next]_vars
             PROVE  SearchInv'
  OBVIOUS
<1>1. CASE \E n \in NextNet : BaseLink(n) \/ DescendLink(n)
  BY <1>1, BaseLinkKeeps, DescendLinkKeeps
<1>2. CASE BaseNull
  BY <1>2, BaseNullKeeps
<1>3. CASE DescendNull
  BY <1>3, DescendNullKeeps
<1>4. CASE Return
  BY <1>4, ReturnKeeps
<1>5. CASE UNCHANGED vars
  <2>1. SearchTypes /\ TrialFits /\ Recorded /\ Covered
    BY DEF SearchInv
  <2>2. /\ dist' = dist /\ stack' = stack /\ cur' = cur /\ minDisp' = minDisp /\ best' = best
    BY <1>5 DEF vars
  <2>3. SearchTypes' /\ TrialFits' /\ (\A f : Reachable(f)' = Reachable(f))
    BY <2>1, <2>2, SameNet DEF SearchTypes, TrialFits, Reachable, Cand
  <2>4. Recorded'
    BY <2>1, <2>2, RecordedStays
  <2>5. Covered'
    BY <2>1, <2>2, <2>3, SameNet DEF Covered
  <2> QED
    BY <2>3, <2>4, <2>5 DEF SearchInv
<1> QED
  BY <1>1, <1>2, <1>3, <1>4, <1>5 DEF Next

LEMMA InvMeansTyped == SearchInv => TypeOK
<1> SUFFICES ASSUME SearchInv
             PROVE  TypeOK
  OBVIOUS
<1>1. SearchTypes /\ Recorded
  BY DEF SearchInv
<1>2. N \in Nat /\ N >= 1 /\ N = Len(Order)
  BY OrderNumbers DEF N
<1>3. Len(best) \in {0, Len(Order)}
  BY <1>1, <1>2 DEF Recorded
<1>4. \A i \in 1 .. Len(stack) :
        stack[i].left \subseteq NextNet /\ stack[i].nulled \in BOOLEAN
  <2>1. stack \in Seq(Calls)
    BY <1>1 DEF SearchTypes, Calls
  <2>2. \A i \in 1 .. Len(stack) : stack[i] \in Calls
    BY <2>1
  <2>3. \A c \in Calls : c.left \subseteq NextNet /\ c.nulled \in BOOLEAN
    BY DEF Calls
  <2> QED
    BY <2>2, <2>3
<1>5. Len(cur) < Len(Order) /\ Len(stack) <= Len(Order) /\ minDisp \in Nat
  BY <1>1, <1>2 DEF SearchTypes
<1> QED
  BY <1>3, <1>4, <1>5 DEF TypeOK

-----------------------------------------------------------------------------
(* Every step leaves less work                                                *)

Base == Cardinality(NextNet) + 3

LEMMA WeightIs ==
    /\ Base \in Nat /\ Base >= 3
    /\ \A k \in 0 .. N : Weight[k] \in Nat \ {0}
    /\ \A k \in 1 .. N : Weight[k] = Base * Weight[k - 1]
<1>1. Base \in Nat /\ Base >= 3
  BY OrderAssumption, FS_CardinalityType DEF Base
<1>2. N \in Nat
  BY OrderNumbers
<1>3. PICK F : F = [x \in Int \X Nat |-> Base * x[2]]
  OBVIOUS
<1>4. PICK W : W = [g \in Int |-> Nat \ {0}]
  OBVIOUS
<1>5. \A a, b \in Nat \ {0} : a * b \in Nat \ {0}
  BY Z3
<1>6. ASSUME NEW g \in 0 + 1 .. N, NEW v, v \in W[g - 1]
      PROVE  F[<<g - 1, v>>] \in W[g]
  <2>1. v \in Nat \ {0} /\ g - 1 \in Int /\ g \in Int
    BY <1>2, <1>4, <1>6
  <2>2. F[<<g - 1, v>>] = Base * v
    BY <1>3, <2>1
  <2>3. Base * v \in Nat \ {0}
    BY <1>1, <1>5, <2>1
  <2> QED
    BY <1>4, <2>1, <2>2, <2>3
<1>7. 1 \in W[0]
  BY <1>4
<1>8. PICK c : IsChain(c, 0, N, 1, F, W)
  <2> DEFINE lo == 0
  <2>1. lo \in Int /\ N \in Int /\ 1 \in W[lo]
    BY <1>2, <1>7
  <2>2. \A g \in lo + 1 .. N : \A v : v \in W[g - 1] => F[<<g - 1, v>>] \in W[g]
    BY <1>6
  <2> HIDE DEF lo
  <2>3. \E c : IsChain(c, lo, N, 1, F, W)
    BY <2>1, <2>2, ChainExists
  <2> QED
    BY <2>3 DEF lo
<1>9. /\ c = [g \in 0 .. N |-> IF g = 0 THEN 1 ELSE F[<<g - 1, c[g - 1]>>]]
      /\ \A g \in 0 .. N : c[g] \in Nat \ {0}
  <2>1. /\ c = [g \in 0 .. N |-> IF g = 0 THEN 1 ELSE F[<<g - 1, c[g - 1]>>]]
        /\ \A g \in 0 .. N : c[g] \in W[g]
    BY <1>8 DEF IsChain
  <2>2. \A g \in 0 .. N : W[g] = Nat \ {0}
    BY <1>2, <1>4
  <2> QED
    BY <2>1, <2>2
<1>10. ASSUME NEW g \in 0 .. N, g # 0
       PROVE  F[<<g - 1, c[g - 1]>>] = Base * c[g - 1]
  <2>1. g - 1 \in 0 .. N
    BY <1>2, <1>10
  <2>2. c[g - 1] \in Nat
    BY <1>9, <2>1
  <2>3. PICK v, l : v = c[g - 1] /\ l = g - 1
    OBVIOUS
  <2>4. F[<<l, v>>] = Base * v
    BY <1>3, <2>1, <2>2, <2>3
  <2> QED
    BY <2>3, <2>4
<1>11. c = [k \in 0 .. N |-> IF k = 0 THEN 1 ELSE Base * c[k - 1]]
  BY <1>9, <1>10
<1>12. Weight = [k \in 0 .. N |-> IF k = 0 THEN 1 ELSE Base * Weight[k - 1]]
  BY <1>11 DEF Weight, Base, N
<1>13. ASSUME NEW k \in 1 .. N
       PROVE  Weight[k] = Base * Weight[k - 1]
  BY <1>2, <1>12
<1>14. Weight[0] = 1
  BY <1>2, <1>12
<1>15. \A k \in 0 .. N : Weight[k] \in W[k]
  <2> DEFINE lo == 0
  <2>1. lo \in Int /\ N \in Int /\ Weight[lo] \in W[lo]
    BY <1>2, <1>7, <1>14
  <2>2. ASSUME NEW g \in lo + 1 .. N, Weight[g - 1] \in W[g - 1]
        PROVE  Weight[g] \in W[g]
    <3>1. g \in 1 .. N /\ g - 1 \in Int /\ g \in Int
      BY <1>2
    <3>2. Weight[g - 1] \in Nat \ {0}
      BY <1>4, <2>2, <3>1
    <3>3. Weight[g] = Base * Weight[g - 1]
      BY <1>13, <3>1
    <3>4. Weight[g] \in Nat \ {0}
      BY <1>1, <1>5, <3>2, <3>3
    <3> QED
      BY <1>4, <3>1, <3>4
  <2> HIDE DEF lo
  <2>3. \A g \in lo .. N : Weight[g] \in W[g]
    BY <2>1, <2>2, ChainStays
  <2> QED
    BY <2>3 DEF lo
<1> QED
  BY <1>1, <1>2, <1>4, <1>13, <1>15

Shares(calls) == [i \in 1 .. Len(calls) |-> OptionsLeft(calls[i]) * Weight[N - i]]

LEMMA OptionsAre == \A r \in Calls : OptionsLeft(r) \in Nat /\ Cardinality(r.left) \in Nat
<1> TAKE r \in Calls
<1>1. IsFiniteSet(r.left)
  BY OrderAssumption, FS_Subset DEF Calls
<1>2. Cardinality(r.left) \in Nat
  BY <1>1, FS_CardinalityType
<1> QED
  BY <1>2 DEF OptionsLeft

LEMMA SharesAre ==
    ASSUME NEW calls \in Seq(Calls), Len(calls) <= N
    PROVE  /\ IsFiniteSet(1 .. Len(calls))
           /\ \A i \in 1 .. Len(calls) :
                 Shares(calls)[i] = OptionsLeft(calls[i]) * Weight[N - i] /\ Shares(calls)[i] \in Nat
           /\ WorkOf(calls) = Total(Shares(calls), 1 .. Len(calls))
<1>1. IsFiniteSet(1 .. Len(calls)) /\ Len(calls) \in Nat /\ N \in Nat
  BY FS_Interval, OrderNumbers
<1>2. ASSUME NEW i \in 1 .. Len(calls)
      PROVE  Shares(calls)[i] = OptionsLeft(calls[i]) * Weight[N - i] /\ Shares(calls)[i] \in Nat
  <2>1. OptionsLeft(calls[i]) \in Nat
    BY OptionsAre
  <2>2. Weight[N - i] \in Nat
    BY <1>1, WeightIs
  <2>3. \A a, b \in Nat : a * b \in Nat
    OBVIOUS
  <2> QED
    BY <2>1, <2>2, <2>3 DEF Shares
<1> DEFINE e(i) == OptionsLeft(calls[i]) * Weight[Len(Order) - i]
           S == 1 .. Len(calls)
           k == Shares(calls)
           E == CHOOSE g : g = [s \in SUBSET S |->
                    IF s = {} THEN 0 ELSE e(Picked(s)) + g[s \ {Picked(s)}]]
<1>3. WorkOf(calls) = E[S]
  BY DEF WorkOf, MapThenSumSet, MapThenFoldSet, Picked
<1>4. \A i \in S : k[i] = e(i)
  BY <1>2 DEF N
<1> HIDE DEF S, k, e
<1>5. \A s \in SUBSET S : s # {} => k[Picked(s)] = e(Picked(s))
  BY <1>4, PickedIn
<1>6. IsFiniteSet(S)
  BY <1>1 DEF S
<1>7. PICK g : IsSum(g, k, S)
  BY <1>6, SumExists
<1>8. ASSUME NEW w
      PROVE  IsSum(w, k, S) <=> w = [s \in SUBSET S |->
                 IF s = {} THEN 0 ELSE e(Picked(s)) + w[s \ {Picked(s)}]]
  <2>1. [s \in SUBSET S |-> IF s = {} THEN 0 ELSE k[Picked(s)] + w[s \ {Picked(s)}]]
        = [s \in SUBSET S |-> IF s = {} THEN 0 ELSE e(Picked(s)) + w[s \ {Picked(s)}]]
    BY <1>5
  <2> QED
    BY <2>1 DEF IsSum
<1>9. IsSum(E, k, S)
  <2>1. \E w : w = [s \in SUBSET S |->
                 IF s = {} THEN 0 ELSE e(Picked(s)) + w[s \ {Picked(s)}]]
    BY <1>7, <1>8
  <2>2. E = [s \in SUBSET S |-> IF s = {} THEN 0 ELSE e(Picked(s)) + E[s \ {Picked(s)}]]
    BY <2>1
  <2> HIDE DEF E
  <2> QED
    BY <2>2, <1>8
<1> HIDE DEF E
<1>10. S \in SUBSET S
  OBVIOUS
<1>11. Total(k, S) = E[S]
  BY <1>6, <1>9, <1>10, TotalIs
<1> QED
  BY <1>1, <1>2, <1>3, <1>11 DEF S, k

\* What the innermost call of a stack has left, and the calls outside it.
LEMMA WorkTakes ==
    ASSUME NEW calls \in Seq(Calls), NEW outer \in Seq(Calls), Len(calls) <= N,
           Len(calls) = Len(outer) + 1, \A i \in 1 .. Len(outer) : calls[i] = outer[i]
    PROVE  /\ WorkOf(outer) \in Nat
           /\ WorkOf(calls) = OptionsLeft(calls[Len(calls)]) * Weight[N - Len(calls)] + WorkOf(outer)
<1> DEFINE n == Len(calls)
<1>1. n \in Nat /\ Len(outer) \in Nat /\ N \in Nat /\ n \in 1 .. n /\ Len(outer) <= N
  BY OrderNumbers
<1>2. 1 .. Len(outer) = (1 .. n) \ {n}
  BY <1>1
<1>3. /\ IsFiniteSet(1 .. n) /\ \A i \in 1 .. n : Shares(calls)[i] \in Nat
      /\ WorkOf(calls) = Total(Shares(calls), 1 .. n)
      /\ Shares(calls)[n] = OptionsLeft(calls[n]) * Weight[N - n]
  BY <1>1, SharesAre
<1>4. /\ IsFiniteSet(1 .. Len(outer)) /\ \A i \in 1 .. Len(outer) : Shares(outer)[i] \in Nat
      /\ WorkOf(outer) = Total(Shares(outer), 1 .. Len(outer))
  BY <1>1, SharesAre
<1>5. Total(Shares(calls), 1 .. n) = Shares(calls)[n] + Total(Shares(calls), (1 .. n) \ {n})
  BY <1>1, <1>3, TotalTakes
<1>6. \A i \in 1 .. Len(outer) : Shares(calls)[i] = Shares(outer)[i]
  BY <1>1 DEF Shares
<1>7. Total(Shares(calls), 1 .. Len(outer)) = Total(Shares(outer), 1 .. Len(outer))
  BY <1>4, <1>6, TotalAgrees
<1>8. Total(Shares(outer), 1 .. Len(outer)) \in Nat
  BY <1>4, TotalTakes
<1> QED
  BY <1>2, <1>3, <1>4, <1>5, <1>7, <1>8

Outer == SubSeq(stack, 1, depth - 1)

LEMMA OuterCalls ==
    ASSUME SearchTypes, Active
    PROVE  /\ Outer \in Seq(Calls) /\ Len(Outer) = depth - 1
           /\ \A i \in 1 .. depth - 1 : Outer[i] = stack[i]
<1>1. depth = Len(stack) /\ depth \in 1 .. N /\ stack \in Seq(Calls) /\ N \in Nat
  BY AtTop DEF depth
<1> QED
  BY <1>1 DEF Outer

\* A turn of the innermost call leaves it less to do, even if it makes a call.
LEMMA TurnTakesWork ==
    ASSUME SearchInv, Active, NEW r \in Calls, OptionsLeft(r) + 1 = OptionsLeft(Top),
           NEW turned, turned = [stack EXCEPT ![depth] = r]
    PROVE  /\ WorkOf(turned) < WorkOf(stack)
           /\ ~AtBase => WorkOf(Append(turned, Call(depth + 1))) < WorkOf(stack)
<1>1. SearchTypes
  BY DEF SearchInv
<1>2. /\ depth \in 1 .. N /\ N \in Nat /\ depth = Len(stack) /\ stack \in Seq(Calls)
      /\ stack[depth] = Top /\ Top \in Calls
  BY <1>1, AtTop DEF depth
<1>3. /\ Outer \in Seq(Calls) /\ Len(Outer) = depth - 1
      /\ \A i \in 1 .. depth - 1 : Outer[i] = stack[i]
  BY <1>1, OuterCalls
<1>4. /\ turned \in Seq(Calls) /\ Len(turned) = depth /\ turned[depth] = r
      /\ \A i \in 1 .. depth - 1 : turned[i] = stack[i]
  BY <1>1, StackTurns
<1>5. PICK w : w = Weight[N - depth]
  OBVIOUS
<1>6. w \in Nat \ {0}
  BY <1>2, <1>5, WeightIs
<1>7. PICK o : o = OptionsLeft(r)
  OBVIOUS
<1>8. o \in Nat /\ OptionsLeft(Top) = o + 1
  BY <1>7, OptionsAre
<1>9. WorkOf(Outer) \in Nat /\ WorkOf(stack) = (o + 1) * w + WorkOf(Outer)
  <2>1. /\ WorkOf(Outer) \in Nat
        /\ WorkOf(stack) = OptionsLeft(stack[Len(stack)]) * Weight[N - Len(stack)] + WorkOf(Outer)
    BY <1>2, <1>3, WorkTakes
  <2> QED
    BY <1>2, <1>5, <1>8, <2>1
<1>10. WorkOf(turned) = o * w + WorkOf(Outer)
  <2>1. /\ turned \in Seq(Calls) /\ Len(turned) <= N /\ Len(turned) = Len(Outer) + 1
        /\ \A i \in 1 .. Len(Outer) : turned[i] = Outer[i]
    BY <1>2, <1>3, <1>4
  <2>2. WorkOf(turned) = OptionsLeft(turned[Len(turned)]) * Weight[N - Len(turned)] + WorkOf(Outer)
    BY <1>3, <2>1, WorkTakes
  <2> QED
    BY <1>4, <1>5, <1>7, <2>2
<1>11. o * w \in Nat /\ (o + 1) * w = o * w + w
  BY <1>6, <1>8
<1>12. WorkOf(turned) < WorkOf(stack)
  BY <1>6, <1>9, <1>10, <1>11
<1>13. ASSUME ~AtBase
       PROVE  WorkOf(Append(turned, Call(depth + 1))) < WorkOf(stack)
  <2>1. depth < N /\ depth + 1 \in 1 .. N
    BY <1>2, <1>13 DEF AtBase, N
  <2>2. PICK c : c = Call(depth + 1)
    OBVIOUS
  <2>3. c \in Calls /\ c.left \in SUBSET NextNet /\ c.nulled = FALSE
    <3>1. \A p : Cand(p) \in SUBSET NextNet
      BY Zenon DEF Cand
    <3> QED
      BY <2>2, <3>1 DEF Call, Calls
  <2>4. OptionsLeft(c) \in Nat /\ OptionsLeft(c) < Base
    <3>1. Cardinality(c.left) <= Cardinality(NextNet) /\ Cardinality(c.left) \in Nat
      BY <2>3, OrderAssumption, FS_Subset, FS_CardinalityType
    <3>2. Cardinality(NextNet) \in Nat
      BY OrderAssumption, FS_CardinalityType
    <3> QED
      BY <2>3, <3>1, <3>2 DEF OptionsLeft, Base
  <2>5. PICK v : v = Weight[N - (depth + 1)]
    OBVIOUS
  <2>6. v \in Nat \ {0} /\ w = Base * v
    <3>1. N - depth \in 1 .. N /\ N - depth - 1 = N - (depth + 1) /\ N - (depth + 1) \in 0 .. N
      BY <1>2, <2>1
    <3> QED
      BY <1>5, <2>5, <3>1, WeightIs
  <2>7. PICK a : a = Append(turned, c)
    OBVIOUS
  <2>8. /\ a \in Seq(Calls) /\ Len(a) = depth + 1 /\ a[depth + 1] = c
        /\ \A i \in 1 .. depth : a[i] = turned[i]
    BY <1>2, <1>4, <2>3, <2>7
  <2>9. WorkOf(a) = OptionsLeft(c) * v + WorkOf(turned)
    <3>1. /\ a \in Seq(Calls) /\ Len(a) <= N /\ Len(a) = Len(turned) + 1
          /\ \A i \in 1 .. Len(turned) : a[i] = turned[i]
      BY <1>2, <1>4, <2>1, <2>8
    <3>2. WorkOf(a) = OptionsLeft(a[Len(a)]) * Weight[N - Len(a)] + WorkOf(turned)
      BY <1>4, <3>1, WorkTakes
    <3> QED
      BY <2>5, <2>8, <3>2
  <2>10. OptionsLeft(c) * v \in Nat /\ OptionsLeft(c) * v < Base * v
    <3>1. \A x, y \in Nat, z \in Nat \ {0} : x < y => x * z \in Nat /\ x * z < y * z
      BY Z3
    <3> QED
      BY <2>4, <2>6, <3>1, WeightIs
  <2>11. WorkOf(a) < WorkOf(stack)
    BY <1>6, <1>9, <1>10, <1>11, <2>6, <2>9, <2>10
  <2> QED
    BY <2>2, <2>7, <2>11
<1> QED
  BY <1>12, <1>13

\* A candidate less, or the null link tried.
LEMMA TurnCounts ==
    ASSUME SearchTypes, Active
    PROVE  /\ \A n \in Top.left :
                 /\ [left |-> Top.left \ {n}, nulled |-> Top.nulled] \in Calls
                 /\ OptionsLeft([left |-> Top.left \ {n}, nulled |-> Top.nulled]) + 1 = OptionsLeft(Top)
           /\ ~Top.nulled =>
                 /\ [left |-> Top.left, nulled |-> TRUE] \in Calls
                 /\ OptionsLeft([left |-> Top.left, nulled |-> TRUE]) + 1 = OptionsLeft(Top)
<1>1. Top \in Calls
  BY AtTop
<1>2. IsFiniteSet(Top.left) /\ Cardinality(Top.left) \in Nat
  BY <1>1, OrderAssumption, FS_Subset, FS_CardinalityType DEF Calls
<1>3. ASSUME NEW n \in Top.left
      PROVE  Cardinality(Top.left \ {n}) = Cardinality(Top.left) - 1
  BY <1>2, FS_RemoveElement
<1> QED
  BY <1>1, <1>2, <1>3 DEF OptionsLeft, Calls

\* Every step of the search leaves less to be done.
LEMMA WorkShrinks == SearchInv /\ Next => Work' < Work
<1> SUFFICES ASSUME SearchInv, Next
             PROVE  WorkOf(stack') < WorkOf(stack)
  BY Zenon DEF Work
<1>1. SearchTypes
  BY DEF SearchInv
<1>2. ASSUME NEW n \in NextNet, BaseLink(n) \/ DescendLink(n)
      PROVE  WorkOf(stack') < WorkOf(stack)
  <2>1. Active /\ n \in Top.left
    BY <1>2, Zenon DEF BaseLink, DescendLink, Nearest
  <2>2. PICK r : r = [left |-> Top.left \ {n}, nulled |-> Top.nulled]
    OBVIOUS
  <2>3. r \in Calls /\ OptionsLeft(r) + 1 = OptionsLeft(Top)
    BY <1>1, <2>1, <2>2, TurnCounts
  <2>4. Advance(n) = [stack EXCEPT ![depth] = r]
    BY <1>1, <2>1, <2>2, TurnOf
  <2>5. /\ WorkOf(Advance(n)) < WorkOf(stack)
        /\ ~AtBase => WorkOf(Append(Advance(n), Call(depth + 1))) < WorkOf(stack)
    BY <2>1, <2>3, <2>4, TurnTakesWork
  <2>6. stack' = Advance(n) \/ (~AtBase /\ stack' = Append(Advance(n), Call(depth + 1)))
    BY <1>2, Zenon DEF BaseLink, DescendLink
  <2> QED
    BY <2>5, <2>6
<1>3. ASSUME BaseNull \/ DescendNull
      PROVE  WorkOf(stack') < WorkOf(stack)
  <2>1. Active /\ ~Top.nulled
    BY <1>3 DEF BaseNull, DescendNull, TryNull
  <2>2. PICK r : r = [left |-> Top.left, nulled |-> TRUE]
    OBVIOUS
  <2>3. r \in Calls /\ OptionsLeft(r) + 1 = OptionsLeft(Top)
    BY <1>1, <2>1, <2>2, TurnCounts
  <2>4. Nulled = [stack EXCEPT ![depth] = r]
    BY <1>1, <2>1, <2>2, TurnOf
  <2>5. /\ WorkOf(Nulled) < WorkOf(stack)
        /\ ~AtBase => WorkOf(Append(Nulled, Call(depth + 1))) < WorkOf(stack)
    BY <2>1, <2>3, <2>4, TurnTakesWork
  <2>6. stack' = Nulled \/ (~AtBase /\ stack' = Append(Nulled, Call(depth + 1)))
    BY <1>3 DEF BaseNull, DescendNull
  <2> QED
    BY <2>5, <2>6
<1>4. ASSUME Return
      PROVE  WorkOf(stack') < WorkOf(stack)
  <2>1. Active /\ Top.left = {} /\ Top.nulled /\ stack' = Outer
    BY <1>4 DEF Return, Outer
  <2>2. /\ depth \in 1 .. N /\ N \in Nat /\ depth = Len(stack) /\ stack \in Seq(Calls)
        /\ stack[depth] = Top
    BY <1>1, <2>1, AtTop DEF depth
  <2>3. /\ Outer \in Seq(Calls) /\ Len(Outer) = depth - 1
        /\ \A i \in 1 .. depth - 1 : Outer[i] = stack[i]
    BY <1>1, <2>1, OuterCalls
  <2>4. /\ WorkOf(Outer) \in Nat
        /\ WorkOf(stack) = OptionsLeft(stack[Len(stack)]) * Weight[N - Len(stack)] + WorkOf(Outer)
    BY <2>2, <2>3, WorkTakes
  <2>5. OptionsLeft(Top) = 1
    BY <2>1, FS_EmptySet DEF OptionsLeft
  <2>6. Weight[N - depth] \in Nat \ {0}
    BY <2>2, WeightIs
  <2> QED
    BY <2>1, <2>2, <2>4, <2>5, <2>6
<1> QED
  BY <1>2, <1>3, <1>4 DEF Next

LEMMA WorkIsNatural == SearchInv => Work \in Nat
<1> SUFFICES ASSUME SearchInv
             PROVE  WorkOf(stack) \in Nat
  BY Zenon DEF Work
<1>1. stack \in Seq(Calls) /\ Len(stack) <= N
  BY DEF SearchInv, SearchTypes, Calls
<1>2. /\ IsFiniteSet(1 .. Len(stack)) /\ \A i \in 1 .. Len(stack) : Shares(stack)[i] \in Nat
      /\ WorkOf(stack) = Total(Shares(stack), 1 .. Len(stack))
  BY <1>1, SharesAre
<1> QED
  BY <1>2, TotalTakes

-----------------------------------------------------------------------------
(* The theorems                                                               *)

\* The recursion is never deeper than the subnetwork has particles, and what it
\* tries and records has the length it should.
THEOREM SearchTyped == Spec => []TypeOK
<1> QED
  BY SearchStarts, SearchSteps, InvMeansTyped, PTL DEF Spec

\* Branch and bound of recur_fnc_pn: the shared bound is always the cost of the
\* recorded assignment, no pruning cuts the last optimum off, and what is
\* recorded at the end is an assignment of the lowest cost.
THEOREM SearchFindsOptimum == Spec => []SearchOptimal
<1> QED
  BY SearchStarts, SearchSteps, InvMeansOptimal, PTL DEF Spec

\* However the calls of recur_fnc_pn descend and return, each turn of a loop
\* leaves less to be done, and there is never less than nothing: the search of a
\* subnetwork of any size ends.
THEOREM SearchShrinks == Spec => WorkFalls /\ [](Work \in Nat)
<1>1. SearchInv /\ [Next]_vars => [Work' < Work]_vars
  BY WorkShrinks
<1>2. Spec => WorkFalls
  BY <1>1, SearchStarts, SearchSteps, PTL DEF Spec, WorkFalls
<1>3. Spec => [](Work \in Nat)
  BY SearchStarts, SearchSteps, WorkIsNatural, PTL DEF Spec
<1> QED
  BY <1>2, <1>3

=============================================================================
