---------------------------- MODULE SubnetSearch ----------------------------
(* The branch-and-bound search of one subnetwork, track_list::recur_fnc_pn    *)
(* (common_src/cxx/track_list.cpp), and its call in link_sub_ntwrk.  The      *)
(* recursion is kept as the stack of its active calls, one step per turn of a *)
(* loop, so that the bound min_disp is the one in force when a branch is      *)
(* taken: it tightens while outer calls are half way through their lists.     *)
(*                                                                            *)
(* The set of previous particles is walked in pointer order, which is no      *)
(* order of the program's: Order is any one of them, and since the distances  *)
(* range over all functions every order is covered.  Candidate lists are      *)
(* sorted by distance; candidates at equal distance come in any order.        *)
EXTENDS Naturals, Sequences, FiniteSets, MinMatching

CONSTANTS
    Order,      \* the previous particles of the subnetwork, as the set yields them
    NextNet,    \* the next particles of the subnetwork
    NONE,       \* the null link
    MaxDispSq,  \* max_disp_sq
    DistVals    \* the squared distances the instances use

PrevNet == {Order[i] : i \in 1 .. Len(Order)}

ASSUME OrderAssumption ==
    /\ Order \in Seq(PrevNet) /\ Len(Order) > 0
    /\ Cardinality(PrevNet) = Len(Order)
    /\ IsFiniteSet(NextNet) /\ NONE \notin NextNet
ASSUME DistAssumption == MaxDispSq \in Nat /\ DistVals \subseteq Nat

VARIABLES
    dist,     \* squared distance of every pair
    stack,    \* one record for each active call of recur_fnc_pn
    cur,      \* the pairs on trial: cur[i] is the partner of Order[i]
    minDisp,  \* min_disp
    best      \* *min: the best complete trial so far

vars == <<dist, stack, cur, minDisp, best>>

\* The candidates of p: fill_pos_link_next keeps the pairs below max_disp_sq.
Cand(p) == {n \in NextNet : dist[p, n] < MaxDispSq}

\* A previous particle of a subnetwork has a candidate, a next particle is one.
IsSubnet ==
    /\ \A p \in PrevNet : Cand(p) # {}
    /\ \A n \in NextNet : \E p \in PrevNet : n \in Cand(p)

Call(i) == [left |-> Cand(Order[i]), nulled |-> FALSE]

Bigger(m, n) == IF m > n THEN m ELSE n

Init ==
    /\ dist \in [PrevNet \X NextNet -> DistVals]
    /\ IsSubnet
    /\ stack = <<Call(1)>>
    /\ cur = <<>>
    /\ minDisp = MaxDispSq * Bigger(Len(Order), Cardinality(NextNet))
    /\ best = <<>>

depth == Len(stack)
Active == depth > 0
Top == stack[depth]
AtBase == depth = Len(Order)
Trying == Order[depth]

\* disp: what the pairs on trial cost.
Disp == MapThenSumSet(LAMBDA i : LinkCost(Order[i], cur[i], dist, NONE, MaxDispSq),
                      1 .. Len(cur))

\* Bug: only the particle linked last is compared with the candidate.
RepeatedLast(n) == cur # <<>> /\ cur[Len(cur)] = n

Repeated(n) == \E i \in 1 .. Len(cur) : cur[i] = n

\* The candidate the sorted list yields next.
Nearest(n) ==
    n \in Top.left /\ \A m \in Top.left : dist[Trying, n] <= dist[Trying, m]

\* Bug: the iterator over the candidates is not moved on.
AdvanceNot(n) == stack

Advance(n) == [stack EXCEPT ![depth].left = @ \ {n}]

\* The base case records a trial that beats the bound.
BaseLink(n) ==
    /\ Active /\ AtBase /\ Nearest(n)
    /\ IF Disp + dist[Trying, n] < minDisp /\ ~Repeated(n)
       THEN best' = Append(cur, n) /\ minDisp' = Disp + dist[Trying, n]
       ELSE UNCHANGED <<best, minDisp>>
    /\ stack' = Advance(n)
    /\ UNCHANGED <<dist, cur>>

\* The normal case goes one particle deeper unless the bound is exceeded.
DescendLink(n) ==
    /\ Active /\ ~AtBase /\ Nearest(n)
    /\ IF Disp + dist[Trying, n] > minDisp \/ Repeated(n)
       THEN stack' = Advance(n) /\ cur' = cur
       ELSE stack' = Append(Advance(n), Call(depth + 1)) /\ cur' = Append(cur, n)
    /\ UNCHANGED <<dist, minDisp, best>>

Nulled == [stack EXCEPT ![depth].nulled = TRUE]

TryNull == Active /\ Top.left = {} /\ ~Top.nulled

BaseNull ==
    /\ TryNull /\ AtBase
    /\ IF Disp + MaxDispSq < minDisp
       THEN best' = Append(cur, NONE) /\ minDisp' = Disp + MaxDispSq
       ELSE UNCHANGED <<best, minDisp>>
    /\ stack' = Nulled
    /\ UNCHANGED <<dist, cur>>

DescendNull ==
    /\ TryNull /\ ~AtBase
    /\ IF Disp + MaxDispSq < minDisp
       THEN stack' = Append(Nulled, Call(depth + 1)) /\ cur' = Append(cur, NONE)
       ELSE stack' = Nulled /\ cur' = cur
    /\ UNCHANGED <<dist, minDisp, best>>

\* A call returns and its caller removes the pair it had on trial.
Return ==
    /\ Active /\ Top.left = {} /\ Top.nulled
    /\ stack' = SubSeq(stack, 1, depth - 1)
    /\ cur' = SubSeq(cur, 1, depth - 2)
    /\ UNCHANGED <<dist, minDisp, best>>

Next ==
    \/ \E n \in NextNet : BaseLink(n) \/ DescendLink(n)
    \/ BaseNull \/ DescendNull
    \/ Return

Spec == Init /\ [][Next]_vars /\ WF_vars(Next)

-----------------------------------------------------------------------------
(* Properties                                                                 *)

TypeOK ==
    /\ Len(stack) <= Len(Order)
    /\ \A i \in 1 .. Len(stack) :
          stack[i].left \subseteq NextNet /\ stack[i].nulled \in BOOLEAN
    /\ Len(cur) < Len(Order)
    /\ minDisp \in Nat
    /\ Len(best) \in {0, Len(Order)}

Optimal == OptimalAssignments(PrevNet, [p \in PrevNet |-> Cand(p)], dist, NONE, MaxDispSq)

Index(p) == CHOOSE i \in 1 .. Len(Order) : Order[i] = p

AsAssignment(s) == [p \in PrevNet |-> s[Index(p)]]

\* What is recorded: it pairs every previous particle at the lowest cost.
BestIsOptimal == Len(best) = Len(Order) /\ AsAssignment(best) \in Optimal

\* An assignment that some active call can still come to.
Reachable(f) ==
    \E i \in 1 .. Len(stack) :
        /\ \A j \in 1 .. (i - 1) : f[Order[j]] = cur[j]
        /\ \/ f[Order[i]] \in stack[i].left
           \/ f[Order[i]] = NONE /\ ~stack[i].nulled

\* min_disp is the cost of the recorded trial, so later comparisons are made
\* with the number that belongs to it.
BoundIsCost ==
    best # <<>> =>
        minDisp = AssignmentCost(AsAssignment(best), dist, NONE, MaxDispSq)

\* What link_pairs receives is a minimum-cost assignment of the whole
\* subnetwork: neither the strict initial bound nor the pruning against a bound
\* that all active calls share has cut every optimum off.  While the search
\* runs, an optimum is recorded or some active call can still come to one.
SearchOptimal ==
    /\ BoundIsCost
    /\ BestIsOptimal \/ \E f \in Optimal : Reachable(f)
    /\ ~Active => BestIsOptimal

\* What an option of a call counts for: more than all that the k calls that may
\* still come inside it can add.
Weight[k \in 0 .. Len(Order)] ==
    IF k = 0 THEN 1 ELSE (Cardinality(NextNet) + 3) * Weight[k - 1]

\* The turns an active call still has to take, its return among them.
OptionsLeft(call) == Cardinality(call.left) + (IF call.nulled THEN 1 ELSE 2)

\* The work left in the calls of a stack.
WorkOf(calls) == MapThenSumSet(
                    LAMBDA i : OptionsLeft(calls[i]) * Weight[Len(Order) - i],
                    1 .. Len(calls))
Work == WorkOf(stack)

\* Every step leaves less work, so the search of every subnetwork ends, however
\* the calls descend and return.
WorkFalls == [][Work' < Work]_vars

=============================================================================
