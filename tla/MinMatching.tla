---------------------------- MODULE MinMatching ----------------------------
(* What it means to pair the particles of two consecutive frames in the best  *)
(* way.  This is the reference the linker is checked against: it says nothing *)
(* of how the code searches.                                                  *)
(*                                                                            *)
(* An assignment gives each previous particle either one of its candidates or *)
(* none, and no two of them the same one.  A bond costs the squared           *)
(* displacement, a particle left without a bond costs max_disp_sq             *)
(* (common_src/cxx/track_list.cpp, recur_fnc_pn).                             *)
EXTENDS Naturals, FiniteSetsExt

\* Two previous particles never share a next particle.
InjectiveOn(f, none) ==
    \A p, q \in DOMAIN f : p # q /\ f[p] # none => f[p] # f[q]

\* cand[p] is the set of candidates of p, none the null link.
Assignments(P, cand, none) ==
    LET all == (UNION {cand[p] : p \in P}) \cup {none}
    IN  {f \in [P -> all] :
            /\ \A p \in P : f[p] \in cand[p] \cup {none}
            /\ InjectiveOn(f, none)}

LinkCost(p, n, dist, none, nullCost) == IF n = none THEN nullCost ELSE dist[p, n]

AssignmentCost(f, dist, none, nullCost) ==
    MapThenSumSet(LAMBDA p : LinkCost(p, f[p], dist, none, nullCost), DOMAIN f)

OptimalAssignments(P, cand, dist, none, nullCost) ==
    LET all == Assignments(P, cand, none)
        cost(f) == AssignmentCost(f, dist, none, nullCost)
        least == Min({cost(f) : f \in all})
    IN  {f \in all : cost(f) = least}

=============================================================================
