-------------------------- MODULE OptimalTracking --------------------------
(* What hash_case::link promises: frame by frame, the particles of one frame  *)
(* are bonded to those of the next by a minimum-cost assignment over the      *)
(* WHOLE pair of frames, and a bond once made is never taken back.  The       *)
(* linker never looks at a whole pair of frames (it takes the trivial bonds   *)
(* first and then one connected subnetwork after the other), so this is what  *)
(* its decomposition has to preserve.                                         *)
EXTENDS MinMatching

CONSTANTS
    Particle, Frame, NULL,
    NFrames,    \* frames in the data set
    MaxDispSq   \* the squared search range, and the cost of no bond

VARIABLES
    dist,       \* squared distances between consecutive frames
    joined,     \* frames 0 .. joined - 1 have been linked to one another
    bond        \* bond[p] is the particle of the next frame p is bonded to

vars == <<dist, joined, bond>>

InFrame(k) == {p \in Particle : Frame[p] = k}

Near(p) == {n \in Particle : Frame[n] = Frame[p] + 1 /\ dist[p, n] < MaxDispSq}

Init ==
    /\ joined = 1
    /\ bond = [p \in Particle |-> NULL]

JoinFrame ==
    /\ joined < NFrames
    /\ joined' = joined + 1
    /\ LET P == InFrame(joined - 1)
           optimal == OptimalAssignments(P, [p \in P |-> Near(p)], dist, NULL, MaxDispSq)
       IN  \E f \in optimal :
              bond' = [p \in Particle |-> IF p \in P THEN f[p] ELSE bond[p]]
    /\ UNCHANGED dist

Spec == Init /\ [][JoinFrame]_vars

=============================================================================
