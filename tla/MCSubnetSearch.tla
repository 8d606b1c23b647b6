--------------------------- MODULE MCSubnetSearch ---------------------------
(* Instance of SubnetSearch for TLC.  With a null link at cost 3, distances 0 *)
(* and 2 make a null link sometimes cheaper than a second-best bond; 3 is no  *)
(* candidate at all.  The next particles are interchangeable, the previous    *)
(* ones are not: Order fixes the sequence they are tried in.                  *)
EXTENDS SubnetSearch, TLC

CONSTANTS p1, p2, p3

MCOrder == <<p1, p2, p3>>
NextSymmetry == Permutations(NextNet)
=============================================================================
