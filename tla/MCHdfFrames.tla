---------------------------- MODULE MCHdfFrames ----------------------------
(* An instance of HdfFrames for TLC: images whose clock runs, goes back, is   *)
(* not there, and one that is averaged; three programs on the file, two where *)
(* every frame has two particles.                                             *)
EXTENDS HdfFrames

Plane(t, z, n) == [time |-> t, z |-> z, found |-> n]
Image(planes, avg) == [planes |-> planes, avg |-> avg]
MCImages == {
    Image(<<Plane(1, 1, {1}), Plane(2, 1, {1}), Plane(4, 1, {1})>>, NoAvg),
    Image(<<Plane(3, 1, {2}), Plane(1, 1, {2})>>, NoAvg),
    Image(<<Plane(-1, 0, {1}), Plane(-1, 0, {0})>>, NoAvg),
    Image(<<Plane(1, 1, {1}), Plane(2, 3, {1}), Plane(4, 2, {0}), Plane(5, 2, {0, 1})>>, 2)}
MCMaxRuns(planes) == IF \A i \in DOMAIN planes : planes[i].found = {2} THEN 2 ELSE 3
SymmetricKeys == Permutations(Key)
=============================================================================
