---------------------------- MODULE MCTrackParts ----------------------------
(* Instances of TrackParts for TLC.                                           *)
EXTENDS TrackParts

\* Nine particles hold seven local maxima on a plateau and four without one,
\* so a crowd of three can follow a pair and a region can meet either end.
MCLengths == {1, 2, 3, 8, 9}
=============================================================================
