---------------------------- MODULE MCTrackLink ----------------------------
(* Instances of TrackLink for TLC.  Every particle starts at most one track,  *)
(* so MaxTracks = number of particles never binds.                            *)
EXTENDS TrackLink, TLC

CONSTANTS a0, b0, c0, a1, b1, c1, a2

\* Three frames: candidates of the next pair exist while a pair is linked.
ThreeFrames == {a0, b0, a1, b1, a2}
ThreeFrameOf == (a0 :> 0) @@ (b0 :> 0) @@ (a1 :> 1) @@ (b1 :> 1) @@ (a2 :> 2)

\* Two wide frames: several subnetworks, and subnetworks of three and three.
TwoFrames == {a0, b0, c0, a1, b1, c1}
TwoFrameOf == (a0 :> 0) @@ (b0 :> 0) @@ (c0 :> 0) @@ (a1 :> 1) @@ (b1 :> 1) @@ (c1 :> 1)
=============================================================================
