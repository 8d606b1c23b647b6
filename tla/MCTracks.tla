------------------------------ MODULE MCTracks ------------------------------
(* Instance of Tracks for TLC: four particles in three frames, three boxes.    *)
EXTENDS Tracks, TLC

CONSTANTS a0, a1, b1, a2

MCParticle == {a0, a1, b1, a2}
MCFrame == (a0 :> 0) @@ (a1 :> 1) @@ (b1 :> 1) @@ (a2 :> 2)
=============================================================================
