--------------------------- MODULE MCTrackingRun ---------------------------
(* Instances of TrackingRun for TLC: three runs over two files, so that a run *)
(* can fail and leave results behind, a second commit its key in the other    *)
(* file, and a third come back to the first file.                             *)
EXTENDS TrackingRun

CONSTANT tracking
=============================================================================
