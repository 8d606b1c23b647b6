----------------------------- MODULE MCPrograms -----------------------------
(* Instances of Programs for TLC: two runs of any two programs on one data    *)
(* set; three keys let a sweep and another computation commit.                *)
EXTENDS Programs
=============================================================================
