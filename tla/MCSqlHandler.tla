---------------------------- MODULE MCSqlHandler ----------------------------
(* Instances of SqlHandler for TLC: two programs and three keys, so that a    *)
(* key can be rolled back, handed out again and followed by another.  tracking*)
(* can be recorded, iden cannot (its insert misses a column of the table),    *)
(* and msd_sweep is not in the table of function names.  Where h2 is a Reopener*)
(* it shows what h1 has to put up with.                                       *)
EXTENDS SqlHandler

CONSTANTS tracking, iden, msd_sweep, h1, h2
=============================================================================
