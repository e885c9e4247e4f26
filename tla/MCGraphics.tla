----------------------------- MODULE MCGraphics -----------------------------
(* Model checking Graphics with two levels, of which one at a time is      *)
(* wanted and a second one may stay in memory.                             *)
EXTENDS Graphics

CONSTANTS v1, v2

MCTwoLevels == {v1, v2}
=============================================================================
