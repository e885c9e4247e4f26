----------------------------- MODULE MCMemCard -----------------------------
(* Model checking MemCard on small instances.                              *)
EXTENDS MemCard

CONSTANTS f1, f2

MCOneFile == {f1}
MCTwoFiles == {f1, f2}

(* What the death of the process can leave: the stdio buffers reach the    *)
(* file in order, so a prefix or everything.                               *)
MCKilled == {"short", "good"}

(* What a power failure can leave: also a file that has its size but none  *)
(* of its contents.                                                        *)
MCCrashed == {"short", "zeros", "good"}
=============================================================================
