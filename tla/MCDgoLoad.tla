----------------------------- MODULE MCDgoLoad -----------------------------
(* The instance of DgoLoad for TLC: a file of one object, one of four      *)
(* objects and one that is missing.  The pages of the second split a       *)
(* header and an object, and one of them holds a whole object between      *)
(* parts of two others.                                                    *)
EXTENDS DgoLoad

CONSTANTS f1, f4

SizeValue ==
  [f \in Disc |-> CASE f = f1 -> <<2>>
                    [] f = f4 -> <<2, 1, 4, 1>>]
=============================================================================
