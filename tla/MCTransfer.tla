----------------------------- MODULE MCTransfer -----------------------------
(***************************************************************************)
(* The small instances of Transfer that TLC checks: files of a few bytes,  *)
(* every byte different so that a block out of place is seen, and blocks   *)
(* of two bytes.                                                           *)
(***************************************************************************)
EXTENDS Refinement, TLC

CONSTANT FileLen

MCSource == [i \in 1 .. FileLen |-> i]

(* What the shipped client asks for, and what the class would accept.        *)
Shipped == {NoOptions}
Larger == [NoOptions EXCEPT !["blksize"] = 3]
Sized == [NoOptions EXCEPT !["blksize"] = 1, !["tsize"] = 0]
Timed == [NoOptions EXCEPT !["timeout"] = 2]
Extended == {Larger, Sized, Timed}

Both == Shipped \cup Extended

Symmetry == Permutations(Tids)
=============================================================================
