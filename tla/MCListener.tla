----------------------------- MODULE MCListener -----------------------------
(***************************************************************************)
(* The small instance of Listener that TLC checks.                         *)
(***************************************************************************)
EXTENDS Listener
=============================================================================
