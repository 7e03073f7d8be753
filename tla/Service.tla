------------------------------ MODULE Service -------------------------------
(***************************************************************************)
(* What TFTPServer promises of its threads: while it is up it starts one   *)
(* for each datagram, once it drains it starts no more, and it is down     *)
(* only when every thread has ended.  No thread is ever stopped by         *)
(* another, and nothing the threads use goes before they do.               *)
(***************************************************************************)
CONSTANT Threads

VARIABLES
  status,    \* up, draining or down
  running    \* the threads that have not ended

vars == <<status, running>>

Init ==
  /\ status = "up"
  /\ running = {}

Accept(t) ==
  /\ status = "up"
  /\ t \notin running
  /\ running' = running \cup {t}
  /\ UNCHANGED status

Finish(t) ==
  /\ t \in running
  /\ running' = running \ {t}
  /\ UNCHANGED status

Drain ==
  /\ status = "up"
  /\ status' = "draining"
  /\ UNCHANGED running

Close ==
  /\ status = "draining"
  /\ running = {}
  /\ status' = "down"
  /\ UNCHANGED running

Next == Drain \/ Close \/ \E t \in Threads : Accept(t) \/ Finish(t)

Spec == Init /\ [][Next]_vars
=============================================================================
