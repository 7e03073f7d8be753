------------------------------ MODULE Network -------------------------------
(***************************************************************************)
(* The datagrams in flight (UDP, outside the code) and the faults of the   *)
(* environment.  net is the set of the packets that may still be           *)
(* delivered: a packet that is never picked is lost, one that is picked    *)
(* late is delayed or reordered.  Which other faults occur is a parameter: *)
(*                                                                         *)
(*   "delay"      a packet may outlive the timeout of whoever waits for it *)
(*   "duplicate"  a delivered packet may be delivered again                *)
(*   "send"       sendto() may fail                                        *)
(*   "disk"       finding, opening, reading or writing a file may fail     *)
(*   "sigint"     the client or the server may be interrupted              *)
(***************************************************************************)
EXTENDS Tftp

CONSTANTS
  Faults,   \* the faults that may occur
  MaxLost   \* bound on the packets dropped by Lose

ASSUME FaultAssumption ==
  /\ Faults \subseteq {"delay", "duplicate", "send", "disk", "sigint"}
  /\ MaxLost \in Nat

VARIABLES
  net,      \* the packets in flight
  lost      \* how many packets Lose has dropped

netVars == <<net, lost>>

NetworkInit ==
  /\ net = {}
  /\ lost = 0

(* What is in flight once m has been received. *)
Received(m) == IF "duplicate" \in Faults THEN net ELSE net \ {m}

(* Whether sendto() succeeds. *)
SendOutcomes == IF "send" \in Faults THEN BOOLEAN ELSE {TRUE}

(* The network drops a packet. *)
Lose ==
  /\ lost < MaxLost
  /\ \E m \in net : net' = net \ {m}
  /\ lost' = lost + 1
=============================================================================
