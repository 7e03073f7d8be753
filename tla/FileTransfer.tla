---------------------------- MODULE FileTransfer ----------------------------
(***************************************************************************)
(* What a transfer of a file promises, whatever happens to packets: one    *)
(* end stores, the others send.  The copy grows from its beginning, the    *)
(* end that stores it says `done' only when it is complete, and an end     *)
(* that sends says `done' only after it.  A transfer that fails leaves no  *)
(* copy; only a crash of the program leaves the part it had stored.        *)
(* This is the handshake of RFC 1350 that the states RRQ_END, WRQ_END and  *)
(* ERROR of SessionState stand for.                                        *)
(***************************************************************************)
EXTENDS Naturals, Sequences

CONSTANTS Source, None, Senders

VARIABLES
  copy,      \* the bytes stored, None if there is no file
  receiver,  \* idle, running, done, failed or crashed
  sender     \* for each sender: running, done, failed or crashed

vars == <<copy, receiver, sender>>

Init ==
  /\ copy = None
  /\ receiver = "idle"
  /\ sender = [s \in Senders |-> "running"]

Begin ==
  /\ receiver = "idle"
  /\ receiver' = "running"
  /\ copy' = <<>>
  /\ UNCHANGED sender

Extend ==
  /\ receiver = "running"
  /\ \E n \in Len(copy) .. Len(Source) : copy' = SubSeq(Source, 1, n)
  /\ UNCHANGED <<receiver, sender>>

Complete ==
  /\ receiver = "running"
  /\ receiver' = "done"
  /\ copy' = Source
  /\ UNCHANGED sender

Abort ==
  /\ receiver \in {"idle", "running"}
  /\ receiver' = "failed"
  /\ copy' = None
  /\ UNCHANGED sender

Crash ==
  /\ receiver = "running"
  /\ receiver' = "crashed"
  /\ UNCHANGED <<copy, sender>>

Succeed(s) ==
  /\ receiver = "done"
  /\ sender[s] = "running"
  /\ sender' = [sender EXCEPT ![s] = "done"]
  /\ UNCHANGED <<copy, receiver>>

GiveUp(s) ==
  /\ sender[s] = "running"
  /\ sender' = [sender EXCEPT ![s] = "failed"]
  /\ UNCHANGED <<copy, receiver>>

CrashSenders ==
  /\ \E S \in SUBSET {s \in Senders : sender[s] = "running"} :
       sender' = [s \in Senders |-> IF s \in S THEN "crashed" ELSE sender[s]]
  /\ UNCHANGED <<copy, receiver>>

Next ==
  \/ Begin \/ Extend \/ Complete \/ Abort \/ Crash \/ CrashSenders
  \/ \E s \in Senders : Succeed(s) \/ GiveUp(s)

Spec == Init /\ [][Next]_vars
=============================================================================
