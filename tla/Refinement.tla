----------------------------- MODULE Refinement -----------------------------
(***************************************************************************)
(* How Transfer implements FileTransfer.  The verdict of an end is read    *)
(* off the state of its session.  In a download the client stores and      *)
(* every session the server has made sends; in an upload the session       *)
(* stores and the client sends, and only one session is looked at: two     *)
(* sessions for one file do break the promise (StoredFileStays).           *)
(***************************************************************************)
EXTENDS Invariant

Verdict(s) ==
  CASE s.state \in {"RRQ_END", "WRQ_END"} -> "done"
    [] s.state \in Waiting \cup {"FREE"}  -> "running"
    [] s.state = "CRASHED"                -> "crashed"
    [] OTHER                              -> "failed"

Only == CHOOSE t \in Tids : TRUE

Receiver == IF client.type = "READ" THEN client ELSE server[Only]
Stored ==
  IF client.type = "READ" THEN local ELSE IF dir = Only THEN inode[Only] ELSE None

Promise == INSTANCE FileTransfer WITH
  Senders  <- Tids \cup {Client},
  copy     <- Stored,
  receiver <- IF Receiver.state = "FREE" \/ (client.type = "WRITE" /\ Receiver.state = "INITIAL")
              THEN "idle" ELSE Verdict(Receiver),
  sender   <- [p \in Tids \cup {Client} |->
                 IF client.type = "READ" /\ p \in Tids THEN Verdict(server[p])
                 ELSE IF client.type = "WRITE" /\ p = Client THEN Verdict(client)
                 ELSE "running"]

(* A download, however many sessions its repeated request makes, and an      *)
(* upload that has one session, keep the promise of FileTransfer at every    *)
(* step: the handshake that the states RRQ_END, WRQ_END and ERROR of         *)
(* SessionState stand for, with the cleaning up of exit().                   *)
KeepsPromise == Promise!Spec
=============================================================================
