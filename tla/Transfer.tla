------------------------------ MODULE Transfer ------------------------------
(***************************************************************************)
(* One client and the server over a faulty network.  A request that is     *)
(* repeated gives the server a second session for the same file, so the    *)
(* sessions of the server interleave with each other as well as with the   *)
(* client.                                                                 *)
(***************************************************************************)
EXTENDS ClientSession, ServerSession

vars == <<net, lost, client, local, server, dir, inode, stop, listener>>

Init ==
  /\ NetworkInit
  /\ ClientInit
  /\ ServerInit

-----------------------------------------------------------------------------
(* The clock.  A recvfrom() may time out at any time if packets may be       *)
(* delayed; if not, only when nothing is on its way to a process that will   *)
(* take it, and no thread is about to send.                                  *)

Arrives(m) ==
  \/ m.dst = Client /\ client.state \in Waiting
  \/ m.dst \in Tids /\ SessionWaits(m.dst)
  \/ /\ m.dst = Listener /\ listener = "listening"
     /\ \E t \in Tids : server[t].state = "FREE"

Quiet ==
  /\ \A m \in net : ~Arrives(m)
  /\ \A t \in Tids : server[t].state # "INITIAL"

MayTimeOut == "delay" \in Faults \/ Quiet

(* A third party sends a packet to the port of a session.                    *)
Stray ==
  /\ \E x \in Strangers, t \in Tids :
       /\ SessionWaits(t)
       /\ net' = net \cup {Ack(x, t, 0)}
  /\ UNCHANGED <<lost, clientVars, serverVars>>

Environment ==
  \/ Lose /\ UNCHANGED <<clientVars, serverVars>>
  \/ Stray

-----------------------------------------------------------------------------
ClientTurn ==
  /\ ClientReceives \/ (MayTimeOut /\ ClientTimesOut)
  /\ UNCHANGED serverVars
SessionTurn(t) ==
  /\ SessionReceives(t) \/ (MayTimeOut /\ SessionTimesOut(t))
  /\ UNCHANGED clientVars

Next ==
  \/ ClientStart /\ UNCHANGED serverVars
  \/ ClientTurn
  \/ ClientInterrupted /\ UNCHANGED serverVars
  \/ \E t \in Tids :
       \/ Dispatch(t) /\ UNCHANGED clientVars
       \/ SessionStarts(t) /\ UNCHANGED clientVars
       \/ SessionTurn(t)
       \/ SessionInterrupted(t) /\ UNCHANGED clientVars
  \/ (Sigint \/ StopListening \/ ShutDown) /\ UNCHANGED clientVars
  \/ Environment

Spec == Init /\ [][Next]_vars

(***************************************************************************)
(* Every thread of the two programs that can go on does: recvfrom() on a   *)
(* session's socket has a timeout, so a session's next turn always comes,  *)
(* and the listener's recvfrom() returns every 100 ms.  Nothing is assumed *)
(* of the network or of signals.                                           *)
(***************************************************************************)
Fairness ==
  /\ WF_vars(ClientStart /\ UNCHANGED serverVars)
  /\ WF_vars(ClientTurn)
  /\ \A t \in Tids : /\ WF_vars(Dispatch(t) /\ UNCHANGED clientVars)
                     /\ WF_vars(SessionStarts(t) /\ UNCHANGED clientVars)
                     /\ WF_vars(SessionTurn(t))
  /\ WF_vars((StopListening \/ ShutDown) /\ UNCHANGED clientVars)

FairSpec == Spec /\ Fairness

-----------------------------------------------------------------------------
(* The types of the variables. *)

Port == {Client, Listener} \cup Tids \cup Strangers
ErrorCode == {"NOT_DEFINED", "FILE_NOT_FOUND", "ACCESS_VIOLATION", "DISK_FULL",
              "ILLEGAL_OPERATION", "UNKNOWN_TID", "FILE_ALREADY_EXISTS",
              "INVALID_OPTIONS"}
Packet ==
  [op : {"RRQ", "WRQ", "OACK"}, src : Port, dst : Port, opts : Options]
    \cup [op : {"DATA"}, src : Port, dst : Port, block : BlockNumber, data : Seq(Nat)]
    \cup [op : {"ACK"}, src : Port, dst : Port, block : BlockNumber]
    \cup [op : {"ERROR"}, src : Port, dst : Port, code : ErrorCode]

(* None is not a packet either.                                              *)
ASSUME PacketAssumption == None \notin Packet

ClientRecord ==
  [state : SessionState, type : SessionType, options : Options,
   block : BlockNumber, blockSize : Nat, pos : Nat,
   initialTimeout : Nat, timeout : Nat, retries : Nat,
   srcTID : Tids \cup {None}, last : Packet \cup {None}]
SessionRecord ==
  [state : SessionState, type : SessionType, options : Options,
   block : BlockNumber, blockSize : Nat, pos : Nat, ino : Tids \cup {Old, None},
   initialTimeout : Nat, timeout : Nat, retries : Nat,
   srcTID : {Client, None}, dst : {Client, None} \cup Strangers, last : Packet \cup {None}]

(* Every variable has its type. *)
TypeOK ==
  /\ net \subseteq Packet
  /\ lost \in 0 .. MaxLost
  /\ client \in ClientRecord
  /\ local \in Seq(Nat) \cup {None}
  /\ server \in [Tids -> SessionRecord]
  /\ dir \in Tids \cup {Old, None}
  /\ inode \in [Tids \cup {Old} -> Seq(Nat)]
  /\ stop \in BOOLEAN
  /\ listener \in {"listening", "stopping", "closed"}

-----------------------------------------------------------------------------
(* Safety. *)

PrefixOfSource(bytes) ==
  /\ Len(bytes) <= Len(Source)
  /\ \A i \in 1 .. Len(bytes) : bytes[i] = Source[i]

(* A download never holds bytes the server's file does not have at that      *)
(* place, and holds all of them when its session says it is complete, however *)
(* packets are lost, repeated, delayed or come from a second session         *)
(* (DataPacket::handleClient).                                               *)
DownloadIntact ==
  client.type = "READ" =>
    /\ local # None => PrefixOfSource(local)
    /\ client.state = "RRQ_END" => local = Source

(* The end that sends the file says it is done only when the end that stores *)
(* it has said so (the WAITING_LAST_ACK cases of ACKPacket).                 *)
NoFalseSuccess ==
  /\ client.state = "WRQ_END" =>
       /\ client.srcTID # None
       /\ server[client.srcTID].state = "WRQ_END"
  /\ \A t \in Tids : server[t].state = "RRQ_END" => client.state = "RRQ_END"

(* No session but t has opened the file. *)
Alone(t) == \A u \in Tids \ {t} : server[u].ino = None

(* All or nothing: the file of an upload that no other session has opened    *)
(* holds a prefix of what the client sends; it is complete and in place when *)
(* the session has ended well, and gone when it has failed                   *)
(* (DataPacket::handleServer, ServerSession::exit).                          *)
UploadIntact ==
  \A t \in Tids :
    server[t].type = "WRITE" /\ server[t].ino # None /\ Alone(t) =>
      /\ PrefixOfSource(inode[t])
      /\ server[t].state = "WRQ_END" => dir = t /\ inode[t] = Source
      /\ server[t].state = "ERROR" => dir = None

(* How many times as long as at first a session waits after n timeouts.      *)
Longer[n \in Nat] == IF n = 0 THEN 1 ELSE BACKOFF_FACTOR * Longer[n - 1]

(* The schedule of retransmissions: whoever waits has timed out at most      *)
(* MAX_RETRIES times since it last received, and waits twice as long each    *)
(* time, whatever timeout was negotiated (the loops of handleSession).       *)
Scheduled(s) ==
  s.state \in Waiting =>
    /\ s.retries <= MaxRetries
    /\ s.timeout = s.initialTimeout * Longer[s.retries]
Backoff == Scheduled(client) /\ \A t \in Tids : Scheduled(server[t])

(* What a session would send again is what the other end needs to go on:     *)
(* the block it waits to see acknowledged, the acknowledgement of the block  *)
(* before the one it waits for, or the answer to the request.  An upload     *)
(* with options waits in WAITING_AFTER_OACK for its first block, with the    *)
(* OACK to send again, and for all later ones, with an ACK                   *)
(* (Packet::send and the branch for a timeout in handleSession).             *)
Latest(s) ==
  /\ s.state \in {"WAITING_ACK", "WAITING_LAST_ACK"} =>
       \/ s.last.op = "DATA" /\ s.last.block = s.block
       \/ s.last.op = "WRQ" /\ s.block = 0
  /\ s.state = "WAITING_DATA" =>
       \/ s.last.op = "ACK" /\ NextBlock(s.last.block) = s.block
       \/ s.last.op = "RRQ" /\ s.block = 1
  /\ s.state = "WAITING_AFTER_OACK" =>
       \/ s.last.op = "OACK" /\ s.block = IF s.type = "READ" THEN 0 ELSE 1
       \/ s.last.op = "ACK" /\ NextBlock(s.last.block) = s.block
  /\ s.state = "WAITING_OACK" => s.last.op \in {"RRQ", "WRQ"}
RetransmitsLatest == Latest(client) /\ \A t \in Tids : Latest(server[t])

(* The two ends of a transfer cut the file into blocks of the same size: a   *)
(* block is never taken for the last one, or refused, because one end has    *)
(* the negotiated size in effect and the other has not (setOptions).         *)
AgreedBlockSize ==
  \A m \in net :
    /\ m.op = "DATA" /\ AtClient(m) /\ client.state # "WAITING_OACK" =>
         client.blockSize = server[m.src].blockSize
    /\ m.op = "DATA" /\ m.dst \in Tids /\ SessionWaits(m.dst) =>
         Negotiated(server[m.dst], m).blockSize = client.blockSize

-----------------------------------------------------------------------------
(* What comments and documents say of the program and the code does not do. *)

(* Reaching the end of the file is not a failure to read it: no session is   *)
(* ended by an exception (ServerSession::readDataBlock, which throws when    *)
(* gcount() is 0).                                                           *)
EndOfFileIsNoError == \A t \in Tids : server[t].state # "THROWN"

(* A packet that is lost is sent again, and what is sent again is not an     *)
(* illegal operation (the last branch of each case of                        *)
(* DataPacket::handleClient, ACKPacket::handleServer and their twins, which  *)
(* ends the session when the block number is that of the block before).      *)
LossIsRepaired ==
  \A m \in net : m.op = "ERROR" => m.code # "ILLEGAL_OPERATION"

(* Only a file that was not correctly transferred is deleted: what one       *)
(* session has stored to the end is not removed by another                   *)
(* (ServerSession::exit).                                                    *)
StoredFileStays ==
  (\E t \in Tids : server[t].state = "WRQ_END") => dir # None

(* At a timeout there is a packet to retransmit (Packet::send sets           *)
(* lastPacket only when sendto() succeeds).                                  *)
SomethingToRetransmit ==
  /\ client.state # "CRASHED"
  /\ \A t \in Tids : server[t].state # "CRASHED"

(* A client whose session is shut down is told so: the ERROR goes to it and  *)
(* to nobody else (the branch for the stop flag in handleSession).           *)
ShutdownToldToClient ==
  \A m \in net : m.op = "ERROR" /\ m.code = "NOT_DEFINED" => m.dst = Client

-----------------------------------------------------------------------------
(* Liveness, under FairSpec. *)

AllEnded ==
  /\ client.state \notin Waiting \cup {"FREE"}
  /\ \A t \in Tids : server[t].state \notin Waiting

(* Nobody waits for ever once third parties leave the sessions alone: the    *)
(* client and every session come to an end, whatever is lost or late.  A     *)
(* packet from a stranger resets the retries of a session before its sender  *)
(* is looked at (MAX_RETRIES and retries = 0 in handleSession).              *)
Termination == <>[][~Stray]_vars => <>[]AllEnded

(* The request can be served: the file is there, or not yet there.  A file   *)
(* to download does not end with a full block (the server cannot finish such *)
(* a transfer: see EndOfFileIsNoError).                                      *)
Servable ==
  IF client.type = "READ"
  THEN /\ dir = Old
       /\ Len(Source) % WithOptions(client, client.options).blockSize # 0
  ELSE dir = None

(* A transfer with no fault succeeds, at both ends, with options or without, *)
(* and however often the block number wraps to 0; a download provided that   *)
(* its file does not fill the last block of the size agreed on.              *)
Succeeded ==
  /\ client.state = IF client.type = "READ" THEN "RRQ_END" ELSE "WRQ_END"
  /\ client.srcTID # None
  /\ server[client.srcTID].state = client.state
Success == Servable => <>[]Succeeded

(* SIGINT ends every session and then the server (TFTPServer::shutDown).     *)
ShutsDown ==
  stop ~> (listener = "closed" /\ \A t \in Tids : server[t].state \notin Waiting)
=============================================================================
