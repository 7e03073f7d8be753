----------------------------- MODULE Invariant ------------------------------
(***************************************************************************)
(* The inductive invariants behind the safety properties of Transfer: what *)
(* has to be true of the packets in flight, and of those kept to be sent   *)
(* again, for a step to keep the types, the schedule of retransmissions,   *)
(* the agreement on the block size and the two files right.                *)
(***************************************************************************)
EXTENDS Transfer

-----------------------------------------------------------------------------
(* Typing. *)

(* Who talks to whom: the client to the listener and to sessions, a session  *)
(* to whoever sent it a packet, a stranger to sessions.                      *)
Routed(m) ==
  \/ m.src = Client /\ m.dst \in Tids \cup {Listener}
  \/ m.src \in Tids /\ m.dst \in {Client} \cup Strangers
  \/ m.src \in Strangers /\ m.dst \in Tids

IsPacket(m) == m \in Packet /\ Routed(m)

IsClient(s) ==
  /\ s \in ClientRecord
  /\ s.last # None => IsPacket(s.last) /\ s.last.src = Client

(* A session that was made answers the client whose request it serves, and   *)
(* one that waits has its file open.                                         *)
IsSession(s) ==
  /\ s \in SessionRecord
  /\ s.last # None => IsPacket(s.last)
  /\ s.state \notin {"FREE", "REFUSED"} => s.srcTID = Client /\ s.dst # None
  /\ s.state \in Waiting \ {"INITIAL"} => s.ino # None

TypeInv ==
  /\ TypeOK
  /\ \A m \in net : Routed(m)
  /\ IsClient(client)
  /\ \A t \in Tids : IsSession(server[t])

-----------------------------------------------------------------------------
(* The schedule of retransmissions. *)

(* A client that has not begun has its schedule ready. *)
BackoffInv ==
  /\ Backoff
  /\ client.state = "FREE" => client.retries = 0 /\ client.timeout = client.initialTimeout

(* What is kept to be sent again when no sendto() fails: whoever waits has a  *)
(* packet, and a client that waits for an OACK has its request, to be        *)
(* repeated without options.  A session that has not started is at block 0.  *)
Keeps(s) == Latest(s) /\ (s.state \in Waiting => s.last # None)
KeptInv ==
  /\ Keeps(client)
  /\ client.state = "WAITING_OACK" =>
       /\ client.last.op = IF client.type = "READ" THEN "RRQ" ELSE "WRQ"
       /\ client.block = IF client.type = "READ" THEN 1 ELSE 0
  /\ \A t \in Tids : IF server[t].state = "INITIAL" THEN server[t].block = 0
                                                     ELSE Keeps(server[t])

-----------------------------------------------------------------------------
(* The agreement on the block size, with any options. *)

(* A session that serves a request, and the size it cuts the file by once    *)
(* the client has answered it.                                               *)
Made(s) == s.state \notin {"FREE", "REFUSED"}
FinalSize(s) == IF Has(s.options, "blksize") THEN s.options["blksize"] ELSE BlockSize

(* The client has accepted session t, for good, with the size of its options. *)
Undecided == {"FREE", "INITIAL", "WAITING_OACK"}
Partner(t) ==
  /\ client.state \notin Undecided
  /\ client.srcTID = t
  /\ client.blockSize = FinalSize(server[t])

(* The packets of a transfer: the client answers only the session it has     *)
(* accepted; a session with options sends or acknowledges a block only to a  *)
(* client that has accepted it, and an OACK has the options of its session.  *)
Fits(m) ==
  /\ m.op = "RRQ" => client.type = "READ"
  /\ m.op = "WRQ" => client.type = "WRITE"
  /\ m.op = "OACK" => m.src \in Tids
  /\ m.src \in Strangers => m.op = "ACK"
  /\ m.src = Client /\ m.op \in {"DATA", "ACK"} => Made(server[m.dst]) /\ Partner(m.dst)
  /\ m.src \in Tids /\ m.op \in {"DATA", "ACK", "OACK"} =>
       Made(server[m.src]) /\ server[m.src].state # "INITIAL"
  /\ m.src \in Tids /\ m.op \in {"DATA", "ACK"} =>
       /\ server[m.src].blockSize = FinalSize(server[m.src])
       /\ server[m.src].options # NoOptions => Partner(m.src)
  /\ m.src \in Tids /\ m.op = "OACK" => m.opts = server[m.src].options

ClientAgrees ==
  /\ client.last # None => Fits(client.last)
  /\ client.state \in {"FREE", "WAITING_OACK"} /\ client.last # None =>
       client.last.op \in {"RRQ", "WRQ"}
  /\ client.state \in Undecided => client.blockSize = BlockSize /\ client.srcTID = None
  /\ client.state \in Waiting /\ client.srcTID = None => client.blockSize = BlockSize
  /\ client.state \in Waiting \ Undecided /\ client.srcTID # None =>
       Made(server[client.srcTID]) /\ Partner(client.srcTID)

(* A session takes the size of its options when the answer to its OACK comes, *)
(* which ends a download's state but not an upload's.                        *)
SessionAgrees(s) ==
  /\ s.last # None => Fits(s.last)
  /\ Made(s) => s.type = client.type
  /\ ~Made(s) => s.ino = None
  /\ s.state = "INITIAL" => s.blockSize = BlockSize
  /\ s.state = "WAITING_AFTER_OACK" => s.blockSize \in {BlockSize, FinalSize(s)}
  /\ s.state \in Waiting \ {"INITIAL", "WAITING_AFTER_OACK"} => s.blockSize = FinalSize(s)

AgreeInv ==
  /\ \A m \in net : Fits(m)
  /\ ClientAgrees
  /\ \A t \in Tids : SessionAgrees(server[t])

-----------------------------------------------------------------------------
(* An upload, with any options, of a file that has fewer blocks than there   *)
(* are block numbers.                                                        *)

Sizes == {BlockSize} \cup ({opts["blksize"] : opts \in ClientOptions} \ {None})
FewBlocks == \A size \in Sizes : Len(Source) < (BlockMod - 1) * size

(* The block the client sends as number b, and whether it is the last one.   *)
UploadBlock(b) == ReadAt(Source, (b - 1) * client.blockSize, client.blockSize)
EndsUpload(b) == Len(UploadBlock(b)) < client.blockSize

(* A packet of an upload: DATA is sent by the client only and carries the    *)
(* block its number says; the last block is acknowledged when it is stored.  *)
InUpload(m) ==
  /\ m.src = Client => m.op # "ACK"
  /\ m.src \in Tids => m.op # "DATA"
  /\ m.op = "DATA" => m.block >= 1 /\ m.data = UploadBlock(m.block)
  /\ m.op \in {"RRQ", "WRQ", "OACK"} /\ Has(m.opts, "blksize") => m.opts["blksize"] \in Sizes
  /\ m.src \in Tids /\ m.op = "ACK" /\ m.block >= 1 =>
       /\ Partner(m.src)
       /\ EndsUpload(m.block) => server[m.src].state = "WRQ_END"

(* The client has read the blocks up to the one it has sent.                 *)
Sends(s) ==
  /\ s.last # None => InUpload(s.last)
  /\ Has(s.options, "blksize") => s.options["blksize"] \in Sizes
  /\ s.blockSize \in Sizes
  /\ s.state \in Undecided => s.block = 0 /\ s.pos = 0
  /\ s.state = "WAITING_ACK" => s.pos = s.block * s.blockSize /\ s.pos <= Len(Source)
  /\ s.state = "WAITING_LAST_ACK" => s.block >= 1 /\ EndsUpload(s.block)
  /\ s.state = "WRQ_END" => s.srcTID # None /\ server[s.srcTID].state = "WRQ_END"
  /\ s.state # "WAITING_DATA"

(* A session that no other one disturbs has stored the blocks before the one *)
(* it waits for, in its own file, under the name.                            *)
Keeping(t) ==
  LET s == server[t]
      file == inode[t]
  IN /\ s.ino = t
     /\ dir = IF s.state = "ERROR" THEN None ELSE t
     /\ PrefixOfSource(file)
     /\ s.state = "WRQ_END" => file = Source
     /\ s.state \in {"WAITING_DATA", "WAITING_AFTER_OACK"} =>
          /\ s.block >= 1 /\ s.pos = Len(file)
          /\ Len(file) = (s.block - 1) * FinalSize(s)

SessionUploads(t) ==
  LET s == server[t]
  IN /\ s.last # None => InUpload(s.last)
     /\ Has(s.options, "blksize") => s.options["blksize"] \in Sizes
     /\ Made(s) => dir # Old
     /\ s.state = "INITIAL" => s.pos = 0
     /\ s.state \notin {"WAITING_ACK", "WAITING_LAST_ACK", "WAITING_OACK", "RRQ_END"}
     /\ s.ino # None /\ Alone(t) => Keeping(t)

UploadInv ==
  client.type = "WRITE" =>
    /\ \A m \in net : InUpload(m)
    /\ Sends(client)
    /\ dir \in Tids => server[dir].ino = dir
    /\ \A t \in Tids : SessionUploads(t)

-----------------------------------------------------------------------------
(* A download by the shipped client, which asks for no options, of a file    *)
(* that has fewer blocks than there are block numbers.                       *)

(* TFTPClient passes an empty map of options to every session it makes.      *)
ShippedClient == ClientOptions = {NoOptions}

NoWrap == Len(Source) < (BlockMod - 1) * BlockSize

(* The block that has number b when numbers do not wrap.                     *)
Block(b) == ReadAt(Source, (b - 1) * BlockSize, BlockSize)

(* A packet of a download: DATA is sent by sessions only and carries the     *)
(* block its number says.                                                    *)
InDownload(m) ==
  /\ m.src = Client => m.op \in {"RRQ", "ACK", "ERROR"}
  /\ m.src \in Tids => m.op \in {"DATA", "ERROR"}
  /\ m.src \in Strangers => m.op = "ACK"
  /\ m.op = "RRQ" => m.opts = NoOptions
  /\ m.op = "DATA" => m.block >= 1 /\ m.data = Block(m.block)

(* The client has stored the blocks before the one it waits for, or all.     *)
Stores(s, file) ==
  /\ s.state \in {"FREE", "INITIAL", "WAITING_DATA", "RRQ_END", "ERROR", "CRASHED"}
  /\ s.options = NoOptions /\ s.blockSize = BlockSize
  /\ s.last # None => InDownload(s.last)
  /\ s.state \in {"INITIAL", "WAITING_DATA"} =>
       /\ file # None
       /\ s.block >= 1
       /\ Len(file) = (s.block - 1) * BlockSize
  /\ file # None => PrefixOfSource(file)
  /\ s.state = "RRQ_END" => file = Source

(* A session has sent the blocks up to s.block, all of them full ones while  *)
(* it waits for an acknowledgement that is not for the last.                 *)
Serves(s) ==
  /\ s.state # "FREE" /\ s.state # "REFUSED" =>
       /\ s.type = "READ" /\ s.options = NoOptions /\ s.blockSize = BlockSize
       /\ s.state \in {"INITIAL", "WAITING_ACK", "WAITING_LAST_ACK",
                       "RRQ_END", "ERROR", "THROWN", "CRASHED"}
       /\ s.last # None => InDownload(s.last)
       /\ s.ino \in {None, Old}
  /\ s.state = "INITIAL" => s.block = 0 /\ s.pos = 0
  /\ s.state = "WAITING_ACK" =>
       s.pos = s.block * BlockSize /\ s.pos <= Len(Source)

DownloadInv ==
  client.type = "READ" =>
    /\ inode[Old] = Source
    /\ dir \in {None, Old}
    /\ \A m \in net : InDownload(m)
    /\ Stores(client, local)
    /\ \A t \in Tids : Serves(server[t])
=============================================================================
