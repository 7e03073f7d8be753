--------------------------- MODULE ClientSession ----------------------------
(***************************************************************************)
(* The client: TFTPClient::download() or upload(), which send the request, *)
(* and the ClientSession that then runs to its end on the same thread and  *)
(* socket.  An action is one turn of the loop of handleSession(), from the *)
(* return of recvfrom() to the next call, the call of exit() included.     *)
(***************************************************************************)
EXTENDS Network

CONSTANTS
  Types,         \* what the client may be asked for: READ, WRITE
  ClientOptions  \* the options its session may be given

ASSUME RequestAssumption ==
  /\ Types \subseteq SessionType
  /\ ClientOptions \subseteq Options

VARIABLES
  client,   \* the session
  local     \* download: the bytes of the file written, None if there is none

clientVars == <<client, local>>

(* An upload reads its bytes from stdin, which holds Source; pos counts the  *)
(* bytes read from stdin, or written to the file.                            *)
NewClient(type, opts) ==
  [state |-> "FREE", type |-> type, options |-> opts,
   block |-> 0, blockSize |-> BlockSize, pos |-> 0,
   initialTimeout |-> InitialTimeout, timeout |-> InitialTimeout, retries |-> 0,
   srcTID |-> None, last |-> None]

ClientInit ==
  /\ \E type \in Types, opts \in ClientOptions : client = NewClient(type, opts)
  /\ local = None

-----------------------------------------------------------------------------
\* Mutant: exit() leaves the file of a failed download.
ClientGoesKeepsFile(s, file) ==
  /\ client' = s
  /\ local' = file

(* What a turn leaves behind: the session s and, unless exit() deletes it    *)
(* because the session has failed, the file.                                 *)
ClientGoes(s, file) ==
  /\ client' = s
  /\ local' = IF s.state = "ERROR" THEN None ELSE file

(* A turn that sends p, when the packets in `rest' are left in flight.       *)
ClientSends(s, p, rest, file) ==
  \E ok \in SendOutcomes :
    /\ ClientGoes(Sent(s, p, ok), file)
    /\ net' = rest \cup Transmitted(p, ok)

(* The request is sent before the session opens its file.                    *)
ClientStart ==
  /\ client.state = "FREE"
  /\ LET s == [client EXCEPT
                 !.state = IF client.options = NoOptions THEN "INITIAL"
                                                         ELSE "WAITING_OACK",
                 !.block = IF client.type = "READ" THEN 1 ELSE 0]
         p == Request(client.type, Listener, client.options)
     IN \/ ClientSends(s, p, net, IF s.type = "READ" THEN <<>> ELSE None)
        \/ /\ s.type = "READ" /\ "disk" \in Faults
           /\ ClientSends(Failed(client), p, net, None)
  /\ UNCHANGED lost

(* m has been received from the peer, whose port the first packet sets.      *)
AtClient(m) ==
  /\ m.dst = Client
  /\ client.state \in Waiting
  /\ client.srcTID \in {None, m.src}
FromPeer(m) == [Heard(client) EXCEPT !.srcTID = m.src]

UnknownTidAtClient ==
  \E m \in net :
    /\ m.dst = Client
    /\ client.state \in Waiting
    /\ client.srcTID \notin {None, m.src}
    /\ ClientSends(Heard(client), Error(Client, m.src, "UNKNOWN_TID"),
                   Received(m), local)
    /\ UNCHANGED lost

-----------------------------------------------------------------------------
(* DATA: the next block is written to the file and acknowledged. *)

TakesData(s, m) ==
  /\ m.op = "DATA"
  /\ s.state \in {"INITIAL", "WAITING_DATA", "WAITING_OACK"}
  /\ NextExpected(s, m)

DataAtClient ==
  \E m \in net :
    /\ AtClient(m)
    /\ LET s == FromPeer(m)
       IN /\ TakesData(s, m)
          /\ \/ /\ local # None
                /\ ClientSends(TakingBlock(s, m, "WAITING_DATA", "RRQ_END"),
                               Ack(Client, m.src, s.block),
                               Received(m), local \o m.data)
             \/ /\ local = None \/ "disk" \in Faults
                /\ ClientSends(Failed(s), Error(Client, m.src, "DISK_FULL"),
                               Received(m), local)
    /\ UNCHANGED lost

(* ACK: the next block is read from stdin and sent, or the upload is over.   *)
(* The first ACK is taken whatever its number when no OACK was asked for.    *)
SendsBlock(s, m) ==
  /\ m.op = "ACK"
  /\ \/ s.state = "INITIAL"
     \/ s.state \in {"WAITING_ACK", "WAITING_OACK"} /\ m.block = s.block
\* Mutant: any ACK is taken for the last one.
LastAckAny(s, m) == m.op = "ACK" /\ s.state = "WAITING_LAST_ACK"

LastAck(s, m) ==
  m.op = "ACK" /\ s.state = "WAITING_LAST_ACK" /\ m.block = s.block

ClientSendsBlock(s, m, b) ==
  LET data == ReadAt(Source, s.pos, s.blockSize)
  IN ClientSends(SendingBlock(s, b, data), Data(Client, m.src, b, data),
                 Received(m), local)

AckAtClient ==
  \E m \in net :
    /\ AtClient(m)
    /\ LET s == FromPeer(m)
       IN \/ /\ SendsBlock(s, m)
             /\ ClientSendsBlock(s, m, IF s.state = "WAITING_ACK"
                                       THEN NextBlock(s.block) ELSE 1)
          \/ /\ LastAck(s, m)
             /\ ClientGoes([s EXCEPT !.state = "WRQ_END"], local)
             /\ net' = Received(m)
    /\ UNCHANGED lost

-----------------------------------------------------------------------------
(* OACK: the options are taken over; a download acknowledges them as block 0 *)
(* and an upload sends block 1.  An option that was not asked for is answered *)
(* with an ERROR, but the state that records it is overwritten at once.      *)
TakesOack(s, m) == m.op = "OACK" /\ s.state = "WAITING_OACK"

OackAtClient ==
  \E m \in net :
    /\ AtClient(m)
    /\ LET s    == WithOptions(FromPeer(m), m.opts)
           more == Received(m) \cup
                     IF \A o \in OptionName : Has(m.opts, o) => Has(client.options, o) THEN {}
                     ELSE {Error(Client, m.src, "INVALID_OPTIONS")}
       IN /\ TakesOack(client, m)
          /\ \/ /\ s.type = "READ"
                /\ ClientSends([s EXCEPT !.state = "WAITING_DATA"],
                               Ack(Client, m.src, 0), more, local)
             \/ /\ s.type = "READ" /\ Has(m.opts, "tsize") /\ "disk" \in Faults
                /\ ClientSends(Failed(s), Error(Client, m.src, "DISK_FULL"),
                               more, local)
             \/ /\ s.type = "WRITE"
                /\ LET b    == NextBlock(s.block)
                       data == ReadAt(Source, s.pos, s.blockSize)
                   IN ClientSends(SendingBlock(s, b, data),
                                  Data(Client, m.src, b, data), more, local)
    /\ UNCHANGED lost

(* ERROR: the end, except for a client that waits for an OACK: it repeats    *)
(* its request without options and will take any port for its peer's.  The   *)
(* options are cleared in the packet that is kept for retransmission, which  *)
(* is there, and is the request, if the client has been answered.            *)
ErrorAtClient ==
  \E m \in net :
    /\ AtClient(m)
    /\ m.op = "ERROR"
    /\ LET s == FromPeer(m)
       IN \/ /\ s.state = "WAITING_OACK" /\ s.last # None
             /\ LET p == [s.last EXCEPT !.opts = NoOptions]
                IN ClientSends([s EXCEPT !.last = p, !.srcTID = None,
                                  !.state = IF s.type = "READ" THEN "WAITING_DATA"
                                                               ELSE "WAITING_ACK"],
                               p, Received(m), local)
          \/ /\ s.state # "WAITING_OACK"
             /\ ClientGoes(Failed(s), local)
             /\ net' = Received(m)
    /\ UNCHANGED lost

(* Any packet that the state does not call for, a repeated one included.     *)
IllegalAtClient ==
  \E m \in net :
    /\ AtClient(m)
    /\ LET s == FromPeer(m)
       IN /\ m.op # "ERROR"
          /\ ~TakesData(s, m) /\ ~SendsBlock(s, m) /\ ~LastAck(s, m) /\ ~TakesOack(s, m)
          /\ ClientSends(Failed(s), Error(Client, m.src, "ILLEGAL_OPERATION"),
                         Received(m), local)
    /\ UNCHANGED lost

-----------------------------------------------------------------------------
(* recvfrom() has timed out. *)

ClientGivesUp ==
  /\ client.state \in Waiting
  /\ client.retries >= MaxRetries
  /\ ClientGoes([Failed(client) EXCEPT !.retries = @ + 1], local)
  /\ UNCHANGED netVars

ClientRetransmits ==
  /\ client.state \in Waiting
  /\ client.retries < MaxRetries
  /\ client.last # None
  /\ ClientSends(BackedOff(client), client.last, net, local)
  /\ UNCHANGED lost

(* Nothing was ever sent: lastPacket is a null pointer.                      *)
ClientCrashes ==
  /\ client.state \in Waiting
  /\ client.retries < MaxRetries
  /\ client.last = None
  /\ ClientGoes([client EXCEPT !.state = "CRASHED"], local)
  /\ UNCHANGED netVars

(* SIGINT: recvfrom() fails with EINTR, or the flag is seen before it is     *)
(* called again.                                                             *)
ClientInterrupted ==
  /\ "sigint" \in Faults
  /\ client.state \in Waiting
  /\ ClientGoes(Failed(client), local)
  /\ UNCHANGED netVars

ClientReceives ==
  \/ UnknownTidAtClient \/ DataAtClient \/ AckAtClient
  \/ OackAtClient \/ ErrorAtClient \/ IllegalAtClient

ClientTimesOut == ClientGivesUp \/ ClientRetransmits \/ ClientCrashes
=============================================================================
