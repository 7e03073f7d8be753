--------------------------- MODULE ServerSession ----------------------------
(***************************************************************************)
(* The server: the main loop of TFTPServer::start(), which gives every     *)
(* request a thread, the thread's handleClientRequest(), which gives the   *)
(* request a port, and the ServerSession that runs on that port to its     *)
(* end.  All requests are for one file name.  dir is the inode the name    *)
(* refers to; an open file keeps its inode when the name is removed.       *)
(*                                                                         *)
(* An action of a session is one turn of the loop of handleSession(), from *)
(* the return of recvfrom() to the next call: the look at the stop flag    *)
(* and the call of exit() are part of it.  The check that the file exists  *)
(* and the opening of the file are steps of their own, because two threads *)
(* may come between them.                                                  *)
(***************************************************************************)
EXTENDS Network

VARIABLES
  server,   \* the session on each port
  dir,      \* the inode of the requested file, None if there is none
  inode,    \* the bytes of each inode; an upload on port t creates inode t
  stop,     \* stopFlagServer
  listener  \* the main thread: listening, stopping (in shutDown()) or closed

serverVars == <<server, dir, inode, stop, listener>>

Session(state, type, opts, src) ==
  [state |-> state, type |-> type, options |-> opts,
   block |-> 0, blockSize |-> BlockSize, pos |-> 0, ino |-> None,
   initialTimeout |-> InitialTimeout, timeout |-> InitialTimeout, retries |-> 0,
   srcTID |-> src, dst |-> src, last |-> None]

(* The server's file is Source unless it is the one to be uploaded.          *)
ServerInit ==
  /\ server = [t \in Tids |-> Session("FREE", "READ", NoOptions, None)]
  /\ dir \in {None, Old}
  /\ inode = [i \in Tids \cup {Old} |-> IF i = Old THEN Source ELSE <<>>]
  /\ stop = FALSE
  /\ listener = "listening"

-----------------------------------------------------------------------------
\* Mutant: exit() leaves the file of a failed upload.
NameAfterKept(s, name) == name

(* exit(): a failed upload that has opened the file removes the name.        *)
NameAfter(s, name) ==
  IF s.state = "ERROR" /\ s.type = "WRITE" /\ s.ino # None THEN None ELSE name

(* The end of a turn that leaves session t as s and `packets' in flight: the *)
(* stop flag is looked at unless the session has ended, and the ERROR that   *)
(* says so goes to the sender of the last packet.                            *)
Settle(t, s, packets, name) ==
  \/ /\ ~stop \/ s.state \notin Waiting
     /\ server' = [server EXCEPT ![t] = s]
     /\ net' = packets
     /\ dir' = NameAfter(s, name)
  \/ /\ stop /\ s.state \in Waiting
     /\ server' = [server EXCEPT ![t] = Failed(s)]
     /\ \E ok \in SendOutcomes :
          net' = packets \cup Transmitted(Error(t, s.dst, "NOT_DEFINED"), ok)
     /\ dir' = NameAfter(Failed(s), name)

(* A turn of session t that sends p.                                         *)
SessionSends(t, s, p, rest, name) ==
  \E ok \in SendOutcomes :
    Settle(t, Sent(s, p, ok), rest \cup Transmitted(p, ok), name)

-----------------------------------------------------------------------------
(* The main loop: a request is parsed by a new thread, which binds a new     *)
(* socket and looks whether the file exists.  A look that fails (a name too  *)
(* long, a directory that cannot be searched) throws: nobody is answered.    *)

Dispatch(t) ==
  \E m \in net :
    /\ listener = "listening"
    /\ server[t].state = "FREE"
    /\ m.dst = Listener /\ m.op \in {"RRQ", "WRQ"}
    /\ \/ /\ IF m.op = "RRQ" THEN dir # None ELSE dir = None
          /\ LET type == IF m.op = "RRQ" THEN "READ" ELSE "WRITE"
             IN server' = [server EXCEPT ![t] = Session("INITIAL", type, m.opts, m.src)]
          /\ net' = Received(m)
       \/ /\ IF m.op = "RRQ" THEN dir = None ELSE dir # None
          /\ server' = [server EXCEPT ![t].state = "REFUSED"]
          /\ \E ok \in SendOutcomes :
               LET code == IF m.op = "RRQ" THEN "FILE_NOT_FOUND"
                                           ELSE "FILE_ALREADY_EXISTS"
               IN net' = Received(m) \cup Transmitted(Error(t, m.src, code), ok)
       \/ /\ "disk" \in Faults
          /\ server' = [server EXCEPT ![t].state = "REFUSED"]
          /\ net' = Received(m)
    /\ UNCHANGED <<dir, inode, stop, listener, lost>>

(* handleWriteRequest(): opening the file makes it, or empties the one that  *)
(* another session has made since the check.                                 *)
StartWrite(t) ==
  /\ server[t].state = "INITIAL" /\ server[t].type = "WRITE"
  /\ \/ LET i == IF dir = None THEN t ELSE dir
            s == [server[t] EXCEPT !.block = 1, !.ino = i]
        IN /\ inode' = [inode EXCEPT ![i] = <<>>]
           /\ IF s.options = NoOptions
              THEN SessionSends(t, [s EXCEPT !.state = "WAITING_DATA"],
                                Ack(t, s.dst, 0), net, i)
              ELSE SessionSends(t, [s EXCEPT !.state = "WAITING_AFTER_OACK"],
                                Oack(t, s.dst, s.options), net, i)
     \/ /\ "disk" \in Faults
        /\ \E code \in {"ACCESS_VIOLATION"} \cup
                       (IF Has(server[t].options, "tsize") THEN {"DISK_FULL"} ELSE {}) :
             SessionSends(t, Failed(server[t]), Error(t, server[t].dst, code), net, dir)
        /\ UNCHANGED inode
  /\ UNCHANGED <<stop, listener, lost>>

(* handleReadRequest(): an OACK, which gives the size of the file if asked,  *)
(* or the first block; no bytes to read are answered with an ERROR.  The     *)
(* size of a file that is gone by now is an exception that nobody catches.   *)
StartRead(t) ==
  /\ server[t].state = "INITIAL" /\ server[t].type = "READ"
  /\ \/ /\ dir # None
        /\ LET size == Len(inode[dir])
               opts == IF Has(server[t].options, "tsize")
                       THEN [server[t].options EXCEPT !["tsize"] = size]
                       ELSE server[t].options
               s    == [server[t] EXCEPT !.ino = dir, !.options = opts]
               data == ReadAt(inode[dir], 0, s.blockSize)
           IN \/ /\ opts # NoOptions
                 /\ SessionSends(t, [s EXCEPT !.state = "WAITING_AFTER_OACK"],
                                 Oack(t, s.dst, opts), net, dir)
              \/ /\ opts = NoOptions /\ size > 0
                 /\ SessionSends(t, SendingBlock(s, 1, data),
                                 Data(t, s.dst, 1, data), net, dir)
              \/ /\ opts = NoOptions /\ (size = 0 \/ "disk" \in Faults)
                 /\ SessionSends(t, Failed(s), Error(t, s.dst, "DISK_FULL"), net, dir)
     \/ /\ dir = None \/ "disk" \in Faults
        /\ IF dir = None /\ Has(server[t].options, "tsize")
           THEN Settle(t, [server[t] EXCEPT !.state = "THROWN"], net, dir)
           ELSE SessionSends(t, Failed(server[t]),
                             Error(t, server[t].dst, "ACCESS_VIOLATION"), net, dir)
  /\ UNCHANGED <<inode, stop, listener, lost>>

-----------------------------------------------------------------------------
(* Session t, bound and with its file open, waits for a packet.              *)
SessionWaits(t) == server[t].state \in Waiting \ {"INITIAL"}

(* m has been received by session t: the schedule restarts and the sender is *)
(* the address that answers go to.                                           *)
AtSession(t, m) == SessionWaits(t) /\ m.dst = t
FromSender(t, m) == [Heard(server[t]) EXCEPT !.dst = m.src]

\* Mutant: only the ACK after an OACK puts the options into effect.
NegotiatedByAck(s, m) ==
  IF s.state = "WAITING_AFTER_OACK" /\ m.op = "ACK" THEN WithOptions(s, s.options) ELSE s

(* A packet that comes in the state after the OACK puts the options into     *)
(* effect; an upload stays in that state, so each of its blocks does.        *)
Negotiated(s, m) ==
  IF s.state = "WAITING_AFTER_OACK" /\ m.op \in {"DATA", "ACK"}
  THEN WithOptions(s, s.options) ELSE s

UnknownTidAtServer(t) ==
  \E m \in net :
    /\ AtSession(t, m)
    /\ m.src # server[t].srcTID
    /\ SessionSends(t, FromSender(t, m), Error(t, m.src, "UNKNOWN_TID"), Received(m), dir)
    /\ UNCHANGED <<inode, stop, listener, lost>>

(* DATA: the next block is written to the file and acknowledged.  A block    *)
(* that is not the last leaves the session in the state it was in.           *)
StoresData(s, m) ==
  /\ m.op = "DATA"
  /\ s.state \in {"WAITING_DATA", "WAITING_AFTER_OACK"}
  /\ NextExpected(s, m)

DataAtServer(t) ==
  \E m \in net :
    /\ AtSession(t, m) /\ m.src = server[t].srcTID
    /\ LET s == Negotiated(FromSender(t, m), m)
       IN /\ StoresData(s, m)
          /\ \/ /\ s.type = "WRITE"
                /\ SessionSends(t, TakingBlock(s, m, s.state, "WRQ_END"),
                                Ack(t, s.dst, s.block), Received(m), dir)
                /\ inode' = [inode EXCEPT ![s.ino] = WriteAt(@, s.pos, m.data)]
             \/ /\ s.type = "READ" \/ "disk" \in Faults
                /\ SessionSends(t, Failed(s), Error(t, s.dst, "DISK_FULL"),
                                Received(m), dir)
                /\ UNCHANGED inode
    /\ UNCHANGED <<stop, listener, lost>>

(* ACK: the next block is read and sent, or the download is over.  When no   *)
(* byte could be read, at the end of the file or because reading failed,     *)
(* readDataBlock() throws; nothing between here and the thread's start       *)
(* catches it, so exit() is not called.                                      *)
ReadsBlock(s, m) ==
  /\ m.op = "ACK"
  /\ s.state \in {"WAITING_ACK", "WAITING_AFTER_OACK"}
  /\ m.block = s.block
\* Mutant: any ACK is taken for the last one.
EndsReadAny(s, m) == m.op = "ACK" /\ s.state = "WAITING_LAST_ACK"

EndsRead(s, m) ==
  m.op = "ACK" /\ s.state = "WAITING_LAST_ACK" /\ m.block = s.block

AckAtServer(t) ==
  \E m \in net :
    /\ AtSession(t, m) /\ m.src = server[t].srcTID
    /\ LET s    == Negotiated(FromSender(t, m), m)
           b    == NextBlock(s.block)
           data == IF s.type = "READ" THEN ReadAt(inode[s.ino], s.pos, s.blockSize)
                                      ELSE <<>>
       IN \/ /\ ReadsBlock(s, m) /\ data # <<>>
             /\ SessionSends(t, SendingBlock(s, b, data), Data(t, s.dst, b, data),
                             Received(m), dir)
          \/ /\ ReadsBlock(s, m) /\ (data = <<>> \/ "disk" \in Faults)
             /\ Settle(t, [s EXCEPT !.block = b, !.state = "THROWN"], Received(m), dir)
          \/ /\ EndsRead(s, m)
             /\ Settle(t, [s EXCEPT !.state = "RRQ_END"], Received(m), dir)
    /\ UNCHANGED <<inode, stop, listener, lost>>

ErrorAtServer(t) ==
  \E m \in net :
    /\ AtSession(t, m) /\ m.src = server[t].srcTID
    /\ m.op = "ERROR"
    /\ Settle(t, Failed(FromSender(t, m)), Received(m), dir)
    /\ UNCHANGED <<inode, stop, listener, lost>>

(* Any packet that the state does not call for, a repeated one included.     *)
IllegalAtServer(t) ==
  \E m \in net :
    /\ AtSession(t, m) /\ m.src = server[t].srcTID
    /\ LET s == Negotiated(FromSender(t, m), m)
       IN /\ m.op # "ERROR"
          /\ ~StoresData(s, m) /\ ~ReadsBlock(s, m) /\ ~EndsRead(s, m)
          /\ SessionSends(t, Failed(s), Error(t, s.dst, "ILLEGAL_OPERATION"),
                          Received(m), dir)
    /\ UNCHANGED <<inode, stop, listener, lost>>

-----------------------------------------------------------------------------
(* recvfrom() has timed out. *)

SessionGivesUp(t) ==
  /\ SessionWaits(t) /\ server[t].retries >= MaxRetries
  /\ Settle(t, [Failed(server[t]) EXCEPT !.retries = @ + 1], net, dir)
  /\ UNCHANGED <<inode, stop, listener, lost>>

SessionRetransmits(t) ==
  /\ SessionWaits(t) /\ server[t].retries < MaxRetries
  /\ server[t].last # None
  /\ \E ok \in SendOutcomes :
       Settle(t, BackedOff(server[t]), net \cup Transmitted(server[t].last, ok), dir)
  /\ UNCHANGED <<inode, stop, listener, lost>>

(* Nothing was ever sent: lastPacket is a null pointer, and the process with *)
(* all its threads is gone.                                                  *)
ServerCrashes(t) ==
  /\ SessionWaits(t) /\ server[t].retries < MaxRetries
  /\ server[t].last = None
  /\ server' = [u \in Tids |-> IF server[u].state \in Waiting
                               THEN [server[u] EXCEPT !.state = "CRASHED"]
                               ELSE server[u]]
  /\ listener' = "closed"
  /\ UNCHANGED <<dir, inode, stop, netVars>>

(* recvfrom() has failed because the signal that set the flag interrupted it *)
(* (a socket with a timeout is not waited for again): no ERROR is sent.      *)
SessionInterrupted(t) ==
  /\ SessionWaits(t) /\ stop
  /\ Settle(t, Failed(server[t]), net, dir)
  /\ UNCHANGED <<inode, stop, listener, lost>>

-----------------------------------------------------------------------------
(* SIGINT sets the flag.  The main thread looks at it when recvfrom() times  *)
(* out or is interrupted, and then waits for every session.                  *)

Sigint ==
  /\ "sigint" \in Faults
  /\ ~stop
  /\ stop' = TRUE
  /\ UNCHANGED <<server, dir, inode, listener, netVars>>

StopListening ==
  /\ stop /\ listener = "listening"
  /\ listener' = "stopping"
  /\ UNCHANGED <<server, dir, inode, stop, netVars>>

\* Mutant: a request that was refused is waited for like a session.
ShutDownForgetsRefused ==
  /\ listener = "stopping"
  /\ \A t \in Tids : server[t].state \in Ended \cup {"FREE", "THROWN"}
  /\ listener' = "closed"
  /\ UNCHANGED <<server, dir, inode, stop, netVars>>

ShutDown ==
  /\ listener = "stopping"
  /\ \A t \in Tids : server[t].state \notin Waiting
  /\ listener' = "closed"
  /\ UNCHANGED <<server, dir, inode, stop, netVars>>

SessionStarts(t) == StartWrite(t) \/ StartRead(t)

SessionReceives(t) ==
  \/ UnknownTidAtServer(t) \/ DataAtServer(t) \/ AckAtServer(t)
  \/ ErrorAtServer(t) \/ IllegalAtServer(t)

SessionTimesOut(t) == SessionGivesUp(t) \/ SessionRetransmits(t) \/ ServerCrashes(t)
=============================================================================
