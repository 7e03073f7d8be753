------------------------------ MODULE Listener ------------------------------
(***************************************************************************)
(* TFTPServer: the main thread, which receives every datagram into the one *)
(* buffer on the stack of start(), starts a thread for it and keeps the    *)
(* thread's future, and shutDown(), which waits for the threads.  Where    *)
(* ServerSession takes the creation of a session for one step (Dispatch),  *)
(* this module has the steps of the two threads: the new one is given a    *)
(* pointer to the buffer and parses it while the main thread may already   *)
(* receive the next datagram into it.                                      *)
(*                                                                         *)
(* A session is a black box here: it holds a socket and ends, or is ended  *)
(* by an exception (readDataBlock, file_size; exists() before it begins    *)
(* may throw as well, see Check).  A thread stands for its future as well, *)
(* and its name is used again when it has ended, so that the server may    *)
(* receive for ever.                                                       *)
(***************************************************************************)
EXTENDS Naturals, Sequences, FiniteSets

CONSTANTS
  Threads,     \* bound on the threads that run at one time
  Clients,     \* the addresses of the clients; a client asks for a file of its own
  None,        \* no datagram, no thread, no client
  MaxQueued,   \* bound on the datagrams that wait in the socket
  MaxSockets   \* how many sockets the process may open for sessions

ASSUME ThreadAssumption == IsFiniteSet(Threads) /\ None \notin Threads
ASSUME ClientAssumption == None \notin Clients
ASSUME BoundAssumption == MaxQueued \in Nat /\ MaxSockets \in Nat

(* A request, or anything else: what is not a request and what parse()       *)
(* rejects are answered alike, from the listening socket.                    *)
Kind == {"RRQ", "WRQ", "OTHER"}
Datagram == [kind : Kind, from : Clients]

VARIABLES
  main,      \* the main thread
  stop,      \* stopFlagServer
  queue,     \* the datagrams that wait in the listening socket
  buffer,    \* the datagram in the buffer of start()
  thread,    \* the threads of handleClientRequest()
  futures,   \* clientFutures, without those shutDown() has passed
  joining,   \* the thread that shutDown() waits for in get()
  sockets,   \* how many sockets are open for sessions
  leaked     \* history: how many sockets an exception has left open

vars == <<main, stop, queue, buffer, thread, futures, joining, sockets, leaked>>

(* request is the datagram the thread was started for, op the opcode it has  *)
(* read first, served the request it has made of the buffer.  The thread has *)
(* a copy of the sender's address, but not of the rest of the datagram.      *)
(* overtaken is history: another one has been received since.                *)
Idle == [phase |-> "free", request |-> None, op |-> None, served |-> None,
         overtaken |-> FALSE]

Ended(t) == thread[t].phase \in {"free", "done", "thrown"}

(* done and thrown are the two ways in which a future becomes ready.         *)
EndedThread(phase) == [Idle EXCEPT !.phase = phase]

Init ==
  /\ main = "listening"
  /\ stop = FALSE
  /\ queue = <<>>
  /\ buffer = None
  /\ thread = [t \in Threads |-> Idle]
  /\ futures = {}
  /\ joining = None
  /\ sockets = 0
  /\ leaked = 0

-----------------------------------------------------------------------------
(* The clients and the operator. *)

Arrive ==
  /\ main \in {"listening", "pruning"}
  /\ Len(queue) < MaxQueued
  /\ \E d \in Datagram : queue' = Append(queue, d)
  /\ UNCHANGED <<main, stop, buffer, thread, futures, joining, sockets, leaked>>

Sigint ==
  /\ ~stop
  /\ stop' = TRUE
  /\ UNCHANGED <<main, queue, buffer, thread, futures, joining, sockets, leaked>>

-----------------------------------------------------------------------------
(* The main thread. *)

Reads(t) == thread[t].phase \in {"spawned", "parsing"}

(* recvfrom() overwrites the buffer, std::async starts a thread.  Its name   *)
(* may be that of a thread that has ended: Prune is about to remove the      *)
(* future of that one in any case.                                           *)
Receive(t) ==
  /\ main = "listening"
  /\ queue # <<>>
  /\ Ended(t)
  /\ LET d == Head(queue)
     IN /\ buffer' = d
        /\ thread' = [u \in Threads |->
                        IF u = t THEN [Idle EXCEPT !.phase = "spawned", !.request = d]
                        ELSE [thread[u] EXCEPT !.overtaken = @ \/ Reads(u)]]
  /\ queue' = Tail(queue)
  /\ futures' = futures \cup {t}
  /\ main' = "pruning"
  /\ UNCHANGED <<stop, joining, sockets, leaked>>

(* std::async cannot start a thread: the exception leaves start().           *)
SpawnFails ==
  /\ main = "listening"
  /\ queue # <<>>
  /\ buffer' = Head(queue)
  /\ thread' = [t \in Threads |-> [thread[t] EXCEPT !.overtaken = @ \/ Reads(t)]]
  /\ queue' = Tail(queue)
  /\ main' = "unwinding"
  /\ UNCHANGED <<stop, futures, joining, sockets, leaked>>

\* Mutant: the result of a finished future is asked for, and its exception comes
\* with it.
PruneRethrows ==
  /\ main = "pruning"
  /\ main' = IF \E t \in futures : thread[t].phase = "thrown" THEN "unwinding"
                                                               ELSE "listening"
  /\ futures' = {t \in futures : ~Ended(t)}
  /\ thread' = [t \in Threads |-> IF Ended(t) THEN Idle ELSE thread[t]]
  /\ UNCHANGED <<stop, queue, buffer, joining, sockets, leaked>>

(* The futures that are ready are removed, with the exceptions they hold.    *)
Prune ==
  /\ main = "pruning"
  /\ main' = "listening"
  /\ futures' = {t \in futures : ~Ended(t)}
  /\ thread' = [t \in Threads |-> IF Ended(t) THEN Idle ELSE thread[t]]
  /\ UNCHANGED <<stop, queue, buffer, joining, sockets, leaked>>

\* Mutant: the server stops when it has no session left.
StopListeningIdle ==
  /\ main = "listening"
  /\ queue = <<>>
  /\ stop /\ futures = {}
  /\ main' = "stopping"
  /\ UNCHANGED <<stop, queue, buffer, thread, futures, joining, sockets, leaked>>

(* The stop flag is looked at only when recvfrom() has nothing to return.    *)
StopListening ==
  /\ main = "listening"
  /\ queue = <<>>
  /\ stop
  /\ main' = "stopping"
  /\ UNCHANGED <<stop, queue, buffer, thread, futures, joining, sockets, leaked>>

-----------------------------------------------------------------------------
(* shutDown(), and what an exception leaves to the destructor.               *)

(* A future that is ready is passed, one that is not is waited for.          *)
Visit(t) ==
  /\ main = "stopping" /\ joining = None
  /\ t \in futures
  /\ IF Ended(t) THEN futures' = futures \ {t} /\ UNCHANGED joining
                 ELSE joining' = t /\ UNCHANGED futures
  /\ UNCHANGED <<main, stop, queue, buffer, thread, sockets, leaked>>

(* get() returns, or throws what the thread has thrown out of start().       *)
Join(t) ==
  /\ main = "stopping" /\ joining = t
  /\ Ended(t)
  /\ joining' = None
  /\ futures' = futures \ {t}
  /\ main' = IF thread[t].phase = "thrown" THEN "unwinding" ELSE main
  /\ UNCHANGED <<stop, queue, buffer, thread, sockets, leaked>>

Close ==
  /\ main = "stopping" /\ joining = None
  /\ futures = {}
  /\ main' = "closed"
  /\ UNCHANGED <<stop, queue, buffer, thread, futures, joining, sockets, leaked>>

\* Mutant: the destructor does not wait for the threads.
DestroyDetaches ==
  /\ main = "unwinding"
  /\ main' = "failed"
  /\ futures' = {}
  /\ UNCHANGED <<stop, queue, buffer, thread, joining, sockets, leaked>>

(* The server is destroyed on the way to the handler in main(): the          *)
(* destructor of a future made by std::async waits for its thread.           *)
Destroy ==
  /\ main = "unwinding"
  /\ \A t \in futures : Ended(t)
  /\ main' = "failed"
  /\ futures' = {}
  /\ UNCHANGED <<stop, queue, buffer, thread, joining, sockets, leaked>>

-----------------------------------------------------------------------------
(* A thread. *)

(* What a look at the buffer finds: the last datagram received, or anything  *)
(* once an exception has taken the frame of start() off the stack.           *)
Buffer == IF main \in {"unwinding", "failed"} THEN Datagram ELSE {buffer}

Becomes(t, r) == thread' = [thread EXCEPT ![t] = r]

(* Packet::parse() looks at the opcode.                                      *)
ParseOpcode(t) ==
  /\ thread[t].phase = "spawned"
  /\ \E d \in Buffer :
       Becomes(t, IF d.kind = "OTHER" THEN EndedThread("done")
                  ELSE [thread[t] EXCEPT !.phase = "parsing", !.op = d.kind])
  /\ UNCHANGED <<main, stop, queue, buffer, futures, joining, sockets, leaked>>

\* Mutant: the thread is given a reference to client_addr, which recvfrom()
\* overwrites as well.
AddressByReference(t, d) == d.from

(* The address of the client is passed by value.                             *)
Address(t, d) == thread[t].request.from

(* RequestPacket::parse() looks at the opcode again, then at the rest: what  *)
(* it finds may be part of one datagram and part of the next, or nothing it  *)
(* can parse.  Whatever is not an RRQ by then is taken for a WRQ.            *)
ParseRequest(t) ==
  /\ thread[t].phase = "parsing"
  /\ \/ \E d \in Buffer : \E op \in {thread[t].op, d.kind} :
          Becomes(t, [thread[t] EXCEPT
            !.phase = "parsed", !.op = None,
            !.served = [op |-> IF op = "RRQ" THEN "RRQ" ELSE "WRQ",
                        name |-> d.from, client |-> Address(t, d)]])
     \/ /\ thread[t].overtaken \/ main = "unwinding"
        /\ Becomes(t, EndedThread("done"))
  /\ UNCHANGED <<main, stop, queue, buffer, futures, joining, sockets, leaked>>

(* bind_new_socket() opens a socket or throws.                               *)
Bind(t) ==
  /\ thread[t].phase = "parsed"
  /\ IF sockets < MaxSockets
     THEN /\ sockets' = sockets + 1
          /\ Becomes(t, [thread[t] EXCEPT !.phase = "bound"])
     ELSE /\ Becomes(t, EndedThread("thrown"))
          /\ UNCHANGED sockets
  /\ UNCHANGED <<main, stop, queue, buffer, futures, joining, leaked>>

\* Mutants: a request that is refused leaves its socket open; one that is served
\* has its socket closed before the session begins.
CheckClosesSocket(t) ==
  /\ thread[t].phase = "bound"
  /\ \/ Becomes(t, [thread[t] EXCEPT !.phase = "serving"])
     \/ Becomes(t, EndedThread("done"))
  /\ sockets' = sockets - 1
  /\ UNCHANGED <<main, stop, queue, buffer, futures, joining, leaked>>
CheckKeepsSocket(t) ==
  /\ thread[t].phase = "bound"
  /\ \/ /\ \/ Becomes(t, [thread[t] EXCEPT !.phase = "serving"])
           \/ Becomes(t, EndedThread("done"))
        /\ UNCHANGED leaked
     \/ /\ Becomes(t, EndedThread("thrown"))
        /\ leaked' = leaked + 1
  /\ UNCHANGED <<main, stop, queue, buffer, futures, joining, sockets>>

(* exists(): a session begins, or the request is refused.  When the file     *)
(* system has another error than a missing file (a name too long, no         *)
(* permission), exists() throws, and nobody closes the socket.               *)
Check(t) ==
  /\ thread[t].phase = "bound"
  /\ \/ /\ Becomes(t, [thread[t] EXCEPT !.phase = "serving"])
        /\ UNCHANGED <<sockets, leaked>>
     \/ /\ Becomes(t, EndedThread("done"))
        /\ sockets' = sockets - 1
        /\ UNCHANGED leaked
     \/ /\ Becomes(t, EndedThread("thrown"))
        /\ leaked' = leaked + 1
        /\ UNCHANGED sockets
  /\ UNCHANGED <<main, stop, queue, buffer, futures, joining>>

(* handleSession() returns; exit() has closed the socket.                    *)
SessionEnds(t) ==
  /\ thread[t].phase = "serving"
  /\ Becomes(t, EndedThread("done"))
  /\ sockets' = sockets - 1
  /\ UNCHANGED <<main, stop, queue, buffer, futures, joining, leaked>>

(* An exception leaves handleSession(); nobody closes the socket.            *)
SessionThrows(t) ==
  /\ thread[t].phase = "serving"
  /\ Becomes(t, EndedThread("thrown"))
  /\ leaked' = leaked + 1
  /\ UNCHANGED <<main, stop, queue, buffer, futures, joining, sockets>>

-----------------------------------------------------------------------------
MainSteps == Prune \/ StopListening \/ Close \/ Destroy
             \/ \E t \in Threads : Receive(t) \/ Visit(t) \/ Join(t)

RequestSteps(t) == ParseOpcode(t) \/ ParseRequest(t) \/ Bind(t) \/ Check(t)

Next ==
  \/ Arrive \/ Sigint \/ SpawnFails \/ MainSteps
  \/ \E t \in Threads : RequestSteps(t) \/ SessionEnds(t) \/ SessionThrows(t)

Spec == Init /\ [][Next]_vars

(***************************************************************************)
(* The OS runs both kinds of threads.  A session is known to end only once *)
(* the stop flag is set: its recvfrom() has a timeout, and its next turn   *)
(* then ends it, whatever third parties send to it (see Transfer).         *)
(***************************************************************************)
FairSpec ==
  /\ Spec
  /\ WF_vars(MainSteps)
  /\ \A t \in Threads : /\ WF_vars(RequestSteps(t))
                        /\ WF_vars(stop /\ (SessionEnds(t) \/ SessionThrows(t)))

-----------------------------------------------------------------------------
(* Properties. *)

Request == [op : {"RRQ", "WRQ"}, name : Clients, client : Clients]
ThreadRecord ==
  [phase : {"free", "spawned", "parsing", "parsed", "bound", "serving", "done", "thrown"},
   request : Datagram \cup {None},
   op : Kind \cup {None}, served : Request \cup {None}, overtaken : BOOLEAN]

(* Every variable has its type. *)
ListenerTypeOK ==
  /\ main \in {"listening", "pruning", "stopping", "unwinding", "closed", "failed"}
  /\ stop \in BOOLEAN
  /\ queue \in Seq(Datagram) /\ Len(queue) <= MaxQueued
  /\ buffer \in Datagram \cup {None}
  /\ thread \in [Threads -> ThreadRecord]
  /\ futures \subseteq Threads
  /\ joining \in Threads \cup {None}
  /\ sockets \in 0 .. MaxSockets
  /\ leaked \in 0 .. MaxSockets

(* Answers go to the client whose datagram started the thread, and what is   *)
(* served is that client's request unless the main thread has received into  *)
(* the buffer, or left start(), before the thread had parsed it              *)
(* (TFTPServer::start, the pointer passed to std::async).                    *)
OwnRequest ==
  \A t \in Threads : thread[t].served # None =>
    LET d == thread[t].request
    IN /\ thread[t].served.client = d.from
       /\ ~thread[t].overtaken /\ main \notin {"unwinding", "failed"} =>
            thread[t].served = [op |-> d.kind, name |-> d.from, client |-> d.from]

(* Every socket that was opened for a session belongs to a thread that still *)
(* needs it, or was left open by an exception, in exists() or in a session:  *)
(* no other way out of a thread loses one (bind_new_socket and the calls of  *)
(* close).                                                                   *)
Holders == {t \in Threads : thread[t].phase \in {"bound", "serving"}}
SocketsAccounted == sockets = Cardinality(Holders) + leaked

(* A thread that is not at its end is known to the server, so that shutDown  *)
(* or the destructor waits for it; when the server is gone, so are the       *)
(* threads, and with them every use of its socket and root directory         *)
(* (clientFutures is the last member of TFTPServer).                         *)
Promise == INSTANCE Service WITH
  status  <- CASE main \in {"listening", "pruning"} -> "up"
               [] main \in {"stopping", "unwinding"} -> "draining"
               [] OTHER -> "down",
  running <- {t \in Threads : ~Ended(t)}
KeepsServicePromise == Promise!Spec

(* What goes wrong in a session never takes a listening server down: it      *)
(* leaves its loop because it was told to, or because it has no thread for a *)
(* new request (the future keeps the exception).                             *)
SessionsDoNotStopServer ==
  [][(main \in {"listening", "pruning"} /\ main' \notin {"listening", "pruning"}) =>
       stop \/ SpawnFails]_vars

(* SIGINT stops the server, provided that the datagrams stop arriving at its *)
(* port, even when a session throws while it is waited for (start() and      *)
(* shutDown()).                                                              *)
StopsWhenQuiet ==
  <>[][~Arrive]_vars => (stop ~> main \in {"closed", "failed"})
=============================================================================
