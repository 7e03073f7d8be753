-------------------------- MODULE Listener_proofs ---------------------------
(***************************************************************************)
(* The invariants of Listener, and that it implements Service, for any     *)
(* number of threads, clients, queued datagrams and sockets.               *)
(***************************************************************************)
EXTENDS Listener, FiniteSetTheorems, TLAPS

-----------------------------------------------------------------------------
(* The inductive invariant. *)

(* leaked has no bound of its own: it is at most sockets because every       *)
(* socket is accounted for.                                                  *)
Types ==
  /\ main \in {"listening", "pruning", "stopping", "unwinding", "closed", "failed"}
  /\ stop \in BOOLEAN
  /\ queue \in Seq(Datagram) /\ Len(queue) <= MaxQueued
  /\ buffer \in Datagram \cup {None}
  /\ thread \in [Threads -> ThreadRecord]
  /\ futures \subseteq Threads
  /\ joining \in Threads \cup {None}
  /\ sockets \in 0 .. MaxSockets
  /\ leaked \in Nat

(* What the server waits for: every thread that has not ended has its future *)
(* in clientFutures, and shutDown() calls get() on one of these.             *)
Known ==
  /\ \A t \in Threads : ~Ended(t) => t \in futures
  /\ joining # None => main = "stopping" /\ joining \in futures
  /\ main \in {"closed", "failed"} => \A t \in Threads : Ended(t)

(* While a thread may still read the buffer it knows what it was started     *)
(* for, and that is what the buffer holds unless it was overtaken.           *)
Intact(r) == ~r.overtaken /\ main \notin {"unwinding", "failed"}
ReadsOwn(r) ==
  r.phase \in {"spawned", "parsing"} =>
    /\ r.request \in Datagram /\ buffer \in Datagram
    /\ Intact(r) => buffer = r.request
    /\ r.phase = "parsing" => /\ r.op \in {"RRQ", "WRQ"}
                              /\ Intact(r) => r.op = r.request.kind
ServesOwn(r) ==
  r.served # None =>
    /\ r.served.client = r.request.from
    /\ Intact(r) => r.served = [op |-> r.request.kind, name |-> r.request.from,
                                client |-> r.request.from]
Own == \A t \in Threads : ReadsOwn(thread[t]) /\ ServesOwn(thread[t])

Inv == Types /\ Known /\ Own /\ SocketsAccounted

-----------------------------------------------------------------------------
(* Records and counting. *)

(* An idle thread has its type.                                              *)
LEMMA IdleType ==
  /\ Idle \in ThreadRecord
  /\ \A phase \in {"free", "done", "thrown"} : EndedThread(phase) \in ThreadRecord
BY DEF Idle, EndedThread, ThreadRecord

(* An idle thread owes nothing to anybody.                                   *)
LEMMA IdleOwn ==
  /\ ReadsOwn(Idle) /\ ServesOwn(Idle)
  /\ \A phase \in {"free", "done", "thrown"} :
       ReadsOwn(EndedThread(phase)) /\ ServesOwn(EndedThread(phase))
BY DEF Idle, EndedThread, ReadsOwn, ServesOwn

(* A step that leaves the holders alone leaves their number alone; one that  *)
(* adds or removes a holder changes it by one.                               *)
LEMMA HoldersFinite == IsFiniteSet(Holders) /\ Cardinality(Holders) \in Nat
<1>1. IsFiniteSet(Holders)
  BY ThreadAssumption, FS_Subset DEF Holders
<1> QED BY <1>1, FS_CardinalityType

(* One more thread has a socket.                                             *)
LEMMA HolderAdded ==
  ASSUME NEW t \in Threads, t \notin Holders, Holders' = Holders \cup {t}
  PROVE  Cardinality(Holders') = Cardinality(Holders) + 1
BY HoldersFinite, FS_AddElement

(* One thread has its socket no more.                                        *)
LEMMA HolderRemoved ==
  ASSUME NEW t \in Holders, Holders' = Holders \ {t}
  PROVE  /\ Cardinality(Holders') = Cardinality(Holders) - 1
         /\ Cardinality(Holders) >= 1
<1>1. Cardinality(Holders \ {t}) = Cardinality(Holders) - 1
  BY HoldersFinite, FS_RemoveElement
<1>2. Cardinality(Holders) # 0
  BY HoldersFinite, FS_EmptySet
<1> QED BY <1>1, <1>2, HoldersFinite

-----------------------------------------------------------------------------
(* A thread that takes a step touches nothing of the server but its record.  *)

(* A step that changes one thread's record keeps what is known of the others. *)
LEMMA ThreadSteps ==
  ASSUME Inv, NEW t \in Threads, ~Ended(t), NEW r \in ThreadRecord, Becomes(t, r),
         ReadsOwn(r), ServesOwn(r),
         UNCHANGED <<main, stop, queue, buffer, futures, joining>>,
         sockets' \in 0 .. MaxSockets, leaked' \in Nat
  PROVE  Types' /\ Known' /\ Own'
<1>1. /\ thread \in [Threads -> ThreadRecord]
      /\ thread' = [thread EXCEPT ![t] = r]
  BY DEF Inv, Types, Becomes
<1>2. Types'
  BY <1>1 DEF Inv, Types
<1>3. Known'
  <2>1. \A u \in Threads : Ended(u) => Ended(u)'
    BY <1>1 DEF Ended
  <2> QED BY <2>1 DEF Inv, Known
<1>4. Own'
  <2>1. \A u \in Threads : thread'[u] = IF u = t THEN r ELSE thread[u]
    BY <1>1
  <2>2. ASSUME NEW u \in Threads
        PROVE  ReadsOwn(thread[u])' /\ ServesOwn(thread[u])'
    <3>1. CASE u = t
      BY <2>1, <3>1 DEF ReadsOwn, ServesOwn, Intact
    <3>2. CASE u # t
      BY <2>1, <3>2 DEF Inv, Own, ReadsOwn, ServesOwn, Intact
    <3> QED BY <3>1, <3>2
  <2> QED BY <2>2 DEF Own
<1> QED BY <1>2, <1>3, <1>4

(* The steps of a thread, seen from the sockets. *)
LEMMA HoldersAfter ==
  ASSUME Inv, NEW t \in Threads, NEW r \in ThreadRecord, Becomes(t, r)
  PROVE  Holders' = IF r.phase \in {"bound", "serving"} THEN Holders \cup {t}
                    ELSE Holders \ {t}
BY DEF Inv, Types, Becomes, Holders

(* Reading the opcode.                                                       *)
LEMMA ParseOpcodeKeeps ==
  ASSUME Inv, NEW t \in Threads, ParseOpcode(t) PROVE Inv'
<1>1. PICK d \in Buffer :
        Becomes(t, IF d.kind = "OTHER" THEN EndedThread("done")
                   ELSE [thread[t] EXCEPT !.phase = "parsing", !.op = d.kind])
  BY DEF ParseOpcode
<1>2. PICK r : r = IF d.kind = "OTHER" THEN EndedThread("done")
                   ELSE [thread[t] EXCEPT !.phase = "parsing", !.op = d.kind]
  OBVIOUS
<1>3. /\ thread[t] \in ThreadRecord /\ thread[t].phase = "spawned"
      /\ ReadsOwn(thread[t]) /\ ServesOwn(thread[t])
  BY DEF ParseOpcode, Inv, Types, Own
<1>4. /\ d \in Datagram
      /\ Intact(thread[t]) => d = thread[t].request
  BY <1>3 DEF Buffer, ReadsOwn, Intact
<1>5. r \in ThreadRecord /\ ReadsOwn(r) /\ ServesOwn(r)
  <2>1. CASE d.kind = "OTHER"
    BY <1>2, <2>1, IdleType, IdleOwn
  <2>2. CASE d.kind # "OTHER"
    <3>1. r = [thread[t] EXCEPT !.phase = "parsing", !.op = d.kind]
      BY <1>2, <2>2
    <3>2. d.kind \in {"RRQ", "WRQ"}
      BY <1>4, <2>2 DEF Datagram, Kind
    <3>3. /\ r \in ThreadRecord /\ r.phase = "parsing" /\ r.op = d.kind
          /\ r.request = thread[t].request /\ r.served = thread[t].served
          /\ r.overtaken = thread[t].overtaken
      BY <1>3, <3>1, <3>2 DEF ThreadRecord, Kind
    <3> QED BY <1>3, <1>4, <3>2, <3>3 DEF ReadsOwn, ServesOwn, Intact
  <2> QED BY <2>1, <2>2
<1>6. r.phase \notin {"bound", "serving"}
  BY <1>2, <1>3 DEF ThreadRecord, EndedThread, Idle
<1>7. Types' /\ Known' /\ Own'
  BY <1>1, <1>2, <1>3, <1>5, ThreadSteps DEF ParseOpcode, Ended, Inv, Types
<1>8. Holders' = Holders
  BY <1>1, <1>2, <1>3, <1>5, <1>6, HoldersAfter DEF Holders
<1> QED BY <1>7, <1>8 DEF ParseOpcode, Inv, SocketsAccounted

(* Reading the rest of the request.                                          *)
LEMMA ParseRequestKeeps ==
  ASSUME Inv, NEW t \in Threads, ParseRequest(t) PROVE Inv'
<1>1. /\ thread[t] \in ThreadRecord /\ thread[t].phase = "parsing"
      /\ ReadsOwn(thread[t]) /\ ServesOwn(thread[t])
  BY DEF ParseRequest, Inv, Types, Own
<1>2. PICK r \in ThreadRecord :
        /\ Becomes(t, r) /\ ReadsOwn(r) /\ ServesOwn(r)
        /\ r.phase \notin {"bound", "serving"}
  <2>1. CASE Becomes(t, EndedThread("done"))
    BY <2>1, IdleType, IdleOwn DEF EndedThread, Idle
  <2>2. CASE ~Becomes(t, EndedThread("done"))
    <3>1. PICK d \in Buffer : \E op \in {thread[t].op, d.kind} :
            Becomes(t, [thread[t] EXCEPT
              !.phase = "parsed", !.op = None,
              !.served = [op |-> IF op = "RRQ" THEN "RRQ" ELSE "WRQ",
                          name |-> d.from, client |-> Address(t, d)]])
      BY <2>2 DEF ParseRequest
    <3>2. PICK op \in {thread[t].op, d.kind} :
            Becomes(t, [thread[t] EXCEPT
              !.phase = "parsed", !.op = None,
              !.served = [op |-> IF op = "RRQ" THEN "RRQ" ELSE "WRQ",
                          name |-> d.from, client |-> Address(t, d)]])
      BY <3>1
    <3>3. /\ d \in Datagram /\ thread[t].request \in Datagram
          /\ Intact(thread[t]) => d = thread[t].request /\ thread[t].op = d.kind
          /\ thread[t].op \in {"RRQ", "WRQ"}
      BY <1>1 DEF Buffer, ReadsOwn, Intact
    <3>4. PICK s : s = [op |-> IF op = "RRQ" THEN "RRQ" ELSE "WRQ",
                        name |-> d.from, client |-> Address(t, d)]
      OBVIOUS
    <3>5. s \in Request /\ s.client = thread[t].request.from
      BY <3>3, <3>4 DEF Request, Address, Datagram
    <3>6. Intact(thread[t]) => s = [op |-> thread[t].request.kind,
                                    name |-> thread[t].request.from,
                                    client |-> thread[t].request.from]
      BY <3>3, <3>4 DEF Address
    <3>7. PICK r : r = [thread[t] EXCEPT !.phase = "parsed", !.op = None, !.served = s]
      OBVIOUS
    <3>8. /\ r \in ThreadRecord /\ r.phase = "parsed" /\ r.served = s
          /\ r.request = thread[t].request /\ r.overtaken = thread[t].overtaken
      BY <1>1, <3>5, <3>7 DEF ThreadRecord
    <3>9. ReadsOwn(r) /\ ServesOwn(r)
      BY <3>5, <3>6, <3>8 DEF ReadsOwn, ServesOwn, Intact
    <3> QED BY <3>2, <3>4, <3>7, <3>8, <3>9
  <2> QED BY <2>1, <2>2
<1>3. Types' /\ Known' /\ Own'
  BY <1>1, <1>2, ThreadSteps DEF ParseRequest, Ended, Inv, Types
<1>4. Holders' = Holders
  BY <1>1, <1>2, HoldersAfter DEF Holders
<1> QED BY <1>3, <1>4 DEF ParseRequest, Inv, SocketsAccounted

(* The steps with a socket.  The record keeps its request and its answer, or *)
(* is cleared.                                                               *)
LEMMA PhaseChange ==
  ASSUME Inv, NEW t \in Threads, thread[t].phase \in {"parsed", "bound"},
         NEW phase \in {"bound", "serving"},
         NEW r, r = [thread[t] EXCEPT !.phase = phase]
  PROVE  r \in ThreadRecord /\ r.phase = phase /\ ReadsOwn(r) /\ ServesOwn(r)
<1>1. thread[t] \in ThreadRecord /\ ServesOwn(thread[t])
  BY DEF Inv, Types, Own
<1>2. /\ r \in ThreadRecord /\ r.phase = phase /\ r.served = thread[t].served
      /\ r.request = thread[t].request /\ r.overtaken = thread[t].overtaken
  BY <1>1 DEF ThreadRecord
<1> QED BY <1>1, <1>2 DEF ReadsOwn, ServesOwn, Intact

(* Taking a socket, or failing to.                                           *)
LEMMA BindKeeps ==
  ASSUME Inv, NEW t \in Threads, Bind(t) PROVE Inv'
<1>1. /\ thread[t].phase = "parsed" /\ ~Ended(t) /\ t \notin Holders
      /\ sockets \in 0 .. MaxSockets /\ leaked \in Nat
  BY DEF Bind, Inv, Types, Ended, Holders
<1>2. CASE sockets < MaxSockets
  <2>1. PICK r : r = [thread[t] EXCEPT !.phase = "bound"]
    OBVIOUS
  <2>2. r \in ThreadRecord /\ r.phase = "bound" /\ ReadsOwn(r) /\ ServesOwn(r)
    BY <1>1, <2>1, PhaseChange
  <2>3. Becomes(t, r) /\ sockets' = sockets + 1
    BY <1>2, <2>1 DEF Bind
  <2>4. sockets' \in 0 .. MaxSockets
    BY <1>1, <1>2, <2>3, BoundAssumption
  <2>5. Types' /\ Known' /\ Own'
    BY <1>1, <2>2, <2>3, <2>4, ThreadSteps DEF Bind
  <2>6. Cardinality(Holders') = Cardinality(Holders) + 1
    BY <1>1, <2>2, <2>3, HoldersAfter, HolderAdded
  <2>7. SocketsAccounted'
    BY <1>1, <2>3, <2>6, HoldersFinite DEF Bind, Inv, SocketsAccounted
  <2> QED BY <2>5, <2>7 DEF Inv
<1>3. CASE ~(sockets < MaxSockets)
  <2>1. PICK r : r = EndedThread("thrown")
    OBVIOUS
  <2>2. r \in ThreadRecord /\ r.phase = "thrown" /\ ReadsOwn(r) /\ ServesOwn(r)
    BY <2>1, IdleType, IdleOwn DEF EndedThread, Idle
  <2>3. Becomes(t, r) /\ UNCHANGED sockets
    BY <1>3, <2>1 DEF Bind
  <2>4. Types' /\ Known' /\ Own'
    BY <1>1, <2>2, <2>3, ThreadSteps DEF Bind
  <2>5. Holders' = Holders
    BY <1>1, <2>2, <2>3, HoldersAfter
  <2> QED BY <2>3, <2>4, <2>5 DEF Bind, Inv, SocketsAccounted
<1> QED BY <1>2, <1>3

(* A thread that ends gives its socket back, or leaks it.                    *)
LEMMA HolderEnds ==
  ASSUME Inv, NEW t \in Holders, NEW phase \in {"done", "thrown"},
         Becomes(t, EndedThread(phase)),
         UNCHANGED <<main, stop, queue, buffer, futures, joining>>,
         \/ sockets' = sockets - 1 /\ UNCHANGED leaked
         \/ leaked' = leaked + 1 /\ UNCHANGED sockets
  PROVE  Inv'
<1>1. /\ t \in Threads /\ ~Ended(t)
      /\ sockets \in 0 .. MaxSockets /\ leaked \in Nat /\ MaxSockets \in Nat
      /\ sockets = Cardinality(Holders) + leaked
  BY BoundAssumption DEF Holders, Ended, Inv, Types, SocketsAccounted
<1>2. PICK r : r = EndedThread(phase)
  OBVIOUS
<1>3. /\ r \in ThreadRecord /\ r.phase = phase /\ ReadsOwn(r) /\ ServesOwn(r)
      /\ Becomes(t, r)
  BY <1>2, IdleType, IdleOwn DEF EndedThread, Idle
<1>4. Holders' = Holders \ {t}
  BY <1>1, <1>3, HoldersAfter
<1>5. /\ Cardinality(Holders') = Cardinality(Holders) - 1
      /\ Cardinality(Holders) >= 1 /\ Cardinality(Holders) \in Nat
  BY <1>4, HolderRemoved, HoldersFinite
<1>6. sockets' \in 0 .. MaxSockets /\ leaked' \in Nat
  BY <1>1, <1>5
<1>7. SocketsAccounted'
  BY <1>1, <1>5 DEF SocketsAccounted
<1>8. Types' /\ Known' /\ Own'
  BY <1>1, <1>3, <1>6, ThreadSteps
<1> QED BY <1>7, <1>8 DEF Inv

(* Refusing the request, beginning the session, or neither.                  *)
LEMMA CheckKeeps ==
  ASSUME Inv, NEW t \in Threads, Check(t) PROVE Inv'
<1>1. thread[t].phase = "bound" /\ ~Ended(t) /\ t \in Holders
  BY DEF Check, Ended, Holders
<1>2. CASE /\ Becomes(t, [thread[t] EXCEPT !.phase = "serving"])
           /\ UNCHANGED <<sockets, leaked>>
  <2>1. PICK r : r = [thread[t] EXCEPT !.phase = "serving"]
    OBVIOUS
  <2>2. r \in ThreadRecord /\ r.phase = "serving" /\ ReadsOwn(r) /\ ServesOwn(r)
    BY <1>1, <2>1, PhaseChange
  <2>3. Types' /\ Known' /\ Own'
    BY <1>1, <1>2, <2>1, <2>2, ThreadSteps DEF Check, Inv, Types
  <2>4. Holders' = Holders
    <3>1. Becomes(t, r)
      BY <1>2, <2>1
    <3>2. Holders' = Holders \cup {t}
      BY <2>2, <3>1, HoldersAfter
    <3> QED BY <1>1, <3>2
  <2> QED BY <1>2, <2>3, <2>4 DEF Check, Inv, SocketsAccounted
<1>3. CASE /\ Becomes(t, EndedThread("done"))
           /\ sockets' = sockets - 1 /\ UNCHANGED leaked
  BY <1>1, <1>3, HolderEnds DEF Check
<1>4. CASE /\ Becomes(t, EndedThread("thrown"))
           /\ leaked' = leaked + 1 /\ UNCHANGED sockets
  BY <1>1, <1>4, HolderEnds DEF Check
<1> QED BY <1>2, <1>3, <1>4 DEF Check

(* The end of a session.                                                     *)
LEMMA SessionEndsKeeps ==
  ASSUME Inv, NEW t \in Threads, SessionEnds(t) \/ SessionThrows(t) PROVE Inv'
<1>1. t \in Holders
  BY DEF SessionEnds, SessionThrows, Holders
<1> QED BY <1>1, HolderEnds DEF SessionEnds, SessionThrows

-----------------------------------------------------------------------------
(* The clients, the operator and the main thread. *)

(* Clients and the signal.                                                   *)
LEMMA OutsideKeeps ==
  ASSUME Inv, Arrive \/ Sigint PROVE Inv'
<1>1. Types'
  <2>1. CASE Arrive
    <3>1. PICK d \in Datagram : queue' = Append(queue, d)
      BY <2>1 DEF Arrive
    <3>2. /\ queue \in Seq(Datagram) /\ Len(queue) \in Nat
          /\ Len(queue) < MaxQueued /\ MaxQueued \in Nat
      BY <2>1, BoundAssumption DEF Arrive, Inv, Types
    <3>3. queue' \in Seq(Datagram) /\ Len(queue') <= MaxQueued
      BY <3>1, <3>2
    <3> QED BY <2>1, <3>3 DEF Arrive, Inv, Types
  <2>2. CASE Sigint
    BY <2>2 DEF Sigint, Inv, Types
  <2> QED BY <2>1, <2>2
<1>2. Known' /\ Own'
  BY DEF Arrive, Sigint, Inv, Known, Own, Ended, ReadsOwn, ServesOwn, Intact
<1>3. SocketsAccounted'
  BY DEF Arrive, Sigint, Inv, SocketsAccounted, Holders
<1> QED BY <1>1, <1>2, <1>3 DEF Inv

(* A datagram overwrites the buffer and gets its thread.                     *)
LEMMA ReceiveKeeps ==
  ASSUME Inv, NEW t \in Threads, Receive(t) PROVE Inv'
<1>1. /\ queue \in Seq(Datagram) /\ queue # <<>> /\ Len(queue) <= MaxQueued
      /\ thread \in [Threads -> ThreadRecord] /\ Ended(t)
      /\ main = "listening" /\ main' = "pruning" /\ MaxQueued \in Nat
  BY BoundAssumption DEF Inv, Types, Receive
<1>2. Head(queue) \in Datagram /\ Tail(queue) \in Seq(Datagram) /\ Len(Tail(queue)) <= MaxQueued
  BY <1>1
<1>3. PICK d : d = Head(queue)
  OBVIOUS
<1>4. /\ d \in Datagram /\ buffer' = d
      /\ thread' = [u \in Threads |->
                      IF u = t THEN [Idle EXCEPT !.phase = "spawned", !.request = d]
                      ELSE [thread[u] EXCEPT !.overtaken = @ \/ Reads(u)]]
  BY <1>2, <1>3 DEF Receive
<1>5. /\ thread'[t] \in ThreadRecord
      /\ thread'[t].phase = "spawned" /\ thread'[t].request = d /\ thread'[t].served = None
  BY <1>4 DEF ThreadRecord, Idle
<1>6. ASSUME NEW u \in Threads, u # t
      PROVE  /\ thread'[u] \in ThreadRecord
             /\ thread'[u].phase = thread[u].phase /\ thread'[u].request = thread[u].request
             /\ thread'[u].served = thread[u].served /\ thread'[u].op = thread[u].op
             /\ thread'[u].overtaken = (thread[u].overtaken \/ Reads(u))
  <2>1. thread[u] \in ThreadRecord /\ thread[u].overtaken \in BOOLEAN /\ Reads(u) \in BOOLEAN
    BY <1>1 DEF ThreadRecord, Reads
  <2>2. thread'[u] = [thread[u] EXCEPT !.overtaken = @ \/ Reads(u)]
    BY <1>4, <1>6
  <2> QED BY <2>1, <2>2 DEF ThreadRecord
<1>7. Types'
  BY <1>1, <1>2, <1>4, <1>5, <1>6 DEF Receive, Inv, Types
<1>8. Known'
  BY <1>1, <1>5, <1>6 DEF Receive, Inv, Known, Ended
<1>9. Own'
  <2>1. ReadsOwn(thread[t])' /\ ServesOwn(thread[t])'
    BY <1>4, <1>5 DEF ReadsOwn, ServesOwn
  <2>2. ASSUME NEW u \in Threads, u # t
        PROVE  ReadsOwn(thread[u])' /\ ServesOwn(thread[u])'
    <3>1. ReadsOwn(thread[u]) /\ ServesOwn(thread[u])
      BY DEF Inv, Own
    <3>2. Intact(thread[u])' => Intact(thread[u]) /\ ~Reads(u)
      BY <1>1, <1>6, <2>2 DEF Intact
    <3> QED BY <1>4, <1>6, <2>2, <3>1, <3>2 DEF ReadsOwn, ServesOwn, Reads
  <2> QED BY <2>1, <2>2 DEF Own
<1>10. Holders' = Holders
  BY <1>1, <1>5, <1>6 DEF Holders, Ended
<1> QED BY <1>7, <1>8, <1>9, <1>10 DEF Receive, Inv, SocketsAccounted

(* A datagram that gets no thread.                                           *)
LEMMA SpawnFailsKeeps ==
  ASSUME Inv, SpawnFails PROVE Inv'
<1>1. /\ queue \in Seq(Datagram) /\ queue # <<>> /\ Len(queue) <= MaxQueued
      /\ thread \in [Threads -> ThreadRecord]
      /\ main' = "unwinding" /\ MaxQueued \in Nat
  BY BoundAssumption DEF Inv, Types, SpawnFails
<1>2. Head(queue) \in Datagram /\ Tail(queue) \in Seq(Datagram) /\ Len(Tail(queue)) <= MaxQueued
  BY <1>1
<1>3. ASSUME NEW u \in Threads
      PROVE  /\ thread'[u] \in ThreadRecord
             /\ thread'[u].phase = thread[u].phase /\ thread'[u].request = thread[u].request
             /\ thread'[u].served = thread[u].served /\ thread'[u].op = thread[u].op
  <2>1. thread[u] \in ThreadRecord /\ thread[u].overtaken \in BOOLEAN /\ Reads(u) \in BOOLEAN
    BY <1>1 DEF ThreadRecord, Reads
  <2>2. thread'[u] = [thread[u] EXCEPT !.overtaken = @ \/ Reads(u)]
    BY DEF SpawnFails
  <2> QED BY <2>1, <2>2 DEF ThreadRecord
<1>4. Types'
  BY <1>1, <1>2, <1>3 DEF SpawnFails, Inv, Types
<1>5. Known'
  BY <1>1, <1>3 DEF SpawnFails, Inv, Known, Ended
<1>6. Own'
  BY <1>1, <1>2, <1>3 DEF SpawnFails, Inv, Own, ReadsOwn, ServesOwn, Intact
<1>7. Holders' = Holders
  BY <1>3 DEF Holders
<1> QED BY <1>4, <1>5, <1>6, <1>7 DEF SpawnFails, Inv, SocketsAccounted

(* Futures of ended threads are dropped.                                     *)
LEMMA PruneKeeps ==
  ASSUME Inv, Prune PROVE Inv'
<1>1. /\ thread \in [Threads -> ThreadRecord]
      /\ thread' = [t \in Threads |-> IF Ended(t) THEN Idle ELSE thread[t]]
      /\ main = "pruning" /\ main' = "listening"
  BY DEF Prune, Inv, Types
<1>2. Types'
  BY <1>1, IdleType DEF Prune, Inv, Types
<1>3. \A t \in Threads : Ended(t)' <=> Ended(t)
  BY <1>1 DEF Ended, Idle
<1>4. joining = None
  BY <1>1 DEF Inv, Known
<1>5. Known'
  BY <1>1, <1>3, <1>4 DEF Prune, Inv, Known
<1>6. Own'
  BY <1>1, IdleOwn DEF Prune, Inv, Own, ReadsOwn, ServesOwn, Intact, Idle
<1>7. Holders' = Holders
  BY <1>1 DEF Holders, Ended, Idle
<1> QED BY <1>2, <1>5, <1>6, <1>7 DEF Prune, Inv, SocketsAccounted

(* The steps of shutDown() and of the unwinding leave the threads alone.     *)
LEMMA ShutDownKeeps ==
  ASSUME Inv,
         StopListening \/ Close \/ Destroy \/ \E t \in Threads : Visit(t) \/ Join(t)
  PROVE  Inv'
<1>1. UNCHANGED <<stop, queue, buffer, thread, sockets, leaked>>
  BY DEF StopListening, Close, Destroy, Visit, Join
<1>2. Holders' = Holders /\ \A t \in Threads : Ended(t)' <=> Ended(t)
  BY <1>1 DEF Holders, Ended
<1>3. Types'
  BY <1>1 DEF Inv, Types, StopListening, Close, Destroy, Visit, Join
<1>4. Known'
  <2>1. CASE StopListening
    BY <1>2, <2>1 DEF Inv, Known, StopListening
  <2>2. CASE Close \/ Destroy
    BY <1>2, <2>2 DEF Inv, Known, Close, Destroy
  <2>3. ASSUME NEW t \in Threads, Visit(t) PROVE Known'
    BY <1>2, <2>3 DEF Inv, Known, Visit
  <2>4. ASSUME NEW t \in Threads, Join(t) PROVE Known'
    BY <1>2, <2>4 DEF Inv, Known, Join
  <2> QED BY <2>1, <2>2, <2>3, <2>4
<1>5. main \in {"unwinding", "failed"} => main' \in {"unwinding", "failed"}
  BY DEF StopListening, Close, Destroy, Visit, Join
<1>6. Own'
  BY <1>1, <1>5 DEF Inv, Own, ReadsOwn, ServesOwn, Intact
<1> QED BY <1>1, <1>2, <1>3, <1>4, <1>6 DEF Inv, SocketsAccounted

-----------------------------------------------------------------------------
(* The invariant holds. *)

(* The invariant holds at the start.                                         *)
LEMMA InvInit == Init => Inv
<1> SUFFICES ASSUME Init PROVE Inv
  OBVIOUS
<1>1. \A t \in Threads : thread[t] = Idle /\ Ended(t)
  BY DEF Init, Ended, Idle
<1>2. Types
  <2>1. <<>> \in Seq(Datagram) /\ Len(<<>>) = 0 /\ 0 <= MaxQueued /\ 0 \in 0 .. MaxSockets
    BY BoundAssumption
  <2>2. [t \in Threads |-> Idle] \in [Threads -> ThreadRecord]
    BY IdleType
  <2> QED BY <2>1, <2>2 DEF Init, Types
<1>3. Known /\ Own
  BY <1>1, IdleOwn DEF Init, Known, Own
<1>4. Holders = {}
  BY <1>1 DEF Holders, Idle
<1> QED BY <1>2, <1>3, <1>4, FS_EmptySet DEF Init, Inv, SocketsAccounted

(* Every step keeps it.                                                      *)
LEMMA InvNext == Inv /\ [Next]_vars => Inv'
<1> SUFFICES ASSUME Inv, [Next]_vars PROVE Inv'
  OBVIOUS
<1>1. CASE UNCHANGED vars
  BY <1>1 DEF vars, Inv, Types, Known, Own, SocketsAccounted, Holders, Ended,
              ReadsOwn, ServesOwn, Intact
<1>2. CASE Arrive \/ Sigint
  BY <1>2, OutsideKeeps
<1>3. CASE SpawnFails
  BY <1>3, SpawnFailsKeeps
<1>4. CASE MainSteps
  BY <1>4, PruneKeeps, ReceiveKeeps, ShutDownKeeps DEF MainSteps
<1>5. CASE \E t \in Threads : RequestSteps(t) \/ SessionEnds(t) \/ SessionThrows(t)
  BY <1>5, ParseOpcodeKeeps, ParseRequestKeeps, BindKeeps, CheckKeeps, SessionEndsKeeps
     DEF RequestSteps
<1> QED BY <1>1, <1>2, <1>3, <1>4, <1>5 DEF Next

(* The inductive invariant: each thread works on the datagram it was spawned *)
(* for or on one that came later, and who has a socket is counted.           *)
THEOREM InvHolds == Spec => []Inv
BY InvInit, InvNext, PTL DEF Spec

(* It has the type and the request of each thread.                           *)
LEMMA InvImplies == Inv => ListenerTypeOK /\ OwnRequest
<1> SUFFICES ASSUME Inv PROVE ListenerTypeOK /\ OwnRequest
  OBVIOUS
<1>1. leaked \in 0 .. MaxSockets
  <2>1. /\ leaked \in Nat /\ sockets \in 0 .. MaxSockets /\ MaxSockets \in Nat
        /\ sockets = Cardinality(Holders) + leaked
    BY BoundAssumption DEF Inv, Types, SocketsAccounted
  <2> QED BY <2>1, HoldersFinite
<1>2. ListenerTypeOK
  BY <1>1 DEF Inv, Types, ListenerTypeOK
<1>3. OwnRequest
  BY DEF Inv, Own, ServesOwn, Intact, OwnRequest
<1> QED BY <1>2, <1>3

(* Every variable of the server has its type, whatever the limits: in        *)
(* particular it never has more sockets open for sessions than it opened.    *)
THEOREM ListenerTypeCorrect == Spec => []ListenerTypeOK
BY InvHolds, InvImplies, PTL

(* Every client is answered as the one it is, and with what it asked for     *)
(* unless its datagram was overwritten before its thread had parsed it.      *)
THEOREM OwnRequestCorrect == Spec => []OwnRequest
BY InvHolds, InvImplies, PTL

(* No socket is lost but to an exception of the thread that had opened it,   *)
(* in exists() or in its session (handleClientRequest). *)
THEOREM SocketsCorrect == Spec => []SocketsAccounted
<1>1. Inv => SocketsAccounted
  BY DEF Inv
<1> QED BY <1>1, InvHolds, PTL

-----------------------------------------------------------------------------
(* The refinement. *)

Status ==
  CASE main \in {"listening", "pruning"} -> "up"
    [] main \in {"stopping", "unwinding"} -> "draining"
    [] OTHER -> "down"
Running == {t \in Threads : ~Ended(t)}

(* The server begins as its promise does.                                    *)
LEMMA PromiseInit == Init => Promise!Init
BY DEF Init, Promise!Init, Ended, Idle

(* A thread's step ends it or leaves it running. *)
LEMMA ThreadFinishes ==
  ASSUME Inv, NEW t \in Threads, ~Ended(t),
         UNCHANGED main, \E r : Becomes(t, r)
  PROVE  Promise!Finish(t) \/ UNCHANGED Promise!vars
<1>1. PICK r : thread' = [thread EXCEPT ![t] = r]
  BY DEF Becomes
<1>2. thread \in [Threads -> ThreadRecord]
  BY DEF Inv, Types
<1>3. \A u \in Threads : u # t => (Ended(u)' <=> Ended(u))
  BY <1>1, <1>2 DEF Ended
<1>4. Running' = Running \/ Running' = Running \ {t}
  BY <1>3 DEF Running
<1>5. t \in Running
  BY DEF Running
<1> QED BY <1>4, <1>5 DEF Promise!Finish, Promise!vars, Running

(* A step of a thread is a step of its request, or none.                     *)
LEMMA ThreadPromise ==
  ASSUME Inv, NEW t \in Threads,
         RequestSteps(t) \/ SessionEnds(t) \/ SessionThrows(t)
  PROVE  Promise!Finish(t) \/ UNCHANGED Promise!vars
<1>1. ~Ended(t) /\ UNCHANGED main
  BY DEF RequestSteps, ParseOpcode, ParseRequest, Bind, Check, SessionEnds, SessionThrows, Ended
<1>2. \E r : Becomes(t, r)
  BY DEF RequestSteps, ParseOpcode, ParseRequest, Bind, Check, SessionEnds, SessionThrows
<1> QED BY <1>1, <1>2, ThreadFinishes

(* Starting a thread is Accept, and no thread runs under a name twice. *)
LEMMA ReceivePromise ==
  ASSUME Inv, NEW t \in Threads, Receive(t)
  PROVE  Promise!Accept(t)
<1>1. thread \in [Threads -> ThreadRecord] /\ Ended(t)
  BY DEF Inv, Types, Receive
<1>2. PICK d : thread' = [u \in Threads |->
                  IF u = t THEN [Idle EXCEPT !.phase = "spawned", !.request = d]
                  ELSE [thread[u] EXCEPT !.overtaken = @ \/ Reads(u)]]
  BY DEF Receive
<1>3. ~Ended(t)'
  BY <1>2 DEF Ended, Idle
<1>4. ASSUME NEW u \in Threads, u # t PROVE Ended(u)' <=> Ended(u)
  <2>1. thread[u] \in ThreadRecord
    BY <1>1
  <2>2. thread'[u] = [thread[u] EXCEPT !.overtaken = @ \/ Reads(u)]
    BY <1>2, <1>4
  <2>3. thread'[u].phase = thread[u].phase
    BY <2>1, <2>2 DEF ThreadRecord
  <2> QED BY <2>3 DEF Ended
<1>5. Running' = Running \cup {t} /\ t \notin Running
  BY <1>1, <1>3, <1>4 DEF Running
<1>6. main = "listening" /\ main' = "pruning"
  BY DEF Receive
<1> QED BY <1>5, <1>6 DEF Promise!Accept, Running

(* The other steps of the main thread leave the running threads alone, and   *)
(* the server stays up, or up and draining.                                  *)
LEMMA MainPromise ==
  ASSUME Inv,
         \/ Arrive \/ Sigint \/ Prune \/ SpawnFails \/ StopListening
         \/ \E t \in Threads : Visit(t) \/ Join(t)
  PROVE  Promise!Drain \/ UNCHANGED Promise!vars
<1>1. \A u \in Threads : Ended(u)' <=> Ended(u)
  <2>1. CASE Prune
    BY <2>1 DEF Prune, Ended, Idle
  <2>2. CASE SpawnFails
    <3>1. ASSUME NEW u \in Threads PROVE thread'[u].phase = thread[u].phase
      <4>1. thread[u] \in ThreadRecord
        BY DEF Inv, Types
      <4>2. thread'[u] = [thread[u] EXCEPT !.overtaken = @ \/ Reads(u)]
        BY <2>2 DEF SpawnFails
      <4> QED BY <4>1, <4>2 DEF ThreadRecord
    <3> QED BY <3>1 DEF Ended
  <2>3. CASE UNCHANGED thread
    BY <2>3 DEF Ended
  <2> QED BY <2>1, <2>2, <2>3 DEF Arrive, Sigint, StopListening, Visit, Join
<1>2. Running' = Running
  BY <1>1 DEF Running
<1>3. Status' = Status \/ (Status = "up" /\ Status' = "draining")
  BY DEF Status, Arrive, Sigint, Prune, SpawnFails, StopListening, Visit, Join
<1> QED BY <1>2, <1>3 DEF Promise!Drain, Promise!vars, Running, Status

(* The server is down only when nothing runs: every thread that has not      *)
(* ended would be among the futures it has waited for.                       *)
LEMMA DownPromise ==
  ASSUME Inv, Close \/ Destroy
  PROVE  Promise!Close
<1>1. \A t \in Threads : Ended(t)
  BY DEF Inv, Known, Close, Destroy
<1>2. \A t \in Threads : Ended(t)'
  BY <1>1 DEF Ended, Close, Destroy
<1>3. Running = {} /\ Running' = {}
  BY <1>1, <1>2 DEF Running
<1>4. Status = "draining" /\ Status' = "down"
  BY DEF Status, Close, Destroy
<1> QED BY <1>3, <1>4 DEF Promise!Close, Running, Status

(* Every step is one of Service or changes nothing that it has.              *)
LEMMA PromiseNext == Inv /\ [Next]_vars => [Promise!Next]_(Promise!vars)
<1> SUFFICES ASSUME Inv, [Next]_vars
             PROVE  Promise!Next \/ UNCHANGED Promise!vars
  OBVIOUS
<1>1. CASE UNCHANGED vars
  BY <1>1 DEF vars, Promise!vars, Ended
<1>2. CASE \/ Arrive \/ Sigint \/ Prune \/ SpawnFails \/ StopListening
           \/ \E t \in Threads : Visit(t) \/ Join(t)
  BY <1>2, MainPromise DEF Promise!Next
<1>3. CASE Close \/ Destroy
  BY <1>3, DownPromise DEF Promise!Next
<1>4. CASE \E t \in Threads : Receive(t)
  BY <1>4, ReceivePromise DEF Promise!Next
<1>5. CASE \E t \in Threads : RequestSteps(t) \/ SessionEnds(t) \/ SessionThrows(t)
  BY <1>5, ThreadPromise DEF Promise!Next
<1> QED BY <1>1, <1>2, <1>3, <1>4, <1>5 DEF Next, MainSteps

(* However many threads run, none outlives the server, and none is started   *)
(* while it shuts down (TFTPServer::shutDown, the order of its members).     *)
THEOREM PromiseKept == Spec => KeepsServicePromise
<1>1. Init => Promise!Init
  BY PromiseInit
<1>2. Inv /\ [Next]_vars => [Promise!Next]_(Promise!vars)
  BY PromiseNext
<1> QED BY <1>1, <1>2, InvHolds, PTL DEF Spec, KeepsServicePromise, Promise!Spec

(* Whatever becomes of the sessions, a server that nobody has stopped goes   *)
(* on listening as long as a thread can be started (the futures keep the     *)
(* exceptions of the threads).                                               *)
THEOREM ListensOn == Spec => SessionsDoNotStopServer
<1>1. [Next]_vars =>
        [(main \in {"listening", "pruning"} /\ main' \notin {"listening", "pruning"}) =>
            stop \/ SpawnFails]_vars
  BY DEF Next, MainSteps, RequestSteps, vars, Arrive, Sigint, Prune, StopListening, Close,
         Destroy, Receive, Visit, Join, ParseOpcode, ParseRequest, Bind, Check,
         SessionEnds, SessionThrows
<1> QED BY <1>1, PTL DEF Spec, SessionsDoNotStopServer
=============================================================================
