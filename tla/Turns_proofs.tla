---------------------------- MODULE Turns_proofs ----------------------------
(***************************************************************************)
(* The turns of the client and of a session as relations between the       *)
(* fields of their records before and after: what the inductive invariants *)
(* of the other proof modules are shown from.  Here they give the schedule *)
(* of retransmissions, what is retransmitted, and that nothing crashes     *)
(* unless a sendto() fails, for every value of the constants.              *)
(***************************************************************************)
EXTENDS Transfer_proofs, Induction_proofs

-----------------------------------------------------------------------------
(* Turns. *)

(* Two records of a session that differ at most in its state, its file and   *)
(* what is kept to be sent again.                                            *)
Like(r, s) ==
  /\ r.type = s.type /\ r.options = s.options
  /\ r.block = s.block /\ r.blockSize = s.blockSize /\ r.pos = s.pos
  /\ r.srcTID = s.srcTID
  /\ r.initialTimeout = s.initialTimeout /\ r.timeout = s.timeout /\ r.retries = s.retries

(* The schedule starts again. *)
Rests(s) == s.retries = 0 /\ s.timeout = s.initialTimeout

(* One more timeout is counted.                                              *)
Backs(old, new) ==
  /\ old.retries < MaxRetries /\ new.retries = old.retries + 1
  /\ new.timeout = old.timeout * BACKOFF_FACTOR
  /\ new.initialTimeout = old.initialTimeout

(* What a turn that sends p keeps to send again, and leaves in flight.       *)
Retains(old, new, p) ==
  /\ new = old \/ new = p
  /\ p.op = "ERROR" => new = old
  /\ "send" \notin Faults /\ p.op # "ERROR" => new = p
Complains(src, x) == x.op = "ERROR" /\ x.src = src
Replies(src, p) == \A x \in net' : x \in net \/ x = p \/ Complains(src, x)
Quiets(src) == \A x \in net' : x \in net \/ Complains(src, x)

(* The client's turns.                                                       *)
SameClient(m) ==
  /\ client'.options = client.options /\ client'.blockSize = client.blockSize
  /\ client'.srcTID = m.src
TakesOptions(m) ==
  /\ client'.options = m.opts
  /\ client'.blockSize = IF Has(m.opts, "blksize") THEN m.opts["blksize"] ELSE client.blockSize
  /\ client'.srcTID = m.src

ClientBegins ==
  /\ client.state = "FREE"
  /\ client'.state = IF client.options = NoOptions THEN "INITIAL" ELSE "WAITING_OACK"
  /\ client'.block = IF client.type = "READ" THEN 1 ELSE 0
  /\ client'.options = client.options /\ client'.blockSize = client.blockSize
  /\ client'.srcTID = client.srcTID /\ client'.pos = client.pos
  /\ client'.initialTimeout = client.initialTimeout
  /\ client'.retries = client.retries /\ client'.timeout = client.timeout
  /\ Retains(client.last, client'.last, Request(client.type, Listener, client.options))
  /\ Replies(Client, Request(client.type, Listener, client.options))

ClientFails ==
  /\ client.state = "FREE" \/ client.state \in Waiting
  /\ client'.state = "ERROR" \/ (client'.state = "CRASHED" /\ client.state \in Waiting /\ client.last = None)
  /\ client.state \notin Undecided \/ client.type = "WRITE" =>
       client'.options = client.options /\ client'.blockSize = client.blockSize
  /\ client.srcTID # None => client'.srcTID = client.srcTID
  /\ \/ client'.last = client.last /\ Quiets(Client)
     \/ /\ client.state = "FREE"
        /\ Retains(client.last, client'.last, Request(client.type, Listener, client.options))
        /\ Replies(Client, Request(client.type, Listener, client.options))

ClientStays ==
  /\ client.state \in Waiting
  /\ client'.state = client.state /\ client'.block = client.block /\ client'.pos = client.pos
  /\ client'.options = client.options /\ client'.blockSize = client.blockSize
  /\ client'.srcTID = client.srcTID /\ client'.last = client.last
  /\ \/ Rests(client') /\ client.srcTID # None /\ Quiets(Client)
     \/ Backs(client, client') /\ client.last # None /\ Replies(Client, client.last)

ClientStores ==
  \E m \in net :
    /\ AtClient(m) /\ m.op = "DATA"
    /\ client.state \in {"INITIAL", "WAITING_DATA", "WAITING_OACK"}
    /\ m.block = client.block /\ Len(m.data) <= client.blockSize
    /\ client'.state = IF Len(m.data) < client.blockSize THEN "RRQ_END" ELSE "WAITING_DATA"
    /\ client'.block = NextBlock(client.block) /\ client'.pos = client.pos + Len(m.data)
    /\ SameClient(m) /\ Rests(client')
    /\ Retains(client.last, client'.last, Ack(Client, m.src, client.block))
    /\ Replies(Client, Ack(Client, m.src, client.block))

ClientReads(m, b) ==
  LET data == ReadAt(Source, client.pos, client'.blockSize)
  IN /\ client'.state = IF Len(data) < client'.blockSize THEN "WAITING_LAST_ACK" ELSE "WAITING_ACK"
     /\ client'.block = b /\ client'.pos = client.pos + Len(data)
     /\ Rests(client')
     /\ Retains(client.last, client'.last, Data(Client, m.src, b, data))
     /\ Replies(Client, Data(Client, m.src, b, data))

ClientSendsNext ==
  \E m \in net :
    /\ AtClient(m) /\ m.op = "ACK"
    /\ \/ client.state = "INITIAL"
       \/ client.state \in {"WAITING_ACK", "WAITING_OACK"} /\ m.block = client.block
    /\ SameClient(m)
    /\ ClientReads(m, IF client.state = "WAITING_ACK" THEN NextBlock(client.block) ELSE 1)

ClientEnds ==
  \E m \in net :
    /\ AtClient(m) /\ m.op = "ACK"
    /\ client.state = "WAITING_LAST_ACK" /\ m.block = client.block
    /\ client'.state = "WRQ_END" /\ client'.last = client.last
    /\ SameClient(m) /\ Quiets(Client)

ClientAccepts ==
  \E m \in net :
    /\ AtClient(m) /\ m.op = "OACK" /\ client.state = "WAITING_OACK"
    /\ TakesOptions(m)
    /\ \/ /\ client.type = "READ"
          /\ client'.state = "WAITING_DATA" /\ client'.block = client.block
          /\ Rests(client')
          /\ Retains(client.last, client'.last, Ack(Client, m.src, 0))
          /\ Replies(Client, Ack(Client, m.src, 0))
       \/ /\ client.type = "WRITE"
          /\ ClientReads(m, NextBlock(client.block))

ClientRepeats ==
  LET p == [client.last EXCEPT !.opts = NoOptions]
  IN /\ client.state = "WAITING_OACK" /\ client.last # None
     /\ client'.state = IF client.type = "READ" THEN "WAITING_DATA" ELSE "WAITING_ACK"
     /\ client'.block = client.block /\ client'.pos = client.pos
     /\ client'.options = client.options /\ client'.blockSize = client.blockSize
     /\ client'.srcTID = None /\ client'.last = p
     /\ Rests(client') /\ Replies(Client, p)

ClientChanges ==
  \/ ClientBegins \/ ClientFails \/ ClientStays \/ ClientStores \/ ClientSendsNext
  \/ ClientEnds \/ ClientAccepts \/ ClientRepeats

(* A step of the client.                                                     *)
ClientActs == ClientStart \/ ClientReceives \/ ClientTimesOut \/ ClientInterrupted

(* What sending does to the session, the packets kept and those in flight.   *)
LEMMA ClientSent ==
  ASSUME NEW s \in ClientRecord, NEW p, NEW rest, NEW file, ClientSends(s, p, rest, file)
  PROVE  /\ client'.state = s.state /\ Like(client', s)
         /\ Retains(s.last, client'.last, p)
         /\ \A x \in net' : x \in rest \/ x = p
<1> USE DEF Like
<1>1. PICK ok \in SendOutcomes : /\ ClientGoes(Sent(s, p, ok), file)
                                 /\ net' = rest \cup Transmitted(p, ok)
  BY DEF ClientSends
<1>2. client' = Sent(s, p, ok)
  BY <1>1 DEF ClientGoes
<1>3. Retains(s.last, client'.last, p)
  BY <1>2 DEF Sent, ClientRecord, Retains, SendOutcomes
<1> QED
  BY <1>1, <1>2, <1>3 DEF Sent, ClientRecord, Transmitted

(* The session when a packet has arrived, from whoever it is.                *)
LEMMA ClientHeard ==
  ASSUME TypeInv
  PROVE  LET h == Heard(client)
         IN /\ h \in ClientRecord /\ Rests(h)
            /\ h.state = client.state /\ h.type = client.type /\ h.options = client.options
            /\ h.block = client.block /\ h.blockSize = client.blockSize /\ h.pos = client.pos
            /\ h.srcTID = client.srcTID /\ h.last = client.last
<1>1. client \in ClientRecord /\ IsClient(Heard(client))
  BY TypeParts, ClientUpdates DEF IsClient
<1> QED
  BY <1>1 DEF Heard, ClientRecord, IsClient, Rests

(* The same when its sender is the peer.                                     *)
LEMMA ClientHeardPeer ==
  ASSUME TypeInv, NEW m \in net, AtClient(m)
  PROVE  LET s == FromPeer(m)
         IN /\ s \in ClientRecord /\ Rests(s) /\ IsClient(s)
            /\ s.state = client.state /\ s.type = client.type /\ s.options = client.options
            /\ s.block = client.block /\ s.blockSize = client.blockSize /\ s.pos = client.pos
            /\ s.srcTID = m.src /\ s.last = client.last
            /\ m.src \in Tids /\ IsPacket(m) /\ m.src # None
            /\ client.srcTID # None => client.srcTID = m.src
            /\ client.state \in Waiting
            /\ \A x \in Received(m) : x \in net
<1>1. IsPacket(m) /\ m.src \in Tids /\ IsClient(FromPeer(m)) /\ m.src # None
  BY PeerTypes, Ports DEF AtClient
<1>2. Heard(client) \in ClientRecord /\ client \in ClientRecord
  BY ClientHeard, TypeParts DEF IsClient
<1>3. FromPeer(m).srcTID = m.src /\ FromPeer(m).last = Heard(client).last
      /\ FromPeer(m).state = Heard(client).state /\ FromPeer(m).type = Heard(client).type
      /\ FromPeer(m).options = Heard(client).options /\ FromPeer(m).block = Heard(client).block
      /\ FromPeer(m).blockSize = Heard(client).blockSize /\ FromPeer(m).pos = Heard(client).pos
      /\ Rests(FromPeer(m))
  BY <1>2, ClientHeard DEF FromPeer, ClientRecord, Rests
<1> QED
  BY <1>1, <1>3, ClientHeard DEF IsClient, AtClient, Received

(* The session with the options of an OACK.                                  *)
LEMMA ClientWithOptions ==
  ASSUME NEW s, IsClient(s), Rests(s), NEW o \in Options
  PROVE  LET w == WithOptions(s, o)
         IN /\ w \in ClientRecord /\ Rests(w)
            /\ w.options = o
            /\ w.blockSize = IF Has(o, "blksize") THEN o["blksize"] ELSE s.blockSize
            /\ w.state = s.state /\ w.type = s.type /\ w.block = s.block /\ w.pos = s.pos
            /\ w.srcTID = s.srcTID /\ w.last = s.last
<1>1. WithOptions(s, o) \in ClientRecord /\ s \in ClientRecord
  BY ClientUpdates DEF IsClient
<1> QED
  BY <1>1 DEF WithOptions, ClientRecord, Rests

(* The session when a block has been read for it.                            *)
LEMMA ClientSending ==
  ASSUME NEW s \in ClientRecord, NEW b \in BlockNumber, NEW data \in Seq(Nat)
  PROVE  LET r == SendingBlock(s, b, data)
         IN /\ r \in ClientRecord
            /\ r.state = IF Len(data) < s.blockSize THEN "WAITING_LAST_ACK" ELSE "WAITING_ACK"
            /\ r.block = b /\ r.pos = s.pos + Len(data)
            /\ r.blockSize = s.blockSize /\ r.options = s.options /\ r.type = s.type
            /\ r.srcTID = s.srcTID /\ r.last = s.last
            /\ Rests(s) => Rests(r)
<1>1. s.pos + Len(data) \in Nat /\ "WAITING_LAST_ACK" \in SessionState /\ "WAITING_ACK" \in SessionState
  BY ClientFields DEF SessionState, Waiting
<1> QED
  BY <1>1 DEF SendingBlock, ClientRecord, Rests

(* A turn that reads a block and sends it.                                   *)
LEMMA ClientReadsBlock ==
  ASSUME NEW s \in ClientRecord, Rests(s), s.last = client.last, s.pos = client.pos,
         NEW m, NEW b \in BlockNumber, NEW file,
         NEW rest, \A x \in rest : x \in net \/ Complains(Client, x),
         ClientSends(SendingBlock(s, b, ReadAt(Source, s.pos, s.blockSize)),
                     Data(Client, m.src, b, ReadAt(Source, s.pos, s.blockSize)), rest, file)
  PROVE  /\ ClientReads(m, b) /\ client'.type = s.type
         /\ client'.options = s.options /\ client'.blockSize = s.blockSize
         /\ client'.srcTID = s.srcTID
<1> USE DEF Like
<1> DEFINE data == ReadAt(Source, s.pos, s.blockSize)
           r == SendingBlock(s, b, data)
<1>1. data \in Seq(Nat)
  BY ReadAtType, ClientFields, Numbers
<1> HIDE DEF data
<1>2. /\ r \in ClientRecord
      /\ r.state = IF Len(data) < s.blockSize THEN "WAITING_LAST_ACK" ELSE "WAITING_ACK"
      /\ r.block = b /\ r.pos = s.pos + Len(data) /\ r.type = s.type
      /\ r.blockSize = s.blockSize /\ r.options = s.options
      /\ r.srcTID = s.srcTID /\ r.last = s.last /\ Rests(r)
  BY <1>1, ClientSending
<1>3. ClientSends(r, Data(Client, m.src, b, data), rest, file)
  BY DEF data
<1> HIDE DEF r
<1>4. /\ client'.state = r.state /\ Like(client', r)
      /\ Retains(r.last, client'.last, Data(Client, m.src, b, data))
      /\ \A x \in net' : x \in rest \/ x = Data(Client, m.src, b, data)
  BY <1>2, <1>3, ClientSent
<1>5. data = ReadAt(Source, client.pos, client'.blockSize)
  BY <1>2, <1>4 DEF data
<1> QED
  BY <1>2, <1>4, <1>5 DEF ClientReads, Replies, Rests

(* A turn that fails: with an ERROR sent, or without.                        *)
LEMMA ClientFailing ==
  ASSUME TypeInv, NEW s \in ClientRecord, s.last = client.last, s.type = client.type,
         client.state \in Waiting,
         client.state \notin Undecided \/ client.type = "WRITE" =>
           s.options = client.options /\ s.blockSize = client.blockSize,
         client.srcTID # None => s.srcTID = client.srcTID,
         NEW rest, \A x \in rest : x \in net \/ Complains(Client, x),
         \/ \E dst, c, file : ClientSends(Failed(s), Error(Client, dst, c), rest, file)
         \/ \E file : ClientGoes(Failed(s), file) /\ net' = rest
  PROVE  ClientFails /\ client'.type = client.type
<1> USE DEF Like
<1>1. /\ Failed(s) \in ClientRecord /\ Failed(s).state = "ERROR" /\ Failed(s).last = s.last
      /\ Failed(s).type = s.type /\ Failed(s).options = s.options
      /\ Failed(s).blockSize = s.blockSize /\ Failed(s).srcTID = s.srcTID
  BY DEF Failed, ClientRecord, SessionState, Ended
<1>2. CASE \E dst, c, file : ClientSends(Failed(s), Error(Client, dst, c), rest, file)
  <2>1. PICK dst, c, file : ClientSends(Failed(s), Error(Client, dst, c), rest, file)
    BY <1>2
  <2>2. /\ client'.state = "ERROR" /\ client'.type = s.type /\ client'.options = s.options
        /\ client'.blockSize = s.blockSize /\ client'.srcTID = s.srcTID
        /\ Retains(s.last, client'.last, Error(Client, dst, c))
        /\ \A x \in net' : x \in rest \/ x = Error(Client, dst, c)
    BY <1>1, <2>1, ClientSent
  <2>3. Complains(Client, Error(Client, dst, c)) /\ client'.last = s.last
    BY <2>2 DEF Error, Complains, Retains
  <2> QED BY <2>2, <2>3 DEF ClientFails, Quiets
<1>3. CASE \E file : ClientGoes(Failed(s), file) /\ net' = rest
  <2>1. client' = Failed(s) /\ net' = rest
    BY <1>3 DEF ClientGoes
  <2> QED BY <1>1, <2>1 DEF ClientFails, Quiets
<1> QED
  BY <1>2, <1>3

(* DATA, taken or refused. *)
LEMMA ClientDataMoves ==
  ASSUME TypeInv, DataAtClient
  PROVE  (ClientStores \/ ClientFails) /\ client'.type = client.type
<1> USE DEF Like
<1>1. PICK m \in net :
        /\ AtClient(m)
        /\ TakesData(FromPeer(m), m)
        /\ \/ ClientSends(TakingBlock(FromPeer(m), m, "WAITING_DATA", "RRQ_END"),
                         Ack(Client, m.src, FromPeer(m).block), Received(m), local \o m.data)
           \/ ClientSends(Failed(FromPeer(m)), Error(Client, m.src, "DISK_FULL"),
                         Received(m), local)
  BY DEF DataAtClient
<1> DEFINE s == FromPeer(m)
           u == TakingBlock(s, m, "WAITING_DATA", "RRQ_END")
           a == Ack(Client, m.src, client.block)
<1>2. /\ s \in ClientRecord /\ Rests(s) /\ IsClient(s)
      /\ s.state = client.state /\ s.type = client.type /\ s.options = client.options
      /\ s.block = client.block /\ s.blockSize = client.blockSize /\ s.pos = client.pos
      /\ s.srcTID = m.src /\ s.last = client.last /\ IsPacket(m)
      /\ client.srcTID # None => client.srcTID = m.src
      /\ client.state \in Waiting
      /\ \A x \in Received(m) : x \in net
  BY <1>1, ClientHeardPeer
<1>3. /\ m.op = "DATA" /\ client.state \in {"INITIAL", "WAITING_DATA", "WAITING_OACK"}
      /\ m.block = client.block /\ Len(m.data) <= client.blockSize
  BY <1>1, <1>2 DEF TakesData, NextExpected
<1> HIDE DEF s
<1>4. CASE ClientSends(u, Ack(Client, m.src, s.block), Received(m), local \o m.data)
  <2>1. IsClient(u)
    BY <1>2, <1>3, ClientUpdates
  <2>2. /\ u \in ClientRecord
        /\ u.state = IF Len(m.data) < client.blockSize THEN "RRQ_END" ELSE "WAITING_DATA"
        /\ u.block = NextBlock(client.block) /\ u.pos = client.pos + Len(m.data)
        /\ u.type = client.type /\ u.options = client.options
        /\ u.blockSize = client.blockSize /\ u.srcTID = m.src /\ u.last = client.last
        /\ Rests(u)
    BY <1>2, <2>1 DEF TakingBlock, ClientRecord, Rests, IsClient
  <2> HIDE DEF u
  <2>3. /\ client'.state = u.state /\ Like(client', u)
        /\ Retains(u.last, client'.last, a)
        /\ \A x \in net' : x \in Received(m) \/ x = a
    BY <1>2, <1>4, <2>2, ClientSent
  <2> HIDE DEF a
  <2>4. Replies(Client, a) /\ Rests(client')
    BY <1>2, <2>2, <2>3 DEF Replies, Rests
  <2>5. ClientStores
    <3>1. AtClient(m)
      BY <1>1
    <3> HIDE DEF AtClient
    <3> QED BY <1>2, <1>3, <2>2, <2>3, <2>4, <3>1 DEF ClientStores, SameClient, a
  <2> QED BY <2>2, <2>3, <2>5
<1>5. CASE ClientSends(Failed(s), Error(Client, m.src, "DISK_FULL"), Received(m), local)
  BY <1>2, <1>5, ClientFailing
<1> QED
  BY <1>1, <1>4, <1>5 DEF s

(* ACK, and OACK.                                                            *)
LEMMA ClientAckMoves ==
  ASSUME TypeInv, AckAtClient
  PROVE  (ClientSendsNext \/ ClientEnds) /\ client'.type = client.type
<1>1. PICK m \in net :
        /\ AtClient(m)
        /\ \/ /\ SendsBlock(FromPeer(m), m)
              /\ ClientSendsBlock(FromPeer(m), m, IF FromPeer(m).state = "WAITING_ACK"
                                       THEN NextBlock(FromPeer(m).block) ELSE 1)
           \/ /\ LastAck(FromPeer(m), m)
              /\ ClientGoes([FromPeer(m) EXCEPT !.state = "WRQ_END"], local)
              /\ net' = Received(m)
  BY DEF AckAtClient
<1> DEFINE s == FromPeer(m)
           b == IF s.state = "WAITING_ACK" THEN NextBlock(s.block) ELSE 1
<1>2. /\ s \in ClientRecord /\ Rests(s) /\ IsClient(s)
      /\ s.state = client.state /\ s.type = client.type /\ s.options = client.options
      /\ s.block = client.block /\ s.blockSize = client.blockSize /\ s.pos = client.pos
      /\ s.srcTID = m.src /\ s.last = client.last
      /\ \A x \in Received(m) : x \in net
  BY <1>1, ClientHeardPeer
<1> HIDE DEF s
<1>3. b \in BlockNumber
  BY <1>2, ClientFields, NextBlockType, Numbers
<1>4. CASE SendsBlock(s, m) /\ ClientSendsBlock(s, m, b)
  <2> HIDE DEF b
  <2>1. /\ ClientReads(m, b) /\ client'.type = s.type
        /\ client'.options = s.options /\ client'.blockSize = s.blockSize
        /\ client'.srcTID = s.srcTID
    BY <1>2, <1>3, <1>4, ClientReadsBlock DEF ClientSendsBlock
  <2>2. b = IF client.state = "WAITING_ACK" THEN NextBlock(client.block) ELSE 1
    BY <1>2 DEF b
  <2> HIDE DEF ClientReads
  <2> QED BY <1>1, <1>2, <1>4, <2>1, <2>2 DEF ClientSendsNext, SendsBlock, SameClient
<1>5. CASE LastAck(s, m) /\ ClientGoes([s EXCEPT !.state = "WRQ_END"], local) /\ net' = Received(m)
  BY <1>1, <1>2, <1>5 DEF ClientEnds, LastAck, ClientGoes, SameClient, Quiets, ClientRecord
<1> QED
  BY <1>1, <1>4, <1>5 DEF s

(* OACK.                                                                     *)
LEMMA ClientOackMoves ==
  ASSUME TypeInv, OackAtClient
  PROVE  (ClientAccepts \/ ClientFails) /\ client'.type = client.type
<1> USE DEF Like
<1>1. PICK m \in net :
        /\ AtClient(m) /\ TakesOack(client, m)
        /\ \E more :
             /\ \A x \in more : x \in Received(m) \/ Complains(Client, x)
             /\ LET s == WithOptions(FromPeer(m), m.opts)
                IN \/ /\ s.type = "READ"
                      /\ ClientSends([s EXCEPT !.state = "WAITING_DATA"],
                                     Ack(Client, m.src, 0), more, local)
                   \/ /\ s.type = "READ"
                      /\ ClientSends(Failed(s), Error(Client, m.src, "DISK_FULL"),
                                     more, local)
                   \/ /\ s.type = "WRITE"
                      /\ LET b    == NextBlock(s.block)
                             data == ReadAt(Source, s.pos, s.blockSize)
                         IN ClientSends(SendingBlock(s, b, data),
                                        Data(Client, m.src, b, data), more, local)
  <2>1. \A m : Complains(Client, Error(Client, m.src, "INVALID_OPTIONS"))
    BY DEF Complains, Error
  <2>2. \A m : \A c \in BOOLEAN : \A x \in Received(m) \cup
              (IF c THEN {} ELSE {Error(Client, m.src, "INVALID_OPTIONS")}) :
           x \in Received(m) \/ Complains(Client, x)
    BY <2>1
  <2> QED BY <2>2 DEF OackAtClient
<1> DEFINE f == FromPeer(m)
           s == WithOptions(f, m.opts)
           r == [s EXCEPT !.state = "WAITING_DATA"]
           a == Ack(Client, m.src, 0)
<1>2. PICK more :
        /\ \A x \in more : x \in Received(m) \/ Complains(Client, x)
        /\ \/ s.type = "READ" /\ ClientSends(r, a, more, local)
           \/ s.type = "READ" /\ ClientSends(Failed(s), Error(Client, m.src, "DISK_FULL"), more, local)
           \/ /\ s.type = "WRITE"
              /\ ClientSends(SendingBlock(s, NextBlock(s.block), ReadAt(Source, s.pos, s.blockSize)),
                             Data(Client, m.src, NextBlock(s.block),
                                  ReadAt(Source, s.pos, s.blockSize)), more, local)
  BY <1>1
<1>3. /\ f \in ClientRecord /\ Rests(f) /\ IsClient(f)
      /\ f.state = client.state /\ f.type = client.type /\ f.options = client.options
      /\ f.block = client.block /\ f.blockSize = client.blockSize /\ f.pos = client.pos
      /\ f.srcTID = m.src /\ f.last = client.last /\ IsPacket(m)
      /\ client.state \in Waiting
      /\ client.srcTID # None => client.srcTID = m.src
      /\ \A x \in Received(m) : x \in net
  BY <1>1, ClientHeardPeer
<1>4. /\ m.op = "OACK" /\ client.state = "WAITING_OACK" /\ m.opts \in Options
      /\ \A x \in more : x \in net \/ Complains(Client, x)
  BY <1>1, <1>2, <1>3, PacketFields DEF TakesOack, IsPacket
<1> HIDE DEF f
<1>5. /\ s \in ClientRecord /\ Rests(s)
      /\ s.options = m.opts
      /\ s.blockSize = IF Has(m.opts, "blksize") THEN m.opts["blksize"] ELSE client.blockSize
      /\ s.state = client.state /\ s.type = client.type /\ s.block = client.block
      /\ s.pos = client.pos /\ s.srcTID = m.src /\ s.last = client.last
  BY <1>3, <1>4, ClientWithOptions
<1> HIDE DEF s
<1>6. CASE s.type = "READ" /\ ClientSends(r, a, more, local)
  <2>1. /\ r \in ClientRecord /\ r.state = "WAITING_DATA"
        /\ r.options = s.options /\ r.blockSize = s.blockSize /\ r.type = s.type
        /\ r.block = s.block /\ r.srcTID = s.srcTID /\ r.last = s.last /\ Rests(r)
    BY <1>5 DEF ClientRecord, SessionState, Waiting, Rests
  <2> HIDE DEF r, a
  <2>2. /\ client'.state = r.state /\ Like(client', r)
        /\ Retains(r.last, client'.last, a)
        /\ \A x \in net' : x \in more \/ x = a
    BY <1>6, <2>1, ClientSent
  <2>3. Replies(Client, a) /\ Rests(client') /\ TakesOptions(m)
    BY <1>4, <1>5, <2>1, <2>2 DEF Replies, Rests, TakesOptions
  <2>4. ClientAccepts
    BY <1>1, <1>4, <1>5, <1>6, <2>1, <2>2, <2>3 DEF ClientAccepts, a
  <2> QED BY <1>5, <2>1, <2>2, <2>4
<1>7. CASE s.type = "READ" /\ ClientSends(Failed(s), Error(Client, m.src, "DISK_FULL"), more, local)
  <2>1. client.state \in Undecided /\ client.type # "WRITE"
    BY <1>4, <1>5, <1>7 DEF Undecided
  <2> QED BY <1>3, <1>4, <1>5, <1>7, <2>1, ClientFailing
<1>8. CASE /\ s.type = "WRITE"
           /\ ClientSends(SendingBlock(s, NextBlock(s.block), ReadAt(Source, s.pos, s.blockSize)),
                          Data(Client, m.src, NextBlock(s.block),
                               ReadAt(Source, s.pos, s.blockSize)), more, local)
  <2>1. NextBlock(s.block) \in BlockNumber
    BY <1>5, ClientFields, NextBlockType
  <2>2. /\ ClientReads(m, NextBlock(s.block)) /\ client'.type = s.type
        /\ client'.options = s.options /\ client'.blockSize = s.blockSize
        /\ client'.srcTID = s.srcTID
    BY <1>4, <1>5, <1>8, <2>1, ClientReadsBlock
  <2> HIDE DEF ClientReads
  <2> QED BY <1>1, <1>4, <1>5, <1>8, <2>2 DEF ClientAccepts, TakesOptions
<1> QED
  BY <1>2, <1>6, <1>7, <1>8

(* ERROR, and what the state does not call for.                              *)
LEMMA ClientErrorMoves ==
  ASSUME TypeInv, ErrorAtClient \/ IllegalAtClient
  PROVE  (ClientRepeats \/ ClientFails) /\ client'.type = client.type
<1> DEFINE q == [client.last EXCEPT !.opts = NoOptions]
           r(m) == [FromPeer(m) EXCEPT !.last = q, !.srcTID = None,
                      !.state = IF FromPeer(m).type = "READ" THEN "WAITING_DATA"
                                                             ELSE "WAITING_ACK"]
<1>0. ASSUME NEW m \in net, AtClient(m)
      PROVE  /\ FromPeer(m) \in ClientRecord /\ Rests(FromPeer(m)) /\ IsClient(FromPeer(m))
             /\ FromPeer(m).state = client.state /\ FromPeer(m).type = client.type
             /\ FromPeer(m).options = client.options /\ FromPeer(m).block = client.block
             /\ FromPeer(m).blockSize = client.blockSize /\ FromPeer(m).pos = client.pos
             /\ FromPeer(m).srcTID = m.src /\ FromPeer(m).last = client.last
             /\ client.srcTID # None => client.srcTID = m.src
             /\ client.state \in Waiting
             /\ \A x \in Received(m) : x \in net
  BY <1>0, ClientHeardPeer
<1>1. PICK m \in net :
        /\ AtClient(m)
        /\ \/ /\ client.state = "WAITING_OACK" /\ client.last # None
              /\ ClientSends(r(m), q, Received(m), local)
           \/ ClientGoes(Failed(FromPeer(m)), local) /\ net' = Received(m)
           \/ ClientSends(Failed(FromPeer(m)), Error(Client, m.src, "ILLEGAL_OPERATION"),
                          Received(m), local)
  BY <1>0 DEF ErrorAtClient, IllegalAtClient
<1> DEFINE s == FromPeer(m)
<1>2. /\ s \in ClientRecord /\ Rests(s)
      /\ s.state = client.state /\ s.type = client.type /\ s.options = client.options
      /\ s.block = client.block /\ s.blockSize = client.blockSize /\ s.pos = client.pos
      /\ s.srcTID = m.src /\ s.last = client.last
      /\ client.srcTID # None => client.srcTID = m.src
      /\ client.state \in Waiting
      /\ \A x \in Received(m) : x \in net
  BY <1>0, <1>1
<1>3. CASE /\ client.state = "WAITING_OACK" /\ client.last # None
           /\ ClientSends(r(m), q, Received(m), local)
  <2> HIDE DEF q, s
  <2>1. /\ r(m).state = IF client.type = "READ" THEN "WAITING_DATA" ELSE "WAITING_ACK"
        /\ r(m).type = s.type /\ r(m).options = s.options /\ r(m).block = s.block
        /\ r(m).blockSize = s.blockSize /\ r(m).pos = s.pos /\ r(m).srcTID = None
        /\ r(m).last = q /\ Rests(r(m))
    BY <1>2 DEF s, ClientRecord, Rests
  <2>2. PICK ok \in SendOutcomes : /\ client' = Sent(r(m), q, ok)
                                   /\ net' = Received(m) \cup Transmitted(q, ok)
    BY <1>3 DEF ClientSends, ClientGoes
  <2>3. [r(m) EXCEPT !.last = q] = r(m)
    BY <1>2 DEF s, ClientRecord
  <2>4. client' = r(m)
    BY <2>2, <2>3 DEF Sent
  <2>5. Replies(Client, q)
    BY <1>2, <2>2 DEF Replies, Transmitted
  <2> HIDE DEF r
  <2> QED BY <1>2, <1>3, <2>1, <2>4, <2>5 DEF ClientRepeats, q
<1>4. CASE \/ ClientGoes(Failed(s), local) /\ net' = Received(m)
           \/ ClientSends(Failed(s), Error(Client, m.src, "ILLEGAL_OPERATION"),
                          Received(m), local)
  <2> HIDE DEF s
  <2> QED BY <1>2, <1>4, ClientFailing
<1> QED
  BY <1>1, <1>3, <1>4

(* The beginning, the packets of others, and timeouts.                       *)
LEMMA ClientOtherMoves ==
  ASSUME TypeInv, ClientStart \/ UnknownTidAtClient \/ ClientTimesOut \/ ClientInterrupted
  PROVE  (ClientBegins \/ ClientStays \/ ClientFails) /\ client'.type = client.type
<1> USE DEF Like
<1>0. /\ client \in ClientRecord /\ IsClient(client)
      /\ \A m \in net : Received(m) \subseteq net
  BY TypeParts DEF IsClient
<1>1. CASE ClientStart
  <2> DEFINE s == [client EXCEPT
                     !.state = IF client.options = NoOptions THEN "INITIAL"
                                                             ELSE "WAITING_OACK",
                     !.block = IF client.type = "READ" THEN 1 ELSE 0]
             p == Request(client.type, Listener, client.options)
  <2>1. /\ s \in ClientRecord
        /\ s.state = IF client.options = NoOptions THEN "INITIAL" ELSE "WAITING_OACK"
        /\ s.block = IF client.type = "READ" THEN 1 ELSE 0
        /\ s.type = client.type /\ s.options = client.options
        /\ s.blockSize = client.blockSize /\ s.srcTID = client.srcTID /\ s.pos = client.pos
        /\ s.retries = client.retries /\ s.timeout = client.timeout
        /\ s.initialTimeout = client.initialTimeout /\ s.last = client.last
    BY <1>0, Numbers DEF ClientRecord, SessionState, Waiting
  <2>2. /\ Failed(client) \in ClientRecord /\ Failed(client).state = "ERROR"
        /\ Failed(client).last = client.last /\ Failed(client).type = client.type
        /\ Failed(client).options = client.options
        /\ Failed(client).blockSize = client.blockSize
        /\ Failed(client).srcTID = client.srcTID
    BY <1>0 DEF Failed, ClientRecord, SessionState, Ended
  <2>3. /\ client.state = "FREE"
        /\ \/ \E file : ClientSends(s, p, net, file)
           \/ ClientSends(Failed(client), p, net, None)
    BY <1>1 DEF ClientStart
  <2> HIDE DEF s, p
  <2>4. CASE \E file : ClientSends(s, p, net, file)
    <3>1. /\ client'.state = s.state /\ Like(client', s)
          /\ Retains(s.last, client'.last, p)
          /\ \A x \in net' : x \in net \/ x = p
      BY <2>1, <2>4, ClientSent
    <3> QED BY <2>1, <2>3, <3>1 DEF ClientBegins, Replies, p
  <2>5. CASE ClientSends(Failed(client), p, net, None)
    <3>1. /\ client'.state = "ERROR" /\ client'.type = client.type
          /\ client'.options = client.options /\ client'.blockSize = client.blockSize
          /\ client'.srcTID = client.srcTID
          /\ Retains(client.last, client'.last, p)
          /\ \A x \in net' : x \in net \/ x = p
      BY <2>2, <2>5, ClientSent
    <3> QED BY <2>3, <3>1 DEF ClientFails, Replies, p
  <2> QED BY <2>3, <2>4, <2>5
<1>2. CASE UnknownTidAtClient
  <2>1. PICK m \in net :
          /\ client.state \in Waiting /\ client.srcTID \notin {None, m.src}
          /\ ClientSends(Heard(client), Error(Client, m.src, "UNKNOWN_TID"), Received(m), local)
    BY <1>2 DEF UnknownTidAtClient
  <2> DEFINE h == Heard(client)
             e == Error(Client, m.src, "UNKNOWN_TID")
  <2>2. /\ h \in ClientRecord /\ Rests(h)
        /\ h.state = client.state /\ h.type = client.type /\ h.options = client.options
        /\ h.block = client.block /\ h.blockSize = client.blockSize /\ h.pos = client.pos
        /\ h.srcTID = client.srcTID /\ h.last = client.last
    BY ClientHeard
  <2>3. e.op = "ERROR" /\ Complains(Client, e)
    BY DEF Error, Complains
  <2> HIDE DEF h, e
  <2>4. /\ client'.state = h.state /\ Like(client', h)
        /\ Retains(h.last, client'.last, e)
        /\ \A x \in net' : x \in Received(m) \/ x = e
    BY <2>1, <2>2, ClientSent DEF h, e
  <2>5. Quiets(Client) /\ client'.last = client.last /\ Rests(client')
    BY <1>0, <2>2, <2>3, <2>4 DEF Quiets, Retains, Rests
  <2> QED BY <2>1, <2>2, <2>4, <2>5 DEF ClientStays
<1>3. CASE ClientGivesUp \/ ClientCrashes \/ ClientInterrupted
  <2>1. /\ client.state \in Waiting /\ net' = net
    BY <1>3 DEF ClientGivesUp, ClientCrashes, ClientInterrupted, netVars
  <2>2. \/ client' = [Failed(client) EXCEPT !.retries = @ + 1]
        \/ client' = Failed(client)
        \/ client' = [client EXCEPT !.state = "CRASHED"] /\ client.last = None
    BY <1>3 DEF ClientGivesUp, ClientCrashes, ClientInterrupted, ClientGoes
  <2> QED BY <1>0, <2>1, <2>2 DEF ClientFails, Quiets, Failed, ClientRecord
<1>4. CASE ClientRetransmits
  <2>1. /\ client.state \in Waiting /\ client.retries < MaxRetries /\ client.last # None
        /\ ClientSends(BackedOff(client), client.last, net, local)
    BY <1>4 DEF ClientRetransmits
  <2> DEFINE b == BackedOff(client)
  <2>2. IsClient(b)
    BY <1>0, ClientUpdates
  <2>3. /\ b \in ClientRecord /\ Backs(client, b)
        /\ b.state = client.state /\ b.type = client.type /\ b.options = client.options
        /\ b.block = client.block /\ b.blockSize = client.blockSize /\ b.pos = client.pos
        /\ b.srcTID = client.srcTID /\ b.last = client.last
    BY <1>0, <2>1, <2>2 DEF BackedOff, ClientRecord, IsClient, Backs
  <2> HIDE DEF b
  <2>4. /\ client'.state = b.state /\ Like(client', b)
        /\ Retains(b.last, client'.last, client.last)
        /\ \A x \in net' : x \in net \/ x = client.last
    BY <2>1, <2>3, ClientSent DEF b
  <2> QED BY <2>1, <2>3, <2>4 DEF ClientStays, Backs, Replies, Retains
<1> QED
  BY <1>1, <1>2, <1>3, <1>4 DEF ClientTimesOut

(* Every step of the client makes one of these changes. *)
LEMMA ClientChangesOnly ==
  ASSUME TypeInv, ClientActs
  PROVE  ClientChanges /\ client'.type = client.type
BY ClientDataMoves, ClientAckMoves, ClientOackMoves, ClientErrorMoves, ClientOtherMoves
   DEF ClientChanges, ClientActs, ClientReceives
-----------------------------------------------------------------------------
(* The turns of session t, in terms of s and r, its record before and after. *)
(* A turn that would go on waiting ends in ERROR when the stop flag is set.  *)

Lands(r, x) == r.state = x \/ (r.state = "ERROR" /\ x \in Waiting)

(* The size of the blocks once an answer to the OACK has arrived.            *)
AnsweredSize(s) ==
  IF s.state = "WAITING_AFTER_OACK" /\ Has(s.options, "blksize")
  THEN s.options["blksize"] ELSE s.blockSize

(* What no turn but the first changes.                                       *)
SameSession(r, s) == r.type = s.type /\ r.options = s.options /\ r.ino = s.ino

(* The files are left alone, except that exit() may remove the name.         *)
FilesKept(r) == inode' = inode /\ dir' = NameAfter(r, dir)

(* m has come from the client to session t.                                  *)
Answers(t, m) == m \in net /\ AtSession(t, m) /\ m.src = Client

SessionMade(t, s, r) ==
  \E m \in net :
    /\ s.state = "FREE" /\ m.dst = Listener /\ m.op \in {"RRQ", "WRQ"}
    /\ r = Session("INITIAL", IF m.op = "RRQ" THEN "READ" ELSE "WRITE", m.opts, m.src)
    /\ IF m.op = "RRQ" THEN dir # None ELSE dir = None
    /\ Quiets(t) /\ inode' = inode /\ dir' = dir

SessionRefused(t, s, r) ==
  /\ s.state = "FREE" /\ r = [s EXCEPT !.state = "REFUSED"]
  /\ Quiets(t) /\ inode' = inode /\ dir' = dir

SessionOpens(t, s, r) ==
  LET i == IF dir = None THEN t ELSE dir
      p == IF s.options = NoOptions THEN Ack(t, s.dst, 0) ELSE Oack(t, s.dst, s.options)
  IN /\ s.state = "INITIAL" /\ s.type = "WRITE"
     /\ Lands(r, IF s.options = NoOptions THEN "WAITING_DATA" ELSE "WAITING_AFTER_OACK")
     /\ r.type = s.type /\ r.options = s.options /\ r.ino = i
     /\ r.block = 1 /\ r.blockSize = s.blockSize /\ r.pos = s.pos
     /\ r.retries = s.retries /\ r.timeout = s.timeout /\ r.initialTimeout = s.initialTimeout
     /\ Retains(s.last, r.last, p) /\ Replies(t, p)
     /\ inode' = [inode EXCEPT ![i] = <<>>] /\ dir' = NameAfter(r, i)

SessionOffers(t, s, r) ==
  /\ s.state = "INITIAL" /\ s.type = "READ" /\ dir # None
  /\ Lands(r, "WAITING_AFTER_OACK")
  /\ r.type = s.type /\ r.ino = dir
  /\ r.options # NoOptions /\ r.options["blksize"] = s.options["blksize"]
  /\ r.block = s.block /\ r.blockSize = s.blockSize /\ r.pos = s.pos
  /\ r.retries = s.retries /\ r.timeout = s.timeout /\ r.initialTimeout = s.initialTimeout
  /\ Retains(s.last, r.last, Oack(t, s.dst, r.options))
  /\ Replies(t, Oack(t, s.dst, r.options))
  /\ FilesKept(r)

(* The first block, or the block after the one that was acknowledged.        *)
SessionReads(t, s, r) ==
  \E data \in Seq(Nat), dst \in {Client} \cup Strangers :
    /\ s.type = "READ" /\ r.type = "READ" /\ r.options = s.options
    /\ \/ /\ s.state = "INITIAL" /\ s.options = NoOptions /\ dir # None
          /\ data = ReadAt(inode[dir], 0, s.blockSize)
          /\ r.block = 1 /\ r.ino = dir /\ r.blockSize = s.blockSize
          /\ r.retries = s.retries /\ r.timeout = s.timeout
          /\ r.initialTimeout = s.initialTimeout
       \/ /\ \E m : /\ Answers(t, m) /\ m.op = "ACK" /\ m.block = s.block
                    /\ s.state \in {"WAITING_ACK", "WAITING_AFTER_OACK"}
          /\ data = ReadAt(inode[s.ino], s.pos, r.blockSize) /\ data # <<>>
          /\ r.block = NextBlock(s.block) /\ r.ino = s.ino
          /\ r.blockSize = AnsweredSize(s) /\ Rests(r)
    /\ Lands(r, IF Len(data) < r.blockSize THEN "WAITING_LAST_ACK" ELSE "WAITING_ACK")
    /\ r.pos = s.pos + Len(data)
    /\ Retains(s.last, r.last, Data(t, dst, r.block, data))
    /\ Replies(t, Data(t, dst, r.block, data))
    /\ FilesKept(r)

SessionStores(t, s, r) ==
  \E m :
    /\ Answers(t, m) /\ m.op = "DATA"
    /\ s.type = "WRITE" /\ s.state \in {"WAITING_DATA", "WAITING_AFTER_OACK"}
    /\ m.block = s.block /\ Len(m.data) <= r.blockSize
    /\ Lands(r, IF Len(m.data) < r.blockSize THEN "WRQ_END" ELSE s.state)
    /\ SameSession(r, s) /\ r.blockSize = AnsweredSize(s)
    /\ r.block = NextBlock(s.block) /\ r.pos = s.pos + Len(m.data)
    /\ Rests(r)
    /\ Retains(s.last, r.last, Ack(t, Client, s.block))
    /\ Replies(t, Ack(t, Client, s.block))
    /\ inode' = [inode EXCEPT ![s.ino] = WriteAt(@, s.pos, m.data)]
    /\ dir' = NameAfter(r, dir)

SessionFinishes(t, s, r) ==
  \E m :
    /\ Answers(t, m) /\ m.op = "ACK" /\ m.block = s.block /\ s.state = "WAITING_LAST_ACK"
    /\ r.state = "RRQ_END" /\ SameSession(r, s) /\ r.blockSize = s.blockSize
    /\ r.last = s.last /\ Quiets(t) /\ FilesKept(r)

SessionFails(t, s, r) ==
  /\ s.state \in Waiting /\ r.state \in {"ERROR", "THROWN"}
  /\ r.state = "THROWN" => s.type = "READ" \/ \E m : Answers(t, m) /\ m.op = "ACK"
  /\ r.type = s.type /\ r.options = s.options
  /\ r.ino = s.ino \/ (s.state = "INITIAL" /\ s.type = "READ")
  /\ r.blockSize = s.blockSize \/ r.blockSize = AnsweredSize(s)
  /\ r.last = s.last /\ Quiets(t) /\ FilesKept(r)

SessionStays(t, s, r) ==
  /\ SessionWaits(t) /\ Lands(r, s.state) /\ SameSession(r, s)
  /\ r.block = s.block /\ r.blockSize = s.blockSize /\ r.pos = s.pos /\ r.last = s.last
  /\ \/ Rests(r) /\ Quiets(t)
     \/ Backs(s, r) /\ s.last # None /\ Replies(t, s.last)
  /\ FilesKept(r)

SessionChanges(t) ==
  /\ \A u \in Tids \ {t} : server'[u] = server[u]
  /\ LET s == server[t]
         r == server'[t]
     IN \/ SessionMade(t, s, r) \/ SessionRefused(t, s, r)
        \/ SessionOpens(t, s, r) \/ SessionOffers(t, s, r)
        \/ SessionReads(t, s, r) \/ SessionStores(t, s, r)
        \/ SessionFinishes(t, s, r) \/ SessionFails(t, s, r) \/ SessionStays(t, s, r)

(* The step in which the server crashes, which is one of a session's.        *)
ServerFails ==
  /\ \E t \in Tids : SessionWaits(t) /\ server[t].last = None
  /\ server' = [u \in Tids |-> IF server[u].state \in Waiting
                               THEN [server[u] EXCEPT !.state = "CRASHED"]
                               ELSE server[u]]
  /\ inode' = inode /\ dir' = dir /\ net' = net

(* A step of session t.                                                      *)
SessionActs(t) ==
  \/ Dispatch(t) \/ SessionStarts(t) \/ SessionReceives(t) \/ SessionTimesOut(t)
  \/ SessionInterrupted(t)

(* The end of a turn, whatever the stop flag says.                           *)
LEMMA Settled ==
  ASSUME TypeInv, NEW t \in Tids, NEW s \in SessionRecord, NEW packets, NEW name,
         Settle(t, s, packets, name)
  PROVE  LET r == server'[t]
         IN /\ \A u \in Tids \ {t} : server'[u] = server[u]
            /\ Lands(r, s.state) /\ Like(r, s) /\ r.ino = s.ino /\ r.last = s.last
            /\ dir' = NameAfter(r, name)
            /\ \A x \in net' : x \in packets \/ Complains(t, x)
<1> USE DEF Like
<1>1. /\ Failed(s).state = "ERROR" /\ Like(Failed(s), s)
      /\ Failed(s).ino = s.ino /\ Failed(s).last = s.last
  BY DEF Failed, SessionRecord
<1>2. server \in [Tids -> SessionRecord]
  BY DEF TypeInv, TypeOK
<1>3. \A c : Complains(t, Error(t, s.dst, c))
  BY DEF Complains, Error
<1>4. CASE /\ server' = [server EXCEPT ![t] = s]
           /\ net' = packets
           /\ dir' = NameAfter(s, name)
  BY <1>2, <1>4 DEF Lands
<1>5. CASE /\ s.state \in Waiting
           /\ server' = [server EXCEPT ![t] = Failed(s)]
           /\ \E ok \in SendOutcomes :
                net' = packets \cup Transmitted(Error(t, s.dst, "NOT_DEFINED"), ok)
           /\ dir' = NameAfter(Failed(s), name)
  BY <1>1, <1>2, <1>3, <1>5 DEF Lands, Transmitted
<1> QED
  BY <1>4, <1>5 DEF Settle

(* The end of a turn that sends p.                                           *)
LEMMA SettledSending ==
  ASSUME TypeInv, NEW t \in Tids, NEW s \in SessionRecord, NEW p, IsPacket(p),
         NEW rest, NEW name, SessionSends(t, s, p, rest, name)
  PROVE  LET r == server'[t]
         IN /\ \A u \in Tids \ {t} : server'[u] = server[u]
            /\ Lands(r, s.state) /\ Like(r, s) /\ r.ino = s.ino
            /\ Retains(s.last, r.last, p)
            /\ dir' = NameAfter(r, name)
            /\ \A x \in net' : x \in rest \/ x = p \/ Complains(t, x)
<1>1. PICK ok \in SendOutcomes : Settle(t, Sent(s, p, ok), rest \cup Transmitted(p, ok), name)
  BY DEF SessionSends
<1> DEFINE u == Sent(s, p, ok)
<1>2. /\ u \in SessionRecord /\ u.state = s.state /\ Like(u, s) /\ u.ino = s.ino
      /\ Retains(s.last, u.last, p)
  BY DEF Sent, SessionRecord, IsPacket, Like, Retains, SendOutcomes
<1> HIDE DEF u
<1>3. Settle(t, u, rest \cup Transmitted(p, ok), name)
  BY <1>1 DEF u
<1>4. LET r == server'[t]
      IN /\ \A v \in Tids \ {t} : server'[v] = server[v]
         /\ Lands(r, u.state) /\ Like(r, u) /\ r.ino = u.ino /\ r.last = u.last
         /\ dir' = NameAfter(r, name)
         /\ \A x \in net' : x \in rest \cup Transmitted(p, ok) \/ Complains(t, x)
  BY <1>2, <1>3, Settled
<1> QED
  BY <1>2, <1>4 DEF Like, Transmitted

(* The session when m has arrived, its options in effect if they were not.   *)
LEMMA SessionHeard ==
  ASSUME TypeInv, NEW t \in Tids, NEW m \in net, AtSession(t, m),
         NEW s, s = FromSender(t, m) \/ s = Negotiated(FromSender(t, m), m)
  PROVE  /\ s \in SessionRecord /\ IsSession(s) /\ Rests(s) /\ SameSession(s, server[t])
         /\ s.state = server[t].state /\ s.block = server[t].block /\ s.pos = server[t].pos
         /\ s.last = server[t].last /\ s.dst = m.src
         /\ m.op \in {"DATA", "ACK"} /\ s = Negotiated(FromSender(t, m), m) =>
              s.blockSize = AnsweredSize(server[t])
         /\ s.blockSize = server[t].blockSize \/ s.blockSize = AnsweredSize(server[t])
         /\ s = FromSender(t, m) => s.blockSize = server[t].blockSize
         /\ s.state \in Waiting \ {"INITIAL"} /\ s.ino \in Tids \cup {Old}
         /\ IsPacket(m) /\ m.src \in {Client} \cup Strangers
         /\ server[t].srcTID = Client
         /\ \A x \in Received(m) : x \in net
<1>1. /\ IsPacket(m) /\ m.src \in {Client} \cup Strangers
      /\ IsSession(s) /\ s.state \in Waiting \ {"INITIAL"}
      /\ s.dst = m.src /\ s.ino \in Tids \cup {Old}
      /\ IsSession(FromSender(t, m)) /\ FromSender(t, m).state \in Waiting \ {"INITIAL"}
  BY SenderTypes
<1>2. /\ server[t] \in SessionRecord /\ server[t].srcTID = Client
      /\ server[t].state \in Waiting \ {"INITIAL"}
  BY TypeParts DEF AtSession, SessionWaits, IsSession, Waiting
<1> DEFINE f == FromSender(t, m)
<1>3. /\ f \in SessionRecord /\ Rests(f) /\ SameSession(f, server[t])
      /\ f.state = server[t].state /\ f.block = server[t].block /\ f.pos = server[t].pos
      /\ f.blockSize = server[t].blockSize /\ f.last = server[t].last
  BY <1>1, <1>2 DEF FromSender, Heard, SessionRecord, IsSession, Rests, SameSession
<1> DEFINE w == WithOptions(f, f.options)
<1>4. s = f \/ (s = w /\ f.state = "WAITING_AFTER_OACK")
  BY DEF Negotiated
<1>5. /\ w.blockSize = IF Has(f.options, "blksize") THEN f.options["blksize"] ELSE f.blockSize
      /\ Rests(w) /\ SameSession(w, f)
      /\ w.state = f.state /\ w.block = f.block /\ w.pos = f.pos /\ w.last = f.last
  BY <1>3 DEF WithOptions, SessionRecord, Rests, SameSession
<1>6. m.op \in {"DATA", "ACK"} /\ s = Negotiated(f, m) =>
        s = IF f.state = "WAITING_AFTER_OACK" THEN w ELSE f
  BY DEF Negotiated
<1> HIDE DEF f, w
<1>7. /\ s \in SessionRecord /\ Rests(s) /\ SameSession(s, server[t])
      /\ s.state = server[t].state /\ s.block = server[t].block /\ s.pos = server[t].pos
      /\ s.last = server[t].last
      /\ s.blockSize = server[t].blockSize \/ s.blockSize = AnsweredSize(server[t])
  BY <1>1, <1>3, <1>4, <1>5 DEF SameSession, AnsweredSize, IsSession
<1>8. m.op \in {"DATA", "ACK"} /\ s = Negotiated(f, m) => s.blockSize = AnsweredSize(server[t])
  BY <1>3, <1>5, <1>6 DEF SameSession, AnsweredSize
<1>9. \A x \in Received(m) : x \in net
  BY DEF Received
<1> QED
  BY <1>1, <1>2, <1>3, <1>7, <1>8, <1>9 DEF f
(* A turn that fails: with an ERROR sent, or without.                        *)
LEMMA SessionFailing ==
  ASSUME TypeInv, NEW t \in Tids, server[t].state \in Waiting,
         NEW s \in SessionRecord, s.state \in {"ERROR", "THROWN"},
         s.state = "THROWN" => s.type = "READ" \/ \E m : Answers(t, m) /\ m.op = "ACK",
         s.last = server[t].last, s.type = server[t].type, s.options = server[t].options,
         s.ino = server[t].ino \/ (server[t].state = "INITIAL" /\ server[t].type = "READ"),
         s.blockSize = server[t].blockSize \/ s.blockSize = AnsweredSize(server[t]),
         NEW rest, \A x \in rest : x \in net, inode' = inode,
         \/ \E dst \in {Client} \cup Strangers, c \in ErrorCode :
              SessionSends(t, s, Error(t, dst, c), rest, dir)
         \/ Settle(t, s, rest, dir)
  PROVE  SessionChanges(t)
<1> DEFINE r == server'[t]
<1>1. s.state \notin Waiting
  BY DEF Waiting
<1>2. /\ \A u \in Tids \ {t} : server'[u] = server[u]
      /\ Lands(r, s.state) /\ Like(r, s) /\ r.ino = s.ino /\ r.last = s.last
      /\ dir' = NameAfter(r, dir)
      /\ Quiets(t)
  <2>1. CASE Settle(t, s, rest, dir)
    BY <2>1, Settled DEF Quiets
  <2>2. CASE \E dst \in {Client} \cup Strangers, c \in ErrorCode :
               SessionSends(t, s, Error(t, dst, c), rest, dir)
    <3>1. PICK dst \in {Client} \cup Strangers, c \in ErrorCode :
            SessionSends(t, s, Error(t, dst, c), rest, dir)
      BY <2>2
    <3> DEFINE e == Error(t, dst, c)
    <3>2. IsPacket(e) /\ Complains(t, e) /\ e.op = "ERROR"
      BY FromServer DEF Complains, Error
    <3> HIDE DEF e
    <3>3. SessionSends(t, s, e, rest, dir)
      BY <3>1 DEF e
    <3>4. /\ \A u \in Tids \ {t} : server'[u] = server[u]
          /\ Lands(r, s.state) /\ Like(r, s) /\ r.ino = s.ino
          /\ Retains(s.last, r.last, e)
          /\ dir' = NameAfter(r, dir)
          /\ \A x \in net' : x \in rest \/ x = e \/ Complains(t, x)
      BY <3>2, <3>3, SettledSending
    <3> QED BY <3>2, <3>4 DEF Retains, Quiets
  <2> QED BY <2>1, <2>2
<1>3. SessionFails(t, server[t], r)
  BY <1>1, <1>2 DEF SessionFails, FilesKept, Lands, Like
<1> QED
  BY <1>2, <1>3 DEF SessionChanges

(* The request is dispatched, and refused or not.                            *)
LEMMA DispatchChanges ==
  ASSUME TypeInv, NEW t \in Tids, Dispatch(t)
  PROVE  SessionChanges(t)
<1>1. PICK m \in net :
        /\ server[t].state = "FREE" /\ m.dst = Listener /\ m.op \in {"RRQ", "WRQ"}
        /\ \/ /\ IF m.op = "RRQ" THEN dir # None ELSE dir = None
              /\ server' = [server EXCEPT ![t] =
                   Session("INITIAL", IF m.op = "RRQ" THEN "READ" ELSE "WRITE", m.opts, m.src)]
              /\ net' = Received(m)
           \/ /\ server' = [server EXCEPT ![t].state = "REFUSED"]
              /\ \/ net' = Received(m)
                 \/ \E c : \E ok \in SendOutcomes :
                      net' = Received(m) \cup Transmitted(Error(t, m.src, c), ok)
        /\ inode' = inode /\ dir' = dir
  BY DEF Dispatch
<1>2. server \in [Tids -> SessionRecord] /\ Received(m) \subseteq net
  BY TypeParts DEF TypeInv, TypeOK
<1>3. \A c : Complains(t, Error(t, m.src, c))
  BY DEF Complains, Error
<1>4. CASE /\ IF m.op = "RRQ" THEN dir # None ELSE dir = None
           /\ server' = [server EXCEPT ![t] =
                Session("INITIAL", IF m.op = "RRQ" THEN "READ" ELSE "WRITE", m.opts, m.src)]
           /\ net' = Received(m)
  BY <1>1, <1>2, <1>4 DEF SessionChanges, SessionMade, Quiets
<1>5. CASE /\ server' = [server EXCEPT ![t].state = "REFUSED"]
           /\ \/ net' = Received(m)
              \/ \E c : \E ok \in SendOutcomes :
                   net' = Received(m) \cup Transmitted(Error(t, m.src, c), ok)
  BY <1>1, <1>2, <1>3, <1>5 DEF SessionChanges, SessionRefused, Quiets, Transmitted
<1> QED
  BY <1>1, <1>4, <1>5

(* An upload starts. *)
LEMMA StartWriteChanges ==
  ASSUME TypeInv, NEW t \in Tids, StartWrite(t)
  PROVE  SessionChanges(t)
<1> DEFINE i == IF dir = None THEN t ELSE dir
           s == [server[t] EXCEPT !.block = 1, !.ino = i]
           x == IF s.options = NoOptions THEN "WAITING_DATA" ELSE "WAITING_AFTER_OACK"
           w == [s EXCEPT !.state = x]
           p == IF s.options = NoOptions THEN Ack(t, s.dst, 0) ELSE Oack(t, s.dst, s.options)
<1>1. /\ server[t] \in SessionRecord /\ IsSession(server[t])
      /\ server[t].state = "INITIAL" /\ server[t].type = "WRITE"
      /\ dir \in Tids \cup {Old, None} /\ server[t].dst \in {Client} \cup Strangers
      /\ server[t].options \in Options
  <2>1. server[t] \in SessionRecord /\ IsSession(server[t]) /\ server[t].state = "INITIAL"
        /\ server[t].type = "WRITE" /\ dir \in Tids \cup {Old, None}
    BY TypeParts DEF StartWrite, IsSession, TypeInv, TypeOK
  <2> QED BY <2>1, SessionFields DEF IsSession
<1>2. \/ SessionSends(t, w, p, net, i) /\ inode' = [inode EXCEPT ![i] = <<>>]
      \/ /\ \E code \in {"ACCESS_VIOLATION", "DISK_FULL"} :
              SessionSends(t, Failed(server[t]), Error(t, server[t].dst, code), net, dir)
         /\ inode' = inode
  BY DEF StartWrite
<1>3. CASE SessionSends(t, w, p, net, i) /\ inode' = [inode EXCEPT ![i] = <<>>]
  <2>1. i \in Tids \cup {Old} /\ x \in SessionState
    BY <1>1 DEF SessionState, Waiting
  <2> HIDE DEF i, x
  <2>2. /\ s.options = server[t].options /\ s.dst = server[t].dst
    BY <1>1 DEF SessionRecord
  <2>3. /\ w \in SessionRecord /\ w.state = x /\ w.type = server[t].type
        /\ w.options = server[t].options /\ w.ino = i /\ w.block = 1
        /\ w.blockSize = server[t].blockSize /\ w.pos = server[t].pos
        /\ w.retries = server[t].retries /\ w.timeout = server[t].timeout
        /\ w.initialTimeout = server[t].initialTimeout /\ w.last = server[t].last
    BY <1>1, <2>1, Numbers DEF SessionRecord
  <2>4. IsPacket(p)
    BY <1>1, <2>2, FromServer, Numbers
  <2> HIDE DEF w, p
  <2>5. LET r == server'[t]
        IN /\ \A u \in Tids \ {t} : server'[u] = server[u]
           /\ Lands(r, w.state) /\ Like(r, w) /\ r.ino = w.ino
           /\ Retains(w.last, r.last, p)
           /\ dir' = NameAfter(r, i)
           /\ \A y \in net' : y \in net \/ y = p \/ Complains(t, y)
    BY <1>3, <2>3, <2>4, SettledSending
  <2>6. /\ x = IF server[t].options = NoOptions THEN "WAITING_DATA" ELSE "WAITING_AFTER_OACK"
        /\ p = IF server[t].options = NoOptions THEN Ack(t, server[t].dst, 0)
               ELSE Oack(t, server[t].dst, server[t].options)
        /\ Replies(t, p)
    BY <2>2, <2>5 DEF x, p, Replies
  <2>7. SessionOpens(t, server[t], server'[t])
    BY <1>1, <1>3, <2>3, <2>5, <2>6 DEF SessionOpens, Like, i
  <2> QED BY <2>5, <2>7 DEF SessionChanges
<1>4. CASE /\ \E code \in {"ACCESS_VIOLATION", "DISK_FULL"} :
                SessionSends(t, Failed(server[t]), Error(t, server[t].dst, code), net, dir)
           /\ inode' = inode
  <2>1. /\ Failed(server[t]) \in SessionRecord /\ Failed(server[t]).state = "ERROR"
        /\ Failed(server[t]).last = server[t].last /\ Failed(server[t]).type = server[t].type
        /\ Failed(server[t]).options = server[t].options /\ Failed(server[t]).ino = server[t].ino
        /\ Failed(server[t]).blockSize = server[t].blockSize
    BY <1>1 DEF Failed, SessionRecord, SessionState, Ended
  <2>2. server[t].state \in Waiting
    BY <1>1 DEF Waiting
  <2>3. \E dst \in {Client} \cup Strangers, c \in ErrorCode :
          SessionSends(t, Failed(server[t]), Error(t, dst, c), net, dir)
    BY <1>1, <1>4 DEF ErrorCode
  <2> QED BY <1>4, <2>1, <2>2, <2>3, SessionFailing
<1> QED
  BY <1>2, <1>3, <1>4

(* A download starts. *)
LEMMA StartReadChanges ==
  ASSUME TypeInv, NEW t \in Tids, StartRead(t)
  PROVE  SessionChanges(t)
<1> DEFINE size == Len(inode[dir])
           opts == IF Has(server[t].options, "tsize")
                   THEN [server[t].options EXCEPT !["tsize"] = size] ELSE server[t].options
           s    == [server[t] EXCEPT !.ino = dir, !.options = opts]
           data == ReadAt(inode[dir], 0, s.blockSize)
           w    == [s EXCEPT !.state = "WAITING_AFTER_OACK"]
<1>1. /\ server[t] \in SessionRecord /\ server[t].options \in Options
      /\ server[t].state = "INITIAL" /\ server[t].type = "READ" /\ inode' = inode
      /\ dir \in Tids \cup {Old, None} /\ inode \in [Tids \cup {Old} -> Seq(Nat)]
      /\ server[t].dst \in {Client} \cup Strangers /\ server[t].state \in Waiting
  <2>1. /\ server[t] \in SessionRecord /\ IsSession(server[t]) /\ server[t].state = "INITIAL"
        /\ server[t].type = "READ" /\ dir \in Tids \cup {Old, None} /\ inode' = inode
        /\ inode \in [Tids \cup {Old} -> Seq(Nat)]
    BY TypeParts DEF StartRead, IsSession, TypeInv, TypeOK
  <2> QED BY <2>1, SessionFields DEF IsSession, Waiting
<1>2. \/ /\ dir # None
         /\ \/ opts # NoOptions /\ SessionSends(t, w, Oack(t, s.dst, opts), net, dir)
            \/ /\ opts = NoOptions /\ size > 0
               /\ SessionSends(t, SendingBlock(s, 1, data), Data(t, s.dst, 1, data), net, dir)
            \/ /\ opts = NoOptions
               /\ SessionSends(t, Failed(s), Error(t, s.dst, "DISK_FULL"), net, dir)
      \/ Settle(t, [server[t] EXCEPT !.state = "THROWN"], net, dir)
      \/ SessionSends(t, Failed(server[t]), Error(t, server[t].dst, "ACCESS_VIOLATION"), net, dir)
  BY DEF StartRead
<1>3. dir # None => size \in Nat /\ inode[dir] \in Seq(Nat)
  BY <1>1
<1>4. ASSUME dir # None
      PROVE  /\ opts \in Options /\ opts["blksize"] = server[t].options["blksize"]
             /\ opts = NoOptions => server[t].options = NoOptions
  <2> HIDE DEF size
  <2>1. opts["blksize"] = server[t].options["blksize"] /\ opts \in Options
    BY <1>1, <1>3, <1>4 DEF Options, OptionName
  <2>2. Has(server[t].options, "tsize") => opts["tsize"] = size
    BY <1>1 DEF Options, OptionName
  <2>3. NoOptions["tsize"] = None /\ size # None
    BY <1>3, <1>4, NoneAssumption DEF NoOptions, OptionName
  <2> QED BY <2>1, <2>2, <2>3
<1> HIDE DEF opts, size
<1>5. ASSUME dir # None
      PROVE  /\ s \in SessionRecord /\ s.state = "INITIAL" /\ s.type = "READ"
             /\ s.options = opts /\ s.ino = dir /\ s.block = server[t].block
             /\ s.blockSize = server[t].blockSize /\ s.pos = server[t].pos
             /\ s.retries = server[t].retries /\ s.timeout = server[t].timeout
             /\ s.initialTimeout = server[t].initialTimeout
             /\ s.last = server[t].last /\ s.dst = server[t].dst
  BY <1>1, <1>4, <1>5 DEF SessionRecord
<1> HIDE DEF s
<1>6. CASE /\ dir # None /\ opts # NoOptions
           /\ SessionSends(t, w, Oack(t, s.dst, opts), net, dir)
  <2>1. /\ w \in SessionRecord /\ w.state = "WAITING_AFTER_OACK" /\ Like(w, s)
        /\ w.ino = dir /\ w.last = server[t].last
    BY <1>5, <1>6 DEF SessionRecord, SessionState, Waiting, Like
  <2> DEFINE p == Oack(t, s.dst, opts)
  <2>2. IsPacket(p)
    BY <1>1, <1>4, <1>5, <1>6, FromServer
  <2> HIDE DEF w, p
  <2>3. SessionSends(t, w, p, net, dir)
    BY <1>6 DEF p
  <2>4. LET r == server'[t]
        IN /\ \A u \in Tids \ {t} : server'[u] = server[u]
           /\ Lands(r, w.state) /\ Like(r, w) /\ r.ino = w.ino
           /\ Retains(w.last, r.last, p)
           /\ dir' = NameAfter(r, dir)
           /\ \A y \in net' : y \in net \/ y = p \/ Complains(t, y)
    BY <2>1, <2>2, <2>3, SettledSending
  <2>5. p = Oack(t, server[t].dst, server'[t].options) /\ Replies(t, p)
    BY <1>5, <1>6, <2>1, <2>4 DEF p, Like, Replies
  <2>6. SessionOffers(t, server[t], server'[t])
    BY <1>1, <1>4, <1>5, <1>6, <2>1, <2>4, <2>5 DEF SessionOffers, Like, FilesKept
  <2> QED BY <2>4, <2>6 DEF SessionChanges
<1>7. CASE /\ dir # None /\ opts = NoOptions /\ size > 0
           /\ SessionSends(t, SendingBlock(s, 1, data), Data(t, s.dst, 1, data), net, dir)
  <2> DEFINE d == ReadAt(inode[dir], 0, server[t].blockSize)
             w1 == SendingBlock(s, 1, d)
             p == Data(t, s.dst, 1, d)
  <2>1. SessionSends(t, w1, p, net, dir)
    BY <1>5, <1>7
  <2>2. d \in Seq(Nat)
    BY <1>1, <1>3, <1>7, ReadAtType, SessionFields
  <2> HIDE DEF d
  <2>3. /\ w1 \in SessionRecord
        /\ w1.state = IF Len(d) < s.blockSize THEN "WAITING_LAST_ACK" ELSE "WAITING_ACK"
        /\ w1.block = 1 /\ w1.pos = s.pos + Len(d) /\ w1.type = "READ"
        /\ w1.options = s.options /\ w1.blockSize = s.blockSize /\ w1.ino = s.ino
        /\ w1.retries = s.retries /\ w1.timeout = s.timeout
        /\ w1.initialTimeout = s.initialTimeout /\ w1.last = s.last
    <3>1. s.pos + Len(d) \in Nat
      BY <1>5, <1>7, <2>2, SessionFields
    <3> QED BY <1>5, <1>7, <3>1, Numbers DEF SendingBlock, SessionRecord, SessionState, Waiting
  <2>4. IsPacket(p)
    BY <1>1, <1>5, <1>7, <2>2, FromServer, Numbers
  <2> HIDE DEF w1, p
  <2>5. LET r == server'[t]
        IN /\ \A u \in Tids \ {t} : server'[u] = server[u]
           /\ Lands(r, w1.state) /\ Like(r, w1) /\ r.ino = w1.ino
           /\ Retains(w1.last, r.last, p)
           /\ dir' = NameAfter(r, dir)
           /\ \A y \in net' : y \in net \/ y = p \/ Complains(t, y)
    BY <2>1, <2>3, <2>4, SettledSending
  <2>6. p = Data(t, server[t].dst, server'[t].block, d) /\ Replies(t, p)
    BY <1>5, <1>7, <2>3, <2>5 DEF p, Like, Replies
  <2>7. SessionReads(t, server[t], server'[t])
    BY <1>1, <1>4, <1>5, <1>7, <2>2, <2>3, <2>5, <2>6 DEF SessionReads, Like, FilesKept, d
  <2> QED BY <2>5, <2>7 DEF SessionChanges
<1>8. CASE /\ dir # None /\ opts = NoOptions
           /\ SessionSends(t, Failed(s), Error(t, s.dst, "DISK_FULL"), net, dir)
  <2>1. /\ Failed(s) \in SessionRecord /\ Failed(s).state = "ERROR"
        /\ Failed(s).last = server[t].last /\ Failed(s).type = server[t].type
        /\ Failed(s).options = server[t].options
        /\ Failed(s).blockSize = server[t].blockSize
    BY <1>1, <1>4, <1>5, <1>8 DEF Failed, SessionRecord, SessionState, Ended
  <2>2. \E dst \in {Client} \cup Strangers, c \in ErrorCode :
          SessionSends(t, Failed(s), Error(t, dst, c), net, dir)
    BY <1>1, <1>5, <1>8 DEF ErrorCode
  <2> QED BY <1>1, <2>1, <2>2, SessionFailing
<1>9. CASE \/ Settle(t, [server[t] EXCEPT !.state = "THROWN"], net, dir)
           \/ SessionSends(t, Failed(server[t]),
                           Error(t, server[t].dst, "ACCESS_VIOLATION"), net, dir)
  <2> DEFINE f(x) == [server[t] EXCEPT !.state = x]
  <2>1. \A x \in {"ERROR", "THROWN"} :
          /\ f(x) \in SessionRecord /\ f(x).state = x
          /\ f(x).last = server[t].last /\ f(x).type = server[t].type
          /\ f(x).options = server[t].options /\ f(x).ino = server[t].ino
          /\ f(x).blockSize = server[t].blockSize
    BY <1>1 DEF SessionRecord, SessionState, Ended
  <2>2. \/ Settle(t, f("THROWN"), net, dir)
        \/ \E dst \in {Client} \cup Strangers, c \in ErrorCode :
             SessionSends(t, f("ERROR"), Error(t, dst, c), net, dir)
    BY <1>1, <1>9 DEF ErrorCode, Failed
  <2> HIDE DEF f
  <2> QED BY <1>1, <2>1, <2>2, SessionFailing
<1> QED
  BY <1>2, <1>6, <1>7, <1>8, <1>9
(* DATA received by a session, stored or refused.                            *)
LEMMA SessionDataChanges ==
  ASSUME TypeInv, NEW t \in Tids, DataAtServer(t)
  PROVE  SessionChanges(t)
<1> USE DEF ErrorCode
<1>1. PICK m \in net :
        /\ AtSession(t, m) /\ m.src = server[t].srcTID
        /\ LET s == Negotiated(FromSender(t, m), m)
           IN /\ StoresData(s, m)
              /\ \/ /\ s.type = "WRITE"
                    /\ SessionSends(t, TakingBlock(s, m, s.state, "WRQ_END"),
                                    Ack(t, s.dst, s.block), Received(m), dir)
                    /\ inode' = [inode EXCEPT ![s.ino] = WriteAt(@, s.pos, m.data)]
                 \/ /\ SessionSends(t, Failed(s), Error(t, s.dst, "DISK_FULL"),
                                    Received(m), dir)
                    /\ UNCHANGED inode
  BY DEF DataAtServer
<1> DEFINE s == Negotiated(FromSender(t, m), m)
           w == TakingBlock(s, m, s.state, "WRQ_END")
           p == Ack(t, s.dst, s.block)
<1>2. /\ s \in SessionRecord /\ IsSession(s) /\ Rests(s) /\ SameSession(s, server[t])
      /\ s.state = server[t].state /\ s.block = server[t].block /\ s.pos = server[t].pos
      /\ s.last = server[t].last /\ s.dst = m.src
      /\ m.op = "DATA" => s.blockSize = AnsweredSize(server[t])
      /\ s.blockSize = server[t].blockSize \/ s.blockSize = AnsweredSize(server[t])
      /\ s.state \in Waiting \ {"INITIAL"} /\ s.ino \in Tids \cup {Old}
      /\ IsPacket(m) /\ m.src \in {Client} \cup Strangers /\ m.src = Client
      /\ \A x \in Received(m) : x \in net
  BY <1>1, SessionHeard
<1>3. /\ m.op = "DATA" /\ s.state \in {"WAITING_DATA", "WAITING_AFTER_OACK"}
      /\ m.block = s.block /\ Len(m.data) <= s.blockSize /\ m.data \in Seq(Nat)
  BY <1>1, <1>2, PacketFields DEF StoresData, NextExpected, IsPacket
<1>4. \/ /\ s.type = "WRITE"
         /\ SessionSends(t, w, p, Received(m), dir)
         /\ inode' = [inode EXCEPT ![s.ino] = WriteAt(@, s.pos, m.data)]
      \/ /\ SessionSends(t, Failed(s), Error(t, s.dst, "DISK_FULL"), Received(m), dir)
         /\ inode' = inode
  BY <1>1
<1> HIDE DEF s
<1>5. CASE /\ s.type = "WRITE"
           /\ SessionSends(t, w, p, Received(m), dir)
           /\ inode' = [inode EXCEPT ![s.ino] = WriteAt(@, s.pos, m.data)]
  <2>1. IsSession(w)
    BY <1>2, <1>3, SessionUpdates
  <2>2. /\ w \in SessionRecord
        /\ w.state = IF Len(m.data) < s.blockSize THEN "WRQ_END" ELSE s.state
        /\ SameSession(w, s) /\ w.block = NextBlock(s.block) /\ w.blockSize = s.blockSize
        /\ w.pos = s.pos + Len(m.data) /\ w.last = s.last /\ Rests(w)
    BY <1>2, <2>1 DEF TakingBlock, SessionRecord, IsSession, Rests, SameSession
  <2>3. IsPacket(p)
    BY <1>2, SessionFields, FromServer
  <2> HIDE DEF w, p
  <2>4. LET r == server'[t]
        IN /\ \A u \in Tids \ {t} : server'[u] = server[u]
           /\ Lands(r, w.state) /\ Like(r, w) /\ r.ino = w.ino
           /\ Retains(w.last, r.last, p)
           /\ dir' = NameAfter(r, dir)
           /\ \A x \in net' : x \in Received(m) \/ x = p \/ Complains(t, x)
    BY <1>5, <2>2, <2>3, SettledSending
  <2>5. p = Ack(t, Client, server[t].block) /\ Replies(t, p)
    BY <1>2, <2>4 DEF p, Replies
  <2>6. Answers(t, m)
    BY <1>1, <1>2 DEF Answers
  <2>7. SessionStores(t, server[t], server'[t])
    BY <1>2, <1>3, <1>5, <2>2, <2>4, <2>5, <2>6 DEF SessionStores, Like, Rests, SameSession
  <2> QED BY <2>4, <2>7 DEF SessionChanges
<1>6. CASE /\ SessionSends(t, Failed(s), Error(t, s.dst, "DISK_FULL"), Received(m), dir)
           /\ inode' = inode
  <2>1. /\ Failed(s) \in SessionRecord /\ Failed(s).state = "ERROR"
        /\ Failed(s).last = server[t].last /\ Failed(s).type = server[t].type
        /\ Failed(s).options = server[t].options /\ Failed(s).ino = server[t].ino
        /\ Failed(s).blockSize = s.blockSize
    BY <1>2 DEF Failed, SessionRecord, SessionState, Ended, SameSession
  <2> QED BY <1>2, <1>6, <2>1, SessionFailing
<1> QED
  BY <1>4, <1>5, <1>6

(* An ACK received by a session: a block is read, or the download is over.   *)
LEMMA SessionAckChanges ==
  ASSUME TypeInv, NEW t \in Tids, AckAtServer(t)
  PROVE  SessionChanges(t)
<1>1. PICK m \in net :
        /\ AtSession(t, m) /\ m.src = server[t].srcTID
        /\ LET s    == Negotiated(FromSender(t, m), m)
               b    == NextBlock(s.block)
               data == IF s.type = "READ" THEN ReadAt(inode[s.ino], s.pos, s.blockSize)
                                          ELSE <<>>
           IN \/ /\ ReadsBlock(s, m) /\ data # <<>>
                 /\ SessionSends(t, SendingBlock(s, b, data), Data(t, s.dst, b, data),
                                 Received(m), dir)
              \/ /\ ReadsBlock(s, m)
                 /\ Settle(t, [s EXCEPT !.block = b, !.state = "THROWN"], Received(m), dir)
              \/ /\ EndsRead(s, m)
                 /\ Settle(t, [s EXCEPT !.state = "RRQ_END"], Received(m), dir)
        /\ inode' = inode
  BY DEF AckAtServer
<1> DEFINE s    == Negotiated(FromSender(t, m), m)
           b    == NextBlock(s.block)
           data == ReadAt(inode[s.ino], s.pos, s.blockSize)
           w    == SendingBlock(s, b, data)
           p    == Data(t, s.dst, b, data)
           f    == [s EXCEPT !.block = b, !.state = "THROWN"]
           e    == [s EXCEPT !.state = "RRQ_END"]
<1>2. /\ s \in SessionRecord /\ IsSession(s) /\ Rests(s) /\ SameSession(s, server[t])
      /\ s.state = server[t].state /\ s.block = server[t].block /\ s.pos = server[t].pos
      /\ s.last = server[t].last /\ s.dst = m.src
      /\ m.op = "ACK" => s.blockSize = AnsweredSize(server[t])
      /\ s.blockSize = server[t].blockSize \/ s.blockSize = AnsweredSize(server[t])
      /\ s.state \in Waiting \ {"INITIAL"} /\ s.ino \in Tids \cup {Old}
      /\ m.src \in {Client} \cup Strangers /\ m.src = Client
      /\ \A x \in Received(m) : x \in net
  BY <1>1, SessionHeard
<1>3. \/ /\ ReadsBlock(s, m) /\ s.type = "READ" /\ data # <<>>
         /\ SessionSends(t, w, p, Received(m), dir)
      \/ ReadsBlock(s, m) /\ Settle(t, f, Received(m), dir)
      \/ EndsRead(s, m) /\ Settle(t, e, Received(m), dir)
  BY <1>1
<1>4. Answers(t, m)
  BY <1>1, <1>2 DEF Answers
<1> HIDE DEF s
<1>5. /\ b \in BlockNumber /\ data \in Seq(Nat)
  BY <1>2, SessionFields, NextBlockType, ReadAtType DEF TypeInv, TypeOK
<1> HIDE DEF data
<1>6. CASE /\ ReadsBlock(s, m) /\ s.type = "READ" /\ data # <<>>
           /\ SessionSends(t, w, p, Received(m), dir)
  <2>1. /\ m.op = "ACK" /\ s.state \in {"WAITING_ACK", "WAITING_AFTER_OACK"} /\ m.block = s.block
    BY <1>6 DEF ReadsBlock
  <2>2. IsSession(w)
    BY <1>2, <1>5, SessionUpdates
  <2>3. /\ w \in SessionRecord
        /\ w.state = IF Len(data) < s.blockSize THEN "WAITING_LAST_ACK" ELSE "WAITING_ACK"
        /\ SameSession(w, s) /\ w.block = b /\ w.blockSize = s.blockSize
        /\ w.pos = s.pos + Len(data) /\ w.last = s.last /\ Rests(w)
    BY <1>2, <2>2 DEF SendingBlock, SessionRecord, IsSession, Rests, SameSession
  <2>4. IsPacket(p)
    BY <1>2, <1>5, FromServer
  <2> HIDE DEF w, p
  <2>5. LET r == server'[t]
        IN /\ \A u \in Tids \ {t} : server'[u] = server[u]
           /\ Lands(r, w.state) /\ Like(r, w) /\ r.ino = w.ino
           /\ Retains(w.last, r.last, p)
           /\ dir' = NameAfter(r, dir)
           /\ \A x \in net' : x \in Received(m) \/ x = p \/ Complains(t, x)
    BY <1>6, <2>3, <2>4, SettledSending
  <2>6. p = Data(t, m.src, server'[t].block, data) /\ Replies(t, p)
    BY <1>2, <2>3, <2>5 DEF p, Replies, Like
  <2>7. data = ReadAt(inode[server[t].ino], server[t].pos, server'[t].blockSize)
    BY <1>2, <2>3, <2>5 DEF data, SameSession, Like
  <2>8. SessionReads(t, server[t], server'[t])
    <3>1. /\ server[t].type = "READ" /\ server'[t].type = "READ"
          /\ server'[t].options = server[t].options /\ server'[t].ino = server[t].ino
          /\ server'[t].block = NextBlock(server[t].block)
          /\ server'[t].blockSize = AnsweredSize(server[t]) /\ Rests(server'[t])
          /\ server'[t].pos = server[t].pos + Len(data)
          /\ Lands(server'[t], IF Len(data) < server'[t].blockSize
                               THEN "WAITING_LAST_ACK" ELSE "WAITING_ACK")
          /\ Retains(server[t].last, server'[t].last, p)
          /\ dir' = NameAfter(server'[t], dir)
      BY <1>2, <1>6, <2>1, <2>3, <2>5 DEF Like, Rests, SameSession
    <3> HIDE DEF Rests, Retains, Lands, AnsweredSize
    <3> QED BY <1>1, <1>2, <1>4, <1>5, <1>6, <2>1, <2>6, <2>7, <3>1 DEF SessionReads, FilesKept
  <2> QED BY <2>5, <2>8 DEF SessionChanges
<1>7. CASE ReadsBlock(s, m) /\ Settle(t, f, Received(m), dir)
  <2> HIDE DEF b
  <2>1. /\ f \in SessionRecord /\ f.state = "THROWN" /\ f.last = server[t].last
        /\ f.type = server[t].type /\ f.options = server[t].options
        /\ f.ino = server[t].ino /\ f.blockSize = s.blockSize
    BY <1>2, <1>5 DEF SessionRecord, SessionState, SameSession
  <2>2. Answers(t, m) /\ m.op = "ACK"
    BY <1>4, <1>7 DEF ReadsBlock
  <2> HIDE DEF f
  <2> QED BY <1>1, <1>2, <1>7, <2>1, <2>2, SessionFailing
<1>8. CASE EndsRead(s, m) /\ Settle(t, e, Received(m), dir)
  <2>1. /\ e \in SessionRecord /\ e.state = "RRQ_END" /\ e.last = server[t].last
        /\ SameSession(e, server[t]) /\ e.blockSize = s.blockSize /\ e.ino = server[t].ino
    BY <1>2 DEF SessionRecord, SessionState, Ended, SameSession
  <2>2. m.op = "ACK" /\ m.block = server[t].block /\ server[t].state = "WAITING_LAST_ACK"
    BY <1>2, <1>8 DEF EndsRead
  <2> HIDE DEF e
  <2>3. LET r == server'[t]
        IN /\ \A u \in Tids \ {t} : server'[u] = server[u]
           /\ Lands(r, e.state) /\ Like(r, e) /\ r.ino = e.ino /\ r.last = e.last
           /\ dir' = NameAfter(r, dir)
           /\ \A x \in net' : x \in Received(m) \/ Complains(t, x)
    BY <1>8, <2>1, Settled
  <2>4. Quiets(t)
    BY <1>2, <2>3 DEF Quiets
  <2>5. SessionFinishes(t, server[t], server'[t])
    BY <1>1, <1>2, <1>4, <2>1, <2>2, <2>3, <2>4
       DEF SessionFinishes, Like, SameSession, FilesKept, Lands, Waiting, AnsweredSize
  <2> QED BY <2>3, <2>5 DEF SessionChanges
<1> QED
  BY <1>3, <1>6, <1>7, <1>8

(* A turn after which the session goes on waiting as before.                 *)
LEMMA SessionStaying ==
  ASSUME TypeInv, NEW t \in Tids, SessionWaits(t), inode' = inode,
         NEW s \in SessionRecord, SameSession(s, server[t]), s.state = server[t].state,
         s.block = server[t].block, s.blockSize = server[t].blockSize,
         s.pos = server[t].pos, s.last = server[t].last,
         \/ Rests(s) /\ Quiets(t)
         \/ Backs(server[t], s) /\ server[t].last # None /\ Replies(t, server[t].last),
         \A u \in Tids \ {t} : server'[u] = server[u],
         Lands(server'[t], s.state), Like(server'[t], s), server'[t].ino = s.ino,
         server'[t].last = s.last, dir' = NameAfter(server'[t], dir)
  PROVE  SessionChanges(t)
<1>1. SessionStays(t, server[t], server'[t])
  BY DEF SessionStays, Like, SameSession, Rests, Backs, FilesKept
<1> QED
  BY <1>1 DEF SessionChanges

(* Any other packet. *)
LEMMA SessionOtherChanges ==
  ASSUME TypeInv, NEW t \in Tids,
         UnknownTidAtServer(t) \/ ErrorAtServer(t) \/ IllegalAtServer(t)
  PROVE  SessionChanges(t)
<1> USE DEF ErrorCode
<1>1. PICK m \in net :
        /\ AtSession(t, m) /\ inode' = inode
        /\ \/ SessionSends(t, FromSender(t, m), Error(t, m.src, "UNKNOWN_TID"), Received(m), dir)
           \/ \E s : /\ s = FromSender(t, m) \/ s = Negotiated(FromSender(t, m), m)
                     /\ \/ Settle(t, Failed(s), Received(m), dir)
                        \/ SessionSends(t, Failed(s), Error(t, s.dst, "ILLEGAL_OPERATION"),
                                        Received(m), dir)
  BY DEF UnknownTidAtServer, ErrorAtServer, IllegalAtServer
<1>2. CASE SessionSends(t, FromSender(t, m), Error(t, m.src, "UNKNOWN_TID"), Received(m), dir)
  <2> DEFINE s == FromSender(t, m)
             e == Error(t, m.src, "UNKNOWN_TID")
  <2>1. /\ s \in SessionRecord /\ Rests(s) /\ SameSession(s, server[t])
        /\ s.state = server[t].state /\ s.block = server[t].block /\ s.pos = server[t].pos
        /\ s.last = server[t].last /\ s.blockSize = server[t].blockSize
        /\ m.src \in {Client} \cup Strangers
        /\ \A x \in Received(m) : x \in net
    BY <1>1, SessionHeard
  <2>2. IsPacket(e) /\ e.op = "ERROR" /\ Complains(t, e)
    BY <2>1, FromServer DEF Error, Complains
  <2> HIDE DEF s, e
  <2>3. LET r == server'[t]
        IN /\ \A u \in Tids \ {t} : server'[u] = server[u]
           /\ Lands(r, s.state) /\ Like(r, s) /\ r.ino = s.ino
           /\ Retains(s.last, r.last, e)
           /\ dir' = NameAfter(r, dir)
           /\ \A x \in net' : x \in Received(m) \/ x = e \/ Complains(t, x)
    BY <1>2, <2>1, <2>2, SettledSending DEF s, e
  <2>4. Quiets(t) /\ server'[t].last = s.last
    BY <2>1, <2>2, <2>3 DEF Quiets, Retains
  <2> QED BY <1>1, <2>1, <2>3, <2>4, SessionStaying DEF AtSession
<1>3. CASE \E s : /\ s = FromSender(t, m) \/ s = Negotiated(FromSender(t, m), m)
                  /\ \/ Settle(t, Failed(s), Received(m), dir)
                     \/ SessionSends(t, Failed(s), Error(t, s.dst, "ILLEGAL_OPERATION"),
                                     Received(m), dir)
  <2>1. PICK s : /\ s = FromSender(t, m) \/ s = Negotiated(FromSender(t, m), m)
                 /\ \/ Settle(t, Failed(s), Received(m), dir)
                    \/ SessionSends(t, Failed(s), Error(t, s.dst, "ILLEGAL_OPERATION"),
                                    Received(m), dir)
    BY <1>3
  <2>2. /\ s \in SessionRecord /\ SameSession(s, server[t])
        /\ s.state = server[t].state /\ s.last = server[t].last /\ s.dst = m.src
        /\ s.blockSize = server[t].blockSize \/ s.blockSize = AnsweredSize(server[t])
        /\ s.state \in Waiting \ {"INITIAL"} /\ m.src \in {Client} \cup Strangers
        /\ \A x \in Received(m) : x \in net
    BY <1>1, <2>1, SessionHeard
  <2>3. /\ Failed(s) \in SessionRecord /\ Failed(s).state = "ERROR"
        /\ Failed(s).last = server[t].last /\ Failed(s).type = server[t].type
        /\ Failed(s).options = server[t].options /\ Failed(s).ino = server[t].ino
        /\ Failed(s).blockSize = s.blockSize
    BY <2>2 DEF Failed, SessionRecord, SessionState, Ended, SameSession
  <2> QED BY <1>1, <2>1, <2>2, <2>3, SessionFailing
<1> QED
  BY <1>1, <1>2, <1>3

(* A timeout.                                                                *)
LEMMA SessionTimeoutChanges ==
  ASSUME TypeInv, NEW t \in Tids, SessionTimesOut(t)
  PROVE  SessionChanges(t) \/ ServerFails
<1>1. server[t] \in SessionRecord /\ IsSession(server[t])
  BY TypeParts DEF IsSession
<1>2. CASE SessionGivesUp(t)
  <2> DEFINE f == [Failed(server[t]) EXCEPT !.retries = @ + 1]
  <2>1. server[t].retries + 1 \in Nat
    BY <1>1, SessionFields
  <2>2. /\ f \in SessionRecord /\ f.state = "ERROR" /\ f.last = server[t].last
        /\ f.type = server[t].type /\ f.options = server[t].options
        /\ f.ino = server[t].ino /\ f.blockSize = server[t].blockSize
    BY <1>1, <2>1 DEF Failed, SessionRecord, SessionState, Ended
  <2>3. Settle(t, f, net, dir) /\ inode' = inode /\ server[t].state \in Waiting
    BY <1>2 DEF SessionGivesUp, SessionWaits
  <2> HIDE DEF f
  <2> QED BY <2>2, <2>3, SessionFailing
<1>3. CASE SessionRetransmits(t)
  <2> DEFINE s == BackedOff(server[t])
  <2>1. /\ SessionWaits(t) /\ server[t].retries < MaxRetries /\ server[t].last # None
        /\ inode' = inode
    BY <1>3 DEF SessionRetransmits
  <2>2. IsSession(s)
    BY <1>1, <2>1, SessionUpdates DEF SessionWaits
  <2>3. /\ s \in SessionRecord /\ Backs(server[t], s) /\ SameSession(s, server[t])
        /\ s.state = server[t].state /\ s.block = server[t].block
        /\ s.blockSize = server[t].blockSize /\ s.pos = server[t].pos
        /\ s.last = server[t].last
    BY <1>1, <2>1, <2>2 DEF BackedOff, SessionRecord, IsSession, Backs, SameSession
  <2>4. PICK ok \in SendOutcomes :
          Settle(t, s, net \cup Transmitted(server[t].last, ok), dir)
    BY <1>3 DEF SessionRetransmits
  <2> HIDE DEF s
  <2>5. LET r == server'[t]
        IN /\ \A u \in Tids \ {t} : server'[u] = server[u]
           /\ Lands(r, s.state) /\ Like(r, s) /\ r.ino = s.ino /\ r.last = s.last
           /\ dir' = NameAfter(r, dir)
           /\ \A x \in net' : x \in net \cup Transmitted(server[t].last, ok) \/ Complains(t, x)
    BY <2>3, <2>4, Settled
  <2>6. Replies(t, server[t].last)
    BY <2>5 DEF Replies, Transmitted
  <2> QED BY <2>1, <2>3, <2>5, <2>6, SessionStaying
<1>4. CASE ServerCrashes(t)
  BY <1>4 DEF ServerCrashes, ServerFails, netVars
<1> QED
  BY <1>2, <1>3, <1>4 DEF SessionTimesOut

(* An interruption.                                                          *)
LEMMA SessionInterruptedChanges ==
  ASSUME TypeInv, NEW t \in Tids, SessionInterrupted(t)
  PROVE  SessionChanges(t)
<1> DEFINE f == Failed(server[t])
<1>1. server[t] \in SessionRecord
  BY TypeParts DEF IsSession
<1>2. /\ f \in SessionRecord /\ f.state = "ERROR" /\ f.last = server[t].last
      /\ f.type = server[t].type /\ f.options = server[t].options
      /\ f.ino = server[t].ino /\ f.blockSize = server[t].blockSize
  BY <1>1 DEF Failed, SessionRecord, SessionState, Ended
<1>3. Settle(t, f, net, dir) /\ inode' = inode /\ server[t].state \in Waiting
  BY DEF SessionInterrupted, SessionWaits
<1> HIDE DEF f
<1> QED BY <1>2, <1>3, SessionFailing

(* Every step of a session makes one of these changes. *)
LEMMA SessionChangesOnly ==
  ASSUME TypeInv, NEW t \in Tids, SessionActs(t)
  PROVE  SessionChanges(t) \/ ServerFails
BY DispatchChanges, StartWriteChanges, StartReadChanges, SessionDataChanges,
   SessionAckChanges, SessionOtherChanges, SessionTimeoutChanges,
   SessionInterruptedChanges
   DEF SessionActs, SessionStarts, SessionReceives

(* Every step is one of the client, one of a session, or changes neither     *)
(* and leaves in flight nothing new but what a stranger sends.               *)
LEMMA StepsOnly ==
  ASSUME TypeInv, [Next]_vars
  PROVE  \/ ClientChanges /\ client'.type = client.type /\ UNCHANGED serverVars
         \/ /\ \E t \in Tids : SessionChanges(t)
            /\ UNCHANGED clientVars
         \/ ServerFails /\ UNCHANGED clientVars
         \/ /\ UNCHANGED <<client, local, server, dir, inode>>
            /\ \A x \in net' : \/ x \in net
                               \/ \E y \in Strangers, t \in Tids : x = Ack(y, t, 0)
<1>1. CASE (ClientStart \/ ClientTurn \/ ClientInterrupted) /\ UNCHANGED serverVars
  BY <1>1, ClientChangesOnly DEF ClientActs, ClientTurn
<1>2. ASSUME NEW t \in Tids,
             \/ Dispatch(t) /\ UNCHANGED clientVars
             \/ SessionStarts(t) /\ UNCHANGED clientVars
             \/ SessionTurn(t)
             \/ SessionInterrupted(t) /\ UNCHANGED clientVars
      PROVE  (SessionChanges(t) \/ ServerFails) /\ UNCHANGED clientVars
  BY <1>2, SessionChangesOnly DEF SessionActs, SessionTurn
<1>3. CASE (Sigint \/ StopListening \/ ShutDown) /\ UNCHANGED clientVars
  BY <1>3 DEF Sigint, StopListening, ShutDown, netVars, clientVars
<1>4. CASE Environment
  BY <1>4 DEF Environment, Lose, Stray, clientVars, serverVars
<1>5. CASE UNCHANGED vars
  BY <1>5 DEF vars
<1> QED
  BY <1>1, <1>2, <1>3, <1>4, <1>5 DEF Next, ClientTurn
-----------------------------------------------------------------------------
(* The schedule of retransmissions. *)

(* The recursive function is the one its equation describes: the values up   *)
(* to n exist for every n, and are the same for every n that has them.       *)
LEMMA LongerGrows ==
  /\ Longer[0] = 1
  /\ \A n \in Nat : Longer[n] \in Nat /\ Longer[n + 1] = BACKOFF_FACTOR * Longer[n]
<1> USE DEF BACKOFF_FACTOR
<1> DEFINE F(n) == {f \in [0 .. n -> Nat] :
                      f[0] = 1 /\ \A i \in 1 .. n : f[i] = BACKOFF_FACTOR * f[i - 1]}
<1>1. ASSUME NEW n \in Nat, NEW k \in Nat, NEW f \in F(n), NEW h \in F(k)
      PROVE  \A i \in Nat : i <= n /\ i <= k => f[i] = h[i]
  <2> DEFINE T == {i \in Nat : i <= n /\ i <= k => f[i] = h[i]}
  <2>1. 0 \in T
    OBVIOUS
  <2>2. ASSUME NEW i \in Nat, i \in T PROVE i + 1 \in T
    <3> SUFFICES ASSUME i + 1 <= n, i + 1 <= k PROVE f[i + 1] = h[i + 1]
      OBVIOUS
    <3>1. i + 1 \in 1 .. n /\ i + 1 \in 1 .. k /\ (i + 1) - 1 = i /\ f[i] = h[i]
      BY <2>2
    <3>2. \A j \in 1 .. n : f[j] = BACKOFF_FACTOR * f[j - 1]
      OBVIOUS
    <3>3. \A j \in 1 .. k : h[j] = BACKOFF_FACTOR * h[j - 1]
      OBVIOUS
    <3> QED BY <3>1, <3>2, <3>3
  <2> HIDE DEF T
  <2>3. Nat \subseteq T
    BY <2>1, <2>2, Induct
  <2> QED BY <2>3 DEF T
<1>2. \A n \in Nat : F(n) # {}
  <2> DEFINE S == {n \in Nat : F(n) # {}}
  <2>1. 0 \in S
    <3>1. [i \in 0 .. 0 |-> 1] \in F(0)
      OBVIOUS
    <3> QED BY <3>1
  <2>2. ASSUME NEW n \in Nat, n \in S PROVE n + 1 \in S
    <3>1. PICK f : f \in F(n)
      BY <2>2
    <3> DEFINE g == [i \in 0 .. n + 1 |-> IF i <= n THEN f[i] ELSE BACKOFF_FACTOR * f[n]]
    <3>2. f \in [0 .. n -> Nat] /\ f[0] = 1 /\ \A i \in 1 .. n : f[i] = BACKOFF_FACTOR * f[i - 1]
      BY <3>1
    <3>3. g \in [0 .. n + 1 -> Nat] /\ g[0] = 1
      BY <3>2
    <3>4. \A i \in 1 .. n + 1 : g[i] = BACKOFF_FACTOR * g[i - 1]
      <4> TAKE i \in 1 .. n + 1
      <4>1. CASE i <= n
        BY <3>2, <4>1
      <4>2. CASE i = n + 1
        BY <3>2, <4>2
      <4> QED BY <4>1, <4>2
    <3> HIDE DEF g
    <3>5. g \in F(n + 1)
      BY <3>3, <3>4
    <3> HIDE DEF F
    <3> QED BY <3>5
  <2> HIDE DEF S
  <2>3. Nat \subseteq S
    BY <2>1, <2>2, Induct
  <2> QED BY <2>3 DEF S
<1> DEFINE c(n) == CHOOSE f : f \in F(n)
           g == [n \in Nat |-> c(n)[n]]
<1>3. \A n \in Nat : c(n) \in F(n)
  <2> HIDE DEF F
  <2> QED BY <1>2
<1>4. g[0] = 1 /\ \A n \in Nat : g[n] \in Nat
  <2> HIDE DEF c
  <2> QED BY <1>3
<1>5. ASSUME NEW n \in Nat, n # 0 PROVE g[n] = BACKOFF_FACTOR * g[n - 1]
  <2>1. n - 1 \in Nat /\ n \in 1 .. n /\ n - 1 <= n
    BY <1>5
  <2>2. c(n) \in F(n) /\ c(n - 1) \in F(n - 1)
    BY <1>3, <2>1
  <2> HIDE DEF c
  <2>3. c(n)[n] = BACKOFF_FACTOR * c(n)[n - 1]
    BY <2>1, <2>2
  <2>4. c(n)[n - 1] = c(n - 1)[n - 1]
    <3> HIDE DEF F
    <3> QED BY <1>1, <2>1, <2>2
  <2> QED BY <2>1, <2>3, <2>4
<1> HIDE DEF c, F
<1>6. g = [n \in Nat |-> IF n = 0 THEN 1 ELSE BACKOFF_FACTOR * g[n - 1]]
  <2>1. \A n \in Nat : g[n] = IF n = 0 THEN 1 ELSE BACKOFF_FACTOR * g[n - 1]
    BY <1>4, <1>5
  <2>2. g = [n \in Nat |-> g[n]]
    OBVIOUS
  <2> HIDE DEF g
  <2> QED BY <2>1, <2>2
<1> DEFINE P(x) == x = [n \in Nat |-> IF n = 0 THEN 1 ELSE BACKOFF_FACTOR * x[n - 1]]
<1>7. \E x : P(x)
  <2> HIDE DEF g
  <2> QED BY <1>6
<1>8. Longer = CHOOSE x : P(x)
  BY DEF Longer
<1>9. P(Longer)
  <2> HIDE DEF P
  <2> QED BY <1>7, <1>8
<1>10. \A n \in Nat : Longer[n] = IF n = 0 THEN 1 ELSE BACKOFF_FACTOR * Longer[n - 1]
  BY <1>9
<1>11. \A n \in Nat : Longer[n + 1] = BACKOFF_FACTOR * Longer[n]
  <2> TAKE n \in Nat
  <2>1. n + 1 \in Nat /\ n + 1 # 0 /\ (n + 1) - 1 = n
    OBVIOUS
  <2> QED BY <1>10, <2>1
<1>12. \A n \in Nat : Longer[n] \in Nat
  <2> DEFINE S == {n \in Nat : Longer[n] \in Nat}
  <2>1. 0 \in S /\ \A n \in Nat : n \in S => n + 1 \in S
    BY <1>10, <1>11
  <2> HIDE DEF S
  <2>2. Nat \subseteq S
    BY <2>1, Induct
  <2> QED BY <2>2 DEF S
<1> QED
  BY <1>10, <1>11, <1>12
(* A session that has just received a packet is on schedule, one that counts *)
(* one more timeout still is.                                                *)
LEMMA OnSchedule ==
  ASSUME NEW s, s.initialTimeout \in Nat, s.retries \in Nat, NEW r, r.initialTimeout \in Nat
  PROVE  /\ Rests(r) => Scheduled(r)
         /\ s.state \in Waiting /\ Scheduled(s) /\ Backs(s, r) => Scheduled(r)
<1>0. MaxRetries \in Nat
  BY SizeAssumption
<1>1. Rests(r) => Scheduled(r)
  BY <1>0, LongerGrows DEF Rests, Scheduled
<1>2. ASSUME s.state \in Waiting, Scheduled(s), Backs(s, r) PROVE Scheduled(r)
  <2>1. /\ s.timeout = s.initialTimeout * Longer[s.retries] /\ Longer[s.retries] \in Nat
        /\ Longer[s.retries + 1] = BACKOFF_FACTOR * Longer[s.retries]
        /\ r.retries = s.retries + 1 /\ r.retries <= MaxRetries
        /\ r.timeout = s.timeout * BACKOFF_FACTOR /\ r.initialTimeout = s.initialTimeout
    BY <1>0, <1>2, LongerGrows DEF Scheduled, Backs
  <2>2. \A a, b, c \in Nat : (a * b) * c = a * (c * b)
    OBVIOUS
  <2>3. BACKOFF_FACTOR \in Nat
    BY DEF BACKOFF_FACTOR
  <2> QED BY <2>1, <2>2, <2>3 DEF Scheduled
<1> QED
  BY <1>1, <1>2

(* Every step keeps the schedule. *)
LEMMA BackoffStep == TypeInv /\ BackoffInv /\ [Next]_vars => BackoffInv'
<1> SUFFICES ASSUME TypeInv, BackoffInv, [Next]_vars PROVE BackoffInv'
  OBVIOUS
<1> USE DEF BackoffInv, Backoff
<1>1. /\ client \in ClientRecord /\ client.initialTimeout \in Nat /\ client.retries \in Nat
      /\ \A t \in Tids : server[t].initialTimeout \in Nat /\ server[t].retries \in Nat
  BY TypeParts, ClientFields, SessionFields DEF IsClient, IsSession
<1>2. /\ client'.initialTimeout \in Nat
      /\ \A t \in Tids : server'[t].initialTimeout \in Nat
  <2>1. TypeInv'
    BY TypeStep
  <2> QED BY <2>1, ClientFields, SessionFields DEF TypeInv, IsClient, IsSession
<1>3. ASSUME ClientChanges PROVE Scheduled(client') /\ client'.state # "FREE"
  <2>1. CASE ClientBegins
    <3>1. Rests(client') /\ client'.state # "FREE"
      BY <2>1 DEF ClientBegins, Rests
    <3> QED BY <1>1, <1>2, <3>1, OnSchedule
  <2>2. CASE ClientFails \/ ClientEnds
    BY <2>2 DEF ClientFails, ClientEnds, Scheduled, Waiting
  <2>3. CASE ClientStays
    <3>1. /\ client.state \in Waiting /\ client'.state = client.state
          /\ Rests(client') \/ Backs(client, client')
      BY <2>3 DEF ClientStays
    <3> QED BY <1>1, <1>2, <3>1, OnSchedule DEF Waiting
  <2>4. CASE ClientStores \/ ClientSendsNext \/ ClientAccepts \/ ClientRepeats
    <3>1. Rests(client') /\ client'.state # "FREE"
      BY <2>4 DEF ClientStores, ClientSendsNext, ClientAccepts, ClientRepeats, ClientReads
    <3> QED BY <1>1, <1>2, <3>1, OnSchedule
  <2> QED BY <1>3, <2>1, <2>2, <2>3, <2>4 DEF ClientChanges
<1>4. ASSUME NEW t \in Tids, SessionChanges(t)
      PROVE  \A u \in Tids : Scheduled(server'[u])
  <2> DEFINE s == server[t]
             r == server'[t]
  <2>1. CASE SessionMade(t, s, r)
    <3>1. Rests(r)
      BY <2>1 DEF SessionMade, Session, Rests
    <3> QED BY <1>1, <1>2, <1>4, <3>1, OnSchedule DEF SessionChanges
  <2>2. CASE SessionRefused(t, s, r) \/ SessionFinishes(t, s, r) \/ SessionFails(t, s, r)
    <3>1. server[t] \in SessionRecord
      BY TypeParts DEF IsSession
    <3>2. r.state \notin Waiting
      BY <2>2, <3>1 DEF SessionRefused, SessionFinishes, SessionFails, SessionRecord, Waiting
    <3> QED BY <1>4, <3>2 DEF SessionChanges, Scheduled
  <2>3. CASE \/ SessionOpens(t, s, r) \/ SessionOffers(t, s, r)
             \/ SessionReads(t, s, r) \/ SessionStores(t, s, r) \/ SessionStays(t, s, r)
    <3>1. \/ Rests(r)
          \/ Backs(s, r) /\ s.state \in Waiting
          \/ /\ s.state \in Waiting /\ r.retries = s.retries
             /\ r.timeout = s.timeout /\ r.initialTimeout = s.initialTimeout
      BY <2>3 DEF SessionOpens, SessionOffers, SessionReads, SessionStores, SessionStays,
                  SessionWaits, Waiting
    <3>2. Scheduled(r)
      BY <1>1, <1>2, <3>1, OnSchedule DEF Scheduled
    <3> QED BY <1>4, <3>2 DEF SessionChanges
  <2> QED BY <1>4, <2>1, <2>2, <2>3 DEF SessionChanges
<1>5. ASSUME ServerFails PROVE \A u \in Tids : Scheduled(server'[u])
  <2>1. \A u \in Tids : server[u] \in SessionRecord
    BY TypeParts DEF IsSession
  <2> QED BY <1>5, <2>1 DEF ServerFails, Scheduled, SessionRecord, Waiting
<1> QED
  BY <1>3, <1>4, <1>5, StepsOnly DEF serverVars, clientVars

(* A client that has not begun has its schedule ready, and whoever waits     *)
(* keeps to it (Backoff is that of every session, setTimeout, setOptions).   *)
LEMMA BackoffInvariant == Spec => [](TypeInv /\ BackoffInv)
<1>1. Init => BackoffInv
  <2> SUFFICES ASSUME Init PROVE BackoffInv
    OBVIOUS
  <2>1. Rests(client) /\ client.initialTimeout \in Nat
    BY Numbers DEF Init, ClientInit, NewClient, Rests
  <2>2. \A t \in Tids : server[t].state = "FREE"
    BY DEF Init, ServerInit, Session
  <2>3. Scheduled(client)
    BY <2>1, LongerGrows, SizeAssumption DEF Rests, Scheduled
  <2> QED BY <2>1, <2>2, <2>3 DEF BackoffInv, Backoff, Scheduled, Rests, Waiting
<1> QED
  BY <1>1, TypeInit, TypeStep, BackoffStep, PTL DEF Spec

(* The schedule of retransmissions: whoever waits has timed out at most      *)
(* MAX_RETRIES times since it last received, and waits twice as long each    *)
(* time, whatever timeout was negotiated and whatever was sent to it (the    *)
(* loops of handleSession, setOptions).                                      *)
THEOREM BackoffHolds == Spec => []Backoff
<1>1. BackoffInv => Backoff
  BY DEF BackoffInv
<1> QED
  BY <1>1, BackoffInvariant, PTL

-----------------------------------------------------------------------------
(* What is retransmitted. *)

(* A request can be repeated without options. *)
LEMMA RequestKept ==
  ASSUME NEW p \in Packet, p.op \in {"RRQ", "WRQ"}
  PROVE  LET q == [p EXCEPT !.opts = NoOptions]
         IN q.op = p.op /\ q.src = p.src /\ q.dst = p.dst /\ q.opts = NoOptions
BY DEF Packet

(* What is sent is not the packet that is not there. *)
LEMMA SentIsSome ==
  /\ \A p : IsPacket(p) => p # None
  /\ \A t \in Tids, b \in BlockNumber :
       /\ Ack(Client, t, b) # None
       /\ \A d \in Seq(Nat) : Data(Client, t, b, d) # None
  /\ \A t \in Tids, dst \in {Client} \cup Strangers :
       /\ \A b \in BlockNumber :
            /\ Ack(t, dst, b) # None
            /\ \A d \in Seq(Nat) : Data(t, dst, b, d) # None
       /\ \A o \in Options : Oack(t, dst, o) # None
<1>1. \A p : IsPacket(p) => p # None
  BY PacketAssumption DEF IsPacket
<1> QED
  BY <1>1, FromClient, FromServer

(* The client's steps keep what is to be sent again. *)
LEMMA ClientKeeps ==
  ASSUME TypeInv, TypeInv', KeptInv, client.state # "CRASHED", "send" \notin Faults,
         ClientChanges, client'.type = client.type
  PROVE  /\ Keeps(client') /\ client'.state # "CRASHED"
         /\ client'.state = "WAITING_OACK" =>
              /\ client'.last.op = IF client'.type = "READ" THEN "RRQ" ELSE "WRQ"
              /\ client'.block = IF client'.type = "READ" THEN 1 ELSE 0
<1> USE DEF Keeps, Latest
<1>0. /\ client \in ClientRecord /\ client' \in ClientRecord
      /\ client.state \in Waiting => client.last # None
      /\ client.last # None => client.last \in Packet /\ IsPacket(client.last)
      /\ client.type \in SessionType /\ client.options \in Options
      /\ client.block \in BlockNumber /\ client.pos \in Nat
      /\ client'.blockSize \in Nat
      /\ client'.last # None => IsPacket(client'.last)
  <2>1. client \in ClientRecord /\ client' \in ClientRecord
        /\ (client'.last # None => IsPacket(client'.last))
        /\ (client.last # None => client.last \in Packet /\ IsPacket(client.last))
    BY DEF TypeInv, IsClient, IsPacket
  <2> QED BY <2>1, ClientFields DEF KeptInv
<1>1. ASSUME NEW m \in net, AtClient(m)
      PROVE  m.src \in Tids /\ IsPacket(m) /\ client.state \in Waiting
  BY <1>1, PeerTypes DEF AtClient
<1>2. CASE ClientBegins
  <2>1. client'.last = Request(client.type, Listener, client.options)
    BY <1>2 DEF ClientBegins, Retains, Request
  <2>2. client'.last # None
    BY <1>0, <2>1, RequestType, SentIsSome
  <2> QED BY <1>2, <2>1, <2>2 DEF ClientBegins, Request
<1>3. CASE ClientFails \/ ClientEnds
  <2>1. client'.state \in {"ERROR", "WRQ_END"}
    BY <1>0, <1>3 DEF ClientFails, ClientEnds
  <2> QED BY <2>1 DEF Waiting
<1>4. CASE ClientStays
  BY <1>0, <1>4 DEF ClientStays, KeptInv, Waiting
<1>5. CASE ClientStores
  <2>1. PICK m \in net :
          /\ AtClient(m)
          /\ client'.state \in {"RRQ_END", "WAITING_DATA"}
          /\ client'.block = NextBlock(client.block)
          /\ Retains(client.last, client'.last, Ack(Client, m.src, client.block))
    BY <1>5 DEF ClientStores
  <2>2. client'.last = Ack(Client, m.src, client.block)
    BY <2>1 DEF Retains, Ack
  <2>3. client'.last # None
    BY <1>0, <1>1, <2>1, <2>2, SentIsSome
  <2> QED BY <2>1, <2>2, <2>3 DEF Ack
<1>6. ASSUME NEW m \in net, AtClient(m), NEW b \in BlockNumber, ClientReads(m, b)
      PROVE  Keeps(client') /\ client'.state \in {"WAITING_ACK", "WAITING_LAST_ACK"}
  <2> DEFINE data == ReadAt(Source, client.pos, client'.blockSize)
  <2>1. /\ client'.state \in {"WAITING_ACK", "WAITING_LAST_ACK"} /\ client'.block = b
        /\ Retains(client.last, client'.last, Data(Client, m.src, b, data))
    BY <1>6 DEF ClientReads
  <2>3. client'.last = Data(Client, m.src, b, data)
    BY <2>1 DEF Retains, Data
  <2>4. data \in Seq(Nat)
    BY <1>0, ReadAtType, Numbers
  <2> HIDE DEF data
  <2>5. client'.last # None
    BY <1>1, <1>6, <2>3, <2>4, SentIsSome
  <2> QED BY <2>1, <2>3, <2>5 DEF Data
<1>7. CASE ClientSendsNext
  <2>1. PICK m \in net :
          /\ AtClient(m)
          /\ ClientReads(m, IF client.state = "WAITING_ACK" THEN NextBlock(client.block) ELSE 1)
    BY <1>7 DEF ClientSendsNext
  <2>2. (IF client.state = "WAITING_ACK" THEN NextBlock(client.block) ELSE 1) \in BlockNumber
    BY <1>0, NextBlockType, Numbers
  <2>3. Keeps(client') /\ client'.state \in {"WAITING_ACK", "WAITING_LAST_ACK"}
    <3> HIDE DEF Keeps
    <3> QED BY <1>6, <2>1, <2>2
  <2> QED BY <2>3
<1>8. CASE ClientAccepts
  <2>1. PICK m \in net :
          /\ AtClient(m) /\ client.state = "WAITING_OACK"
          /\ \/ /\ client.type = "READ"
                /\ client'.state = "WAITING_DATA" /\ client'.block = client.block
                /\ Retains(client.last, client'.last, Ack(Client, m.src, 0))
             \/ ClientReads(m, NextBlock(client.block))
    BY <1>8 DEF ClientAccepts
  <2>2. CASE /\ client.type = "READ"
             /\ client'.state = "WAITING_DATA" /\ client'.block = client.block
             /\ Retains(client.last, client'.last, Ack(Client, m.src, 0))
    <3>1. client'.last = Ack(Client, m.src, 0) /\ client'.block = 1
      BY <2>1, <2>2 DEF Retains, Ack, KeptInv
    <3>2. client'.last # None
      BY <1>1, <2>1, <3>1, SentIsSome, Numbers
    <3>3. NextBlock(0) = 1
      BY SizeAssumption DEF NextBlock
    <3> QED BY <2>2, <3>1, <3>2, <3>3 DEF Ack
  <2>3. CASE ClientReads(m, NextBlock(client.block))
    <3>1. NextBlock(client.block) \in BlockNumber
      BY <1>0, NextBlockType
    <3>2. Keeps(client') /\ client'.state \in {"WAITING_ACK", "WAITING_LAST_ACK"}
      <4> HIDE DEF Keeps
      <4> QED BY <1>6, <2>1, <2>3, <3>1
    <3> QED BY <3>2
  <2> QED BY <2>1, <2>2, <2>3
<1>9. CASE ClientRepeats
  <2> DEFINE q == [client.last EXCEPT !.opts = NoOptions]
  <2>1. /\ client.last \in Packet
        /\ client.last.op = IF client.type = "READ" THEN "RRQ" ELSE "WRQ"
        /\ client.block = IF client.type = "READ" THEN 1 ELSE 0
        /\ client'.state = IF client.type = "READ" THEN "WAITING_DATA" ELSE "WAITING_ACK"
        /\ client'.block = client.block /\ client'.last = q
    BY <1>0, <1>9 DEF ClientRepeats, KeptInv
  <2>2. q.op = client.last.op
    BY <2>1, RequestKept
  <2>3. q # None
    <3>1. q \in Packet
      BY <2>1 DEF Packet, NoOptions, Options
    <3> HIDE DEF q
    <3> QED BY <3>1, PacketAssumption
  <2> HIDE DEF q
  <2> QED BY <1>0, <2>1, <2>2, <2>3 DEF SessionType
<1> QED
  BY <1>2, <1>3, <1>4, <1>5, <1>7, <1>8, <1>9 DEF ClientChanges

(* The steps of a session keep what is to be sent again. *)
LEMMA SessionKeeps ==
  ASSUME TypeInv, TypeInv', KeptInv, "send" \notin Faults, NEW t \in Tids,
         server[t].state # "CRASHED", SessionChanges(t)
  PROVE  /\ IF server'[t].state = "INITIAL" THEN server'[t].block = 0 ELSE Keeps(server'[t])
         /\ server'[t].state # "CRASHED"
<1> DEFINE s == server[t]
           r == server'[t]
<1> USE DEF Lands
<1>0. /\ s \in SessionRecord /\ r \in SessionRecord
      /\ s.block \in BlockNumber /\ r.block \in BlockNumber
      /\ s.options \in Options /\ r.options \in Options
      /\ s.state = "INITIAL" => s.dst \in {Client} \cup Strangers
      /\ IF s.state = "INITIAL" THEN s.block = 0 ELSE Keeps(s)
      /\ s.last # None => IsPacket(s.last)
  <2>1. IsSession(s) /\ IsSession(r)
    BY TypeParts DEF TypeInv
  <2>2. s \in SessionRecord /\ r \in SessionRecord
    BY <2>1 DEF IsSession
  <2>3. s.state = "INITIAL" => s.dst \in {Client} \cup Strangers
    BY <2>1, <2>2, SessionFields DEF IsSession
  <2>4. s.last # None => IsPacket(s.last)
    BY <2>1 DEF IsSession
  <2> QED BY <2>2, <2>3, <2>4, SessionFields DEF KeptInv
<1> HIDE DEF s, r
<1>1. CASE SessionMade(t, s, r)
  <2>1. r.state = "INITIAL" /\ r.block = 0
    BY <1>1 DEF SessionMade, Session
  <2> QED BY <2>1 DEF r
<1>2. CASE SessionRefused(t, s, r) \/ SessionFinishes(t, s, r) \/ SessionFails(t, s, r)
  <2>1. r.state \in {"REFUSED", "RRQ_END", "ERROR", "THROWN"}
    BY <1>0, <1>2 DEF SessionRefused, SessionFinishes, SessionFails, SessionRecord
  <2> QED BY <2>1 DEF Keeps, Latest, Waiting, r
<1>3. CASE SessionOpens(t, s, r)
  <2> DEFINE p == IF s.options = NoOptions THEN Ack(t, s.dst, 0) ELSE Oack(t, s.dst, s.options)
  <2>1. /\ Lands(r, IF s.options = NoOptions THEN "WAITING_DATA" ELSE "WAITING_AFTER_OACK")
        /\ Retains(s.last, r.last, p) /\ r.block = 1 /\ s.state = "INITIAL"
        /\ r.type = "WRITE"
    BY <1>3 DEF SessionOpens
  <2>2. r.last = p
    BY <2>1 DEF Retains, Ack, Oack
  <2>3. p # None
    BY <1>0, <2>1, SentIsSome, Numbers
  <2>4. NextBlock(0) = 1
    BY SizeAssumption DEF NextBlock
  <2> QED BY <2>1, <2>2, <2>3, <2>4 DEF Keeps, Latest, Ack, Oack, Waiting, r
<1>4. CASE SessionOffers(t, s, r)
  <2>1. /\ Lands(r, "WAITING_AFTER_OACK") /\ s.state = "INITIAL"
        /\ r.type = "READ" /\ r.block = s.block
        /\ Retains(s.last, r.last, Oack(t, s.dst, r.options))
    BY <1>4 DEF SessionOffers
  <2>2. r.last = Oack(t, s.dst, r.options)
    BY <2>1 DEF Retains, Oack
  <2>3. r.last # None
    BY <1>0, <2>1, <2>2, SentIsSome
  <2> QED BY <1>0, <2>1, <2>2, <2>3 DEF Keeps, Latest, Oack, Waiting, r
<1>5. CASE SessionReads(t, s, r)
  <2>1. PICK data \in Seq(Nat), dst \in {Client} \cup Strangers :
          /\ Lands(r, IF Len(data) < r.blockSize THEN "WAITING_LAST_ACK" ELSE "WAITING_ACK")
          /\ Retains(s.last, r.last, Data(t, dst, r.block, data))
    BY <1>5 DEF SessionReads
  <2>2. r.last = Data(t, dst, r.block, data)
    BY <2>1 DEF Retains, Data
  <2>3. r.last # None
    BY <1>0, <2>1, <2>2, SentIsSome
  <2> QED BY <2>1, <2>2, <2>3 DEF Keeps, Latest, Data, Waiting, r
<1>6. CASE SessionStores(t, s, r)
  <2>1. PICK m : /\ Lands(r, IF Len(m.data) < r.blockSize THEN "WRQ_END" ELSE s.state)
                 /\ s.state \in {"WAITING_DATA", "WAITING_AFTER_OACK"}
                 /\ r.block = NextBlock(s.block)
                 /\ Retains(s.last, r.last, Ack(t, Client, s.block))
    BY <1>6 DEF SessionStores
  <2>2. r.last = Ack(t, Client, s.block)
    BY <2>1 DEF Retains, Ack
  <2>3. r.last # None
    BY <1>0, <2>1, <2>2, SentIsSome
  <2> QED BY <2>1, <2>2, <2>3 DEF Keeps, Latest, Ack, Waiting, r
<1>7. CASE SessionStays(t, s, r)
  <2>1. /\ s.state \in Waiting \ {"INITIAL"} /\ Lands(r, s.state)
        /\ r.block = s.block /\ r.last = s.last /\ r.type = s.type
    BY <1>7 DEF SessionStays, SessionWaits, SameSession, s
  <2>2. Keeps(s) /\ s.last # None
    BY <1>0, <2>1 DEF Keeps
  <2> QED BY <2>1, <2>2 DEF Keeps, Latest, Waiting, r
<1> QED
  BY <1>1, <1>2, <1>3, <1>4, <1>5, <1>6, <1>7 DEF SessionChanges, s, r

(* Nothing has crashed, and what is kept to be sent again is what is wanted. *)
SoundInv == KeptInv /\ SomethingToRetransmit

(* Every step keeps it so. *)
LEMMA KeptStep ==
  ASSUME "send" \notin Faults
  PROVE  TypeInv /\ SoundInv /\ [Next]_vars => SoundInv'
<1> SUFFICES ASSUME TypeInv, SoundInv, [Next]_vars PROVE SoundInv'
  OBVIOUS
<1>0. TypeInv' /\ KeptInv /\ SomethingToRetransmit
  BY TypeStep DEF SoundInv
<1>1. CASE ClientChanges /\ client'.type = client.type /\ UNCHANGED serverVars
  <2>1. server' = server
    BY <1>1 DEF serverVars
  <2>2. /\ Keeps(client') /\ client'.state # "CRASHED"
        /\ client'.state = "WAITING_OACK" =>
             /\ client'.last.op = IF client'.type = "READ" THEN "RRQ" ELSE "WRQ"
             /\ client'.block = IF client'.type = "READ" THEN 1 ELSE 0
    BY <1>0, <1>1, ClientKeeps DEF SomethingToRetransmit
  <2> QED BY <1>0, <2>1, <2>2 DEF SoundInv, KeptInv, SomethingToRetransmit
<1>2. ASSUME NEW t \in Tids, SessionChanges(t), UNCHANGED clientVars PROVE SoundInv'
  <2>1. client' = client /\ \A u \in Tids \ {t} : server'[u] = server[u]
    BY <1>2 DEF clientVars, SessionChanges
  <2>2. /\ IF server'[t].state = "INITIAL" THEN server'[t].block = 0 ELSE Keeps(server'[t])
        /\ server'[t].state # "CRASHED"
    BY <1>0, <1>2, SessionKeeps DEF SomethingToRetransmit
  <2> QED BY <1>0, <2>1, <2>2 DEF SoundInv, KeptInv, SomethingToRetransmit
<1>3. ~ServerFails
  BY <1>0 DEF ServerFails, KeptInv, Keeps, SessionWaits, Waiting
<1>4. CASE UNCHANGED <<client, local, server, dir, inode>>
  BY <1>0, <1>4 DEF SoundInv, KeptInv, SomethingToRetransmit
<1> QED
  BY <1>1, <1>2, <1>3, <1>4, StepsOnly

(* Nothing has been sent yet.                                                *)
LEMMA KeptInit == Init => SoundInv
<1> SUFFICES ASSUME Init PROVE SoundInv
  OBVIOUS
<1>1. client.state = "FREE" /\ \A t \in Tids : server[t].state = "FREE"
  BY DEF Init, ClientInit, NewClient, ServerInit, Session
<1> QED
  BY <1>1 DEF SoundInv, KeptInv, Keeps, Latest, SomethingToRetransmit, Waiting

(* As long as no sendto() fails, whoever waits has kept what its state needs *)
(* and nobody has crashed (Packet::send, lastPacket).                        *)
LEMMA KeptInvariant ==
  ASSUME "send" \notin Faults
  PROVE  Spec => [](TypeInv /\ KeptInv /\ SomethingToRetransmit)
<1>1. TypeInv /\ SoundInv /\ [Next]_vars => SoundInv'
  BY KeptStep
<1>2. SoundInv => KeptInv /\ SomethingToRetransmit
  BY DEF SoundInv
<1> QED
  BY <1>1, <1>2, TypeInit, TypeStep, KeptInit, PTL DEF Spec

(* What a session would send again is what the other end needs to go on, as  *)
(* long as no sendto() fails (Packet::send and the branch for a timeout in   *)
(* handleSession).                                                           *)
THEOREM RetransmitsLatestHolds ==
  ASSUME "send" \notin Faults
  PROVE  Spec => []RetransmitsLatest
<1>1. TypeInv /\ KeptInv => RetransmitsLatest
  BY DEF KeptInv, Keeps, Latest, RetransmitsLatest
<1> QED
  BY <1>1, KeptInvariant, PTL

(* There is always a packet to retransmit and nobody crashes, as long as no  *)
(* sendto() fails (lastPacket in handleSession).                             *)
THEOREM SomethingToRetransmitHolds ==
  ASSUME "send" \notin Faults
  PROVE  Spec => []SomethingToRetransmit
BY KeptInvariant, PTL
=============================================================================
