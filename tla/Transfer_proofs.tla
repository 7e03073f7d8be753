-------------------------- MODULE Transfer_proofs --------------------------
(***************************************************************************)
(* Type correctness of Transfer for every value of the constants.  TypeInv *)
(* adds to TypeOK who sends packets to whom and that a session that waits  *)
(* has a peer and an open file; each action of the client, of a session,   *)
(* of the listener and of the environment is shown to keep it.             *)
(***************************************************************************)
EXTENDS Invariant, SequenceTheorems, TLAPS

-----------------------------------------------------------------------------
(* The constants. *)

(* The ports are different from each other, and from None and Old. *)
LEMMA Ports ==
  /\ Client \notin Tids \cup Strangers
  /\ Listener \notin Tids \cup Strangers
  /\ None \notin Tids \cup Strangers
  /\ Old \notin Tids \cup Strangers
  /\ Tids \cap Strangers = {}
  /\ Client # Listener /\ Client # None /\ Listener # None /\ Old # None
BY PortAssumption

(* The types of the constants that count. *)
LEMMA Numbers ==
  /\ 0 \in BlockNumber /\ 1 \in BlockNumber
  /\ BlockSize \in Nat /\ BlockSize > 0
  /\ InitialTimeout \in Nat
  /\ Source \in Seq(Nat)
BY SizeAssumption DEF BlockNumber

-----------------------------------------------------------------------------
(* Blocks. *)

(* A read returns bytes, as many as were asked for unless the file ends. *)
LEMMA ReadAtType ==
  ASSUME NEW bytes \in Seq(Nat), NEW pos \in Nat, NEW size \in Nat
  PROVE  /\ ReadAt(bytes, pos, size) \in Seq(Nat)
         /\ Len(ReadAt(bytes, pos, size)) =
              IF pos + size <= Len(bytes) THEN size
              ELSE IF pos <= Len(bytes) THEN Len(bytes) - pos ELSE 0
         /\ \A i \in 1 .. Len(ReadAt(bytes, pos, size)) :
              ReadAt(bytes, pos, size)[i] = bytes[pos + i]
BY SMTT(30) DEF ReadAt, Smaller

(* A file that is written remains a sequence of bytes. *)
LEMMA WriteAtType ==
  ASSUME NEW bytes \in Seq(Nat), NEW pos \in Nat, NEW data \in Seq(Nat)
  PROVE  WriteAt(bytes, pos, data) \in Seq(Nat)
BY DEF WriteAt

(* Block numbers stay within their width. *)
LEMMA NextBlockType ==
  ASSUME NEW b \in BlockNumber
  PROVE  NextBlock(b) \in BlockNumber
BY SizeAssumption DEF NextBlock, BlockNumber

-----------------------------------------------------------------------------
(* Packets. *)

(* The ports, and the fields of each kind of packet. *)
LEMMA PacketFields ==
  ASSUME NEW m \in Packet
  PROVE  /\ m.op \in {"RRQ", "WRQ", "OACK", "DATA", "ACK", "ERROR"}
         /\ m.src \in Port /\ m.dst \in Port
         /\ m.op \in {"RRQ", "WRQ", "OACK"} => m.opts \in Options
         /\ m.op \in {"DATA", "ACK"} => m.block \in BlockNumber
         /\ m.op = "DATA" => m.data \in Seq(Nat)
BY DEF Packet

(* The constructors make packets. *)
LEMMA PacketTypes ==
  ASSUME NEW src \in Port, NEW dst \in Port
  PROVE  /\ \A b \in BlockNumber, d \in Seq(Nat) : Data(src, dst, b, d) \in Packet
         /\ \A b \in BlockNumber : Ack(src, dst, b) \in Packet
         /\ \A o \in Options : Oack(src, dst, o) \in Packet
         /\ \A c \in ErrorCode : Error(src, dst, c) \in Packet
BY DEF Packet, Data, Ack, Oack, Error

(* A request goes from the client to the listener. *)
LEMMA RequestType ==
  ASSUME NEW type \in SessionType, NEW o \in Options
  PROVE  IsPacket(Request(type, Listener, o))
BY DEF IsPacket, Packet, Request, Routed, Port

(* What a session sends to the client or to a stranger is routed. *)
LEMMA FromServer ==
  ASSUME NEW t \in Tids, NEW dst \in {Client} \cup Strangers
  PROVE  /\ \A b \in BlockNumber, d \in Seq(Nat) : IsPacket(Data(t, dst, b, d))
         /\ \A b \in BlockNumber : IsPacket(Ack(t, dst, b))
         /\ \A o \in Options : IsPacket(Oack(t, dst, o))
         /\ \A c \in ErrorCode : IsPacket(Error(t, dst, c))
<1>1. t \in Port /\ dst \in Port
  BY DEF Port
<1> QED
  BY <1>1, PacketTypes DEF IsPacket, Routed, Data, Ack, Oack, Error

(* What the client sends to a session is routed. *)
LEMMA FromClient ==
  ASSUME NEW t \in Tids
  PROVE  /\ \A b \in BlockNumber, d \in Seq(Nat) : IsPacket(Data(Client, t, b, d))
         /\ \A b \in BlockNumber : IsPacket(Ack(Client, t, b))
         /\ \A c \in ErrorCode : IsPacket(Error(Client, t, c))
<1>1. t \in Port /\ Client \in Port
  BY DEF Port
<1> QED
  BY <1>1, PacketTypes DEF IsPacket, Routed, Data, Ack, Error

(* What a stranger sends to a session is routed. *)
LEMMA StrayType ==
  ASSUME NEW x \in Strangers, NEW t \in Tids
  PROVE  IsPacket(Ack(x, t, 0))
<1>1. t \in Port /\ x \in Port
  BY DEF Port
<1> QED
  BY <1>1, PacketTypes, Numbers DEF IsPacket, Routed, Ack

-----------------------------------------------------------------------------
(* The client's session. *)

(* The fields of the client's session. *)
LEMMA ClientFields ==
  ASSUME NEW s \in ClientRecord
  PROVE  /\ s.state \in SessionState /\ s.type \in SessionType /\ s.options \in Options
         /\ s.block \in BlockNumber /\ s.blockSize \in Nat /\ s.pos \in Nat
         /\ s.initialTimeout \in Nat /\ s.timeout \in Nat
         /\ s.retries \in Nat
         /\ s.srcTID \in Tids \cup {None}
BY DEF ClientRecord

(* The helpers keep the type of the client's session. *)
LEMMA ClientUpdates ==
  ASSUME NEW s, IsClient(s)
  PROVE  /\ IsClient(Heard(s))
         /\ \A x \in SessionState : IsClient([s EXCEPT !.state = x])
         /\ \A t \in Tids \cup {None} : IsClient([s EXCEPT !.srcTID = t])
         /\ \A p, ok : IsPacket(p) /\ p.src = Client => IsClient(Sent(s, p, ok))
         /\ \A o \in Options : IsClient(WithOptions(s, o))
         /\ \A m : IsPacket(m) /\ m.op = "DATA" => IsClient(TakingBlock(s, m, "WAITING_DATA", "RRQ_END"))
         /\ \A b \in BlockNumber, d \in Seq(Nat) : IsClient(SendingBlock(s, b, d))
         /\ IsClient(BackedOff(s))
<1>0. s \in ClientRecord
  BY DEF IsClient
<1>1. IsClient(Heard(s))
  BY <1>0, ClientFields, Numbers DEF IsClient, Heard, ClientRecord
<1>2. ASSUME NEW x \in SessionState PROVE IsClient([s EXCEPT !.state = x])
  BY <1>0 DEF IsClient, ClientRecord
<1>3. ASSUME NEW t \in Tids \cup {None} PROVE IsClient([s EXCEPT !.srcTID = t])
  BY <1>0 DEF IsClient, ClientRecord
<1>4. ASSUME NEW p, NEW ok, IsPacket(p), p.src = Client PROVE IsClient(Sent(s, p, ok))
  BY <1>0, <1>4 DEF IsClient, ClientRecord, Sent, IsPacket
<1>5. ASSUME NEW o \in Options PROVE IsClient(WithOptions(s, o))
  <2>1. /\ Has(o, "blksize") => o["blksize"] \in Nat
        /\ Has(o, "timeout") => o["timeout"] \in Nat
    BY DEF Options, OptionName, Has
  <2> QED BY <1>0, <2>1 DEF IsClient, ClientRecord, WithOptions
<1>6. ASSUME NEW m, IsPacket(m), m.op = "DATA" PROVE IsClient(TakingBlock(s, m, "WAITING_DATA", "RRQ_END"))
  <2>1. NextBlock(s.block) \in BlockNumber /\ s.pos + Len(m.data) \in Nat
    BY <1>0, <1>6, ClientFields, NextBlockType, PacketFields DEF IsPacket
  <2>2. "RRQ_END" \in SessionState /\ "WAITING_DATA" \in SessionState
    BY DEF SessionState, Waiting, Ended
  <2> QED BY <1>0, <2>1, <2>2 DEF IsClient, ClientRecord, TakingBlock
<1>7. ASSUME NEW b \in BlockNumber, NEW d \in Seq(Nat) PROVE IsClient(SendingBlock(s, b, d))
  <2>1. s.pos + Len(d) \in Nat
    BY <1>0, ClientFields
  <2>2. "WAITING_LAST_ACK" \in SessionState /\ "WAITING_ACK" \in SessionState
    BY DEF SessionState, Waiting
  <2> QED BY <1>0, <2>1, <2>2 DEF IsClient, ClientRecord, SendingBlock
<1>8. IsClient(BackedOff(s))
  <2>1. s.retries + 1 \in Nat /\ s.timeout * BACKOFF_FACTOR \in Nat
    BY <1>0, ClientFields, Numbers DEF BACKOFF_FACTOR
  <2> QED BY <1>0, <2>1 DEF IsClient, ClientRecord, BackedOff
<1> QED
  BY <1>1, <1>2, <1>3, <1>4, <1>5, <1>6, <1>7, <1>8

(* What a turn of the client leaves behind is well typed if the session, the *)
(* packets and the file it is given are.                                     *)
LEMMA ClientSendsType ==
  ASSUME NEW s, IsClient(s),
         NEW p, IsPacket(p), p.src = Client,
         NEW rest, \A m \in rest : IsPacket(m),
         NEW file, file \in Seq(Nat) \cup {None},
         ClientSends(s, p, rest, file)
  PROVE  IsClient(client') /\ local' \in Seq(Nat) \cup {None} /\ \A m \in net' : IsPacket(m)
<1>1. PICK ok \in SendOutcomes : /\ ClientGoes(Sent(s, p, ok), file)
                                 /\ net' = rest \cup Transmitted(p, ok)
  BY DEF ClientSends
<1>2. IsClient(Sent(s, p, ok))
  BY ClientUpdates
<1> QED
  BY <1>1, <1>2 DEF ClientGoes, Transmitted

-----------------------------------------------------------------------------
(* The sessions of the server. *)

(* The fields of a session of the server. *)
LEMMA SessionFields ==
  ASSUME NEW s \in SessionRecord
  PROVE  /\ s.state \in SessionState /\ s.type \in SessionType /\ s.options \in Options
         /\ s.block \in BlockNumber /\ s.blockSize \in Nat /\ s.pos \in Nat
         /\ s.initialTimeout \in Nat /\ s.timeout \in Nat
         /\ s.retries \in Nat
         /\ s.ino \in Tids \cup {Old, None}
         /\ s.srcTID \in {Client, None}
         /\ s.dst \in {Client, None} \cup Strangers
BY DEF SessionRecord

(* A session that has been made is well typed. *)
LEMMA NewSession ==
  ASSUME NEW state \in {"FREE", "INITIAL"}, NEW type \in SessionType, NEW o \in Options,
         NEW src \in {Client, None}, src = None => state = "FREE"
  PROVE  IsSession(Session(state, type, o, src))
<1> DEFINE s == Session(state, type, o, src)
<1>1. state \in SessionState /\ state \notin Waiting \ {"INITIAL"}
  BY DEF SessionState, Waiting
<1>2. s \in SessionRecord
  BY <1>1, Numbers DEF SessionRecord, Session
<1>3. s.last = None /\ s.state = state /\ s.srcTID = src /\ s.dst = src
  BY DEF Session
<1> HIDE DEF s
<1>4. IsSession(s)
  BY <1>1, <1>2, <1>3 DEF IsSession
<1> QED
  BY <1>4 DEF s

(* The helpers keep the type of a session of the server. *)
LEMMA SessionUpdates ==
  ASSUME NEW s, IsSession(s), s.state \in Waiting \ {"INITIAL"}
  PROVE  /\ IsSession(Heard(s))
         /\ \A d \in {Client} \cup Strangers : IsSession([s EXCEPT !.dst = d])
         /\ \A o \in Options : IsSession(WithOptions(s, o))
         /\ \A m : IsPacket(m) /\ m.op = "DATA" => IsSession(TakingBlock(s, m, s.state, "WRQ_END"))
         /\ \A b \in BlockNumber, d \in Seq(Nat) : IsSession(SendingBlock(s, b, d))
         /\ IsSession(BackedOff(s))
<1>0. s \in SessionRecord
  BY DEF IsSession
<1>1. IsSession(Heard(s))
  BY <1>0, SessionFields, Numbers DEF IsSession, Heard, SessionRecord
<1>2. ASSUME NEW d \in {Client} \cup Strangers PROVE IsSession([s EXCEPT !.dst = d])
  BY <1>0, Ports DEF IsSession, SessionRecord
<1>5. ASSUME NEW o \in Options PROVE IsSession(WithOptions(s, o))
  <2>1. /\ Has(o, "blksize") => o["blksize"] \in Nat
        /\ Has(o, "timeout") => o["timeout"] \in Nat
    BY DEF Options, OptionName, Has
  <2> QED BY <1>0, <2>1 DEF IsSession, SessionRecord, WithOptions
<1>6. ASSUME NEW m, IsPacket(m), m.op = "DATA" PROVE IsSession(TakingBlock(s, m, s.state, "WRQ_END"))
  <2>1. NextBlock(s.block) \in BlockNumber /\ s.pos + Len(m.data) \in Nat
    BY <1>0, <1>6, SessionFields, NextBlockType, PacketFields DEF IsPacket
  <2>2. "WRQ_END" \in SessionState \ Waiting /\ s.state \in SessionState
    BY DEF SessionState, Waiting, Ended
  <2>3. s.state \notin {"FREE", "REFUSED"}
    BY DEF Waiting
  <2> QED BY <1>0, <2>1, <2>2, <2>3 DEF IsSession, SessionRecord, TakingBlock
<1>7. ASSUME NEW b \in BlockNumber, NEW d \in Seq(Nat) PROVE IsSession(SendingBlock(s, b, d))
  <2>1. s.pos + Len(d) \in Nat
    BY <1>0, SessionFields
  <2>2. "WAITING_LAST_ACK" \in SessionState /\ "WAITING_ACK" \in SessionState
    BY DEF SessionState, Waiting
  <2>3. s.state \notin {"FREE", "REFUSED"}
    BY DEF Waiting
  <2> QED BY <1>0, <2>1, <2>2, <2>3 DEF IsSession, SessionRecord, SendingBlock
<1>8. IsSession(BackedOff(s))
  <2>1. s.retries + 1 \in Nat /\ s.timeout * BACKOFF_FACTOR \in Nat
    BY <1>0, SessionFields, Numbers DEF BACKOFF_FACTOR
  <2> QED BY <1>0, <2>1 DEF IsSession, SessionRecord, BackedOff
<1> QED
  BY <1>1, <1>2, <1>5, <1>6, <1>7, <1>8

(* A session keeps a packet that it has sent, and is well typed still. *)
LEMMA SessionSent ==
  ASSUME NEW s, IsSession(s), NEW p, IsPacket(p), NEW ok
  PROVE  IsSession(Sent(s, p, ok))
BY DEF IsSession, SessionRecord, Sent, IsPacket

(* A session that exists may end in any way and is well typed still. *)
LEMMA SessionEnds ==
  ASSUME NEW s, IsSession(s), NEW x \in {"ERROR", "RRQ_END", "THROWN", "CRASHED"},
         s.state \notin {"FREE", "REFUSED"}
  PROVE  IsSession([s EXCEPT !.state = x])
<1>1. x \in SessionState /\ x \notin Waiting
  BY DEF SessionState, Ended, Waiting
<1> QED
  BY <1>1 DEF IsSession, SessionRecord

(* The same of a turn of session t.                                          *)
LEMMA SettleType ==
  ASSUME TypeInv, NEW t \in Tids,
         NEW s, IsSession(s),
         NEW packets, \A m \in packets : IsPacket(m),
         NEW name \in Tids \cup {Old, None},
         Settle(t, s, packets, name)
  PROVE  /\ server' \in [Tids -> SessionRecord] /\ \A u \in Tids : IsSession(server'[u])
         /\ dir' \in Tids \cup {Old, None}
         /\ \A m \in net' : IsPacket(m)
<1>0. server \in [Tids -> SessionRecord] /\ \A u \in Tids : IsSession(server[u])
  BY DEF TypeInv, TypeOK
<1>1. \A x : NameAfter(x, name) \in Tids \cup {Old, None}
  BY DEF NameAfter
<1>2. CASE ~stop \/ s.state \notin Waiting
  <2>1. /\ server' = [server EXCEPT ![t] = s] /\ net' = packets
        /\ dir' = NameAfter(s, name)
    BY <1>2 DEF Settle
  <2> QED BY <1>0, <1>1, <2>1 DEF IsSession
<1>3. CASE stop /\ s.state \in Waiting
  <2>1. /\ server' = [server EXCEPT ![t] = Failed(s)]
        /\ \E ok \in SendOutcomes :
             net' = packets \cup Transmitted(Error(t, s.dst, "NOT_DEFINED"), ok)
        /\ dir' = NameAfter(Failed(s), name)
    BY <1>3 DEF Settle
  <2>2. s.state \notin {"FREE", "REFUSED"}
    BY <1>3 DEF Waiting
  <2>3. IsSession(Failed(s))
    BY <2>2, SessionEnds DEF Failed
  <2>4. s.dst \in {Client} \cup Strangers
    BY <2>2, SessionFields DEF IsSession
  <2>5. IsPacket(Error(t, s.dst, "NOT_DEFINED"))
    BY <2>4, FromServer DEF ErrorCode
  <2> QED BY <1>0, <1>1, <2>1, <2>3, <2>5 DEF IsSession, Transmitted
<1> QED BY <1>2, <1>3

(* A turn that ends with a packet sent keeps the types, told to stop or not. *)
LEMMA SessionSendsType ==
  ASSUME TypeInv, NEW t \in Tids,
         NEW s, IsSession(s),
         NEW p, IsPacket(p),
         NEW rest, \A m \in rest : IsPacket(m),
         NEW name \in Tids \cup {Old, None},
         SessionSends(t, s, p, rest, name)
  PROVE  /\ server' \in [Tids -> SessionRecord] /\ \A u \in Tids : IsSession(server'[u])
         /\ dir' \in Tids \cup {Old, None}
         /\ \A m \in net' : IsPacket(m)
<1>1. PICK ok \in SendOutcomes :
        Settle(t, Sent(s, p, ok), rest \cup Transmitted(p, ok), name)
  BY DEF SessionSends
<1>2. IsSession(Sent(s, p, ok))
  BY SessionSent
<1>3. \A m \in rest \cup Transmitted(p, ok) : IsPacket(m)
  BY DEF Transmitted
<1> QED
  BY <1>1, <1>2, <1>3, SettleType

-----------------------------------------------------------------------------
(* Types are kept by every step. *)

(* The initial states are well typed. *)
LEMMA TypeInit == Init => TypeInv
<1> SUFFICES ASSUME Init PROVE TypeInv
  OBVIOUS
<1>1. PICK type \in Types, opts \in ClientOptions : client = NewClient(type, opts)
  BY DEF Init, ClientInit
<1>2. type \in SessionType /\ opts \in Options /\ "FREE" \in SessionState
  BY RequestAssumption DEF SessionState
<1>3. client \in ClientRecord
  BY <1>1, <1>2, Numbers DEF ClientRecord, NewClient
<1>4. IsClient(client)
  BY <1>1, <1>3 DEF IsClient, NewClient
<1>5. NoOptions \in Options
  BY DEF NoOptions, Options
<1>6. IsSession(Session("FREE", "READ", NoOptions, None))
  BY <1>5, NewSession DEF SessionType
<1>7. server \in [Tids -> SessionRecord] /\ \A t \in Tids : IsSession(server[t])
  BY <1>6 DEF Init, ServerInit, IsSession
<1>8. net = {} /\ lost \in 0 .. MaxLost
  BY FaultAssumption DEF Init, NetworkInit
<1>9. inode \in [Tids \cup {Old} -> Seq(Nat)]
  <2>1. Source \in Seq(Nat) /\ <<>> \in Seq(Nat)
    BY Numbers
  <2> QED BY <2>1 DEF Init, ServerInit
<1>10. /\ local = None
       /\ dir \in Tids \cup {Old, None}
       /\ stop \in BOOLEAN
       /\ listener \in {"listening", "stopping", "closed"}
  BY DEF Init, ClientInit, ServerInit
<1> QED
  BY <1>3, <1>4, <1>7, <1>8, <1>9, <1>10 DEF TypeInv, TypeOK

(* What TypeInv says of each variable. *)
LEMMA TypeParts ==
  ASSUME TypeInv
  PROVE  /\ \A m \in net : IsPacket(m)
         /\ IsClient(client)
         /\ \A t \in Tids : IsSession(server[t])
         /\ \A m \in net : Received(m) \subseteq net
BY DEF TypeInv, TypeOK, IsPacket, Received

(* A step of the client has to be looked at for the client's variables only. *)
LEMMA ClientPart ==
  ASSUME TypeInv, IsClient(client'), local' \in Seq(Nat) \cup {None},
         \A m \in net' : IsPacket(m), UNCHANGED <<lost, serverVars>>
  PROVE  TypeInv'
BY DEF TypeInv, TypeOK, IsClient, IsPacket, serverVars

(* A step of the server has to be looked at for the server's variables only. *)
LEMMA ServerPart ==
  ASSUME TypeInv,
         server' \in [Tids -> SessionRecord], \A u \in Tids : IsSession(server'[u]),
         dir' \in Tids \cup {Old, None},
         inode' \in [Tids \cup {Old} -> Seq(Nat)],
         \A m \in net' : IsPacket(m), UNCHANGED <<stop, listener, lost, clientVars>>
  PROVE  TypeInv'
BY DEF TypeInv, TypeOK, IsPacket, clientVars

(* Sending the request keeps the types. *)
LEMMA ClientStartTypes ==
  ASSUME TypeInv, ClientStart, UNCHANGED serverVars
  PROVE  TypeInv'
<1> DEFINE s == [client EXCEPT
                   !.state = IF client.options = NoOptions THEN "INITIAL"
                                                           ELSE "WAITING_OACK",
                   !.block = IF client.type = "READ" THEN 1 ELSE 0]
           p == Request(client.type, Listener, client.options)
<1>1. IsClient(client) /\ \A m \in net : IsPacket(m)
  BY TypeParts
<1>2. client \in ClientRecord /\ client.type \in SessionType /\ client.options \in Options
  BY <1>1, ClientFields DEF IsClient
<1>3. IsPacket(p) /\ p.src = Client
  BY <1>2, RequestType DEF Request
<1>4. IsClient(s)
  <2>1. "INITIAL" \in SessionState /\ "WAITING_OACK" \in SessionState
    BY DEF SessionState, Waiting
  <2> QED BY <1>1, <1>2, <2>1, Numbers DEF IsClient, ClientRecord
<1>5. IsClient(Failed(client))
  BY <1>1, ClientUpdates DEF Failed, SessionState, Ended
<1>6. UNCHANGED <<lost, serverVars>>
  BY DEF ClientStart
<1>7. CASE ClientSends(s, p, net, IF s.type = "READ" THEN <<>> ELSE None)
  <2>1. (IF s.type = "READ" THEN <<>> ELSE None) \in Seq(Nat) \cup {None}
    OBVIOUS
  <2> HIDE DEF s, p
  <2>2. IsClient(client') /\ local' \in Seq(Nat) \cup {None} /\ \A m \in net' : IsPacket(m)
    BY <1>1, <1>3, <1>4, <1>7, <2>1, ClientSendsType
  <2> QED BY <1>6, <2>2, ClientPart
<1>8. CASE ClientSends(Failed(client), p, net, None)
  <2> HIDE DEF s, p
  <2>2. IsClient(client') /\ local' \in Seq(Nat) \cup {None} /\ \A m \in net' : IsPacket(m)
    BY <1>1, <1>3, <1>5, <1>8, ClientSendsType
  <2> QED BY <1>6, <2>2, ClientPart
<1> QED
  BY <1>7, <1>8 DEF ClientStart

(* A packet for the client comes from a port of the server's.                *)
LEMMA PeerTypes ==
  ASSUME TypeInv, NEW m \in net, m.dst = Client
  PROVE  IsPacket(m) /\ m.src \in Tids /\ IsClient(Heard(client)) /\ IsClient(FromPeer(m))
         /\ \A x \in Received(m) : IsPacket(x)
<1>1. IsPacket(m) /\ IsClient(client) /\ \A x \in Received(m) : IsPacket(x)
  BY TypeParts DEF Received
<1>2. m.src \in Tids
  BY <1>1, Ports DEF IsPacket, Routed
<1>3. IsClient(Heard(client))
  BY <1>1, ClientUpdates
<1> QED
  BY <1>1, <1>2, <1>3, ClientUpdates DEF FromPeer

(* A packet received by the client keeps the types. *)
LEMMA ClientReceivesTypes ==
  ASSUME TypeInv, ClientReceives, UNCHANGED serverVars
  PROVE  TypeInv'
<1> USE DEF ErrorCode
<1>0. /\ client \in ClientRecord /\ local \in Seq(Nat) \cup {None}
      /\ Source \in Seq(Nat) /\ 0 \in BlockNumber /\ 1 \in BlockNumber
      /\ {"ERROR", "WRQ_END", "WAITING_DATA", "WAITING_ACK"} \subseteq SessionState
  BY Numbers DEF TypeInv, TypeOK, SessionState, Ended, Waiting
<1>1. CASE UnknownTidAtClient
  <2>1. PICK m \in net :
          /\ m.dst = Client
          /\ ClientSends(Heard(client), Error(Client, m.src, "UNKNOWN_TID"),
                         Received(m), local)
          /\ UNCHANGED lost
    BY <1>1 DEF UnknownTidAtClient
  <2>2. IsPacket(Error(Client, m.src, "UNKNOWN_TID")) /\ Error(Client, m.src, "UNKNOWN_TID").src = Client
    BY <2>1, PeerTypes, FromClient DEF Error
  <2>3. IsClient(client') /\ local' \in Seq(Nat) \cup {None} /\ \A x \in net' : IsPacket(x)
    BY <1>0, <2>1, <2>2, PeerTypes, ClientSendsType
  <2> QED BY <2>1, <2>3, ClientPart
<1>2. CASE DataAtClient
  <2>1. PICK m \in net :
          /\ AtClient(m)
          /\ LET s == FromPeer(m)
             IN /\ TakesData(s, m)
                /\ \/ /\ local # None
                      /\ ClientSends(TakingBlock(s, m, "WAITING_DATA", "RRQ_END"),
                                     Ack(Client, m.src, s.block),
                                     Received(m), local \o m.data)
                   \/ /\ local = None \/ "disk" \in Faults
                      /\ ClientSends(Failed(s), Error(Client, m.src, "DISK_FULL"),
                                     Received(m), local)
          /\ UNCHANGED lost
    BY <1>2 DEF DataAtClient
  <2> DEFINE s == FromPeer(m)
  <2>2. /\ IsPacket(m) /\ m.src \in Tids /\ IsClient(s)
        /\ \A x \in Received(m) : IsPacket(x)
    BY <2>1, PeerTypes DEF AtClient
  <2>3. m.op = "DATA" /\ m.data \in Seq(Nat) /\ s.block \in BlockNumber
    BY <2>1, <2>2, PacketFields, ClientFields DEF TakesData, IsPacket, IsClient
  <2>4. /\ IsPacket(Ack(Client, m.src, s.block)) /\ Ack(Client, m.src, s.block).src = Client
        /\ IsPacket(Error(Client, m.src, "DISK_FULL"))
        /\ Error(Client, m.src, "DISK_FULL").src = Client
    BY <2>2, <2>3, FromClient DEF Error, Ack
  <2>5. IsClient(TakingBlock(s, m, "WAITING_DATA", "RRQ_END")) /\ IsClient(Failed(s))
    BY <1>0, <2>2, <2>3, ClientUpdates DEF Failed
  <2> HIDE DEF s
  <2>6. CASE local # None /\ ClientSends(TakingBlock(s, m, "WAITING_DATA", "RRQ_END"),
                                         Ack(Client, m.src, s.block),
                                         Received(m), local \o m.data)
    <3>1. local \o m.data \in Seq(Nat)
      BY <1>0, <2>3, <2>6
    <3>2. IsClient(client') /\ local' \in Seq(Nat) \cup {None} /\ \A x \in net' : IsPacket(x)
      BY <2>2, <2>4, <2>5, <2>6, <3>1, ClientSendsType
    <3> QED BY <2>1, <3>2, ClientPart
  <2>7. CASE ClientSends(Failed(s), Error(Client, m.src, "DISK_FULL"), Received(m), local)
    <3>2. IsClient(client') /\ local' \in Seq(Nat) \cup {None} /\ \A x \in net' : IsPacket(x)
      BY <1>0, <2>2, <2>4, <2>5, <2>7, ClientSendsType
    <3> QED BY <2>1, <3>2, ClientPart
  <2> QED BY <2>1, <2>6, <2>7 DEF s
<1>3. CASE AckAtClient
  <2>1. PICK m \in net :
          /\ AtClient(m)
          /\ LET s == FromPeer(m)
             IN \/ /\ SendsBlock(s, m)
                   /\ ClientSendsBlock(s, m, IF s.state = "WAITING_ACK"
                                             THEN NextBlock(s.block) ELSE 1)
                \/ /\ LastAck(s, m)
                   /\ ClientGoes([s EXCEPT !.state = "WRQ_END"], local)
                   /\ net' = Received(m)
          /\ UNCHANGED lost
    BY <1>3 DEF AckAtClient
  <2> DEFINE s == FromPeer(m)
             b == IF s.state = "WAITING_ACK" THEN NextBlock(s.block) ELSE 1
             data == ReadAt(Source, s.pos, s.blockSize)
  <2>2. /\ IsPacket(m) /\ m.src \in Tids /\ IsClient(s)
        /\ \A x \in Received(m) : IsPacket(x)
    BY <2>1, PeerTypes DEF AtClient
  <2>3. b \in BlockNumber /\ data \in Seq(Nat)
    BY <1>0, <2>2, ClientFields, NextBlockType, ReadAtType DEF IsClient
  <2>4. IsPacket(Data(Client, m.src, b, data)) /\ Data(Client, m.src, b, data).src = Client
    BY <2>2, <2>3, FromClient DEF Data
  <2>5. IsClient(SendingBlock(s, b, data)) /\ IsClient([s EXCEPT !.state = "WRQ_END"])
    BY <1>0, <2>2, <2>3, ClientUpdates
  <2>6. CASE ClientSendsBlock(s, m, b)
    <3>1. ClientSends(SendingBlock(s, b, data), Data(Client, m.src, b, data),
                      Received(m), local)
      BY <2>6 DEF ClientSendsBlock
    <3> HIDE DEF s, b, data
    <3>2. IsClient(client') /\ local' \in Seq(Nat) \cup {None} /\ \A x \in net' : IsPacket(x)
      BY <1>0, <2>2, <2>4, <2>5, <3>1, ClientSendsType
    <3> QED BY <2>1, <3>2, ClientPart
  <2>7. CASE ClientGoes([s EXCEPT !.state = "WRQ_END"], local) /\ net' = Received(m)
    <3>2. IsClient(client') /\ local' \in Seq(Nat) \cup {None} /\ \A x \in net' : IsPacket(x)
      BY <1>0, <2>2, <2>5, <2>7 DEF ClientGoes
    <3> QED BY <2>1, <3>2, ClientPart
  <2> QED BY <2>1, <2>6, <2>7
<1>4. CASE OackAtClient
  <2>1. PICK m \in net :
          /\ AtClient(m)
          /\ LET s    == WithOptions(FromPeer(m), m.opts)
                 more == Received(m) \cup
                           IF \A o \in OptionName : Has(m.opts, o) => Has(client.options, o)
                           THEN {}
                           ELSE {Error(Client, m.src, "INVALID_OPTIONS")}
             IN /\ TakesOack(client, m)
                /\ \/ /\ s.type = "READ"
                      /\ ClientSends([s EXCEPT !.state = "WAITING_DATA"],
                                     Ack(Client, m.src, 0), more, local)
                   \/ /\ s.type = "READ" /\ Has(m.opts, "tsize") /\ "disk" \in Faults
                      /\ ClientSends(Failed(s), Error(Client, m.src, "DISK_FULL"),
                                     more, local)
                   \/ /\ s.type = "WRITE"
                      /\ LET b    == NextBlock(s.block)
                             data == ReadAt(Source, s.pos, s.blockSize)
                         IN ClientSends(SendingBlock(s, b, data),
                                        Data(Client, m.src, b, data), more, local)
          /\ UNCHANGED lost
    BY <1>4 DEF OackAtClient
  <2> DEFINE s == WithOptions(FromPeer(m), m.opts)
             more == Received(m) \cup
                       IF \A o \in OptionName : Has(m.opts, o) => Has(client.options, o)
                       THEN {}
                       ELSE {Error(Client, m.src, "INVALID_OPTIONS")}
             b == NextBlock(s.block)
             data == ReadAt(Source, s.pos, s.blockSize)
  <2>2. /\ IsPacket(m) /\ m.src \in Tids /\ IsClient(FromPeer(m))
        /\ \A x \in Received(m) : IsPacket(x)
    BY <2>1, PeerTypes DEF AtClient
  <2>3. m.opts \in Options
    BY <2>1, <2>2, PacketFields DEF TakesOack, IsPacket
  <2>4. IsClient(s)
    BY <2>2, <2>3, ClientUpdates
  <2>5. \A x \in more : IsPacket(x)
    BY <2>2, FromClient
  <2>6. b \in BlockNumber /\ data \in Seq(Nat)
    BY <1>0, <2>4, ClientFields, NextBlockType, ReadAtType DEF IsClient
  <2>7. /\ IsPacket(Data(Client, m.src, b, data)) /\ Data(Client, m.src, b, data).src = Client
        /\ IsPacket(Ack(Client, m.src, 0)) /\ Ack(Client, m.src, 0).src = Client
        /\ IsPacket(Error(Client, m.src, "DISK_FULL"))
        /\ Error(Client, m.src, "DISK_FULL").src = Client
    BY <1>0, <2>2, <2>6, FromClient DEF Data, Ack, Error
  <2>8. /\ IsClient(SendingBlock(s, b, data)) /\ IsClient(Failed(s))
        /\ IsClient([s EXCEPT !.state = "WAITING_DATA"])
    BY <1>0, <2>4, <2>6, ClientUpdates DEF Failed
  <2>9. \/ ClientSends([s EXCEPT !.state = "WAITING_DATA"], Ack(Client, m.src, 0), more, local)
        \/ ClientSends(Failed(s), Error(Client, m.src, "DISK_FULL"), more, local)
        \/ ClientSends(SendingBlock(s, b, data), Data(Client, m.src, b, data), more, local)
    BY <2>1
  <2> HIDE DEF s, more, b, data
  <2>10. IsClient(client') /\ local' \in Seq(Nat) \cup {None} /\ \A x \in net' : IsPacket(x)
    <3>1. CASE ClientSends([s EXCEPT !.state = "WAITING_DATA"], Ack(Client, m.src, 0), more, local)
      BY <1>0, <2>5, <2>7, <2>8, <3>1, ClientSendsType
    <3>2. CASE ClientSends(Failed(s), Error(Client, m.src, "DISK_FULL"), more, local)
      BY <1>0, <2>5, <2>7, <2>8, <3>2, ClientSendsType
    <3>3. CASE ClientSends(SendingBlock(s, b, data), Data(Client, m.src, b, data), more, local)
      BY <1>0, <2>5, <2>7, <2>8, <3>3, ClientSendsType
    <3> QED BY <2>9, <3>1, <3>2, <3>3
  <2> QED BY <2>1, <2>10, ClientPart
<1>6. CASE IllegalAtClient
  <2>1. PICK m \in net :
          /\ AtClient(m)
          /\ ClientSends(Failed(FromPeer(m)), Error(Client, m.src, "ILLEGAL_OPERATION"),
                         Received(m), local)
          /\ UNCHANGED lost
    BY <1>6 DEF IllegalAtClient
  <2>2. /\ IsPacket(m) /\ m.src \in Tids /\ IsClient(FromPeer(m))
        /\ \A x \in Received(m) : IsPacket(x)
    BY <2>1, PeerTypes DEF AtClient
  <2>3. /\ IsPacket(Error(Client, m.src, "ILLEGAL_OPERATION"))
        /\ Error(Client, m.src, "ILLEGAL_OPERATION").src = Client
        /\ IsClient(Failed(FromPeer(m)))
    BY <1>0, <2>2, FromClient, ClientUpdates DEF Error, Failed
  <2>4. IsClient(client') /\ local' \in Seq(Nat) \cup {None} /\ \A x \in net' : IsPacket(x)
    BY <1>0, <2>1, <2>2, <2>3, ClientSendsType
  <2> QED BY <2>1, <2>4, ClientPart
<1>5. CASE ErrorAtClient
  <2>1. PICK m \in net :
          /\ AtClient(m)
          /\ m.op = "ERROR"
          /\ LET s == FromPeer(m)
             IN \/ /\ s.state = "WAITING_OACK" /\ s.last # None
                   /\ LET p == [s.last EXCEPT !.opts = NoOptions]
                      IN ClientSends([s EXCEPT !.last = p, !.srcTID = None,
                                        !.state = IF s.type = "READ" THEN "WAITING_DATA"
                                                                     ELSE "WAITING_ACK"],
                                     p, Received(m), local)
                \/ /\ s.state # "WAITING_OACK"
                   /\ ClientGoes(Failed(s), local)
                   /\ net' = Received(m)
          /\ UNCHANGED lost
    BY <1>5 DEF ErrorAtClient
  <2> DEFINE s == FromPeer(m)
             p == [s.last EXCEPT !.opts = NoOptions]
             x == IF s.type = "READ" THEN "WAITING_DATA" ELSE "WAITING_ACK"
             u == [s EXCEPT !.last = p, !.srcTID = None, !.state = x]
  <2>2. /\ IsPacket(m) /\ m.src \in Tids /\ IsClient(s)
        /\ \A y \in Received(m) : IsPacket(y)
    BY <2>1, PeerTypes DEF AtClient
  <2>3. CASE s.state = "WAITING_OACK" /\ s.last # None /\ ClientSends(u, p, Received(m), local)
    <3>1. s.last \in Packet /\ Routed(s.last) /\ s.last.src = Client /\ s \in ClientRecord
      BY <2>2, <2>3 DEF IsClient, IsPacket
    <3>2. NoOptions \in Options
      BY DEF NoOptions, Options
    <3>3. p \in Packet
      BY <3>1, <3>2 DEF Packet
    <3>4. p.src = s.last.src /\ p.dst = s.last.dst
      BY <3>1 DEF Packet
    <3>5. IsPacket(p) /\ p.src = Client
      BY <3>1, <3>3, <3>4 DEF IsPacket, Routed
    <3> HIDE DEF p
    <3>6. x \in SessionState
      BY <1>0
    <3> HIDE DEF x
    <3>7. u \in ClientRecord
      BY <3>1, <3>3, <3>6 DEF ClientRecord
    <3>7a. u.last = p
      BY <3>1 DEF ClientRecord
    <3>8. IsClient(u)
      BY <3>5, <3>7, <3>7a DEF IsClient
    <3> HIDE DEF u
    <3>9. IsClient(client') /\ local' \in Seq(Nat) \cup {None} /\ \A y \in net' : IsPacket(y)
      BY <1>0, <2>2, <2>3, <3>5, <3>8, ClientSendsType
    <3> QED BY <2>1, <3>9, ClientPart
  <2>4. CASE ClientGoes(Failed(s), local) /\ net' = Received(m)
    <3>1. IsClient(Failed(s))
      BY <1>0, <2>2, ClientUpdates DEF Failed
    <3>2. IsClient(client') /\ local' \in Seq(Nat) \cup {None} /\ \A y \in net' : IsPacket(y)
      BY <1>0, <2>2, <2>4, <3>1 DEF ClientGoes
    <3> QED BY <2>1, <3>2, ClientPart
  <2> QED BY <2>1, <2>3, <2>4
<1> QED
  BY <1>1, <1>2, <1>3, <1>4, <1>5, <1>6 DEF ClientReceives

(* A timeout or an interruption of the client keeps the types. *)
LEMMA ClientTimeoutTypes ==
  ASSUME TypeInv, ClientTimesOut \/ ClientInterrupted, UNCHANGED serverVars
  PROVE  TypeInv'
<1>0. /\ IsClient(client) /\ \A m \in net : IsPacket(m)
      /\ client \in ClientRecord /\ local \in Seq(Nat) \cup {None}
      /\ "ERROR" \in SessionState /\ "CRASHED" \in SessionState
  BY TypeParts DEF TypeInv, TypeOK, SessionState, Ended
<1>1. IsClient(Failed(client)) /\ IsClient([client EXCEPT !.state = "CRASHED"])
  BY <1>0, ClientUpdates DEF Failed
<1>2. CASE ClientGivesUp
  <2> DEFINE s == [Failed(client) EXCEPT !.retries = @ + 1]
  <2>1. IsClient(s)
    <3>1. Failed(client).retries + 1 \in Nat
      BY <1>1, ClientFields DEF IsClient
    <3> QED BY <1>1, <3>1 DEF IsClient, ClientRecord
  <2>2. ClientGoes(s, local) /\ UNCHANGED netVars
    BY <1>2 DEF ClientGivesUp
  <2> HIDE DEF s
  <2>3. IsClient(client') /\ local' \in Seq(Nat) \cup {None} /\ \A m \in net' : IsPacket(m)
    BY <1>0, <2>1, <2>2 DEF ClientGoes, netVars
  <2> QED BY <2>2, <2>3, ClientPart DEF netVars
<1>3. CASE ClientRetransmits
  <2>1. /\ IsPacket(client.last) /\ client.last.src = Client
        /\ IsClient(BackedOff(client))
    BY <1>0, <1>3, ClientUpdates DEF ClientRetransmits, IsClient
  <2>2. ClientSends(BackedOff(client), client.last, net, local) /\ UNCHANGED lost
    BY <1>3 DEF ClientRetransmits
  <2>3. IsClient(client') /\ local' \in Seq(Nat) \cup {None} /\ \A m \in net' : IsPacket(m)
    BY <1>0, <2>1, <2>2, ClientSendsType
  <2> QED BY <2>2, <2>3, ClientPart
<1>4. CASE ClientCrashes
  <2>1. IsClient(client') /\ local' \in Seq(Nat) \cup {None} /\ \A m \in net' : IsPacket(m)
    BY <1>0, <1>1, <1>4 DEF ClientCrashes, ClientGoes, netVars
  <2> QED BY <1>4, <2>1, ClientPart DEF ClientCrashes, netVars
<1>5. CASE ClientInterrupted
  <2>1. IsClient(client') /\ local' \in Seq(Nat) \cup {None} /\ \A m \in net' : IsPacket(m)
    BY <1>0, <1>1, <1>5 DEF ClientInterrupted, ClientGoes, netVars
  <2> QED BY <1>5, <2>1, ClientPart DEF ClientInterrupted, netVars
<1> QED
  BY <1>2, <1>3, <1>4, <1>5 DEF ClientTimesOut

-----------------------------------------------------------------------------
(* The steps of the server. *)

(* A request given to a thread keeps the types. *)
LEMMA DispatchTypes ==
  ASSUME TypeInv, NEW t \in Tids, Dispatch(t), UNCHANGED clientVars
  PROVE  TypeInv'
<1> USE DEF ErrorCode
<1>1. PICK m \in net :
        /\ server[t].state = "FREE"
        /\ m.dst = Listener /\ m.op \in {"RRQ", "WRQ"}
        /\ \/ /\ LET type == IF m.op = "RRQ" THEN "READ" ELSE "WRITE"
                 IN server' = [server EXCEPT ![t] = Session("INITIAL", type, m.opts, m.src)]
              /\ net' = Received(m)
           \/ /\ server' = [server EXCEPT ![t].state = "REFUSED"]
              /\ \E ok \in SendOutcomes :
                   LET code == IF m.op = "RRQ" THEN "FILE_NOT_FOUND"
                                               ELSE "FILE_ALREADY_EXISTS"
                   IN net' = Received(m) \cup Transmitted(Error(t, m.src, code), ok)
           \/ /\ server' = [server EXCEPT ![t].state = "REFUSED"]
              /\ net' = Received(m)
        /\ UNCHANGED <<dir, inode, stop, listener, lost>>
  BY DEF Dispatch
<1>2. /\ IsPacket(m) /\ \A x \in Received(m) : IsPacket(x)
      /\ server \in [Tids -> SessionRecord] /\ \A u \in Tids : IsSession(server[u])
      /\ dir \in Tids \cup {Old, None} /\ inode \in [Tids \cup {Old} -> Seq(Nat)]
  BY TypeParts DEF Received, TypeInv, TypeOK
<1>3. m.src = Client /\ m.opts \in Options
  BY <1>1, <1>2, Ports, PacketFields DEF IsPacket, Routed
<1> DEFINE type == IF m.op = "RRQ" THEN "READ" ELSE "WRITE"
           code == IF m.op = "RRQ" THEN "FILE_NOT_FOUND" ELSE "FILE_ALREADY_EXISTS"
<1>4. CASE server' = [server EXCEPT ![t] = Session("INITIAL", type, m.opts, m.src)]
           /\ net' = Received(m)
  <2>1. IsSession(Session("INITIAL", type, m.opts, m.src))
    BY <1>3, NewSession, Ports DEF SessionType
  <2>2. server' \in [Tids -> SessionRecord] /\ \A u \in Tids : IsSession(server'[u])
    BY <1>2, <1>4, <2>1 DEF IsSession
  <2> QED BY <1>1, <1>2, <1>4, <2>2, ServerPart
<1>5. CASE /\ server' = [server EXCEPT ![t].state = "REFUSED"]
           /\ \/ net' = Received(m)
              \/ \E ok \in SendOutcomes :
                   net' = Received(m) \cup Transmitted(Error(t, m.src, code), ok)
  <2>1. IsSession([server[t] EXCEPT !.state = "REFUSED"])
    BY <1>2, ZenonT(30) DEF IsSession, SessionRecord, SessionState, Waiting
  <2>2. server' \in [Tids -> SessionRecord] /\ \A u \in Tids : IsSession(server'[u])
    BY <1>2, <1>5, <2>1 DEF IsSession
  <2>3. IsPacket(Error(t, m.src, code))
    BY <1>3, FromServer
  <2>4. \A x \in net' : IsPacket(x)
    BY <1>2, <1>5, <2>3 DEF Transmitted
  <2> QED BY <1>1, <1>2, <2>2, <2>4, ServerPart
<1> QED
  BY <1>1, <1>4, <1>5

(* The start of an upload keeps the types. *)
LEMMA StartWriteTypes ==
  ASSUME TypeInv, NEW t \in Tids, StartWrite(t), UNCHANGED clientVars
  PROVE  TypeInv'
<1> USE DEF ErrorCode
<1>1. /\ IsSession(server[t]) /\ server[t] \in SessionRecord /\ server[t].state = "INITIAL"
      /\ dir \in Tids \cup {Old, None} /\ inode \in [Tids \cup {Old} -> Seq(Nat)]
      /\ \A m \in net : IsPacket(m)
      /\ UNCHANGED <<stop, listener, lost>>
  BY TypeParts DEF TypeInv, TypeOK, StartWrite
<1>2. server[t].dst \in {Client} \cup Strangers /\ server[t].options \in Options
  BY <1>1, SessionFields DEF IsSession
<1> DEFINE i == IF dir = None THEN t ELSE dir
           s == [server[t] EXCEPT !.block = 1, !.ino = i]
           a == [s EXCEPT !.state = "WAITING_DATA"]
           o == [s EXCEPT !.state = "WAITING_AFTER_OACK"]
<1>3. CASE /\ inode' = [inode EXCEPT ![i] = <<>>]
           /\ \/ SessionSends(t, a, Ack(t, s.dst, 0), net, i)
              \/ SessionSends(t, o, Oack(t, s.dst, s.options), net, i)
  <2>1. i \in Tids \cup {Old} /\ i # None
    BY <1>1, Ports
  <2>2. s \in SessionRecord /\ s.ino # None
    BY <1>1, <2>1, Numbers DEF SessionRecord
  <2>3. /\ s.dst = server[t].dst /\ s.options = server[t].options
        /\ s.srcTID = server[t].srcTID /\ s.last = server[t].last
    BY <1>1 DEF SessionRecord
  <2>4. s.srcTID = Client /\ s.dst # None /\ (s.last # None => IsPacket(s.last))
    BY <1>1, <2>3 DEF IsSession
  <2>5. {"WAITING_DATA", "WAITING_AFTER_OACK"} \subseteq SessionState
    BY DEF SessionState, Waiting
  <2>6. IsPacket(Ack(t, s.dst, 0)) /\ IsPacket(Oack(t, s.dst, s.options))
    BY <1>2, <2>3, FromServer, Numbers
  <2> HIDE DEF s, i
  <2>7. IsSession(a) /\ IsSession(o)
    BY <2>2, <2>4, <2>5 DEF IsSession, SessionRecord
  <2> HIDE DEF a, o
  <2>8. inode' \in [Tids \cup {Old} -> Seq(Nat)]
    BY <1>1, <1>3, <2>1
  <2>9. /\ server' \in [Tids -> SessionRecord] /\ \A u \in Tids : IsSession(server'[u])
        /\ dir' \in Tids \cup {Old, None}
        /\ \A m \in net' : IsPacket(m)
    BY <1>1, <1>3, <2>1, <2>6, <2>7, SessionSendsType
  <2> QED BY <1>1, <2>8, <2>9, ServerPart
<1>4. CASE /\ \E code \in {"ACCESS_VIOLATION", "DISK_FULL"} :
                SessionSends(t, Failed(server[t]), Error(t, server[t].dst, code), net, dir)
           /\ UNCHANGED inode
  <2>1. IsSession(Failed(server[t]))
    BY <1>1, SessionEnds DEF Failed
  <2>2. PICK code \in {"ACCESS_VIOLATION", "DISK_FULL"} :
          SessionSends(t, Failed(server[t]), Error(t, server[t].dst, code), net, dir)
    BY <1>4
  <2>3. IsPacket(Error(t, server[t].dst, code))
    BY <1>2, FromServer
  <2>4. /\ server' \in [Tids -> SessionRecord] /\ \A u \in Tids : IsSession(server'[u])
        /\ dir' \in Tids \cup {Old, None}
        /\ \A m \in net' : IsPacket(m)
    BY <1>1, <2>1, <2>2, <2>3, SessionSendsType
  <2> QED BY <1>1, <1>4, <2>4, ServerPart
<1> QED
  BY <1>3, <1>4 DEF StartWrite

(* The start of a download keeps the types. *)
LEMMA StartReadTypes ==
  ASSUME TypeInv, NEW t \in Tids, StartRead(t), UNCHANGED clientVars
  PROVE  TypeInv'
<1> USE DEF ErrorCode
<1>1. /\ IsSession(server[t]) /\ server[t] \in SessionRecord /\ server[t].state = "INITIAL"
      /\ dir \in Tids \cup {Old, None} /\ inode \in [Tids \cup {Old} -> Seq(Nat)]
      /\ \A m \in net : IsPacket(m)
      /\ UNCHANGED <<inode, stop, listener, lost>>
  BY TypeParts DEF TypeInv, TypeOK, StartRead
<1>2. server[t].dst \in {Client} \cup Strangers /\ server[t].options \in Options
  BY <1>1, SessionFields DEF IsSession
<1> DEFINE size == Len(inode[dir])
           opts == IF Has(server[t].options, "tsize")
                   THEN [server[t].options EXCEPT !["tsize"] = size]
                   ELSE server[t].options
           s    == [server[t] EXCEPT !.ino = dir, !.options = opts]
           data == ReadAt(inode[dir], 0, s.blockSize)
           o    == [s EXCEPT !.state = "WAITING_AFTER_OACK"]
           b    == SendingBlock(s, 1, data)
<1>3. CASE /\ dir # None
           /\ \/ SessionSends(t, o, Oack(t, s.dst, opts), net, dir)
              \/ SessionSends(t, b, Data(t, s.dst, 1, data), net, dir)
              \/ SessionSends(t, Failed(s), Error(t, s.dst, "DISK_FULL"), net, dir)
  <2>1. inode[dir] \in Seq(Nat) /\ size \in Nat /\ dir \in Tids \cup {Old}
    BY <1>1, <1>3
  <2>2. opts \in Options
    BY <1>2, <2>1 DEF Options, OptionName
  <2> HIDE DEF opts
  <2>3. s \in SessionRecord /\ s.ino = dir /\ s.state = "INITIAL"
    BY <1>1, <2>1, <2>2 DEF SessionRecord
  <2>4. /\ s.dst = server[t].dst /\ s.srcTID = server[t].srcTID /\ s.last = server[t].last
        /\ s.blockSize \in Nat /\ s.pos \in Nat
    BY <1>1, <2>3, SessionFields DEF SessionRecord
  <2>5. /\ s.srcTID = Client /\ s.dst # None /\ s.dst \in {Client} \cup Strangers
        /\ s.last # None => IsPacket(s.last)
    BY <1>1, <1>2, <2>4 DEF IsSession
  <2>6. data \in Seq(Nat)
    BY <2>1, <2>4, ReadAtType
  <2>7. {"WAITING_AFTER_OACK", "WAITING_ACK", "WAITING_LAST_ACK", "ERROR"} \subseteq SessionState
    BY DEF SessionState, Waiting, Ended
  <2>8. /\ IsPacket(Oack(t, s.dst, opts)) /\ IsPacket(Data(t, s.dst, 1, data))
        /\ IsPacket(Error(t, s.dst, "DISK_FULL"))
    BY <2>2, <2>5, <2>6, FromServer, Numbers
  <2> HIDE DEF s, data
  <2>9. IsSession(o) /\ IsSession(Failed(s))
    BY <1>3, <2>3, <2>5, <2>7 DEF IsSession, SessionRecord, Failed, Waiting
  <2>10. IsSession(b)
    <3>1. s.pos + Len(data) \in Nat
      BY <2>4, <2>6
    <3> QED BY <1>3, <2>3, <2>5, <2>7, <3>1, Numbers DEF IsSession, SessionRecord, SendingBlock
  <2> HIDE DEF o, b
  <2>11. /\ server' \in [Tids -> SessionRecord] /\ \A u \in Tids : IsSession(server'[u])
         /\ dir' \in Tids \cup {Old, None}
         /\ \A m \in net' : IsPacket(m)
    BY <1>1, <1>3, <2>8, <2>9, <2>10, SessionSendsType
  <2> QED BY <1>1, <2>11, ServerPart
<1>4. CASE \/ Settle(t, [server[t] EXCEPT !.state = "THROWN"], net, dir)
           \/ SessionSends(t, Failed(server[t]),
                           Error(t, server[t].dst, "ACCESS_VIOLATION"), net, dir)
  <2>1. IsSession(Failed(server[t])) /\ IsSession([server[t] EXCEPT !.state = "THROWN"])
    BY <1>1, SessionEnds DEF Failed
  <2>2. IsPacket(Error(t, server[t].dst, "ACCESS_VIOLATION"))
    BY <1>2, FromServer
  <2>3. /\ server' \in [Tids -> SessionRecord] /\ \A u \in Tids : IsSession(server'[u])
        /\ dir' \in Tids \cup {Old, None}
        /\ \A m \in net' : IsPacket(m)
    BY <1>1, <1>4, <2>1, <2>2, SessionSendsType, SettleType
  <2> QED BY <1>1, <2>3, ServerPart
<1> QED
  BY <1>3, <1>4 DEF StartRead

(* A packet for a session that waits comes from the client or a stranger;    *)
(* the session that has received it is one that still waits.                 *)
LEMMA SenderTypes ==
  ASSUME TypeInv, NEW t \in Tids, NEW m \in net, AtSession(t, m),
         NEW s, s = FromSender(t, m) \/ s = Negotiated(FromSender(t, m), m)
  PROVE  /\ IsPacket(m) /\ m.src \in {Client} \cup Strangers
         /\ \A x \in Received(m) : IsPacket(x)
         /\ IsSession(s) /\ s.state \in Waiting \ {"INITIAL"}
         /\ s.dst = m.src /\ s.ino \in Tids \cup {Old} /\ s.ino # None
<1>1. /\ IsPacket(m) /\ IsSession(server[t]) /\ server[t] \in SessionRecord
      /\ \A x \in Received(m) : IsPacket(x)
      /\ server[t].state \in Waiting \ {"INITIAL"} /\ m.dst = t
  BY TypeParts DEF Received, TypeInv, TypeOK, AtSession, SessionWaits
<1>2. m.src \in {Client} \cup Strangers
  BY <1>1, Ports DEF IsPacket, Routed
<1> DEFINE h == Heard(server[t])
           f == FromSender(t, m)
<1>3. IsSession(h) /\ h \in SessionRecord /\ h.state = server[t].state
  <2>1. IsSession(h)
    BY <1>1, SessionUpdates
  <2>2. h.state = server[t].state
    BY <1>1 DEF Heard, SessionRecord
  <2> QED BY <2>1, <2>2 DEF IsSession
<1>4. IsSession(f) /\ f \in SessionRecord /\ f.state = server[t].state /\ f.dst = m.src
  <2>1. f = [h EXCEPT !.dst = m.src]
    BY DEF FromSender
  <2> HIDE DEF f, h
  <2>2. IsSession([h EXCEPT !.dst = m.src])
    BY <1>1, <1>2, <1>3, SessionUpdates
  <2>3. [h EXCEPT !.dst = m.src].state = h.state /\ [h EXCEPT !.dst = m.src].dst = m.src
    BY <1>3 DEF SessionRecord
  <2> QED BY <1>3, <2>1, <2>2, <2>3 DEF IsSession
<1>5. IsSession(s) /\ s.state = server[t].state /\ s.dst = m.src
  <2> HIDE DEF f
  <2> DEFINE w == WithOptions(f, f.options)
  <2>1. IsSession(w)
    BY <1>1, <1>4, SessionUpdates, SessionFields
  <2>2. w.state = f.state /\ w.dst = f.dst
    BY <1>4 DEF WithOptions, SessionRecord
  <2>3. s \in {f, w}
    BY DEF f, Negotiated
  <2> QED BY <1>4, <2>1, <2>2, <2>3
<1>6. s.ino \in Tids \cup {Old} /\ s.ino # None
  BY <1>1, <1>5, SessionFields DEF IsSession
<1> QED
  BY <1>1, <1>2, <1>5, <1>6

(* DATA received by a session keeps the types. *)
LEMMA SessionDataTypes ==
  ASSUME TypeInv, NEW t \in Tids, DataAtServer(t), UNCHANGED clientVars
  PROVE  TypeInv'
<1> USE DEF ErrorCode
<1>1. PICK m \in net :
        /\ AtSession(t, m)
        /\ LET s == Negotiated(FromSender(t, m), m)
           IN /\ StoresData(s, m)
              /\ \/ /\ SessionSends(t, TakingBlock(s, m, s.state, "WRQ_END"),
                                    Ack(t, s.dst, s.block), Received(m), dir)
                    /\ inode' = [inode EXCEPT ![s.ino] = WriteAt(@, s.pos, m.data)]
                 \/ /\ SessionSends(t, Failed(s), Error(t, s.dst, "DISK_FULL"),
                                    Received(m), dir)
                    /\ UNCHANGED inode
        /\ UNCHANGED <<stop, listener, lost>>
  BY DEF DataAtServer
<1> DEFINE s == Negotiated(FromSender(t, m), m)
           a == TakingBlock(s, m, s.state, "WRQ_END")
<1>2. /\ IsPacket(m) /\ \A x \in Received(m) : IsPacket(x)
      /\ IsSession(s) /\ s.state \in Waiting \ {"INITIAL"}
      /\ s.dst \in {Client} \cup Strangers /\ s.ino \in Tids \cup {Old}
  BY <1>1, SenderTypes
<1>3. /\ m.op = "DATA" /\ m.data \in Seq(Nat) /\ s.block \in BlockNumber /\ s.pos \in Nat
      /\ s.state \notin {"FREE", "REFUSED"}
  BY <1>1, <1>2, PacketFields, SessionFields DEF StoresData, IsPacket, IsSession, Waiting
<1>4. dir \in Tids \cup {Old, None} /\ inode \in [Tids \cup {Old} -> Seq(Nat)]
  BY DEF TypeInv, TypeOK
<1>5. IsPacket(Ack(t, s.dst, s.block)) /\ IsPacket(Error(t, s.dst, "DISK_FULL"))
  BY <1>2, <1>3, FromServer
<1>6. IsSession(a) /\ IsSession(Failed(s))
  BY <1>2, <1>3, SessionUpdates, SessionEnds DEF Failed
<1>7. inode' \in [Tids \cup {Old} -> Seq(Nat)]
  <2>1. WriteAt(inode[s.ino], s.pos, m.data) \in Seq(Nat)
    BY <1>2, <1>3, <1>4, WriteAtType
  <2> HIDE DEF s
  <2> QED BY <1>1, <1>4, <2>1 DEF s
<1>8. \/ SessionSends(t, a, Ack(t, s.dst, s.block), Received(m), dir)
      \/ SessionSends(t, Failed(s), Error(t, s.dst, "DISK_FULL"), Received(m), dir)
  BY <1>1
<1> HIDE DEF s, a
<1>9. /\ server' \in [Tids -> SessionRecord] /\ \A u \in Tids : IsSession(server'[u])
      /\ dir' \in Tids \cup {Old, None}
      /\ \A x \in net' : IsPacket(x)
  BY <1>2, <1>4, <1>5, <1>6, <1>8, SessionSendsType
<1> QED
  BY <1>1, <1>7, <1>9, ServerPart

(* An ACK received by a session keeps the types. *)
LEMMA SessionAckTypes ==
  ASSUME TypeInv, NEW t \in Tids, AckAtServer(t), UNCHANGED clientVars
  PROVE  TypeInv'
<1>1. PICK m \in net :
        /\ AtSession(t, m)
        /\ LET s    == Negotiated(FromSender(t, m), m)
               b    == NextBlock(s.block)
               data == IF s.type = "READ" THEN ReadAt(inode[s.ino], s.pos, s.blockSize)
                                          ELSE <<>>
           IN \/ SessionSends(t, SendingBlock(s, b, data), Data(t, s.dst, b, data),
                              Received(m), dir)
              \/ Settle(t, [s EXCEPT !.block = b, !.state = "THROWN"], Received(m), dir)
              \/ Settle(t, [s EXCEPT !.state = "RRQ_END"], Received(m), dir)
        /\ UNCHANGED <<inode, stop, listener, lost>>
  BY DEF AckAtServer
<1> DEFINE s    == Negotiated(FromSender(t, m), m)
           b    == NextBlock(s.block)
           data == IF s.type = "READ" THEN ReadAt(inode[s.ino], s.pos, s.blockSize)
                                      ELSE <<>>
           thrown == [s EXCEPT !.block = b, !.state = "THROWN"]
<1>2. /\ IsPacket(m) /\ \A x \in Received(m) : IsPacket(x)
      /\ IsSession(s) /\ s.state \in Waiting \ {"INITIAL"}
      /\ s.dst \in {Client} \cup Strangers /\ s.ino \in Tids \cup {Old}
  BY <1>1, SenderTypes
<1>3. \/ SessionSends(t, SendingBlock(s, b, data), Data(t, s.dst, b, data), Received(m), dir)
      \/ Settle(t, thrown, Received(m), dir)
      \/ Settle(t, [s EXCEPT !.state = "RRQ_END"], Received(m), dir)
  BY <1>1
<1>4. dir \in Tids \cup {Old, None} /\ inode \in [Tids \cup {Old} -> Seq(Nat)]
  BY DEF TypeInv, TypeOK
<1> HIDE DEF s
<1>5. /\ s.block \in BlockNumber /\ s.pos \in Nat /\ s.blockSize \in Nat
      /\ s.state \notin {"FREE", "REFUSED"} /\ s \in SessionRecord
  BY <1>2, SessionFields DEF IsSession, Waiting
<1>6. b \in BlockNumber /\ data \in Seq(Nat)
  <2>1. inode[s.ino] \in Seq(Nat) /\ <<>> \in Seq(Nat)
    BY <1>2, <1>4
  <2> QED BY <1>5, <2>1, NextBlockType, ReadAtType
<1> HIDE DEF b, data
<1>7. IsPacket(Data(t, s.dst, b, data)) /\ IsSession(SendingBlock(s, b, data))
  BY <1>2, <1>6, FromServer, SessionUpdates
<1>8. IsSession([s EXCEPT !.state = "RRQ_END"])
  BY <1>2, <1>5, SessionEnds
<1>9. IsSession(thrown)
  <2>1. "THROWN" \in SessionState /\ "THROWN" \notin Waiting
    BY DEF SessionState, Waiting
  <2> QED BY <1>2, <1>5, <1>6, <2>1 DEF IsSession, SessionRecord
<1> HIDE DEF thrown
<1>10. /\ server' \in [Tids -> SessionRecord] /\ \A u \in Tids : IsSession(server'[u])
       /\ dir' \in Tids \cup {Old, None}
       /\ \A x \in net' : IsPacket(x)
  BY <1>2, <1>3, <1>4, <1>7, <1>8, <1>9, SessionSendsType, SettleType
<1> QED
  BY <1>1, <1>4, <1>10, ServerPart

(* Any packet received by a session keeps the types. *)
LEMMA SessionReceivesTypes ==
  ASSUME TypeInv, NEW t \in Tids, SessionReceives(t), UNCHANGED clientVars
  PROVE  TypeInv'
<1> USE DEF ErrorCode
<1>0. dir \in Tids \cup {Old, None} /\ inode \in [Tids \cup {Old} -> Seq(Nat)]
  BY DEF TypeInv, TypeOK
<1>1. CASE UnknownTidAtServer(t)
  <2>1. PICK m \in net :
          /\ AtSession(t, m)
          /\ SessionSends(t, FromSender(t, m), Error(t, m.src, "UNKNOWN_TID"),
                          Received(m), dir)
          /\ UNCHANGED <<inode, stop, listener, lost>>
    BY <1>1 DEF UnknownTidAtServer
  <2>2. /\ m.src \in {Client} \cup Strangers /\ IsSession(FromSender(t, m))
        /\ \A x \in Received(m) : IsPacket(x)
    BY <2>1, SenderTypes
  <2>3. IsPacket(Error(t, m.src, "UNKNOWN_TID"))
    BY <2>2, FromServer
  <2>4. /\ server' \in [Tids -> SessionRecord] /\ \A u \in Tids : IsSession(server'[u])
        /\ dir' \in Tids \cup {Old, None}
        /\ \A x \in net' : IsPacket(x)
    BY <1>0, <2>1, <2>2, <2>3, SessionSendsType
  <2> QED BY <1>0, <2>1, <2>4, ServerPart
<1>2. CASE ErrorAtServer(t)
  <2>1. PICK m \in net :
          /\ AtSession(t, m)
          /\ Settle(t, Failed(FromSender(t, m)), Received(m), dir)
          /\ UNCHANGED <<inode, stop, listener, lost>>
    BY <1>2 DEF ErrorAtServer
  <2>2. /\ IsSession(FromSender(t, m)) /\ FromSender(t, m).state \in Waiting
        /\ \A x \in Received(m) : IsPacket(x)
    BY <2>1, SenderTypes
  <2>3. IsSession(Failed(FromSender(t, m)))
    BY <2>2, SessionEnds DEF Failed, Waiting
  <2>4. /\ server' \in [Tids -> SessionRecord] /\ \A u \in Tids : IsSession(server'[u])
        /\ dir' \in Tids \cup {Old, None}
        /\ \A x \in net' : IsPacket(x)
    BY <1>0, <2>1, <2>2, <2>3, SettleType
  <2> QED BY <1>0, <2>1, <2>4, ServerPart
<1>3. CASE IllegalAtServer(t)
  <2>1. PICK m \in net :
          /\ AtSession(t, m)
          /\ LET s == Negotiated(FromSender(t, m), m)
             IN SessionSends(t, Failed(s), Error(t, s.dst, "ILLEGAL_OPERATION"),
                             Received(m), dir)
          /\ UNCHANGED <<inode, stop, listener, lost>>
    BY <1>3 DEF IllegalAtServer
  <2> DEFINE s == Negotiated(FromSender(t, m), m)
  <2>2. /\ IsSession(s) /\ s.state \in Waiting /\ s.dst \in {Client} \cup Strangers
        /\ \A x \in Received(m) : IsPacket(x)
    BY <2>1, SenderTypes
  <2>3. SessionSends(t, Failed(s), Error(t, s.dst, "ILLEGAL_OPERATION"), Received(m), dir)
    BY <2>1
  <2> HIDE DEF s
  <2>4. IsSession(Failed(s)) /\ IsPacket(Error(t, s.dst, "ILLEGAL_OPERATION"))
    BY <2>2, SessionEnds, FromServer DEF Failed, Waiting
  <2>5. /\ server' \in [Tids -> SessionRecord] /\ \A u \in Tids : IsSession(server'[u])
        /\ dir' \in Tids \cup {Old, None}
        /\ \A x \in net' : IsPacket(x)
    BY <1>0, <2>2, <2>3, <2>4, SessionSendsType
  <2> QED BY <1>0, <2>1, <2>5, ServerPart
<1> QED
  BY <1>1, <1>2, <1>3, SessionDataTypes, SessionAckTypes DEF SessionReceives

(* A timeout of a session keeps the types. *)
LEMMA SessionTimeoutTypes ==
  ASSUME TypeInv, NEW t \in Tids, SessionTimesOut(t), UNCHANGED clientVars
  PROVE  TypeInv'
<1>0. /\ dir \in Tids \cup {Old, None} /\ inode \in [Tids \cup {Old} -> Seq(Nat)]
      /\ \A u \in Tids : IsSession(server[u]) /\ server[u] \in SessionRecord
      /\ \A m \in net : IsPacket(m)
      /\ SessionWaits(t)
  BY TypeParts DEF TypeInv, TypeOK, SessionTimesOut, SessionGivesUp, SessionRetransmits,
                   ServerCrashes
<1>1. CASE SessionGivesUp(t)
  <2> DEFINE s == [Failed(server[t]) EXCEPT !.retries = @ + 1]
  <2>1. IsSession(Failed(server[t]))
    BY <1>0, SessionEnds DEF Failed, SessionWaits, Waiting
  <2>2. Failed(server[t]).retries + 1 \in Nat
    BY <2>1, SessionFields DEF IsSession
  <2>3. IsSession(s)
    BY <2>1, <2>2 DEF IsSession, SessionRecord
  <2>4. Settle(t, s, net, dir) /\ UNCHANGED <<inode, stop, listener, lost>>
    BY <1>1 DEF SessionGivesUp
  <2> HIDE DEF s
  <2>5. /\ server' \in [Tids -> SessionRecord] /\ \A u \in Tids : IsSession(server'[u])
        /\ dir' \in Tids \cup {Old, None}
        /\ \A x \in net' : IsPacket(x)
    BY <1>0, <2>3, <2>4, SettleType
  <2> QED BY <1>0, <2>4, <2>5, ServerPart
<1>2. CASE SessionRetransmits(t)
  <2>1. PICK ok \in SendOutcomes :
          Settle(t, BackedOff(server[t]), net \cup Transmitted(server[t].last, ok), dir)
    BY <1>2 DEF SessionRetransmits
  <2>2. IsSession(BackedOff(server[t]))
    BY <1>0, SessionUpdates DEF SessionWaits
  <2>3. IsPacket(server[t].last)
    BY <1>0, <1>2 DEF SessionRetransmits, IsSession
  <2>4. \A m \in net \cup Transmitted(server[t].last, ok) : IsPacket(m)
    BY <1>0, <2>3 DEF Transmitted
  <2>5. /\ server' \in [Tids -> SessionRecord] /\ \A u \in Tids : IsSession(server'[u])
        /\ dir' \in Tids \cup {Old, None}
        /\ \A x \in net' : IsPacket(x)
    BY <1>0, <2>1, <2>2, <2>4, SettleType
  <2>6. UNCHANGED <<inode, stop, listener, lost>>
    BY <1>2 DEF SessionRetransmits
  <2> QED BY <1>0, <2>5, <2>6, ServerPart
<1>3. CASE ServerCrashes(t)
  <2>1. \A u \in Tids : server[u].state \in Waiting => IsSession([server[u] EXCEPT !.state = "CRASHED"])
    BY <1>0, SessionEnds DEF Waiting
  <2>2. server' \in [Tids -> SessionRecord] /\ \A u \in Tids : IsSession(server'[u])
    BY <1>0, <1>3, <2>1 DEF ServerCrashes, IsSession
  <2>3. listener' = "closed" /\ UNCHANGED <<dir, inode, stop, netVars>>
    BY <1>3 DEF ServerCrashes
  <2> QED BY <2>2, <2>3 DEF TypeInv, TypeOK, netVars, clientVars
<1> QED
  BY <1>1, <1>2, <1>3 DEF SessionTimesOut

(* A session that is interrupted keeps the types. *)
LEMMA SessionInterruptedTypes ==
  ASSUME TypeInv, NEW t \in Tids, SessionInterrupted(t), UNCHANGED clientVars
  PROVE  TypeInv'
<1>1. /\ dir \in Tids \cup {Old, None} /\ inode \in [Tids \cup {Old} -> Seq(Nat)]
      /\ \A u \in Tids : IsSession(server[u]) /\ server[u] \in SessionRecord
      /\ \A m \in net : IsPacket(m)
  BY TypeParts DEF TypeInv, TypeOK
<1>2. /\ SessionWaits(t) /\ Settle(t, Failed(server[t]), net, dir)
      /\ UNCHANGED <<inode, stop, listener, lost>>
  BY DEF SessionInterrupted
<1>3. IsSession(Failed(server[t]))
  BY <1>1, <1>2, SessionEnds DEF Failed, SessionWaits, Waiting
<1>4. /\ server' \in [Tids -> SessionRecord] /\ \A u \in Tids : IsSession(server'[u])
      /\ dir' \in Tids \cup {Old, None}
      /\ \A x \in net' : IsPacket(x)
  BY <1>1, <1>2, <1>3, SettleType
<1> QED
  BY <1>1, <1>2, <1>4, ServerPart

(* Signals, the listener and the network.                                    *)
LEMMA OtherTypes ==
  ASSUME TypeInv
  PROVE  /\ (Sigint \/ StopListening \/ ShutDown) /\ UNCHANGED clientVars => TypeInv'
         /\ Environment => TypeInv'
<1>1. ASSUME Sigint \/ StopListening \/ ShutDown, UNCHANGED clientVars PROVE TypeInv'
  BY <1>1 DEF Sigint, StopListening, ShutDown, netVars, clientVars, TypeInv, TypeOK
<1>2. ASSUME Lose, UNCHANGED <<clientVars, serverVars>> PROVE TypeInv'
  <2>1. net' \subseteq net /\ lost' \in 0 .. MaxLost
    BY <1>2, FaultAssumption DEF Lose, TypeInv, TypeOK
  <2> QED BY <1>2, <2>1 DEF clientVars, serverVars, TypeInv, TypeOK
<1>3. ASSUME Stray PROVE TypeInv'
  <2>1. PICK x \in Strangers, t \in Tids : net' = net \cup {Ack(x, t, 0)}
    BY <1>3 DEF Stray
  <2>2. IsPacket(Ack(x, t, 0)) /\ UNCHANGED <<lost, clientVars, serverVars>>
    BY <1>3, StrayType DEF Stray
  <2> QED BY <2>1, <2>2 DEF clientVars, serverVars, TypeInv, TypeOK, IsPacket
<1> QED
  BY <1>1, <1>2, <1>3 DEF Environment

(* Every step keeps the types. *)
LEMMA TypeStep == TypeInv /\ [Next]_vars => TypeInv'
<1> SUFFICES ASSUME TypeInv, [Next]_vars PROVE TypeInv'
  OBVIOUS
<1>1. CASE ClientStart /\ UNCHANGED serverVars
  BY <1>1, ClientStartTypes
<1>2. CASE ClientTurn
  BY <1>2, ClientReceivesTypes, ClientTimeoutTypes DEF ClientTurn
<1>3. CASE ClientInterrupted /\ UNCHANGED serverVars
  BY <1>3, ClientTimeoutTypes
<1>4. ASSUME NEW t \in Tids,
             \/ Dispatch(t) /\ UNCHANGED clientVars
             \/ SessionStarts(t) /\ UNCHANGED clientVars
             \/ SessionTurn(t)
             \/ SessionInterrupted(t) /\ UNCHANGED clientVars
      PROVE  TypeInv'
  BY <1>4, DispatchTypes, StartWriteTypes, StartReadTypes, SessionReceivesTypes,
     SessionTimeoutTypes, SessionInterruptedTypes DEF SessionStarts, SessionTurn
<1>5. CASE (Sigint \/ StopListening \/ ShutDown) /\ UNCHANGED clientVars
  BY <1>5, OtherTypes
<1>6. CASE Environment
  BY <1>6, OtherTypes
<1>7. CASE UNCHANGED vars
  BY <1>7 DEF vars, TypeInv, TypeOK
<1> QED
  BY <1>1, <1>2, <1>3, <1>4, <1>5, <1>6, <1>7 DEF Next

(* Type correctness: in every reachable state, for any number of ports and   *)
(* strangers, any file, sizes and faults, every variable has its type.  The  *)
(* invariant that carries it says who may have sent a packet to whom and     *)
(* that a session that waits has a client to answer and a file open: answers *)
(* to a stranger's packet (handleSession, the check of the TID) keep to it.  *)
THEOREM TypeCorrect == Spec => []TypeOK
<1>1. TypeInv => TypeOK
  BY DEF TypeInv
<1> QED
  BY <1>1, TypeInit, TypeStep, PTL DEF Spec
=============================================================================
