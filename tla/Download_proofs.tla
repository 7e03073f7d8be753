-------------------------- MODULE Download_proofs ---------------------------
(***************************************************************************)
(* Downloads without options, for every file that has fewer blocks than    *)
(* there are block numbers, every number of server ports and strangers,    *)
(* and every fault.  DownloadInv is kept by every step, and has what is    *)
(* needed of the client's file: DownloadIntact.  A download then           *)
(* implements FileTransfer, and a session of the server succeeds only      *)
(* after the client; for that AckInv has what DownloadInv has not, what an *)
(* acknowledgement in flight means.                                        *)
(***************************************************************************)
EXTENDS Transfer_proofs, Refinement

-----------------------------------------------------------------------------
(* Arithmetic of blocks. *)

(* Multiplication distributes; stated alone so that Z3 finds it. *)
LEMMA Distribute ==
  ASSUME NEW b \in Nat, NEW k \in Nat
  PROVE  (b + 1) * k = b * k + k
OBVIOUS

(* A file that ends after block b of a file without wrap has a next number.  *)
LEMMA NextIsSuccessor ==
  ASSUME NoWrap, NEW b \in BlockNumber, b * BlockSize <= Len(Source)
  PROVE  NextBlock(b) = b + 1
<1>1. /\ b \in Nat /\ BlockMod \in Nat /\ BlockMod > 1 /\ b < BlockMod
      /\ BlockSize \in Nat /\ Len(Source) \in Nat
  BY SizeAssumption DEF BlockNumber
<1>2. b * BlockSize < (BlockMod - 1) * BlockSize
  <2>1. /\ b * BlockSize \in Nat /\ BlockMod - 1 \in Nat
        /\ (BlockMod - 1) * BlockSize \in Nat
    BY <1>1
  <2> QED BY <1>1, <2>1 DEF NoWrap
<1>3. b # BlockMod - 1
  BY <1>2, <1>1
<1>4. b + 1 \in 0 .. BlockMod - 1
  BY <1>1, <1>3
<1> QED
  BY <1>1, <1>4 DEF NextBlock

(* The client appends a block to the blocks before it.                       *)
LEMMA AppendBlock ==
  ASSUME NEW file \in Seq(Nat), NEW b \in Nat, b >= 1,
         Len(file) = (b - 1) * BlockSize, PrefixOfSource(file)
  PROVE  /\ PrefixOfSource(file \o Block(b))
         /\ Len(Block(b)) < BlockSize => file \o Block(b) = Source
         /\ Len(Block(b)) >= BlockSize => /\ Len(file \o Block(b)) = b * BlockSize
                                          /\ b * BlockSize <= Len(Source)
<1> DEFINE pos == (b - 1) * BlockSize
           data == Block(b)
           new == file \o data
<1>1. /\ pos \in Nat /\ BlockSize \in Nat /\ Source \in Seq(Nat)
      /\ Len(file) = pos /\ pos <= Len(Source)
      /\ \A i \in 1 .. Len(file) : file[i] = Source[i]
  BY Numbers DEF PrefixOfSource
<1>2. data = ReadAt(Source, pos, BlockSize)
  BY DEF Block
<1>3. pos + BlockSize = b * BlockSize
  <2>1. b - 1 \in Nat /\ (b - 1) + 1 = b
    OBVIOUS
  <2> QED BY <1>1, <2>1, Distribute
<1> HIDE DEF pos, data
<1>4. /\ data \in Seq(Nat)
      /\ Len(data) = IF pos + BlockSize <= Len(Source) THEN BlockSize ELSE Len(Source) - pos
      /\ \A i \in 1 .. Len(data) : data[i] = Source[pos + i]
  BY <1>1, <1>2, ReadAtType, ZenonT(30)
<1>5. /\ new \in Seq(Nat) /\ Len(new) = pos + Len(data)
      /\ \A i \in 1 .. Len(new) : new[i] = IF i <= pos THEN file[i] ELSE data[i - pos]
  <2>1. data \in Seq(Nat) /\ Len(file) = pos
    BY <1>1, <1>4
  <2> QED BY <2>1, ConcatProperties
<1> HIDE DEF new
<1>6. /\ Len(new) <= Len(Source)
      /\ \A i \in 1 .. Len(new) : new[i] = Source[i]
  <2>1. Len(new) <= Len(Source)
    BY <1>1, <1>4, <1>5
  <2>2. ASSUME NEW i \in 1 .. Len(new) PROVE new[i] = Source[i]
    <3>1. CASE i <= pos
      <4>1. i \in 1 .. Len(file) /\ new[i] = file[i]
        BY <1>1, <1>5, <3>1, SMTT(30)
      <4> QED BY <1>1, <4>1
    <3>2. CASE i > pos
      <4>1. i - pos \in 1 .. Len(data) /\ pos + (i - pos) = i
        BY <1>1, <1>4, <1>5, <3>2
      <4>2. data[i - pos] = Source[pos + (i - pos)]
        BY <1>4, <4>1
      <4> QED BY <1>1, <1>5, <3>2, <4>1, <4>2, SMTT(30)
    <3> QED BY <1>1, <1>5, <3>1, <3>2
  <2> QED BY <2>1, <2>2
<1>7. ASSUME Len(data) < BlockSize PROVE new = Source
  <2>1. Len(new) = Len(Source)
    BY <1>1, <1>4, <1>5, <1>7
  <2> QED BY <1>1, <1>5, <1>6, <2>1, SeqEqual
<1>8. ASSUME Len(data) >= BlockSize
      PROVE  Len(new) = b * BlockSize /\ b * BlockSize <= Len(Source)
  <2>1. pos + BlockSize <= Len(Source) /\ Len(data) = BlockSize
    BY <1>1, <1>4, <1>8
  <2>2. Len(new) = pos + BlockSize
    BY <1>5, <2>1
  <2> QED BY <1>3, <2>1, <2>2
<1> QED
  BY <1>6, <1>7, <1>8 DEF PrefixOfSource, new, data

-----------------------------------------------------------------------------
(* The client. *)

(* What a packet or a timeout does to the client's session before it is handled keeps its blocks. *)
LEMMA StoresUpdates ==
  ASSUME NEW s \in ClientRecord, NEW file, Stores(s, file)
  PROVE  /\ Stores(Heard(s), file)
         /\ Stores(BackedOff(s), file)
         /\ \A t : Stores([s EXCEPT !.srcTID = t], file)
         /\ Stores([s EXCEPT !.state = "CRASHED"], file)
         /\ Stores(Failed(s), None)
         /\ Stores([Failed(s) EXCEPT !.retries = @ + 1], None)
         /\ \A p, ok : InDownload(p) => Stores(Sent(s, p, ok), file)
<1>1. Stores(Heard(s), file)
  BY DEF Stores, Heard, ClientRecord
<1>2. Stores(BackedOff(s), file)
  BY DEF Stores, BackedOff, ClientRecord
<1>3. ASSUME NEW t PROVE Stores([s EXCEPT !.srcTID = t], file)
  BY DEF Stores, ClientRecord
<1>4. Stores([s EXCEPT !.state = "CRASHED"], file)
  BY DEF Stores, ClientRecord
<1>5. Stores(Failed(s), None)
  BY DEF Stores, Failed, ClientRecord
<1>6. Stores([Failed(s) EXCEPT !.retries = @ + 1], None)
  BY DEF Stores, Failed, ClientRecord
<1>7. ASSUME NEW p, NEW ok, InDownload(p) PROVE Stores(Sent(s, p, ok), file)
  BY <1>7 DEF Stores, Sent, ClientRecord
<1> QED
  BY <1>1, <1>2, <1>3, <1>4, <1>5, <1>6, <1>7

(* What a turn of the client that sends a packet leaves behind; a failed     *)
(* session is without its file.                                              *)
LEMMA StoresSends ==
  ASSUME NEW s \in ClientRecord, NEW file,
         Stores(s, IF s.state = "ERROR" THEN None ELSE file),
         NEW p, InDownload(p), NEW rest, \A m \in rest : InDownload(m),
         ClientSends(s, p, rest, file)
  PROVE  Stores(client', local') /\ \A m \in net' : InDownload(m)
<1>1. PICK ok \in SendOutcomes : /\ ClientGoes(Sent(s, p, ok), file)
                                 /\ net' = rest \cup Transmitted(p, ok)
  BY DEF ClientSends
<1>2. Sent(s, p, ok).state = s.state
  BY DEF Sent, ClientRecord
<1>3. Stores(Sent(s, p, ok), IF s.state = "ERROR" THEN None ELSE file)
  BY StoresUpdates
<1>4. Stores(client', local')
  BY <1>1, <1>2, <1>3 DEF ClientGoes
<1> QED
  BY <1>1, <1>4 DEF Transmitted

(* The packets a client sends while it downloads.                            *)
LEMMA ClientPackets ==
  /\ \A t, b : InDownload(Ack(Client, t, b))
  /\ \A t, c : InDownload(Error(Client, t, c))
  /\ InDownload(Request("READ", Listener, NoOptions))
<1>1. /\ \A t, b : Ack(Client, t, b).src = Client /\ Ack(Client, t, b).op = "ACK"
      /\ \A t, c : Error(Client, t, c).src = Client /\ Error(Client, t, c).op = "ERROR"
      /\ LET r == Request("READ", Listener, NoOptions)
         IN r.src = Client /\ r.op = "RRQ" /\ r.opts = NoOptions
  BY DEF Ack, Error, Request
<1> QED
  BY <1>1, Ports DEF InDownload

(* What DownloadInv says of a state in which the client downloads.           *)
Downloading == TypeInv /\ DownloadInv /\ client.type = "READ"

(* A packet that the client gets while it downloads is DATA or an ERROR.     *)
LEMMA ClientHears ==
  ASSUME Downloading, NEW m \in net, m.dst = Client
  PROVE  /\ IsPacket(m) /\ m.src \in Tids /\ m.op \in {"DATA", "ERROR"} /\ InDownload(m)
         /\ \A x \in Received(m) : InDownload(x)
         /\ Heard(client) \in ClientRecord /\ Stores(Heard(client), local)
         /\ FromPeer(m) \in ClientRecord /\ Stores(FromPeer(m), local)
         /\ FromPeer(m).state = client.state
<1>1. /\ IsPacket(m) /\ m.src \in Tids /\ IsClient(Heard(client)) /\ IsClient(FromPeer(m))
  BY PeerTypes DEF Downloading
<1>2. /\ InDownload(m) /\ \A x \in Received(m) : InDownload(x)
      /\ client \in ClientRecord /\ Stores(client, local)
  BY DEF Downloading, DownloadInv, TypeInv, TypeOK, Received
<1>3. m.op \in {"DATA", "ERROR"}
  BY <1>1, <1>2 DEF InDownload
<1>4. Stores(Heard(client), local) /\ Heard(client).state = client.state
  BY <1>2, StoresUpdates DEF Heard, ClientRecord
<1>5. Heard(client) \in ClientRecord /\ FromPeer(m) \in ClientRecord
  BY <1>1 DEF IsClient
<1>6. Stores(FromPeer(m), local)
  BY <1>4, <1>5, StoresUpdates DEF FromPeer
<1>7. FromPeer(m).state = client.state
  BY <1>4, <1>5 DEF FromPeer, ClientRecord
<1> QED
  BY <1>1, <1>2, <1>3, <1>4, <1>5, <1>6, <1>7

(* The block it expects completes the file or extends it by a full block.    *)
LEMMA ClientTakesBlock ==
  ASSUME NoWrap, NEW s \in ClientRecord, NEW file \in Seq(Nat) \cup {None}, Stores(s, file),
         NEW m, IsPacket(m), InDownload(m), TakesData(s, m), file # None
  PROVE  /\ Stores(TakingBlock(s, m, "WAITING_DATA", "RRQ_END"), file \o m.data)
         /\ TakingBlock(s, m, "WAITING_DATA", "RRQ_END").state # "ERROR"
         /\ TakingBlock(s, m, "WAITING_DATA", "RRQ_END") \in ClientRecord
<1> DEFINE b == s.block
           u == TakingBlock(s, m, "WAITING_DATA", "RRQ_END")
<1>1. /\ s.state \in {"INITIAL", "WAITING_DATA"}
      /\ m.op = "DATA" /\ m.block = b /\ Len(m.data) <= s.blockSize
      /\ b >= 1 /\ b \in BlockNumber /\ s.blockSize = BlockSize
      /\ Len(file) = (b - 1) * BlockSize /\ PrefixOfSource(file)
      /\ file \in Seq(Nat) /\ s.pos \in Nat
  BY ClientFields DEF TakesData, NextExpected, Stores
<1>2. m.data = Block(b) /\ m.data \in Seq(Nat) /\ b \in Nat
  BY <1>1, PacketFields DEF InDownload, IsPacket, BlockNumber
<1>3. /\ PrefixOfSource(file \o m.data)
      /\ Len(m.data) < BlockSize => file \o m.data = Source
      /\ Len(m.data) >= BlockSize => /\ Len(file \o m.data) = b * BlockSize
                                     /\ b * BlockSize <= Len(Source)
  BY <1>1, <1>2, AppendBlock
<1>4. /\ u.state = IF Len(m.data) < BlockSize THEN "RRQ_END" ELSE "WAITING_DATA"
      /\ u.options = s.options /\ u.blockSize = s.blockSize /\ u.last = s.last
      /\ u.block = NextBlock(b)
  BY <1>1 DEF TakingBlock, ClientRecord
<1>5. u \in ClientRecord
  <2>1. NextBlock(b) \in BlockNumber /\ s.pos + Len(m.data) \in Nat
    BY <1>1, <1>2, NextBlockType
  <2>2. {"RRQ_END", "WAITING_DATA"} \subseteq SessionState
    BY DEF SessionState, Ended, Waiting
  <2> QED BY <2>1, <2>2 DEF TakingBlock, ClientRecord
<1>6. file \o m.data # None
  <2>1. file \o m.data \in Seq(Nat)
    BY <1>1, <1>2
  <2> QED BY <2>1, NoneAssumption
<1>7. CASE Len(m.data) < BlockSize
  <2>1. u.state = "RRQ_END" /\ file \o m.data = Source
    BY <1>3, <1>4, <1>7
  <2> HIDE DEF u
  <2> QED BY <1>1, <1>3, <1>4, <1>5, <1>6, <2>1 DEF Stores, u
<1>8. CASE Len(m.data) >= BlockSize
  <2>1. u.state = "WAITING_DATA"
    BY <1>2, <1>4, <1>8, Numbers
  <2> HIDE DEF b
  <2>2. NextBlock(b) = b + 1
    <3>1. b * BlockSize <= Len(Source)
      BY <1>3, <1>8
    <3> QED BY <1>1, <3>1, NextIsSuccessor
  <2>3. (b + 1) - 1 = b /\ b + 1 >= 1
    BY <1>2
  <2>4. Len(file \o m.data) = (u.block - 1) * BlockSize
    BY <1>3, <1>4, <1>8, <2>2, <2>3
  <2> HIDE DEF u
  <2>5. Stores(u, file \o m.data)
    BY <1>1, <1>3, <1>4, <1>5, <1>6, <2>1, <2>2, <2>3, <2>4 DEF Stores
  <2> QED BY <1>5, <2>1, <2>5 DEF u
<1> QED
  BY <1>2, <1>7, <1>8, Numbers

(* A client never changes between download and upload. *)
LEMMA ClientKeepsType ==
  ASSUME TypeInv,
         ClientStart \/ ClientReceives \/ ClientTimesOut \/ ClientInterrupted
  PROVE  client'.type = client.type
<1> DEFINE Same(u) == u.type = client.type /\ DOMAIN u = DOMAIN client
<1>1. /\ client \in ClientRecord
      /\ DOMAIN client = {"state", "type", "options", "block", "blockSize", "pos",
                          "initialTimeout", "timeout", "retries", "srcTID", "last"}
  BY DEF TypeInv, TypeOK, ClientRecord
<1>2. ASSUME NEW u, Same(u), NEW file, ClientGoes(u, file)
      PROVE  client'.type = client.type
  BY <1>2 DEF ClientGoes
<1>3. ASSUME NEW u, Same(u), NEW p, NEW rest, NEW file, ClientSends(u, p, rest, file)
      PROVE  client'.type = client.type
  <2>1. \A ok : Same(Sent(u, p, ok))
    BY <1>1, <1>3 DEF Sent
  <2> HIDE DEF Same
  <2> QED BY <1>2, <1>3, <2>1 DEF ClientSends
<1>4. \A u : Same(u) => /\ Same(Failed(u)) /\ Same(Heard(u)) /\ Same(BackedOff(u))
                        /\ \A x : Same([u EXCEPT !.state = x])
  BY <1>1 DEF Failed, Heard, BackedOff
<1>5. Same(client) /\ \A m : Same(FromPeer(m))
  BY <1>1 DEF FromPeer, Heard
<1>6. \A u, m, more, end : Same(u) => Same(TakingBlock(u, m, more, end))
  BY <1>1 DEF TakingBlock
<1>7. \A u, b, d : Same(u) => Same(SendingBlock(u, b, d))
  BY <1>1 DEF SendingBlock
<1>8. \A u, o : Same(u) => Same(WithOptions(u, o))
  BY <1>1 DEF WithOptions
<1> HIDE DEF Same
<1>9. CASE ClientStart
  <2> DEFINE s == [client EXCEPT
                     !.state = IF client.options = NoOptions THEN "INITIAL"
                                                             ELSE "WAITING_OACK",
                     !.block = IF client.type = "READ" THEN 1 ELSE 0]
  <2>1. Same(s)
    BY <1>1 DEF Same
  <2>2. \E p, file : ClientSends(s, p, net, file) \/ ClientSends(Failed(client), p, net, None)
    BY <1>9 DEF ClientStart
  <2> QED BY <1>3, <1>4, <1>5, <2>1, <2>2
<1>10. CASE UnknownTidAtClient
  BY <1>3, <1>4, <1>5, <1>10 DEF UnknownTidAtClient
<1>11. CASE DataAtClient
  <2>1. PICK m \in net : \E p, file :
          \/ ClientSends(TakingBlock(FromPeer(m), m, "WAITING_DATA", "RRQ_END"), p, Received(m), file)
          \/ ClientSends(Failed(FromPeer(m)), p, Received(m), file)
    BY <1>11 DEF DataAtClient
  <2> QED BY <1>3, <1>4, <1>5, <1>6, <2>1
<1>12. CASE AckAtClient
  <2>1. PICK m \in net :
          \/ \E b : ClientSendsBlock(FromPeer(m), m, b)
          \/ ClientGoes([FromPeer(m) EXCEPT !.state = "WRQ_END"], local)
    BY <1>12 DEF AckAtClient
  <2>2. CASE \E b : ClientSendsBlock(FromPeer(m), m, b)
    BY <1>3, <1>5, <1>7, <2>2 DEF ClientSendsBlock
  <2>3. CASE ClientGoes([FromPeer(m) EXCEPT !.state = "WRQ_END"], local)
    BY <1>2, <1>4, <1>5, <2>3
  <2> QED BY <2>1, <2>2, <2>3
<1>13. CASE OackAtClient
  <2>1. PICK m \in net :
          LET s == WithOptions(FromPeer(m), m.opts)
          IN \E p, rest :
               \/ ClientSends([s EXCEPT !.state = "WAITING_DATA"], p, rest, local)
               \/ ClientSends(Failed(s), p, rest, local)
               \/ \E b, data : ClientSends(SendingBlock(s, b, data), p, rest, local)
    BY <1>13 DEF OackAtClient
  <2>2. Same(WithOptions(FromPeer(m), m.opts))
    BY <1>5, <1>8
  <2> QED BY <1>3, <1>4, <1>7, <2>1, <2>2
<1>14. CASE ErrorAtClient
  <2>1. PICK m \in net :
          \/ \E q, x, p : ClientSends([FromPeer(m) EXCEPT !.last = q, !.srcTID = None, !.state = x],
                                      p, Received(m), local)
          \/ ClientGoes(Failed(FromPeer(m)), local)
    BY <1>14 DEF ErrorAtClient
  <2>2. \A q, x : Same([FromPeer(m) EXCEPT !.last = q, !.srcTID = None, !.state = x])
    BY <1>1, <1>5 DEF Same
  <2> QED BY <1>2, <1>3, <1>4, <1>5, <2>1, <2>2
<1>15. CASE IllegalAtClient
  <2>1. PICK m \in net : \E p : ClientSends(Failed(FromPeer(m)), p, Received(m), local)
    BY <1>15 DEF IllegalAtClient
  <2> QED BY <1>3, <1>4, <1>5, <2>1
<1>16. CASE ClientTimesOut \/ ClientInterrupted
  <2>1. Same([Failed(client) EXCEPT !.retries = @ + 1])
    BY <1>1 DEF Same, Failed
  <2> QED BY <1>2, <1>3, <1>4, <1>5, <1>16, <2>1
          DEF ClientTimesOut, ClientInterrupted, ClientGivesUp, ClientRetransmits, ClientCrashes
<1> QED
  BY <1>9, <1>10, <1>11, <1>12, <1>13, <1>14, <1>15, <1>16 DEF ClientReceives

(* Every step of the client keeps its blocks in place and in order.          *)
LEMMA ClientDownloads ==
  ASSUME Downloading, NoWrap,
         ClientStart \/ ClientReceives \/ ClientTimesOut \/ ClientInterrupted,
         UNCHANGED serverVars
  PROVE  DownloadInv'
<1>0. /\ client \in ClientRecord /\ Stores(client, local) /\ client.type = "READ"
      /\ local \in Seq(Nat) \cup {None}
      /\ \A m \in net : InDownload(m)
      /\ "ERROR" \in SessionState
  BY DEF Downloading, DownloadInv, TypeInv, TypeOK, SessionState, Ended
<1> SUFFICES Stores(client', local') /\ \A m \in net' : InDownload(m)
  BY DEF Downloading, DownloadInv, serverVars
<1>1. CASE ClientStart
  <2> DEFINE s == [client EXCEPT
                     !.state = IF client.options = NoOptions THEN "INITIAL"
                                                             ELSE "WAITING_OACK",
                     !.block = IF client.type = "READ" THEN 1 ELSE 0]
             p == Request(client.type, Listener, client.options)
  <2>1. client.options = NoOptions /\ InDownload(p)
    BY <1>0, ClientPackets DEF Stores
  <2>2. /\ s.state = "INITIAL" /\ s.block = 1 /\ s.options = NoOptions
        /\ s.blockSize = BlockSize /\ s.type = "READ" /\ s.last = client.last
    BY <1>0, <2>1 DEF Stores, ClientRecord
  <2>3. s \in ClientRecord
    BY <1>0, <2>1, Numbers DEF ClientRecord, SessionState, Waiting
  <2>4. /\ PrefixOfSource(<<>>) /\ Len(<<>>) = (1 - 1) * BlockSize
        /\ <<>> \in Seq(Nat) /\ <<>> # None
    <3>1. <<>> \in Seq(Nat) /\ Len(<<>>) = 0 /\ 1 .. 0 = {} /\ Len(Source) \in Nat
      BY Numbers
    <3>2. (1 - 1) * BlockSize = 0
      BY Numbers
    <3>3. <<>> # None
      BY <3>1, NoneAssumption
    <3>4. PrefixOfSource(<<>>)
      BY <3>1 DEF PrefixOfSource
    <3> QED BY <3>1, <3>2, <3>3, <3>4
  <2>5. \/ ClientSends(s, p, net, <<>>)
        \/ ClientSends(Failed(client), p, net, None)
    BY <1>1, <2>2 DEF ClientStart
  <2> HIDE DEF s, p
  <2>6. Stores(s, <<>>)
    BY <1>0, <2>2, <2>4 DEF Stores
  <2>7. Stores(Failed(client), None) /\ Failed(client) \in ClientRecord
    BY <1>0, StoresUpdates DEF Failed, ClientRecord
  <2>8. CASE ClientSends(s, p, net, <<>>)
    BY <1>0, <2>1, <2>2, <2>3, <2>6, <2>8, StoresSends
  <2>9. CASE ClientSends(Failed(client), p, net, None)
    BY <1>0, <2>1, <2>7, <2>9, StoresSends
  <2> QED BY <2>5, <2>8, <2>9
<1>2. CASE UnknownTidAtClient
  <2>1. PICK m \in net : /\ m.dst = Client /\ client.state \in Waiting
                         /\ ClientSends(Heard(client), Error(Client, m.src, "UNKNOWN_TID"),
                                        Received(m), local)
    BY <1>2 DEF UnknownTidAtClient
  <2>2. /\ Heard(client) \in ClientRecord /\ Stores(Heard(client), local)
        /\ \A x \in Received(m) : InDownload(x)
    BY <2>1, ClientHears
  <2>3. Heard(client).state # "ERROR"
    BY <1>0, <2>1 DEF Heard, ClientRecord, Waiting
  <2> QED BY <2>1, <2>2, <2>3, ClientPackets, StoresSends
<1>3. CASE DataAtClient
  <2>1. PICK m \in net :
          /\ AtClient(m)
          /\ TakesData(FromPeer(m), m)
          /\ \/ /\ local # None
                /\ ClientSends(TakingBlock(FromPeer(m), m, "WAITING_DATA", "RRQ_END"),
                               Ack(Client, m.src, FromPeer(m).block),
                               Received(m), local \o m.data)
             \/ ClientSends(Failed(FromPeer(m)), Error(Client, m.src, "DISK_FULL"),
                            Received(m), local)
    BY <1>3 DEF DataAtClient
  <2> DEFINE s == FromPeer(m)
             u == TakingBlock(s, m, "WAITING_DATA", "RRQ_END")
  <2>2. /\ IsPacket(m) /\ InDownload(m) /\ \A x \in Received(m) : InDownload(x)
        /\ s \in ClientRecord /\ Stores(s, local)
    BY <2>1, ClientHears DEF AtClient
  <2>3. CASE local # None /\ ClientSends(u, Ack(Client, m.src, s.block), Received(m),
                                         local \o m.data)
    <3>1. Stores(u, local \o m.data) /\ u.state # "ERROR" /\ u \in ClientRecord
      BY <1>0, <2>1, <2>2, <2>3, ClientTakesBlock
    <3> HIDE DEF u, s
    <3> QED BY <2>2, <2>3, <3>1, ClientPackets, StoresSends
  <2>4. CASE ClientSends(Failed(s), Error(Client, m.src, "DISK_FULL"), Received(m), local)
    <3> HIDE DEF s
    <3>1. Stores(Failed(s), None) /\ Failed(s) \in ClientRecord /\ Failed(s).state = "ERROR"
      BY <1>0, <2>2, StoresUpdates DEF Failed, ClientRecord
    <3> QED BY <2>2, <2>4, <3>1, ClientPackets, StoresSends
  <2> QED BY <2>1, <2>3, <2>4
<1>4. CASE AckAtClient \/ OackAtClient
  <2>1. PICK m \in net : m.dst = Client /\ m.op \in {"ACK", "OACK"}
    BY <1>4 DEF AckAtClient, OackAtClient, AtClient, SendsBlock, LastAck, TakesOack
  <2> QED BY <2>1, ClientHears
<1>5. CASE ErrorAtClient
  <2>1. PICK m \in net :
          /\ AtClient(m)
          /\ FromPeer(m).state # "WAITING_OACK" => /\ ClientGoes(Failed(FromPeer(m)), local)
                                                   /\ net' = Received(m)
    BY <1>5 DEF ErrorAtClient
  <2>2. /\ FromPeer(m) \in ClientRecord /\ Stores(FromPeer(m), local)
        /\ \A x \in Received(m) : InDownload(x)
    BY <2>1, ClientHears DEF AtClient
  <2>3. FromPeer(m).state # "WAITING_OACK"
    BY <2>2 DEF Stores
  <2>4. Stores(Failed(FromPeer(m)), None) /\ Failed(FromPeer(m)).state = "ERROR"
    BY <2>2, StoresUpdates DEF Failed, ClientRecord
  <2> QED BY <2>1, <2>2, <2>3, <2>4 DEF ClientGoes
<1>6. CASE IllegalAtClient
  <2>1. PICK m \in net :
          /\ AtClient(m)
          /\ ClientSends(Failed(FromPeer(m)), Error(Client, m.src, "ILLEGAL_OPERATION"),
                         Received(m), local)
    BY <1>6 DEF IllegalAtClient
  <2>2. /\ FromPeer(m) \in ClientRecord /\ Stores(FromPeer(m), local)
        /\ \A x \in Received(m) : InDownload(x)
    BY <2>1, ClientHears DEF AtClient
  <2>3. /\ Stores(Failed(FromPeer(m)), None) /\ Failed(FromPeer(m)).state = "ERROR"
        /\ Failed(FromPeer(m)) \in ClientRecord
    BY <1>0, <2>2, StoresUpdates DEF Failed, ClientRecord
  <2> QED BY <2>1, <2>2, <2>3, ClientPackets, StoresSends
<1>7. CASE ClientRetransmits
  <2>1. /\ ClientSends(BackedOff(client), client.last, net, local)
        /\ client.last # None /\ client.state \in Waiting
    BY <1>7 DEF ClientRetransmits
  <2>2. InDownload(client.last) /\ Stores(BackedOff(client), local)
    BY <1>0, <2>1, StoresUpdates DEF Stores
  <2>3. IsClient(BackedOff(client)) /\ BackedOff(client).state = client.state
    BY <1>0, TypeParts, ClientUpdates DEF Downloading, BackedOff, ClientRecord
  <2> QED BY <1>0, <2>1, <2>2, <2>3, StoresSends DEF IsClient, Waiting
<1>8. CASE ClientGivesUp \/ ClientCrashes \/ ClientInterrupted
  <2>1. /\ net' = net
        /\ \/ ClientGoes([Failed(client) EXCEPT !.retries = @ + 1], local)
           \/ ClientGoes([client EXCEPT !.state = "CRASHED"], local)
           \/ ClientGoes(Failed(client), local)
    BY <1>8 DEF ClientGivesUp, ClientCrashes, ClientInterrupted, netVars
  <2>2. /\ Failed(client).state = "ERROR"
        /\ [Failed(client) EXCEPT !.retries = @ + 1].state = "ERROR"
        /\ [client EXCEPT !.state = "CRASHED"].state = "CRASHED"
    BY <1>0 DEF Failed, ClientRecord
  <2> QED BY <1>0, <2>1, <2>2, StoresUpdates DEF ClientGoes
<1> QED
  BY <1>1, <1>2, <1>3, <1>4, <1>5, <1>6, <1>7, <1>8 DEF ClientReceives, ClientTimesOut

-----------------------------------------------------------------------------
(* The sessions of the server. *)

(* The same for a session of the server. *)
LEMMA ServesUpdates ==
  ASSUME NEW s \in SessionRecord, Serves(s), s.state \notin {"FREE", "REFUSED"}
  PROVE  /\ s.type = "READ"
         /\ \A p, ok : InDownload(p) => Serves(Sent(s, p, ok))
         /\ \A x \in {"ERROR", "RRQ_END", "THROWN", "CRASHED"} : Serves([s EXCEPT !.state = x])
         /\ \A b : Serves([s EXCEPT !.block = b, !.state = "THROWN"])
         /\ Serves([Failed(s) EXCEPT !.retries = @ + 1])
         /\ s.state # "INITIAL" => Serves(BackedOff(s))
         /\ \A d : LET h == [Heard(s) EXCEPT !.dst = d]
                   IN Serves(h) /\ h.state = s.state
<1>1. s.type = "READ"
  BY DEF Serves
<1>2. ASSUME NEW p, NEW ok, InDownload(p) PROVE Serves(Sent(s, p, ok))
  BY <1>2 DEF Serves, Sent, SessionRecord
<1>3. ASSUME NEW x \in {"ERROR", "RRQ_END", "THROWN", "CRASHED"}
      PROVE  Serves([s EXCEPT !.state = x])
  BY DEF Serves, SessionRecord
<1>4. ASSUME NEW b PROVE Serves([s EXCEPT !.block = b, !.state = "THROWN"])
  BY DEF Serves, SessionRecord
<1>5. Serves([Failed(s) EXCEPT !.retries = @ + 1])
  BY DEF Serves, Failed, SessionRecord
<1>6. s.state # "INITIAL" => Serves(BackedOff(s))
  BY DEF Serves, BackedOff, SessionRecord
<1>7. ASSUME NEW d
      PROVE  LET h == [Heard(s) EXCEPT !.dst = d]
             IN Serves(h) /\ h.state = s.state
  BY DEF Serves, Heard, SessionRecord
<1> QED
  BY <1>1, <1>2, <1>3, <1>4, <1>5, <1>6, <1>7

(* The end of a turn keeps the blocks of a session, told to stop or not. *)
LEMMA ServesSettle ==
  ASSUME Downloading, NEW t \in Tids,
         NEW s \in SessionRecord, Serves(s), s.state \notin {"FREE", "REFUSED"},
         NEW packets, \A m \in packets : InDownload(m),
         Settle(t, s, packets, dir)
  PROVE  /\ \A u \in Tids : Serves(server'[u])
         /\ dir' = dir
         /\ \A m \in net' : InDownload(m)
<1>0. server \in [Tids -> SessionRecord] /\ \A u \in Tids : Serves(server[u])
  BY DEF Downloading, TypeInv, TypeOK, DownloadInv
<1>1. /\ s.type = "READ" /\ Serves(Failed(s)) /\ Failed(s).type = "READ"
  BY ServesUpdates DEF Failed, SessionRecord
<1>2. \A c : InDownload(Error(t, s.dst, c))
  BY Ports DEF InDownload, Error
<1>3. NameAfter(s, dir) = dir /\ NameAfter(Failed(s), dir) = dir
  BY <1>1 DEF NameAfter
<1> QED
  BY <1>0, <1>1, <1>2, <1>3 DEF Settle, Transmitted

(* So does a turn that sends a packet of a download. *)
LEMMA ServesSends ==
  ASSUME Downloading, NEW t \in Tids,
         NEW s \in SessionRecord, Serves(s), s.state \notin {"FREE", "REFUSED"},
         NEW p, IsPacket(p), InDownload(p),
         NEW rest, \A m \in rest : InDownload(m),
         SessionSends(t, s, p, rest, dir)
  PROVE  /\ \A u \in Tids : Serves(server'[u])
         /\ dir' = dir
         /\ \A m \in net' : InDownload(m)
<1>1. PICK ok \in SendOutcomes :
        Settle(t, Sent(s, p, ok), rest \cup Transmitted(p, ok), dir)
  BY DEF SessionSends
<1>2. Serves(Sent(s, p, ok))
  BY ServesUpdates
<1>3. Sent(s, p, ok) \in SessionRecord /\ Sent(s, p, ok).state = s.state
  BY DEF Sent, SessionRecord, IsPacket
<1>4. \A m \in rest \cup Transmitted(p, ok) : InDownload(m)
  BY DEF Transmitted
<1> QED
  BY <1>1, <1>2, <1>3, <1>4, ServesSettle

(* The packets a session sends while it serves a download.                   *)
LEMMA SessionPackets ==
  ASSUME NEW t \in Tids
  PROVE  /\ \A d, c : InDownload(Error(t, d, c))
         /\ \A d : \A b \in Nat : b >= 1 => InDownload(Data(t, d, b, Block(b)))
<1>1. /\ \A d, c : Error(t, d, c).src = t /\ Error(t, d, c).op = "ERROR"
      /\ \A d, b, x : LET m == Data(t, d, b, x)
                      IN m.src = t /\ m.op = "DATA" /\ m.block = b /\ m.data = x
  BY DEF Error, Data
<1> QED
  BY <1>1, Ports DEF InDownload

(* A session that sends a block keeps its type and its options. *)
LEMMA SendingType ==
  ASSUME NEW s \in SessionRecord, NEW b \in BlockNumber, NEW d \in Seq(Nat)
  PROVE  SendingBlock(s, b, d) \in SessionRecord
<1>1. s.pos + Len(d) \in Nat
  BY SessionFields
<1>2. "WAITING_LAST_ACK" \in SessionState /\ "WAITING_ACK" \in SessionState
  BY DEF SessionState, Waiting
<1> QED
  BY <1>1, <1>2 DEF SendingBlock, SessionRecord

(* A session that has sent the blocks up to b, all full, sends the next one. *)
LEMMA ServesBlock ==
  ASSUME NEW s \in SessionRecord, Serves(s), s.state \in {"INITIAL", "WAITING_ACK"},
         s.pos = s.block * BlockSize, s.pos <= Len(Source),
         NEW b \in BlockNumber, b = s.block + 1
  PROVE  LET data == ReadAt(Source, s.pos, s.blockSize)
         IN /\ data = Block(b) /\ data \in Seq(Nat)
            /\ Serves(SendingBlock(s, b, data))
            /\ SendingBlock(s, b, data) \in SessionRecord
            /\ SendingBlock(s, b, data).state \in {"WAITING_ACK", "WAITING_LAST_ACK"}
<1> DEFINE data == ReadAt(Source, s.pos, s.blockSize)
           u == SendingBlock(s, b, data)
<1>1. /\ s.blockSize = BlockSize /\ BlockSize \in Nat /\ Source \in Seq(Nat)
      /\ s.pos \in Nat /\ s.block \in Nat /\ b \in Nat /\ b >= 1
  <2>1. s.block \in BlockNumber /\ s.pos \in Nat
    BY SessionFields
  <2>2. s.blockSize = BlockSize
    BY DEF Serves
  <2>3. s.block \in Nat /\ b \in Nat
    BY <2>1 DEF BlockNumber
  <2>4. b >= 1
    BY <2>3
  <2> QED BY <2>1, <2>2, <2>3, <2>4, Numbers
<1>2. data = Block(b)
  <2>1. b - 1 = s.block
    BY <1>1
  <2> QED BY <1>1, <2>1 DEF Block
<1>3. /\ data \in Seq(Nat)
      /\ Len(data) = IF s.pos + BlockSize <= Len(Source) THEN BlockSize ELSE Len(Source) - s.pos
  BY <1>1, ReadAtType
<1> HIDE DEF data
<1>4. /\ u.state = IF Len(data) < BlockSize THEN "WAITING_LAST_ACK" ELSE "WAITING_ACK"
      /\ u.type = s.type /\ u.options = s.options /\ u.blockSize = s.blockSize
      /\ u.last = s.last /\ u.ino = s.ino /\ u.block = b /\ u.pos = s.pos + Len(data)
  BY <1>1 DEF SendingBlock, SessionRecord
<1>5. u \in SessionRecord
  BY <1>3, SendingType
<1>6. u.state = "WAITING_ACK" => u.pos = u.block * BlockSize /\ u.pos <= Len(Source)
  <2>1. (s.block + 1) * BlockSize = s.block * BlockSize + BlockSize
    BY <1>1, Distribute
  <2>2. Len(data) >= BlockSize => Len(data) = BlockSize /\ s.pos + BlockSize <= Len(Source)
    BY <1>1, <1>3
  <2>3. Len(data) \in Nat
    BY <1>3
  <2> QED BY <1>1, <1>4, <2>1, <2>2, <2>3, SMTT(30)
<1> HIDE DEF u
<1>7. Serves(u)
  BY <1>4, <1>6 DEF Serves
<1> QED
  BY <1>2, <1>3, <1>4, <1>5, <1>7 DEF u, data

(* A session that waits while it serves a download waits for an ACK, has the *)
(* source open and no options that could come into effect; nothing that is   *)
(* sent to it is DATA.                                                       *)
LEMMA SessionHears ==
  ASSUME Downloading, NEW t \in Tids, NEW m \in net, AtSession(t, m),
         NEW s, s = FromSender(t, m) \/ s = Negotiated(FromSender(t, m), m)
  PROVE  /\ s \in SessionRecord /\ Serves(s) /\ s.ino = Old
         /\ s.state \in {"WAITING_ACK", "WAITING_LAST_ACK"}
         /\ m.op # "DATA" /\ m.src \in {Client} \cup Strangers /\ s.dst = m.src
         /\ \A x \in Received(m) : InDownload(x)
<1> DEFINE f == FromSender(t, m)
<1>1. /\ IsPacket(m) /\ m.src \in {Client} \cup Strangers
      /\ IsSession(s) /\ s.dst = m.src /\ s.ino # None
  BY SenderTypes DEF Downloading
<1>2. /\ InDownload(m) /\ \A x \in Received(m) : InDownload(x)
      /\ server[t] \in SessionRecord /\ Serves(server[t])
  BY DEF Downloading, DownloadInv, TypeInv, TypeOK, Received
<1>3. server[t].state \in {"WAITING_ACK", "WAITING_LAST_ACK"}
  BY <1>2 DEF AtSession, SessionWaits, Serves, Waiting
<1>4. Serves(f) /\ f.state = server[t].state
  BY <1>2, <1>3, ServesUpdates DEF FromSender
<1>5. s = f
  BY <1>3, <1>4 DEF Negotiated
<1>6. m.op # "DATA"
  BY <1>1, <1>2, Ports DEF InDownload
<1> HIDE DEF f
<1>7. s.ino = Old
  BY <1>1, <1>3, <1>4, <1>5 DEF Serves
<1> QED
  BY <1>1, <1>2, <1>3, <1>4, <1>5, <1>6, <1>7 DEF IsSession

(* Every step of a session keeps the blocks it has sent in order.            *)
LEMMA SessionDownloads ==
  ASSUME Downloading, NoWrap, NEW t \in Tids,
         \/ Dispatch(t) \/ SessionStarts(t) \/ SessionReceives(t) \/ SessionTimesOut(t)
         \/ SessionInterrupted(t),
         UNCHANGED clientVars
  PROVE  DownloadInv'
<1>0. /\ server \in [Tids -> SessionRecord] /\ \A u \in Tids : Serves(server[u])
      /\ inode[Old] = Source /\ dir \in {None, Old}
      /\ \A m \in net : IsPacket(m) /\ InDownload(m)
  BY TypeParts DEF Downloading, DownloadInv, TypeInv, TypeOK
<1> SUFFICES /\ \A u \in Tids : Serves(server'[u])
             /\ dir' = dir /\ inode' = inode
             /\ \A m \in net' : InDownload(m)
  BY <1>0 DEF Downloading, DownloadInv, clientVars
<1> USE DEF ErrorCode
<1>1. CASE Dispatch(t)
  <2>1. PICK m \in net :
          /\ m.dst = Listener /\ m.op \in {"RRQ", "WRQ"}
          /\ \/ /\ server' = [server EXCEPT ![t] =
                     Session("INITIAL", IF m.op = "RRQ" THEN "READ" ELSE "WRITE", m.opts, m.src)]
                /\ net' = Received(m)
             \/ /\ server' = [server EXCEPT ![t].state = "REFUSED"]
                /\ \/ net' = Received(m)
                   \/ \E c : \E ok \in SendOutcomes :
                        net' = Received(m) \cup Transmitted(Error(t, m.src, c), ok)
          /\ UNCHANGED <<dir, inode>>
    BY <1>1 DEF Dispatch
  <2>2. m.src = Client /\ m.op = "RRQ" /\ m.opts = NoOptions
    BY <1>0, <2>1, Ports DEF IsPacket, Routed, InDownload
  <2>3. Serves(Session("INITIAL", "READ", NoOptions, Client))
    BY DEF Serves, Session
  <2>4. Serves([server[t] EXCEPT !.state = "REFUSED"])
    BY <1>0 DEF Serves, SessionRecord
  <2>5. \A u \in Tids : Serves(server'[u])
    BY <1>0, <2>1, <2>2, <2>3, <2>4
  <2>6. \A x \in net' : InDownload(x)
    BY <1>0, <2>1, SessionPackets DEF Received, Transmitted
  <2> QED BY <2>1, <2>5, <2>6
<1>2. CASE StartWrite(t)
  BY <1>0, <1>2 DEF StartWrite, Serves
<1>3. CASE StartRead(t)
  <2> DEFINE s    == [server[t] EXCEPT !.ino = dir, !.options = NoOptions]
             data == ReadAt(Source, 0, s.blockSize)
  <2>1. /\ server[t] \in SessionRecord /\ Serves(server[t])
        /\ server[t].state = "INITIAL" /\ server[t].options = NoOptions
        /\ IsSession(server[t])
    BY <1>0, <1>3, TypeParts DEF StartRead, Serves, Downloading
  <2>2. ~Has(server[t].options, "tsize")
    BY <2>1 DEF Has, NoOptions, OptionName
  <2>3. /\ UNCHANGED inode
        /\ \/ /\ dir # None
              /\ \/ SessionSends(t, SendingBlock(s, 1, data),
                                 Data(t, s.dst, 1, data), net, dir)
                 \/ SessionSends(t, Failed(s), Error(t, s.dst, "DISK_FULL"), net, dir)
           \/ SessionSends(t, Failed(server[t]),
                           Error(t, server[t].dst, "ACCESS_VIOLATION"), net, dir)
    BY <1>0, <1>3, <2>1, <2>2 DEF StartRead
  <2>4. s \in SessionRecord /\ s.state = "INITIAL" /\ s.dst = server[t].dst
    <3>1. NoOptions \in Options
      BY DEF NoOptions, Options
    <3> QED BY <1>0, <2>1, <3>1 DEF SessionRecord
  <2>5. Serves(s) /\ s.block = 0 /\ s.pos = 0
    BY <1>0, <2>1 DEF Serves, SessionRecord
  <2>6. s.dst \in {Client} \cup Strangers
    BY <2>1, <2>4, SessionFields DEF IsSession
  <2> HIDE DEF s
  <2>7. /\ data = Block(1) /\ data \in Seq(Nat)
        /\ Serves(SendingBlock(s, 1, data)) /\ SendingBlock(s, 1, data) \in SessionRecord
        /\ SendingBlock(s, 1, data).state \in {"WAITING_ACK", "WAITING_LAST_ACK"}
    <3>1. s.pos = s.block * BlockSize /\ s.pos <= Len(Source)
      BY <2>5, Numbers
    <3> QED BY <2>4, <2>5, <3>1, ServesBlock, Numbers
  <2> HIDE DEF data
  <2>8. /\ InDownload(Data(t, s.dst, 1, data)) /\ IsPacket(Data(t, s.dst, 1, data))
        /\ \A d, c : InDownload(Error(t, d, c))
        /\ \A d \in {Client} \cup Strangers, c \in ErrorCode : IsPacket(Error(t, d, c))
    <3>1. InDownload(Data(t, s.dst, 1, data))
      BY <2>7, SessionPackets
    <3>2. IsPacket(Data(t, s.dst, 1, data))
      BY <2>6, <2>7, FromServer, Numbers
    <3> QED BY <3>1, <3>2, SessionPackets, FromServer
  <2>9. ASSUME NEW u \in {s, server[t]}
        PROVE  /\ Serves(Failed(u)) /\ Failed(u) \in SessionRecord
               /\ Failed(u).state = "ERROR"
    BY <2>1, <2>4, <2>5, ServesUpdates DEF Failed, SessionRecord, SessionState, Ended
  <2>10. CASE SessionSends(t, SendingBlock(s, 1, data), Data(t, s.dst, 1, data), net, dir)
    BY <1>0, <2>3, <2>7, <2>8, <2>10, ServesSends
  <2>11. ASSUME NEW u \in {s, server[t]}, NEW c \in ErrorCode,
                SessionSends(t, Failed(u), Error(t, u.dst, c), net, dir)
         PROVE  /\ \A v \in Tids : Serves(server'[v])
                /\ dir' = dir
                /\ \A m \in net' : InDownload(m)
    <3>1. IsPacket(Error(t, u.dst, c)) /\ InDownload(Error(t, u.dst, c))
      BY <2>4, <2>6, <2>8
    <3> QED BY <1>0, <2>9, <2>11, <3>1, ServesSends
  <2> QED BY <2>3, <2>10, <2>11
<1>4. CASE DataAtServer(t)
  <2>1. PICK m \in net : AtSession(t, m) /\ m.op = "DATA"
    BY <1>4 DEF DataAtServer, StoresData
  <2> QED BY <2>1, SessionHears
<1>5. CASE AckAtServer(t)
  <2>1. PICK m \in net :
          /\ AtSession(t, m)
          /\ LET s    == Negotiated(FromSender(t, m), m)
                 b    == NextBlock(s.block)
                 data == IF s.type = "READ" THEN ReadAt(inode[s.ino], s.pos, s.blockSize)
                                            ELSE <<>>
             IN \/ /\ ReadsBlock(s, m)
                   /\ SessionSends(t, SendingBlock(s, b, data), Data(t, s.dst, b, data),
                                   Received(m), dir)
                \/ Settle(t, [s EXCEPT !.block = b, !.state = "THROWN"], Received(m), dir)
                \/ Settle(t, [s EXCEPT !.state = "RRQ_END"], Received(m), dir)
          /\ UNCHANGED inode
    BY <1>5 DEF AckAtServer
  <2> DEFINE s    == Negotiated(FromSender(t, m), m)
             b    == NextBlock(s.block)
             data == ReadAt(Source, s.pos, s.blockSize)
  <2>2. /\ s \in SessionRecord /\ Serves(s) /\ s.ino = Old /\ s.type = "READ"
        /\ s.state \in {"WAITING_ACK", "WAITING_LAST_ACK"}
        /\ s.dst \in {Client} \cup Strangers
        /\ \A x \in Received(m) : InDownload(x)
    BY <2>1, SessionHears DEF Serves
  <2>3. \/ /\ s.state = "WAITING_ACK"
           /\ SessionSends(t, SendingBlock(s, b, data), Data(t, s.dst, b, data),
                           Received(m), dir)
        \/ Settle(t, [s EXCEPT !.block = b, !.state = "THROWN"], Received(m), dir)
        \/ Settle(t, [s EXCEPT !.state = "RRQ_END"], Received(m), dir)
    BY <1>0, <2>1, <2>2 DEF ReadsBlock
  <2> HIDE DEF s
  <2>4. b \in BlockNumber
    BY <2>2, SessionFields, NextBlockType
  <2>5. CASE /\ s.state = "WAITING_ACK"
             /\ SessionSends(t, SendingBlock(s, b, data), Data(t, s.dst, b, data),
                             Received(m), dir)
    <3>1. s.pos = s.block * BlockSize /\ s.pos <= Len(Source) /\ s.block \in BlockNumber
      BY <2>2, <2>5, SessionFields DEF Serves
    <3>2. b = s.block + 1 /\ b \in Nat /\ b >= 1
      <4>1. b = s.block + 1
        BY <3>1, NextIsSuccessor
      <4> QED BY <3>1, <4>1 DEF BlockNumber
    <3>3. /\ data = Block(b) /\ data \in Seq(Nat)
          /\ Serves(SendingBlock(s, b, data)) /\ SendingBlock(s, b, data) \in SessionRecord
          /\ SendingBlock(s, b, data).state \in {"WAITING_ACK", "WAITING_LAST_ACK"}
      <4> HIDE DEF b
      <4> QED BY <2>2, <2>4, <2>5, <3>1, <3>2, ServesBlock
    <3> HIDE DEF b, data
    <3>4. IsPacket(Data(t, s.dst, b, data)) /\ InDownload(Data(t, s.dst, b, data))
      BY <2>2, <2>4, <3>2, <3>3, FromServer, SessionPackets
    <3> QED BY <2>1, <2>2, <2>5, <3>3, <3>4, ServesSends
  <2>6. CASE Settle(t, [s EXCEPT !.block = b, !.state = "THROWN"], Received(m), dir)
    <3> DEFINE u == [s EXCEPT !.block = b, !.state = "THROWN"]
    <3> HIDE DEF b
    <3>1. Serves(u) /\ u \in SessionRecord /\ u.state = "THROWN"
      BY <2>2, <2>4, ServesUpdates DEF SessionRecord, SessionState
    <3> HIDE DEF u
    <3>2. Settle(t, u, Received(m), dir)
      BY <2>6 DEF u
    <3> QED BY <2>1, <2>2, <3>1, <3>2, ServesSettle
  <2>7. CASE Settle(t, [s EXCEPT !.state = "RRQ_END"], Received(m), dir)
    <3> DEFINE u == [s EXCEPT !.state = "RRQ_END"]
    <3>1. Serves(u) /\ u \in SessionRecord /\ u.state = "RRQ_END"
      BY <2>2, ServesUpdates DEF SessionRecord, SessionState, Ended
    <3> HIDE DEF u
    <3>2. Settle(t, u, Received(m), dir)
      BY <2>7 DEF u
    <3> QED BY <2>1, <2>2, <3>1, <3>2, ServesSettle
  <2> QED BY <2>3, <2>5, <2>6, <2>7
<1>6. CASE UnknownTidAtServer(t) \/ ErrorAtServer(t) \/ IllegalAtServer(t)
  <2>0. PICK m \in net :
          \E s :
            /\ AtSession(t, m) /\ inode' = inode
            /\ s = FromSender(t, m) \/ s = Negotiated(FromSender(t, m), m)
            /\ \/ SessionSends(t, s, Error(t, m.src, "UNKNOWN_TID"), Received(m), dir)
               \/ Settle(t, Failed(s), Received(m), dir)
               \/ SessionSends(t, Failed(s), Error(t, s.dst, "ILLEGAL_OPERATION"),
                               Received(m), dir)
    BY <1>6 DEF UnknownTidAtServer, ErrorAtServer, IllegalAtServer
  <2>1. PICK s :
          /\ AtSession(t, m) /\ inode' = inode
          /\ s = FromSender(t, m) \/ s = Negotiated(FromSender(t, m), m)
          /\ \/ SessionSends(t, s, Error(t, m.src, "UNKNOWN_TID"), Received(m), dir)
             \/ Settle(t, Failed(s), Received(m), dir)
             \/ SessionSends(t, Failed(s), Error(t, s.dst, "ILLEGAL_OPERATION"),
                             Received(m), dir)
    BY <2>0
  <2>2. /\ s \in SessionRecord /\ Serves(s) /\ s.dst = m.src
        /\ s.state \in {"WAITING_ACK", "WAITING_LAST_ACK"}
        /\ m.src \in {Client} \cup Strangers
        /\ \A x \in Received(m) : InDownload(x)
    BY <2>1, SessionHears
  <2>3. \A c \in ErrorCode : IsPacket(Error(t, m.src, c)) /\ InDownload(Error(t, m.src, c))
    BY <2>2, FromServer, SessionPackets
  <2>4. Serves(Failed(s)) /\ Failed(s) \in SessionRecord /\ Failed(s).state = "ERROR"
    BY <2>2, ServesUpdates DEF Failed, SessionRecord, SessionState, Ended
  <2> QED BY <2>1, <2>2, <2>3, <2>4, ServesSends, ServesSettle
<1>7. CASE SessionGivesUp(t) \/ SessionRetransmits(t)
  <2>1. /\ server[t] \in SessionRecord /\ Serves(server[t]) /\ inode' = inode
        /\ server[t].state \notin {"FREE", "REFUSED", "INITIAL"}
    BY <1>0, <1>7 DEF SessionGivesUp, SessionRetransmits, SessionWaits, Waiting
  <2> DEFINE g == [Failed(server[t]) EXCEPT !.retries = @ + 1]
  <2>2. Serves(g) /\ g \in SessionRecord /\ g.state = "ERROR"
    <3>1. Failed(server[t]) \in SessionRecord
      BY <2>1 DEF Failed, SessionRecord, SessionState, Ended
    <3>2. Failed(server[t]).retries + 1 \in Nat
      BY <3>1, SessionFields
    <3> QED BY <2>1, <3>1, <3>2, ServesUpdates DEF SessionRecord, Failed
  <2>3. /\ Serves(BackedOff(server[t])) /\ BackedOff(server[t]) \in SessionRecord
        /\ BackedOff(server[t]).state = server[t].state
    <3>1. server[t].retries + 1 \in Nat /\ server[t].timeout * BACKOFF_FACTOR \in Nat
      BY <2>1, SessionFields DEF BACKOFF_FACTOR
    <3> QED BY <2>1, <3>1, ServesUpdates DEF BackedOff, SessionRecord
  <2>4. CASE SessionGivesUp(t)
    <3>1. Settle(t, g, net, dir)
      BY <2>4 DEF SessionGivesUp
    <3> HIDE DEF g
    <3> QED BY <1>0, <2>1, <2>2, <3>1, ServesSettle
  <2>5. CASE SessionRetransmits(t)
    <3>1. PICK ok \in SendOutcomes :
            Settle(t, BackedOff(server[t]), net \cup Transmitted(server[t].last, ok), dir)
      BY <2>5 DEF SessionRetransmits
    <3>2. InDownload(server[t].last)
      BY <2>1, <2>5 DEF SessionRetransmits, Serves
    <3>3. \A m \in net \cup Transmitted(server[t].last, ok) : InDownload(m)
      BY <1>0, <3>2 DEF Transmitted
    <3> QED BY <2>1, <2>3, <3>1, <3>3, ServesSettle
  <2> QED BY <1>7, <2>4, <2>5
<1>8. CASE ServerCrashes(t)
  <2>1. \A u \in Tids : server[u].state \in Waiting => Serves([server[u] EXCEPT !.state = "CRASHED"])
    BY <1>0, ServesUpdates DEF Waiting
  <2> QED BY <1>0, <1>8, <2>1 DEF ServerCrashes, netVars
<1>9. CASE SessionInterrupted(t)
  <2>1. /\ server[t] \in SessionRecord /\ Serves(server[t]) /\ inode' = inode
        /\ server[t].state \notin {"FREE", "REFUSED", "INITIAL"}
    BY <1>0, <1>9 DEF SessionInterrupted, SessionWaits, Waiting
  <2> DEFINE g == Failed(server[t])
  <2>2. Serves(g) /\ g \in SessionRecord /\ g.state = "ERROR"
    BY <2>1, ServesUpdates DEF Failed, SessionRecord, SessionState, Ended
  <2>3. Settle(t, g, net, dir)
    BY <1>9 DEF SessionInterrupted
  <2> HIDE DEF g
  <2> QED BY <1>0, <2>1, <2>2, <2>3, ServesSettle
<1> QED
  BY <1>1, <1>2, <1>3, <1>4, <1>5, <1>6, <1>7, <1>8, <1>9
     DEF SessionStarts, SessionReceives, SessionTimesOut

-----------------------------------------------------------------------------
(* The theorem. *)

(* No block has been sent or stored at the beginning. *)
LEMMA DownloadInit ==
  ASSUME ShippedClient
  PROVE  Init => DownloadInv
<1> SUFFICES ASSUME Init, client.type = "READ" PROVE DownloadInv
  BY DEF DownloadInv
<1>1. PICK type \in Types : client = NewClient(type, NoOptions)
  BY DEF Init, ClientInit, ShippedClient
<1>2. Stores(client, local)
  BY <1>1 DEF Init, ClientInit, Stores, NewClient
<1>3. \A t \in Tids : Serves(server[t])
  BY DEF Init, ServerInit, Session, Serves
<1>4. net = {} /\ dir \in {None, Old} /\ inode[Old] = Source
  BY DEF Init, NetworkInit, ServerInit
<1> QED
  BY <1>2, <1>3, <1>4 DEF DownloadInv

(* Every step keeps the blocks of a download in place. *)
LEMMA DownloadStep ==
  ASSUME NoWrap
  PROVE  TypeInv /\ DownloadInv /\ [Next]_vars => DownloadInv'
<1> SUFFICES ASSUME TypeInv, DownloadInv, [Next]_vars, client'.type = "READ"
             PROVE  DownloadInv'
  BY DEF DownloadInv
<1>1. ASSUME ClientStart \/ ClientReceives \/ ClientTimesOut \/ ClientInterrupted,
             UNCHANGED serverVars
      PROVE  DownloadInv'
  <2>1. Downloading
    BY <1>1, ClientKeepsType DEF Downloading
  <2> QED BY <1>1, <2>1, ClientDownloads
<1>2. ASSUME NEW t \in Tids,
             \/ Dispatch(t) \/ SessionStarts(t) \/ SessionReceives(t) \/ SessionTimesOut(t)
             \/ SessionInterrupted(t),
             UNCHANGED clientVars
      PROVE  DownloadInv'
  <2>1. Downloading
    BY <1>2 DEF Downloading, clientVars
  <2> QED BY <1>2, <2>1, SessionDownloads
<1>3. CASE (Sigint \/ StopListening \/ ShutDown) /\ UNCHANGED clientVars
  BY <1>3 DEF Sigint, StopListening, ShutDown, netVars, clientVars, DownloadInv
<1>4. CASE Lose /\ UNCHANGED <<clientVars, serverVars>>
  BY <1>4 DEF Lose, clientVars, serverVars, DownloadInv
<1>5. CASE Stray
  <2>1. \A x \in Strangers, t \in Tids : InDownload(Ack(x, t, 0))
    BY Ports DEF InDownload, Ack
  <2> QED BY <1>5, <2>1 DEF Stray, clientVars, serverVars, DownloadInv
<1>6. CASE UNCHANGED vars
  BY <1>6 DEF vars, DownloadInv
<1> QED
  BY <1>1, <1>2, <1>3, <1>4, <1>5, <1>6 DEF Next, ClientTurn, SessionTurn, Environment

(* What the invariant says of the client is what DownloadIntact asks for. *)
LEMMA DownloadSafe == DownloadInv => DownloadIntact
BY DEF DownloadInv, DownloadIntact, Stores

(* In a download every packet in flight, or kept to be sent again, carries    *)
(* the block that its number says, the client has stored the blocks before   *)
(* the one it waits for, and no session has touched the file that is served  *)
(* (sendDataBlock, DataPacket::handleClient, ServerSession::exit).           *)
THEOREM DownloadInvariant ==
  ASSUME ShippedClient, NoWrap
  PROVE  Spec => [](TypeInv /\ DownloadInv)
<1>1. Init => TypeInv /\ DownloadInv
  BY TypeInit, DownloadInit
<1>2. TypeInv /\ DownloadInv /\ [Next]_vars => (TypeInv /\ DownloadInv)'
  BY TypeStep, DownloadStep
<1> QED
  BY <1>1, <1>2, PTL DEF Spec

(* A download by the shipped client never holds bytes that the server's file *)
(* does not have at that place, and all of them when it says it is complete: *)
(* for every file of fewer than 2^16 - 1 full blocks, every number of ports, *)
(* and every loss, delay, duplication, failure and interruption              *)
(* (DataPacket::handleClient, ServerSession::readDataBlock).                 *)
THEOREM DownloadCorrect ==
  ASSUME ShippedClient, NoWrap
  PROVE  Spec => []DownloadIntact
BY DownloadInvariant, DownloadSafe, PTL

-----------------------------------------------------------------------------
(* What an acknowledgement in flight means. *)

Done == client.state = "RRQ_END"

(* An acknowledgement by the client of the last block, which is a short one. *)
LastBlock(b) == Len(Block(b)) < BlockSize
AcksLast(m) == m.op = "ACK" /\ m.src = Client /\ LastBlock(m.block)

(* The client acknowledges the last block in the turn in which it ends: who  *)
(* sees that acknowledgement in flight, or succeeds because of it, comes     *)
(* after.  A session waits for it only after it has sent that block, and     *)
(* repeats only what is its own.                                             *)
AckInv ==
  /\ \A m \in net : AcksLast(m) => Done
  /\ client.last # None /\ AcksLast(client.last) => Done
  /\ \A t \in Tids : /\ server[t].state = "WAITING_LAST_ACK" => LastBlock(server[t].block)
                     /\ server[t].state = "RRQ_END" => Done
                     /\ server[t].last # None => server[t].last.src = t

-----------------------------------------------------------------------------
(* The client's steps. *)

(* What a turn that sends a packet does. *)
LEMMA ClientTurns ==
  ASSUME NEW s \in ClientRecord, NEW p, NEW rest, NEW file, ClientSends(s, p, rest, file)
  PROVE  /\ client'.state = s.state
         /\ client'.last = s.last \/ client'.last = p
         /\ local' = IF s.state = "ERROR" THEN None ELSE file
         /\ net' \subseteq rest \cup {p}
<1>1. PICK ok \in SendOutcomes : /\ ClientGoes(Sent(s, p, ok), file)
                                 /\ net' = rest \cup Transmitted(p, ok)
  BY DEF ClientSends
<1>2. Sent(s, p, ok).state = s.state /\ (Sent(s, p, ok).last = s.last \/ Sent(s, p, ok).last = p)
  BY DEF Sent, ClientRecord
<1> QED
  BY <1>1, <1>2 DEF ClientGoes, Transmitted

(* What may be in flight, or kept, after a step of the client and was not before. *)
MaySend(m) == \/ client.last # None /\ m = client.last
              \/ ~AcksLast(m)
              \/ client'.state = "RRQ_END"

(* Begin, fail, wait on or crash, or store a block: the steps of a receiver. *)
Moves ==
  \/ client.state = "FREE" /\ client'.state = "INITIAL" /\ local' = <<>>
  \/ client'.state = "ERROR" /\ local' = None
  \/ /\ client.state # "FREE"
     /\ client'.state = client.state \/ client'.state = "CRASHED"
     /\ local' = local
  \/ /\ client.state # "FREE"
     /\ client'.state \in {"WAITING_DATA", "RRQ_END"}
     /\ local # None
     /\ \E d \in Seq(Nat) : local' = local \o d

(* A request and an ERROR acknowledge nothing.                               *)
LEMMA NotAck ==
  /\ \A t, c : ~AcksLast(Error(Client, t, c))
  /\ \A o : ~AcksLast(Request("READ", Listener, o))
BY DEF AcksLast, Error, Request

(* A turn of the client makes one of the moves, and acknowledges the last    *)
(* block only when it ends.                                                  *)
LEMMA ClientMoves ==
  ASSUME Downloading,
         ClientStart \/ ClientReceives \/ ClientTimesOut \/ ClientInterrupted
  PROVE  /\ client.state \in {"FREE", "INITIAL", "WAITING_DATA"}
         /\ Moves
         /\ \A m \in net' : m \in net \/ MaySend(m)
         /\ client'.last = client.last \/ MaySend(client'.last)
<1>0. /\ client \in ClientRecord /\ Stores(client, local) /\ client.type = "READ"
      /\ local \in Seq(Nat) \cup {None}
      /\ client.options = NoOptions /\ client.blockSize = BlockSize
      /\ "ERROR" \in SessionState /\ "INITIAL" \in SessionState /\ 1 \in BlockNumber
      /\ \A m : Received(m) \subseteq net
  BY Numbers DEF Downloading, DownloadInv, TypeInv, TypeOK, SessionState, Ended, Waiting,
                 Stores, Received
<1>1. client.state \in Waiting => client.state \in {"INITIAL", "WAITING_DATA"}
  BY <1>0 DEF Stores, Waiting
<1>2. ASSUME NEW u \in ClientRecord
      PROVE  /\ Failed(u) \in ClientRecord /\ Failed(u).state = "ERROR" /\ Failed(u).last = u.last
  BY <1>0 DEF Failed, ClientRecord
<1>3. /\ Heard(client) \in ClientRecord
      /\ Heard(client).state = client.state /\ Heard(client).last = client.last
  BY <1>0 DEF Heard, ClientRecord
<1>4. ASSUME NEW m \in net, AtClient(m)
      PROVE  /\ FromPeer(m) \in ClientRecord
             /\ FromPeer(m).state = client.state /\ FromPeer(m).last = client.last
             /\ FromPeer(m).blockSize = BlockSize
             /\ m.op \in {"DATA", "ERROR"} /\ InDownload(m) /\ IsPacket(m)
             /\ FromPeer(m).block \in BlockNumber
             /\ m.op = "DATA" => m.data \in Seq(Nat)
             /\ Stores(FromPeer(m), local)
  <2>1. /\ FromPeer(m) \in ClientRecord /\ FromPeer(m).state = client.state
        /\ m.op \in {"DATA", "ERROR"} /\ InDownload(m) /\ IsPacket(m)
        /\ Stores(FromPeer(m), local)
    BY <1>4, ClientHears DEF AtClient
  <2>2. FromPeer(m).last = client.last
    BY <1>0 DEF FromPeer, Heard, ClientRecord
  <2> QED BY <2>1, <2>2, ClientFields, PacketFields DEF Stores, IsPacket
<1>5. ASSUME NEW u \in ClientRecord, u.last = client.last,
             NEW p, MaySend(p),
             NEW rest, rest \subseteq net, NEW file, ClientSends(u, p, rest, file)
      PROVE  /\ client'.state = u.state
             /\ local' = IF u.state = "ERROR" THEN None ELSE file
             /\ \A m \in net' : m \in net \/ MaySend(m)
             /\ client'.last = client.last \/ MaySend(client'.last)
  BY <1>5, ClientTurns
<1> HIDE DEF Moves, MaySend
<1>6. CASE ClientStart
  <2> DEFINE s == [client EXCEPT
                     !.state = IF client.options = NoOptions THEN "INITIAL"
                                                             ELSE "WAITING_OACK",
                     !.block = IF client.type = "READ" THEN 1 ELSE 0]
             p == Request(client.type, Listener, client.options)
  <2>1. /\ s \in ClientRecord /\ s.state = "INITIAL" /\ s.last = client.last /\ s.type = "READ"
    BY <1>0 DEF ClientRecord
  <2>2. MaySend(p)
    BY <1>0, NotAck DEF MaySend
  <2>3. client.state = "FREE"
    BY <1>6 DEF ClientStart
  <2>4. \/ ClientSends(s, p, net, <<>>) 
        \/ ClientSends(Failed(client), p, net, None)
    BY <1>6, <2>1 DEF ClientStart
  <2> HIDE DEF s, p
  <2>5. CASE ClientSends(s, p, net, <<>>)
    <3>1. client'.state = "INITIAL" /\ local' = <<>>
      BY <1>5, <2>1, <2>2, <2>5
    <3> QED BY <1>5, <2>1, <2>2, <2>3, <2>5, <3>1 DEF Moves
  <2>6. CASE ClientSends(Failed(client), p, net, None)
    <3>1. client'.state = "ERROR" /\ local' = None
      BY <1>0, <1>2, <1>5, <2>2, <2>6
    <3> QED BY <1>0, <1>2, <1>5, <2>2, <2>3, <2>6, <3>1 DEF Moves
  <2> QED BY <2>4, <2>5, <2>6
<1>7. CASE UnknownTidAtClient
  <2>1. PICK m \in net : /\ client.state \in Waiting
                         /\ ClientSends(Heard(client), Error(Client, m.src, "UNKNOWN_TID"),
                                        Received(m), local)
    BY <1>7 DEF UnknownTidAtClient
  <2>2. MaySend(Error(Client, m.src, "UNKNOWN_TID"))
    BY NotAck DEF MaySend
  <2>3. client'.state = client.state /\ local' = local
    BY <1>0, <1>1, <1>3, <1>5, <2>1, <2>2
  <2>4. Moves
    BY <1>1, <2>1, <2>3 DEF Moves
  <2> QED BY <1>0, <1>1, <1>3, <1>5, <2>1, <2>2, <2>4
<1>8. CASE DataAtClient
  <2>1. PICK m \in net :
          /\ AtClient(m)
          /\ TakesData(FromPeer(m), m)
          /\ \/ /\ local # None
                /\ ClientSends(TakingBlock(FromPeer(m), m, "WAITING_DATA", "RRQ_END"),
                               Ack(Client, m.src, FromPeer(m).block),
                               Received(m), local \o m.data)
             \/ ClientSends(Failed(FromPeer(m)), Error(Client, m.src, "DISK_FULL"),
                            Received(m), local)
    BY <1>8 DEF DataAtClient
  <2> DEFINE s == FromPeer(m)
             u == TakingBlock(s, m, "WAITING_DATA", "RRQ_END")
             a == Ack(Client, m.src, s.block)
  <2>2. /\ s \in ClientRecord /\ s.state = client.state /\ s.last = client.last
        /\ s.blockSize = BlockSize /\ m.op = "DATA" /\ m.data \in Seq(Nat)
        /\ m.block = s.block /\ m.data = Block(s.block) /\ Stores(s, local)
        /\ InDownload(m) /\ IsPacket(m)
    BY <1>4, <2>1 DEF TakesData, NextExpected, InDownload
  <2>3. client.state \in {"INITIAL", "WAITING_DATA"}
    BY <1>1, <2>1 DEF AtClient
  <2>4. CASE /\ local # None
             /\ ClientSends(u, a, Received(m), local \o m.data)
    <3>1. /\ u.last = client.last
          /\ u.state = IF Len(m.data) < BlockSize THEN "RRQ_END" ELSE "WAITING_DATA"
      BY <2>2 DEF TakingBlock, ClientRecord
    <3>2. u \in ClientRecord
      <4>1. NextBlock(s.block) \in BlockNumber /\ s.pos + Len(m.data) \in Nat
        BY <2>2, ClientFields, NextBlockType
      <4> QED BY <2>2, <4>1 DEF TakingBlock, ClientRecord, SessionState, Ended, Waiting
    <3>3. AcksLast(a) => Len(m.data) < BlockSize
      BY <2>2 DEF AcksLast, Ack, LastBlock
    <3> HIDE DEF u, a
    <3>4. client'.state = u.state
      BY <2>4, <3>2, ClientTurns
    <3>5. MaySend(a)
      BY <3>1, <3>3, <3>4 DEF MaySend
    <3>6. local' = local \o m.data
      BY <1>0, <1>5, <2>4, <3>1, <3>2, <3>5
    <3>7. Moves
      BY <2>2, <2>3, <2>4, <3>1, <3>4, <3>6 DEF Moves
    <3> QED BY <1>0, <1>5, <2>3, <2>4, <3>1, <3>2, <3>5, <3>7
  <2>5. CASE ClientSends(Failed(s), Error(Client, m.src, "DISK_FULL"), Received(m), local)
    <3>1. MaySend(Error(Client, m.src, "DISK_FULL"))
      BY NotAck DEF MaySend
    <3>2. client'.state = "ERROR" /\ local' = None
      BY <1>0, <1>2, <1>5, <2>2, <2>5, <3>1
    <3> QED BY <1>0, <1>2, <1>5, <2>2, <2>3, <2>5, <3>1, <3>2 DEF Moves
  <2> QED BY <2>1, <2>4, <2>5
<1>9. CASE AckAtClient
  BY <1>4, <1>9 DEF AckAtClient, SendsBlock, LastAck
<1>10. CASE OackAtClient
  BY <1>4, <1>10 DEF OackAtClient, TakesOack
<1>11. CASE ErrorAtClient \/ IllegalAtClient
  <2>1. PICK m \in net :
          /\ AtClient(m)
          /\ \/ ClientGoes(Failed(FromPeer(m)), local) /\ net' = Received(m)
             \/ ClientSends(Failed(FromPeer(m)), Error(Client, m.src, "ILLEGAL_OPERATION"),
                            Received(m), local)
    BY <1>1, <1>4, <1>11 DEF ErrorAtClient, IllegalAtClient, AtClient
  <2>2. /\ Failed(FromPeer(m)) \in ClientRecord /\ Failed(FromPeer(m)).state = "ERROR"
        /\ Failed(FromPeer(m)).last = client.last
        /\ client.state \in {"INITIAL", "WAITING_DATA"}
    BY <1>1, <1>2, <1>4, <2>1 DEF AtClient
  <2>3. MaySend(Error(Client, m.src, "ILLEGAL_OPERATION"))
    BY NotAck DEF MaySend
  <2>4. CASE ClientGoes(Failed(FromPeer(m)), local) /\ net' = Received(m)
    BY <1>0, <2>2, <2>4 DEF ClientGoes, Moves
  <2>5. CASE ClientSends(Failed(FromPeer(m)), Error(Client, m.src, "ILLEGAL_OPERATION"),
                         Received(m), local)
    BY <1>0, <1>5, <2>2, <2>3, <2>5 DEF Moves
  <2> QED BY <2>1, <2>4, <2>5
<1>12. CASE ClientGivesUp \/ ClientCrashes \/ ClientInterrupted
  <2>1. /\ client.state \in {"INITIAL", "WAITING_DATA"} /\ net' = net
    BY <1>1, <1>12 DEF ClientGivesUp, ClientCrashes, ClientInterrupted, netVars
  <2>2. \/ client' = [Failed(client) EXCEPT !.retries = @ + 1] /\ local' = None
        \/ client' = Failed(client) /\ local' = None
        \/ client' = [client EXCEPT !.state = "CRASHED"] /\ local' = local
    BY <1>0, <1>12 DEF ClientGivesUp, ClientCrashes, ClientInterrupted, ClientGoes, Failed, ClientRecord
  <2>3. /\ client'.last = client.last
        /\ \/ client'.state = "ERROR" /\ local' = None
           \/ client'.state = "CRASHED" /\ local' = local
    BY <1>0, <2>2 DEF Failed, ClientRecord
  <2> QED BY <2>1, <2>3 DEF Moves
<1>13. CASE ClientRetransmits
  <2>1. /\ client.state \in {"INITIAL", "WAITING_DATA"} /\ client.last # None
        /\ ClientSends(BackedOff(client), client.last, net, local)
    BY <1>1, <1>13 DEF ClientRetransmits
  <2>2. /\ BackedOff(client) \in ClientRecord
        /\ BackedOff(client).state = client.state /\ BackedOff(client).last = client.last
    <3>1. client.retries + 1 \in Nat /\ client.timeout * BACKOFF_FACTOR \in Nat
      BY <1>0, ClientFields DEF BACKOFF_FACTOR
    <3> QED BY <1>0, <3>1 DEF BackedOff, ClientRecord
  <2>3. MaySend(client.last)
    BY <2>1 DEF MaySend
  <2> QED BY <1>5, <2>1, <2>2, <2>3 DEF Moves
<1> QED
  BY <1>6, <1>7, <1>8, <1>9, <1>10, <1>11, <1>12, <1>13 DEF ClientReceives, ClientTimesOut
-----------------------------------------------------------------------------
(* The server's steps. *)

(* Whatever the stop flag does to the end of a turn. *)
LEMMA SettleTurns ==
  ASSUME server \in [Tids -> SessionRecord], NEW t \in Tids,
         NEW s \in SessionRecord, NEW packets, NEW name, Settle(t, s, packets, name)
  PROVE  /\ \A u \in Tids \ {t} : server'[u] = server[u]
         /\ server'[t].last = s.last
         /\ server'[t].state = "ERROR" \/ (server'[t].state = s.state /\ server'[t].block = s.block)
         /\ \A m \in net' : m \in packets \/ m.src = t
<1>1. /\ Failed(s).last = s.last /\ Failed(s).state = "ERROR"
      /\ \A c : Error(t, s.dst, c).src = t
  BY DEF Failed, Error, SessionRecord
<1> QED
  BY <1>1 DEF Settle, Transmitted

(* A turn of a session that sends: its packet, or an ERROR instead of it.    *)
LEMMA SessionTurns ==
  ASSUME server \in [Tids -> SessionRecord], NEW t \in Tids,
         NEW s \in SessionRecord, NEW p, IsPacket(p), p.src = t, NEW rest, NEW name,
         SessionSends(t, s, p, rest, name)
  PROVE  /\ \A u \in Tids \ {t} : server'[u] = server[u]
         /\ server'[t].last = s.last \/ server'[t].last.src = t
         /\ server'[t].state = "ERROR" \/ (server'[t].state = s.state /\ server'[t].block = s.block)
         /\ \A m \in net' : m \in rest \/ m.src = t
<1>1. PICK ok \in SendOutcomes : Settle(t, Sent(s, p, ok), rest \cup Transmitted(p, ok), name)
  BY DEF SessionSends
<1>2. /\ Sent(s, p, ok) \in SessionRecord
      /\ Sent(s, p, ok).state = s.state /\ Sent(s, p, ok).block = s.block
      /\ Sent(s, p, ok).last = s.last \/ Sent(s, p, ok).last = p
  BY DEF Sent, SessionRecord, IsPacket
<1> QED
  BY <1>1, <1>2, SettleTurns DEF Transmitted

(* What a step of session t does to the handshake: it ends well only with an *)
(* acknowledgement, by the client, of the block it waits to see acknowledged. *)
Handshakes(t) ==
  /\ \A u \in Tids \ {t} : server'[u] = server[u]
  /\ server[t].state = "FREE" \/ server[t].state \in Waiting
  /\ server'[t].state \notin {"FREE", "CRASHED"}
  /\ \A m \in net' : m \in net \/ m.src = t \/ (server[t].last # None /\ m = server[t].last)
  /\ server'[t].last = server[t].last \/ server'[t].last = None \/ server'[t].last.src = t
  /\ server'[t].state = "WAITING_LAST_ACK" =>
       \/ server[t].state = "WAITING_LAST_ACK" /\ server'[t].block = server[t].block
       \/ LastBlock(server'[t].block)
  /\ server'[t].state = "RRQ_END" =>
       /\ server[t].state = "WAITING_LAST_ACK"
       /\ \E m \in net : m.op = "ACK" /\ m.src = Client /\ m.block = server[t].block

(* Every turn of a session but the crash is a handshake.                     *)
LEMMA SessionHandshakes ==
  ASSUME Downloading, NoWrap, NEW t \in Tids,
         \/ Dispatch(t) \/ SessionStarts(t) \/ SessionReceives(t)
         \/ SessionGivesUp(t) \/ SessionRetransmits(t) \/ SessionInterrupted(t)
  PROVE  Handshakes(t)
<1>0. /\ server \in [Tids -> SessionRecord] /\ server[t] \in SessionRecord
      /\ Serves(server[t]) /\ IsSession(server[t])
      /\ inode[Old] = Source /\ dir \in {None, Old}
      /\ \A m \in net : IsPacket(m) /\ InDownload(m)
      /\ \A m : Received(m) \subseteq net
  BY TypeParts DEF Downloading, DownloadInv, TypeInv, TypeOK, Received
<1>1. server[t].state = "FREE" \/ server[t].state \in Waiting
  BY DEF Dispatch, SessionStarts, StartWrite, StartRead, SessionReceives, SessionGivesUp,
         SessionRetransmits, SessionInterrupted, SessionWaits, UnknownTidAtServer,
         DataAtServer, AckAtServer, ErrorAtServer, IllegalAtServer, AtSession, Waiting
<1> DEFINE Fine(u) ==
      /\ u \in SessionRecord /\ u.last = server[t].last
      /\ u.state \notin {"FREE", "CRASHED", "RRQ_END"}
      /\ u.state = "WAITING_LAST_ACK" =>
           \/ server[t].state = "WAITING_LAST_ACK" /\ u.block = server[t].block
           \/ LastBlock(u.block)
<1>2. ASSUME NEW u, Fine(u), NEW packets,
             \A m \in packets : m \in net \/ (server[t].last # None /\ m = server[t].last),
             Settle(t, u, packets, dir)
      PROVE  Handshakes(t)
  BY <1>0, <1>1, <1>2, SettleTurns DEF Handshakes
<1>3. ASSUME NEW u, Fine(u), NEW p, IsPacket(p), p.src = t,
             NEW rest, rest \subseteq net, SessionSends(t, u, p, rest, dir)
      PROVE  Handshakes(t)
  BY <1>0, <1>1, <1>3, SessionTurns DEF Handshakes
<1>4. ASSUME NEW u \in SessionRecord, u.last = server[t].last PROVE Fine(Failed(u))
  BY <1>4 DEF Failed, SessionRecord, SessionState, Ended
<1>5. /\ \A d \in {Client} \cup Strangers, c \in ErrorCode : IsPacket(Error(t, d, c))
      /\ \A d, c : Error(t, d, c).src = t
      /\ \A d, b, x : Data(t, d, b, x).src = t
  BY FromServer DEF Error, Data
<1>6. ASSUME NEW m \in net, AtSession(t, m),
             NEW s, s = FromSender(t, m) \/ s = Negotiated(FromSender(t, m), m)
      PROVE  /\ s \in SessionRecord /\ Serves(s) /\ s.ino = Old /\ s.type = "READ"
             /\ s.last = server[t].last /\ s.state = server[t].state /\ s.block = server[t].block
             /\ s.state \in {"WAITING_ACK", "WAITING_LAST_ACK"}
             /\ m.op # "DATA" /\ s.dst = m.src /\ s.dst \in {Client} \cup Strangers
             /\ Fine(s)
  <2>1. /\ s \in SessionRecord /\ Serves(s) /\ s.ino = Old
        /\ s.state \in {"WAITING_ACK", "WAITING_LAST_ACK"}
        /\ m.op # "DATA" /\ s.dst = m.src /\ m.src \in {Client} \cup Strangers
    BY <1>6, SessionHears
  <2>2. /\ server[t].state \in {"WAITING_ACK", "WAITING_LAST_ACK"}
    BY <1>0, <1>6 DEF AtSession, SessionWaits, Serves, Waiting
  <2>3. /\ FromSender(t, m).state = server[t].state /\ FromSender(t, m).block = server[t].block
        /\ FromSender(t, m).last = server[t].last
    BY <1>0 DEF FromSender, Heard, SessionRecord
  <2>4. s = FromSender(t, m)
    BY <1>6, <2>2, <2>3 DEF Negotiated
  <2>5. s.type = "READ"
    BY <2>1 DEF Serves
  <2> QED BY <2>1, <2>3, <2>4, <2>5
<1> USE DEF ErrorCode
<1>7. CASE Dispatch(t)
  <2>1. PICK m \in net :
          \/ /\ server' = [server EXCEPT ![t] =
                  Session("INITIAL", IF m.op = "RRQ" THEN "READ" ELSE "WRITE", m.opts, m.src)]
             /\ net' = Received(m)
          \/ /\ server' = [server EXCEPT ![t].state = "REFUSED"]
             /\ \/ net' = Received(m)
                \/ \E c : \E ok \in SendOutcomes :
                     net' = Received(m) \cup Transmitted(Error(t, m.src, c), ok)
    BY <1>7 DEF Dispatch
  <2>2. \A m1 \in net' : m1 \in net \/ m1.src = t
    BY <1>0, <1>5, <2>1 DEF Transmitted
  <2>3. /\ \A u \in Tids \ {t} : server'[u] = server[u]
        /\ server'[t].state \in {"INITIAL", "REFUSED"}
        /\ server'[t].last \in {None, server[t].last}
    BY <1>0, <2>1 DEF Session, SessionRecord
  <2> QED BY <1>1, <2>2, <2>3 DEF Handshakes
<1>8. CASE StartWrite(t)
  BY <1>0, <1>8 DEF StartWrite, Serves
<1>9. CASE StartRead(t)
  <2> DEFINE s    == [server[t] EXCEPT !.ino = dir, !.options = NoOptions]
             data == ReadAt(Source, 0, s.blockSize)
  <2>1. /\ server[t].state = "INITIAL" /\ server[t].options = NoOptions
        /\ server[t].block = 0 /\ server[t].pos = 0 /\ server[t].blockSize = BlockSize
        /\ server[t].dst \in {Client} \cup Strangers
    BY <1>0, <1>9, SessionFields DEF StartRead, Serves, IsSession
  <2>2. ~Has(server[t].options, "tsize")
    BY <2>1 DEF Has, NoOptions, OptionName
  <2>3. \/ SessionSends(t, SendingBlock(s, 1, data), Data(t, s.dst, 1, data), net, dir)
        \/ SessionSends(t, Failed(s), Error(t, s.dst, "DISK_FULL"), net, dir)
        \/ SessionSends(t, Failed(server[t]),
                        Error(t, server[t].dst, "ACCESS_VIOLATION"), net, dir)
    BY <1>0, <1>9, <2>1, <2>2 DEF StartRead
  <2>4. /\ s \in SessionRecord /\ s.state = "INITIAL" /\ s.dst = server[t].dst
        /\ s.last = server[t].last /\ s.block = 0 /\ s.pos = 0 /\ s.blockSize = BlockSize
    <3>1. NoOptions \in Options
      BY DEF NoOptions, Options
    <3> QED BY <1>0, <2>1, <3>1 DEF SessionRecord
  <2>5. data = Block(1) /\ data \in Seq(Nat)
    <3>1. (1 - 1) * BlockSize = 0
      BY Numbers
    <3> QED BY <2>4, <3>1, ReadAtType, Numbers DEF Block
  <2> HIDE DEF s, data
  <2>6. Fine(SendingBlock(s, 1, data))
    <3>1. SendingBlock(s, 1, data) \in SessionRecord
      BY <2>4, <2>5, SendingType, Numbers
    <3>2. /\ SendingBlock(s, 1, data).block = 1 /\ SendingBlock(s, 1, data).last = s.last
          /\ SendingBlock(s, 1, data).state =
               IF Len(data) < BlockSize THEN "WAITING_LAST_ACK" ELSE "WAITING_ACK"
      BY <2>4 DEF SendingBlock, SessionRecord
    <3> QED BY <2>4, <2>5, <3>1, <3>2 DEF LastBlock
  <2>7. Fine(Failed(s)) /\ Fine(Failed(server[t]))
    BY <1>0, <1>4, <2>4
  <2>8. IsPacket(Data(t, s.dst, 1, data))
    BY <2>1, <2>4, <2>5, FromServer, Numbers
  <2> HIDE DEF Fine
  <2> QED BY <1>3, <1>5, <2>1, <2>3, <2>4, <2>6, <2>7, <2>8
<1>10. CASE DataAtServer(t)
  <2>1. PICK m \in net : AtSession(t, m) /\ m.op = "DATA"
    BY <1>10 DEF DataAtServer, StoresData
  <2> QED BY <1>6, <2>1
<1>11. CASE AckAtServer(t)
  <2>1. PICK m \in net :
          /\ AtSession(t, m) /\ m.src = server[t].srcTID
          /\ LET s    == Negotiated(FromSender(t, m), m)
                 b    == NextBlock(s.block)
                 data == IF s.type = "READ" THEN ReadAt(inode[s.ino], s.pos, s.blockSize)
                                            ELSE <<>>
             IN \/ /\ ReadsBlock(s, m)
                   /\ SessionSends(t, SendingBlock(s, b, data), Data(t, s.dst, b, data),
                                   Received(m), dir)
                \/ Settle(t, [s EXCEPT !.block = b, !.state = "THROWN"], Received(m), dir)
                \/ /\ EndsRead(s, m)
                   /\ Settle(t, [s EXCEPT !.state = "RRQ_END"], Received(m), dir)
    BY <1>11 DEF AckAtServer
  <2> DEFINE s    == Negotiated(FromSender(t, m), m)
             b    == NextBlock(s.block)
             data == ReadAt(Source, s.pos, s.blockSize)
  <2>2. /\ s \in SessionRecord /\ Serves(s) /\ s.ino = Old /\ s.type = "READ"
        /\ s.last = server[t].last /\ s.state = server[t].state /\ s.block = server[t].block
        /\ s.state \in {"WAITING_ACK", "WAITING_LAST_ACK"}
        /\ s.dst \in {Client} \cup Strangers
    BY <1>6, <2>1
  <2>3. \/ /\ s.state = "WAITING_ACK"
           /\ SessionSends(t, SendingBlock(s, b, data), Data(t, s.dst, b, data),
                           Received(m), dir)
        \/ Settle(t, [s EXCEPT !.block = b, !.state = "THROWN"], Received(m), dir)
        \/ /\ m.op = "ACK" /\ s.state = "WAITING_LAST_ACK" /\ m.block = s.block
           /\ Settle(t, [s EXCEPT !.state = "RRQ_END"], Received(m), dir)
    BY <1>0, <2>1, <2>2 DEF ReadsBlock, EndsRead
  <2>4. m.src = Client
    BY <1>0, <2>1, <2>2 DEF IsSession
  <2> HIDE DEF s
  <2>5. b \in BlockNumber
    BY <2>2, SessionFields, NextBlockType
  <2>6. CASE /\ s.state = "WAITING_ACK"
             /\ SessionSends(t, SendingBlock(s, b, data), Data(t, s.dst, b, data),
                             Received(m), dir)
    <3>1. s.pos = s.block * BlockSize /\ s.pos <= Len(Source) /\ s.block \in BlockNumber
      BY <2>2, <2>6, SessionFields DEF Serves
    <3>2. b = s.block + 1
      BY <3>1, NextIsSuccessor
    <3>3. /\ data = Block(b) /\ data \in Seq(Nat) /\ s.blockSize = BlockSize
          /\ SendingBlock(s, b, data) \in SessionRecord
      <4> HIDE DEF b
      <4> QED BY <2>2, <2>5, <2>6, <3>1, <3>2, ServesBlock DEF Serves
    <3> HIDE DEF b, data
    <3>4. /\ SendingBlock(s, b, data).block = b /\ SendingBlock(s, b, data).last = s.last
          /\ SendingBlock(s, b, data).state =
               IF Len(data) < BlockSize THEN "WAITING_LAST_ACK" ELSE "WAITING_ACK"
      BY <2>2, <3>3 DEF SendingBlock, SessionRecord
    <3>5. Fine(SendingBlock(s, b, data))
      BY <2>2, <3>3, <3>4 DEF LastBlock
    <3>6. IsPacket(Data(t, s.dst, b, data))
      BY <2>2, <2>5, <3>3, FromServer
    <3> HIDE DEF Fine
    <3> QED BY <1>0, <1>3, <1>5, <2>6, <3>5, <3>6
  <2>7. CASE Settle(t, [s EXCEPT !.block = b, !.state = "THROWN"], Received(m), dir)
    <3> DEFINE u == [s EXCEPT !.block = b, !.state = "THROWN"]
    <3> HIDE DEF b
    <3>1. Fine(u)
      BY <2>2, <2>5 DEF SessionRecord, SessionState
    <3> HIDE DEF u
    <3>2. Settle(t, u, Received(m), dir)
      BY <2>7 DEF u
    <3> HIDE DEF Fine
    <3> QED BY <1>0, <1>2, <3>1, <3>2
  <2>8. CASE /\ m.op = "ACK" /\ s.state = "WAITING_LAST_ACK" /\ m.block = s.block
             /\ Settle(t, [s EXCEPT !.state = "RRQ_END"], Received(m), dir)
    <3> DEFINE u == [s EXCEPT !.state = "RRQ_END"]
    <3>1. u \in SessionRecord /\ u.state = "RRQ_END" /\ u.last = server[t].last
      BY <2>2 DEF SessionRecord, SessionState, Ended
    <3> HIDE DEF u
    <3>2. Settle(t, u, Received(m), dir)
      BY <2>8 DEF u
    <3>3. /\ \A v \in Tids \ {t} : server'[v] = server[v]
          /\ server'[t].last = server[t].last
          /\ server'[t].state \in {"ERROR", "RRQ_END"}
          /\ \A x \in net' : x \in net \/ x.src = t
      BY <1>0, <3>1, <3>2, SettleTurns
    <3> QED BY <1>1, <2>2, <2>4, <2>8, <3>3 DEF Handshakes
  <2> QED BY <2>3, <2>6, <2>7, <2>8
<1>12. CASE UnknownTidAtServer(t) \/ ErrorAtServer(t) \/ IllegalAtServer(t)
  <2>1. PICK m \in net :
          \E s :
            /\ AtSession(t, m)
            /\ s = FromSender(t, m) \/ s = Negotiated(FromSender(t, m), m)
            /\ \/ SessionSends(t, s, Error(t, m.src, "UNKNOWN_TID"), Received(m), dir)
               \/ Settle(t, Failed(s), Received(m), dir)
               \/ SessionSends(t, Failed(s), Error(t, s.dst, "ILLEGAL_OPERATION"),
                               Received(m), dir)
    BY <1>12 DEF UnknownTidAtServer, ErrorAtServer, IllegalAtServer
  <2>2. PICK s :
          /\ AtSession(t, m)
          /\ s = FromSender(t, m) \/ s = Negotiated(FromSender(t, m), m)
          /\ \/ SessionSends(t, s, Error(t, m.src, "UNKNOWN_TID"), Received(m), dir)
             \/ Settle(t, Failed(s), Received(m), dir)
             \/ SessionSends(t, Failed(s), Error(t, s.dst, "ILLEGAL_OPERATION"),
                             Received(m), dir)
    BY <2>1
  <2>3. Fine(s) /\ Fine(Failed(s)) /\ s.dst = m.src /\ m.src \in {Client} \cup Strangers
    BY <1>4, <1>6, <2>2
  <2> HIDE DEF Fine
  <2> QED BY <1>0, <1>2, <1>3, <1>5, <2>2, <2>3
<1>13. CASE SessionGivesUp(t)
  <2> DEFINE g == [Failed(server[t]) EXCEPT !.retries = @ + 1]
  <2>1. Fine(g)
    <3>1. Failed(server[t]) \in SessionRecord /\ Fine(Failed(server[t]))
      BY <1>0, <1>4
    <3>2. Failed(server[t]).retries + 1 \in Nat
      BY <3>1, SessionFields
    <3> QED BY <3>1, <3>2 DEF SessionRecord, Failed
  <2>2. Settle(t, g, net, dir)
    BY <1>13 DEF SessionGivesUp
  <2> HIDE DEF g, Fine
  <2> QED BY <1>2, <2>1, <2>2
<1>14. CASE SessionRetransmits(t)
  <2>1. server[t].last # None /\ SessionWaits(t)
    BY <1>14 DEF SessionRetransmits
  <2>2. PICK ok \in SendOutcomes :
          Settle(t, BackedOff(server[t]), net \cup Transmitted(server[t].last, ok), dir)
    BY <1>14 DEF SessionRetransmits
  <2>3. Fine(BackedOff(server[t]))
    <3>1. server[t].retries + 1 \in Nat /\ server[t].timeout * BACKOFF_FACTOR \in Nat
      BY <1>0, SessionFields DEF BACKOFF_FACTOR
    <3> QED BY <1>0, <2>1, <3>1 DEF BackedOff, SessionRecord, SessionWaits, Waiting
  <2>4. \A m \in net \cup Transmitted(server[t].last, ok) :
           m \in net \/ (server[t].last # None /\ m = server[t].last)
    BY <2>1 DEF Transmitted
  <2> HIDE DEF Fine
  <2> QED BY <1>2, <2>2, <2>3, <2>4
<1>15. CASE SessionInterrupted(t)
  <2>1. Fine(Failed(server[t]))
    BY <1>0, <1>4
  <2>2. Settle(t, Failed(server[t]), net, dir)
    BY <1>15 DEF SessionInterrupted
  <2> HIDE DEF Fine
  <2> QED BY <1>2, <2>1, <2>2
<1> QED
  BY <1>7, <1>8, <1>9, <1>10, <1>11, <1>12, <1>13, <1>14, <1>15
     DEF SessionStarts, SessionReceives
-----------------------------------------------------------------------------
(* The invariant is inductive. *)

(* Steps of the client.                                                      *)
LEMMA AckClient ==
  ASSUME Downloading, AckInv,
         ClientStart \/ ClientReceives \/ ClientTimesOut \/ ClientInterrupted,
         UNCHANGED serverVars
  PROVE  AckInv'
<1>1. /\ ~Done
      /\ \A m \in net' : m \in net \/ MaySend(m)
      /\ client'.last = client.last \/ MaySend(client'.last)
  BY ClientMoves DEF Done
<1>2. \A m : MaySend(m) => (AcksLast(m) => Done')
  BY <1>1 DEF MaySend, AckInv, Done
<1>3. server' = server
  BY DEF serverVars
<1> QED
  BY <1>1, <1>2, <1>3 DEF AckInv

(* Steps of a session.                                                       *)
LEMMA AckServer ==
  ASSUME Downloading, AckInv, UNCHANGED clientVars, NEW t \in Tids, Handshakes(t)
  PROVE  AckInv'
<1>1. Done' = Done /\ client' = client
  BY DEF Done, clientVars
<1>2. \A m : m.src = t => ~AcksLast(m)
  BY Ports DEF AcksLast
<1>3. ASSUME NEW m \in net' PROVE AcksLast(m) => Done
  BY <1>2 DEF Handshakes, AckInv
<1>4. /\ server'[t].state = "WAITING_LAST_ACK" => LastBlock(server'[t].block)
      /\ server'[t].last # None => server'[t].last.src = t
  BY DEF Handshakes, AckInv
<1>5. server'[t].state = "RRQ_END" => Done
  BY DEF Handshakes, AckInv, AcksLast
<1>6. \A u \in Tids : u # t => server'[u] = server[u]
  BY DEF Handshakes
<1> QED
  BY <1>1, <1>3, <1>4, <1>5, <1>6 DEF AckInv

(* The whole process is gone, and every session that waited. *)
LEMMA CrashedSessions ==
  ASSUME Downloading, NEW t \in Tids, ServerCrashes(t)
  PROVE  \A u \in Tids : /\ server'[u].last = server[u].last
                         /\ server[u].state \in Waiting => server'[u].state = "CRASHED"
                         /\ server[u].state \notin Waiting => server'[u] = server[u]
<1>1. server \in [Tids -> SessionRecord]
  BY DEF Downloading, TypeInv, TypeOK
<1>2. \A u \in Tids : server'[u] = IF server[u].state \in Waiting
                                   THEN [server[u] EXCEPT !.state = "CRASHED"] ELSE server[u]
  BY DEF ServerCrashes
<1> QED
  BY <1>1, <1>2 DEF SessionRecord

(* Every step.                                                               *)
LEMMA AckStep ==
  ASSUME NoWrap
  PROVE  Downloading /\ AckInv /\ [Next]_vars => Downloading' /\ AckInv'
<1> SUFFICES ASSUME Downloading, AckInv, [Next]_vars PROVE Downloading' /\ AckInv'
  OBVIOUS
<1>1. TypeInv' /\ DownloadInv'
  BY TypeStep, DownloadStep DEF Downloading
<1>2. ASSUME ClientStart \/ ClientReceives \/ ClientTimesOut \/ ClientInterrupted,
             UNCHANGED serverVars
      PROVE  Downloading' /\ AckInv'
  BY <1>1, <1>2, ClientKeepsType, AckClient DEF Downloading
<1>3. ASSUME UNCHANGED clientVars PROVE Downloading'
  BY <1>1, <1>3 DEF Downloading, clientVars
<1>4. ASSUME NEW t \in Tids,
             \/ Dispatch(t) \/ SessionStarts(t) \/ SessionReceives(t) \/ SessionTimesOut(t)
             \/ SessionInterrupted(t),
             UNCHANGED clientVars
      PROVE  AckInv'
  <2>1. CASE ServerCrashes(t)
    BY <1>4, <2>1, CrashedSessions DEF ServerCrashes, AckInv, Done, clientVars, netVars, Waiting
  <2>2. CASE ~ServerCrashes(t)
    BY <1>4, <2>2, SessionHandshakes, AckServer DEF SessionTimesOut
  <2> QED BY <2>1, <2>2
<1>5. CASE (Sigint \/ StopListening \/ ShutDown) /\ UNCHANGED clientVars
  BY <1>3, <1>5 DEF Sigint, StopListening, ShutDown, netVars, clientVars, AckInv, Done
<1>6. CASE Lose /\ UNCHANGED <<clientVars, serverVars>>
  BY <1>3, <1>6 DEF Lose, clientVars, serverVars, AckInv, Done
<1>7. CASE Stray
  <2>1. \A x \in Strangers, t \in Tids : ~AcksLast(Ack(x, t, 0))
    BY Ports DEF AcksLast, Ack
  <2> QED BY <1>3, <1>7, <2>1 DEF Stray, clientVars, serverVars, AckInv, Done
<1>8. CASE UNCHANGED vars
  BY <1>3, <1>8 DEF vars, clientVars, AckInv, Done
<1> QED
  BY <1>2, <1>3, <1>4, <1>5, <1>6, <1>7, <1>8 DEF Next, ClientTurn, SessionTurn, Environment

(* At the start there is no packet.                                          *)
LEMMA AckInit ==
  ASSUME ShippedClient
  PROVE  Init /\ client.type = "READ" => Downloading /\ AckInv
<1> SUFFICES ASSUME Init, client.type = "READ" PROVE Downloading /\ AckInv
  OBVIOUS
<1>1. Downloading
  BY TypeInit, DownloadInit DEF Downloading
<1>2. client.last = None /\ net = {}
  BY DEF Init, ClientInit, NetworkInit, NewClient
<1>3. \A t \in Tids : server[t].state = "FREE" /\ server[t].last = None
  BY DEF Init, ServerInit, Session
<1> QED
  BY <1>1, <1>2, <1>3 DEF AckInv

(* The invariant of a download.                                              *)
LEMMA AckHolds ==
  ASSUME ShippedClient, NoWrap
  PROVE  Spec /\ client.type = "READ" => [](Downloading /\ AckInv)
BY AckInit, AckStep, PTL DEF Spec

(* In a download by the shipped client no session of the server is ever at   *)
(* its good end before the client is, whatever is lost, repeated, delayed or *)
(* sent by third parties, and with however many sessions (the WAITING_LAST_ACK *)
(* case of ACKPacket::handleServer).                                         *)
THEOREM DownloadNoFalseSuccess ==
  ASSUME ShippedClient, NoWrap
  PROVE  Spec /\ client.type = "READ" => []NoFalseSuccess
<1>1. Downloading /\ AckInv => NoFalseSuccess
  BY DEF Downloading, DownloadInv, Stores, AckInv, Done, NoFalseSuccess
<1> QED
  BY <1>1, AckHolds, PTL
-----------------------------------------------------------------------------
(* The refinement: what FileTransfer sees of a download. *)

ReceiverVerdict == IF client.state = "FREE" THEN "idle" ELSE Verdict(client)
SenderVerdicts ==
  [p \in Tids \cup {Client} |-> IF p \in Tids THEN Verdict(server[p]) ELSE "running"]

(* What a state says of the end that is in it.                               *)
LEMMA Verdicts ==
  ASSUME NEW s
  PROVE  /\ s.state \in {"FREE", "INITIAL", "WAITING_DATA", "WAITING_ACK", "WAITING_LAST_ACK"}
              => Verdict(s) = "running"
         /\ s.state \in Waiting => Verdict(s) = "running"
         /\ s.state = "RRQ_END" => Verdict(s) = "done"
         /\ s.state \in {"ERROR", "THROWN", "REFUSED"} => Verdict(s) = "failed"
         /\ s.state = "CRASHED" => Verdict(s) = "crashed"
BY DEF Verdict, Waiting

(* A step that takes the mapped variables from one state to the next is the  *)
(* step of FileTransfer that does.                                           *)
LEMMA Mapped ==
  ASSUME client.type = "READ", client'.type = "READ"
  PROVE  /\ Promise!Begin <=> /\ ReceiverVerdict = "idle" /\ ReceiverVerdict' = "running"
                              /\ local' = <<>> /\ UNCHANGED SenderVerdicts
         /\ Promise!Extend <=> /\ ReceiverVerdict = "running"
                               /\ \E n \in Len(local) .. Len(Source) :
                                    local' = SubSeq(Source, 1, n)
                               /\ UNCHANGED <<ReceiverVerdict, SenderVerdicts>>
         /\ Promise!Complete <=> /\ ReceiverVerdict = "running" /\ ReceiverVerdict' = "done"
                                 /\ local' = Source /\ UNCHANGED SenderVerdicts
         /\ Promise!Abort <=> /\ ReceiverVerdict \in {"idle", "running"}
                              /\ ReceiverVerdict' = "failed"
                              /\ local' = None /\ UNCHANGED SenderVerdicts
         /\ Promise!Crash <=> /\ ReceiverVerdict = "running" /\ ReceiverVerdict' = "crashed"
                              /\ UNCHANGED <<local, SenderVerdicts>>
         /\ /\ \E S \in SUBSET {p \in Tids \cup {Client} : SenderVerdicts[p] = "running"} :
                   SenderVerdicts' = [p \in Tids \cup {Client} |->
                                        IF p \in S THEN "crashed" ELSE SenderVerdicts[p]]
            /\ UNCHANGED <<local, ReceiverVerdict>>
            => Promise!CrashSenders
         /\ \A p : Promise!Succeed(p) <=>
              /\ ReceiverVerdict = "done" /\ SenderVerdicts[p] = "running"
              /\ SenderVerdicts' = [SenderVerdicts EXCEPT ![p] = "done"]
              /\ UNCHANGED <<local, ReceiverVerdict>>
         /\ \A p : Promise!GiveUp(p) <=>
              /\ SenderVerdicts[p] = "running"
              /\ SenderVerdicts' = [SenderVerdicts EXCEPT ![p] = "failed"]
              /\ UNCHANGED <<local, ReceiverVerdict>>
         /\ UNCHANGED Promise!vars <=> UNCHANGED <<local, ReceiverVerdict, SenderVerdicts>>
<1> DEFINE copy == Stored
           receiver == IF Receiver.state = "FREE" \/ (client.type = "WRITE" /\ Receiver.state = "INITIAL")
                       THEN "idle" ELSE Verdict(Receiver)
           sender == [p \in Tids \cup {Client} |->
                        IF client.type = "READ" /\ p \in Tids THEN Verdict(server[p])
                        ELSE IF client.type = "WRITE" /\ p = Client THEN Verdict(client)
                        ELSE "running"]
<1>1. copy = local /\ copy' = local'
  BY DEF Stored
<1>2. receiver = ReceiverVerdict /\ receiver' = ReceiverVerdict'
  BY DEF Receiver, ReceiverVerdict
<1>3. sender = SenderVerdicts /\ sender' = SenderVerdicts'
  BY DEF SenderVerdicts
<1>4. Promise!Begin <=> /\ ReceiverVerdict = "idle" /\ ReceiverVerdict' = "running"
                          /\ local' = <<>> /\ UNCHANGED SenderVerdicts
  BY <1>1, <1>2, <1>3 DEF Promise!Begin, copy, receiver, sender
<1>5. Promise!Extend <=> /\ ReceiverVerdict = "running"
                           /\ \E n \in Len(local) .. Len(Source) :
                                local' = SubSeq(Source, 1, n)
                           /\ UNCHANGED <<ReceiverVerdict, SenderVerdicts>>
  BY <1>1, <1>2, <1>3 DEF Promise!Extend, copy, receiver, sender
<1>6. Promise!Complete <=> /\ ReceiverVerdict = "running" /\ ReceiverVerdict' = "done"
                             /\ local' = Source /\ UNCHANGED SenderVerdicts
  BY <1>1, <1>2, <1>3 DEF Promise!Complete, copy, receiver, sender
<1>7. Promise!Abort <=> /\ ReceiverVerdict \in {"idle", "running"}
                          /\ ReceiverVerdict' = "failed"
                          /\ local' = None /\ UNCHANGED SenderVerdicts
  BY <1>1, <1>2, <1>3 DEF Promise!Abort, copy, receiver, sender
<1>8. Promise!Crash <=> /\ ReceiverVerdict = "running" /\ ReceiverVerdict' = "crashed"
                          /\ UNCHANGED <<local, SenderVerdicts>>
  BY <1>1, <1>2, <1>3 DEF Promise!Crash, copy, receiver, sender
<1>9. ASSUME /\ \E S \in SUBSET {p \in Tids \cup {Client} : SenderVerdicts[p] = "running"} :
                  SenderVerdicts' = [p \in Tids \cup {Client} |->
                                       IF p \in S THEN "crashed" ELSE SenderVerdicts[p]]
             /\ UNCHANGED <<local, ReceiverVerdict>>
      PROVE  Promise!CrashSenders
  <2> HIDE DEF copy, receiver, sender
  <2>1. PICK S \in SUBSET {p \in Tids \cup {Client} : SenderVerdicts[p] = "running"} :
               SenderVerdicts' = [p \in Tids \cup {Client} |->
                                    IF p \in S THEN "crashed" ELSE SenderVerdicts[p]]
    BY <1>9
  <2>2. S \in SUBSET {p \in Tids \cup {Client} : sender[p] = "running"}
    BY <2>1, <1>3
  <2>3. sender' = [p \in Tids \cup {Client} |-> IF p \in S THEN "crashed" ELSE sender[p]]
    BY <2>1, <1>3
  <2>4. UNCHANGED <<copy, receiver>>
    BY <1>1, <1>2, <1>9
  <2> QED BY <2>2, <2>3, <2>4 DEF Promise!CrashSenders, copy, receiver, sender
<1>10. \A p : Promise!Succeed(p) <=>
          /\ ReceiverVerdict = "done" /\ SenderVerdicts[p] = "running"
          /\ SenderVerdicts' = [SenderVerdicts EXCEPT ![p] = "done"]
          /\ UNCHANGED <<local, ReceiverVerdict>>
  BY <1>1, <1>2, <1>3 DEF Promise!Succeed, copy, receiver, sender
<1>11. \A p : Promise!GiveUp(p) <=>
          /\ SenderVerdicts[p] = "running"
          /\ SenderVerdicts' = [SenderVerdicts EXCEPT ![p] = "failed"]
          /\ UNCHANGED <<local, ReceiverVerdict>>
  BY <1>1, <1>2, <1>3 DEF Promise!GiveUp, copy, receiver, sender
<1>12. UNCHANGED Promise!vars <=> UNCHANGED <<local, ReceiverVerdict, SenderVerdicts>>
  BY <1>1, <1>2, <1>3 DEF Promise!vars, copy, receiver, sender
<1> QED
  BY <1>4, <1>5, <1>6, <1>7, <1>8, <1>9, <1>10, <1>11, <1>12

(* A file whose every byte is the one of the source is its beginning. *)
LEMMA PrefixIsBeginning ==
  ASSUME NEW f \in Seq(Nat), PrefixOfSource(f)
  PROVE  /\ f = SubSeq(Source, 1, Len(f))
         /\ Len(f) \in 0 .. Len(Source)
<1>1. /\ Len(f) \in Nat /\ Len(f) <= Len(Source) /\ Len(Source) \in Nat
      /\ \A i \in 1 .. Len(f) : f[i] = Source[i]
  BY Numbers DEF PrefixOfSource
<1>2. /\ SubSeq(Source, 1, Len(f)) \in Seq(Nat)
      /\ Len(SubSeq(Source, 1, Len(f))) = Len(f)
      /\ \A i \in 1 .. Len(f) : SubSeq(Source, 1, Len(f))[i] = Source[i]
  BY <1>1, Numbers
<1> QED BY <1>1, <1>2, SeqEqual

(* The client begins, extends, completes, gives up or crashes. *)
LEMMA ClientPromise ==
  ASSUME Downloading, Downloading',
         ClientStart \/ ClientReceives \/ ClientTimesOut \/ ClientInterrupted,
         UNCHANGED serverVars
  PROVE  Promise!Next \/ UNCHANGED Promise!vars
<1>1. /\ client.type = "READ" /\ client'.type = "READ"
      /\ local \in Seq(Nat) \cup {None} /\ local' \in Seq(Nat) \cup {None}
      /\ Stores(client', local')
  BY DEF Downloading, DownloadInv, TypeInv, TypeOK
<1>2. SenderVerdicts' = SenderVerdicts
  BY DEF SenderVerdicts, Verdict, serverVars
<1>3. client.state \in {"FREE", "INITIAL", "WAITING_DATA"} /\ Moves
  BY ClientMoves
<1>4. /\ client.state = "FREE" => ReceiverVerdict = "idle"
      /\ client.state # "FREE" => ReceiverVerdict = "running"
  BY <1>3, Verdicts DEF ReceiverVerdict
<1>5. /\ client'.state \in {"INITIAL", "WAITING_DATA"} => ReceiverVerdict' = "running"
      /\ client'.state = "ERROR" => ReceiverVerdict' = "failed"
      /\ client'.state = "RRQ_END" => ReceiverVerdict' = "done"
      /\ client'.state = "CRASHED" => ReceiverVerdict' = "crashed"
  BY Verdicts DEF ReceiverVerdict
<1>6. CASE client.state = "FREE" /\ client'.state = "INITIAL" /\ local' = <<>>
  BY <1>1, <1>2, <1>4, <1>5, <1>6, Mapped DEF Promise!Next
<1>7. CASE client'.state = "ERROR" /\ local' = None
  BY <1>1, <1>2, <1>4, <1>5, <1>7, Mapped DEF Promise!Next
<1>8. CASE /\ client.state # "FREE"
           /\ client'.state = client.state \/ client'.state = "CRASHED"
           /\ local' = local
  BY <1>1, <1>2, <1>3, <1>4, <1>5, <1>8, Mapped DEF Promise!Next
<1>9. CASE /\ client.state # "FREE"
           /\ client'.state \in {"WAITING_DATA", "RRQ_END"}
           /\ local # None
           /\ \E d \in Seq(Nat) : local' = local \o d
  <2>1. CASE client'.state = "RRQ_END"
    <3>1. local' = Source
      BY <1>1, <2>1 DEF Stores
    <3> QED BY <1>1, <1>2, <1>4, <1>5, <1>9, <2>1, <3>1, Mapped DEF Promise!Next
  <2>2. CASE client'.state = "WAITING_DATA"
    <3>1. PICK d \in Seq(Nat) : local' = local \o d
      BY <1>9
    <3>2. local \in Seq(Nat) /\ local' \in Seq(Nat) /\ local' # None
      BY <1>1, <1>9, <2>2 DEF Stores
    <3>3. Len(local') = Len(local) + Len(d) /\ Len(local) \in Nat /\ Len(d) \in Nat
      BY <3>1, <3>2
    <3>4. PrefixOfSource(local')
      BY <1>1, <3>2 DEF Stores
    <3>5. local' = SubSeq(Source, 1, Len(local')) /\ Len(local') \in 0 .. Len(Source)
      BY <3>2, <3>4, PrefixIsBeginning
    <3>6. Len(local') \in Len(local) .. Len(Source)
      BY <3>3, <3>5
    <3> QED BY <1>1, <1>2, <1>4, <1>5, <1>9, <2>2, <3>5, <3>6, Mapped DEF Promise!Next
  <2> QED BY <1>9, <2>1, <2>2
<1> QED
  BY <1>3, <1>6, <1>7, <1>8, <1>9 DEF Moves

(* A session goes on, fails, or succeeds after the client. *)
LEMMA SessionPromise ==
  ASSUME Downloading, Downloading', AckInv', UNCHANGED clientVars,
         NEW t \in Tids, Handshakes(t)
  PROVE  Promise!Next \/ UNCHANGED Promise!vars
<1>1. /\ client.type = "READ" /\ client'.type = "READ" /\ client' = client /\ local' = local
      /\ Serves(server'[t])
  BY DEF Downloading, DownloadInv, clientVars
<1>2. ReceiverVerdict' = ReceiverVerdict
  BY <1>1 DEF ReceiverVerdict, Verdict
<1>3. Verdict(server[t]) = "running"
  BY Verdicts DEF Handshakes
<1>4. \A u \in Tids : u # t => server'[u] = server[u]
  BY DEF Handshakes
<1>5. server'[t].state \in {"INITIAL", "WAITING_ACK", "WAITING_LAST_ACK",
                            "RRQ_END", "ERROR", "THROWN", "REFUSED"}
  BY <1>1 DEF Serves, Handshakes
<1>6. SenderVerdicts[t] = "running"
  BY <1>3 DEF SenderVerdicts
<1>7. SenderVerdicts' = [SenderVerdicts EXCEPT ![t] = Verdict(server'[t])]
  <2>1. SenderVerdicts' = [p \in Tids \cup {Client} |->
                             IF p \in Tids THEN Verdict(server'[p]) ELSE "running"]
    BY DEF SenderVerdicts, Verdict
  <2>2. \A u \in Tids : u # t => Verdict(server'[u]) = Verdict(server[u])
    BY <1>4
  <2> QED BY <2>1, <2>2 DEF SenderVerdicts
<1>8. CASE Verdict(server'[t]) = "running"
  <2>1. SenderVerdicts' = SenderVerdicts
    BY <1>6, <1>7, <1>8 DEF SenderVerdicts
  <2> QED BY <1>1, <1>2, <2>1, Mapped
<1>9. CASE Verdict(server'[t]) = "failed"
  <2>1. Promise!GiveUp(t)
    BY <1>1, <1>2, <1>6, <1>7, <1>9, Mapped
  <2> QED BY <2>1 DEF Promise!Next
<1>10. CASE server'[t].state = "RRQ_END"
  <2>1. ReceiverVerdict = "done"
    <3>1. client'.state = "RRQ_END"
      BY <1>10 DEF AckInv, Done
    <3> QED BY <1>1, <3>1, Verdicts DEF ReceiverVerdict
  <2>2. Verdict(server'[t]) = "done"
    BY <1>10, Verdicts
  <2>3. Promise!Succeed(t)
    BY <1>1, <1>2, <1>6, <1>7, <2>1, <2>2, Mapped
  <2> QED BY <2>3 DEF Promise!Next
<1> QED
  BY <1>5, <1>8, <1>9, <1>10, Verdicts

(* A crash of the server takes every session that waits with it.             *)
LEMMA CrashPromise ==
  ASSUME Downloading, UNCHANGED clientVars, NEW t \in Tids, ServerCrashes(t)
  PROVE  Promise!Next
<1>1. /\ client.type = "READ" /\ client'.type = "READ" /\ client' = client /\ local' = local
  BY DEF Downloading, clientVars
<1>2. ReceiverVerdict' = ReceiverVerdict
  BY <1>1 DEF ReceiverVerdict, Verdict
<1> DEFINE S == {u \in Tids : server[u].state \in Waiting}
<1>3. \A u \in S : Verdict(server[u]) = "running" /\ Verdict(server'[u]) = "crashed"
  BY CrashedSessions, Verdicts
<1>4. \A u \in Tids \ S : server'[u] = server[u]
  BY CrashedSessions
<1>5. S \in SUBSET {p \in Tids \cup {Client} : SenderVerdicts[p] = "running"}
  BY <1>3 DEF SenderVerdicts
<1>6. SenderVerdicts' = [p \in Tids \cup {Client} |->
                           IF p \in S THEN "crashed" ELSE SenderVerdicts[p]]
  <2>1. SenderVerdicts' = [p \in Tids \cup {Client} |->
                             IF p \in Tids THEN Verdict(server'[p]) ELSE "running"]
    BY DEF SenderVerdicts, Verdict
  <2>2. \A u \in Tids : Verdict(server'[u]) = IF u \in S THEN "crashed" ELSE Verdict(server[u])
    BY <1>3, <1>4
  <2> HIDE DEF S
  <2>3. S \subseteq Tids
    BY DEF S
  <2> QED BY <2>1, <2>2, <2>3, Ports DEF SenderVerdicts
<1> HIDE DEF S
<1>7. Promise!CrashSenders
  BY <1>1, <1>2, <1>5, <1>6, Mapped
<1> QED BY <1>7 DEF Promise!Next

(* Every step is one of FileTransfer or changes nothing that it has.         *)
LEMMA PromiseStep ==
  ASSUME NoWrap
  PROVE  Downloading /\ AckInv /\ [Next]_vars => [Promise!Next]_(Promise!vars)
<1> SUFFICES ASSUME Downloading, AckInv, [Next]_vars
             PROVE  Promise!Next \/ UNCHANGED Promise!vars
  OBVIOUS
<1>1. Downloading' /\ AckInv'
  BY AckStep
<1>2. ASSUME ClientStart \/ ClientReceives \/ ClientTimesOut \/ ClientInterrupted,
             UNCHANGED serverVars
      PROVE  Promise!Next \/ UNCHANGED Promise!vars
  BY <1>1, <1>2, ClientPromise
<1>3. ASSUME NEW t \in Tids,
             \/ Dispatch(t) \/ SessionStarts(t) \/ SessionReceives(t) \/ SessionTimesOut(t)
             \/ SessionInterrupted(t),
             UNCHANGED clientVars
      PROVE  Promise!Next \/ UNCHANGED Promise!vars
  <2>1. CASE ServerCrashes(t)
    BY <1>3, <2>1, CrashPromise
  <2>2. CASE ~ServerCrashes(t)
    BY <1>1, <1>3, <2>2, SessionHandshakes, SessionPromise DEF SessionTimesOut
  <2> QED BY <2>1, <2>2
<1>4. ASSUME UNCHANGED <<client, local, server>> PROVE UNCHANGED Promise!vars
  <2>1. client.type = "READ" /\ client'.type = "READ"
    BY <1>4 DEF Downloading
  <2>2. UNCHANGED <<local, ReceiverVerdict, SenderVerdicts>>
    BY <1>4 DEF ReceiverVerdict, SenderVerdicts, Verdict
  <2> QED BY <2>1, <2>2, Mapped
<1>5. CASE (Sigint \/ StopListening \/ ShutDown) /\ UNCHANGED clientVars
  BY <1>4, <1>5 DEF Sigint, StopListening, ShutDown, clientVars
<1>6. CASE Environment
  BY <1>4, <1>6 DEF Environment, Stray, clientVars, serverVars
<1>7. CASE UNCHANGED vars
  BY <1>4, <1>7 DEF vars
<1> QED
  BY <1>2, <1>3, <1>5, <1>6, <1>7 DEF Next, ClientTurn, SessionTurn

(* At the start nobody has begun.                                            *)
LEMMA PromiseInit ==
  ASSUME Init, client.type = "READ"
  PROVE  Promise!Init
<1>1. /\ client.state = "FREE" /\ local = None
      /\ \A t \in Tids : server[t].state = "FREE"
  BY DEF Init, ClientInit, ServerInit, NewClient, Session
<1>2. \A t \in Tids : Verdict(server[t]) = "running"
  BY <1>1, Verdicts
<1> QED
  BY <1>1, <1>2 DEF Promise!Init, Stored, Receiver

(* A download by the shipped client, however many sessions its repeated      *)
(* request makes, is at every step what FileTransfer promises: the copy      *)
(* grows from its beginning, is complete when the client says `done', is     *)
(* gone when it fails, and a session says `done' only after the client.      *)
THEOREM DownloadKeepsPromise ==
  ASSUME ShippedClient, NoWrap
  PROVE  Spec /\ client.type = "READ" => KeepsPromise
<1>1. Init /\ client.type = "READ" => Promise!Init
  BY PromiseInit
<1>2. Downloading /\ AckInv /\ [Next]_vars => [Promise!Next]_(Promise!vars)
  BY PromiseStep
<1> QED
  BY <1>1, <1>2, AckHolds, PTL DEF Spec, KeepsPromise, Promise!Spec
=============================================================================
