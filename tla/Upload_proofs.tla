---------------------------- MODULE Upload_proofs ----------------------------
(***************************************************************************)
(* The two ends agree on the size of the blocks, whatever options are      *)
(* asked for and however many sessions a repeated request makes; an upload *)
(* stores the file block by block, and its two ends agree on its success.  *)
(* Both follow from what Turns_proofs says of a step, by the invariants    *)
(* AgreeInv and UploadInv.                                                 *)
(***************************************************************************)
EXTENDS Download_proofs, Turns_proofs

-----------------------------------------------------------------------------
(* The agreement on the block size: what the client's steps keep. *)

(* Without options the block size is the one that needs no agreement.        *)
LEMMA DefaultSize ==
  ASSUME NEW s, s.options = NoOptions
  PROVE  FinalSize(s) = BlockSize
BY DEF FinalSize, Has, NoOptions, OptionName

(* What has been sent or kept is a packet to the right ports.                *)
LEMMA Ends ==
  ASSUME TypeInv
  PROVE  /\ \A m \in net : IsPacket(m)
         /\ client.last # None => IsPacket(client.last) /\ client.last.src = Client
         /\ \A t \in Tids : server[t].last # None => IsPacket(server[t].last)
         /\ client \in ClientRecord /\ client.type \in SessionType
         /\ client.srcTID \in Tids \cup {None}
         /\ \A t \in Tids : server[t] \in SessionRecord
BY TypeParts, ClientFields DEF IsClient, IsSession

(* A packet of the kind that fits whoever has agreed to what.                *)
LEMMA AlwaysFits ==
  /\ \A x : Complains(Client, x) => Fits(x)
  /\ \A t \in Tids : \A x : Complains(t, x) => Fits(x)
  /\ \A y \in Strangers, t \in Tids : Fits(Ack(y, t, 0))
<1>1. \A y \in Strangers, t \in Tids : /\ Ack(y, t, 0).src = y /\ Ack(y, t, 0).op = "ACK"
  BY DEF Ack
<1> QED
  BY <1>1, Ports DEF Fits, Complains

(* The session that has sent the client a block, or has acknowledged one,    *)
(* cuts the file as the client does.                                         *)
LEMMA SenderFits ==
  ASSUME TypeInv, AgreeInv, NEW m \in net, AtClient(m), m.op \in {"DATA", "ACK"}
  PROVE  /\ m.src \in Tids /\ Made(server[m.src])
         /\ client.blockSize = FinalSize(server[m.src])
<1>1. m.src \in Tids /\ Fits(m) /\ client.state \in Waiting /\ client.srcTID \in {None, m.src}
      /\ m.src # None
  BY PeerTypes, Ports DEF AtClient, AgreeInv
<1>2. /\ Made(server[m.src]) /\ server[m.src].blockSize = FinalSize(server[m.src])
      /\ server[m.src].options # NoOptions => Partner(m.src)
  BY <1>1 DEF Fits
<1>3. CASE server[m.src].options # NoOptions
  BY <1>1, <1>2, <1>3 DEF Partner
<1>4. CASE server[m.src].options = NoOptions
  <2>1. FinalSize(server[m.src]) = BlockSize
    BY <1>4, DefaultSize
  <2>2. \/ client.blockSize = BlockSize
        \/ client.srcTID = m.src /\ Partner(m.src)
    BY <1>1 DEF AgreeInv, ClientAgrees
  <2> QED BY <1>1, <1>2, <2>1, <2>2 DEF Partner
<1> QED
  BY <1>3, <1>4

(* Once the client has accepted a session it keeps to it, and to its size.   *)
LEMMA PartnerKept ==
  ASSUME TypeInv, ClientChanges, NEW t \in Tids, Partner(t)
  PROVE  /\ client'.state \notin Undecided /\ client'.srcTID = t
         /\ client'.blockSize = client.blockSize
<1>1. /\ client.state \notin Undecided /\ client.srcTID = t /\ t # None
  BY Ports DEF Partner
<1>2. \A m : AtClient(m) => m.src = t
  BY <1>1 DEF AtClient
<1>3. CASE ClientFails \/ ClientStays
  BY <1>1, <1>3 DEF ClientFails, ClientStays, Undecided
<1>4. CASE ClientStores \/ ClientSendsNext \/ ClientEnds
  BY <1>1, <1>2, <1>4 DEF ClientStores, ClientSendsNext, ClientEnds, SameClient, ClientReads,
                          Undecided
<1>5. CASE ClientBegins \/ ClientAccepts \/ ClientRepeats
  BY <1>1, <1>5 DEF ClientBegins, ClientAccepts, ClientRepeats, Undecided
<1> QED
  BY <1>3, <1>4, <1>5 DEF ClientChanges

(* Whom the client answers is a session.                                     *)
LEMMA AnswersSession ==
  ASSUME TypeInv, NEW m, IsPacket(m), m.src = Client, Partner(m.dst)
  PROVE  m.dst \in Tids
BY Ports, Ends DEF IsPacket, Routed, Partner

(* A step of the client leaves what fits as it is.                           *)
LEMMA FitsForClient ==
  ASSUME TypeInv, ClientChanges, client'.type = client.type, server' = server,
         NEW m, IsPacket(m), Fits(m)
  PROVE  Fits(m)'
<1>1. \A t \in Tids : Partner(t) => Partner(t)'
  BY PartnerKept DEF Partner, FinalSize
<1>2. m.src = Client /\ m.op \in {"DATA", "ACK"} =>
        Made(server[m.dst]) /\ Partner(m.dst) /\ m.dst \in Tids
  BY AnswersSession DEF Fits
<1>3. \A t \in Tids : FinalSize(server'[t]) = FinalSize(server[t])
                      /\ (Made(server[t]) => Made(server'[t]))
  BY DEF FinalSize, Made
<1> QED
  BY <1>1, <1>2, <1>3 DEF Fits

(* What the client sends fits, and so does what it keeps.                    *)
LEMMA ClientKeepsFitting ==
  ASSUME TypeInv, AgreeInv, server' = server, client'.type = client.type,
         \A x \in net \cup ({client.last} \ {None}) : Fits(x)',
         NEW p, Fits(p)', Retains(client.last, client'.last, p), Replies(Client, p)
  PROVE  (\A x \in net' : Fits(x)') /\ (client'.last # None => Fits(client.last)')
<1>1. \A x : Complains(Client, x) => Fits(x)'
  BY Ports DEF Fits, Complains
<1> QED
  BY <1>1 DEF Retains, Replies

(* What the client sends to a session it has accepted fits.                  *)
LEMMA AnswerFits ==
  ASSUME NEW t \in Tids, Made(server'[t]), Partner(t)'
  PROVE  /\ \A b : Fits(Ack(Client, t, b))'
         /\ \A b, data : Fits(Data(Client, t, b, data))'
<1>1. /\ \A b : LET p == Ack(Client, t, b)
                IN p.src = Client /\ p.dst = t /\ p.op = "ACK"
      /\ \A b, data : LET p == Data(Client, t, b, data)
                      IN p.src = Client /\ p.dst = t /\ p.op = "DATA"
  BY DEF Ack, Data
<1> QED
  BY <1>1, Ports DEF Fits

(* A request fits. *)
LEMMA RequestFits ==
  ASSUME NEW p, p.src = Client, p.op = IF client.type = "READ" THEN "RRQ" ELSE "WRQ",
         client.type \in SessionType, client'.type = client.type
  PROVE  Fits(p)'
BY Ports DEF Fits, SessionType

(* The client's steps keep the agreement. *)
LEMMA ClientKeepsAgreement ==
  ASSUME TypeInv, AgreeInv, ClientChanges, client'.type = client.type, server' = server
  PROVE  (\A m \in net' : Fits(m)') /\ ClientAgrees'
<1>1. \A x \in net \cup ({client.last} \ {None}) : Fits(x)'
  <2> SUFFICES ASSUME NEW x \in net \cup ({client.last} \ {None}) PROVE Fits(x)'
    OBVIOUS
  <2>1. IsPacket(x) /\ Fits(x)
    BY Ends DEF AgreeInv, ClientAgrees
  <2> QED BY <2>1, FitsForClient
<1>2. ClientAgrees
  BY DEF AgreeInv
<1>3. \A x : Complains(Client, x) => Fits(x)'
  BY Ports DEF Fits, Complains
<1>4. \A t \in Tids : Partner(t) => Partner(t)'
  BY PartnerKept DEF Partner, FinalSize
<1>5. client.type \in SessionType /\ client.srcTID \in Tids \cup {None}
  BY Ends
<1>6. CASE ClientBegins
  <2>0. PICK p : p = Request(client.type, Listener, client.options)
    OBVIOUS
  <2>1. p.src = Client /\ p.op = IF client.type = "READ" THEN "RRQ" ELSE "WRQ"
    BY <2>0 DEF Request
  <2>2. Fits(p)'
    BY <1>5, <2>1, RequestFits
  <2>3. /\ client.state = "FREE" /\ client'.state \in {"INITIAL", "WAITING_OACK"}
        /\ client'.blockSize = client.blockSize /\ client'.srcTID = client.srcTID
        /\ Retains(client.last, client'.last, p) /\ Replies(Client, p)
    BY <1>6, <2>0 DEF ClientBegins
  <2>4. (\A m \in net' : Fits(m)') /\ (client'.last # None => Fits(client.last)')
    BY <1>1, <2>2, <2>3, ClientKeepsFitting
  <2>5. client'.last # None => client'.last.op \in {"RRQ", "WRQ"}
    BY <1>2, <2>1, <2>3 DEF ClientAgrees, Retains
  <2> QED BY <1>2, <2>3, <2>4, <2>5 DEF ClientAgrees, Undecided, Waiting
<1>7. CASE ClientFails
  <2>1. client'.state \in {"ERROR", "CRASHED"}
    BY <1>7 DEF ClientFails
  <2>2. (\A m \in net' : Fits(m)') /\ (client'.last # None => Fits(client.last)')
    <3>1. CASE client'.last = client.last /\ Quiets(Client)
      BY <1>1, <1>3, <3>1 DEF Quiets
    <3>0. PICK p : p = Request(client.type, Listener, client.options)
      OBVIOUS
    <3>2. CASE Retains(client.last, client'.last, p) /\ Replies(Client, p)
      <4>1. p.src = Client /\ p.op = IF client.type = "READ" THEN "RRQ" ELSE "WRQ"
        BY <3>0 DEF Request
      <4>2. Fits(p)'
        BY <1>5, <4>1, RequestFits
      <4> QED BY <1>1, <3>2, <4>2, ClientKeepsFitting
    <3> QED BY <1>7, <3>0, <3>1, <3>2 DEF ClientFails
  <2> QED BY <2>1, <2>2 DEF ClientAgrees, Undecided, Waiting
<1>8. CASE ClientStays
  <2>1. /\ client.state \in Waiting /\ client'.state = client.state
        /\ client'.blockSize = client.blockSize
        /\ client'.srcTID = client.srcTID /\ client'.last = client.last
        /\ Quiets(Client) \/ (client.last # None /\ Replies(Client, client.last))
    BY <1>8 DEF ClientStays
  <2>2. \A m \in net' : Fits(m)'
    BY <1>1, <1>3, <2>1 DEF Quiets, Replies
  <2> QED BY <1>1, <1>2, <1>4, <1>5, <2>1, <2>2 DEF ClientAgrees, Undecided
<1>9. ASSUME NEW m \in net, m.src \in Tids, Made(server[m.src]), client'.srcTID = m.src,
             client'.blockSize = FinalSize(server[m.src]),
             client'.state \notin Undecided, NEW p,
             \/ \E b : p = Ack(Client, m.src, b)
             \/ \E b, data : p = Data(Client, m.src, b, data),
             Retains(client.last, client'.last, p), Replies(Client, p)
      PROVE  (\A x \in net' : Fits(x)') /\ ClientAgrees'
  <2>1. Partner(m.src)' /\ Made(server'[m.src]) /\ m.src # None
    BY <1>9, Ports DEF Partner, FinalSize
  <2>2. Fits(p)'
    BY <1>9, <2>1, AnswerFits
  <2>3. (\A x \in net' : Fits(x)') /\ (client'.last # None => Fits(client.last)')
    BY <1>1, <1>9, <2>2, ClientKeepsFitting
  <2> QED BY <1>9, <2>1, <2>3 DEF ClientAgrees, Undecided
<1>10. CASE ClientStores
  <2>1. PICK m \in net :
          /\ AtClient(m) /\ m.op = "DATA" /\ client'.state \in {"RRQ_END", "WAITING_DATA"}
          /\ client'.blockSize = client.blockSize /\ client'.srcTID = m.src
          /\ Retains(client.last, client'.last, Ack(Client, m.src, client.block))
          /\ Replies(Client, Ack(Client, m.src, client.block))
    BY <1>10 DEF ClientStores, SameClient
  <2>2. m.src \in Tids /\ Made(server[m.src]) /\ client.blockSize = FinalSize(server[m.src])
    BY <2>1, SenderFits
  <2> QED BY <1>9, <2>1, <2>2 DEF Undecided
<1>11. ASSUME NEW m, NEW b, ClientReads(m, b)
       PROVE  \E p : /\ \E data : p = Data(Client, m.src, b, data)
                     /\ client'.state \notin Undecided
                     /\ Retains(client.last, client'.last, p) /\ Replies(Client, p)
  BY <1>11 DEF ClientReads, Undecided
<1>12. CASE ClientSendsNext
  <2>0. PICK m \in net :
          /\ AtClient(m) /\ m.op = "ACK" /\ \E b : ClientReads(m, b)
          /\ client'.blockSize = client.blockSize /\ client'.srcTID = m.src
    BY <1>12 DEF ClientSendsNext, SameClient
  <2>1. PICK b : /\ AtClient(m) /\ m.op = "ACK" /\ ClientReads(m, b)
                 /\ client'.blockSize = client.blockSize /\ client'.srcTID = m.src
    BY <2>0
  <2>2. m.src \in Tids /\ Made(server[m.src]) /\ client.blockSize = FinalSize(server[m.src])
    BY <2>1, SenderFits
  <2> QED BY <1>9, <1>11, <2>1, <2>2
<1>13. CASE ClientEnds
  <2>1. client'.state = "WRQ_END" /\ client'.last = client.last /\ Quiets(Client)
    BY <1>13 DEF ClientEnds
  <2> QED BY <1>1, <1>3, <2>1 DEF ClientAgrees, Quiets, Undecided, Waiting
<1>14. CASE ClientAccepts
  <2>1. PICK m \in net :
          /\ AtClient(m) /\ m.op = "OACK" /\ client.state = "WAITING_OACK"
          /\ TakesOptions(m)
          /\ \/ /\ client'.state = "WAITING_DATA"
                /\ Retains(client.last, client'.last, Ack(Client, m.src, 0))
                /\ Replies(Client, Ack(Client, m.src, 0))
             \/ ClientReads(m, NextBlock(client.block))
    BY <1>14 DEF ClientAccepts
  <2>2. m.src \in Tids /\ Made(server[m.src]) /\ m.opts = server[m.src].options
    BY <2>1, PeerTypes DEF AtClient, AgreeInv, Fits
  <2>3. client'.srcTID = m.src /\ client'.blockSize = FinalSize(server[m.src])
    BY <1>2, <2>1, <2>2 DEF TakesOptions, FinalSize, ClientAgrees, Undecided
  <2>4. CASE /\ client'.state = "WAITING_DATA"
             /\ Retains(client.last, client'.last, Ack(Client, m.src, 0))
             /\ Replies(Client, Ack(Client, m.src, 0))
    BY <1>9, <2>2, <2>3, <2>4 DEF Undecided
  <2>5. CASE ClientReads(m, NextBlock(client.block))
    BY <1>9, <1>11, <2>2, <2>3, <2>5
  <2> QED BY <2>1, <2>4, <2>5
<1>15. CASE ClientRepeats
  <2>0. PICK q : q = [client.last EXCEPT !.opts = NoOptions]
    OBVIOUS
  <2>1. /\ client.state = "WAITING_OACK" /\ client.last # None
        /\ client'.state \in {"WAITING_DATA", "WAITING_ACK"}
        /\ client'.blockSize = client.blockSize
        /\ client'.srcTID = None /\ client'.last = q /\ Replies(Client, q)
    BY <1>15, <2>0 DEF ClientRepeats
  <2>2. client.last \in Packet /\ client.last.op \in {"RRQ", "WRQ"} /\ client.last.src = Client
    BY <1>2, <2>1, Ends DEF ClientAgrees, IsPacket
  <2>3. q.op = client.last.op /\ q.src = Client
    BY <2>0, <2>2, RequestKept
  <2>4. Fits(q)'
    <3>1. PICK x : x = client.last
      OBVIOUS
    <3>2. Fits(x)'
      BY <1>1, <2>1, <3>1
    <3> QED BY <2>2, <2>3, <3>1, <3>2, Ports DEF Fits
  <2>5. \A m \in net' : Fits(m)'
    BY <1>1, <1>3, <2>1, <2>4 DEF Replies
  <2> QED BY <1>2, <2>1, <2>4, <2>5 DEF ClientAgrees, Undecided
<1> QED
  BY <1>6, <1>7, <1>8, <1>10, <1>12, <1>13, <1>14, <1>15 DEF ClientChanges

-----------------------------------------------------------------------------
(* The agreement on the block size: what the sessions' steps keep. *)

(* What a session has been asked for stays, once it is made.                 *)
LEMMA RequestStays ==
  ASSUME TypeInv, NEW t \in Tids, SessionChanges(t), NEW u \in Tids, Made(server[u])
  PROVE  /\ Made(server'[u]) /\ server'[u].type = server[u].type
         /\ FinalSize(server'[u]) = FinalSize(server[u])
         /\ server[u].state # "INITIAL" =>
              server'[u].state # "INITIAL" /\ server'[u].options = server[u].options
<1>1. CASE u # t
  <2>1. server'[u] = server[u]
    BY <1>1 DEF SessionChanges
  <2> QED BY <2>1
<1>2. CASE u = t
  <2> DEFINE s == server[t]
             r == server'[t]
  <2> SUFFICES /\ Made(r) /\ r.type = s.type /\ FinalSize(r) = FinalSize(s)
               /\ s.state # "INITIAL" => r.state # "INITIAL" /\ r.options = s.options
    BY <1>2
  <2> HIDE DEF s, r
  <2>1. Made(s)
    BY <1>2 DEF s
  <2>2. s \in SessionRecord
    BY Ends DEF s
  <2>3. ~SessionMade(t, s, r) /\ ~SessionRefused(t, s, r)
    BY <2>1, <2>2 DEF SessionMade, SessionRefused, Made
  <2>4. CASE SessionOpens(t, s, r) \/ SessionOffers(t, s, r) \/ SessionReads(t, s, r)
    BY <2>1, <2>4 DEF SessionOpens, SessionOffers, SessionReads, FinalSize, Made, Has, Lands
  <2>5. CASE SessionStores(t, s, r) \/ SessionFinishes(t, s, r)
    BY <2>1, <2>5 DEF SessionStores, SessionFinishes, SameSession, FinalSize, Made, Has, Lands
  <2>6. CASE SessionFails(t, s, r)
    BY <2>1, <2>6 DEF SessionFails, FinalSize, Made
  <2>7. CASE SessionStays(t, s, r)
    <3>1. s.state # "INITIAL"
      BY <2>7 DEF SessionStays, SessionWaits, s
    <3> QED BY <2>1, <2>7, <3>1 DEF SessionStays, SameSession, FinalSize, Made, Lands
  <2> QED BY <2>3, <2>4, <2>5, <2>6, <2>7 DEF SessionChanges, s, r
<1> QED
  BY <1>1, <1>2

(* The size of the blocks changes only when the answer to the OACK comes.    *)
LEMMA SizeStays ==
  ASSUME TypeInv, NEW t \in Tids, SessionChanges(t), Made(server[t]),
         server[t].blockSize = FinalSize(server[t])
  PROVE  server'[t].blockSize = server[t].blockSize
<1> DEFINE s == server[t]
           r == server'[t]
<1>1. AnsweredSize(s) = s.blockSize
  BY DEF AnsweredSize, FinalSize
<1>2. s \in SessionRecord
  BY Ends
<1>3. ~SessionMade(t, s, r) /\ ~SessionRefused(t, s, r)
  BY <1>2 DEF SessionMade, SessionRefused, Made
<1> HIDE DEF s, r
<1>4. CASE \/ SessionOpens(t, s, r) \/ SessionOffers(t, s, r) \/ SessionReads(t, s, r)
           \/ SessionStores(t, s, r)
  BY <1>1, <1>4 DEF SessionOpens, SessionOffers, SessionReads, SessionStores, s, r
<1>5. CASE SessionFinishes(t, s, r) \/ SessionFails(t, s, r) \/ SessionStays(t, s, r)
  BY <1>1, <1>5 DEF SessionFinishes, SessionFails, SessionStays, s, r
<1> QED
  BY <1>3, <1>4, <1>5 DEF SessionChanges, s, r

(* A step of a session leaves what fits as it is.                            *)
LEMMA FitsForSession ==
  ASSUME TypeInv, NEW t \in Tids, SessionChanges(t), client' = client,
         NEW m, IsPacket(m), Fits(m)
  PROVE  Fits(m)'
<1>1. \A u \in Tids : Made(server[u]) /\ Partner(u) => Made(server'[u]) /\ Partner(u)'
  BY RequestStays DEF Partner
<1>2. m.src = Client /\ m.op \in {"DATA", "ACK"} =>
        Made(server[m.dst]) /\ Partner(m.dst) /\ m.dst \in Tids
  BY AnswersSession DEF Fits
<1>3. ASSUME m.src \in Tids, m.op \in {"DATA", "ACK", "OACK"}
      PROVE  /\ Made(server'[m.src]) /\ server'[m.src].state # "INITIAL"
             /\ server'[m.src].options = server[m.src].options
             /\ Made(server[m.src])
             /\ m.op # "OACK" => server'[m.src].blockSize = FinalSize(server'[m.src])
  <2>1. Made(server[m.src]) /\ server[m.src].state # "INITIAL"
    BY <1>3 DEF Fits
  <2>2. m.op # "OACK" => server[m.src].blockSize = FinalSize(server[m.src])
    BY <1>3 DEF Fits
  <2>3. server'[m.src].blockSize = server[m.src].blockSize \/ m.op = "OACK"
    BY <1>3, <2>1, <2>2, SizeStays DEF SessionChanges
  <2> QED BY <1>3, <2>1, <2>2, <2>3, RequestStays
<1> QED
  BY <1>1, <1>2, <1>3 DEF Fits

(* What a session sends to a client that it serves fits: a block or an ACK   *)
(* when the size is settled, and an OACK with its options.                   *)
LEMMA SessionSendsFitting ==
  ASSUME NEW t \in Tids, Made(server'[t]), server'[t].state # "INITIAL"
  PROVE  /\ /\ server'[t].blockSize = FinalSize(server'[t])
            /\ server'[t].options # NoOptions => Partner(t)'
            => /\ \A d, b : Fits(Ack(t, d, b))'
               /\ \A d, b, data : Fits(Data(t, d, b, data))'
         /\ \A d, o : o = server'[t].options => Fits(Oack(t, d, o))'
<1>1. /\ \A d, b : Ack(t, d, b).src = t /\ Ack(t, d, b).op = "ACK"
      /\ \A d, b, data : Data(t, d, b, data).src = t /\ Data(t, d, b, data).op = "DATA"
      /\ \A d, o : LET p == Oack(t, d, o) IN p.src = t /\ p.op = "OACK" /\ p.opts = o
  BY DEF Ack, Data, Oack
<1> QED
  BY <1>1, Ports DEF Fits

(* An answer of the client to session t is one of its partner.               *)
LEMMA AnswerOfPartner ==
  ASSUME TypeInv, AgreeInv, NEW t \in Tids, NEW m, Answers(t, m), m.op \in {"DATA", "ACK"}
  PROVE  /\ Fits(m) /\ Made(server[t]) /\ Partner(t) /\ IsPacket(m)
         /\ AnsweredSize(server[t]) = FinalSize(server[t])
         /\ client.blockSize = FinalSize(server[t])
<1>1. m \in net /\ m.dst = t /\ m.src = Client /\ SessionWaits(t) /\ Fits(m) /\ IsPacket(m)
  BY Ends DEF Answers, AtSession, AgreeInv
<1>2. SessionAgrees(server[t])
  BY DEF AgreeInv
<1>3. AnsweredSize(server[t]) = FinalSize(server[t])
  BY <1>1, <1>2 DEF SessionAgrees, AnsweredSize, FinalSize, SessionWaits
<1> QED
  BY <1>1, <1>3 DEF Fits, Partner

(* The steps of session t keep the agreement. *)
LEMMA SessionKeepsAgreement ==
  ASSUME TypeInv, AgreeInv, NEW t \in Tids, SessionChanges(t), client' = client
  PROVE  (\A m \in net' : Fits(m)') /\ SessionAgrees(server[t])'
<1> DEFINE s == server[t]
           r == server'[t]
<1> SUFFICES (\A m \in net' : Fits(m)')
             /\ /\ \A x : x = r.last /\ x # None => Fits(x)'
                /\ Made(r) => r.type = client.type
                /\ ~Made(r) => r.ino = None
                /\ r.state = "INITIAL" => r.blockSize = BlockSize
                /\ r.state = "WAITING_AFTER_OACK" => r.blockSize \in {BlockSize, FinalSize(r)}
                /\ r.state \in Waiting \ {"INITIAL", "WAITING_AFTER_OACK"} =>
                     r.blockSize = FinalSize(r)
  BY DEF SessionAgrees
<1>1. \A x \in net \cup ({s.last} \ {None}) : Fits(x)'
  <2> SUFFICES ASSUME NEW x \in net \cup ({s.last} \ {None}) PROVE Fits(x)'
    OBVIOUS
  <2>1. IsPacket(x) /\ Fits(x)
    BY Ends DEF AgreeInv, SessionAgrees
  <2> QED BY <2>1, FitsForSession
<1>2. \A x : Complains(t, x) => Fits(x)'
  BY Ports DEF Fits, Complains
<1>3. ASSUME NEW p, Fits(p)', Retains(s.last, r.last, p), Replies(t, p)
      PROVE  (\A m \in net' : Fits(m)') /\ \A x : x = r.last /\ x # None => Fits(x)'
  BY <1>1, <1>2, <1>3 DEF Retains, Replies
<1>4. ASSUME r.last = s.last, Quiets(t)
      PROVE  (\A m \in net' : Fits(m)') /\ \A x : x = r.last /\ x # None => Fits(x)'
  BY <1>1, <1>2, <1>4 DEF Quiets
<1>5. SessionAgrees(s) /\ s \in SessionRecord
  BY Ends DEF AgreeInv
<1>6. /\ Made(r) /\ r.state # "INITIAL" /\ r.blockSize = FinalSize(r)
         /\ (r.options # NoOptions => Partner(t)') =>
           /\ \A d, b : Fits(Ack(t, d, b))'
           /\ \A d, b, data : Fits(Data(t, d, b, data))'
      /\ Made(r) /\ r.state # "INITIAL" => \A d, o : o = r.options => Fits(Oack(t, d, o))'
  BY SessionSendsFitting
<1>7. Made(s) => /\ Made(r) /\ r.type = s.type /\ FinalSize(r) = FinalSize(s)
                 /\ s.state # "INITIAL" => r.state # "INITIAL" /\ r.options = s.options
  BY RequestStays
<1>8. ASSUME NEW m, Answers(t, m), m.op \in {"DATA", "ACK"}
      PROVE  /\ Made(s) /\ Made(r) /\ Partner(t)' /\ AnsweredSize(s) = FinalSize(r)
             /\ s.state # "INITIAL" /\ r.state # "INITIAL"
  <2>1. Made(s) /\ Partner(t) /\ AnsweredSize(s) = FinalSize(s)
    BY <1>8, AnswerOfPartner
  <2>2. s.state # "INITIAL"
    BY <1>8 DEF Answers, AtSession, SessionWaits
  <2> QED BY <1>7, <2>1, <2>2 DEF Partner
<1> DEFINE Sound == /\ Made(r) => r.type = client.type
                    /\ ~Made(r) => r.ino = None
                    /\ r.state = "INITIAL" => r.blockSize = BlockSize
                    /\ r.state = "WAITING_AFTER_OACK" => r.blockSize \in {BlockSize, FinalSize(r)}
                    /\ r.state \in Waiting \ {"INITIAL", "WAITING_AFTER_OACK"} =>
                         r.blockSize = FinalSize(r)
           Sent2 == (\A m \in net' : Fits(m)') /\ \A x : x = r.last /\ x # None => Fits(x)'
<1> SUFFICES Sent2 /\ Sound
  OBVIOUS
<1> HIDE DEF s, r, Sent2
<1>9. CASE SessionMade(t, s, r)
  <2>1. PICK m \in net :
          /\ m.op \in {"RRQ", "WRQ"} /\ Quiets(t)
          /\ r = Session("INITIAL", IF m.op = "RRQ" THEN "READ" ELSE "WRITE", m.opts, m.src)
    BY <1>9 DEF SessionMade
  <2>2. /\ r.type = client.type /\ r.state = "INITIAL" /\ r.blockSize = BlockSize
        /\ r.last = None
    BY <2>1 DEF Session, AgreeInv, Fits
  <2>3. Sent2
    BY <1>1, <1>2, <2>1, <2>2 DEF Quiets, Sent2
  <2> QED BY <2>2, <2>3 DEF Made, Waiting
<1>10. CASE SessionRefused(t, s, r)
  <2>1. /\ r.state = "REFUSED" /\ r.ino = s.ino /\ r.last = s.last /\ ~Made(s) /\ Quiets(t)
    BY <1>5, <1>10 DEF SessionRefused, SessionRecord, Made
  <2> QED BY <1>4, <1>5, <2>1 DEF SessionAgrees, Made, Waiting, Sent2
<1>11. CASE SessionOpens(t, s, r)
  <2>1. PICK p : p = IF s.options = NoOptions THEN Ack(t, s.dst, 0) ELSE Oack(t, s.dst, s.options)
    OBVIOUS
  <2>2. /\ s.state = "INITIAL" /\ r.type = s.type /\ r.options = s.options
        /\ Lands(r, IF s.options = NoOptions THEN "WAITING_DATA" ELSE "WAITING_AFTER_OACK")
        /\ r.blockSize = s.blockSize /\ Retains(s.last, r.last, p) /\ Replies(t, p)
    BY <1>11, <2>1 DEF SessionOpens
  <2>3. /\ Made(s) /\ Made(r) /\ r.state # "INITIAL" /\ r.blockSize = BlockSize
        /\ r.type = client.type
        /\ s.options = NoOptions => FinalSize(r) = BlockSize
    BY <1>5, <1>7, <2>2, DefaultSize DEF Made, SessionAgrees, Lands
  <2>4. Fits(p)'
    BY <1>6, <2>1, <2>2, <2>3
  <2>5. Sent2
    BY <1>3, <2>2, <2>4 DEF Sent2
  <2> QED BY <2>2, <2>3, <2>5 DEF Lands, Waiting
<1>12. CASE SessionOffers(t, s, r)
  <2>1. PICK p : p = Oack(t, s.dst, r.options)
    OBVIOUS
  <2>2. /\ s.state = "INITIAL" /\ r.type = s.type /\ Lands(r, "WAITING_AFTER_OACK")
        /\ r.blockSize = s.blockSize /\ Retains(s.last, r.last, p) /\ Replies(t, p)
    BY <1>12, <2>1 DEF SessionOffers
  <2>3. /\ Made(s) /\ Made(r) /\ r.state # "INITIAL" /\ r.blockSize = BlockSize
        /\ r.type = client.type
    BY <1>5, <1>7, <2>2 DEF Made, SessionAgrees, Lands
  <2>4. Fits(p)'
    BY <1>6, <2>1, <2>3
  <2>5. Sent2
    BY <1>3, <2>2, <2>4 DEF Sent2
  <2> QED BY <2>2, <2>3, <2>5 DEF Lands, Waiting
<1>13. CASE SessionReads(t, s, r)
  <2>1. PICK data \in Seq(Nat), dst \in {Client} \cup Strangers :
          /\ r.type = s.type /\ r.options = s.options
          /\ \/ s.state = "INITIAL" /\ s.options = NoOptions /\ r.blockSize = s.blockSize
             \/ /\ \E m : Answers(t, m) /\ m.op = "ACK"
                /\ r.blockSize = AnsweredSize(s)
          /\ Lands(r, IF Len(data) < r.blockSize THEN "WAITING_LAST_ACK" ELSE "WAITING_ACK")
          /\ Retains(s.last, r.last, Data(t, dst, r.block, data))
          /\ Replies(t, Data(t, dst, r.block, data))
    BY <1>13 DEF SessionReads
  <2>2. r.state \in {"WAITING_LAST_ACK", "WAITING_ACK", "ERROR"}
    BY <2>1 DEF Lands
  <2>3. /\ Made(s) /\ Made(r) /\ r.blockSize = FinalSize(r)
        /\ r.options # NoOptions => Partner(t)'
    <3>1. CASE s.state = "INITIAL" /\ s.options = NoOptions /\ r.blockSize = s.blockSize
      <4>1. Made(s) /\ s.blockSize = BlockSize
        BY <1>5, <3>1 DEF Made, SessionAgrees
      <4>2. FinalSize(r) = BlockSize
        BY <2>1, <3>1, DefaultSize
      <4> QED BY <1>7, <2>1, <3>1, <4>1, <4>2
    <3>2. CASE \E m : Answers(t, m) /\ m.op = "ACK" /\ r.blockSize = AnsweredSize(s)
      BY <1>8, <3>2
    <3> QED BY <2>1, <3>1, <3>2
  <2>4. PICK p : p = Data(t, dst, r.block, data)
    OBVIOUS
  <2>5. Fits(p)'
    BY <1>6, <2>2, <2>3, <2>4
  <2>6. Sent2
    BY <1>3, <2>1, <2>4, <2>5 DEF Sent2
  <2> QED BY <1>5, <2>1, <2>2, <2>3, <2>6 DEF SessionAgrees
<1>14. CASE SessionStores(t, s, r)
  <2>1. PICK m :
          /\ Answers(t, m) /\ m.op = "DATA"
          /\ s.state \in {"WAITING_DATA", "WAITING_AFTER_OACK"}
          /\ Lands(r, IF Len(m.data) < r.blockSize THEN "WRQ_END" ELSE s.state)
          /\ r.type = s.type /\ r.blockSize = AnsweredSize(s)
          /\ Retains(s.last, r.last, Ack(t, Client, s.block))
          /\ Replies(t, Ack(t, Client, s.block))
    BY <1>14 DEF SessionStores, SameSession
  <2>2. /\ Made(s) /\ Made(r) /\ Partner(t)' /\ r.blockSize = FinalSize(r)
        /\ r.state # "INITIAL"
    BY <1>8, <2>1
  <2>3. PICK p : p = Ack(t, Client, s.block)
    OBVIOUS
  <2>4. Fits(p)'
    BY <1>6, <2>2, <2>3
  <2>5. Sent2
    BY <1>3, <2>1, <2>3, <2>4 DEF Sent2
  <2>6. r.state \in {"WRQ_END", "WAITING_DATA", "WAITING_AFTER_OACK", "ERROR"}
    BY <2>1 DEF Lands
  <2> QED BY <1>5, <2>1, <2>2, <2>5, <2>6 DEF SessionAgrees
<1>15. CASE SessionFinishes(t, s, r) \/ SessionFails(t, s, r)
  <2>1. /\ r.state \in {"RRQ_END", "ERROR", "THROWN"} /\ r.type = s.type
        /\ r.last = s.last /\ Quiets(t) /\ Made(s)
    <3>1. CASE SessionFinishes(t, s, r)
      BY <3>1 DEF SessionFinishes, SameSession, Made
    <3>2. CASE SessionFails(t, s, r)
      BY <3>2 DEF SessionFails, Made, Waiting
    <3> QED BY <1>15, <3>1, <3>2
  <2>2. Sent2
    BY <1>4, <2>1 DEF Sent2
  <2> QED BY <1>5, <1>7, <2>1, <2>2 DEF SessionAgrees, Waiting
<1>16. CASE SessionStays(t, s, r)
  <2>1. /\ s.state \in Waiting \ {"INITIAL"} /\ Lands(r, s.state) /\ SameSession(r, s)
        /\ r.blockSize = s.blockSize /\ r.last = s.last
        /\ Quiets(t) \/ (s.last # None /\ Replies(t, s.last))
    BY <1>16 DEF SessionStays, SessionWaits, s
  <2>2. Sent2
    <3>1. PICK x : x = s.last
      OBVIOUS
    <3> QED BY <1>1, <1>2, <1>4, <2>1, <3>1 DEF Replies, Sent2
  <2>3. Made(s) /\ r.type = s.type /\ FinalSize(r) = FinalSize(s)
    BY <2>1 DEF Made, Waiting, SameSession, FinalSize
  <2> QED BY <1>5, <1>7, <2>1, <2>2, <2>3 DEF SessionAgrees, Lands, Waiting
<1> QED
  <2>1. SessionChanges(t)
    OBVIOUS
  <2> QED BY <2>1, <1>9, <1>10, <1>11, <1>12, <1>13, <1>14, <1>15, <1>16
             DEF SessionChanges, s, r

-----------------------------------------------------------------------------
(* The agreement on the block size: the theorem. *)

(* Nobody has agreed to anything.                                            *)
LEMMA AgreeInit == Init => AgreeInv
<1> SUFFICES ASSUME Init PROVE AgreeInv
  OBVIOUS
<1>1. /\ net = {} /\ client.state = "FREE" /\ client.last = None
      /\ client.blockSize = BlockSize /\ client.srcTID = None
  BY DEF Init, NetworkInit, ClientInit, NewClient
<1>2. \A t \in Tids : server[t] = Session("FREE", "READ", NoOptions, None)
  BY DEF Init, ServerInit
<1>3. \A t \in Tids : /\ server[t].state = "FREE" /\ server[t].last = None
                      /\ server[t].ino = None
  BY <1>2 DEF Session
<1> QED
  BY <1>1, <1>3 DEF AgreeInv, ClientAgrees, SessionAgrees, Waiting, Undecided, Made

(* What is left of a session when the server crashes.                        *)
LEMMA CrashLeaves ==
  ASSUME TypeInv, ServerFails, NEW t \in Tids
  PROVE  LET s == server[t]
             r == server'[t]
         IN /\ r.state = IF s.state \in Waiting THEN "CRASHED" ELSE s.state
            /\ r.type = s.type /\ r.options = s.options /\ r.blockSize = s.blockSize
            /\ r.ino = s.ino /\ r.last = s.last /\ r.pos = s.pos /\ r.block = s.block
BY Ends DEF ServerFails, SessionRecord

(* Every step keeps the agreement. *)
LEMMA AgreeStep == TypeInv /\ AgreeInv /\ [Next]_vars => AgreeInv'
<1> SUFFICES ASSUME TypeInv, AgreeInv, [Next]_vars PROVE AgreeInv'
  OBVIOUS
<1>1. CASE ClientChanges /\ client'.type = client.type /\ UNCHANGED serverVars
  <2>1. server' = server
    BY <1>1 DEF serverVars
  <2>2. (\A m \in net' : Fits(m)') /\ ClientAgrees'
    BY <1>1, <2>1, ClientKeepsAgreement
  <2>3. ASSUME NEW t \in Tids PROVE SessionAgrees(server[t])'
    <3>1. PICK x : x = server[t].last
      OBVIOUS
    <3>2. x # None => Fits(x)'
      <4>1. x # None => IsPacket(x) /\ Fits(x)
        BY <3>1, Ends DEF AgreeInv, SessionAgrees
      <4> QED BY <1>1, <2>1, <4>1, FitsForClient
    <3> QED BY <1>1, <2>1, <3>1, <3>2 DEF AgreeInv, SessionAgrees, Made, FinalSize
  <2> QED BY <2>2, <2>3 DEF AgreeInv
<1>2. ASSUME NEW t \in Tids, SessionChanges(t), UNCHANGED clientVars PROVE AgreeInv'
  <2>1. client' = client
    BY <1>2 DEF clientVars
  <2>2. (\A m \in net' : Fits(m)') /\ SessionAgrees(server[t])'
    BY <1>2, <2>1, SessionKeepsAgreement
  <2>3. ASSUME NEW u \in Tids \ {t} PROVE SessionAgrees(server[u])'
    <3>1. PICK x : x = server[u].last
      OBVIOUS
    <3>2. x # None => Fits(x)'
      <4>1. x # None => IsPacket(x) /\ Fits(x)
        BY <3>1, Ends DEF AgreeInv, SessionAgrees
      <4> QED BY <1>2, <2>1, <4>1, FitsForSession
    <3>3. server'[u] = server[u] /\ SessionAgrees(server[u])
      BY <1>2 DEF SessionChanges, AgreeInv
    <3> QED BY <2>1, <3>1, <3>2, <3>3 DEF SessionAgrees, Made, FinalSize
  <2>4. ClientAgrees'
    <3>1. PICK x : x = client.last
      OBVIOUS
    <3>2. x # None => Fits(x)'
      <4>1. x # None => IsPacket(x) /\ Fits(x)
        BY <3>1, Ends DEF AgreeInv, ClientAgrees
      <4> QED BY <1>2, <2>1, <4>1, FitsForSession
    <3>3. client.srcTID # None => client.srcTID \in Tids
      BY Ends
    <3>4. \A u \in Tids : Made(server[u]) /\ Partner(u) => Made(server'[u]) /\ Partner(u)'
      BY <1>2, <2>1, RequestStays DEF Partner
    <3> QED BY <2>1, <3>1, <3>2, <3>3, <3>4 DEF AgreeInv, ClientAgrees
  <2> QED BY <2>2, <2>3, <2>4 DEF AgreeInv
<1>3. CASE ServerFails /\ UNCHANGED clientVars
  <2>1. client' = client /\ net' = net
    BY <1>3 DEF clientVars, ServerFails
  <2>2. \A u \in Tids : /\ server'[u].state = IF server[u].state \in Waiting THEN "CRASHED" ELSE server[u].state
                        /\ server'[u].type = server[u].type
                        /\ server'[u].options = server[u].options
                        /\ server'[u].blockSize = server[u].blockSize
                        /\ server'[u].ino = server[u].ino /\ server'[u].last = server[u].last
    BY <1>3, CrashLeaves
  <2>3. \A u \in Tids : /\ Made(server'[u]) <=> Made(server[u])
                        /\ FinalSize(server'[u]) = FinalSize(server[u])
                        /\ Partner(u) => Partner(u)'
                        /\ server[u].state # "INITIAL" => server'[u].state # "INITIAL"
    BY <2>1, <2>2 DEF Made, FinalSize, Partner, Waiting
  <2>4. ASSUME NEW x, IsPacket(x), Fits(x) PROVE Fits(x)'
    <3>1. x.src = Client /\ x.op \in {"DATA", "ACK"} => x.dst \in Tids
      BY <2>4, AnswersSession DEF Fits
    <3> QED BY <2>1, <2>2, <2>3, <2>4, <3>1 DEF Fits
  <2>5. ClientAgrees'
    <3>1. PICK x : x = client.last
      OBVIOUS
    <3>2. x # None => Fits(x)'
      BY <2>4, <3>1, Ends DEF AgreeInv, ClientAgrees
    <3>3. client.srcTID # None => client.srcTID \in Tids
      BY Ends
    <3> QED BY <2>1, <2>3, <3>1, <3>2, <3>3 DEF AgreeInv, ClientAgrees
  <2>6. ASSUME NEW u \in Tids PROVE SessionAgrees(server[u])'
    <3>1. PICK x : x = server[u].last
      OBVIOUS
    <3>2. x # None => Fits(x)'
      BY <2>4, <3>1, Ends DEF AgreeInv, SessionAgrees
    <3>3. SessionAgrees(server[u])
      BY DEF AgreeInv
    <3> QED BY <2>1, <2>2, <2>3, <3>1, <3>2, <3>3 DEF SessionAgrees, Waiting
  <2> QED BY <2>1, <2>4, <2>5, <2>6, Ends DEF AgreeInv
<1>4. CASE /\ UNCHANGED <<client, local, server, dir, inode>>
           /\ \A x \in net' : \/ x \in net
                              \/ \E y \in Strangers, t \in Tids : x = Ack(y, t, 0)
  <2>1. \A x : Fits(x) => Fits(x)'
    BY <1>4 DEF Fits, Made, FinalSize, Partner
  <2>2. \A m \in net' : Fits(m)'
    BY <1>4, <2>1, AlwaysFits DEF AgreeInv
  <2>3. ClientAgrees' /\ \A u \in Tids : SessionAgrees(server[u])'
    BY <1>4 DEF AgreeInv, ClientAgrees, SessionAgrees, Fits, Made, FinalSize, Partner
  <2> QED BY <2>2, <2>3 DEF AgreeInv
<1> QED
  BY <1>1, <1>2, <1>3, <1>4, StepsOnly

(* What the agreement says of a block in flight. *)
LEMMA AgreeSafe == TypeInv /\ AgreeInv => AgreedBlockSize
<1> SUFFICES ASSUME TypeInv, AgreeInv, NEW m \in net, m.op = "DATA"
             PROVE  /\ AtClient(m) /\ client.state # "WAITING_OACK" =>
                         client.blockSize = server[m.src].blockSize
                    /\ m.dst \in Tids /\ SessionWaits(m.dst) =>
                         Negotiated(server[m.dst], m).blockSize = client.blockSize
  BY DEF AgreedBlockSize
<1>1. IsPacket(m) /\ Fits(m)
  BY Ends DEF AgreeInv
<1>2. ASSUME AtClient(m) PROVE client.blockSize = server[m.src].blockSize
  BY <1>1, <1>2, SenderFits DEF Fits
<1>3. ASSUME m.dst \in Tids, SessionWaits(m.dst)
      PROVE  Negotiated(server[m.dst], m).blockSize = client.blockSize
  <2>1. m.src = Client
    BY <1>1, <1>3, Ports DEF IsPacket, Routed, Fits
  <2>2. client.blockSize = FinalSize(server[m.dst]) /\ SessionAgrees(server[m.dst])
        /\ server[m.dst] \in SessionRecord
    BY <1>1, <1>3, <2>1, Ends DEF Fits, Partner, AgreeInv
  <2> QED BY <1>3, <2>2 DEF Negotiated, WithOptions, FinalSize, SessionAgrees, SessionWaits,
                            SessionRecord
<1> QED
  BY <1>2, <1>3

(* Who has agreed to what: a session with options sends or acknowledges a     *)
(* block only to a client that has taken them over, and the client answers   *)
(* only the session it has accepted (setOptions, OACKPacket::handleClient).  *)
THEOREM AgreementInvariant == Spec => [](TypeInv /\ AgreeInv)
BY TypeInit, TypeStep, AgreeInit, AgreeStep, PTL DEF Spec

(* Whatever options a session asks for and is granted, whenever the answer   *)
(* to its OACK comes, and however many sessions a repeated request makes,    *)
(* whoever receives a block cuts the file as its sender does (setOptions).   *)
THEOREM AgreedBlockSizeHolds == Spec => []AgreedBlockSize
BY AgreementInvariant, AgreeSafe, PTL

-----------------------------------------------------------------------------
(* Uploads: the blocks. *)

(* The sizes are numbers a file can be cut by.                               *)
LEMMA SizeTypes ==
  ASSUME FewBlocks, NEW size \in Sizes, size \in Nat
  PROVE  size > 0 /\ Len(Source) < (BlockMod - 1) * size
<1>1. Len(Source) \in Nat /\ Len(Source) < (BlockMod - 1) * size /\ BlockMod - 1 \in Nat
  BY SizeAssumption DEF FewBlocks
<1>2. size # 0
  BY <1>1
<1> QED
  BY <1>1, <1>2

(* The block after one that the file has in full has the next number.        *)
LEMMA NextInFile ==
  ASSUME NEW size \in Nat, size > 0, Len(Source) < (BlockMod - 1) * size,
         NEW b \in BlockNumber, b * size <= Len(Source)
  PROVE  NextBlock(b) = b + 1
<1>1. /\ b \in Nat /\ BlockMod \in Nat /\ BlockMod > 1 /\ b < BlockMod /\ Len(Source) \in Nat
  BY SizeAssumption DEF BlockNumber
<1>2. b * size < (BlockMod - 1) * size
  <2>1. b * size \in Nat /\ (BlockMod - 1) * size \in Nat
    BY <1>1
  <2> QED BY <1>1, <2>1
<1>3. b # BlockMod - 1
  BY <1>1, <1>2
<1>4. b + 1 \in 0 .. BlockMod - 1
  BY <1>1, <1>3
<1> QED
  BY <1>1, <1>4 DEF NextBlock

(* What is read at the place of block b, and where the block after it is.    *)
LEMMA BlockInFile ==
  ASSUME NEW size \in Nat, size > 0, NEW b \in Nat, b >= 1,
         (b - 1) * size <= Len(Source)
  PROVE  LET data == ReadAt(Source, (b - 1) * size, size)
         IN /\ data \in Seq(Nat) /\ Len(data) <= size
            /\ (b - 1) * size \in Nat
            /\ (b - 1) * size + Len(data) <= Len(Source)
            /\ \A i \in 1 .. Len(data) : data[i] = Source[(b - 1) * size + i]
            /\ Len(data) >= size => /\ Len(data) = size
                                    /\ (b - 1) * size + Len(data) = b * size
                                    /\ b * size <= Len(Source)
            /\ Len(data) < size => (b - 1) * size + Len(data) = Len(Source)
<1> DEFINE pos == (b - 1) * size
           data == ReadAt(Source, pos, size)
<1>1. /\ pos \in Nat /\ Source \in Seq(Nat) /\ Len(Source) \in Nat /\ pos <= Len(Source)
  BY Numbers
<1>2. pos + size = b * size
  <2>1. b - 1 \in Nat /\ (b - 1) + 1 = b
    OBVIOUS
  <2> QED BY <2>1, Distribute
<1> HIDE DEF pos
<1>3. /\ data \in Seq(Nat)
      /\ Len(data) = IF pos + size <= Len(Source) THEN size ELSE Len(Source) - pos
      /\ \A i \in 1 .. Len(data) : data[i] = Source[pos + i]
  BY <1>1, ReadAtType, ZenonT(30)
<1> HIDE DEF data
<1> SUFFICES /\ data \in Seq(Nat) /\ Len(data) <= size
             /\ pos \in Nat
             /\ pos + Len(data) <= Len(Source)
             /\ \A i \in 1 .. Len(data) : data[i] = Source[pos + i]
             /\ Len(data) >= size => /\ Len(data) = size
                                     /\ pos + Len(data) = b * size
                                     /\ b * size <= Len(Source)
             /\ Len(data) < size => pos + Len(data) = Len(Source)
  BY DEF pos, data
<1> QED
  BY <1>1, <1>2, <1>3

(* A write at the end of what a file holds appends to it: the file holds the *)
(* The bytes are those that Source has from a place on.                      *)
PieceOfSource(data, pos) ==
  /\ pos + Len(data) <= Len(Source)
  /\ \A i \in 1 .. Len(data) : data[i] = Source[pos + i]

(* beginning of Source still, and all of it after a block that is not full.  *)
LEMMA WriteNext ==
  ASSUME NEW file \in Seq(Nat), PrefixOfSource(file), NEW pos, pos = Len(file),
         NEW data \in Seq(Nat), PieceOfSource(data, pos),
         NEW new, new = WriteAt(file, pos, data)
  PROVE  /\ PrefixOfSource(new) /\ Len(new) = pos + Len(data)
         /\ pos + Len(data) = Len(Source) => new = Source
<1> DEFINE end == pos + Len(data)
<1>0. end <= Len(Source) /\ \A i \in 1 .. Len(data) : data[i] = Source[pos + i]
  BY DEF PieceOfSource
<1>1. /\ pos \in Nat /\ Len(data) \in Nat /\ end \in Nat /\ Source \in Seq(Nat)
      /\ \A i \in 1 .. Len(file) : file[i] = Source[i]
  BY Numbers DEF PrefixOfSource
<1>2. new = [i \in 1 .. end |-> IF i \in pos + 1 .. end THEN data[i - pos]
                                ELSE IF i <= Len(file) THEN file[i] ELSE 0]
  <2>1. (IF end > Len(file) THEN end ELSE Len(file)) = end
    BY <1>1
  <2> QED BY <2>1 DEF WriteAt
<1>3. new \in Seq(Nat)
  BY <1>1, WriteAtType
<1>4. Len(new) = end
  <2>1. DOMAIN new = 1 .. end
    BY <1>2
  <2> QED BY <1>1, <1>3, <2>1, LenProperties
<1> HIDE DEF end
<1>5. ASSUME NEW i \in 1 .. end PROVE new[i] = Source[i]
  <2>1. CASE i <= pos
    <3>1. i \notin pos + 1 .. end /\ i \in 1 .. Len(file) /\ i <= Len(file)
      BY <1>1, <2>1
    <3>2. new[i] = file[i]
      BY <1>2, <3>1
    <3> QED BY <1>1, <3>1, <3>2
  <2>2. CASE i > pos
    <3>1. i \in pos + 1 .. end /\ i - pos \in 1 .. Len(data) /\ pos + (i - pos) = i
      BY <1>1, <2>2 DEF end
    <3>2. new[i] = data[i - pos]
      BY <1>2, <3>1
    <3>3. data[i - pos] = Source[pos + (i - pos)]
      BY <1>0, <3>1
    <3> QED BY <3>1, <3>2, <3>3
  <2> QED BY <1>1, <2>1, <2>2
<1>6. PrefixOfSource(new)
  BY <1>0, <1>4, <1>5 DEF PrefixOfSource
<1>7. end = Len(Source) => new = Source
  BY <1>1, <1>3, <1>4, <1>5, SeqEqual
<1> QED
  BY <1>4, <1>6, <1>7 DEF end

-----------------------------------------------------------------------------
(* Uploads: the client. *)

(* What the invariants say of a state in which the client uploads.           *)
Uploading == TypeInv /\ AgreeInv /\ UploadInv /\ client.type = "WRITE"

(* The packets of an upload that say nothing of a block.                     *)
LEMMA NoBlock ==
  ASSUME NEW x, x.op = "ERROR" \/ (x.op = "ACK" /\ x.src # Client /\ x.block = 0)
                \/ (x.op \in {"RRQ", "WRQ", "OACK"} /\
                      (Has(x.opts, "blksize") => x.opts["blksize"] \in Sizes))
  PROVE  InUpload(x) /\ InUpload(x)'
BY DEF InUpload

(* A step of the client leaves the packets of an upload as they are: no      *)
(* block is in flight when the client takes over the size of its blocks.     *)
LEMMA UploadForClient ==
  ASSUME TypeInv, ClientChanges, client'.type = client.type, server' = server,
         NEW m, IsPacket(m), Fits(m), InUpload(m)
  PROVE  InUpload(m)'
<1>1. \A t \in Tids : Partner(t) => Partner(t)' /\ client'.blockSize = client.blockSize
  BY PartnerKept DEF Partner, FinalSize
<1>2. client'.blockSize = client.blockSize =>
        \A b : UploadBlock(b)' = UploadBlock(b) /\ EndsUpload(b)' = EndsUpload(b)
  BY DEF UploadBlock, EndsUpload
<1>3. m.op = "DATA" => Partner(m.dst) /\ m.dst \in Tids
  BY AnswersSession DEF Fits, InUpload, IsPacket, Routed
<1> QED
  BY <1>1, <1>2, <1>3 DEF InUpload

(* A client that has read up to block b reads it.                            *)
LEMMA ClientReadsUpload ==
  ASSUME FewBlocks, NEW m, NEW b \in BlockNumber, b >= 1, ClientReads(m, b),
         client'.blockSize \in Sizes, client'.blockSize \in Nat,
         client.pos = (b - 1) * client'.blockSize, client.pos <= Len(Source)
  PROVE  /\ client'.state \in {"WAITING_ACK", "WAITING_LAST_ACK"}
         /\ client'.state = "WAITING_ACK" =>
              client'.pos = client'.block * client'.blockSize /\ client'.pos <= Len(Source)
         /\ client'.state = "WAITING_LAST_ACK" =>
              client'.block >= 1 /\ EndsUpload(client.block)'
         /\ \E p : /\ InUpload(p)'
                   /\ Retains(client.last, client'.last, p) /\ Replies(Client, p)
<1> DEFINE B == client'.blockSize
           data == ReadAt(Source, (b - 1) * B, B)
<1>0. B \in Nat /\ B > 0 /\ b \in Nat
  BY SizeTypes DEF BlockNumber
<1>1. /\ client'.state = IF Len(data) < B THEN "WAITING_LAST_ACK" ELSE "WAITING_ACK"
      /\ client'.block = b /\ client'.pos = (b - 1) * B + Len(data)
      /\ Retains(client.last, client'.last, Data(Client, m.src, b, data))
      /\ Replies(Client, Data(Client, m.src, b, data))
  BY DEF ClientReads
<1>2. UploadBlock(b)' = data
  BY DEF UploadBlock
<1>3. /\ data \in Seq(Nat)
      /\ Len(data) >= B => (b - 1) * B + Len(data) = b * B /\ b * B <= Len(Source)
  BY <1>0, BlockInFile
<1>4. PICK p : p = Data(Client, m.src, b, data)
  OBVIOUS
<1> HIDE DEF B, data
<1>5. p.op = "DATA" /\ p.src = Client /\ p.block = b /\ p.data = data
  BY <1>4 DEF Data
<1>6. InUpload(p)'
  BY <1>2, <1>5, Ports DEF InUpload
<1>7. EndsUpload(client.block)' <=> Len(data) < B
  BY <1>1 DEF EndsUpload, UploadBlock, B, data
<1>8. /\ Len(data) \in Nat /\ B \in Nat
  BY <1>0, <1>3
<1> QED
  BY <1>1, <1>3, <1>4, <1>6, <1>7, <1>8 DEF B

(* The client's steps keep an upload in order. *)
LEMMA ClientUploads ==
  ASSUME Uploading, FewBlocks, TypeInv', ClientChanges, client'.type = client.type,
         server' = server
  PROVE  (\A x \in net' : InUpload(x)') /\ Sends(client)'
<1>0. TypeInv /\ AgreeInv /\ UploadInv /\ client.type = "WRITE"
  BY DEF Uploading
<1>1. \A x \in net \cup ({client.last} \ {None}) : InUpload(x)'
  <2> SUFFICES ASSUME NEW x \in net \cup ({client.last} \ {None}) PROVE InUpload(x)'
    OBVIOUS
  <2>1. IsPacket(x) /\ Fits(x) /\ InUpload(x)
    BY <1>0, Ends DEF AgreeInv, ClientAgrees, UploadInv, Sends
  <2> QED BY <1>0, <2>1, UploadForClient
<1>2. \A x : Complains(Client, x) => InUpload(x)'
  BY NoBlock DEF Complains
<1>3. ASSUME NEW p, InUpload(p)', Retains(client.last, client'.last, p), Replies(Client, p)
      PROVE  (\A x \in net' : InUpload(x)') /\ (client'.last # None => InUpload(client.last)')
  BY <1>1, <1>2, <1>3 DEF Retains, Replies
<1>4. ASSUME client'.last = client.last, Quiets(Client)
      PROVE  (\A x \in net' : InUpload(x)') /\ (client'.last # None => InUpload(client.last)')
  <2>1. PICK x : x = client.last
    OBVIOUS
  <2> QED BY <1>1, <1>2, <1>4, <2>1 DEF Quiets
<1>5. /\ client.blockSize \in Sizes /\ client.blockSize \in Nat
      /\ client.block \in BlockNumber /\ client.pos \in Nat
      /\ client'.blockSize \in Nat /\ client \in ClientRecord
      /\ client.srcTID \in Tids \cup {None}
      /\ Has(client.options, "blksize") => client.options["blksize"] \in Sizes
      /\ Sends(client)
  <2>1. client \in ClientRecord /\ client' \in ClientRecord
    BY <1>0, Ends DEF TypeInv, IsClient
  <2> QED BY <1>0, <2>1, ClientFields DEF UploadInv, Sends
<1>6. /\ BlockMod \in Nat /\ BlockMod > 1 /\ 1 \in BlockNumber /\ Len(Source) \in Nat
      /\ NextBlock(0) = 1
  BY SizeAssumption DEF NextBlock, BlockNumber
<1>7. \A m \in net : AtClient(m) =>
        /\ m.src \in Tids /\ m.src # None /\ InUpload(m) /\ Fits(m)
  BY <1>0, PeerTypes, Ports DEF AtClient, UploadInv, AgreeInv
<1>8. CASE ClientBegins
  <2>0. PICK p : p = Request(client.type, Listener, client.options)
    OBVIOUS
  <2>1. p.op \in {"RRQ", "WRQ"} /\ p.opts = client.options
    BY <2>0 DEF Request
  <2>2. InUpload(p)'
    BY <1>5, <2>1, NoBlock
  <2>3. /\ client.state = "FREE" /\ client'.state \in {"INITIAL", "WAITING_OACK"}
        /\ client'.block = 0 /\ client'.pos = client.pos
        /\ client'.options = client.options /\ client'.blockSize = client.blockSize
        /\ Retains(client.last, client'.last, p) /\ Replies(Client, p)
    BY <1>0, <1>8, <2>0 DEF ClientBegins
  <2>4. (\A x \in net' : InUpload(x)') /\ (client'.last # None => InUpload(client.last)')
    BY <1>3, <2>2, <2>3
  <2> QED BY <1>5, <2>3, <2>4 DEF Sends, Undecided
<1>9. CASE ClientFails
  <2>1. /\ client'.state \in {"ERROR", "CRASHED"}
        /\ client'.options = client.options /\ client'.blockSize = client.blockSize
    BY <1>0, <1>9 DEF ClientFails
  <2>0. PICK p : p = Request(client.type, Listener, client.options)
    OBVIOUS
  <2>2. InUpload(p)'
    <3>1. p.op \in {"RRQ", "WRQ"} /\ p.opts = client.options
      BY <2>0 DEF Request
    <3> QED BY <1>5, <3>1, NoBlock
  <2>3. (\A x \in net' : InUpload(x)') /\ (client'.last # None => InUpload(client.last)')
    BY <1>3, <1>4, <1>9, <2>0, <2>2 DEF ClientFails
  <2> QED BY <1>5, <2>1, <2>3 DEF Sends, Undecided
<1>10. CASE ClientStays
  <2>1. /\ client.state \in Waiting /\ client'.state = client.state
        /\ client'.block = client.block /\ client'.pos = client.pos
        /\ client'.options = client.options /\ client'.blockSize = client.blockSize
        /\ client'.srcTID = client.srcTID /\ client'.last = client.last
        /\ Quiets(Client) \/ (client.last # None /\ Replies(Client, client.last))
    BY <1>10 DEF ClientStays
  <2>2. (\A x \in net' : InUpload(x)') /\ (client'.last # None => InUpload(client.last)')
    <3>1. PICK x : x = client.last
      OBVIOUS
    <3> QED BY <1>1, <1>2, <2>1, <3>1 DEF Quiets, Replies
  <2>3. \A b : EndsUpload(b)' <=> EndsUpload(b)
    BY <2>1 DEF EndsUpload, UploadBlock
  <2>4. client'.state = "WAITING_LAST_ACK" => client'.block >= 1 /\ EndsUpload(client.block)'
    <3>1. PICK b : b = client.block
      OBVIOUS
    <3> QED BY <1>5, <2>1, <2>3, <3>1 DEF Sends
  <2> QED BY <1>5, <2>1, <2>2, <2>4 DEF Sends, Undecided, Waiting
<1>11. ~ClientStores
  BY <1>7 DEF ClientStores, InUpload
<1>12. ASSUME NEW m \in net, AtClient(m), NEW b \in BlockNumber, b >= 1, ClientReads(m, b),
              client'.blockSize \in Sizes,
              client.pos = (b - 1) * client'.blockSize, client.pos <= Len(Source),
              Has(client'.options, "blksize") => client'.options["blksize"] \in Sizes
       PROVE  (\A x \in net' : InUpload(x)') /\ Sends(client)'
  <2>1. /\ client'.state \in {"WAITING_ACK", "WAITING_LAST_ACK"}
        /\ client'.state = "WAITING_ACK" =>
             client'.pos = client'.block * client'.blockSize /\ client'.pos <= Len(Source)
        /\ client'.state = "WAITING_LAST_ACK" =>
             client'.block >= 1 /\ EndsUpload(client.block)'
        /\ \E p : /\ InUpload(p)'
                  /\ Retains(client.last, client'.last, p) /\ Replies(Client, p)
    BY <1>5, <1>12, ClientReadsUpload
  <2>2. (\A x \in net' : InUpload(x)') /\ (client'.last # None => InUpload(client.last)')
    BY <1>3, <2>1
  <2> QED BY <1>12, <2>1, <2>2 DEF Sends, Undecided
<1>13. client.state \in Undecided => /\ client.block = 0 /\ client.pos = 0
                                     /\ \A k \in Nat : client.pos = (1 - 1) * k
  BY <1>5 DEF Sends
<1>14. CASE ClientSendsNext
  <2>1. PICK m \in net :
          /\ AtClient(m) /\ m.op = "ACK"
          /\ client.state \in {"INITIAL", "WAITING_ACK", "WAITING_OACK"}
          /\ client'.options = client.options /\ client'.blockSize = client.blockSize
          /\ ClientReads(m, IF client.state = "WAITING_ACK" THEN NextBlock(client.block) ELSE 1)
    BY <1>14 DEF ClientSendsNext, SameClient
  <2>2. CASE client.state = "WAITING_ACK"
    <3>1. /\ client.pos = client.block * client.blockSize /\ client.pos <= Len(Source)
      BY <1>5, <2>2 DEF Sends
    <3>2. client.blockSize > 0 /\ Len(Source) < (BlockMod - 1) * client.blockSize
      BY <1>5, SizeTypes
    <3>3. NextBlock(client.block) = client.block + 1
      BY <1>5, <3>1, <3>2, NextInFile
    <3>4. /\ client.block + 1 \in BlockNumber /\ client.block + 1 >= 1
          /\ (client.block + 1) - 1 = client.block
      BY <1>5, <3>3, NextBlockType DEF BlockNumber
    <3> QED BY <1>5, <1>12, <2>1, <2>2, <3>1, <3>3, <3>4
  <2>3. CASE client.state # "WAITING_ACK"
    <3>1. client.state \in Undecided
      BY <2>1, <2>3 DEF Undecided
    <3> QED BY <1>5, <1>6, <1>12, <1>13, <2>1, <2>3, <3>1
  <2> QED BY <2>2, <2>3
<1>15. CASE ClientEnds
  <2>1. PICK m \in net :
          /\ AtClient(m) /\ m.op = "ACK" /\ client.state = "WAITING_LAST_ACK"
          /\ m.block = client.block /\ client'.state = "WRQ_END"
          /\ client'.last = client.last /\ Quiets(Client)
          /\ client'.options = client.options /\ client'.blockSize = client.blockSize
          /\ client'.srcTID = m.src
    BY <1>15 DEF ClientEnds, SameClient
  <2>2. client.block >= 1 /\ EndsUpload(client.block)
    BY <1>5, <2>1 DEF Sends
  <2>3. m.src \in Tids /\ m.src # None /\ server[m.src].state = "WRQ_END"
    BY <1>7, <2>1, <2>2 DEF InUpload
  <2>4. (\A x \in net' : InUpload(x)') /\ (client'.last # None => InUpload(client.last)')
    BY <1>4, <2>1
  <2> QED BY <1>5, <2>1, <2>3, <2>4 DEF Sends, Undecided
<1>16. CASE ClientAccepts
  <2>1. PICK m \in net :
          /\ AtClient(m) /\ m.op = "OACK" /\ client.state = "WAITING_OACK"
          /\ TakesOptions(m) /\ ClientReads(m, NextBlock(client.block))
    BY <1>0, <1>16 DEF ClientAccepts
  <2>2. client.block = 0 /\ client.state \in Undecided
    BY <1>13, <2>1 DEF Undecided
  <2>3. Has(m.opts, "blksize") => m.opts["blksize"] \in Sizes
    BY <1>7, <2>1 DEF InUpload
  <2>4. /\ client'.blockSize \in Sizes
        /\ Has(client'.options, "blksize") => client'.options["blksize"] \in Sizes
    BY <1>5, <2>1, <2>3 DEF TakesOptions
  <2> QED BY <1>5, <1>6, <1>12, <1>13, <2>1, <2>2, <2>4
<1>17. CASE ClientRepeats
  <2>0. PICK q : q = [client.last EXCEPT !.opts = NoOptions]
    OBVIOUS
  <2>1. /\ client.state = "WAITING_OACK" /\ client.last # None
        /\ client'.state = "WAITING_ACK" /\ client'.block = client.block
        /\ client'.pos = client.pos
        /\ client'.options = client.options /\ client'.blockSize = client.blockSize
        /\ client'.last = q /\ Replies(Client, q)
    BY <1>0, <1>17, <2>0 DEF ClientRepeats
  <2>2. client.last \in Packet /\ client.last.op \in {"RRQ", "WRQ"}
    BY <1>0, <2>1, Ends DEF AgreeInv, ClientAgrees, IsPacket
  <2>3. q.op \in {"RRQ", "WRQ"} /\ q.opts = NoOptions
    BY <2>0, <2>2, RequestKept
  <2>4. InUpload(q)'
    BY <2>3, NoBlock DEF Has, NoOptions, OptionName
  <2>5. \A x \in net' : InUpload(x)'
    BY <1>1, <1>2, <2>1, <2>4 DEF Replies
  <2>6. client.block = 0 /\ client.pos = 0 /\ 0 = 0 * client.blockSize
    BY <1>5, <1>13, <2>1 DEF Undecided
  <2> QED BY <1>5, <1>6, <2>1, <2>4, <2>5, <2>6 DEF Sends, Undecided
<1> QED
  BY <1>8, <1>9, <1>10, <1>11, <1>14, <1>15, <1>16, <1>17 DEF ClientChanges

-----------------------------------------------------------------------------
(* Uploads: the sessions. *)

(* A session that has stored the whole file is at its end.                   *)
LEMMA EndStays ==
  ASSUME TypeInv, NEW t \in Tids, SessionChanges(t), NEW u \in Tids,
         server[u].state = "WRQ_END"
  PROVE  server'[u].state = "WRQ_END"
<1>1. CASE u = t
  BY <1>1 DEF SessionChanges, SessionMade, SessionRefused, SessionOpens, SessionOffers,
              SessionReads, SessionStores, SessionFinishes, SessionFails, SessionStays,
              Answers, AtSession, SessionWaits, Waiting
<1>2. CASE u # t
  BY <1>2 DEF SessionChanges
<1> QED
  BY <1>1, <1>2

(* A step of a session leaves the packets of an upload as they are.          *)
LEMMA UploadForSession ==
  ASSUME TypeInv, NEW t \in Tids, SessionChanges(t), client' = client,
         NEW m, IsPacket(m), Fits(m), InUpload(m)
  PROVE  InUpload(m)'
<1>1. \A u \in Tids : Made(server[u]) /\ Partner(u) => Partner(u)'
  BY RequestStays DEF Partner
<1>2. \A b : UploadBlock(b)' = UploadBlock(b) /\ EndsUpload(b)' = EndsUpload(b)
  BY DEF UploadBlock, EndsUpload
<1>3. m.src \in Tids /\ m.op = "ACK" => Made(server[m.src])
  BY DEF Fits
<1>4. \A u \in Tids : server[u].state = "WRQ_END" => server'[u].state = "WRQ_END"
  BY EndStays
<1> QED
  BY <1>1, <1>2, <1>3, <1>4 DEF InUpload

(* What a session may do while the client uploads.                           *)
Receives(t, s, r) ==
  \/ SessionMade(t, s, r) /\ r.type = "WRITE" /\ dir = None
  \/ SessionRefused(t, s, r) \/ SessionOpens(t, s, r)
  \/ SessionStores(t, s, r) \/ SessionFails(t, s, r) \/ SessionStays(t, s, r)

(* No session reads a file while the client uploads one.                     *)
LEMMA OnlyReceives ==
  ASSUME Uploading, NEW t \in Tids, SessionChanges(t)
  PROVE  /\ Receives(t, server[t], server'[t])
         /\ Made(server[t]) => server[t].type = "WRITE"
<1> DEFINE s == server[t]
           r == server'[t]
<1>1. /\ TypeInv /\ SessionAgrees(s) /\ SessionUploads(t) /\ client.type = "WRITE"
      /\ \A m \in net : Fits(m)
  BY DEF Uploading, AgreeInv, UploadInv
<1>2. Made(s) => s.type = "WRITE"
  BY <1>1 DEF SessionAgrees
<1> HIDE DEF s, r
<1>3. ~SessionOffers(t, s, r) /\ ~SessionReads(t, s, r)
  BY <1>2 DEF SessionOffers, SessionReads, Made
<1>4. ~SessionFinishes(t, s, r)
  BY <1>1 DEF SessionFinishes, SessionUploads, s
<1>5. ASSUME SessionMade(t, s, r) PROVE r.type = "WRITE" /\ dir = None
  <2>1. PICK m \in net :
          /\ m.op \in {"RRQ", "WRQ"}
          /\ r = Session("INITIAL", IF m.op = "RRQ" THEN "READ" ELSE "WRITE", m.opts, m.src)
          /\ IF m.op = "RRQ" THEN dir # None ELSE dir = None
    BY <1>5 DEF SessionMade
  <2>2. m.op = "WRQ"
    BY <1>1, <2>1 DEF Fits
  <2> QED BY <2>1, <2>2 DEF Session
<1> QED
  BY <1>2, <1>3, <1>4, <1>5 DEF SessionChanges, Receives, s, r

(* A block that session t stores is the one it waits for, and the client's.  *)
LEMMA StoredBlock ==
  ASSUME Uploading, NEW t \in Tids, NEW m, Answers(t, m), m.op = "DATA",
         m.block = server[t].block
  PROVE  /\ server[t].block >= 1 /\ Partner(t) /\ IsPacket(m) /\ m.data \in Seq(Nat)
         /\ AnsweredSize(server[t]) = FinalSize(server[t])
         /\ client.blockSize = FinalSize(server[t])
         /\ m.data = ReadAt(Source, (server[t].block - 1) * FinalSize(server[t]),
                            FinalSize(server[t]))
         /\ EndsUpload(server[t].block) <=> Len(m.data) < FinalSize(server[t])
<1>1. /\ Fits(m) /\ Made(server[t]) /\ Partner(t) /\ IsPacket(m)
      /\ AnsweredSize(server[t]) = FinalSize(server[t])
      /\ client.blockSize = FinalSize(server[t])
  BY AnswerOfPartner DEF Uploading
<1>2. InUpload(m)
  BY DEF Uploading, UploadInv, Answers
<1>3. m.block >= 1 /\ m.data = UploadBlock(m.block)
  BY <1>2 DEF InUpload
<1>4. m.data \in Seq(Nat)
  BY <1>1, PacketFields DEF IsPacket
<1> QED
  BY <1>1, <1>3, <1>4 DEF UploadBlock, EndsUpload

(* The packets that session t sends and keeps are those of an upload.        *)
LEMMA SessionSendsUpload ==
  ASSUME Uploading, NEW t \in Tids, SessionChanges(t), client' = client
  PROVE  (\A x \in net' : InUpload(x)') /\ (server'[t].last # None => InUpload(server[t].last)')
<1> DEFINE s == server[t]
           r == server'[t]
           Goal == /\ \A x \in net' : InUpload(x)'
                   /\ \A x : x = r.last /\ x # None => InUpload(x)'
<1> SUFFICES Goal
  OBVIOUS
<1>0. /\ TypeInv /\ SessionUploads(t) /\ SessionAgrees(s)
      /\ s \in SessionRecord /\ s.block \in BlockNumber
  BY Ends, SessionFields DEF Uploading, UploadInv, AgreeInv
<1>1. \A x \in net \cup ({s.last} \ {None}) : InUpload(x)'
  <2> SUFFICES ASSUME NEW x \in net \cup ({s.last} \ {None}) PROVE InUpload(x)'
    OBVIOUS
  <2>1. IsPacket(x) /\ Fits(x) /\ InUpload(x)
    BY <1>0, Ends DEF Uploading, AgreeInv, SessionAgrees, UploadInv, SessionUploads
  <2> QED BY <1>0, <2>1, UploadForSession
<1>2. \A x : Complains(t, x) => InUpload(x)'
  BY NoBlock DEF Complains
<1>3. ASSUME NEW p, InUpload(p)', Retains(s.last, r.last, p), Replies(t, p) PROVE Goal
  BY <1>1, <1>2, <1>3 DEF Retains, Replies
<1>4. ASSUME r.last = s.last \/ r.last = None, Quiets(t) PROVE Goal
  BY <1>1, <1>2, <1>4 DEF Quiets
<1> HIDE DEF Goal, r
<1>5. CASE SessionMade(t, s, r)
  <2>1. r.last = None /\ Quiets(t)
    BY <1>5 DEF SessionMade, Session
  <2> QED BY <1>4, <2>1
<1>6. CASE SessionRefused(t, s, r) \/ SessionFails(t, s, r)
  <2>1. r.last = s.last /\ Quiets(t)
    BY <1>0, <1>6 DEF SessionRefused, SessionFails, SessionRecord
  <2> QED BY <1>4, <2>1
<1>7. CASE SessionOpens(t, s, r)
  <2>1. PICK p : p = IF s.options = NoOptions THEN Ack(t, s.dst, 0) ELSE Oack(t, s.dst, s.options)
    OBVIOUS
  <2>2. Retains(s.last, r.last, p) /\ Replies(t, p)
    BY <1>7, <2>1 DEF SessionOpens
  <2>3. \/ p.op = "ACK" /\ p.src = t /\ p.block = 0
        \/ p.op = "OACK" /\ p.opts = s.options
    BY <2>1 DEF Ack, Oack
  <2>4. InUpload(p)'
    BY <1>0, <2>3, NoBlock, Ports DEF SessionUploads
  <2> QED BY <1>3, <2>2, <2>4
<1>8. CASE SessionStores(t, s, r)
  <2>1. PICK m :
          /\ Answers(t, m) /\ m.op = "DATA" /\ m.block = s.block
          /\ Lands(r, IF Len(m.data) < r.blockSize THEN "WRQ_END" ELSE s.state)
          /\ s.state \in {"WAITING_DATA", "WAITING_AFTER_OACK"}
          /\ r.blockSize = AnsweredSize(s)
          /\ Retains(s.last, r.last, Ack(t, Client, s.block))
          /\ Replies(t, Ack(t, Client, s.block))
    BY <1>8 DEF SessionStores
  <2>2. /\ Partner(t) /\ r.blockSize = FinalSize(s)
        /\ EndsUpload(s.block) => Len(m.data) < r.blockSize
    BY <2>1, StoredBlock
  <2>3. EndsUpload(s.block) => r.state = "WRQ_END"
    BY <2>1, <2>2 DEF Lands, Waiting
  <2>4. PICK p : p = Ack(t, Client, s.block)
    OBVIOUS
  <2>5. p.op = "ACK" /\ p.src = t /\ p.block = s.block
    BY <2>4 DEF Ack
  <2>6. PICK b : b = s.block
    OBVIOUS
  <2>7. EndsUpload(b)' => r.state = "WRQ_END"
    BY <2>3, <2>6 DEF EndsUpload, UploadBlock
  <2>8. Partner(t)'
    <3>1. Made(s)
      BY <2>1 DEF Answers, AtSession, SessionWaits, Made, Waiting
    <3> QED BY <1>0, <2>2, <3>1, RequestStays DEF Partner
  <2>9. InUpload(p)'
    BY <2>5, <2>6, <2>7, <2>8, Ports DEF InUpload, r
  <2> QED BY <1>3, <2>1, <2>4, <2>9
<1>9. CASE SessionStays(t, s, r)
  <2>1. r.last = s.last /\ (Quiets(t) \/ (s.last # None /\ Replies(t, s.last)))
    BY <1>9 DEF SessionStays
  <2>2. PICK x : x = s.last
    OBVIOUS
  <2> QED BY <1>1, <1>2, <1>4, <2>1, <2>2 DEF Replies, Goal
<1> QED
  BY <1>5, <1>6, <1>7, <1>8, <1>9, OnlyReceives DEF Receives, r

(* A session opens a file once, and only removes the name after that.        *)
LEMMA OpensOnce ==
  ASSUME Uploading, NEW t \in Tids, SessionChanges(t)
  PROVE  LET s == server[t]
             r == server'[t]
         IN \/ SessionOpens(t, s, r)
            \/ /\ r.ino = s.ino /\ dir' = NameAfter(r, dir)
               /\ \A u \in Tids \cup {Old} : s.ino # u => inode'[u] = inode[u]
<1> DEFINE s == server[t]
           r == server'[t]
<1>0. /\ TypeInv /\ SessionAgrees(s) /\ s \in SessionRecord
      /\ inode \in [Tids \cup {Old} -> Seq(Nat)]
      /\ Made(s) => s.type = "WRITE"
  BY Ends, OnlyReceives DEF Uploading, AgreeInv, TypeInv, TypeOK
<1> HIDE DEF s, r
<1>1. CASE SessionMade(t, s, r)
  <2>1. s.state = "FREE" /\ r.ino = None /\ r.state = "INITIAL" /\ dir' = dir /\ inode' = inode
    BY <1>1 DEF SessionMade, Session
  <2> QED BY <1>0, <2>1 DEF SessionAgrees, Made, NameAfter, s, r
<1>2. CASE SessionRefused(t, s, r)
  <2>1. r.ino = s.ino /\ r.state = "REFUSED" /\ dir' = dir /\ inode' = inode
    BY <1>0, <1>2 DEF SessionRefused, SessionRecord
  <2> QED BY <2>1 DEF NameAfter, s, r
<1>3. CASE SessionStores(t, s, r)
  <2>1. PICK m : /\ r.ino = s.ino /\ dir' = NameAfter(r, dir)
                 /\ inode' = [inode EXCEPT ![s.ino] = WriteAt(@, s.pos, m.data)]
    BY <1>3 DEF SessionStores, SameSession
  <2> QED BY <1>0, <2>1 DEF s, r
<1>4. CASE SessionFails(t, s, r)
  <2>1. s.type = "WRITE"
    BY <1>0, <1>4 DEF SessionFails, Made, Waiting
  <2> QED BY <1>4, <2>1 DEF SessionFails, FilesKept, s, r
<1>5. CASE SessionStays(t, s, r)
  BY <1>5 DEF SessionStays, SameSession, FilesKept, s, r
<1> QED
  BY <1>1, <1>2, <1>3, <1>4, <1>5, OnlyReceives DEF Receives, s, r

(* The file of the name was made by the session on its port.                 *)
Named == dir \in Tids => server[dir].ino = dir

(* The steps of a session keep it so. *)
LEMMA SessionNames ==
  ASSUME Uploading, Named, NEW t \in Tids, SessionChanges(t)
  PROVE  Named'
<1> DEFINE s == server[t]
           r == server'[t]
<1>1. \A u \in Tids \ {t} : server'[u] = server[u]
  BY DEF SessionChanges
<1>2. CASE SessionOpens(t, s, r)
  <2>1. r.ino = (IF dir = None THEN t ELSE dir) /\ dir' \in {None, r.ino}
    BY <1>2 DEF SessionOpens, NameAfter
  <2> QED BY <1>1, <2>1, Ports DEF Named
<1>3. CASE r.ino = s.ino /\ dir' = NameAfter(r, dir)
  <2>1. dir' \in {None, dir}
    BY <1>3 DEF NameAfter
  <2> QED BY <1>1, <1>3, <2>1, Ports DEF Named
<1> QED
  BY <1>2, <1>3, OpensOnce

(* A session that no other one disturbs keeps its file while others run.     *)
LEMMA OthersKeep ==
  ASSUME Uploading, NEW t \in Tids, SessionChanges(t), NEW u \in Tids \ {t},
         server'[u].ino # None, Alone(u)'
  PROVE  Keeping(u)'
<1> DEFINE s == server[t]
           r == server'[t]
<1>1. /\ server'[u] = server[u] /\ server[u].ino # None /\ r.ino = None
      /\ \A v \in Tids \ {t} : server'[v] = server[v]
  BY DEF SessionChanges, Alone
<1>2. ~SessionOpens(t, s, r)
  BY <1>1, Ports DEF SessionOpens
<1>3. /\ s.ino = None /\ dir' = NameAfter(r, dir) /\ inode'[u] = inode[u]
  BY <1>1, <1>2, OpensOnce, Ports
<1>4. dir' = dir
  BY <1>1, <1>3 DEF NameAfter
<1>5. Alone(u)
  BY <1>1, <1>3 DEF Alone
<1>6. Keeping(u)
  BY <1>1, <1>5 DEF Uploading, UploadInv, SessionUploads
<1> QED
  BY <1>1, <1>3, <1>4, <1>6 DEF Keeping, FinalSize

(* A block that is stored goes where it belongs.                             *)
LEMMA BlockStored ==
  ASSUME Uploading, FewBlocks, TypeInv', NEW t \in Tids, client' = client,
         SessionStores(t, server[t], server'[t]), Keeping(t)
  PROVE  Keeping(t)'
<1> DEFINE s == server[t]
           r == server'[t]
           F == FinalSize(s)
           file == inode[t]
<1>1. PICK m :
        /\ Answers(t, m) /\ m.op = "DATA" /\ m.block = s.block
        /\ s.type = "WRITE" /\ s.state \in {"WAITING_DATA", "WAITING_AFTER_OACK"}
        /\ Lands(r, IF Len(m.data) < r.blockSize THEN "WRQ_END" ELSE s.state)
        /\ SameSession(r, s) /\ r.blockSize = AnsweredSize(s)
        /\ r.block = NextBlock(s.block) /\ r.pos = s.pos + Len(m.data)
        /\ inode' = [inode EXCEPT ![s.ino] = WriteAt(@, s.pos, m.data)]
        /\ dir' = NameAfter(r, dir)
  BY DEF SessionStores
<1>2. /\ s.block >= 1 /\ m.data \in Seq(Nat) /\ r.blockSize = F
      /\ m.data = ReadAt(Source, (s.block - 1) * F, F)
      /\ client.blockSize = F
  BY <1>1, StoredBlock
<1>3. /\ s.ino = t /\ dir = t /\ PrefixOfSource(file)
      /\ s.pos = Len(file) /\ Len(file) = (s.block - 1) * F
  BY <1>1 DEF Keeping
<1>4. /\ F \in Nat /\ F > 0 /\ Len(Source) < (BlockMod - 1) * F
  <2>1. client.blockSize \in Nat /\ client.blockSize \in Sizes
    BY Ends, ClientFields DEF Uploading, UploadInv, Sends
  <2> QED BY <1>2, <2>1, SizeTypes
<1>5. /\ file \in Seq(Nat) /\ s.block \in BlockNumber /\ s.block \in Nat
      /\ inode \in [Tids \cup {Old} -> Seq(Nat)]
  BY Ends, SessionFields DEF Uploading, TypeInv, TypeOK, BlockNumber
<1>6. (s.block - 1) * F <= Len(Source)
  BY <1>3 DEF PrefixOfSource
<1> HIDE DEF s, r, F, file
<1>7. /\ (s.block - 1) * F + Len(m.data) <= Len(Source)
      /\ \A i \in 1 .. Len(m.data) : m.data[i] = Source[(s.block - 1) * F + i]
      /\ Len(m.data) >= F => /\ (s.block - 1) * F + Len(m.data) = s.block * F
                             /\ s.block * F <= Len(Source)
      /\ Len(m.data) < F => (s.block - 1) * F + Len(m.data) = Len(Source)
  <2> DEFINE d == ReadAt(Source, (s.block - 1) * F, F)
  <2>1. /\ (s.block - 1) * F + Len(d) <= Len(Source)
        /\ \A i \in 1 .. Len(d) : d[i] = Source[(s.block - 1) * F + i]
        /\ Len(d) >= F => /\ (s.block - 1) * F + Len(d) = s.block * F
                          /\ s.block * F <= Len(Source)
        /\ Len(d) < F => (s.block - 1) * F + Len(d) = Len(Source)
    BY <1>2, <1>4, <1>5, <1>6, BlockInFile
  <2>2. m.data = d
    BY <1>2
  <2> HIDE DEF d
  <2> QED BY <2>1, <2>2
<1>0. PICK new : new = WriteAt(file, s.pos, m.data)
  OBVIOUS
<1>8. /\ PrefixOfSource(new) /\ Len(new) = s.pos + Len(m.data)
      /\ s.pos + Len(m.data) = Len(Source) => new = Source
  <2>1. /\ s.pos + Len(m.data) <= Len(Source)
        /\ \A i \in 1 .. Len(m.data) : m.data[i] = Source[s.pos + i]
        /\ file \in Seq(Nat) /\ PrefixOfSource(file) /\ s.pos = Len(file)
        /\ m.data \in Seq(Nat)
    BY <1>2, <1>3, <1>5, <1>7
  <2>2. PICK f, p, d : f = file /\ p = s.pos /\ d = m.data
    OBVIOUS
  <2>3. /\ f \in Seq(Nat) /\ PrefixOfSource(f) /\ p = Len(f) /\ d \in Seq(Nat)
        /\ PieceOfSource(d, p) /\ new = WriteAt(f, p, d)
    BY <1>0, <2>1, <2>2 DEF PieceOfSource
  <2>4. /\ PrefixOfSource(new) /\ Len(new) = p + Len(d)
        /\ p + Len(d) = Len(Source) => new = Source
    BY <2>3, WriteNext
  <2> QED BY <2>2, <2>4
<1>9. inode'[t] = new
  BY <1>0, <1>1, <1>3, <1>5 DEF file
<1>10. /\ r.ino = t /\ r.type = "WRITE" /\ FinalSize(r) = F
  BY <1>1, <1>3 DEF SameSession, FinalSize, F
<1>11. dir' = IF r.state = "ERROR" THEN None ELSE t
  BY <1>1, <1>3, <1>10, Ports DEF NameAfter
<1>12. r.state = "WRQ_END" => new = Source
  BY <1>1, <1>2, <1>3, <1>7, <1>8 DEF Lands
<1>13. ASSUME r.state \in {"WAITING_DATA", "WAITING_AFTER_OACK"}
       PROVE  /\ r.block >= 1 /\ r.pos = Len(new)
              /\ Len(new) = (r.block - 1) * F
  <2>1. Len(m.data) >= F
    BY <1>1, <1>2, <1>4, <1>13 DEF Lands
  <2>2. s.block * F <= Len(Source) /\ Len(new) = s.block * F
    BY <1>3, <1>7, <1>8, <2>1
  <2>3. r.block = s.block + 1
    BY <1>1, <1>4, <1>5, <2>2, NextInFile
  <2> QED BY <1>1, <1>2, <1>5, <1>8, <2>2, <2>3
<1> QED
  BY <1>8, <1>9, <1>10, <1>11, <1>12, <1>13 DEF Keeping, r

(* The size the blocks have is a number.                                     *)
LEMMA FinalSizeType ==
  ASSUME NEW s \in SessionRecord
  PROVE  FinalSize(s) \in Nat
<1>1. s.options \in Options
  BY SessionFields
<1> QED
  BY <1>1, SizeAssumption DEF FinalSize, Has, Options, OptionName

(* The file of the name is that of session t if it opens it alone.           *)
LEMMA OpensItsOwn ==
  ASSUME Uploading, NEW t \in Tids, SessionChanges(t), SessionOpens(t, server[t], server'[t]),
         Alone(t)'
  PROVE  (IF dir = None THEN t ELSE dir) = t
<1>1. Made(server[t])
  BY DEF SessionOpens, Made
<1>2. dir \in Tids \cup {None}
  BY <1>1 DEF Uploading, UploadInv, SessionUploads, TypeInv, TypeOK
<1>3. ASSUME dir \in Tids, dir # t PROVE FALSE
  <2>1. server[dir].ino = dir
    BY <1>3 DEF Uploading, UploadInv
  <2>2. server'[dir].ino = dir
    BY <1>3, <2>1 DEF SessionChanges
  <2>3. server'[dir].ino = None
    BY <1>3 DEF Alone
  <2> QED BY <1>3, <2>2, <2>3, Ports
<1> QED
  BY <1>2, <1>3

(* A session that no other one disturbs keeps its file.                      *)
LEMMA SessionKeepsFile ==
  ASSUME Uploading, FewBlocks, TypeInv', NEW t \in Tids, SessionChanges(t), client' = client,
         server'[t].ino # None, Alone(t)'
  PROVE  Keeping(t)'
<1> DEFINE s == server[t]
           r == server'[t]
           file == inode'[t]
           Kept == /\ r.ino = t
                   /\ dir' = IF r.state = "ERROR" THEN None ELSE t
                   /\ PrefixOfSource(file)
                   /\ r.state = "WRQ_END" => file = Source
                   /\ r.state \in {"WAITING_DATA", "WAITING_AFTER_OACK"} =>
                        /\ r.block >= 1 /\ r.pos = Len(file)
                        /\ Len(file) = (r.block - 1) * FinalSize(r)
<1>1. /\ TypeInv /\ SessionAgrees(s) /\ SessionUploads(t) /\ FinalSize(r) \in Nat
      /\ Made(s) => s.type = "WRITE"
      /\ inode \in [Tids \cup {Old} -> Seq(Nat)]
      /\ s \in SessionRecord
  BY Ends, FinalSizeType, OnlyReceives DEF Uploading, AgreeInv, UploadInv, TypeInv, TypeOK
<1>2. ASSUME s.ino = r.ino PROVE Keeping(t)
  <2>1. Alone(t)
    BY DEF SessionChanges, Alone
  <2> QED BY <1>1, <1>2, <2>1 DEF SessionUploads
<1> HIDE DEF s, r, file
<1>3. ASSUME SessionMade(t, s, r) PROVE Kept
  BY <1>3 DEF SessionMade, Session, r
<1>4. ASSUME SessionRefused(t, s, r) PROVE Kept
  <2>1. r.ino = s.ino /\ s.state = "FREE"
    BY <1>1, <1>4 DEF SessionRefused, SessionRecord
  <2> QED BY <1>1, <2>1 DEF SessionAgrees, Made, r
<1>5. ASSUME SessionOpens(t, s, r) PROVE Kept
  <2>1. (IF dir = None THEN t ELSE dir) = t
    BY <1>5, OpensItsOwn DEF s, r
  <2>2. /\ r.ino = t /\ r.type = "WRITE" /\ r.block = 1 /\ r.pos = s.pos
        /\ s.state = "INITIAL" /\ inode' = [inode EXCEPT ![t] = <<>>]
        /\ dir' = NameAfter(r, t)
        /\ r.state \in {"WAITING_DATA", "WAITING_AFTER_OACK", "ERROR"}
    BY <1>5, <2>1 DEF SessionOpens, Lands
  <2>3. file = <<>> /\ s.pos = 0
    BY <1>1, <2>2 DEF file, SessionUploads, s
  <2>4. dir' = IF r.state = "ERROR" THEN None ELSE t
    BY <2>2, Ports DEF NameAfter
  <2>5. PrefixOfSource(file) /\ Len(file) = 0
    BY <2>3, SizeAssumption DEF PrefixOfSource
  <2>6. (1 - 1) * FinalSize(r) = 0
    BY <1>1
  <2> QED BY <2>2, <2>3, <2>4, <2>5, <2>6
<1>6. ASSUME SessionStores(t, s, r) PROVE Kept
  <2>1. r.ino = s.ino
    BY <1>6 DEF SessionStores, SameSession
  <2>2. Keeping(t)
    BY <1>2, <2>1
  <2>3. Keeping(t)'
    BY <1>6, <2>2, BlockStored DEF s, r
  <2> QED BY <2>3 DEF Keeping, FinalSize, r, file
<1>7. ASSUME /\ s.state \in Waiting /\ r.ino = s.ino /\ r.type = "WRITE" /\ FilesKept(r)
             /\ r.options = s.options
             /\ \/ r.state \in {"ERROR", "THROWN"}
                \/ r.state = s.state /\ r.block = s.block /\ r.pos = s.pos
      PROVE  Kept
  <2>1. /\ s.ino = t /\ dir = t /\ PrefixOfSource(inode[t])
        /\ s.state \in {"WAITING_DATA", "WAITING_AFTER_OACK"} =>
             /\ s.block >= 1 /\ s.pos = Len(inode[t])
             /\ Len(inode[t]) = (s.block - 1) * FinalSize(s)
    BY <1>2, <1>7 DEF Keeping, Waiting, s
  <2>2. file = inode[t] /\ FinalSize(r) = FinalSize(s)
    BY <1>7 DEF FilesKept, file, FinalSize
  <2>3. dir' = IF r.state = "ERROR" THEN None ELSE t
    BY <1>7, <2>1, Ports DEF FilesKept, NameAfter
  <2>4. r.state # "WRQ_END"
    BY <1>7 DEF Waiting
  <2> QED BY <1>7, <2>1, <2>2, <2>3, <2>4
<1>8. ASSUME SessionFails(t, s, r) PROVE Kept
  <2>1. Made(s) /\ s.state \in Waiting
    BY <1>8 DEF SessionFails, Made, Waiting
  <2>2. /\ s.type = "WRITE" /\ r.type = "WRITE" /\ r.options = s.options
        /\ r.ino = s.ino /\ FilesKept(r) /\ r.state \in {"ERROR", "THROWN"}
    BY <1>1, <1>8, <2>1 DEF SessionFails
  <2> QED BY <1>7, <2>1, <2>2
<1>9. ASSUME SessionStays(t, s, r) PROVE Kept
  <2>1. s.state \in Waiting /\ Made(s)
    BY <1>9 DEF SessionStays, SessionWaits, s, Made, Waiting
  <2>2. /\ r.type = "WRITE" /\ r.options = s.options /\ r.ino = s.ino /\ FilesKept(r)
        /\ \/ r.state = "ERROR"
           \/ r.state = s.state /\ r.block = s.block /\ r.pos = s.pos
    BY <1>1, <1>9, <2>1 DEF SessionStays, SameSession, Lands
  <2> QED BY <1>7, <2>1, <2>2
<1> HIDE DEF Kept
<1>10. Kept
  BY <1>3, <1>4, <1>5, <1>6, <1>8, <1>9, OnlyReceives DEF Receives, s, r
<1> QED
  BY <1>10 DEF Kept, Keeping, FinalSize, s, r, file

(* The name refers to the file of an upload once a session is made.          *)
LEMMA NameLeftAlone ==
  ASSUME Uploading, NEW t \in Tids, SessionChanges(t), dir # Old
  PROVE  dir' # Old
<1> DEFINE s == server[t]
           r == server'[t]
<1>1. CASE SessionOpens(t, s, r)
  <2>1. dir' \in {None, IF dir = None THEN t ELSE dir}
    BY <1>1 DEF SessionOpens, NameAfter
  <2> QED BY <2>1, Ports, PortAssumption
<1>2. CASE dir' = NameAfter(r, dir)
  BY <1>2, PortAssumption DEF NameAfter
<1> QED
  BY <1>1, <1>2, OpensOnce

(* What the steps of session t leave of it. *)
LEMMA SessionUploadsOn ==
  ASSUME Uploading, FewBlocks, TypeInv', NEW t \in Tids, SessionChanges(t), client' = client
  PROVE  SessionUploads(t)'
<1> DEFINE s == server[t]
           r == server'[t]
           Right == /\ Has(r.options, "blksize") => r.options["blksize"] \in Sizes
                    /\ Made(r) => dir' # Old
                    /\ r.state = "INITIAL" => r.pos = 0
                    /\ r.state \notin {"WAITING_ACK", "WAITING_LAST_ACK", "WAITING_OACK", "RRQ_END"}
<1>1. /\ TypeInv /\ SessionAgrees(s) /\ s \in SessionRecord
      /\ Has(s.options, "blksize") => s.options["blksize"] \in Sizes
      /\ Made(s) => dir # Old
      /\ s.state \notin {"WAITING_ACK", "WAITING_LAST_ACK", "WAITING_OACK", "RRQ_END"}
      /\ \A m \in net : InUpload(m) /\ Fits(m)
      /\ client.type = "WRITE"
  BY Ends DEF Uploading, AgreeInv, UploadInv, SessionUploads
<1> HIDE DEF s, r
<1>2. ASSUME SessionMade(t, s, r) PROVE Right
  <2>1. PICK m \in net :
          /\ m.op \in {"RRQ", "WRQ"}
          /\ r = Session("INITIAL", IF m.op = "RRQ" THEN "READ" ELSE "WRITE", m.opts, m.src)
          /\ IF m.op = "RRQ" THEN dir # None ELSE dir = None
          /\ dir' = dir
    BY <1>2 DEF SessionMade
  <2>2. r.state = "INITIAL" /\ r.options = m.opts /\ r.pos = 0
    BY <2>1 DEF Session
  <2>3. m.op = "WRQ"
    BY <1>1, <2>1 DEF Fits
  <2> QED BY <1>1, <2>1, <2>2, <2>3, Ports DEF InUpload
<1>3. ASSUME SessionRefused(t, s, r) PROVE Right
  <2>1. r.state = "REFUSED" /\ r.options = s.options
    BY <1>1, <1>3 DEF SessionRefused, SessionRecord
  <2> QED BY <1>1, <2>1 DEF Made
<1>4. ASSUME Made(s), r.options = s.options,
             r.state \in {"WAITING_DATA", "WAITING_AFTER_OACK", "WRQ_END", "ERROR", "THROWN"}
      PROVE  Right
  BY <1>1, <1>4, NameLeftAlone
<1>5. ASSUME SessionOpens(t, s, r) PROVE Right
  <2>1. Made(s) /\ r.options = s.options /\ r.state \in {"WAITING_DATA", "WAITING_AFTER_OACK", "ERROR"}
    BY <1>5 DEF SessionOpens, Lands, Made
  <2> QED BY <1>4, <2>1
<1>6. ASSUME SessionStores(t, s, r) PROVE Right
  <2>1. Made(s) /\ r.options = s.options /\ r.state \in {"WAITING_DATA", "WAITING_AFTER_OACK", "WRQ_END", "ERROR"}
    BY <1>6 DEF SessionStores, SameSession, Lands, Made
  <2> QED BY <1>4, <2>1
<1>7. ASSUME SessionFails(t, s, r) PROVE Right
  <2>1. Made(s) /\ r.options = s.options /\ r.state \in {"ERROR", "THROWN"}
    BY <1>7 DEF SessionFails, Made, Waiting
  <2> QED BY <1>4, <2>1
<1>8. ASSUME SessionStays(t, s, r) PROVE Right
  <2>1. Made(s) /\ r.options = s.options
        /\ r.state \in {"WAITING_DATA", "WAITING_AFTER_OACK", "ERROR"}
    BY <1>1, <1>8 DEF SessionStays, SessionWaits, SameSession, Lands, Made, Waiting, s
  <2> QED BY <1>4, <2>1
<1> HIDE DEF Right
<1>9. Right
  BY <1>2, <1>3, <1>5, <1>6, <1>7, <1>8, OnlyReceives DEF Receives, s, r
<1>10. /\ r.last # None => InUpload(server[t].last)'
       /\ r.ino # None /\ Alone(t)' => Keeping(t)'
  BY SessionSendsUpload, SessionKeepsFile DEF r
<1> QED
  BY <1>9, <1>10 DEF SessionUploads, Right, Made, r

(* And of the others. *)
LEMMA OthersUpload ==
  ASSUME Uploading, NEW t \in Tids, SessionChanges(t), client' = client, NEW u \in Tids \ {t}
  PROVE  SessionUploads(u)'
<1> DEFINE s == server[u]
<1>1. server'[u] = s /\ TypeInv /\ SessionUploads(u)
  BY DEF Uploading, UploadInv, SessionChanges
<1>2. Made(s) => dir' # Old
  BY <1>1, NameLeftAlone DEF SessionUploads
<1>3. PICK x : x = s.last
  OBVIOUS
<1>4. x # None => IsPacket(x) /\ Fits(x) /\ InUpload(x)
  BY <1>1, <1>3, Ends DEF Uploading, AgreeInv, SessionAgrees, SessionUploads
<1>5. x # None => InUpload(x)'
  BY <1>1, <1>4, UploadForSession
<1>6. server'[u].last # None => InUpload(server[u].last)'
  BY <1>1, <1>3, <1>5
<1>7. server'[u].ino # None /\ Alone(u)' => Keeping(u)'
  BY OthersKeep
<1> QED
  BY <1>1, <1>2, <1>6, <1>7 DEF SessionUploads, Made

(* The client's upload is not touched by a session's step. *)
LEMMA SendsForSession ==
  ASSUME Uploading, NEW t \in Tids, SessionChanges(t), client' = client
  PROVE  Sends(client)'
<1>1. TypeInv /\ Sends(client)
  BY DEF Uploading, UploadInv
<1>2. PICK x : x = client.last
  OBVIOUS
<1>3. x # None => IsPacket(x) /\ Fits(x) /\ InUpload(x)
  BY <1>1, <1>2, Ends DEF Uploading, AgreeInv, ClientAgrees, Sends
<1>4. x # None => InUpload(x)'
  BY <1>1, <1>3, UploadForSession
<1>5. client'.last # None => InUpload(client.last)'
  BY <1>2, <1>4
<1>6. client.state = "WRQ_END" =>
        client.srcTID # None /\ server'[client.srcTID].state = "WRQ_END"
  BY <1>1, Ends, EndStays DEF Sends
<1>7. client.state = "WAITING_LAST_ACK" => client.block >= 1 /\ EndsUpload(client.block)'
  <2>1. PICK b : b = client.block
    OBVIOUS
  <2>2. EndsUpload(b) = EndsUpload(b)'
    BY DEF EndsUpload, UploadBlock
  <2> QED BY <1>1, <2>1, <2>2 DEF Sends
<1> QED
  BY <1>1, <1>5, <1>6, <1>7 DEF Sends

-----------------------------------------------------------------------------
(* Uploads: the invariant. *)

(* The invariant holds when nothing has been sent.                           *)
LEMMA UploadInit == Init => UploadInv
<1> SUFFICES ASSUME Init PROVE UploadInv
  OBVIOUS
<1>1. PICK opts \in ClientOptions, type \in Types : client = NewClient(type, opts)
  BY DEF Init, ClientInit
<1>2. /\ net = {} /\ client.state = "FREE" /\ client.last = None
      /\ client.blockSize = BlockSize /\ client.options = opts
      /\ client.block = 0 /\ client.pos = 0
  BY <1>1 DEF Init, NetworkInit, NewClient
<1>3. Sends(client)
  BY <1>2 DEF Sends, Sizes, Has
<1>4. \A t \in Tids : server[t] = Session("FREE", "READ", NoOptions, None)
  BY DEF Init, ServerInit
<1>5. \A t \in Tids : /\ server[t].state = "FREE" /\ server[t].last = None
                      /\ server[t].ino = None /\ server[t].options = NoOptions
  BY <1>4 DEF Session
<1>6. \A t \in Tids : SessionUploads(t)
  BY <1>5 DEF SessionUploads, Made, Has, NoOptions, OptionName
<1>7. dir \notin Tids
  BY Ports DEF Init, ServerInit
<1> QED
  BY <1>2, <1>3, <1>6, <1>7 DEF UploadInv

(* The steps of the client keep the files, and what sessions have of them.   *)
LEMMA SessionsForClient ==
  ASSUME Uploading, ClientChanges, client'.type = client.type, UNCHANGED serverVars,
         NEW u \in Tids
  PROVE  SessionUploads(u)'
<1>1. server' = server /\ dir' = dir /\ inode' = inode /\ TypeInv /\ SessionUploads(u)
  BY DEF serverVars, Uploading, UploadInv
<1>2. PICK x : x = server[u].last
  OBVIOUS
<1>3. x # None => IsPacket(x) /\ Fits(x) /\ InUpload(x)
  BY <1>1, <1>2, Ends DEF Uploading, AgreeInv, SessionAgrees, SessionUploads
<1>4. x # None => InUpload(x)'
  BY <1>1, <1>3, UploadForClient
<1>5. server'[u].last # None => InUpload(server[u].last)'
  BY <1>1, <1>2, <1>4
<1>6. (Keeping(u) <=> Keeping(u)') /\ (Alone(u) <=> Alone(u)')
  BY <1>1 DEF Keeping, FinalSize, Alone
<1> QED
  BY <1>1, <1>5, <1>6 DEF SessionUploads, Made

(* A server that crashes leaves the files as they are.                       *)
LEMMA CrashUploads ==
  ASSUME Uploading, ServerFails, client' = client
  PROVE  UploadInv'
<1>1. /\ TypeInv /\ AgreeInv /\ UploadInv /\ client.type = "WRITE"
      /\ net' = net /\ dir' = dir /\ inode' = inode
  BY DEF Uploading, ServerFails
<1>2. \A u \in Tids :
        /\ server'[u].state = IF server[u].state \in Waiting THEN "CRASHED" ELSE server[u].state
        /\ server'[u].options = server[u].options /\ server'[u].ino = server[u].ino
        /\ server'[u].last = server[u].last
        /\ server'[u].pos = server[u].pos /\ server'[u].block = server[u].block
  BY <1>1, CrashLeaves
<1>3. \A u \in Tids : /\ Made(server'[u]) <=> Made(server[u])
                      /\ FinalSize(server'[u]) = FinalSize(server[u])
                      /\ Partner(u) => Partner(u)'
                      /\ server[u].state = "WRQ_END" => server'[u].state = "WRQ_END"
  BY <1>2 DEF Made, FinalSize, Partner, Waiting
<1>4. \A b : UploadBlock(b)' = UploadBlock(b) /\ EndsUpload(b)' = EndsUpload(b)
  BY DEF UploadBlock, EndsUpload
<1>5. \A x : InUpload(x) => InUpload(x)'
  BY <1>3, <1>4 DEF InUpload
<1>6. Sends(client)'
  <2>1. PICK x, b : x = client.last /\ b = client.block
    OBVIOUS
  <2>2. (x # None => InUpload(x)') /\ (EndsUpload(b) => EndsUpload(b)')
    BY <1>1, <1>4, <1>5, <2>1 DEF UploadInv, Sends
  <2>3. (client'.last # None => InUpload(client.last)')
        /\ (EndsUpload(client.block) => EndsUpload(client.block)')
    BY <2>1, <2>2
  <2> QED BY <1>1, <1>3, <2>3, Ends DEF UploadInv, Sends
<1>7. ASSUME NEW u \in Tids PROVE SessionUploads(u)'
  <2>1. SessionUploads(u)
    BY <1>1 DEF UploadInv
  <2>2. PICK x : x = server[u].last
    OBVIOUS
  <2>3. server'[u].last # None => InUpload(server[u].last)'
    BY <1>2, <1>5, <2>1, <2>2 DEF SessionUploads
  <2>4. Alone(u)' => Alone(u)
    BY <1>2 DEF Alone
  <2>5. Keeping(u) => Keeping(u)'
    BY <1>1, <1>2, <1>3 DEF Keeping, Waiting
  <2> QED BY <1>1, <1>2, <1>3, <2>1, <2>3, <2>4, <2>5 DEF SessionUploads, Waiting
<1>8. dir' \in Tids => server'[dir'].ino = dir'
  BY <1>1, <1>2 DEF UploadInv
<1> QED
  BY <1>1, <1>5, <1>6, <1>7, <1>8 DEF UploadInv

(* Every step keeps the upload right. *)
LEMMA UploadStep ==
  ASSUME FewBlocks, TypeInv, TypeInv', AgreeInv, UploadInv, [Next]_vars
  PROVE  UploadInv'
<1>1. client'.type = client.type
  BY StepsOnly DEF clientVars
<1> SUFFICES ASSUME client.type = "WRITE" PROVE UploadInv'
  BY <1>1 DEF UploadInv
<1>2. Uploading
  BY DEF Uploading
<1>3. CASE ClientChanges /\ UNCHANGED serverVars
  <2>1. server' = server /\ dir' = dir
    BY <1>3 DEF serverVars
  <2>2. (\A x \in net' : InUpload(x)') /\ Sends(client)'
    BY <1>1, <1>2, <1>3, <2>1, ClientUploads
  <2>3. \A u \in Tids : SessionUploads(u)'
    BY <1>1, <1>2, <1>3, SessionsForClient
  <2> QED BY <2>1, <2>2, <2>3 DEF UploadInv
<1>4. ASSUME NEW t \in Tids, SessionChanges(t), UNCHANGED clientVars PROVE UploadInv'
  <2>1. client' = client
    BY <1>4 DEF clientVars
  <2>2. (\A x \in net' : InUpload(x)') /\ Sends(client)'
    BY <1>2, <1>4, <2>1, SessionSendsUpload, SendsForSession
  <2>3. \A u \in Tids : SessionUploads(u)'
    BY <1>2, <1>4, <2>1, SessionUploadsOn, OthersUpload
  <2>4. Named'
    BY <1>2, <1>4, SessionNames DEF UploadInv, Named
  <2> QED BY <2>2, <2>3, <2>4 DEF UploadInv, Named
<1>5. CASE ServerFails /\ UNCHANGED clientVars
  BY <1>2, <1>5, CrashUploads DEF clientVars
<1>6. CASE /\ UNCHANGED <<client, local, server, dir, inode>>
           /\ \A x \in net' : \/ x \in net
                              \/ \E y \in Strangers, t \in Tids : x = Ack(y, t, 0)
  <2>1. \A x : InUpload(x) => InUpload(x)'
    BY <1>6 DEF InUpload, UploadBlock, EndsUpload, Partner, FinalSize
  <2>2. \A y \in Strangers, t \in Tids : InUpload(Ack(y, t, 0))'
    <3>1. \A y \in Strangers, t \in Tids : LET p == Ack(y, t, 0)
                                           IN p.op = "ACK" /\ p.src # Client /\ p.block = 0
      BY Ports DEF Ack
    <3> QED BY <3>1, NoBlock
  <2>3. \A x \in net' : InUpload(x)'
    BY <1>6, <2>1, <2>2 DEF UploadInv
  <2>4. Sends(client)'
    BY <1>6 DEF UploadInv, Sends, InUpload, UploadBlock, EndsUpload, Partner, FinalSize
  <2>5. \A u \in Tids : SessionUploads(u)'
    <3>1. \A u \in Tids : (Alone(u) <=> Alone(u)') /\ (Keeping(u) => Keeping(u)')
      BY <1>6 DEF Alone, Keeping, FinalSize
    <3>2. SUFFICES ASSUME NEW u \in Tids PROVE SessionUploads(u)'
      OBVIOUS
    <3>3. PICK x : x = server[u].last
      OBVIOUS
    <3>4. server'[u].last # None => InUpload(server[u].last)'
      BY <1>6, <2>1, <3>3 DEF UploadInv, SessionUploads
    <3> QED BY <1>6, <3>1, <3>4 DEF UploadInv, SessionUploads, Made
  <2> QED BY <1>6, <2>3, <2>4, <2>5 DEF UploadInv
<1> QED
  BY <1>3, <1>4, <1>5, <1>6, StepsOnly

(* What the invariant says of the files. *)
LEMMA UploadSafe == TypeInv /\ AgreeInv /\ UploadInv => UploadIntact
<1> SUFFICES ASSUME TypeInv, AgreeInv, UploadInv, NEW t \in Tids,
                    server[t].type = "WRITE", server[t].ino # None, Alone(t)
             PROVE  /\ PrefixOfSource(inode[t])
                    /\ server[t].state = "WRQ_END" => dir = t /\ inode[t] = Source
                    /\ server[t].state = "ERROR" => dir = None
  BY DEF UploadIntact
<1>1. client.type = "WRITE"
  BY DEF AgreeInv, SessionAgrees
<1>2. Keeping(t)
  BY <1>1 DEF UploadInv, SessionUploads
<1> QED
  BY <1>2 DEF Keeping

(* In an upload every DATA packet carries the block its number says, and a    *)
(* session that is left alone with its file has stored the blocks before the *)
(* one it waits for (DataPacket::handleServer, ServerSession::exit).         *)
THEOREM UploadInvariant ==
  ASSUME FewBlocks
  PROVE  Spec => [](TypeInv /\ AgreeInv /\ UploadInv)
<1>1. TypeInv /\ AgreeInv /\ UploadInv /\ TypeInv' /\ [Next]_vars => UploadInv'
  BY UploadStep
<1> QED
  BY <1>1, AgreementInvariant, UploadInit, PTL DEF Spec

(* An upload is all or nothing for the session that stores it, however many  *)
(* sessions and faults there are and whatever options are asked for, if the  *)
(* file has fewer blocks than there are block numbers.                       *)
THEOREM UploadCorrect ==
  ASSUME FewBlocks
  PROVE  Spec => []UploadIntact
BY UploadInvariant, UploadSafe, PTL

-----------------------------------------------------------------------------
(* Uploads: what FileTransfer sees of one that has a single session. *)

StoredFile == IF dir = Only THEN inode[Only] ELSE None
StorerVerdict ==
  IF server[Only].state \in {"FREE", "INITIAL"} THEN "idle" ELSE Verdict(server[Only])
UploaderVerdicts ==
  [p \in Tids \cup {Client} |-> IF p = Client THEN Verdict(client) ELSE "running"]

(* A step that takes the mapped variables from one state to the next is the  *)
(* step of FileTransfer that does.                                           *)
LEMMA MappedUpload ==
  ASSUME client.type = "WRITE", client'.type = "WRITE"
  PROVE  /\ /\ StorerVerdict = "idle" /\ StorerVerdict' = "running"
            /\ StoredFile' = <<>> /\ UNCHANGED UploaderVerdicts
            => Promise!Begin
         /\ /\ StorerVerdict = "running"
            /\ \E n \in Len(StoredFile) .. Len(Source) : StoredFile' = SubSeq(Source, 1, n)
            /\ UNCHANGED <<StorerVerdict, UploaderVerdicts>>
            => Promise!Extend
         /\ /\ StorerVerdict = "running" /\ StorerVerdict' = "done"
            /\ StoredFile' = Source /\ UNCHANGED UploaderVerdicts
            => Promise!Complete
         /\ /\ StorerVerdict \in {"idle", "running"} /\ StorerVerdict' = "failed"
            /\ StoredFile' = None /\ UNCHANGED UploaderVerdicts
            => Promise!Abort
         /\ /\ StorerVerdict = "running" /\ StorerVerdict' = "crashed"
            /\ UNCHANGED <<StoredFile, UploaderVerdicts>>
            => Promise!Crash
         /\ /\ \E S \in SUBSET {p \in Tids \cup {Client} : UploaderVerdicts[p] = "running"} :
                 UploaderVerdicts' = [p \in Tids \cup {Client} |->
                                        IF p \in S THEN "crashed" ELSE UploaderVerdicts[p]]
            /\ UNCHANGED <<StoredFile, StorerVerdict>>
            => Promise!CrashSenders
         /\ /\ StorerVerdict = "done" /\ UploaderVerdicts[Client] = "running"
            /\ UploaderVerdicts' = [UploaderVerdicts EXCEPT ![Client] = "done"]
            /\ UNCHANGED <<StoredFile, StorerVerdict>>
            => Promise!Succeed(Client)
         /\ /\ UploaderVerdicts[Client] = "running"
            /\ UploaderVerdicts' = [UploaderVerdicts EXCEPT ![Client] = "failed"]
            /\ UNCHANGED <<StoredFile, StorerVerdict>>
            => Promise!GiveUp(Client)
         /\ UNCHANGED <<StoredFile, StorerVerdict, UploaderVerdicts>>
            => UNCHANGED Promise!vars
<1> DEFINE copy == Stored
           receiver == IF Receiver.state = "FREE" \/ (client.type = "WRITE" /\ Receiver.state = "INITIAL")
                       THEN "idle" ELSE Verdict(Receiver)
           sender == [p \in Tids \cup {Client} |->
                        IF client.type = "READ" /\ p \in Tids THEN Verdict(server[p])
                        ELSE IF client.type = "WRITE" /\ p = Client THEN Verdict(client)
                        ELSE "running"]
<1>1. copy = StoredFile /\ copy' = StoredFile'
  BY DEF Stored, StoredFile
<1>2. receiver = StorerVerdict /\ receiver' = StorerVerdict'
  BY DEF Receiver, StorerVerdict
<1>3. sender = UploaderVerdicts /\ sender' = UploaderVerdicts'
  BY DEF UploaderVerdicts
<1>4. /\ StorerVerdict = "idle" /\ StorerVerdict' = "running"
      /\ StoredFile' = <<>> /\ UNCHANGED UploaderVerdicts
      => Promise!Begin
  BY <1>1, <1>2, <1>3 DEF Promise!Begin, copy, receiver, sender
<1>5. /\ StorerVerdict = "running"
      /\ \E n \in Len(StoredFile) .. Len(Source) : StoredFile' = SubSeq(Source, 1, n)
      /\ UNCHANGED <<StorerVerdict, UploaderVerdicts>>
      => Promise!Extend
  BY <1>1, <1>2, <1>3 DEF Promise!Extend, copy, receiver, sender
<1>6. /\ StorerVerdict = "running" /\ StorerVerdict' = "done"
      /\ StoredFile' = Source /\ UNCHANGED UploaderVerdicts
      => Promise!Complete
  BY <1>1, <1>2, <1>3 DEF Promise!Complete, copy, receiver, sender
<1>7. /\ StorerVerdict \in {"idle", "running"} /\ StorerVerdict' = "failed"
      /\ StoredFile' = None /\ UNCHANGED UploaderVerdicts
      => Promise!Abort
  BY <1>1, <1>2, <1>3 DEF Promise!Abort, copy, receiver, sender
<1>8. /\ StorerVerdict = "running" /\ StorerVerdict' = "crashed"
      /\ UNCHANGED <<StoredFile, UploaderVerdicts>>
      => Promise!Crash
  BY <1>1, <1>2, <1>3 DEF Promise!Crash, copy, receiver, sender
<1>9. ASSUME /\ \E S \in SUBSET {p \in Tids \cup {Client} : UploaderVerdicts[p] = "running"} :
                  UploaderVerdicts' = [p \in Tids \cup {Client} |->
                                         IF p \in S THEN "crashed" ELSE UploaderVerdicts[p]]
             /\ UNCHANGED <<StoredFile, StorerVerdict>>
      PROVE  Promise!CrashSenders
  <2> HIDE DEF copy, receiver, sender
  <2>1. PICK S \in SUBSET {p \in Tids \cup {Client} : UploaderVerdicts[p] = "running"} :
               UploaderVerdicts' = [p \in Tids \cup {Client} |->
                                      IF p \in S THEN "crashed" ELSE UploaderVerdicts[p]]
    BY <1>9
  <2>2. S \in SUBSET {p \in Tids \cup {Client} : sender[p] = "running"}
    BY <2>1, <1>3
  <2>3. sender' = [p \in Tids \cup {Client} |-> IF p \in S THEN "crashed" ELSE sender[p]]
    BY <2>1, <1>3
  <2>4. UNCHANGED <<copy, receiver>>
    BY <1>1, <1>2, <1>9
  <2> QED BY <2>2, <2>3, <2>4 DEF Promise!CrashSenders, copy, receiver, sender
<1>10. /\ StorerVerdict = "done" /\ UploaderVerdicts[Client] = "running"
       /\ UploaderVerdicts' = [UploaderVerdicts EXCEPT ![Client] = "done"]
       /\ UNCHANGED <<StoredFile, StorerVerdict>>
       => Promise!Succeed(Client)
  BY <1>1, <1>2, <1>3 DEF Promise!Succeed, copy, receiver, sender
<1>11. /\ UploaderVerdicts[Client] = "running"
       /\ UploaderVerdicts' = [UploaderVerdicts EXCEPT ![Client] = "failed"]
       /\ UNCHANGED <<StoredFile, StorerVerdict>>
       => Promise!GiveUp(Client)
  BY <1>1, <1>2, <1>3 DEF Promise!GiveUp, copy, receiver, sender
<1>12. UNCHANGED <<StoredFile, StorerVerdict, UploaderVerdicts>> => UNCHANGED Promise!vars
  BY <1>1, <1>2, <1>3 DEF Promise!vars, copy, receiver, sender
<1> QED
  BY <1>4, <1>5, <1>6, <1>7, <1>8, <1>9, <1>10, <1>11, <1>12

(* A client that uploads goes on, fails, crashes, or succeeds after the      *)
(* session that stores the file.                                             *)
LEMMA UploaderPromise ==
  ASSUME Uploading, Uploading', Tids = {Only}, ClientChanges, UNCHANGED serverVars
  PROVE  Promise!Next \/ UNCHANGED Promise!vars
<1>1. /\ client.type = "WRITE" /\ client'.type = "WRITE" /\ TypeInv /\ UploadInv
      /\ Sends(client)' /\ TypeInv'
  BY DEF Uploading, UploadInv
<1>2. UNCHANGED <<StoredFile, StorerVerdict>> /\ server' = server
  BY DEF StoredFile, StorerVerdict, Verdict, serverVars
<1>3. ~ClientStores
  <2>1. \A m \in net : AtClient(m) => m.op # "DATA"
    BY <1>1, ClientHeardPeer DEF UploadInv, InUpload
  <2> QED BY <2>1 DEF ClientStores
<1>4. /\ client.state \in Waiting \cup {"FREE"}
      /\ client'.state \in Waiting \cup {"ERROR", "CRASHED", "WRQ_END"}
  <2>1. CASE ClientBegins \/ ClientFails \/ ClientStays
    BY <2>1 DEF ClientBegins, ClientFails, ClientStays, Waiting
  <2>2. CASE ClientSendsNext \/ ClientEnds \/ ClientAccepts \/ ClientRepeats
    BY <2>2 DEF ClientSendsNext, ClientEnds, ClientAccepts, ClientRepeats, AtClient,
                ClientReads, Waiting
  <2> QED BY <1>3, <2>1, <2>2 DEF ClientChanges
<1>5. Verdict(client) = "running"
  BY <1>4 DEF Verdict, Waiting
<1>6. UploaderVerdicts[Client] = "running"
  BY <1>5 DEF UploaderVerdicts
<1>7. UploaderVerdicts' = [UploaderVerdicts EXCEPT ![Client] = Verdict(client')]
  <2>1. UploaderVerdicts' =
          [p \in Tids \cup {Client} |-> IF p = Client THEN Verdict(client') ELSE "running"]
    BY DEF UploaderVerdicts, Verdict
  <2> QED BY <2>1 DEF UploaderVerdicts
<1>8. CASE client'.state \in Waiting
  <2>1. Verdict(client') = "running"
    BY <1>8 DEF Verdict, Waiting
  <2>2. UploaderVerdicts' = UploaderVerdicts
    BY <1>6, <1>7, <2>1 DEF UploaderVerdicts
  <2> QED BY <1>1, <1>2, <2>2, MappedUpload
<1>9. CASE client'.state = "ERROR"
  <2>1. Verdict(client') = "failed"
    BY <1>9 DEF Verdict, Waiting
  <2>2. Promise!GiveUp(Client)
    BY <1>1, <1>2, <1>6, <1>7, <2>1, MappedUpload
  <2> QED BY <2>2 DEF Promise!Next
<1>10. CASE client'.state = "CRASHED"
  <2>1. Verdict(client') = "crashed"
    BY <1>10 DEF Verdict, Waiting
  <2>2. {Client} \in SUBSET {p \in Tids \cup {Client} : UploaderVerdicts[p] = "running"}
    BY <1>6
  <2>3. UploaderVerdicts' = [p \in Tids \cup {Client} |->
                               IF p \in {Client} THEN "crashed" ELSE UploaderVerdicts[p]]
    BY <1>7, <2>1 DEF UploaderVerdicts
  <2>4. Promise!CrashSenders
    BY <1>1, <1>2, <2>2, <2>3, MappedUpload
  <2> QED BY <2>4 DEF Promise!Next
<1>11. CASE client'.state = "WRQ_END"
  <2>1. Verdict(client') = "done"
    BY <1>11 DEF Verdict, Waiting
  <2>2. server[client'.srcTID].state = "WRQ_END" /\ client'.srcTID # None
    BY <1>1, <1>2, <1>11 DEF Sends
  <2>3. client'.srcTID \in Tids
    <3>1. client' \in ClientRecord
      BY <1>1 DEF TypeInv, TypeOK
    <3> QED BY <2>2, <3>1 DEF ClientRecord
  <2>4. StorerVerdict = "done"
    <3>1. client'.srcTID = Only
      BY <2>3
    <3>2. server[Only].state = "WRQ_END"
      BY <2>2, <3>1
    <3>3. Verdict(server[Only]) = "done"
      BY <3>2 DEF Verdict, Waiting
    <3> QED BY <3>2, <3>3 DEF StorerVerdict
  <2>5. Promise!Succeed(Client)
    BY <1>1, <1>2, <1>6, <1>7, <2>1, <2>4, MappedUpload
  <2> QED BY <2>5 DEF Promise!Next
<1> QED
  BY <1>4, <1>8, <1>9, <1>10, <1>11

(* The session that stores an upload opens its file, extends or completes    *)
(* it, or fails and leaves none.                                             *)
LEMMA StorerPromise ==
  ASSUME Uploading, Uploading', Tids = {Only}, SessionChanges(Only), UNCHANGED clientVars
  PROVE  Promise!Next \/ UNCHANGED Promise!vars
<1> DEFINE s == server[Only]
           r == server'[Only]
<1>0. client.type = "WRITE" /\ client'.type = "WRITE" /\ client' = client
  BY DEF Uploading, clientVars
<1>1. UNCHANGED UploaderVerdicts
  BY <1>0 DEF UploaderVerdicts, Verdict
<1>2. /\ Only \in Tids /\ TypeInv /\ SessionAgrees(s)
      /\ inode'[Only] \in Seq(Nat) /\ inode[Only] \in Seq(Nat)
      /\ \A m \in net : InUpload(m)
      /\ Receives(Only, s, r) /\ (Made(s) => s.type = "WRITE")
  BY OnlyReceives DEF Uploading, TypeInv, TypeOK, AgreeInv, UploadInv
<1>3. /\ s.ino # None => Keeping(Only)
      /\ r.ino # None => Keeping(Only)'
      /\ dir' = Only => r.ino # None
      /\ ~Made(r) => r.ino = None
  BY <1>2, Ports DEF Uploading, UploadInv, SessionUploads, Alone, AgreeInv, SessionAgrees, Made
<1>4. /\ r.ino # None =>
           /\ dir' = IF r.state = "ERROR" THEN None ELSE Only
           /\ PrefixOfSource(inode'[Only])
           /\ r.state = "WRQ_END" => inode'[Only] = Source
           /\ r.state \in {"WAITING_DATA", "WAITING_AFTER_OACK"} => r.pos = Len(inode'[Only])
      /\ s.ino # None =>
           /\ dir = IF s.state = "ERROR" THEN None ELSE Only
           /\ s.state \in {"WAITING_DATA", "WAITING_AFTER_OACK"} => s.pos = Len(inode[Only])
  BY <1>3 DEF Keeping
<1>5. StorerVerdict = (IF s.state \in {"FREE", "INITIAL"} THEN "idle" ELSE Verdict(s))
      /\ StorerVerdict' = (IF r.state \in {"FREE", "INITIAL"} THEN "idle" ELSE Verdict(r))
      /\ StoredFile = (IF dir = Only THEN inode[Only] ELSE None)
      /\ StoredFile' = (IF dir' = Only THEN inode'[Only] ELSE None)
  BY DEF StorerVerdict, StoredFile, Verdict
<1> HIDE DEF s, r
<1>6. /\ s.state \in {"FREE", "INITIAL"} => StorerVerdict = "idle"
      /\ s.state \in Waiting \ {"INITIAL"} => StorerVerdict = "running"
      /\ r.state \in Waiting \ {"INITIAL"} => StorerVerdict' = "running"
      /\ r.state = "INITIAL" => StorerVerdict' = "idle"
      /\ r.state = "WRQ_END" => StorerVerdict' = "done"
      /\ r.state \in {"ERROR", "REFUSED"} => StorerVerdict' = "failed"
  BY <1>5 DEF Verdict, Waiting
<1>7. ASSUME s.state \in Waiting \cup {"FREE"}, r.state \in {"ERROR", "REFUSED"}
      PROVE  Promise!Next
  <2>1. StoredFile' = None
    BY <1>2, <1>3, <1>4, <1>5, <1>7, Ports DEF Made
  <2>2. StorerVerdict \in {"idle", "running"} /\ StorerVerdict' = "failed"
    BY <1>6, <1>7
  <2> QED BY <1>0, <1>1, <2>1, <2>2, MappedUpload DEF Promise!Next
<1>8. ASSUME dir' = dir, inode' = inode, StorerVerdict' = StorerVerdict
      PROVE  UNCHANGED Promise!vars
  BY <1>0, <1>1, <1>5, <1>8, MappedUpload
<1>9. CASE SessionMade(Only, s, r)
  <2>1. s.state = "FREE" /\ r.state = "INITIAL" /\ dir' = dir /\ inode' = inode
    BY <1>9 DEF SessionMade, Session
  <2> QED BY <1>6, <1>8, <2>1
<1>10. CASE SessionRefused(Only, s, r)
  <2>1. s.state = "FREE" /\ r.state = "REFUSED"
    BY <1>2, <1>10, Ends DEF SessionRefused, SessionRecord, s
  <2> QED BY <1>7, <2>1
<1>11. CASE SessionOpens(Only, s, r)
  <2>1. r.state \in {"WAITING_DATA", "WAITING_AFTER_OACK", "ERROR"} /\ s.state = "INITIAL"
    BY <1>11 DEF SessionOpens, Lands
  <2>2. (IF dir = None THEN Only ELSE dir) = Only
    <3>1. Alone(Only)'
      BY DEF Alone
    <3> QED BY <1>2, <1>11, <3>1, OpensItsOwn DEF s, r
  <2>3. r.ino = Only /\ inode' = [inode EXCEPT ![Only] = <<>>]
    BY <1>11, <2>2 DEF SessionOpens
  <2>4. inode'[Only] = <<>> /\ r.ino # None
    BY <1>2, <2>3, Ports DEF TypeInv, TypeOK
  <2>5. CASE r.state # "ERROR"
    <3>1. StoredFile' = <<>>
      BY <1>4, <1>5, <2>4, <2>5
    <3>2. StorerVerdict = "idle" /\ StorerVerdict' = "running"
      BY <1>6, <2>1, <2>5 DEF Waiting
    <3> QED BY <1>0, <1>1, <3>1, <3>2, MappedUpload DEF Promise!Next
  <2> QED BY <1>7, <2>1, <2>5 DEF Waiting
<1>12. CASE SessionStores(Only, s, r)
  <2>1. PICK m :
          /\ m \in net /\ Answers(Only, m) /\ m.op = "DATA" /\ m.block = s.block
          /\ s.state \in {"WAITING_DATA", "WAITING_AFTER_OACK"}
          /\ r.state \in {"WAITING_DATA", "WAITING_AFTER_OACK", "WRQ_END", "ERROR"}
          /\ r.ino = s.ino /\ r.pos = s.pos + Len(m.data)
    BY <1>12 DEF SessionStores, Answers, SameSession, Lands
  <2>2. s.ino # None
    BY <1>2, <2>1, TypeParts DEF TypeInv, IsSession, Waiting, s
  <2>3. dir = Only /\ s.pos = Len(inode[Only])
    BY <1>4, <2>1, <2>2
  <2>4. StorerVerdict = "running"
    BY <1>6, <2>1 DEF Waiting
  <2>5. CASE r.state = "WRQ_END"
    <3>1. StoredFile' = Source
      BY <1>4, <1>5, <2>1, <2>2, <2>5
    <3> QED BY <1>0, <1>1, <1>6, <2>4, <2>5, <3>1, MappedUpload DEF Promise!Next
  <2>6. CASE r.state \in {"WAITING_DATA", "WAITING_AFTER_OACK"}
    <3>1. /\ StoredFile' = inode'[Only] /\ StoredFile = inode[Only]
          /\ PrefixOfSource(inode'[Only]) /\ r.pos = Len(inode'[Only])
      BY <1>4, <1>5, <2>1, <2>2, <2>3, <2>6
    <3>2. m.data \in Seq(Nat)
      BY <1>2, <2>1, StoredBlock DEF s
    <3>3. Len(inode'[Only]) = Len(inode[Only]) + Len(m.data)
      BY <2>1, <2>3, <3>1
    <3>4. PICK f : f = inode'[Only]
      OBVIOUS
    <3>5. f = SubSeq(Source, 1, Len(f)) /\ Len(f) \in 0 .. Len(Source)
      BY <1>2, <3>1, <3>4, PrefixIsBeginning
    <3>6. Len(f) \in Len(StoredFile) .. Len(Source)
      <4>1. Len(m.data) \in Nat /\ Len(inode[Only]) \in Nat /\ Len(Source) \in Nat
        BY <1>2, <3>2, SizeAssumption
      <4>2. Len(f) = Len(StoredFile) + Len(m.data) /\ Len(StoredFile) \in Nat
        BY <3>1, <3>3, <3>4, <4>1
      <4> QED BY <3>5, <4>1, <4>2
    <3>7. StorerVerdict' = StorerVerdict
      BY <1>6, <2>4, <2>6 DEF Waiting
    <3> QED BY <1>0, <1>1, <2>4, <3>1, <3>4, <3>5, <3>6, <3>7, MappedUpload DEF Promise!Next
  <2> QED BY <1>7, <2>1, <2>5, <2>6 DEF Waiting
<1>13. CASE SessionFails(Only, s, r)
  <2>1. /\ s.state \in Waiting /\ r.state \in {"ERROR", "THROWN"}
        /\ r.state = "THROWN" => s.type = "READ" \/ \E m : Answers(Only, m) /\ m.op = "ACK"
    BY <1>13 DEF SessionFails
  <2>2. s.type = "WRITE"
    BY <1>2, <2>1 DEF Made, Waiting
  <2>3. \A m : Answers(Only, m) => m.op # "ACK"
    BY <1>2 DEF Answers, InUpload
  <2> QED BY <1>7, <2>1, <2>2, <2>3
<1>14. CASE SessionStays(Only, s, r)
  <2>1. /\ s.state \in Waiting \ {"INITIAL"} /\ r.state \in {s.state, "ERROR"}
        /\ inode' = inode /\ dir' = NameAfter(r, dir)
    BY <1>14 DEF SessionStays, SessionWaits, Lands, FilesKept, s
  <2>2. CASE r.state = s.state
    <3>1. dir' = dir
      BY <2>1, <2>2 DEF NameAfter, Waiting
    <3> QED BY <1>6, <1>8, <2>1, <2>2, <3>1
  <2> QED BY <1>7, <2>1, <2>2
<1> QED
  BY <1>2, <1>9, <1>10, <1>11, <1>12, <1>13, <1>14 DEF Receives

(* Every step is one of FileTransfer or changes nothing that it has.         *)
LEMMA UploadPromiseStep ==
  ASSUME FewBlocks, Tids = {Only}
  PROVE  Uploading /\ TypeInv' /\ [Next]_vars => Uploading' /\ [Promise!Next]_(Promise!vars)
<1> SUFFICES ASSUME Uploading, TypeInv', [Next]_vars
             PROVE  Uploading' /\ (Promise!Next \/ UNCHANGED Promise!vars)
  OBVIOUS
<1>1. TypeInv /\ AgreeInv /\ UploadInv /\ client.type = "WRITE"
  BY DEF Uploading
<1>2. client'.type = client.type
  BY <1>1, StepsOnly DEF clientVars
<1>3. Uploading'
  BY <1>1, <1>2, AgreeStep, UploadStep DEF Uploading
<1>4. CASE ClientChanges /\ UNCHANGED serverVars
  BY <1>3, <1>4, UploaderPromise
<1>5. CASE (\E t \in Tids : SessionChanges(t)) /\ UNCHANGED clientVars
  BY <1>3, <1>5, StorerPromise
<1>6. CASE ServerFails /\ UNCHANGED clientVars
  <2>1. client' = client /\ dir' = dir /\ inode' = inode /\ Only \in Tids
    BY <1>6 DEF clientVars, ServerFails
  <2>2. server[Only].state \in Waiting \ {"INITIAL"} /\ server'[Only].state = "CRASHED"
    BY <1>1, <1>6, <2>1, CrashLeaves DEF ServerFails, SessionWaits
  <2>3. StorerVerdict = "running" /\ StorerVerdict' = "crashed"
    BY <2>2 DEF StorerVerdict, Verdict, Waiting
  <2>4. UNCHANGED <<StoredFile, UploaderVerdicts>>
    BY <2>1 DEF StoredFile, UploaderVerdicts, Verdict
  <2> QED BY <1>1, <1>2, <1>3, <2>3, <2>4, MappedUpload DEF Promise!Next
<1>7. CASE UNCHANGED <<client, local, server, dir, inode>>
  <2>1. UNCHANGED <<StoredFile, StorerVerdict, UploaderVerdicts>>
    BY <1>7 DEF StoredFile, StorerVerdict, UploaderVerdicts, Verdict
  <2> QED BY <1>1, <1>2, <1>3, <2>1, MappedUpload
<1> QED
  BY <1>1, <1>4, <1>5, <1>6, <1>7, StepsOnly

(* At the start nobody has begun.                                            *)
LEMMA UploadPromiseInit ==
  ASSUME Init, client.type = "WRITE", Tids = {Only}
  PROVE  Promise!Init
<1>1. client.state = "FREE"
  BY DEF Init, ClientInit, NewClient
<1>2. server[Only] = Session("FREE", "READ", NoOptions, None)
  BY DEF Init, ServerInit
<1>3. server[Only].state = "FREE"
  BY <1>2 DEF Session
<1>4. Verdict(client) = "running"
  BY <1>1 DEF Verdict, Waiting
<1>5. dir # Only
  BY Ports DEF Init, ServerInit
<1> QED
  BY <1>1, <1>3, <1>4, <1>5 DEF Promise!Init, Stored, Receiver

(* An upload that has one session, whatever options it asks for and whatever *)
(* faults occur, is at every step what FileTransfer promises: the file grows *)
(* from its beginning, is complete when the session says `done', is gone     *)
(* when it fails, and the client says `done' only after the session.         *)
THEOREM UploadKeepsPromise ==
  ASSUME FewBlocks, Tids = {Only}
  PROVE  Spec /\ client.type = "WRITE" => KeepsPromise
<1>1. Init /\ client.type = "WRITE" => Uploading /\ Promise!Init
  BY TypeInit, AgreeInit, UploadInit, UploadPromiseInit DEF Uploading
<1>2. Uploading /\ TypeInv' /\ [Next]_vars => Uploading' /\ [Promise!Next]_(Promise!vars)
  BY UploadPromiseStep
<1> QED
  BY <1>1, <1>2, TypeInit, TypeStep, PTL DEF Spec, KeepsPromise, Promise!Spec

-----------------------------------------------------------------------------
(* Both kinds of transfer. *)

(* What the invariants of an upload say of its client at its good end, with  *)
(* any options and any number of sessions.                                   *)
THEOREM UploadNoFalseSuccess ==
  ASSUME FewBlocks
  PROVE  Spec /\ client.type = "WRITE" => []NoFalseSuccess
<1>1. Init /\ client.type = "WRITE" => Uploading
  BY TypeInit, AgreeInit, UploadInit DEF Uploading
<1>2. Uploading /\ TypeInv' /\ [Next]_vars => Uploading'
  <2> SUFFICES ASSUME Uploading, TypeInv', [Next]_vars PROVE Uploading'
    OBVIOUS
  <2>1. client'.type = client.type
    BY StepsOnly DEF Uploading, clientVars
  <2> QED BY <2>1, AgreeStep, UploadStep DEF Uploading
<1>3. Uploading => NoFalseSuccess
  BY DEF Uploading, UploadInv, Sends, SessionUploads, NoFalseSuccess
<1> QED
  BY <1>1, <1>2, <1>3, TypeInit, TypeStep, PTL DEF Spec

(* The shipped client asks for no block size, so its blocks have the default *)
(* size.                                                                     *)
LEMMA ShippedBlocks ==
  ASSUME ShippedClient, NoWrap
  PROVE  FewBlocks
<1>1. NoOptions["blksize"] = None
  BY DEF NoOptions, OptionName
<1>2. {opts["blksize"] : opts \in ClientOptions} \ {None} = {}
  BY <1>1 DEF ShippedClient
<1>3. Sizes = {BlockSize}
  BY <1>2 DEF Sizes
<1> QED
  BY <1>3 DEF FewBlocks, NoWrap

(* A client downloads or uploads. *)
LEMMA EitherKind ==
  ASSUME Init
  PROVE  client.type = "READ" \/ client.type = "WRITE"
<1>1. PICK type \in Types, opts \in ClientOptions : client = NewClient(type, opts)
  BY DEF Init, ClientInit
<1>2. client.type \in SessionType
  BY <1>1, RequestAssumption DEF NewClient
<1> QED
  BY <1>2 DEF SessionType

(* Neither end of a transfer says it is done before the end that stores the  *)
(* file, whatever is lost, late, repeated or sent by third parties, with     *)
(* however many sessions (the WAITING_LAST_ACK cases of ACKPacket).          *)
THEOREM NoFalseSuccessHolds ==
  ASSUME ShippedClient, NoWrap
  PROVE  Spec => []NoFalseSuccess
<1>1. FewBlocks
  BY ShippedBlocks
<1>2. Spec /\ client.type = "READ" => []NoFalseSuccess
  BY DownloadNoFalseSuccess
<1>3. Spec /\ client.type = "WRITE" => []NoFalseSuccess
  BY <1>1, UploadNoFalseSuccess
<1>4. Init => client.type = "READ" \/ client.type = "WRITE"
  BY EitherKind
<1> QED
  BY <1>2, <1>3, <1>4, PTL DEF Spec

(* A transfer of the shipped client that has one session is at every step    *)
(* what FileTransfer promises.                                               *)
THEOREM TransferKeepsPromise ==
  ASSUME ShippedClient, NoWrap, Tids = {Only}
  PROVE  Spec => KeepsPromise
<1>1. FewBlocks
  BY ShippedBlocks
<1>2. Spec /\ client.type = "READ" => KeepsPromise
  BY DownloadKeepsPromise
<1>3. Spec /\ client.type = "WRITE" => KeepsPromise
  BY <1>1, UploadKeepsPromise
<1>4. Init => client.type = "READ" \/ client.type = "WRITE"
  BY EitherKind
<1> QED
  BY <1>2, <1>3, <1>4, PTL DEF Spec
=============================================================================
