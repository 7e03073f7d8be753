------------------------------ MODULE Exchange ------------------------------
(***************************************************************************)
(* One request without faults, byte by byte: what the client asks for, how *)
(* the server reads it, what it answers, what the client makes of that,    *)
(* and an upload in blocks of the size that comes of it.  Transfer has the *)
(* faults and takes the packets as they are meant; this module has what    *)
(* happens to them in parse(), serialize(), filterOptions() and            *)
(* parseNetasciiString().                                                  *)
(*                                                                         *)
(* The client is a ClientSession with any options, or another program,     *)
(* which may ask with any fields, and for netascii; the server is          *)
(* ServerSession, or another program with an OACK of its own.              *)
(***************************************************************************)
EXTENDS Formats

CONSTANTS
  InitialBlockSize, InitialTimeout,  \* INITIAL_BLOCK_SIZE, INITIAL_TIMEOUT
  BufferSize,       \* BUFFER_SIZE, the longest datagram that is received whole
  FileSize,         \* the size of the file that is asked for
  ClientOptions,    \* the options a ClientSession may be created with
  ForeignRequests,  \* the datagrams another client asks with
  ForeignOacks,     \* the OACKs of another server
  Texts             \* what is uploaded

ASSUME BufferAssumption ==
  /\ InitialBlockSize \in Nat \ {0} /\ InitialTimeout \in Nat \ {0}
  /\ InitialBlockSize < Byte * Byte
  /\ BufferSize \in Nat /\ FileSize \in Nat
  /\ InitialBlockSize + 4 <= BufferSize /\ MaxBlockSize + 4 <= BufferSize

ASSUME InputAssumption ==
  /\ ClientOptions \subseteq Options
  /\ \A d \in ForeignRequests \cup ForeignOacks : HasFields(d)
  /\ Texts \subseteq Seq(Char)

VARIABLES
  phase,     \* how far the exchange has come
  datagram,  \* the one on its way
  asked,     \* history: the request, until the upload begins
  client,    \* the client's session
  server,    \* the server's session
  text,      \* what is uploaded
  rest,      \* the part of the encoded text that the client has not sent
  file       \* what the server has stored

vars == <<phase, datagram, asked, client, server, text, rest, file>>

(* last says that the last block was sent, or stored; code is that of the    *)
(* ERROR that ended the session; foreign that another program stands here.   *)
NewSession(mode, opts) ==
  [mode |-> mode, opts |-> opts, blockSize |-> InitialBlockSize,
   timeout |-> InitialTimeout, block |-> 0, last |-> FALSE, code |-> 0,
   foreign |-> FALSE]

Init ==
  /\ phase = "asking"
  /\ datagram = None
  /\ asked = None
  /\ client = NewSession("octet", NoOptions)
  /\ server = NewSession("octet", NoOptions)
  /\ text = <<>>
  /\ rest = <<>>
  /\ file = <<>>

(* setOptions(); blockSize is a uint16_t.                                    *)
Configured(session, opts) ==
  [session EXCEPT !.opts = NoOptions,
     !.blockSize = IF Has(opts, "blksize") THEN opts["blksize"] % (Byte * Byte) ELSE @,
     !.timeout = IF Has(opts, "timeout") THEN opts["timeout"] ELSE @]

-----------------------------------------------------------------------------
(* The request. *)

(* download() and upload() ask for octet.                                    *)
Ask ==
  /\ phase = "asking"
  /\ \E op \in {"RRQ", "WRQ"}, opts \in ClientOptions :
       /\ asked' = RequestBytes(op, "file", "octet", opts)
       /\ datagram' = asked'
  /\ phase' = "asked"
  /\ UNCHANGED <<client, server, text, rest, file>>

ForeignAsk ==
  /\ phase = "asking"
  /\ \E d \in ForeignRequests :
       /\ asked' = d
       /\ datagram' = d
       /\ client' = [client EXCEPT
            !.foreign = TRUE,
            !.mode = IF Len(d.fields) > 1 /\ Lower(d.fields[2]) \in Mode
                     THEN Lower(d.fields[2]) ELSE @]
  /\ phase' = "asked"
  /\ UNCHANGED <<server, text, rest, file>>

(* handleClientRequest(), handleReadRequest(), handleWriteRequest(): a       *)
(* request that is refused, or one with options, which an OACK answers, or   *)
(* one without, which needs no negotiation.                                  *)
ServerAnswers ==
  /\ phase = "asked"
  /\ LET r == ParseRequest(datagram)
         opts == IF datagram.op = "RRQ" /\ Has(r.opts, "tsize")
                 THEN [r.opts EXCEPT !["tsize"] = FileSize] ELSE r.opts
     IN /\ server' = [server EXCEPT !.mode = r.mode, !.opts = opts, !.code = r.code]
        /\ datagram' = IF r.code = 0 /\ opts # NoOptions THEN OackBytes(opts) ELSE None
        /\ phase' = CASE r.code # 0 -> "refused"
                      [] r.code = 0 /\ opts # NoOptions -> "answered"
                      [] OTHER -> "agreed"
  /\ UNCHANGED <<asked, client, text, rest, file>>

ForeignAnswer ==
  /\ phase = "asked"
  /\ ~client.foreign /\ Len(asked.fields) > 2
  /\ \E d \in ForeignOacks : datagram' = d
  /\ asked' = None
  /\ server' = [server EXCEPT !.foreign = TRUE]
  /\ phase' = "answered"
  /\ UNCHANGED <<client, text, rest, file>>

(* OACKPacket::parse, and setOptions() by OACKPacket::handleClient.          *)
ClientTakesOack ==
  /\ phase = "answered"
  /\ ~client.foreign
  /\ LET r == ParseOack(datagram)
     IN IF r.code = 0
        THEN /\ client' = Configured(client, r.opts)
             /\ phase' = IF server.foreign THEN "over" ELSE "agreed"
        ELSE /\ client' = [client EXCEPT !.code = r.code]
             /\ phase' = "refused"
  /\ datagram' = None
  /\ UNCHANGED <<asked, server, text, rest, file>>

(* Another client takes the OACK at its word.                                *)
ForeignTakesOack ==
  /\ phase = "answered"
  /\ client.foreign
  /\ LET Value(o) == {Stoull(datagram.fields[i + 1]) :
                        i \in {j \in DOMAIN datagram.fields :
                                 Lower(datagram.fields[j]) = o}}
     IN client' = [client EXCEPT
          !.blockSize = IF Value("blksize") = {} THEN @ ELSE CHOOSE v \in Value("blksize") : TRUE,
          !.timeout = IF Value("timeout") = {} THEN @ ELSE CHOOSE v \in Value("timeout") : TRUE]
  /\ phase' = "agreed"
  /\ datagram' = None
  /\ UNCHANGED <<asked, server, text, rest, file>>

-----------------------------------------------------------------------------
(* The transfer. *)

(* A download: with the first ACK the server sets its options.  What it      *)
(* reads it sends as it is, whatever the mode.                               *)
Download ==
  /\ phase = "agreed" /\ asked.op = "RRQ"
  /\ server' = Configured(server, server.opts)
  /\ asked' = None
  /\ phase' = "over"
  /\ UNCHANGED <<datagram, client, text, rest, file>>

(* An upload: the client reads its input in blocks.                          *)
Block(chars, size) == SubSeq(chars, 1, Min({size, Len(chars)}))

SendsNext(chars) ==
  LET n == (client.block + 1) % (Byte * Byte)
      data == Block(chars, client.blockSize)
  IN /\ client' = [client EXCEPT !.block = n,
                                  !.last = Len(data) < client.blockSize]
     /\ datagram' = [op |-> "DATA", number |-> NumberBytes(n), data |-> data]
     /\ rest' = SubSeq(chars, Len(data) + 1, Len(chars))

Upload ==
  /\ phase = "agreed" /\ asked.op = "WRQ"
  /\ \E t \in Texts :
       /\ text' = t
       /\ SendsNext(IF client.mode = "netascii" THEN Encode(t) ELSE t)
  /\ asked' = None
  /\ phase' = "sending"
  /\ UNCHANGED <<server, file>>

(* DataPacket::handleServer: the first block sets the options; block is the  *)
(* number of the last one stored, one less than blockNumber.                 *)
ServerStores ==
  /\ phase = "sending" /\ datagram.op = "DATA"
  /\ ~server.last
  /\ LET s == Configured(server, server.opts)
         n == FromBytes(datagram.number)
     IN IF /\ Len(datagram.data) <= s.blockSize
           /\ n = (s.block + 1) % (Byte * Byte)
        THEN /\ file' = file \o Written(s.mode, datagram.data)
             /\ server' = [s EXCEPT !.block = n,
                                    !.last = Len(datagram.data) < s.blockSize]
             /\ datagram' = [op |-> "ACK", number |-> NumberBytes(n)]
             /\ UNCHANGED phase
        ELSE /\ server' = [s EXCEPT !.code = 4]
             /\ phase' = "refused"
             /\ datagram' = None
             /\ UNCHANGED file
  /\ UNCHANGED <<asked, client, text, rest>>

(* ACKPacket::handleClient.                                                  *)
ClientTakesAck ==
  /\ phase = "sending" /\ datagram.op = "ACK"
  /\ IF FromBytes(datagram.number) # client.block
     THEN /\ client' = [client EXCEPT !.code = 4]
          /\ phase' = "refused"
          /\ datagram' = None
          /\ UNCHANGED rest
     ELSE IF client.last
     THEN /\ phase' = "stored"
          /\ datagram' = None
          /\ UNCHANGED <<client, rest>>
     ELSE /\ SendsNext(rest)
          /\ UNCHANGED phase
  /\ UNCHANGED <<asked, server, text, file>>

Next ==
  \/ Ask \/ ForeignAsk
  \/ ServerAnswers \/ ForeignAnswer
  \/ ClientTakesOack \/ ForeignTakesOack
  \/ Download \/ Upload \/ ServerStores \/ ClientTakesAck

Spec == Init /\ [][Next]_vars
FairSpec == Spec /\ WF_vars(ServerStores \/ ClientTakesAck)

-----------------------------------------------------------------------------
(* Properties. *)

(* Where the request names option o, in any spelling.                        *)
Named(o) ==
  {i \in 3 .. Len(asked.fields) - 1 : i % 2 = 1 /\ Lower(asked.fields[i]) = o}

(* The answer that RFC 2348 and 2349 have for the value v of option o: None  *)
(* for no answer.                                                            *)
Answer(o, v) ==
  CASE v = NaN -> None
    [] v # NaN /\ o = "blksize" -> IF v < MinBlockSize THEN None ELSE Min({v, MaxBlockSize})
    [] v # NaN /\ o = "timeout" -> IF MinTimeout <= v /\ v <= MaxTimeout THEN v ELSE None
    [] v # NaN /\ o = "tsize" /\ asked.op = "RRQ" -> IF v = 0 THEN FileSize ELSE None
    [] OTHER -> IF v <= MaxTsize THEN v ELSE None

Answers(o) == {Answer(o, Stoull(asked.fields[i + 1])) : i \in Named(o)}

Read == asked # None /\ phase \in {"answered", "agreed", "refused"} /\ ~server.foreign

(* Every option in the server's answer is one of the request, with a value   *)
(* that the client may be told, although the options of the request may be   *)
(* misspelled, repeated, cut off, negative or no numbers at all              *)
(* (RequestPacket::parse, filterOptions, handleReadRequest).                 *)
AnswersOnlyWhatWasAsked ==
  Read => \A o \in OptionName :
            Has(server.opts, o) => server.opts[o] \in Answers(o)

WellFormed(d) ==
  /\ d.op \in {"RRQ", "WRQ"} /\ ~d.open
  /\ Len(d.fields) >= 2 /\ Len(d.fields) % 2 = 0
  /\ \A i \in DOMAIN d.fields : d.fields[i].word # ""
  /\ Lower(d.fields[2]) \in Mode
  /\ \A o \in OptionName : Cardinality(Named(o)) <= 1

(* A well-formed request is not refused, and nothing it asks for that can be *)
(* granted is dropped, whatever stands around it (RequestPacket::parse).     *)
WellFormedUnderstood ==
  Read /\ WellFormed(asked) =>
    /\ server.code = 0
    /\ \A o \in OptionName : Answers(o) \subseteq {server.opts[o]}

(* The two ends transfer with the same block size and timeout, whatever the  *)
(* client wrote and the server left of it (README, "klient a server se       *)
(* shodnou na velikosti datoveho bloku", setOptions of both sessions).       *)
Agreed ==
  (phase \in {"sending", "stored", "over"} /\ ~server.foreign /\ server.opts = NoOptions) =>
    /\ client.blockSize = server.blockSize
    /\ client.timeout = server.timeout

(* A full block and its header fit the buffers of both ends, a block is      *)
(* never empty by agreement (no transfer of empty blocks without end), and a *)
(* timeout is never 0, which would be none at all (filterOptions, SO_RCVTIMEO). *)
WithinLimits(session) ==
  /\ session.blockSize > 0 /\ session.blockSize + 4 <= BufferSize
  /\ session.timeout > 0
FitsBuffer == WithinLimits(server) /\ (~client.foreign => WithinLimits(client))

(* What is stored is what was uploaded.  In netascii this takes a text       *)
(* without NUL and block boundaries that fall between the pairs of the       *)
(* encoding: parseNetasciiString does not know the block before.             *)
StoredText ==
  phase = "stored" =>
    \/ file = text
    \/ /\ client.mode = "netascii"
       /\ ~Plain(text) \/ ~CutBetween(Encode(text), client.blockSize)

(* An upload that begins is stored to the last block, with more blocks than  *)
(* a byte can count (serialize and parse of DATA and ACK).                   *)
UploadCompletes == phase = "sending" ~> phase = "stored"
=============================================================================
