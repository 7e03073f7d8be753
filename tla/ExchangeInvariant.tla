------------------------- MODULE ExchangeInvariant -------------------------
(***************************************************************************)
(* The inductive invariant of Exchange: what the answer of the server has  *)
(* to do with the request, what each end has made of the answer, and how   *)
(* much of the text has come through.                                      *)
(***************************************************************************)
EXTENDS Exchange

SessionRecord ==
  [mode : Mode, opts : Options, blockSize : Nat, timeout : Nat, block : Nat,
   last : BOOLEAN, code : Nat, foreign : BOOLEAN]

(* The options the server answers request d with.                            *)
Reply(d) ==
  LET opts == ParseRequest(d).opts
  IN IF d.op = "RRQ" /\ Has(opts, "tsize") THEN [opts EXCEPT !["tsize"] = FileSize] ELSE opts

(* The server has read the request as it was sent, in the mode that was      *)
(* asked for if it is one.                                                   *)
ReplyInv ==
  /\ phase = "asked" =>
       /\ HasFields(asked) /\ datagram = asked
       /\ ParseRequest(asked).code = 0 => ParseRequest(asked).mode = client.mode
  /\ phase \in {"answered", "agreed", "refused"} /\ asked # None /\ ~server.foreign =>
       /\ HasFields(asked)
       /\ server.opts = Reply(asked) /\ server.code = ParseRequest(asked).code
  /\ phase = "sending" => asked = None

(* Nobody applies an option before the answer is there; then the client has  *)
(* what the server will have as soon as it takes over its options.           *)
Applied == Configured(server, server.opts)
AppliedInv ==
  /\ client \in SessionRecord /\ server \in SessionRecord
  /\ phase = "asking" => client = NewSession("octet", NoOptions)
  /\ phase \in {"asking", "asked"} => server = NewSession("octet", NoOptions)
  /\ phase \in {"asking", "asked", "answered"} =>
       /\ client.blockSize = InitialBlockSize /\ client.timeout = InitialTimeout
       /\ server.blockSize = InitialBlockSize /\ server.timeout = InitialTimeout
  /\ phase = "answered" /\ ~server.foreign =>
       datagram = OackBytes(server.opts) /\ server.mode = client.mode
  /\ phase \in {"asked", "answered"} /\ server.foreign => ~client.foreign
  /\ phase = "answered" /\ server.foreign => HasFields(datagram)
  /\ phase \in {"agreed", "sending", "stored"} =>
       /\ ~server.foreign /\ server.mode = client.mode
       /\ client.blockSize = Applied.blockSize /\ client.timeout = Applied.timeout
  /\ phase = "over" /\ ~server.foreign =>
       client.blockSize = server.blockSize /\ client.timeout = server.timeout

(* What the client sends, and how much of it has left.                       *)
Encoded == IF client.mode = "netascii" THEN Encode(text) ELSE text
Sent == Len(Encoded) - Len(rest)

(* The file is what the first n characters stand for.                        *)
Holds(n) ==
  IF client.mode = "octet" THEN file = SubSeq(text, 1, n)
  ELSE Plain(text) /\ CutBetween(Encoded, client.blockSize) =>
         \E k \in 0 .. Len(text) :
           /\ SubSeq(Encoded, 1, n) = Encode(SubSeq(text, 1, k))
           /\ file = SubSeq(text, 1, k)

(* Whole blocks have left, until the last one, which is on its way or stored. *)
StoredInv ==
  /\ phase \in {"asking", "asked", "answered", "agreed"} => file = <<>>
  /\ phase = "sending" =>
       /\ text \in Seq(Char)
       /\ Sent \in 0 .. Len(Encoded) /\ rest = SubSeq(Encoded, Sent + 1, Len(Encoded))
       /\ IF client.last THEN Sent = Len(Encoded) ELSE Sent % client.blockSize = 0
       /\ \/ /\ datagram.op = "DATA"
             /\ \E n \in 0 .. Sent :
                  /\ datagram.data = SubSeq(Encoded, n + 1, Sent)
                  /\ n % client.blockSize = 0
                  /\ Holds(n)
          \/ datagram.op = "ACK" /\ Holds(Sent)
  /\ phase = "stored" => text \in Seq(Char) /\ Holds(Len(Encoded))

ExchangeInv == ReplyInv /\ AppliedInv /\ StoredInv
=============================================================================
