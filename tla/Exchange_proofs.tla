-------------------------- MODULE Exchange_proofs ---------------------------
(***************************************************************************)
(* The invariants of Exchange for all limits, options, requests, answers   *)
(* and texts.  Whatever the loops over the options make of a packet,       *)
(* filterOptions has the last word: FitsBuffer needs no more.  The others  *)
(* follow from ExchangeInv and from what Formats_proofs says of the loops. *)
(***************************************************************************)
EXTENDS ExchangeInvariant, Formats_proofs

(* Options whose block size and timeout are absent or within their limits.   *)
Filtered(opts) ==
  /\ opts["blksize"] # None => opts["blksize"] \in MinBlockSize .. MaxBlockSize
  /\ opts["timeout"] # None => opts["timeout"] \in MinTimeout .. MaxTimeout

Fits(session) == Filtered(session.opts) /\ WithinLimits(session)

(* The record of a session, as far as the limits are concerned. *)
Fields(session) ==
  DOMAIN session = {"mode", "opts", "blockSize", "timeout", "block", "last", "code", "foreign"}

Inv ==
  /\ Fields(server) /\ Fits(server)
  /\ Fields(client) /\ (~client.foreign => Fits(client))

-----------------------------------------------------------------------------
(* The filter. *)

(* The limits are numbers in this order.                                     *)
LEMMA Limits ==
  /\ MinBlockSize \in Nat /\ MinBlockSize > 0 /\ MaxBlockSize \in Nat
  /\ MinBlockSize <= MaxBlockSize /\ MaxBlockSize < Byte * Byte
  /\ MinTimeout \in Nat /\ MinTimeout > 0 /\ MaxTimeout \in Nat
  /\ Byte \in Nat /\ BufferSize \in Nat
  /\ InitialBlockSize > 0 /\ InitialBlockSize \in Nat
  /\ InitialTimeout > 0 /\ InitialTimeout \in Nat
  /\ InitialBlockSize + 4 <= BufferSize /\ MaxBlockSize + 4 <= BufferSize
BY LimitAssumption, WidthAssumption, BufferAssumption

(* Nothing that comes out of the filter is out of its limits, whatever went in. *)
LEMMA FilterFilters ==
  ASSUME NEW opts
  PROVE  Filtered(Filter(opts))
<1> DEFINE v == opts["blksize"]
           w == opts["timeout"]
<1>1. /\ Filter(opts)["blksize"] = IF v \in MinBlockSize .. MaxBlockSize THEN v
                                   ELSE IF v \in Nat /\ v > MaxBlockSize THEN MaxBlockSize
                                   ELSE None
      /\ Filter(opts)["timeout"] = IF w \in MinTimeout .. MaxTimeout THEN w ELSE None
  BY DEF Filter, OptionName
<1> QED BY <1>1, Limits DEF Filtered

(* No option is within every limit.                                          *)
LEMMA NoneFiltered == Filtered(NoOptions)
BY DEF Filtered, NoOptions, OptionName

(* What a parser returns has been through the filter.                        *)
LEMMA ParseFilters ==
  ASSUME NEW d
  PROVE  Filtered(ParseRequest(d).opts) /\ Filtered(ParseOack(d).opts)
BY FilterFilters, NoneFiltered DEF ParseRequest, ParseOack, Accepted, Rejected

(* A block size within the limits is the same number in 16 bits. *)
LEMMA ConfiguredFits ==
  ASSUME NEW s, Fields(s), WithinLimits(s), NEW opts, Filtered(opts)
  PROVE  Fields(Configured(s, opts)) /\ Fits(Configured(s, opts))
<1> DEFINE c == Configured(s, opts)
<1>1. Fields(c)
  BY DEF Configured, Fields
<1>2. /\ c.opts = NoOptions
      /\ c.blockSize = IF opts["blksize"] # None THEN opts["blksize"] % (Byte * Byte)
                       ELSE s.blockSize
      /\ c.timeout = IF opts["timeout"] # None THEN opts["timeout"] ELSE s.timeout
  BY DEF Configured, Fields, Has
<1>3. ASSUME opts["blksize"] # None
      PROVE  c.blockSize > 0 /\ c.blockSize + 4 <= BufferSize
  <2>1. PICK n : n = opts["blksize"]
    OBVIOUS
  <2>2. PICK w : w = Byte * Byte
    OBVIOUS
  <2>3. n \in Nat /\ n > 0 /\ n <= MaxBlockSize
    BY <1>3, <2>1, Limits DEF Filtered
  <2>4. w \in Nat /\ MaxBlockSize < w
    BY <2>2, Limits
  <2>5. n % w = n
    BY <2>3, <2>4, Limits
  <2> QED BY <1>2, <1>3, <2>1, <2>2, <2>3, <2>5, Limits
<1>4. opts["timeout"] # None => c.timeout > 0
  BY <1>2, Limits DEF Filtered
<1>5. WithinLimits(c)
  BY <1>2, <1>3, <1>4 DEF WithinLimits
<1> QED BY <1>1, <1>2, <1>5, NoneFiltered DEF Fits

-----------------------------------------------------------------------------
(* The invariant. *)

(* The invariant holds at the start.                                         *)
LEMMA FitsInit == Init => Inv
<1>1. /\ Fields(NewSession("octet", NoOptions))
      /\ Fits(NewSession("octet", NoOptions))
  BY NoneFiltered, Limits DEF NewSession, Fields, Fits, WithinLimits
<1> QED BY <1>1 DEF Init, Inv

(* Every step keeps it.                                                      *)
LEMMA FitsNext == Inv /\ [Next]_vars => Inv'
<1> SUFFICES ASSUME Inv, [Next]_vars PROVE Inv'
  OBVIOUS
<1>1. CASE Ask \/ UNCHANGED vars
  BY <1>1 DEF Ask, vars, Inv, Fits, Filtered, WithinLimits, Fields
<1>2. CASE ForeignAsk
  <2>1. Fields(client') /\ client'.foreign
    BY <1>2 DEF ForeignAsk, Inv, Fields
  <2> QED BY <1>2, <2>1 DEF ForeignAsk, Inv, Fields
<1>3. CASE ServerAnswers
  <2>1. PICK r : r = ParseRequest(datagram)
    OBVIOUS
  <2>2. PICK opts : opts = IF datagram.op = "RRQ" /\ Has(r.opts, "tsize")
                           THEN [r.opts EXCEPT !["tsize"] = FileSize] ELSE r.opts
    OBVIOUS
  <2>3. Filtered(opts)
    BY <2>1, <2>2, ParseFilters DEF Filtered
  <2>4. server' = [server EXCEPT !.mode = r.mode, !.opts = opts, !.code = r.code]
    BY <1>3, <2>1, <2>2 DEF ServerAnswers
  <2>5. Fields(server') /\ Fits(server')
    BY <2>3, <2>4 DEF Inv, Fields, Fits, WithinLimits
  <2> QED BY <1>3, <2>5 DEF ServerAnswers, Inv
<1>4. CASE ForeignAnswer
  <2>1. Fields(server') /\ Fits(server')
    BY <1>4 DEF ForeignAnswer, Inv, Fields, Fits, WithinLimits
  <2> QED BY <1>4, <2>1 DEF ForeignAnswer, Inv
<1>5. CASE ClientTakesOack
  <2>1. Filtered(ParseOack(datagram).opts) /\ Fields(client) /\ Fits(client)
    BY <1>5, ParseFilters DEF ClientTakesOack, Inv
  <2>2. \/ client' = Configured(client, ParseOack(datagram).opts)
        \/ client' = [client EXCEPT !.code = ParseOack(datagram).code]
    BY <1>5 DEF ClientTakesOack
  <2>3. CASE client' = Configured(client, ParseOack(datagram).opts)
    <3>1. Fields(client') /\ Fits(client')
      BY <2>1, <2>3, ConfiguredFits DEF Fits
    <3> QED BY <1>5, <3>1 DEF ClientTakesOack, Inv
  <2>4. CASE client' = [client EXCEPT !.code = ParseOack(datagram).code]
    <3>1. Fields(client') /\ Fits(client')
      BY <2>1, <2>4 DEF Fields, Fits, WithinLimits
    <3> QED BY <1>5, <3>1 DEF ClientTakesOack, Inv
  <2> QED BY <2>2, <2>3, <2>4
<1>6. CASE ForeignTakesOack
  <2>1. Fields(client') /\ client'.foreign
    BY <1>6 DEF ForeignTakesOack, Inv, Fields
  <2> QED BY <1>6, <2>1 DEF ForeignTakesOack, Inv
<1>7. CASE Download
  <2>1. Fields(server') /\ Fits(server')
    BY <1>7, ConfiguredFits DEF Download, Inv, Fits
  <2> QED BY <1>7, <2>1 DEF Download, Inv
<1>8. ASSUME NEW chars, SendsNext(chars)
      PROVE  Fields(client') /\ (~client'.foreign => Fits(client'))
  BY <1>8 DEF SendsNext, Inv, Fields, Fits, WithinLimits
<1>9. CASE Upload
  BY <1>8, <1>9 DEF Upload, Inv
<1>10. CASE ServerStores
  <2>1. PICK s : s = Configured(server, server.opts)
    OBVIOUS
  <2>2. Fields(s) /\ Fits(s)
    BY <2>1, ConfiguredFits DEF Inv, Fits
  <2>3. \/ \E n, l : server' = [s EXCEPT !.block = n, !.last = l]
        \/ server' = [s EXCEPT !.code = 4]
    BY <1>10, <2>1 DEF ServerStores
  <2>4. Fields(server') /\ Fits(server')
    BY <2>2, <2>3 DEF Fields, Fits, WithinLimits
  <2> QED BY <1>10, <2>4 DEF ServerStores, Inv
<1>11. CASE ClientTakesAck
  <2>1. \/ client' = [client EXCEPT !.code = 4]
        \/ UNCHANGED client
        \/ SendsNext(rest)
    BY <1>11 DEF ClientTakesAck
  <2>2. Fields(client') /\ (~client'.foreign => Fits(client'))
    BY <1>8, <2>1 DEF Inv, Fields, Fits, WithinLimits
  <2> QED BY <1>11, <2>2 DEF ClientTakesAck, Inv
<1> QED
  BY <1>1, <1>2, <1>3, <1>4, <1>5, <1>6, <1>7, <1>9, <1>10, <1>11 DEF Next

(* Neither program ever measures its blocks by a size that its buffers do not *)
(* hold, nor waits with a timeout of 0, whatever another program has written  *)
(* into its request or its OACK (filterOptions).                              *)
THEOREM BufferSuffices == Spec => []FitsBuffer
<1>1. Inv => FitsBuffer
  BY DEF Inv, Fits, FitsBuffer
<1> QED BY <1>1, FitsInit, FitsNext, PTL DEF Spec

-----------------------------------------------------------------------------
(* Requests and their answers. *)

(* An option that passes the filter passes it unchanged.                      *)
LEMMA FilteredKept ==
  ASSUME NEW opts \in Options
  PROVE  /\ Filter(opts) \in Options
         /\ \A o \in {"blksize", "timeout"}, given \in Options :
              Filtered(given) /\ opts[o] = given[o] => Filter(opts)[o] = given[o]
<1>1. ASSUME NEW o \in OptionName PROVE Filter(opts)[o] \in Nat \cup {None}
  <2>1. opts[o] \in Nat \cup {None}
    BY DEF Options
  <2> QED BY <2>1, Limits DEF Filter
<1>2. Filter(opts) \in Options
  <2>1. Filter(opts) = [o \in OptionName |-> Filter(opts)[o]]
    BY DEF Filter
  <2> QED BY <1>1, <2>1 DEF Options
<1>3. ASSUME NEW o \in {"blksize", "timeout"}, NEW given \in Options, Filtered(given), opts[o] = given[o]
      PROVE  Filter(opts)[o] = given[o]
  <2>1. CASE o = "blksize"
    <3>1. Filter(opts)[o] = IF opts[o] \in MinBlockSize .. MaxBlockSize THEN opts[o]
                            ELSE IF opts[o] \in Nat /\ opts[o] > MaxBlockSize THEN MaxBlockSize
                            ELSE None
      BY <2>1 DEF Filter, OptionName
    <3> QED BY <1>3, <2>1, <3>1, NotNumbers DEF Filtered
  <2>2. CASE o = "timeout"
    <3>1. Filter(opts)[o] = IF opts[o] \in MinTimeout .. MaxTimeout THEN opts[o] ELSE None
      BY <2>2 DEF Filter, OptionName
    <3> QED BY <1>3, <2>2, <3>1, NotNumbers DEF Filtered
  <2> QED BY <2>1, <2>2
<1> QED
  BY <1>2, <1>3

(* What there is to say of a request that is accepted, and of one that is not. *)
LEMMA RequestRead ==
  ASSUME NEW d, HasFields(d)
  PROVE  /\ ParseRequest(d).code \in Nat /\ ParseRequest(d).mode \in Mode
         /\ ParseRequest(d).opts \in Options
         /\ ParseRequest(d).code # 0 => ParseRequest(d).opts = NoOptions
         /\ ParseRequest(d).code = 0 =>
              /\ d.op \in {"RRQ", "WRQ"} /\ Complete(d, 2) /\ Lower(d.fields[2]) \in Mode
              /\ Len(d.fields) - 3 + 2 \in Nat
              /\ ParsedOptions(d, 3) \in Options
              /\ ParseRequest(d).mode = Lower(d.fields[2])
              /\ ParseRequest(d).opts = Filter(ParsedOptions(d, 3))
         /\ /\ d.op \in {"RRQ", "WRQ"} /\ Complete(d, 1) /\ Complete(d, 2) /\ Lower(d.fields[2]) \in Mode
            /\ ParsedOptions(d, 3) # None
            => ParseRequest(d).code = 0
<1> DEFINE q == ParsedOptions(d, 3)
           r == ParseRequest(d)
<1>1. /\ NoOptions \in Options /\ "octet" \in Mode
      /\ Rejected(ParsingError) = [code |-> 4, mode |-> "octet", opts |-> NoOptions]
      /\ Rejected(OptionError) = [code |-> 8, mode |-> "octet", opts |-> NoOptions]
  BY DEF Rejected, NoOptions, Options, Mode, ParsingError, OptionError
<1>2. CASE d.op \notin {"RRQ", "WRQ"} \/ ~Complete(d, 1) \/ ~Complete(d, 2) \/ Lower(d.fields[2]) \notin Mode
  <2>1. r = Rejected(ParsingError)
    BY <1>2 DEF ParseRequest
  <2> HIDE DEF r, q
  <2> QED BY <1>1, <1>2, <2>1 DEF r
<1>3. CASE ~(d.op \notin {"RRQ", "WRQ"} \/ ~Complete(d, 1) \/ ~Complete(d, 2) \/ Lower(d.fields[2]) \notin Mode)
  <2>1. r = IF q = None THEN Rejected(OptionError) ELSE Accepted(Lower(d.fields[2]), Filter(q))
    BY <1>3 DEF ParseRequest
  <2>2. Len(d.fields) - 3 + 2 \in Nat /\ 3 \in Nat
    <3>1. \A n \in Nat : 2 \in 1 .. n => n - 3 + 2 \in Nat
      OBVIOUS
    <3> QED BY <1>3, <3>1 DEF HasFields, Complete
  <2>3. q \in Options \cup {None}
    <3>1. /\ Turns(d, 3) \in Nat /\ q = Parsing(d, 3)[Turns(d, 3)]
          /\ Parsing(d, 3) \in [0 .. Turns(d, 3) -> Options \cup {None}]
      BY <2>2, ParsingTurns
    <3>2. Turns(d, 3) \in 0 .. Turns(d, 3)
      BY <3>1
    <3> HIDE DEF q
    <3> QED BY <3>1, <3>2
  <2> HIDE DEF r, q
  <2>4. CASE q = None
    <3>1. r = Rejected(OptionError)
      BY <2>1, <2>4
    <3> QED BY <1>1, <2>4, <3>1 DEF r, q
  <2>5. CASE q # None
    <3>1. r = [code |-> 0, mode |-> Lower(d.fields[2]), opts |-> Filter(q)]
      BY <2>1, <2>5 DEF Accepted
    <3>2. q \in Options /\ Filter(q) \in Options
      BY <2>3, <2>5, FilteredKept
    <3>3. r.code = 0 /\ r.mode = Lower(d.fields[2]) /\ r.opts = Filter(q)
      BY <3>1
    <3> QED BY <1>3, <2>2, <3>2, <3>3 DEF r, q
  <2> QED BY <2>4, <2>5
<1> QED
  BY <1>2, <1>3

(* The answer of the server is made of options within their limits.           *)
LEMMA ReplyOptions ==
  ASSUME NEW d, HasFields(d)
  PROVE  Reply(d) \in Options /\ Filtered(Reply(d))
<1>1. ParseRequest(d).opts \in Options /\ Filtered(ParseRequest(d).opts)
  BY RequestRead, ParseFilters
<1>2. FileSize \in Nat
  BY BufferAssumption
<1>3. \A opts \in Options : [opts EXCEPT !["tsize"] = FileSize] \in Options
                          /\ (Filtered(opts) => Filtered([opts EXCEPT !["tsize"] = FileSize]))
  BY <1>2 DEF Options, OptionName, Filtered
<1> QED
  BY <1>1, <1>3 DEF Reply

(* What a ClientSession asks with is a request like any other, for octet.     *)
LEMMA RequestFields ==
  ASSUME NEW op, NEW name, NEW mode, NEW opts \in Options
  PROVE  LET d == RequestBytes(op, name, mode, opts)
         IN HasFields(d) /\ Lower(d.fields[2]) = mode
<1> DEFINE d == RequestBytes(op, name, mode, opts)
           s == OptionFields(opts)
           G == [word : {name, mode, "blksize", "timeout", "tsize", "number"}, caps : {FALSE},
                 num : {NaN} \cup Int]
           p == <<Text(name), Text(mode)>>
<1>1. d.fields = p \o s
  BY DEF RequestBytes
<1>2. s \in Seq(G)
  <2>1. s \in Seq(OptionField(opts))
    BY FieldsOfOptions
  <2>2. OptionField(opts) \subseteq G
    <3>1. \A o \in Present(opts) : opts[o] \in Int
      BY DEF Present, Options, Has
    <3> QED BY <3>1 DEF OptionField
  <2> HIDE DEF s, G
  <2> QED BY <2>1, <2>2
<1>3. p \in Seq(G) /\ Len(p) = 2 /\ p[2] = Text(mode)
  <2>1. Text(name) \in G /\ Text(mode) \in G
    BY DEF Text
  <2> HIDE DEF G
  <2>2. \A x, y \in G : <<x, y>> \in Seq(G) /\ Len(<<x, y>>) = 2 /\ <<x, y>>[2] = y
    OBVIOUS
  <2> QED BY <2>1, <2>2
<1> HIDE DEF d, p, s
<1>4. /\ d.fields \in Seq(G) /\ Len(d.fields) = 2 + Len(s)
      /\ \A i \in 1 .. 2 + Len(s) : d.fields[i] = IF i <= 2 THEN p[i] ELSE s[i - 2]
  <2> HIDE DEF G
  <2>1. /\ p \o s \in Seq(G) /\ Len(p \o s) = Len(p) + Len(s)
        /\ \A i \in 1 .. Len(p) + Len(s) : (p \o s)[i] = IF i <= Len(p) THEN p[i] ELSE s[i - Len(p)]
    BY <1>2, <1>3, ConcatProperties
  <2> QED BY <1>1, <1>3, <2>1
<1>5. Len(s) \in Nat /\ 2 \in 1 .. 2 + Len(s)
  <2> HIDE DEF G
  <2> QED BY <1>2
<1>6. d.fields[2] = Text(mode)
  BY <1>3, <1>4, <1>5
<1>7. HasFields(d)
  <2>1. Len(d.fields) \in Nat /\ DOMAIN d.fields = 1 .. Len(d.fields)
        /\ \A i \in 1 .. Len(d.fields) : d.fields[i] \in G
    <3> HIDE DEF G
    <3> QED BY <1>4
  <2> QED BY <2>1 DEF HasFields
<1> QED
  BY <1>6, <1>7 DEF d, Lower, Text
-----------------------------------------------------------------------------

(* What setOptions() makes of a session.                                      *)
LEMMA ConfiguredRecord ==
  ASSUME NEW s \in SessionRecord, NEW opts \in Options
  PROVE  /\ Configured(s, opts) \in SessionRecord
         /\ Configured(s, opts).opts = NoOptions /\ Configured(s, opts).mode = s.mode
         /\ Configured(s, opts).foreign = s.foreign
         /\ Configured(s, opts).blockSize =
              IF Has(opts, "blksize") THEN opts["blksize"] % (Byte * Byte) ELSE s.blockSize
         /\ Configured(s, opts).timeout =
              IF Has(opts, "timeout") THEN opts["timeout"] ELSE s.timeout
<1>1. NoOptions \in Options
  BY DEF NoOptions, Options
<1>2. (Has(opts, "blksize") => opts["blksize"] \in Nat) /\ (Has(opts, "timeout") => opts["timeout"] \in Nat)
  BY DEF Has, Options, OptionName
<1>3. \A n \in Nat : n % (Byte * Byte) \in Nat
  <2>1. PICK w : w = Byte * Byte
    OBVIOUS
  <2>2. w \in Nat \ {0}
    <3>1. w \in Nat /\ MaxBlockSize < w /\ MaxBlockSize \in Nat
      BY <2>1, Limits
    <3> QED BY <3>1
  <2>3. \A n \in Nat : n % w \in Nat
    BY <2>2
  <2> QED BY <2>1, <2>3
<1> QED
  BY <1>1, <1>2, <1>3 DEF Configured, SessionRecord

(* The first state. *)
LEMMA ExchangeInit == Init => ExchangeInv
<1> SUFFICES ASSUME Init PROVE ExchangeInv
  OBVIOUS
<1>1. NewSession("octet", NoOptions) \in SessionRecord
  <2>1. NoOptions \in Options /\ InitialBlockSize \in Nat /\ InitialTimeout \in Nat
    BY Limits DEF NoOptions, Options
  <2> QED BY <2>1 DEF NewSession, SessionRecord, Mode
<1>2. /\ NewSession("octet", NoOptions).blockSize = InitialBlockSize
      /\ NewSession("octet", NoOptions).timeout = InitialTimeout
      /\ NewSession("octet", NoOptions).foreign = FALSE
  BY DEF NewSession
<1>3. ReplyInv
  BY DEF Init, ReplyInv
<1>4. AppliedInv
  BY <1>1, <1>2 DEF Init, AppliedInv
<1>5. StoredInv
  BY DEF Init, StoredInv
<1> QED
  BY <1>3, <1>4, <1>5 DEF ExchangeInv

(* The answer stays that to the request.                                      *)
LEMMA ReplyNext == ReplyInv /\ AppliedInv /\ [Next]_vars => ReplyInv'
<1> SUFFICES ASSUME ReplyInv, AppliedInv, [Next]_vars PROVE ReplyInv'
  OBVIOUS
<1>0. client \in SessionRecord /\ server \in SessionRecord
  BY DEF AppliedInv
<1>1. CASE UNCHANGED vars
  BY <1>1 DEF vars, ReplyInv
<1>2. CASE Ask
  <2>1. PICK op \in {"RRQ", "WRQ"}, opts \in ClientOptions :
          asked' = RequestBytes(op, "file", "octet", opts) /\ datagram' = asked'
    BY <1>2 DEF Ask
  <2>2. HasFields(asked') /\ Lower(asked'.fields[2]) = "octet"
    BY <2>1, RequestFields, InputAssumption
  <2>3. ParseRequest(asked').code = 0 => ParseRequest(asked').mode = "octet"
    BY <2>2, RequestRead
  <2>4. client'.mode = "octet" /\ phase' = "asked"
    BY <1>2 DEF Ask, AppliedInv, NewSession
  <2> QED BY <2>1, <2>2, <2>3, <2>4 DEF ReplyInv
<1>3. CASE ForeignAsk
  <2>1. PICK d \in ForeignRequests :
          /\ asked' = d /\ datagram' = d
          /\ client' = [client EXCEPT
               !.foreign = TRUE,
               !.mode = IF Len(d.fields) > 1 /\ Lower(d.fields[2]) \in Mode
                        THEN Lower(d.fields[2]) ELSE @]
    BY <1>3 DEF ForeignAsk
  <2>2. HasFields(d)
    BY InputAssumption
  <2>3. ParseRequest(d).code = 0 => ParseRequest(d).mode = client'.mode
    <3> SUFFICES ASSUME ParseRequest(d).code = 0 PROVE ParseRequest(d).mode = client'.mode
      OBVIOUS
    <3>1. Complete(d, 2) /\ Lower(d.fields[2]) \in Mode /\ ParseRequest(d).mode = Lower(d.fields[2])
      BY <2>2, RequestRead
    <3>2. Len(d.fields) > 1
      <4>1. \A n \in Nat : 2 \in 1 .. n => n > 1
        OBVIOUS
      <4> QED BY <2>2, <3>1, <4>1 DEF Complete, HasFields
    <3> QED BY <1>0, <2>1, <3>1, <3>2 DEF SessionRecord
  <2>4. phase' = "asked"
    BY <1>3 DEF ForeignAsk
  <2> QED BY <2>1, <2>2, <2>3, <2>4 DEF ReplyInv
<1>4. CASE ServerAnswers
  <2>1. HasFields(asked) /\ datagram = asked
    BY <1>4 DEF ServerAnswers, ReplyInv
  <2>2. /\ server' = [server EXCEPT !.mode = ParseRequest(asked).mode, !.opts = Reply(asked),
                                    !.code = ParseRequest(asked).code]
        /\ phase' \in {"refused", "answered", "agreed"} /\ asked' = asked
    BY <1>4, <2>1 DEF ServerAnswers, Reply
  <2>3. server'.opts = Reply(asked) /\ server'.code = ParseRequest(asked).code
    BY <1>0, <2>2 DEF SessionRecord
  <2> QED BY <2>1, <2>2, <2>3 DEF ReplyInv
<1>5. CASE ForeignAnswer
  <2>1. server'.foreign /\ phase' = "answered"
    BY <1>0, <1>5 DEF ForeignAnswer, SessionRecord
  <2> QED BY <2>1 DEF ReplyInv
<1>6. CASE ClientTakesOack
  <2>1. /\ phase = "answered" /\ phase' \in {"over", "agreed", "refused"}
        /\ asked' = asked /\ server' = server
    BY <1>6 DEF ClientTakesOack
  <2> QED BY <2>1 DEF ReplyInv
<1>7. CASE ForeignTakesOack
  <2>1. phase = "answered" /\ phase' = "agreed" /\ asked' = asked /\ server' = server
    BY <1>7 DEF ForeignTakesOack
  <2> QED BY <2>1 DEF ReplyInv
<1>8. CASE Download
  BY <1>8 DEF Download, ReplyInv
<1>9. CASE Upload
  BY <1>9 DEF Upload, ReplyInv
<1>10. CASE ServerStores
  <2>1. phase = "sending" /\ phase' \in {"sending", "refused"} /\ asked' = asked
    BY <1>10 DEF ServerStores
  <2> QED BY <2>1 DEF ReplyInv
<1>11. CASE ClientTakesAck
  <2>1. phase = "sending" /\ phase' \in {"sending", "refused", "stored"} /\ asked' = asked
    BY <1>11 DEF ClientTakesAck
  <2> QED BY <2>1 DEF ReplyInv
<1> QED
  BY <1>1, <1>2, <1>3, <1>4, <1>5, <1>6, <1>7, <1>8, <1>9, <1>10, <1>11 DEF Next

(* Any OACK makes options, or none.                                          *)
LEMMA OackRead ==
  ASSUME NEW d, HasFields(d)
  PROVE  /\ ParseOack(d).opts \in Options
         /\ ParseOack(d).code = 0 => ParsedOptions(d, 1) \in Options
<1> DEFINE q == ParsedOptions(d, 1)
<1>1. q \in Options \cup {None}
  <2>1. Len(d.fields) - 1 + 2 \in Nat /\ 1 \in Nat
    <3>1. \A l \in Nat : l - 1 + 2 \in Nat
      OBVIOUS
    <3> QED BY <3>1 DEF HasFields
  <2>2. /\ Turns(d, 1) \in Nat /\ q = Parsing(d, 1)[Turns(d, 1)]
        /\ Parsing(d, 1) \in [0 .. Turns(d, 1) -> Options \cup {None}]
    BY <2>1, ParsingTurns
  <2>3. Turns(d, 1) \in 0 .. Turns(d, 1)
    BY <2>2
  <2> QED BY <2>2, <2>3
<1>2. \/ ParseOack(d) \in {Rejected(ParsingError), Rejected(OptionError)}
      \/ q # None /\ ParseOack(d) = Accepted("octet", Filter(q))
  BY DEF ParseOack
<1> HIDE DEF q
<1>3. /\ Rejected(ParsingError).code # 0 /\ Rejected(OptionError).code # 0
      /\ Rejected(ParsingError).opts = NoOptions /\ Rejected(OptionError).opts = NoOptions
      /\ NoOptions \in Options
  BY DEF Rejected, ParsingError, OptionError, NoOptions, Options
<1>4. CASE ParseOack(d) \in {Rejected(ParsingError), Rejected(OptionError)}
  BY <1>3, <1>4
<1>5. CASE q # None /\ ParseOack(d) = Accepted("octet", Filter(q))
  <2>1. ParseOack(d).opts = Filter(q)
    BY <1>5 DEF Accepted
  <2>2. q \in Options /\ Filter(q) \in Options
    BY <1>1, <1>5, FilteredKept
  <2> QED BY <2>1, <2>2 DEF q
<1> QED
  BY <1>2, <1>4, <1>5

(* What the client takes out of the OACK of a ServerSession is what the       *)
(* server applies with the first block, or the first ACK.                     *)
LEMMA SameOptions ==
  ASSUME NEW opts \in Options, Filtered(opts), NEW c \in SessionRecord, NEW s \in SessionRecord,
         c.blockSize = s.blockSize, c.timeout = s.timeout,
         ParseOack(OackBytes(opts)).code = 0
  PROVE  /\ ParseOack(OackBytes(opts)).opts \in Options
         /\ Configured(c, ParseOack(OackBytes(opts)).opts).blockSize = Configured(s, opts).blockSize
         /\ Configured(c, ParseOack(OackBytes(opts)).opts).timeout = Configured(s, opts).timeout
<1> DEFINE r == ParseOack(OackBytes(opts)).opts
           q == ParsedOptions(OackBytes(opts), 1)
<1>1. \A o \in {"blksize", "timeout"} : opts[o] \in 0 .. Word - 1 \cup {None}
  <2>1. \A n \in Nat : n <= MaxBlockSize \/ n <= MaxTimeout => n \in 0 .. Word - 1
    <3>1. PICK w : w = Byte * Byte
      OBVIOUS
    <3>2. /\ MaxBlockSize < w /\ w <= Word /\ MaxTimeout < Word /\ Word \in Nat
          /\ MaxBlockSize \in Nat /\ MaxTimeout \in Nat
      BY <3>1, WidthAssumption, Limits
    <3>3. w \in Nat
      BY <3>1, Limits
    <3> QED BY <3>2, <3>3
  <2> QED BY <2>1, Limits DEF Filtered
<1>2. r = Filter(q) /\ \A o \in {"blksize", "timeout"} : q[o] = opts[o]
  BY <1>1, OackUnderstood
<1>3. q \in Options
  BY OackFields, OackRead
<1> HIDE DEF r, q
<1>4. r \in Options /\ \A o \in {"blksize", "timeout"} : r[o] = opts[o]
  BY <1>2, <1>3, FilteredKept
<1>5. /\ Configured(c, r).blockSize = Configured(s, opts).blockSize
      /\ Configured(c, r).timeout = Configured(s, opts).timeout
  BY <1>4, ConfiguredRecord DEF Has
<1> QED
  BY <1>4, <1>5 DEF r

(* So does another client that takes the OACK at its word.                    *)
LEMMA SameNumbers ==
  ASSUME NEW opts \in Options, Filtered(opts), NEW o \in {"blksize", "timeout"}
  PROVE  /\ (ValuesOf(OackBytes(opts), o) = {}) <=> ~Has(opts, o)
         /\ Has(opts, o) => ValuesOf(OackBytes(opts), o) = {opts[o]}
         /\ Has(opts, "blksize") => opts["blksize"] % (Byte * Byte) = opts["blksize"]
<1>1. PICK w : w = Byte * Byte
  OBVIOUS
<1>2. w \in Nat /\ MaxBlockSize < w /\ w <= Word /\ MaxTimeout < Word /\ Word \in Nat
      /\ MaxBlockSize \in Nat /\ MaxTimeout \in Nat
  BY <1>1, WidthAssumption, Limits
<1>3. opts[o] \in 0 .. Word - 1 \cup {None}
  BY <1>2, Limits DEF Filtered
<1>4. Has(opts, "blksize") => opts["blksize"] % w = opts["blksize"]
  BY <1>2, Limits DEF Filtered, Has
<1> QED
  BY <1>1, <1>3, <1>4, OackTakenAtItsWord

(* The two ends stay agreed.                                                  *)
LEMMA AppliedNext == Inv /\ ReplyInv /\ AppliedInv /\ [Next]_vars => AppliedInv'
<1> SUFFICES ASSUME Inv, ReplyInv, AppliedInv, [Next]_vars PROVE AppliedInv'
  OBVIOUS
<1>0. /\ client \in SessionRecord /\ server \in SessionRecord
      /\ client.opts \in Options /\ server.opts \in Options
  BY DEF AppliedInv, SessionRecord
<1>1. CASE UNCHANGED vars
  BY <1>1 DEF vars, AppliedInv, Applied
<1>2. CASE Ask
  BY <1>2 DEF Ask, AppliedInv, NewSession
<1>3. CASE ForeignAsk
  <2>1. PICK d : client' = [client EXCEPT !.foreign = TRUE,
                   !.mode = IF Len(d.fields) > 1 /\ Lower(d.fields[2]) \in Mode
                            THEN Lower(d.fields[2]) ELSE @]
    BY <1>3 DEF ForeignAsk
  <2>2. client' \in SessionRecord
    BY <1>0, <2>1 DEF SessionRecord
  <2>3. client'.blockSize = client.blockSize /\ client'.timeout = client.timeout
    BY <1>0, <2>1 DEF SessionRecord
  <2>4. phase = "asking" /\ phase' = "asked" /\ server' = server
    BY <1>3 DEF ForeignAsk
  <2> QED BY <2>2, <2>3, <2>4 DEF AppliedInv, NewSession
<1>4. CASE ServerAnswers
  <2>1. /\ HasFields(asked) /\ datagram = asked /\ phase = "asked"
        /\ ParseRequest(asked).code = 0 => ParseRequest(asked).mode = client.mode
    BY <1>4 DEF ServerAnswers, ReplyInv
  <2>2. /\ server' = [server EXCEPT !.mode = ParseRequest(asked).mode, !.opts = Reply(asked),
                                    !.code = ParseRequest(asked).code]
        /\ phase' = CASE ParseRequest(asked).code # 0 -> "refused"
                      [] ParseRequest(asked).code = 0 /\ Reply(asked) # NoOptions -> "answered"
                      [] OTHER -> "agreed"
        /\ datagram' = IF ParseRequest(asked).code = 0 /\ Reply(asked) # NoOptions
                       THEN OackBytes(Reply(asked)) ELSE None
        /\ client' = client
    BY <1>4, <2>1 DEF ServerAnswers, Reply
  <2>3. /\ Reply(asked) \in Options /\ ParseRequest(asked).mode \in Mode
        /\ ParseRequest(asked).code \in Nat
    BY <2>1, ReplyOptions, RequestRead
  <2>4. /\ server' \in SessionRecord /\ server'.opts = Reply(asked)
        /\ server'.mode = ParseRequest(asked).mode
        /\ server'.foreign = server.foreign /\ server'.blockSize = server.blockSize
        /\ server'.timeout = server.timeout
    BY <1>0, <2>2, <2>3 DEF SessionRecord
  <2>5. /\ ~server.foreign
        /\ server.blockSize = client.blockSize /\ server.timeout = client.timeout
        /\ client.blockSize = InitialBlockSize /\ client.timeout = InitialTimeout
    BY <2>1 DEF AppliedInv, NewSession
  <2>6. CASE ParseRequest(asked).code # 0
    <3>1. phase' = "refused"
      BY <2>2, <2>6
    <3> QED BY <1>0, <2>2, <2>4, <3>1 DEF AppliedInv
  <2>7. CASE ParseRequest(asked).code = 0 /\ Reply(asked) # NoOptions
    <3>1. phase' = "answered" /\ datagram' = OackBytes(server'.opts)
      BY <2>2, <2>4, <2>7
    <3> QED BY <1>0, <2>1, <2>2, <2>4, <2>5, <2>7, <3>1 DEF AppliedInv
  <2>8. CASE ParseRequest(asked).code = 0 /\ Reply(asked) = NoOptions
    <3>1. phase' = "agreed"
      BY <2>2, <2>8
    <3>2. /\ Configured(server', NoOptions).blockSize = server'.blockSize
          /\ Configured(server', NoOptions).timeout = server'.timeout
      BY <2>4 DEF Configured, SessionRecord, NoOptions, Has, OptionName
    <3> QED BY <1>0, <2>1, <2>2, <2>4, <2>5, <2>8, <3>1, <3>2 DEF AppliedInv, Applied
  <2> QED BY <2>6, <2>7, <2>8
<1>5. CASE ForeignAnswer
  <2>1. /\ phase = "asked" /\ phase' = "answered" /\ ~client.foreign /\ client' = client
        /\ server' = [server EXCEPT !.foreign = TRUE]
        /\ HasFields(datagram')
    BY <1>5, InputAssumption DEF ForeignAnswer
  <2>2. /\ server' \in SessionRecord /\ server'.foreign
        /\ server'.blockSize = server.blockSize /\ server'.timeout = server.timeout
    BY <1>0, <2>1 DEF SessionRecord
  <2> QED BY <1>0, <2>1, <2>2 DEF AppliedInv
<1>6. CASE ClientTakesOack
  <2>1. phase = "answered" /\ server' = server
    BY <1>6 DEF ClientTakesOack
  <2>2. CASE ParseOack(datagram).code # 0
    <3>1. client' = [client EXCEPT !.code = ParseOack(datagram).code] /\ phase' = "refused"
      BY <1>6, <2>2 DEF ClientTakesOack
    <3>2. ParseOack(datagram).code \in Nat
      BY DEF ParseOack, Rejected, Accepted, ParsingError, OptionError
    <3>3. client' \in SessionRecord
      BY <1>0, <3>1, <3>2 DEF SessionRecord
    <3> QED BY <1>0, <2>1, <3>1, <3>3 DEF AppliedInv
  <2>3. CASE ParseOack(datagram).code = 0
    <3>1. /\ client' = Configured(client, ParseOack(datagram).opts)
          /\ phase' = IF server.foreign THEN "over" ELSE "agreed"
      BY <1>6, <2>3 DEF ClientTakesOack
    <3>2. CASE server.foreign
      <4>1. ParseOack(datagram).opts \in Options
        BY <2>1, <3>2, OackRead DEF AppliedInv
      <4>2. client' \in SessionRecord
        BY <1>0, <3>1, <4>1, ConfiguredRecord
      <4> QED BY <1>0, <2>1, <3>1, <3>2, <4>2 DEF AppliedInv
    <3>3. CASE ~server.foreign
      <4>1. /\ datagram = OackBytes(server.opts) /\ server.mode = client.mode
            /\ client.blockSize = server.blockSize /\ client.timeout = server.timeout
        BY <2>1, <3>3 DEF AppliedInv
      <4>2. /\ ParseOack(datagram).opts \in Options
            /\ client'.blockSize = Applied.blockSize /\ client'.timeout = Applied.timeout
        BY <1>0, <2>3, <3>1, <4>1, SameOptions DEF Applied, Inv, Fits
      <4>3. client' \in SessionRecord /\ client'.mode = client.mode
        BY <1>0, <3>1, <4>2, ConfiguredRecord
      <4> QED BY <1>0, <2>1, <3>1, <3>3, <4>1, <4>2, <4>3 DEF AppliedInv, Applied
    <3> QED BY <3>2, <3>3
  <2> QED BY <2>2, <2>3
<1>7. CASE ForeignTakesOack
  <2>1. phase = "answered" /\ phase' = "agreed" /\ server' = server /\ ~server.foreign
    BY <1>7 DEF ForeignTakesOack, AppliedInv
  <2> DEFINE Value(o) == ValuesOf(datagram, o)
  <2>2. client' = [client EXCEPT
          !.blockSize = IF Value("blksize") = {} THEN @ ELSE CHOOSE v \in Value("blksize") : TRUE,
          !.timeout = IF Value("timeout") = {} THEN @ ELSE CHOOSE v \in Value("timeout") : TRUE]
    BY <1>7 DEF ForeignTakesOack, ValuesOf
  <2>3. /\ datagram = OackBytes(server.opts) /\ server.mode = client.mode
        /\ client.blockSize = server.blockSize /\ client.timeout = server.timeout
    BY <2>1 DEF AppliedInv
  <2>4. \A o \in {"blksize", "timeout"} :
          /\ (Value(o) = {}) <=> ~Has(server.opts, o)
          /\ Has(server.opts, o) => Value(o) = {server.opts[o]}
    <3>1. server.opts \in Options /\ Filtered(server.opts)
      BY <1>0 DEF Inv, Fits
    <3> QED BY <2>3, <3>1, SameNumbers
  <2>5. Has(server.opts, "blksize") => server.opts["blksize"] % (Byte * Byte) = server.opts["blksize"]
    BY <1>0, SameNumbers DEF Inv, Fits
  <2> HIDE DEF Value
  <2>6. \A x : (CHOOSE v \in {x} : TRUE) = x
    OBVIOUS
  <2>7. \A o \in {"blksize", "timeout"} : Has(server.opts, o) =>
          (CHOOSE v \in Value(o) : TRUE) = server.opts[o] /\ server.opts[o] \in Nat
    BY <1>0, <2>4, <2>6 DEF Has, Options, OptionName
  <2>8. /\ client'.blockSize = IF Has(server.opts, "blksize") THEN server.opts["blksize"] ELSE client.blockSize
        /\ client'.timeout = IF Has(server.opts, "timeout") THEN server.opts["timeout"] ELSE client.timeout
        /\ client'.mode = client.mode /\ client' \in SessionRecord
    BY <1>0, <2>2, <2>4, <2>7 DEF SessionRecord
  <2>9. client'.blockSize = Applied.blockSize /\ client'.timeout = Applied.timeout
    BY <1>0, <2>3, <2>5, <2>8, ConfiguredRecord DEF Applied
  <2> QED BY <1>0, <2>1, <2>3, <2>8, <2>9 DEF AppliedInv, Applied
<1>8. CASE Download
  <2>1. /\ phase = "agreed" /\ phase' = "over" /\ client' = client
        /\ server' = Configured(server, server.opts)
    BY <1>8 DEF Download
  <2>2. server' \in SessionRecord
    BY <1>0, <2>1, ConfiguredRecord
  <2> QED BY <1>0, <2>1, <2>2 DEF AppliedInv, Applied
<1>9. ASSUME NEW chars, SendsNext(chars)
      PROVE  /\ client' \in SessionRecord /\ client'.mode = client.mode
             /\ client'.blockSize = client.blockSize /\ client'.timeout = client.timeout
  <2> DEFINE n == (client.block + 1) % (Byte * Byte)
             l == Len(Block(chars, client.blockSize)) < client.blockSize
  <2>1. client' = [client EXCEPT !.block = n, !.last = l] /\ l \in BOOLEAN
    BY <1>9 DEF SendsNext
  <2>2. n \in Nat
    <3>1. PICK w : w = Byte * Byte
      OBVIOUS
    <3>2. w \in Nat /\ w > 0
      BY <3>1, Limits
    <3>3. client.block \in Nat
      BY <1>0 DEF SessionRecord
    <3> QED BY <3>1, <3>2, <3>3
  <2> HIDE DEF n, l
  <2> QED BY <1>0, <2>1, <2>2 DEF SessionRecord
<1>10. CASE Upload
  <2>1. /\ phase = "agreed" /\ phase' = "sending" /\ server' = server
        /\ \E chars : SendsNext(chars)
    BY <1>10 DEF Upload
  <2> QED BY <1>0, <1>9, <2>1 DEF AppliedInv, Applied
<1>11. CASE ServerStores
  <2> DEFINE s == Configured(server, server.opts)
  <2>1. /\ s \in SessionRecord /\ s.opts = NoOptions /\ s.mode = server.mode
        /\ s.foreign = server.foreign
    BY <1>0, ConfiguredRecord
  <2>2. s = Applied
    BY DEF Applied
  <2> HIDE DEF s
  <2>3. /\ phase = "sending" /\ client' = client
        /\ \/ /\ phase' = "sending"
              /\ \E n, l : /\ server' = [s EXCEPT !.block = n, !.last = l]
                           /\ n = (s.block + 1) % (Byte * Byte) /\ l \in BOOLEAN
           \/ phase' = "refused" /\ server' = [s EXCEPT !.code = 4]
    <3> DEFINE n == FromBytes(datagram.number)
               l == Len(datagram.data) < s.blockSize
    <3>1. /\ phase = "sending" /\ client' = client
          /\ \/ /\ phase' = "sending" /\ server' = [s EXCEPT !.block = n, !.last = l]
                /\ n = (s.block + 1) % (Byte * Byte)
             \/ phase' = "refused" /\ server' = [s EXCEPT !.code = 4]
      BY <1>11 DEF ServerStores, s
    <3>2. l \in BOOLEAN
      OBVIOUS
    <3> HIDE DEF n, l
    <3> QED BY <3>1, <3>2
  <2>4. CASE phase' = "sending"
    <3>1. PICK n, l : /\ server' = [s EXCEPT !.block = n, !.last = l]
                      /\ n = (s.block + 1) % (Byte * Byte) /\ l \in BOOLEAN
      BY <2>3, <2>4
    <3>2. n \in Nat
      <4>1. PICK w : w = Byte * Byte
        OBVIOUS
      <4>2. w \in Nat /\ w > 0
        BY <4>1, Limits
      <4>3. s.block \in Nat
        BY <2>1 DEF SessionRecord
      <4> QED BY <3>1, <4>1, <4>2, <4>3
    <3>3. /\ server' \in SessionRecord /\ server'.opts = NoOptions /\ server'.mode = server.mode
          /\ server'.foreign = server.foreign
          /\ server'.blockSize = s.blockSize /\ server'.timeout = s.timeout
      BY <2>1, <3>1, <3>2 DEF SessionRecord
    <3>4. /\ Configured(server', NoOptions).blockSize = server'.blockSize
          /\ Configured(server', NoOptions).timeout = server'.timeout
      BY <3>3 DEF Configured, SessionRecord, NoOptions, Has, OptionName
    <3> QED BY <1>0, <2>2, <2>3, <2>4, <3>3, <3>4 DEF AppliedInv, Applied
  <2>5. CASE phase' = "refused" /\ server' = [s EXCEPT !.code = 4]
    <3>1. server' \in SessionRecord
      BY <2>1, <2>5 DEF SessionRecord
    <3> QED BY <1>0, <2>3, <2>5, <3>1 DEF AppliedInv
  <2> QED BY <2>3, <2>4, <2>5
<1>12. CASE ClientTakesAck
  <2>1. /\ phase = "sending" /\ server' = server
        /\ \/ phase' = "refused" /\ client' = [client EXCEPT !.code = 4]
           \/ phase' = "stored" /\ client' = client
           \/ phase' = "sending" /\ SendsNext(rest)
    BY <1>12 DEF ClientTakesAck
  <2>2. CASE phase' = "refused" /\ client' = [client EXCEPT !.code = 4]
    <3>1. client' \in SessionRecord
      BY <1>0, <2>2 DEF SessionRecord
    <3> QED BY <1>0, <2>1, <2>2, <3>1 DEF AppliedInv
  <2>3. CASE phase' = "stored" /\ client' = client
    BY <1>0, <2>1, <2>3 DEF AppliedInv, Applied
  <2>4. CASE phase' = "sending" /\ SendsNext(rest)
    BY <1>0, <1>9, <2>1, <2>4 DEF AppliedInv, Applied
  <2> QED BY <2>1, <2>2, <2>3, <2>4
<1> QED
  BY <1>1, <1>2, <1>3, <1>4, <1>5, <1>6, <1>7, <1>8, <1>10, <1>11, <1>12 DEF Next

-----------------------------------------------------------------------------
(* The blocks of an upload. *)

(* The smaller of two numbers. *)
LEMMA Smaller ==
  ASSUME NEW x \in Nat, NEW y \in Nat
  PROVE  Min({x, y}) = IF x <= y THEN x ELSE y
<1> DEFINE low == IF x <= y THEN x ELSE y
<1>1. low \in {x, y} /\ \A z \in {x, y} : low <= z
  OBVIOUS
<1>2. \A v \in {x, y} : (\A z \in {x, y} : v <= z) => v = low
  OBVIOUS
<1> HIDE DEF low
<1>3. Min({x, y}) = low
  BY <1>1, <1>2 DEF Min
<1> QED
  BY <1>3 DEF low

(* A part that begins behind the first i elements. *)
LEMMA Part ==
  ASSUME NEW C, NEW s \in Seq(C), NEW i \in Nat, NEW j \in Nat, i <= j, j <= Len(s)
  PROVE  /\ SubSeq(s, i + 1, j) \in Seq(C) /\ Len(SubSeq(s, i + 1, j)) = j - i
         /\ \A h \in 1 .. j - i : SubSeq(s, i + 1, j)[h] = s[i + h]
<1>1. i + 1 \in Nat /\ 1 <= i + 1 /\ i + 1 <= j + 1 /\ j - (i + 1) + 1 = j - i
      /\ \A h \in Int : (i + 1) + h - 1 = i + h
  OBVIOUS
<1>2. /\ SubSeq(s, i + 1, j) \in Seq(C) /\ Len(SubSeq(s, i + 1, j)) = j - (i + 1) + 1
      /\ \A h \in 1 .. j - (i + 1) + 1 : SubSeq(s, i + 1, j)[h] = s[(i + 1) + h - 1]
  BY <1>1, Cut
<1> DEFINE u == SubSeq(s, i + 1, j)
<1> HIDE DEF u
<1>3. u \in Seq(C) /\ Len(u) = j - i /\ \A h \in 1 .. j - i : u[h] = s[i + h]
  BY <1>1, <1>2 DEF u
<1> QED
  BY <1>3 DEF u

(* A part of a part. *)
LEMMA PartOfPart ==
  ASSUME NEW C, NEW s \in Seq(C), NEW i \in Nat, NEW j \in Nat, i <= j, j <= Len(s),
         NEW h \in Nat, NEW k \in Nat, h <= k, k <= j - i
  PROVE  SubSeq(SubSeq(s, i + 1, j), h + 1, k) = SubSeq(s, (i + h) + 1, i + k)
<1> DEFINE u == SubSeq(s, i + 1, j)
           v == SubSeq(u, h + 1, k)
           w == SubSeq(s, (i + h) + 1, i + k)
<1>1. u \in Seq(C) /\ Len(u) = j - i /\ \A q \in 1 .. j - i : u[q] = s[i + q]
  BY Part
<1> HIDE DEF u
<1>2. v \in Seq(C) /\ Len(v) = k - h /\ \A q \in 1 .. k - h : v[q] = u[h + q]
  <2>1. u \in Seq(C) /\ k <= Len(u)
    BY <1>1
  <2> QED BY <2>1, Part
<1>3. i + h \in Nat /\ i + k \in Nat /\ i + h <= i + k /\ i + k <= Len(s) /\ (i + k) - (i + h) = k - h
  BY <1>1
<1>4. w \in Seq(C) /\ Len(w) = (i + k) - (i + h)
      /\ \A q \in 1 .. (i + k) - (i + h) : w[q] = s[(i + h) + q]
  BY <1>3, Part
<1> HIDE DEF v, w
<1>5. ASSUME NEW q \in 1 .. k - h PROVE v[q] = w[q]
  <2>1. h + q \in 1 .. j - i /\ i + (h + q) = (i + h) + q
    OBVIOUS
  <2>2. u[h + q] = s[i + (h + q)]
    BY <1>1, <2>1
  <2> QED BY <1>2, <1>3, <1>4, <2>1, <2>2
<1>6. v = w
  BY <1>2, <1>3, <1>4, <1>5, SeqEqual
<1> QED
  BY <1>6 DEF u, v, w

(* The next block is cut off what is left, and a short block is the last one. *)
LEMMA NextBlock ==
  ASSUME NEW e \in Seq(Char), NEW n \in 0 .. Len(e), NEW size \in Nat \ {0}
  PROVE  LET left == SubSeq(e, n + 1, Len(e))
             data == Block(left, size)
             m == n + Len(data)
         IN /\ m \in n .. Len(e) /\ data = SubSeq(e, n + 1, m)
            /\ SubSeq(left, Len(data) + 1, Len(left)) = SubSeq(e, m + 1, Len(e))
            /\ Len(SubSeq(e, m + 1, Len(e))) = Len(e) - m
            /\ IF Len(data) < size THEN m = Len(e) ELSE Len(data) = size
<1> DEFINE len == Len(e)
           left == SubSeq(e, n + 1, len)
           w == IF size <= len - n THEN size ELSE len - n
           m == n + w
<1>0. len \in Nat /\ n \in Nat /\ n <= len /\ len <= Len(e)
  OBVIOUS
<1>1. left \in Seq(Char) /\ Len(left) = len - n
  BY <1>0, Part
<1> HIDE DEF len, left
<1>2. Min({size, Len(left)}) = w
  BY <1>0, <1>1, Smaller
<1>3. w \in 0 .. len - n /\ m \in n .. len /\ (w < size => m = len) /\ (~(w < size) => w = size)
  BY <1>0
<1> HIDE DEF w
<1>4. w \in Nat /\ 0 \in Nat /\ 0 <= w /\ w <= len - n /\ w <= Len(left) /\ len - n \in Nat
  BY <1>0, <1>1, <1>3
<1>5. Block(left, size) = SubSeq(left, 0 + 1, w)
  <2>1. Block(left, size) = SubSeq(left, 1, w)
    BY <1>2 DEF Block
  <2>2. 0 + 1 = 1
    OBVIOUS
  <2> HIDE DEF m
  <2> QED BY <2>1, <2>2
<1>6. Len(SubSeq(left, 0 + 1, w)) = w - 0
  BY <1>1, <1>4, Part
<1>7. SubSeq(left, 0 + 1, w) = SubSeq(e, (n + 0) + 1, n + w)
  BY <1>0, <1>4, PartOfPart DEF left
<1>8. SubSeq(left, w + 1, len - n) = SubSeq(e, (n + w) + 1, n + (len - n))
  BY <1>0, <1>4, PartOfPart DEF left
<1>9. w - 0 = w /\ n + 0 = n /\ n + (len - n) = len /\ m \in Nat /\ m <= len
  BY <1>0, <1>3
<1>10. Len(SubSeq(e, m + 1, len)) = len - m
  BY <1>0, <1>9, Part
<1>11. Len(Block(left, size)) = w /\ Block(left, size) = SubSeq(e, n + 1, m)
  BY <1>5, <1>6, <1>7, <1>9
<1>12. SubSeq(left, Len(Block(left, size)) + 1, Len(left)) = SubSeq(e, m + 1, len)
  BY <1>1, <1>8, <1>9, <1>11
<1> QED
  BY <1>3, <1>10, <1>11, <1>12 DEF left, len

(* A whole number of blocks, and one more. *)
LEMMA WholeBlocks ==
  ASSUME NEW s \in Nat \ {0}
  PROVE  0 % s = 0 /\ \A n \in Nat : n % s = 0 => (n + s) % s = 0
<1>1. \A q \in Nat : (s * q) % s = 0
  OBVIOUS
<1>2. ASSUME NEW n \in Nat, n % s = 0 PROVE (n + s) % s = 0
  <2>1. PICK q \in Nat : n = s * q
    BY <1>2
  <2>2. n + s = s * (q + 1) /\ q + 1 \in Nat
    BY <2>1
  <2> QED BY <1>1, <2>2
<1> QED
  BY <1>2

(* What the client sends is made of characters. *)
LEMMA EncodedCharacters ==
  ASSUME text \in Seq(Char)
  PROVE  Encoded \in Seq(Char) /\ Len(Encoded) \in Nat
<1>1. Encode(text) \in Seq(Char)
  BY PrefixEncoded
<1>2. Encoded \in Seq(Char)
  BY <1>1 DEF Encoded
<1> QED
  BY <1>2

(* Nothing stands for nothing. *)
LEMMA NothingStored ==
  ASSUME text' \in Seq(Char), file' = <<>>
  PROVE  Holds(0)'
<1>1. \A C : \A s \in Seq(C) : SubSeq(s, 1, 0) = <<>>
  OBVIOUS
<1>2. Encoded' \in Seq(Char)
  <2>1. Encode(text') \in Seq(Char)
    BY PrefixEncoded
  <2> QED BY <2>1 DEF Encoded
<1>3. SubSeq(text', 1, 0) = <<>> /\ SubSeq(Encoded', 1, 0) = <<>> /\ 0 \in 0 .. Len(text')
  BY <1>1, <1>2
<1>4. Encode(<<>>) = <<>>
  <2>1. <<>> \in Seq(Char) /\ Len(<<>>) = 0
    OBVIOUS
  <2> QED BY <2>1, Encoding
<1> QED
  BY <1>3, <1>4 DEF Holds

(* The next block of the input is the next part of it.                        *)
LEMMA NextBlockSent ==
  ASSUME client \in SessionRecord, client.blockSize > 0,
         NEW e \in Seq(Char), NEW n \in 0 .. Len(e), n % client.blockSize = 0,
         SendsNext(SubSeq(e, n + 1, Len(e)))
  PROVE  /\ client'.mode = client.mode /\ client'.blockSize = client.blockSize
         /\ \E m \in n .. Len(e) :
              /\ rest' = SubSeq(e, m + 1, Len(e)) /\ Len(rest') = Len(e) - m
              /\ datagram'.op = "DATA" /\ datagram'.data = SubSeq(e, n + 1, m)
              /\ IF client'.last THEN m = Len(e) ELSE m % client.blockSize = 0
<1> DEFINE left == SubSeq(e, n + 1, Len(e))
           size == client.blockSize
           data == Block(left, size)
           m == n + Len(data)
<1>1. size \in Nat \ {0}
  BY DEF SessionRecord
<1>2. /\ m \in n .. Len(e) /\ data = SubSeq(e, n + 1, m)
      /\ SubSeq(left, Len(data) + 1, Len(left)) = SubSeq(e, m + 1, Len(e))
      /\ Len(SubSeq(e, m + 1, Len(e))) = Len(e) - m
      /\ IF Len(data) < size THEN m = Len(e) ELSE Len(data) = size
  BY <1>1, NextBlock
<1> HIDE DEF data, left
<1>3. /\ client' = [client EXCEPT !.block = (client.block + 1) % (Byte * Byte),
                                  !.last = Len(data) < size]
      /\ datagram'.op = "DATA" /\ datagram'.data = data
      /\ rest' = SubSeq(left, Len(data) + 1, Len(left))
  BY DEF SendsNext, data, left
<1>4. client'.mode = client.mode /\ client'.blockSize = size /\ client'.last = (Len(data) < size)
  BY <1>3 DEF SessionRecord
<1>5. ~client'.last => m % size = 0
  <2>1. ~client'.last => m = n + size
    BY <1>2, <1>4
  <2> QED BY <1>1, <2>1, WholeBlocks
<1>6. client'.last => m = Len(e)
  BY <1>2, <1>4
<1> HIDE DEF m
<1> QED
  BY <1>2, <1>3, <1>4, <1>5, <1>6

(* A block stored behind those before it.                                     *)
LEMMA OneMoreBlock ==
  ASSUME text \in Seq(Char), client \in SessionRecord,
         NEW n \in 0 .. Len(Encoded), NEW m \in n .. Len(Encoded), Holds(n),
         m = Len(Encoded) \/ m % client.blockSize = 0,
         file' = file \o Written(client.mode, SubSeq(Encoded, n + 1, m)),
         client' = client, text' = text
  PROVE  Holds(m)'
<1>0. Encoded \in Seq(Char) /\ Len(Encoded) \in Nat /\ n \in Nat /\ m \in Nat /\ n <= m /\ m <= Len(Encoded)
  BY EncodedCharacters
<1>1. client.mode \in {"octet", "netascii"}
  BY DEF SessionRecord, Mode
<1>2. CASE client.mode = "octet"
  <2>1. Encoded = text /\ file = SubSeq(text, 1, n)
    BY <1>2 DEF Encoded, Holds
  <2>2. file' = SubSeq(text, 1, n) \o SubSeq(text, n + 1, m)
    BY <1>2, <2>1 DEF Written
  <2>3. file' = SubSeq(text, 1, m)
    BY <1>0, <2>1, <2>2, CutsMeet
  <2> QED BY <1>2, <2>3 DEF Holds
<1>3. CASE client.mode = "netascii"
  <2>1. Encoded = Encode(text) /\ Encoded' = Encode(text)
    BY <1>3 DEF Encoded
  <2> SUFFICES ASSUME Plain(text), CutBetween(Encode(text), client.blockSize)
               PROVE  \E k \in 0 .. Len(text) :
                        /\ SubSeq(Encode(text), 1, m) = Encode(SubSeq(text, 1, k))
                        /\ file' = SubSeq(text, 1, k)
    BY <1>3, <2>1 DEF Holds
  <2>2. PICK k \in 0 .. Len(text) :
          /\ SubSeq(Encode(text), 1, n) = Encode(SubSeq(text, 1, k))
          /\ file = SubSeq(text, 1, k)
    BY <1>3, <2>1 DEF Holds
  <2>3. file' = SubSeq(text, 1, k) \o Decode(SubSeq(Encode(text), n + 1, m))
    BY <1>3, <2>1, <2>2 DEF Written
  <2>4. client.blockSize \in Nat
    BY DEF SessionRecord
  <2>5. PICK j \in 0 .. Len(text) :
          /\ SubSeq(Encode(text), 1, m) = Encode(SubSeq(text, 1, j))
          /\ SubSeq(text, 1, k) \o Decode(SubSeq(Encode(text), n + 1, m)) = SubSeq(text, 1, j)
    BY <2>1, <2>2, <2>4, BlockStored
  <2> QED BY <2>3, <2>5
<1> QED
  BY <1>1, <1>2, <1>3

(* The file stays what has been sent of the text. *)
LEMMA StoredNext == Inv /\ AppliedInv /\ StoredInv /\ [Next]_vars => StoredInv'
<1> SUFFICES ASSUME Inv, AppliedInv, StoredInv, [Next]_vars PROVE StoredInv'
  OBVIOUS
<1>0. /\ client \in SessionRecord /\ server \in SessionRecord /\ server.opts \in Options
      /\ Applied.blockSize > 0
  <2>1. client \in SessionRecord /\ server \in SessionRecord /\ server.opts \in Options
    BY DEF AppliedInv, SessionRecord
  <2>2. Fits(Configured(server, server.opts))
    BY ConfiguredFits DEF Inv, Fits
  <2> QED BY <2>1, <2>2 DEF Fits, WithinLimits, Applied
<1>1. CASE UNCHANGED vars
  <2> USE <1>1 DEF vars
  <2>1. Encoded' = Encoded /\ Sent' = Sent
    BY DEF Encoded, Sent
  <2>2. \A n : Holds(n)' <=> Holds(n)
    BY <2>1 DEF Holds
  <2>3. phase = "sending" => StoredInv'
    BY <2>1, <2>2 DEF StoredInv
  <2>4. phase = "stored" => StoredInv'
    BY <2>1, <2>2 DEF StoredInv
  <2>5. phase \notin {"sending", "stored"} => StoredInv'
    BY DEF StoredInv
  <2> QED BY <2>3, <2>4, <2>5
<1>2. CASE Ask \/ ForeignAsk \/ ServerAnswers \/ ForeignAnswer \/ ClientTakesOack \/ ForeignTakesOack
           \/ Download
  <2>1. /\ phase \in {"asking", "asked", "answered", "agreed"} /\ file' = file
        /\ phase' \in {"asked", "answered", "agreed", "refused", "over"}
    BY <1>2 DEF Ask, ForeignAsk, ServerAnswers, ForeignAnswer, ClientTakesOack, ForeignTakesOack,
                Download
  <2> QED BY <2>1 DEF StoredInv
<1>3. CASE Upload
  <2>1. PICK t \in Texts :
          text' = t /\ SendsNext(IF client.mode = "netascii" THEN Encode(t) ELSE t)
    BY <1>3 DEF Upload
  <2>2. phase = "agreed" /\ phase' = "sending" /\ file = <<>> /\ file' = <<>>
    BY <1>3 DEF Upload, StoredInv
  <2> DEFINE e == IF client.mode = "netascii" THEN Encode(t) ELSE t
  <2>3. t \in Seq(Char) /\ e \in Seq(Char) /\ Len(e) \in Nat
    <3>1. t \in Seq(Char)
      BY InputAssumption
    <3>2. e \in Seq(Char)
      BY <3>1, PrefixEncoded
    <3> HIDE DEF e
    <3> QED BY <3>1, <3>2
  <2> HIDE DEF e
  <2>4. client.blockSize > 0
    BY <1>0, <2>2 DEF AppliedInv
  <2>5. SubSeq(e, 0 + 1, Len(e)) = e /\ 0 \in 0 .. Len(e) /\ 0 % client.blockSize = 0
    <3>1. client.blockSize \in Nat \ {0}
      BY <1>0, <2>4 DEF SessionRecord
    <3>2. SubSeq(e, 1, Len(e)) = e
      BY <2>3, SubSeqFull
    <3> QED BY <2>3, <3>1, <3>2, WholeBlocks
  <2>6. SendsNext(SubSeq(e, 0 + 1, Len(e)))
    BY <2>1, <2>5 DEF e
  <2>7. client'.mode = client.mode /\ client'.blockSize = client.blockSize
    BY <1>0, <2>3, <2>4, <2>5, <2>6, NextBlockSent
  <2>8. PICK m \in 0 .. Len(e) :
          /\ rest' = SubSeq(e, m + 1, Len(e)) /\ Len(rest') = Len(e) - m
          /\ datagram'.op = "DATA" /\ datagram'.data = SubSeq(e, 0 + 1, m)
          /\ IF client'.last THEN m = Len(e) ELSE m % client.blockSize = 0
    BY <1>0, <2>3, <2>4, <2>5, <2>6, NextBlockSent
  <2>9. Encoded' = e
    BY <2>1, <2>7 DEF Encoded, e
  <2>10. Sent' = m
    BY <2>3, <2>8, <2>9 DEF Sent
  <2>11. text' \in Seq(Char) /\ file' = <<>>
    BY <2>1, <2>2, <2>3
  <2>12. Holds(0)'
    BY <2>11, NothingStored
  <2>13. 0 \in 0 .. m
    BY <2>3
  <2> HIDE DEF Holds
  <2> QED BY <2>2, <2>5, <2>7, <2>8, <2>9, <2>10, <2>11, <2>12, <2>13 DEF StoredInv
<1>4. CASE ServerStores
  <2> DEFINE s == Configured(server, server.opts)
  <2>1. /\ phase = "sending" /\ datagram.op = "DATA"
        /\ client' = client /\ text' = text /\ rest' = rest
        /\ \/ /\ phase' = "sending" /\ datagram'.op = "ACK"
              /\ file' = file \o Written(s.mode, datagram.data)
           \/ phase' = "refused"
    BY <1>4 DEF ServerStores
  <2>2. s.mode = client.mode
    BY <1>0, <2>1, ConfiguredRecord DEF AppliedInv
  <2> HIDE DEF s
  <2>3. Encoded' = Encoded /\ Sent' = Sent
    BY <2>1 DEF Encoded, Sent
  <2>4. CASE phase' = "refused"
    BY <2>4 DEF StoredInv
  <2>5. CASE phase' = "sending"
    <3>1. /\ text \in Seq(Char)
          /\ Sent \in 0 .. Len(Encoded) /\ rest = SubSeq(Encoded, Sent + 1, Len(Encoded))
          /\ IF client.last THEN Sent = Len(Encoded) ELSE Sent % client.blockSize = 0
      BY <2>1 DEF StoredInv
    <3>2. PICK n \in 0 .. Sent :
            datagram.data = SubSeq(Encoded, n + 1, Sent) /\ Holds(n)
      BY <2>1 DEF StoredInv
    <3>3. file' = file \o Written(client.mode, SubSeq(Encoded, n + 1, Sent)) /\ datagram'.op = "ACK"
      BY <2>1, <2>2, <2>5, <3>2
    <3>4. n \in 0 .. Len(Encoded) /\ Sent \in n .. Len(Encoded)
      <4>1. Len(Encoded) \in Nat
        BY <3>1, EncodedCharacters
      <4> HIDE DEF Sent
      <4> QED BY <3>1, <4>1
    <3>5. PICK m : m = Sent
      OBVIOUS
    <3>6. Holds(m)'
      <4>1. /\ m \in n .. Len(Encoded) /\ (m = Len(Encoded) \/ m % client.blockSize = 0)
            /\ file' = file \o Written(client.mode, SubSeq(Encoded, n + 1, m))
        BY <3>1, <3>3, <3>4, <3>5
      <4> QED BY <1>0, <2>1, <3>1, <3>2, <3>4, <4>1, OneMoreBlock
    <3>7. Holds(Sent)'
      BY <2>3, <3>5, <3>6 DEF Holds
    <3> QED BY <2>1, <2>3, <2>5, <3>1, <3>3, <3>7 DEF StoredInv
  <2> QED BY <2>1, <2>4, <2>5
<1>5. CASE ClientTakesAck
  <2>1. /\ phase = "sending" /\ datagram.op = "ACK" /\ text' = text /\ file' = file
        /\ \/ phase' = "refused"
           \/ phase' = "stored" /\ client' = client /\ client.last
           \/ phase' = "sending" /\ SendsNext(rest) /\ ~client.last
    BY <1>5 DEF ClientTakesAck
  <2>2. /\ text \in Seq(Char) /\ Holds(Sent)
        /\ Sent \in 0 .. Len(Encoded) /\ rest = SubSeq(Encoded, Sent + 1, Len(Encoded))
        /\ IF client.last THEN Sent = Len(Encoded) ELSE Sent % client.blockSize = 0
    BY <2>1 DEF StoredInv
  <2>3. CASE phase' = "refused"
    BY <2>3 DEF StoredInv
  <2>4. CASE phase' = "stored" /\ client' = client /\ client.last
    <3>1. Holds(Len(Encoded)) /\ Encoded' = Encoded
      BY <2>1, <2>2, <2>4 DEF Encoded
    <3>2. Holds(Len(Encoded))'
      BY <2>1, <2>4, <3>1 DEF Holds
    <3> QED BY <2>1, <2>2, <2>4, <3>2 DEF StoredInv
  <2>5. CASE phase' = "sending" /\ SendsNext(rest) /\ ~client.last
    <3> DEFINE e == Encoded
    <3>1. e \in Seq(Char) /\ Len(e) \in Nat
      BY <2>2, EncodedCharacters
    <3>2. PICK n : n = Sent
      OBVIOUS
    <3>3. n \in 0 .. Len(e) /\ n % client.blockSize = 0 /\ SendsNext(SubSeq(e, n + 1, Len(e))) /\ Holds(n)
      BY <2>2, <2>5, <3>2
    <3>4. client.blockSize > 0
      BY <1>0, <2>1 DEF AppliedInv
    <3> HIDE DEF e
    <3>5. client'.mode = client.mode /\ client'.blockSize = client.blockSize
      BY <1>0, <3>1, <3>3, <3>4, NextBlockSent
    <3>6. PICK m \in n .. Len(e) :
            /\ rest' = SubSeq(e, m + 1, Len(e)) /\ Len(rest') = Len(e) - m
            /\ datagram'.op = "DATA" /\ datagram'.data = SubSeq(e, n + 1, m)
            /\ IF client'.last THEN m = Len(e) ELSE m % client.blockSize = 0
      BY <1>0, <3>1, <3>3, <3>4, NextBlockSent
    <3>7. Encoded' = e
      BY <2>1, <3>5 DEF Encoded, e
    <3>8. Sent' = m
      BY <3>1, <3>6, <3>7 DEF Sent
    <3>9. Holds(n)'
      BY <2>1, <3>3, <3>5, <3>7 DEF Holds, e
    <3>10. n \in 0 .. m /\ m \in 0 .. Len(e)
      BY <3>1, <3>3
    <3> HIDE DEF Holds
    <3> QED BY <2>1, <2>2, <2>5, <3>3, <3>5, <3>6, <3>7, <3>8, <3>9, <3>10 DEF StoredInv
  <2> QED BY <2>1, <2>3, <2>4, <2>5
<1> QED
  BY <1>1, <1>2, <1>3, <1>4, <1>5 DEF Next

-----------------------------------------------------------------------------
(* What follows from the invariant. *)

(* In a set of at most one element any two are the same. *)
LEMMA OnlyElement ==
  ASSUME NEW S, IsFiniteSet(S), Cardinality(S) <= 1, NEW x \in S, NEW y \in S
  PROVE  x = y
<1> SUFFICES ASSUME x # y PROVE FALSE
  OBVIOUS
<1>1. IsFiniteSet({x}) /\ Cardinality({x}) = 1
  BY FS_Singleton
<1>2. IsFiniteSet({x} \cup {y}) /\ Cardinality({x} \cup {y}) = Cardinality({x}) + 1
  BY <1>1, FS_AddElement
<1>3. Cardinality({x} \cup {y}) <= Cardinality(S)
  BY FS_Subset
<1>4. Cardinality(S) \in Nat
  BY FS_CardinalityType
<1> QED
  BY <1>1, <1>2, <1>3, <1>4

(* The pairs of fields behind the mode.                                       *)
At(k) == 3 + 2 * (k - 1)

(* What the server answers to what a pair gives, and to nothing.              *)
LEMMA AnswerGiven ==
  ASSUME HasFields(asked), ParseRequest(asked).code = 0, NEW o \in OptionName
  PROVE  /\ ParsedOptions(asked, 3)[o] = None => Reply(asked)[o] = None
         /\ \A i, v : Gives(asked, i, o, v) /\ v \in Nat /\ ParsedOptions(asked, 3)[o] = v
              => Reply(asked)[o] = Answer(o, v)
<1> DEFINE q == ParsedOptions(asked, 3)
           f == Filter(q)
<1>1. /\ ParseRequest(asked).opts = f /\ q \in Options /\ f \in Options
      /\ asked.op \in {"RRQ", "WRQ"}
  BY RequestRead
<1>2. FileSize \in Nat /\ MaxTsize \in Nat /\ None \notin Int /\ NaN \notin Int
  BY BufferAssumption, WidthAssumption, NotNumbers
<1> HIDE DEF q
<1>3. /\ o = "blksize" => f[o] = IF q[o] \in MinBlockSize .. MaxBlockSize THEN q[o]
                                 ELSE IF q[o] \in Nat /\ q[o] > MaxBlockSize THEN MaxBlockSize
                                 ELSE None
      /\ o = "timeout" => f[o] = IF q[o] \in MinTimeout .. MaxTimeout THEN q[o] ELSE None
      /\ o = "tsize" => f[o] = IF q[o] \in 0 .. MaxTsize THEN q[o] ELSE None
  BY DEF Filter, OptionName
<1> HIDE DEF f
<1>4. Reply(asked) = IF asked.op = "RRQ" /\ Has(f, "tsize") THEN [f EXCEPT !["tsize"] = FileSize] ELSE f
  BY <1>1 DEF Reply
<1>5. /\ o # "tsize" => Reply(asked)[o] = f[o]
      /\ o = "tsize" => Reply(asked)[o] = IF asked.op = "RRQ" /\ f[o] # None THEN FileSize ELSE f[o]
  BY <1>1, <1>4 DEF Options, Has
<1>6. q[o] = None => f[o] = None
  BY <1>2, <1>3, Limits DEF OptionName
<1>7. ASSUME NEW i, NEW v, Gives(asked, i, o, v), v \in Nat, q[o] = v
      PROVE  Reply(asked)[o] = Answer(o, v)
  <2>0. v # NaN /\ None # v
    BY <1>2, <1>7
  <2>1. CASE o = "blksize"
    <3>1. Min({v, MaxBlockSize}) = IF v <= MaxBlockSize THEN v ELSE MaxBlockSize
      BY <1>7, Limits, Smaller
    <3>2. Answer(o, v) = IF v < MinBlockSize THEN None ELSE Min({v, MaxBlockSize})
      BY <2>0, <2>1 DEF Answer
    <3>3. Reply(asked)[o] = IF v \in MinBlockSize .. MaxBlockSize THEN v
                            ELSE IF v > MaxBlockSize THEN MaxBlockSize ELSE None
      BY <1>3, <1>5, <1>7, <2>1
    <3> QED BY <1>7, <3>1, <3>2, <3>3, Limits
  <2>2. CASE o = "timeout"
    <3>1. Answer(o, v) = IF MinTimeout <= v /\ v <= MaxTimeout THEN v ELSE None
      BY <2>0, <2>2 DEF Answer
    <3>2. Reply(asked)[o] = IF v \in MinTimeout .. MaxTimeout THEN v ELSE None
      BY <1>3, <1>5, <1>7, <2>2
    <3> QED BY <1>7, <3>1, <3>2, Limits
  <2>3. CASE o = "tsize" /\ asked.op = "RRQ"
    <3>1. v = 0
      BY <1>7, <2>3 DEF Gives
    <3>2. Answer(o, v) = FileSize
      BY <2>0, <2>3, <3>1 DEF Answer
    <3>3. f[o] = 0
      BY <1>2, <1>3, <1>7, <2>3, <3>1
    <3>4. Reply(asked)[o] = FileSize
      BY <1>2, <1>5, <2>3, <3>3
    <3> QED BY <3>2, <3>4
  <2>4. CASE o = "tsize" /\ asked.op # "RRQ"
    <3>1. Answer(o, v) = IF v <= MaxTsize THEN v ELSE None
      BY <2>0, <2>4 DEF Answer
    <3>2. Reply(asked)[o] = IF v \in 0 .. MaxTsize THEN v ELSE None
      BY <1>3, <1>5, <1>7, <2>4
    <3> QED BY <1>2, <1>7, <3>1, <3>2
  <2> QED BY <2>1, <2>2, <2>3, <2>4 DEF OptionName
<1> QED
  BY <1>5, <1>6, <1>7 DEF q

(* What pairs of a request name, and what the loop makes of them.             *)
LEMMA RequestParsed ==
  ASSUME HasFields(asked), ParseRequest(asked).code = 0, NEW o \in OptionName
  PROVE  /\ ParsedOptions(asked, 3)[o] # None =>
              \E i \in Named(o) : Gives(asked, i, o, ParsedOptions(asked, 3)[o])
                                  /\ ParsedOptions(asked, 3)[o] \in Nat
         /\ \A v : \A i \in Named(o) :
              Gives(asked, i, o, v) => ParsedOptions(asked, 3)[o] = v /\ v \in Nat
<1> DEFINE q == ParsedOptions(asked, 3)
           N == Turns(asked, 3)
           len == Len(asked.fields)
<1>1. len - 3 + 2 \in Nat /\ q \in Options /\ len \in Nat /\ 3 \in Nat
  BY RequestRead DEF HasFields
<1>2. N \in Nat /\ q = Parsing(asked, 3)[N] /\ N \in 0 .. N
  <2>1. N \in Nat /\ q = Parsing(asked, 3)[N]
    BY <1>1, ParsingTurns
  <2> HIDE DEF N
  <2> QED BY <2>1
<1>3. q # None
  BY <1>1, NotOptions
<1> HIDE DEF q
<1>4. /\ Has(q, o) => \E k \in 1 .. N : Gives(asked, At(k), o, q[o])
      /\ \A v : \A k \in 1 .. N : Gives(asked, At(k), o, v) => q[o] = v /\ v \in Nat
  <2>1. N \in 0 .. Turns(asked, 3) /\ Parsing(asked, 3)[N] # None
    BY <1>2, <1>3
  <2> HIDE DEF N
  <2>2. /\ Has(Parsing(asked, 3)[N], o) =>
             \E k \in 1 .. N : Gives(asked, 3 + 2 * (k - 1), o, Parsing(asked, 3)[N][o])
        /\ \A v : \A k \in 1 .. N :
             Gives(asked, 3 + 2 * (k - 1), o, v) => Parsing(asked, 3)[N][o] = v /\ v \in Nat
    BY <1>1, <2>1, Parsed
  <2> QED BY <1>2, <2>2 DEF At
<1>5. \A l \in Nat, k \in Nat : k >= 1 /\ At(k) + 1 <= l => At(k) \in 3 .. l - 1 /\ At(k) % 2 = 1
  BY DEF At
<1>6. ASSUME q[o] # None PROVE \E i \in Named(o) : Gives(asked, i, o, q[o]) /\ q[o] \in Nat
  <2>1. PICK k \in 1 .. N : Gives(asked, At(k), o, q[o])
    BY <1>4, <1>6 DEF Has
  <2>2. k \in Nat /\ k >= 1 /\ At(k) + 1 <= len /\ Lower(asked.fields[At(k)]) = o
    <3>1. At(k) + 1 \in 1 .. len /\ Lower(asked.fields[At(k)]) = o
      BY <2>1 DEF Gives, Complete
    <3>2. k \in Nat /\ k >= 1
      <4> HIDE DEF N
      <4> QED BY <1>2
    <3> HIDE DEF len
    <3> QED BY <1>1, <3>1, <3>2
  <2>3. At(k) \in Named(o)
    <3>1. At(k) \in 3 .. len - 1 /\ At(k) % 2 = 1
      <4> HIDE DEF len
      <4> QED BY <1>1, <1>5, <2>2
    <3> QED BY <2>2, <3>1 DEF Named
  <2>4. q[o] \in Nat
    BY <1>1, <1>6 DEF Options, q
  <2> QED BY <2>1, <2>3, <2>4
<1>7. ASSUME NEW i \in Named(o), NEW v, Gives(asked, i, o, v) PROVE q[o] = v /\ v \in Nat
  <2>1. i \in 3 .. len - 1 /\ i % 2 = 1
    BY DEF Named
  <2>2. \A l \in Nat : l - 3 + 2 \in Nat => \A j \in 3 .. l - 1 : j % 2 = 1 =>
          (j - 1) \div 2 \in 1 .. (l - 3 + 2) \div 2 /\ j = At((j - 1) \div 2)
    BY DEF At
  <2>3. (i - 1) \div 2 \in 1 .. N /\ i = At((i - 1) \div 2)
    BY <1>1, <2>1, <2>2 DEF Turns
  <2> HIDE DEF N
  <2> QED BY <1>4, <1>7, <2>3
<1> QED
  BY <1>6, <1>7 DEF q

(* Every option of the answer is an answer to a pair of the request.          *)
LEMMA AnswersImplied == ExchangeInv => AnswersOnlyWhatWasAsked
<1> SUFFICES ASSUME ExchangeInv, Read, NEW o \in OptionName, Has(server.opts, o)
             PROVE  server.opts[o] \in Answers(o)
  BY DEF AnswersOnlyWhatWasAsked
<1>1. HasFields(asked) /\ server.opts = Reply(asked)
  BY DEF ExchangeInv, ReplyInv, Read
<1>2. ParseRequest(asked).code = 0
  <2> SUFFICES ASSUME ParseRequest(asked).code # 0 PROVE FALSE
    OBVIOUS
  <2>1. ParseRequest(asked).opts = NoOptions
    BY <1>1, RequestRead
  <2>2. Reply(asked) = NoOptions
    BY <2>1 DEF Reply, Has, NoOptions, OptionName
  <2> QED BY <1>1, <2>2 DEF Has, NoOptions
<1>3. ParsedOptions(asked, 3)[o] # None
  BY <1>1, <1>2, AnswerGiven DEF Has
<1>4. PICK i \in Named(o) : Gives(asked, i, o, ParsedOptions(asked, 3)[o])
                            /\ ParsedOptions(asked, 3)[o] \in Nat
  BY <1>1, <1>2, <1>3, RequestParsed
<1>5. Stoull(asked.fields[i + 1]) = ParsedOptions(asked, 3)[o]
  BY <1>4 DEF Gives
<1>6. server.opts[o] = Answer(o, Stoull(asked.fields[i + 1]))
  BY <1>1, <1>2, <1>4, <1>5, AnswerGiven
<1> QED
  BY <1>6 DEF Answers

(* A well-formed request is understood.                                       *)
LEMMA UnderstoodImplied == ExchangeInv => WellFormedUnderstood
<1> SUFFICES ASSUME ExchangeInv, Read, WellFormed(asked)
             PROVE  server.code = 0 /\ \A o \in OptionName : Answers(o) \subseteq {server.opts[o]}
  BY DEF WellFormedUnderstood
<1> DEFINE len == Len(asked.fields)
           N == Turns(asked, 3)
<1>1. /\ HasFields(asked) /\ server.opts = Reply(asked) /\ server.code = ParseRequest(asked).code
      /\ len \in Nat /\ DOMAIN asked.fields = 1 .. len
  BY DEF ExchangeInv, ReplyInv, Read, HasFields
<1>2. len >= 2 /\ len % 2 = 0 /\ asked.op \in {"RRQ", "WRQ"} /\ Lower(asked.fields[2]) \in Mode
  BY DEF WellFormed
<1>3. \A i \in 1 .. len : Complete(asked, i)
  BY <1>1 DEF WellFormed, Complete
<1>4. \A o \in OptionName : \A i, j \in Named(o) : i = j
  <2> SUFFICES ASSUME NEW o \in OptionName, NEW i \in Named(o), NEW j \in Named(o) PROVE i = j
    OBVIOUS
  <2>1. Named(o) \subseteq 1 .. len /\ 1 \in Int /\ len \in Int
    BY <1>1 DEF Named
  <2>2. IsFiniteSet(1 .. len)
    BY <2>1, FS_Interval
  <2>3. IsFiniteSet(Named(o))
    BY <2>1, <2>2, FS_Subset
  <2> QED BY <2>3, OnlyElement DEF WellFormed
<1>5. /\ len - 3 + 2 \in Nat /\ N \in Nat /\ 2 * N = len - 3 + 1
      /\ \A k \in 1 .. N : At(k) \in 3 .. len - 1 /\ At(k) % 2 = 1
  <2>1. \A l, n \in Nat : l >= 2 /\ l % 2 = 0 /\ n = (l - 3 + 2) \div 2 =>
          /\ l - 3 + 2 \in Nat /\ 2 * n = l - 3 + 1
          /\ \A k \in 1 .. n : 3 + 2 * (k - 1) \in 3 .. l - 1 /\ (3 + 2 * (k - 1)) % 2 = 1
    OBVIOUS
  <2>2. \A l \in Nat : l >= 2 => (l - 3 + 2) \div 2 \in Nat
    OBVIOUS
  <2> HIDE DEF len
  <2>3. N = (len - 3 + 2) \div 2
    BY DEF Turns, len
  <2> HIDE DEF N
  <2>4. N \in Nat
    BY <1>1, <1>2, <2>2, <2>3
  <2> QED BY <1>1, <1>2, <2>1, <2>3, <2>4 DEF At
<1>6. ParsedOptions(asked, 3) # None
  <2>1. asked.op # "OACK" /\ 3 \in Nat /\ 3 >= 1
    BY <1>2
  <2>2. \A i \in 3 .. len : Complete(asked, i)
    <3> HIDE DEF len
    <3> QED BY <1>1, <1>3 DEF len
  <2>3. ASSUME NEW o \in OptionName, NEW j \in 1 .. N, NEW k \in 1 .. N,
               Lower(asked.fields[At(j)]) = o, Lower(asked.fields[At(k)]) = o
        PROVE  j = k
    <3>1. At(j) \in Named(o) /\ At(k) \in Named(o)
      BY <1>5, <2>3 DEF Named
    <3>2. At(j) = At(k)
      BY <1>4, <3>1
    <3> HIDE DEF N
    <3> QED BY <3>2 DEF At
  <2>4. \A o \in OptionName : \A j, k \in 1 .. Turns(asked, 3) :
          /\ Lower(asked.fields[3 + 2 * (j - 1)]) = o
          /\ Lower(asked.fields[3 + 2 * (k - 1)]) = o
          => j = k
    BY <2>3 DEF At
  <2> QED BY <1>1, <1>5, <2>1, <2>2, <2>4, NotRefused
<1>7. ParseRequest(asked).code = 0
  <2>1. Complete(asked, 1) /\ Complete(asked, 2)
    <3>1. 1 \in 1 .. len /\ 2 \in 1 .. len
      <4> HIDE DEF len
      <4> QED BY <1>1, <1>2
    <3> QED BY <1>3, <3>1
  <2> QED BY <1>1, <1>2, <1>6, <2>1, RequestRead
<1>8. ASSUME NEW o \in OptionName, NEW i \in Named(o)
      PROVE  Answer(o, Stoull(asked.fields[i + 1])) = server.opts[o]
  <2> DEFINE v == Stoull(asked.fields[i + 1])
             q == ParsedOptions(asked, 3)
  <2>1. i \in 1 .. len /\ i + 1 \in 1 .. len /\ Lower(asked.fields[i]) = o
    <3>1. i \in 3 .. len - 1 /\ Lower(asked.fields[i]) = o
      BY DEF Named
    <3> HIDE DEF len
    <3> QED BY <1>1, <3>1
  <2>2. Complete(asked, i) /\ Complete(asked, i + 1)
    BY <1>3, <2>1
  <2>3. CASE Gives(asked, i, o, v)
    <3>1. q[o] = v /\ v \in Nat
      BY <1>1, <1>7, <2>3, RequestParsed
    <3> QED BY <1>1, <1>7, <2>3, <3>1, AnswerGiven
  <2>4. CASE ~Gives(asked, i, o, v)
    <3>1. v = NaN \/ (asked.op = "RRQ" /\ o = "tsize" /\ v # 0)
      BY <2>1, <2>2, <2>4 DEF Gives
    <3>2. Answer(o, v) = None
      BY <3>1 DEF Answer
    <3>3. q[o] = None
      <4> SUFFICES ASSUME q[o] # None PROVE FALSE
        OBVIOUS
      <4>1. PICK j \in Named(o) : Gives(asked, j, o, q[o])
        BY <1>1, <1>7, RequestParsed
      <4>2. j = i
        BY <1>4, <4>1
      <4>3. q[o] = v
        BY <4>1, <4>2 DEF Gives
      <4> QED BY <2>4, <4>1, <4>2, <4>3
    <3>4. server.opts[o] = None
      BY <1>1, <1>7, <3>3, AnswerGiven
    <3> QED BY <3>2, <3>4
  <2> QED BY <2>3, <2>4
<1> QED
  BY <1>1, <1>7, <1>8 DEF Answers

(* Options that have been applied are the same at both ends.                  *)
LEMMA AgreedImplied == ExchangeInv => Agreed
<1> SUFFICES ASSUME AppliedInv, phase \in {"sending", "stored", "over"}, ~server.foreign,
                    server.opts = NoOptions
             PROVE  client.blockSize = server.blockSize /\ client.timeout = server.timeout
  BY DEF ExchangeInv, Agreed
<1>1. CASE phase = "over"
  BY <1>1 DEF AppliedInv
<1>2. CASE phase \in {"sending", "stored"}
  <2>1. client.blockSize = Applied.blockSize /\ client.timeout = Applied.timeout
    BY <1>2 DEF AppliedInv
  <2>2. Applied.blockSize = server.blockSize /\ Applied.timeout = server.timeout
    <3>1. server \in SessionRecord /\ NoOptions \in Options
          /\ ~Has(NoOptions, "blksize") /\ ~Has(NoOptions, "timeout")
      BY DEF AppliedInv, NoOptions, Options, Has, OptionName
    <3> QED BY <3>1, ConfiguredRecord DEF Applied
  <2> QED BY <2>1, <2>2
<1> QED
  BY <1>1, <1>2

(* The whole text has been stored with its last block.                        *)
LEMMA StoredImplied == ExchangeInv => StoredText
<1> SUFFICES ASSUME AppliedInv, StoredInv, phase = "stored", file # text
             PROVE  /\ client.mode = "netascii"
                    /\ ~Plain(text) \/ ~CutBetween(Encode(text), client.blockSize)
  BY DEF ExchangeInv, StoredText
<1>1. text \in Seq(Char) /\ Holds(Len(Encoded)) /\ client.mode \in {"octet", "netascii"}
  BY DEF StoredInv, AppliedInv, SessionRecord, Mode
<1>2. client.mode # "octet"
  <2> SUFFICES ASSUME client.mode = "octet" PROVE FALSE
    OBVIOUS
  <2>1. Encoded = text /\ file = SubSeq(text, 1, Len(Encoded))
    BY <1>1 DEF Encoded, Holds
  <2> QED BY <1>1, <2>1, SubSeqFull
<1>3. ASSUME Plain(text), CutBetween(Encode(text), client.blockSize) PROVE FALSE
  <2>1. Encoded = Encode(text)
    BY <1>1, <1>2 DEF Encoded
  <2>2. PICK k \in 0 .. Len(text) :
          /\ SubSeq(Encode(text), 1, Len(Encode(text))) = Encode(SubSeq(text, 1, k))
          /\ file = SubSeq(text, 1, k)
    BY <1>1, <1>2, <1>3, <2>1 DEF Holds
  <2>3. SubSeq(text, 1, k) = text
    BY <1>1, <2>2, WholeText
  <2> QED BY <2>2, <2>3
<1> QED
  BY <1>1, <1>2, <1>3

-----------------------------------------------------------------------------
(* The theorems. *)

(* The answer of the server, what both ends have made of it and how much of   *)
(* the text has arrived fit together in every state.                          *)
THEOREM ExchangeInvariantHolds == Spec => []ExchangeInv
<1>1. Init => Inv /\ ExchangeInv
  BY FitsInit, ExchangeInit
<1>2. (Inv /\ ExchangeInv) /\ [Next]_vars => (Inv /\ ExchangeInv)'
  BY FitsNext, ReplyNext, AppliedNext, StoredNext DEF ExchangeInv
<1> QED
  BY <1>1, <1>2, PTL DEF Spec

(* A server never answers an option that was not in the request, nor with a   *)
(* value that the request does not justify, whatever the fields of the request *)
(* are (RequestPacket::parse, filterOptions, handleReadRequest).              *)
THEOREM AnswersOnlyWhatWasAskedHolds == Spec => []AnswersOnlyWhatWasAsked
BY ExchangeInvariantHolds, AnswersImplied, PTL

(* A well-formed request is not refused, and every option of it that can be   *)
(* granted is, in the presence of any other fields (RequestPacket::parse).    *)
THEOREM WellFormedUnderstoodHolds == Spec => []WellFormedUnderstood
BY ExchangeInvariantHolds, UnderstoodImplied, PTL

(* Once both ends have called setOptions() they have the same block size and  *)
(* the same timeout.                                                          *)
THEOREM AgreedHolds == Spec => []Agreed
BY ExchangeInvariantHolds, AgreedImplied, PTL

(* An upload in octet stores the text, and so does one in netascii whose text *)
(* has no NUL and no pair of characters that is cut in two.                   *)
THEOREM StoredTextHolds == Spec => []StoredText
BY ExchangeInvariantHolds, StoredImplied, PTL
=============================================================================
