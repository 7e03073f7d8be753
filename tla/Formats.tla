------------------------------- MODULE Formats -------------------------------
(***************************************************************************)
(* What packets.cpp reads out of the bytes of a packet and writes into     *)
(* them, and what netascii does to a block of a file: pure functions,      *)
(* which Exchange puts to use.                                             *)
(*                                                                         *)
(* After its opcode a request, or an OACK, is a sequence of fields that a  *)
(* NUL ends; open says that the last one has none.  A field is a word,     *)
(* spelled with or without capitals, and the number its text begins with,  *)
(* if any.                                                                 *)
(***************************************************************************)
EXTENDS Integers, SequencesExt

CONSTANTS
  None,           \* no option, no packet
  NaN,            \* what std::stoull throws an exception for
  MinBlockSize, MaxBlockSize,   \* MIN_BLOCK_SIZE, MAX_BLOCK_SIZE
  MinTimeout, MaxTimeout,       \* MIN_TIMEOUT, MAX_TIMEOUT
  MaxTsize,       \* MAX_TSIZE; MIN_TSIZE is 0
  Char,           \* the characters of a file
  Word,           \* how many values uint64_t has
  Byte            \* how many values a byte has

ASSUME LimitAssumption ==
  /\ MinBlockSize \in Nat \ {0} /\ MaxBlockSize \in Nat
  /\ MinTimeout \in Nat \ {0} /\ MaxTimeout \in Nat
  /\ MinBlockSize <= MaxBlockSize
ASSUME WidthAssumption ==
  /\ Byte \in Nat \ {0, 1} /\ Word \in Nat
  /\ MaxBlockSize < Byte * Byte /\ Byte * Byte <= Word /\ MaxTimeout < Word
  /\ MaxTsize \in Nat /\ MaxTsize < Word
ASSUME CharAssumption == {"cr", "lf", "nul"} \subseteq Char
ASSUME NotNumbers == None \notin Int /\ NaN \notin Int

-----------------------------------------------------------------------------
(* Fields. *)

Text(w) == [word |-> w, caps |-> FALSE, num |-> NaN]
Number(n) == [word |-> "number", caps |-> FALSE, num |-> n]

(* tolower: the word is what is left of the spelling.                        *)
Lower(field) == field.word

(* std::stoull has a minus sign wrap around and throws for a text without a  *)
(* number and for a number that has no place in 64 bits.                     *)
Stoull(field) ==
  IF field.num = NaN \/ field.num \notin 1 - Word .. Word - 1 THEN NaN
  ELSE field.num % Word

(* What a request, or an OACK, may be: any sequence of fields.               *)
HasFields(d) ==
  /\ Len(d.fields) \in Nat /\ DOMAIN d.fields = 1 .. Len(d.fields)
  /\ \A i \in DOMAIN d.fields : d.fields[i].num \in Int \cup {NaN}

\* Mutant: the NUL of the last field is not looked for within the packet.
CompleteInside(d, i) == i \in 1 .. Len(d.fields) - 1 /\ d.fields[i].word # ""

(* Field i is there, has something in it and a NUL at its end.               *)
Complete(d, i) ==
  /\ i \in 1 .. Len(d.fields)
  /\ d.fields[i].word # ""
  /\ ~(d.open /\ i = Len(d.fields))

-----------------------------------------------------------------------------
(* Options. *)

OptionName == {"blksize", "timeout", "tsize"}
Options == [OptionName -> Nat \cup {None}]
ASSUME NotOptions == None \notin Options
NoOptions == [o \in OptionName |-> None]
Has(opts, o) == opts[o] # None

\* Mutant: only what is too small is dropped, all that is too large clamped.
FilterClampsAll(opts) ==
  [o \in OptionName |->
     LET v == opts[o]
         low == CASE o = "blksize" -> MinBlockSize [] o = "timeout" -> MinTimeout
                  [] OTHER -> 0
         high == CASE o = "blksize" -> MaxBlockSize [] o = "timeout" -> MaxTimeout
                   [] OTHER -> MaxTsize
     IN IF v \in low .. high THEN v ELSE IF v \in Nat /\ v > high THEN high ELSE None]
\* Mutant: a block size is taken as it is.
FilterNoLimit(opts) ==
  [o \in OptionName |->
     IF \/ o = "blksize" /\ opts[o] \in Nat
        \/ o = "timeout" /\ opts[o] \in MinTimeout .. MaxTimeout
        \/ o = "tsize" /\ opts[o] \in 0 .. MaxTsize
     THEN opts[o] ELSE None]

(* filterOptions: a value within its limits is kept, a block size above them *)
(* becomes the largest, anything else is dropped.                            *)
Filter(opts) ==
  [o \in OptionName |->
     IF \/ o = "blksize" /\ opts[o] \in MinBlockSize .. MaxBlockSize
        \/ o = "timeout" /\ opts[o] \in MinTimeout .. MaxTimeout
        \/ o = "tsize" /\ opts[o] \in 0 .. MaxTsize
     THEN opts[o]
     ELSE IF o = "blksize" /\ opts[o] \in Nat /\ opts[o] > MaxBlockSize
     THEN MaxBlockSize
     ELSE None]

(* What one pair of fields makes of the options so far.  An OACK has to have *)
(* numbers; a request without one is a request without the option, and so is *)
(* a read request that claims to know the size.                              *)
Taken(op, opts, name, value) ==
  IF name \notin OptionName THEN opts
  ELSE IF value = NaN THEN IF op = "OACK" THEN None ELSE opts
  ELSE IF op = "RRQ" /\ name = "tsize" /\ value # 0 THEN opts
  ELSE [opts EXCEPT ![name] = value]

(* One turn of the loops over the options, at field i; None is OptionError.  *)
(* A pair that was dropped leaves no trace: the same name again is not a     *)
(* repetition.                                                               *)
TakenPair(d, i, opts) ==
  IF opts = None \/ ~Complete(d, i) \/ ~Complete(d, i + 1) THEN None
  ELSE LET name == Lower(d.fields[i])
       IN IF name \in OptionName /\ Has(opts, name) THEN None
          ELSE Taken(d.op, opts, name, Stoull(d.fields[i + 1]))

(* The options after the turns there are, the last pair may be half of one.  *)
Turns(d, first) == (Len(d.fields) - first + 2) \div 2
ParsedOptions(d, first) ==
  LET after[k \in 0 .. Turns(d, first)] ==
        IF k = 0 THEN NoOptions ELSE TakenPair(d, first + 2 * (k - 1), after[k - 1])
  IN after[Turns(d, first)]

-----------------------------------------------------------------------------
(* parse() and serialize() of requests and OACK. *)

Mode == {"netascii", "octet"}
ParsingError == 4
OptionError == 8

(* The result of a parse(): the code of its exception, 0 for none.           *)
Rejected(code) == [code |-> code, mode |-> "octet", opts |-> NoOptions]
Accepted(mode, opts) == [code |-> 0, mode |-> mode, opts |-> opts]

ParseRequest(d) ==
  IF d.op \notin {"RRQ", "WRQ"} \/ ~Complete(d, 1) \/ ~Complete(d, 2)
     \/ Lower(d.fields[2]) \notin Mode
  THEN Rejected(ParsingError)
  ELSE LET opts == ParsedOptions(d, 3)
       IN IF opts = None THEN Rejected(OptionError)
          ELSE Accepted(Lower(d.fields[2]), Filter(opts))

(* An OACK of less than two bytes after the opcode is too short.             *)
ParseOack(d) ==
  IF d.fields = <<>> \/ d.fields = <<Text("")>> THEN Rejected(ParsingError)
  ELSE LET opts == ParsedOptions(d, 1)
       IN IF opts = None THEN Rejected(OptionError)
          ELSE Accepted("octet", Filter(opts))

(* The fields of option o, if it is there.                                   *)
Pair(opts, o) == IF Has(opts, o) THEN <<Text(o), Number(opts[o])>> ELSE <<>>

\* Mutant: the loop starts behind the first option.
OptionFieldsButFirst(opts) ==
  LET all == Pair(opts, "blksize") \o Pair(opts, "timeout") \o Pair(opts, "tsize")
  IN SubSeq(all, 3, Len(all))

(* The options in the order of the map.                                      *)
OptionFields(opts) == Pair(opts, "blksize") \o Pair(opts, "timeout") \o Pair(opts, "tsize")

RequestBytes(op, file, mode, opts) ==
  [op |-> op, open |-> FALSE,
   fields |-> <<Text(file), Text(mode)>> \o OptionFields(opts)]
OackBytes(opts) == [op |-> "OACK", open |-> FALSE, fields |-> OptionFields(opts)]

-----------------------------------------------------------------------------
(* The block number in DATA and ACK. *)

NumberBytes(n) == <<(n \div Byte) % Byte, n % Byte>>

\* Mutant: the bytes are taken in the order of a little-endian host.
FromBytesSwapped(b) == b[2] * Byte + b[1]
FromBytes(b) == b[1] * Byte + b[2]

-----------------------------------------------------------------------------
(* netascii. *)

(* What a pair of characters stands for, CR NUL for a CR and CR LF for a     *)
(* line feed.                                                                *)
Unpair(second) == IF second = "nul" THEN "cr" ELSE "lf"

\* Mutant: the character after the CR may be the first one after the block.
ReadCharDropsLastPair(block, s) ==
  IF s.next > Len(block) THEN s
  ELSE IF block[s.next] = "nul" THEN [s EXCEPT !.next = Len(block) + 1]
  ELSE IF /\ block[s.next] = "cr" /\ s.next + 1 < Len(block)
          /\ block[s.next + 1] \in {"nul", "lf"}
  THEN [chars |-> Append(s.chars, Unpair(block[s.next + 1])), next |-> s.next + 2]
  ELSE [chars |-> Append(s.chars, block[s.next]), next |-> s.next + 1]

(* One turn of the loop in parseNetasciiString: a pair counts if both        *)
(* characters are in the block, and a NUL of its own ends the loop.          *)
ReadChar(block, s) ==
  IF s.next > Len(block) THEN s
  ELSE IF block[s.next] = "nul" THEN [s EXCEPT !.next = Len(block) + 1]
  ELSE IF /\ block[s.next] = "cr" /\ s.next < Len(block)
          /\ block[s.next + 1] \in {"nul", "lf"}
  THEN [chars |-> Append(s.chars, Unpair(block[s.next + 1])), next |-> s.next + 2]
  ELSE [chars |-> Append(s.chars, block[s.next]), next |-> s.next + 1]

(* parseNetasciiString, called for each block on its own.                    *)
Decode(block) ==
  LET after[k \in 0 .. Len(block)] ==
        IF k = 0 THEN [chars |-> <<>>, next |-> 1] ELSE ReadChar(block, after[k - 1])
  IN after[Len(block)].chars

(* The other end of a netascii transfer, as RFC 764 has it.                  *)
Code(c) == CASE c = "lf" -> <<"cr", "lf">> [] c = "cr" -> <<"cr", "nul">> [] OTHER -> <<c>>
Encode(text) ==
  LET upTo[k \in 0 .. Len(text)] ==
        IF k = 0 THEN <<>> ELSE upTo[k - 1] \o Code(text[k])
  IN upTo[Len(text)]

(* A text without NUL, and blocks that have no pair of characters between them. *)
Plain(t) == \A i \in DOMAIN t : t[i] # "nul"
CutBetween(chars, size) ==
  \A i \in 1 .. Len(chars) - 1 : i % size = 0 => chars[i] # "cr"

(* What writeDataBlock puts into the file.                                   *)
Written(mode, block) == IF mode = "netascii" THEN Decode(block) ELSE block
=============================================================================
