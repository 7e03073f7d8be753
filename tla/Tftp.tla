-------------------------------- MODULE Tftp --------------------------------
(***************************************************************************)
(* The vocabulary shared by the two ends of a transfer: the ports, the     *)
(* packets of include/common/packets.hpp, the session states of            *)
(* include/common/session.hpp, and how a file is cut into blocks.          *)
(*                                                                         *)
(* A packet is a record.  What parse() and serialize() do to the bytes of  *)
(* a well-formed packet is abstracted away; a packet keeps its source and  *)
(* destination ports because the transfer identifiers of TFTP are ports.   *)
(***************************************************************************)
EXTENDS Naturals, Sequences

CONSTANTS
  Client,         \* the port of the client's only socket
  Listener,       \* the well-known port the server listens on
  Tids,           \* the ports the OS may give to bind_new_socket()
  Strangers,      \* ports of third parties that send packets to sessions
  None,           \* no port, no packet, no file
  Old,            \* the inode of a file that was there before the transfer
  Source,         \* the bytes of the file to transfer
  BlockSize,      \* INITIAL_BLOCK_SIZE
  InitialTimeout, \* INITIAL_TIMEOUT
  MaxRetries,     \* MAX_RETRIES
  BlockMod        \* block numbers are uint16_t: 2^16 of them

ASSUME PortAssumption ==
  /\ {Client, Listener, None, Old} \cap (Tids \cup Strangers) = {}
  /\ Tids \cap Strangers = {}
  /\ Client # Listener /\ Client # None /\ Listener # None /\ Old # None

(* None is not a value of an option and not the bytes of a file. *)
ASSUME NoneAssumption == None \notin Nat \cup Seq(Nat)

ASSUME SizeAssumption ==
  /\ Source \in Seq(Nat)
  /\ BlockSize \in Nat \ {0}
  /\ InitialTimeout \in Nat \ {0}
  /\ MaxRetries \in Nat
  /\ BlockMod \in Nat \ {0, 1}

BACKOFF_FACTOR == 2

SessionType == {"READ", "WRITE"}

(***************************************************************************)
(* The states in which a session waits for a packet (a client starts in    *)
(* INITIAL; a server session leaves INITIAL before it waits), those in     *)
(* which it has ended, and four states that are not in the enumeration:    *)
(* no session yet, a thread that has ended before it made one, a session   *)
(* whose thread an exception has ended, one whose process has crashed.     *)
(***************************************************************************)
Waiting == {"INITIAL", "WAITING_OACK", "WAITING_AFTER_OACK", "WAITING_ACK",
            "WAITING_LAST_ACK", "WAITING_DATA"}
Ended == {"RRQ_END", "WRQ_END", "ERROR"}
SessionState == Waiting \cup Ended \cup {"FREE", "REFUSED", "THROWN", "CRASHED"}

-----------------------------------------------------------------------------
(* Block numbers and blocks. *)

BlockNumber == 0 .. BlockMod - 1
\* Mutant: block numbers that are wider than 16 bits do not wrap.
NextBlockWide(b) == b + 1
NextBlock(b) == (b + 1) % BlockMod

Smaller(a, b) == IF a < b THEN a ELSE b

(* The bytes a read of `size' bytes returns at offset pos: fewer at the end. *)
ReadAt(bytes, pos, size) ==
  SubSeq(bytes, pos + 1, Smaller(pos + size, Len(bytes)))

\* Mutant: a write that does not go to the end of the file.
WriteAtStart(bytes, pos, data) ==
  [i \in 1 .. IF Len(data) > Len(bytes) THEN Len(data) ELSE Len(bytes) |->
     IF i <= Len(data) THEN data[i] ELSE bytes[i]]

(* The bytes of a file after data has been written at offset pos; a write   *)
(* past the end of a truncated file leaves a hole of zero bytes.            *)
WriteAt(bytes, pos, data) ==
  LET end == pos + Len(data)
  IN [i \in 1 .. IF end > Len(bytes) THEN end ELSE Len(bytes) |->
        IF i \in pos + 1 .. end THEN data[i - pos]
        ELSE IF i <= Len(bytes) THEN bytes[i] ELSE 0]

-----------------------------------------------------------------------------
(* Options: the value of each, None if it is absent. *)

OptionName == {"blksize", "timeout", "tsize"}
Options == [OptionName -> Nat \cup {None}]
NoOptions == [o \in OptionName |-> None]
Has(opts, o) == opts[o] # None

-----------------------------------------------------------------------------
(* Packets. *)

Request(type, dst, opts) ==
  [op |-> IF type = "READ" THEN "RRQ" ELSE "WRQ",
   src |-> Client, dst |-> dst, opts |-> opts]
Data(src, dst, block, data) ==
  [op |-> "DATA", src |-> src, dst |-> dst, block |-> block, data |-> data]
Ack(src, dst, block) ==
  [op |-> "ACK", src |-> src, dst |-> dst, block |-> block]
Oack(src, dst, opts) ==
  [op |-> "OACK", src |-> src, dst |-> dst, opts |-> opts]
Error(src, dst, code) ==
  [op |-> "ERROR", src |-> src, dst |-> dst, code |-> code]

-----------------------------------------------------------------------------
(* What the two session classes share (class Session). *)

\* Mutant: the timeout stays what the last retransmission has made it.
HeardKeepsTimeout(s) == [s EXCEPT !.retries = 0]

(* A packet of any kind restarts the retransmission schedule before anything *)
(* else is known about it, its sender included.                              *)
Heard(s) == [s EXCEPT !.retries = 0, !.timeout = s.initialTimeout]

(* setOptions(): the values of an OACK, taken over by the client when the    *)
(* OACK arrives and by the server when the answer to it does.                *)
WithOptions(s, opts) ==
  [s EXCEPT !.options = opts,
            !.blockSize = IF Has(opts, "blksize") THEN opts["blksize"] ELSE @,
            !.initialTimeout = IF Has(opts, "timeout") THEN opts["timeout"] ELSE @,
            !.timeout = IF Has(opts, "timeout") THEN opts["timeout"] ELSE @]

\* Mutant: an ERROR is kept to be sent again like any other packet.
SentAny(s, p, ok) == IF ok THEN [s EXCEPT !.last = p] ELSE s

(* The session when packet p has been given to sendto(): a packet that was   *)
(* sent and is not an ERROR becomes the one to retransmit.                   *)
Sent(s, p, ok) == IF ok /\ p.op # "ERROR" THEN [s EXCEPT !.last = p] ELSE s
Transmitted(p, ok) == IF ok THEN {p} ELSE {}

Failed(s) == [s EXCEPT !.state = "ERROR"]

\* Mutant: retransmissions are not counted.
BackedOffUncounted(s) == s

(* One more recvfrom() that timed out, before the retries are exhausted. *)
BackedOff(s) ==
  [s EXCEPT !.retries = @ + 1, !.timeout = @ * BACKOFF_FACTOR]

\* Mutants: a full block is taken for the last one; the next read starts at the
\* same byte.
SendingBlockOffByOne(s, b, data) ==
  [s EXCEPT !.block = b,
            !.pos = @ + Len(data),
            !.state = IF Len(data) <= s.blockSize THEN "WAITING_LAST_ACK"
                                                  ELSE "WAITING_ACK"]
SendingBlockAgain(s, b, data) ==
  [s EXCEPT !.block = b,
            !.state = IF Len(data) < s.blockSize THEN "WAITING_LAST_ACK"
                                                 ELSE "WAITING_ACK"]

(* The session after it has read a block of data to send as number b. *)
SendingBlock(s, b, data) ==
  [s EXCEPT !.block = b,
            !.pos = @ + Len(data),
            !.state = IF Len(data) < s.blockSize THEN "WAITING_LAST_ACK"
                                                 ELSE "WAITING_ACK"]

\* Mutant: the block number is not looked at.
NextExpectedAnyBlock(s, m) == Len(m.data) <= s.blockSize

(* A DATA packet with the expected number that is not too large. *)
NextExpected(s, m) == m.block = s.block /\ Len(m.data) <= s.blockSize

\* Mutants: the number of the expected block stays; the last block is told by
\* the default size instead of the negotiated one.
TakingBlockSameNumber(s, m, more, end) ==
  [s EXCEPT !.pos = @ + Len(m.data),
            !.state = IF Len(m.data) < s.blockSize THEN end ELSE more]
TakingBlockDefaultSize(s, m, more, end) ==
  [s EXCEPT !.block = NextBlock(@),
            !.pos = @ + Len(m.data),
            !.state = IF Len(m.data) < BlockSize THEN end ELSE more]

(* The session after it has written the block of m to its file: in state end *)
(* after the last block, in state more after any other.                      *)
TakingBlock(s, m, more, end) ==
  [s EXCEPT !.block = NextBlock(@),
            !.pos = @ + Len(m.data),
            !.state = IF Len(m.data) < s.blockSize THEN end ELSE more]
=============================================================================
