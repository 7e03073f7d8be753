# A TLA+ model of the isa-project TFTP client and server

The repository is a TFTP client and a concurrent TFTP server in C++ (RFC 1350
with the options `blksize`, `timeout` and `tsize`).  This directory models it in
three parts, at three levels of detail:

* a **transfer** end to end: the client, the server's sessions, the files, and a
  network that loses, delays, repeats and reorders packets;
* the **listener**: the server's main thread, the threads it starts, the buffer
  they share, and what happens to them at shutdown;
* an **exchange** without faults, but with the fields of its packets: parsing and
  filtering of options, netascii, the bytes of a block number.

TLC checks them on small instances.  TLAPS proves, for all values of the
constants, every safety property that the runs check: the integrity of downloads and
uploads and the promise of a file transfer, the agreement on options, the schedule
of retransmissions, the listener and the promise of its service, and what parsing,
filtering and netascii make of any request and any text.  Section 4 has the
assumptions of each.

Paths below are relative to the repository; lines are in `PROJECT.json` ("map").

## 1. Inventory

| part | state | operations | talks to |
|---|---|---|---|
| `TFTPClient` (`src/client/tftp_client.cpp`) | a socket | `download`, `upload`: send the request, run a session on the same thread | `ClientSession` |
| `ClientSession` (`src/common/session.cpp`) | `sessionState`, `blockNumber`, `blockSize`, `timeout`, `initialTimeout`, `retries`, `options`, `srcTID`/`TIDisSet`, `lastPacket`, `writeStream` | one turn of `handleSession` per `recvfrom`; `setOptions`, `readDataBlock` (stdin), `writeDataBlock`, `exit` | packets, stop flag |
| `ServerSession` (`src/common/session.cpp`) | the same, with `readStream` and `dst_addr`, the sender of the last packet | `handleWriteRequest`, `handleReadRequest`, a turn of `handleSession`, `setOptions`, `exit` | packets, files shared with other sessions, stop flag |
| packets (`src/common/packets.cpp`) | none | `parse`, `serialize`, `send`, `handleClient`, `handleServer` | sessions |
| `TFTPServer` (`src/server/tftp_server.cpp`) | socket, receive buffer, `clientFutures` | `start` (main loop), `handleClientRequest` (a thread per request), `shutDown` | sessions |
| `main` of both programs | the stop flags | signal handlers, arguments | all loops |
| options (`src/common/packets.cpp`) | none | `RequestPacket::parse`, `OACKPacket::parse`, `filterOptions` | packets |
| netascii (`src/common/packets.cpp`, `session.cpp`) | none | `parseNetasciiString`, netascii reading | sessions |
| logger, test script | none | | |

**What is hard.**  UDP loses, delays, reorders and repeats packets; a request
that is repeated makes a second session for the same file; `exists()` and
`open()` are separate steps of concurrent threads; every failure has its own
early return, with or without `exit()`; both ends change the block size at
different moments of the negotiation; retransmission relies on `lastPacket`,
which several handlers overwrite; threads parse requests in a buffer that the main
thread receives into; an exception that ended a session is thrown again in the middle
of the shutdown; options come in any form and end up in 16 bits; two stop flags are
looked at in different places.  The complete list, with lines, is "hazards" in `PROJECT.json`.

**What makes it correct.**  A stored file is a prefix of the source, and the
whole of it when a session says it is done; a failure leaves no file; a sender
succeeds only after the receiver; the ends agree on the block size; what is
retransmitted is what the peer needs; everybody ends; an undisturbed transfer
succeeds; SIGINT stops the server.  A thread serves the request it was started for;
only an exception after the socket was opened costs it; the server is gone only after its threads.  An
answer has only options that were asked for, within limits that keep a block inside
its buffer; an uploaded text is stored as it was.

## 2. Modules

```
a transfer
  Tftp            ports, packets, session states, blocks, what both sessions share
    Network       packets in flight and the faults of the environment (external)
      ClientSession   the client          ServerSession   requests and sessions
                        \                /
                         Transfer           composition, fairness, properties
                            |
                         Invariant          inductive invariants
                         /        \
                Refinement         Transfer_proofs    TypeCorrect
  (to FileTransfer) |    \            /        \
               MCTransfer \          /          \
                       Download_proofs      Turns_proofs      BackoffHolds,
                  DownloadCorrect,   \          /             RetransmitsLatestHolds
              DownloadKeepsPromise    \        /
                                    Upload_proofs             UploadCorrect,
                                                              UploadKeepsPromise,
                                                              AgreedBlockSizeHolds

the listener
  Listener        main thread, threads, buffer, futures (to Service)
   /        \
MCListener   Listener_proofs                          PromiseKept, OwnRequestCorrect

an exchange
  Formats         parse, serialize, filterOptions, netascii: pure functions
     |     \
     |      Formats_proofs                what its loops compute, for every input
  Exchange          |                     a request, its answer, an upload
     |              |
  ExchangeInvariant |                     its inductive invariant
     /        \     |
MCExchange     Exchange_proofs            AnswersOnlyWhatWasAskedHolds, StoredTextHolds

Induction_proofs    induction over numbers, for Turns_proofs and Formats_proofs
```

The parts meet in these places.  `Dispatch` of `ServerSession` is one step where
`Listener` has the steps of two threads; a session is a black box in `Listener`,
and what it may do, end or throw, is what it does in `ServerSession` (THROWN).
`Transfer` takes the options that come out of the filter and a file as bytes;
`Exchange` has the filter and the conversion, and no faults.

**Tftp.**  A packet is a record with the ports it goes from and to (the TIDs of
TFTP).  `SendingBlock`, `TakingBlock`, `Heard`, `BackedOff`, `Sent`,
`WithOptions` are the pieces that the client and server code repeat almost word
for word.  Block numbers are counted modulo `BlockMod` (2^16 in the code).

**Network.**  `net` is the set of packets that may still be delivered.  Any of
them may be received next, so packets are reordered and, if never picked, lost.
Copies of a packet are not counted: with the fault "duplicate" a received packet
stays and can be received any number of times, and without it a retransmission
that is identical to a packet in flight is one packet.  `Lose` drops a packet at
most `MaxLost` times; it matters only where time does not pass freely (see the
clock).

**ClientSession, ServerSession.**  An action is one turn of the loop of
`handleSession()`, from the return of `recvfrom()` to the next call of it, so
that it includes the handler, the retransmission, the look at the stop flag and
the call of `exit()`.  The code in between shares nothing with other threads but
the directory; the two places where it does, the check that a file exists and
the opening of it, are separate steps (`Dispatch`, then `StartRead` or
`StartWrite`).

| action | code |
|---|---|
| `ClientStart` | `TFTPClient::download`/`upload`, prologue of `ClientSession::handleSession` |
| `DataAtClient`, `AckAtClient`, `OackAtClient`, `ErrorAtClient` | `handleClient` of the packet |
| `IllegalAtClient` | its ILLEGAL_OPERATION branches |
| `UnknownTidAtClient` | the comparison of TIDs |
| `ClientRetransmits`, `ClientGivesUp`, `ClientCrashes` | `recvfrom` timed out; a null `lastPacket` |
| `ClientInterrupted` | `stopFlagClient` |
| `Dispatch` | main loop, thread, `exists()`, refusal, no answer when `exists()` throws |
| `StartWrite`, `StartRead` | `handleWriteRequest`, `handleReadRequest` |
| `DataAtServer`, `AckAtServer`, `ErrorAtServer`, `IllegalAtServer`, `UnknownTidAtServer` | `handleServer` of the packet |
| `SessionRetransmits`, `SessionGivesUp`, `ServerCrashes` | as above |
| `SessionInterrupted` | `recvfrom` failed otherwise: interrupted by the signal |
| `Sigint`, `StopListening`, `ShutDown` | signal handler, `start`, `shutDown` |

The name of a state does not tell how far a session is.  A session of an upload that
has answered with an OACK stays in WAITING_AFTER_OACK until its last block
(`packets.cpp:546-583`): it applies the options again with each block, and what it keeps
is the OACK before the first block and an ACK from then on.  `DataAtServer` and
`TakingBlock` do the same, and `Latest` and `SessionAgrees` have both cases.

A session whose handler throws (`readDataBlock`) ends in the state THROWN: the
thread is gone and `exit()` was not called.  A null `lastPacket` ends the
process (CRASHED).  A request that is refused, or whose `exists()`
throws, occupies its port as REFUSED.
`dir` is the inode that the requested name refers to; an open file keeps its
inode when the name is removed, as in POSIX, and a file opened while another
session has it is the same inode, truncated.

**Transfer** composes them, with one client and one file name.

**FileTransfer** is what a transfer promises: one end stores, the others send;
the copy is always a beginning of the source, "done" is said by the end that
stores only with a full copy and by a sender only afterwards, and a failure
leaves no copy.  **Refinement** maps `Transfer` to it: a verdict is read off
`sessionState`; in a download every session of the server is a sender.  In an
upload only one session may exist: with two the promise is broken
(`stored_file`).

**MCTransfer** gives the constants their values.

**Listener** has the main thread of `TFTPServer` and the threads it starts.  There
is one buffer, on the stack of `start()`, and a thread gets a pointer to it: it
parses the request while the main thread may already receive the next one into
it.  `parse()` looks at the buffer twice (the opcode in `Packet::parse`, all the
rest in `RequestPacket::parse`), so that each of the two steps may find another
datagram, and a read that overlaps a write may find parts of both or something
that cannot be parsed.  After an exception has left `start()` the buffer's place
on the stack holds anything (`Buffer`).  A client asks for a file of its own, so
that the name tells whose request it is.

| action | code (`tftp_server.cpp`) |
|---|---|
| `Receive`, `SpawnFails` | `recvfrom`, `std::async`, `push_back` in `start` |
| `Prune` | `remove_if` in `start` |
| `StopListening` | the look at `stopFlagServer` when `recvfrom` has nothing |
| `Visit`, `Join`, `Close` | the loop of `shutDown`, `get()` of a future, the end |
| `Destroy` | the `catch` of `main`, before which the futures' destructors wait |
| `ParseOpcode`, `ParseRequest` | `Packet::parse`, `RequestPacket::parse` on the thread |
| `Bind` | `bind_new_socket` |
| `Check` | `exists()` in `handleClientRequest`: refusal, a session, or an exception, which leaves the socket open |
| `SessionEnds`, `SessionThrows` | the return of `handleSession`, or an exception |
| `Arrive`, `Sigint` | clients, signal handler |

**Service** is what the server promises of its threads: one for each datagram
while it is up, none once it drains, and down only when every thread has ended, so
that no thread ever uses a server that is gone.  `Listener` implements it.

**Formats** has the functions of `packets.cpp` on what a packet contains.  After
the opcode a request is a sequence of fields, each with a word, its spelling, and
the number that `std::stoull` finds in it.

| operator | code (`packets.cpp`) |
|---|---|
| `Stoull` | `std::stoull`: a minus sign wraps, no number or too many digits throw |
| `Filter` | `filterOptions` |
| `TakenPair`, `Taken`, `ParsedOptions` | a turn of the loop over the options of both `parse()`, the value it takes, and all turns |
| `ParseRequest`, `ParseOack` | `RequestPacket::parse`, `OACKPacket::parse` |
| `OptionFields`, `RequestBytes`, `OackBytes` | `serialize()` of both |
| `NumberBytes`, `FromBytes` | the block number in `serialize()` and `parse()` of DATA and ACK |
| `ReadChar`, `Decode`, `Written` | a turn of the loop of `parseNetasciiString`, all turns, `writeDataBlock` |
| `Encode` | a foreign client (RFC 764), the reference for `Decode` |

**Exchange** puts them to use.  Client and server may each be another program, in
which case any fields are asked or answered: misspelled, capitalised, repeated,
empty, cut off, negative, too large or no number.  **ExchangeInvariant** states what
is true between two steps.

| action | code |
|---|---|
| `Ask`, `ForeignAsk` | `download`, `upload`; another client |
| `ServerAnswers` | parsing in `handleClientRequest`, then `handleReadRequest` or `handleWriteRequest` |
| `ClientTakesOack` | `OACKPacket::parse`, `OACKPacket::handleClient`, `setOptions` |
| `ForeignAnswer`, `ForeignTakesOack` | another server, another client |
| `Download`, `Upload`, `ServerStores`, `ClientTakesAck` | the first ACK of a download; DATA and ACK of an upload |

**MCListener, MCExchange** give the constants their values.

### The clock

Timeouts are 5 seconds and more and threads are fast, but packets may be slow.
With the fault "delay" a `recvfrom()` may time out at any time, whatever is in
flight.  Without it, it does so only when nothing on its way can be received
(`Quiet`): this is where a packet that `Lose` drops makes a difference to one
that is late.  Two timeouts may come in any order; that a doubled timeout is
longer than another one is not used.

## 3. Runs

The runs of `MCTransfer` have blocks of 2 bytes and files whose bytes are all
different (so that a block out of place or out of order is seen).  Deadlock
checking is off because client, server and exchange end.

| run | instance | what it shows |
|---|---|---|
| `download` | 2 sessions, a stranger, 5 bytes (two full blocks and a short one), mod 4, 2 retries; delay, duplicate, send, disk | `TypeOK`, `DownloadInv`, `DownloadIntact`, `NoFalseSuccess`, `KeepsPromise` |
| `upload` | 2 sessions, a stranger, 3 bytes, mod 3 (the number after the last block wraps), 1 retry; delay, duplicate, disk, sigint | `UploadIntact`, `UploadInv`, `NoFalseSuccess` |
| `options` | both directions, no options or one of three sets, 1 session, a stranger, 4 bytes, one `Lose`; delay, duplicate, disk, sigint | `AgreedBlockSize`, `AgreeInv`, `Backoff`, `RetransmitsLatest`, `KeepsPromise` |
| `success` | both directions, all options, 2 sessions, 7 bytes, mod 3, no fault; `FairSpec` | `Success`, `DownloadIntact`, `UploadIntact` with block numbers that wrap |
| `termination` | both directions, 1 session, a stranger, 3 bytes; delay, send, disk, sigint; `FairSpec` | `Termination`, `ShutsDown` |
| `listener` | 2 threads, 2 clients, 1 datagram waiting, 2 sockets; `FairSpec` | `ListenerTypeOK`, `OwnRequest`, `SocketsAccounted`, `KeepsServicePromise`, `SessionsDoNotStopServer`, `StopsWhenQuiet` |
| `exchange` | limits 2 to 4 for `blksize` and 1 to 2 for `timeout`, 16 for 2^64, 3 for 256; `FairSpec` | `ExchangeInv`, `AnswersOnlyWhatWasAsked`, `WellFormedUnderstood`, `Agreed`, `FitsBuffer`, `StoredText`, `UploadCompletes` |
| `end_of_file` | violation | a file that ends with a full block cannot be downloaded |
| `lost_ack` | violation | a lost ACK ends the transfer |
| `stored_file` | violation | a failed session deletes what another has stored |
| `null_packet` | violation | nothing to retransmit, a null pointer is used |
| `shutdown_notice` | violation | the shutdown ERROR goes to a stranger |

**Why the bounds are enough: transfers.**  Two ports give two sessions for one
request, the smallest number that can interfere; a refused request and a session
also fit.  The files have two full blocks and a short one, or a full and a short
one, so that first, middle and last block are distinct; `success` needs 3 to 8
blocks and wraps at 3.  One retry separates "waits", "retransmits" and "gives up";
the code has three (`MAX_RETRIES`; the server has the literals 3 and 2 instead of
`MAX_RETRIES` and `BACKOFF_FACTOR`, with the same values).  A stranger sends ACK
0, which is enough for a wrong TID; what else it could send is not looked at by
the code that rejects it.  `SYMMETRY` (ports are interchangeable) is used only
where no liveness is checked.

**The listener.**  Two threads are the smallest number where one parses while the
datagram of the other arrives, and where one future has an exception while the
other still runs.  Threads are used again, so the server may receive for ever.
Two sockets: one may be lost to an exception, in `exists()` or in a session, and one
be left, or none.

**The exchange.**  The constants are scaled so that every limit lies within what
a word and two bytes can hold, has values on both sides, and a wrap of `-1` falls
above the largest block: 16 for `uint64_t`, base 3 for bytes (a block number has
two digits and wraps at 9), blocks of 2, 3 and 4 bytes, of which 3 is the initial
size.  The requests have up to two options out of all names, spellings and values
at the limits, and the malformed ones described in `MCExchange`.  The texts are
all those of up to five characters over a letter, CR, LF and NUL, in both modes.

**Options.**  The shipped client passes an empty map of options
(`tftp_client.cpp:59,91`), so `Shipped` is what the programs do.  `Both` adds
what `ClientSession` accepts from its callers, and what other clients ask of the
server: a larger block, a smaller one with `tsize`, another timeout.  Values are
scaled like the block size, and are taken as they come out of the filter; the
filter itself is in `Exchange`.

**Fairness.**  Weak fairness of the client's turn, of each session's turn and
start, of the listener's dispatch and of the shutdown.  The code justifies it: a
session's `recvfrom()` has a timeout (`setTimeout`), so a turn always comes; the
listener's returns every 100 ms; threads are scheduled by the OS.  Nothing is
assumed of the network, of disks or of signals, except in `success`, whose
instance has no fault.  In that run a timeout comes only when nothing is in
flight, so a turn that can receive does.

`Termination` holds provided that third parties stop sending
(`<>[][~Stray]_vars`): any packet, one with a wrong TID included, resets `retries`
before its sender is looked at (`session.cpp:166,392`), so a third party that goes
on sending keeps a session that has lost its client alive.  The fault "duplicate"
is left out in that run for the same reason: a network that repeats one packet for
ever does the same.  A session in THROWN counts as ended.

In `Listener` the main thread and the steps of a thread up to its session are
weakly fair: the OS schedules threads.  A session is assumed to end only once the
stop flag is set, because its next turn, which its `recvfrom()` timeout brings,
then ends it, and `ShutsDown` of `Transfer` shows that; until then third parties
may keep it alive.  `StopsWhenQuiet` needs the datagrams to stop arriving: the
main loop looks at the flag only when nothing is waiting (`tftp_server.cpp:126`).
In `Exchange` only the two ends of an upload are fair.

`Success` excludes downloads of a file that ends with a full block, which `end_of_file`
shows cannot be done.  With 7 bytes these are the downloads in blocks of one byte: they
are the ones of the option set `Sized`, so "every option" is meant of uploads.

## 4. Proofs

| what a run checks | theorem | holds for |
|---|---|---|
| `TypeOK` | `TypeCorrect` | everything |
| `DownloadInv`, `DownloadIntact` | `DownloadInvariant`, `DownloadCorrect` | the shipped client, files without wrap |
| `UploadInv`, `UploadIntact` | `UploadInvariant`, `UploadCorrect` | any options, files without wrap |
| `NoFalseSuccess` | `DownloadNoFalseSuccess`, `UploadNoFalseSuccess`, `NoFalseSuccessHolds` | downloads as above, uploads as above, both |
| `KeepsPromise` | `DownloadKeepsPromise`, `UploadKeepsPromise`, `TransferKeepsPromise` | the same; an upload that makes one session |
| `AgreeInv`, `AgreedBlockSize` | `AgreementInvariant`, `AgreedBlockSizeHolds` | everything |
| `Backoff` | `BackoffHolds` | everything |
| `RetransmitsLatest` | `RetransmitsLatestHolds` | no failing `sendto()` |
| `ListenerTypeOK`, `OwnRequest`, `SocketsAccounted`, `KeepsServicePromise`, `SessionsDoNotStopServer` | `ListenerTypeCorrect`, `OwnRequestCorrect`, `SocketsCorrect`, `PromiseKept`, `ListensOn` | everything |
| `ExchangeInv`, `AnswersOnlyWhatWasAsked`, `WellFormedUnderstood`, `Agreed`, `FitsBuffer`, `StoredText` | `ExchangeInvariantHolds`, `AnswersOnlyWhatWasAskedHolds`, `WellFormedUnderstoodHolds`, `AgreedHolds`, `BufferSuffices`, `StoredTextHolds` | everything |

"Everything" is every value of the constants that the assumptions on constants allow:
any number of sessions and strangers, any faults, any options and sizes.

**Types** (`Transfer_proofs`).  `TypeOK` alone is not inductive.  A packet kept in
`last` may be sent at any later time, so it must be well formed; a client's answer
goes to `m.src`, so one needs to know that only sessions and not the listener send to
the client (`Routed`), or `srcTID` would leave its type; and `inode[s.ino]` is a file
only because a session that waits has opened it (`IsSession`).  `TypeInv` adds these,
and there is a lemma per action and one per helper.

**Downloads** (`Download_proofs`).  Every DATA packet in flight or kept for
retransmission carries the block that its number says (`InDownload`), so what the
client appends when the number is the one it expects is the next block (`Stores`, with
`Len(local) = (block - 1) * BlockSize`).  For that a session must read at the offset
its number says (`Serves`), which holds because it reads only after the previous block
was full, and because nothing in a download changes the file (`inode[Old] = Source`).
Two assumptions: the client asks for no options (`ShippedClient`), and the file has
fewer blocks than there are block numbers (`NoWrap`).  Without the second it is false
on a network that delays packets long enough: an old block would have the number of a
new one.

`DownloadInv` does not say why a session succeeds only after the client.  `AckInv` adds
what an acknowledgement means: the client acknowledges the last block, the short one, in
the very turn in which it ends, so that whoever finds such an ACK in flight or kept comes
after; and a session waits in WAITING_LAST_ACK only after a short block.  From this
follow `DownloadNoFalseSuccess` and `DownloadKeepsPromise`, the refinement of
`FileTransfer` under the mapping of `Refinement`: what a turn of the client does is one
of a few moves (`ClientMoves`), what a turn of a session does is a handshake
(`Handshakes`), and each of them is a step of the promise or a stutter.  `Mapped` states
the steps of the promise in the variables of `Transfer`.

**Turns** (`Turns_proofs`).  `Backoff` and `RetransmitsLatest` are about both
directions and all options, so that each would have to go through every handler again.
`Turns_proofs` does that once: each action of the client and of a session is shown to be
one of a few relations between the fields of its record before and after it, with what it
keeps and what it sends.  Those relations are what is cited from then on.

* *Backoff.*  `BackoffInv`, a lemma, is `Backoff` and the schedule of a client that has not begun.
  The timeout after r retries is the initial one doubled r times; the doubling is a
  recursive function, and that one more turn doubles it once more is by induction.  The
  schedule survives the negotiation of another timeout because the packet that brings it
  has reset the retries in the same turn.
* *What is retransmitted.*  `KeptInv`, a lemma, says for each waiting state which packet is kept.
  It is inductive only with the states of a client that waits for an OACK: an ERROR makes
  that client repeat its request, and from the client's type and block number follows
  which one it is.  `"send" \notin Faults` is needed: a `sendto()` that fails leaves the
  packet before it in `lastPacket`, or a null pointer, which is the finding of
  `null_packet`.  `SomethingToRetransmitHolds` shows that this is the only way there.

**Options and uploads** (`Upload_proofs`).  Each end takes the negotiated block size at
another moment: the client with the OACK, the session with the first answer to it.
`AgreeInv` follows the size from the request to both ends.  A session's size is decided
by its options from the beginning (`FinalSize`), and until its first block an upload
session that has sent an OACK has the old one; a client that has left the negotiation
has accepted one session for good and has its size (`Partner`); and a packet in flight
that is a block or an acknowledgement proves that its sender has applied it (`Fits`).
The last part makes it inductive: a late packet of a session that the client has not
accepted finds a client with another peer, and an answer to an OACK can only come from
a client that has read it.

`UploadInv` adds the file: a DATA packet has the block its number says, cut by the
client's size (`UploadBlock`), the client has read up to the block it has sent
(`Sends`), and a session that no other one disturbs (`Alone`) has stored the blocks
before the one it waits for, in an inode of its own under the name (`Keeping`).  An
acknowledgement of the last block is in flight only once it is stored, which gives
`UploadNoFalseSuccess`.  `FewBlocks` is `NoWrap` for every size that may be asked for.
`UploadKeepsPromise` needs `Tids = {Only}`, one session for the request: with two it is
false (`stored_file`).

**The listener** (`Listener_proofs`) has one inductive invariant for three properties:
the future of a thread that runs is in `futures`, and only there does `shutDown` wait
(`Known`); a thread that has not parsed finds its own datagram in the buffer unless it
was overtaken (`Own`); a socket is open for each thread that holds one and for each
thread that an exception has ended after it was opened, in `exists()` or in its session
(`SocketsAccounted`, which is inductive only with the
invariant, and without which the bound of `leaked` cannot be shown).  `PromiseKept`, the
refinement of `Service`, follows from `Known`: when the server is closed or destroyed all
threads have ended.

**Formats and the exchange** (`Formats_proofs`, `Exchange_proofs`).  The loops of the
parsers and of netascii are recursive functions, whose properties need induction over the
turns.  The induction theorems of the library take an operator as a parameter, which the
provers cannot instantiate; `Induction_proofs` states them with sets instead (`Induct`:
a set with 0 and with n + 1 whenever it has n; `Recursion`: for a first value and a
step there is a function that has them, without which a recursive definition says
nothing), proved from the well-foundedness of the numbers.  With them
`Formats_proofs` shows

* that the options after any number of turns are exactly what the pairs so far have
  given (`Parsed`), and that complete pairs without a repeated name are not refused;
* that an OACK that was serialized is parsed to the options it was made from, when they
  have been filtered (`OptionFields` against `ParsedOptions`: six fields at most, in the
  order of the map, three turns);
* that decoding undoes the encoding of a text without NUL, block by block, when no block
  ends within a pair.

`ExchangeInv` connects them with the steps.  `ReplyInv`: the server's answer is a
function of the request it has read.  `AppliedInv`: before the answer nobody has applied
an option, and after it the client has what the server will have once it takes over its
options.  `StoredInv`: the file is what the blocks up to the one on its way stand for,
and as long as the last block has not left, whole blocks have.  `FitsBuffer` needs none
of this: whatever the loops make of a packet, `filterOptions` has the last word, and no
value it lets through is cut by the conversion to `uint16_t`.

**Assumptions on constants** are named and TLC evaluates them in every run of their part:
`PortAssumption`, `NoneAssumption`, `SizeAssumption`, `FaultAssumption`,
`RequestAssumption`, `PacketAssumption` (no packet is the value for none);
`ThreadAssumption`, `ClientAssumption`, `BoundAssumption`; `LimitAssumption` and
`WidthAssumption` (limits and buffers are ordered as the constants of the code are, a
word is at least two bytes wide and holds them), `CharAssumption`, `NotNumbers`,
`NotOptions`, `BufferAssumption`, `InputAssumption` (what another program sends is a
sequence of fields, which is what bytes between NULs are).  In particular a port the OS
gives is no other port in use, and ports are not used again.

**Only model-checked** are the liveness properties (`Success`, `Termination`,
`ShutsDown`, `StopsWhenQuiet`, `UploadCompletes`), which are out of the prover's reach;
downloads with options, and files whose block numbers wrap (`success`, where
`DownloadIntact` and `UploadIntact` hold because no packet is late).

## 5. Not modelled

* **The transfer's packets** are records: a malformed packet in the middle of a
  transfer, whose handling is that of an illegal one, is not sent.  Opcodes, and the
  code and text of an ERROR, are constants.
* **netascii outside uploads**: the server sends a netascii download as it is, and
  only a client that does not exist here asks for one.  `ClientSession` reads its
  input in netascii only with a mode that the shipped client never passes; that code
  (which drops a character when an encoded pair does not fit a block) cannot run.
  Pairs that a block boundary cuts, and NULs, are excluded from `StoredText`: the code
  does not put them together again.
* **Files**: a write goes to the file at once.  The streams of the code are
  buffered, so that an error at the flush after the last ACK goes unnoticed.  A
  read fails entirely or not at all; a short read would look like the end of the
  file.  A full disk (`hasEnoughSpace`) is the fault "disk".
* **A local file** of the client that exists before a download: `openFileForWrite`
  truncates it, `exit` of a failed download removes it.
* **Two clients** with requests of both directions for one name: a download of a
  file that is being uploaded, and a file that is gone when `file_size` looks at it.
* **A client that asks for options** is a caller of `ClientSession` that the repository
  does not have (`Both`).  `OackAtClient` and `ErrorAtClient` have its handlers, but
  only `options` and `success` reach them, and no property is about them alone.
* Ports are not used again after a session, and `|Tids|` bounds the sessions of a
  request.  Sessions in `Listener` do use their threads again.
* Argument parsing, host names, the logger and the test script.

## 6. Plan

1. *(done)* The transfer: `Tftp` to `Transfer`, their runs, `TypeCorrect`,
   `DownloadCorrect`, `FileTransfer` and its refinement.
2. *(done)* `Listener` with `Service`, `Formats` with `Exchange`, their runs and
   proofs; `DownloadKeepsPromise`.
3. *(done)* Proofs of all safety properties of the runs: `UploadCorrect`,
   `AgreedBlockSizeHolds`, `UploadKeepsPromise`, `BackoffHolds`,
   `RetransmitsLatestHolds`, and those of `Exchange`.
4. Weaker assumptions: `DownloadIntact` and `NoFalseSuccess` with any options, as
   `UploadIntact` has them.
5. Two clients and both directions at once on one name; buffered streams.
