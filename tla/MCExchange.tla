----------------------------- MODULE MCExchange -----------------------------
(***************************************************************************)
(* Exchange with limits of a few units: a word has 16 values, a byte 3,    *)
(* so that a block number of two bytes goes to 8.  The limits keep the     *)
(* order they have in the code, and every one of them has a value below,   *)
(* at and above it.                                                        *)
(***************************************************************************)
EXTENDS ExchangeInvariant

CONSTANT MaxText   \* bound on the texts that are uploaded

MCClientOptions == [OptionName -> {None, 0, 1, 3, 6}]

Capital(w) == [Text(w) EXCEPT !.caps = TRUE]
Name == {Text("blksize"), Capital("timeout"), Text("tsize"), Text("other"), Text("")}
Value == {Number(n) : n \in {-16, -1, 0, 2, 3, 5, 16}} \cup {Text("word"), Text("")}

(* A second option that repeats the first, or not, and may be incomplete.    *)
Pairs == {<<n, v>> : n \in Name, v \in Value}
Second == {<<>>, <<Text("blksize")>>, <<Capital("blksize"), Number(3)>>,
           <<Text("timeout"), Number(2)>>, <<Text("tsize"), Number(0)>>}
Heads == {<<Text("file"), Text("octet")>>, <<Text("file"), Capital("netascii")>>}
BadHeads == {<<>>, <<Text("file")>>, <<Text(""), Text("octet")>>, <<Text("file"), Text("mail")>>}

MCForeignRequests ==
  [op : {"RRQ", "WRQ"}, open : BOOLEAN,
   fields : BadHeads \cup Heads \cup {h \o p \o s : h \in Heads, p \in Pairs, s \in Second}]
  \cup {[op |-> "OTHER", open |-> FALSE, fields |-> <<>>]}

MCForeignOacks ==
  [op : {"OACK"}, open : BOOLEAN, fields : {<<>>} \cup {p \o s : p \in Pairs, s \in Second}]

MCTexts == UNION {[1 .. n -> Char] : n \in 0 .. MaxText}
=============================================================================
