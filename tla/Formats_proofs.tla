--------------------------- MODULE Formats_proofs ---------------------------
(***************************************************************************)
(* What the loops of Formats compute, for every input: the encoding and    *)
(* the decoding of netascii are followed turn by turn, and so is the loop  *)
(* over the options of a request or an OACK.                               *)
(***************************************************************************)
EXTENDS Formats, Induction_proofs, FiniteSetTheorems, SequenceTheorems

-----------------------------------------------------------------------------
(* netascii. *)

(* A part of a sequence.                                                     *)
LEMMA Cut ==
  ASSUME NEW C, NEW s \in Seq(C), NEW m \in Nat, NEW n \in Nat,
         1 <= m, m <= n + 1, n <= Len(s)
  PROVE  /\ SubSeq(s, m, n) \in Seq(C) /\ Len(SubSeq(s, m, n)) = n - m + 1
         /\ \A i \in 1 .. n - m + 1 : SubSeq(s, m, n)[i] = s[m + i - 1]
OBVIOUS

(* What has been encoded after so many characters of a text. *)
UpTo(t) ==
  CHOOSE f : f = [k \in 0 .. Len(t) |-> IF k = 0 THEN <<>> ELSE f[k - 1] \o Code(t[k])]

(* A character is encoded as itself or as a pair that begins with a CR.      *)
LEMMA Codes ==
  ASSUME NEW c \in Char
  PROVE  /\ Code(c) \in Seq(Char)
         /\ c = "lf" => Code(c) = <<"cr", "lf">>
         /\ c = "cr" => Code(c) = <<"cr", "nul">>
         /\ c \notin {"lf", "cr"} => Code(c) = <<c>>
         /\ Len(Code(c)) \in {1, 2}
<1>0. "cr" \in Char /\ "lf" \in Char /\ "nul" \in Char
  BY CharAssumption
<1>1. \A x, y \in Char : /\ <<x, y>> \in Seq(Char) /\ Len(<<x, y>>) = 2
                         /\ <<x>> \in Seq(Char) /\ Len(<<x>>) = 1
  OBVIOUS
<1>2. /\ c = "lf" => Code(c) = <<"cr", "lf">>
      /\ c = "cr" => Code(c) = <<"cr", "nul">>
      /\ c \notin {"lf", "cr"} => Code(c) = <<c>>
  BY DEF Code
<1>3. c = "lf" \/ c = "cr" \/ c \notin {"lf", "cr"}
  OBVIOUS
<1> QED BY <1>0, <1>1, <1>2, <1>3, Zenon

(* The encoding of a text grows character by character.                      *)
LEMMA Encoding ==
  ASSUME NEW t \in Seq(Char)
  PROVE  /\ UpTo(t) \in [0 .. Len(t) -> Seq(Char)]
         /\ UpTo(t)[0] = <<>>
         /\ \A k \in 1 .. Len(t) : UpTo(t)[k] = UpTo(t)[k - 1] \o Code(t[k])
         /\ Encode(t) = UpTo(t)[Len(t)]
<1> DEFINE P(f) == f = [k \in 0 .. Len(t) |-> IF k = 0 THEN <<>> ELSE f[k - 1] \o Code(t[k])]
<1>1. UpTo(t) = CHOOSE f : P(f)
  BY DEF UpTo
<1>2. Len(t) \in Nat /\ \A k \in 1 .. Len(t) : t[k] \in Char /\ Code(t[k]) \in Seq(Char)
  BY Codes
<1>3. \E f : P(f)
  <2> DEFINE X == Seq(Char)
             step(k, x) == IF k \in 1 .. Len(t) THEN x \o Code(t[k]) ELSE x
             G == [k \in Nat |-> [x \in X |-> step(k, x)]]
  <2>1. <<>> \in X
    OBVIOUS
  <2>2. G \in [Nat -> [X -> X]]
    <3>1. \A k \in Nat, x \in X : step(k, x) \in X
      BY <1>2
    <3> HIDE DEF step
    <3> QED BY <3>1
  <2>3. PICK f \in [0 .. Len(t) -> X] : Iterates(f, <<>>, G, Len(t))
    <3> HIDE DEF G, X
    <3> QED BY <1>2, <2>1, <2>2, Recursion
  <2>4. f[0] = <<>> /\ \A k \in 1 .. Len(t) : f[k] = f[k - 1] \o Code(t[k])
    <3>1. f[0] = <<>>
      BY <2>3 DEF Iterates
    <3>2. ASSUME NEW k \in 1 .. Len(t) PROVE f[k] = f[k - 1] \o Code(t[k])
      <4>1. k \in Nat /\ k - 1 \in 0 .. Len(t)
        BY <1>2
      <4>2. f[k - 1] \in X
        BY <4>1
      <4>3. f[k] = G[k][f[k - 1]]
        BY <2>3 DEF Iterates
      <4>4. G[k][f[k - 1]] = step(k, f[k - 1])
        <5> HIDE DEF step, X
        <5> QED BY <4>1, <4>2
      <4> HIDE DEF G, X
      <4> QED BY <4>3, <4>4
    <3> QED BY <3>1, <3>2
  <2>5. P(f)
    <3>1. \A k \in 0 .. Len(t) : k = 0 \/ k \in 1 .. Len(t)
      BY <1>2
    <3>2. \A k \in 0 .. Len(t) : f[k] = IF k = 0 THEN <<>> ELSE f[k - 1] \o Code(t[k])
      BY <2>4, <3>1
    <3>3. f = [k \in 0 .. Len(t) |-> f[k]]
      OBVIOUS
    <3> QED BY <3>2, <3>3
  <2> QED BY <2>5
<1>4. P(UpTo(t))
  <2> HIDE DEF P
  <2> QED BY <1>1, <1>3
<1>5. /\ UpTo(t) = [k \in 0 .. Len(t) |-> UpTo(t)[k]]
      /\ UpTo(t)[0] = <<>>
      /\ \A k \in 1 .. Len(t) : UpTo(t)[k] = UpTo(t)[k - 1] \o Code(t[k])
  <2>1. DOMAIN UpTo(t) = 0 .. Len(t)
    BY <1>4
  <2>2. \A k \in 0 .. Len(t) : UpTo(t)[k] = IF k = 0 THEN <<>> ELSE UpTo(t)[k - 1] \o Code(t[k])
    BY <1>4
  <2>3. 0 \in 0 .. Len(t) /\ \A k \in 1 .. Len(t) : k \in 0 .. Len(t) /\ k # 0
    BY <1>2
  <2>4. UpTo(t) = [k \in 0 .. Len(t) |-> UpTo(t)[k]]
    BY <1>4
  <2> HIDE DEF P
  <2> QED BY <2>2, <2>3, <2>4
<1> HIDE DEF P
<1>6. Encode(t) = UpTo(t)[Len(t)]
  BY DEF Encode, UpTo
<1>7. \A k \in 0 .. Len(t) : UpTo(t)[k] \in Seq(Char)
  <2> DEFINE S == {k \in Nat : k <= Len(t) => UpTo(t)[k] \in Seq(Char)}
  <2>1. 0 \in S
    BY <1>5
  <2>2. ASSUME NEW k \in Nat, k \in S PROVE k + 1 \in S
    <3>1. CASE k + 1 <= Len(t)
      <4>1. k + 1 \in 1 .. Len(t) /\ (k + 1) - 1 = k /\ UpTo(t)[k] \in Seq(Char)
        BY <1>2, <2>2, <3>1
      <4>2. UpTo(t)[k + 1] = UpTo(t)[k] \o Code(t[k + 1]) /\ Code(t[k + 1]) \in Seq(Char)
        BY <1>2, <1>5, <4>1
      <4>3. UpTo(t)[k + 1] \in Seq(Char)
        BY <4>1, <4>2
      <4> QED BY <4>3
    <3>2. CASE ~(k + 1 <= Len(t))
      BY <3>2
    <3> QED BY <3>1, <3>2
  <2> HIDE DEF S
  <2>3. Nat \subseteq S
    BY <2>1, <2>2, Induct
  <2> QED BY <1>2, <2>3 DEF S
<1>8. UpTo(t) \in [0 .. Len(t) -> Seq(Char)]
  BY <1>5, <1>7
<1> QED
  BY <1>5, <1>6, <1>7, <1>8

(* How much of an encoding stands for the first k characters.                *)
Reach(t, k) == Len(UpTo(t)[k])

(* Every character adds its code.                                            *)
LEMMA Growing ==
  ASSUME NEW t \in Seq(Char), NEW k \in 1 .. Len(t)
  PROVE  /\ t[k] \in Char /\ k - 1 \in 0 .. Len(t)
         /\ UpTo(t)[k - 1] \in Seq(Char) /\ UpTo(t)[k] \in Seq(Char)
         /\ Reach(t, k - 1) \in Nat /\ Reach(t, k) = Reach(t, k - 1) + Len(Code(t[k]))
         /\ \A i \in 1 .. Reach(t, k - 1) : UpTo(t)[k][i] = UpTo(t)[k - 1][i]
         /\ \A i \in 1 .. Len(Code(t[k])) :
              UpTo(t)[k][Reach(t, k - 1) + i] = Code(t[k])[i]
<1>1. t[k] \in Char /\ k - 1 \in 0 .. Len(t) /\ k \in 0 .. Len(t)
  OBVIOUS
<1>2. UpTo(t)[k - 1] \in Seq(Char) /\ UpTo(t)[k] \in Seq(Char) /\ Code(t[k]) \in Seq(Char)
  BY <1>1, Encoding, Codes
<1>3. UpTo(t)[k] = UpTo(t)[k - 1] \o Code(t[k])
  BY Encoding
<1> DEFINE u == UpTo(t)[k - 1]
           c == Code(t[k])
<1>4. u \in Seq(Char) /\ c \in Seq(Char) /\ UpTo(t)[k] = u \o c
  BY <1>2, <1>3
<1> HIDE DEF u, c
<1>5. /\ Len(u) \in Nat /\ Len(c) \in Nat /\ Len(u \o c) = Len(u) + Len(c)
      /\ \A i \in 1 .. Len(u) : (u \o c)[i] = u[i]
      /\ \A i \in 1 .. Len(c) : (u \o c)[Len(u) + i] = c[i]
  BY <1>4
<1> QED
  BY <1>1, <1>2, <1>4, <1>5 DEF u, c, Reach

(* What has been encoded stays as it is.                                     *)
LEMMA Persists ==
  ASSUME NEW t \in Seq(Char), NEW k \in 0 .. Len(t)
  PROVE  \A j \in k .. Len(t) :
           /\ Reach(t, k) + (j - k) <= Reach(t, j) /\ Reach(t, j) \in Nat /\ Reach(t, k) \in Nat
           /\ \A i \in 1 .. Reach(t, k) : UpTo(t)[j][i] = UpTo(t)[k][i]
<1> DEFINE Q(j) == /\ Reach(t, k) + (j - k) <= Reach(t, j) /\ Reach(t, j) \in Nat /\ Reach(t, k) \in Nat
                   /\ \A i \in 1 .. Reach(t, k) : UpTo(t)[j][i] = UpTo(t)[k][i]
           S == {n \in Nat : k + n <= Len(t) => Q(k + n)}
<1>0. Len(t) \in Nat /\ k \in Nat
  OBVIOUS
<1>1. UpTo(t)[k] \in Seq(Char) /\ Reach(t, k) \in Nat
  <2>1. UpTo(t)[k] \in Seq(Char)
    BY Encoding
  <2> HIDE DEF Q, S
  <2> QED BY <2>1 DEF Reach
<1>2. 0 \in S
  <2>1. Reach(t, k) + (k - k) <= Reach(t, k)
    BY <1>0, <1>1
  <2>2. Q(k) /\ k + 0 = k
    BY <1>0, <1>1, <2>1
  <2> HIDE DEF Q
  <2> QED BY <2>2
<1>3. ASSUME NEW n \in Nat, n \in S PROVE n + 1 \in S
  <2>1. CASE k + (n + 1) <= Len(t)
    <3> DEFINE j == k + (n + 1)
    <3>1. j \in 1 .. Len(t) /\ j - 1 = k + n /\ Q(j - 1)
      BY <1>0, <1>3, <2>1
    <3>2. /\ Reach(t, j) = Reach(t, j - 1) + Len(Code(t[j])) /\ Len(Code(t[j])) \in {1, 2}
          /\ \A i \in 1 .. Reach(t, j - 1) : UpTo(t)[j][i] = UpTo(t)[j - 1][i]
      BY <3>1, Growing, Codes
    <3>3. k \in Nat /\ n \in Nat /\ j = k + n + 1
      BY <1>0
    <3> HIDE DEF j
    <3>4. /\ Reach(t, k) + (j - k) <= Reach(t, j) /\ Reach(t, j) \in Nat
          /\ 1 .. Reach(t, k) \subseteq 1 .. Reach(t, j - 1)
      <4>1. \A a, b, c, x : /\ a \in Nat /\ b \in Nat /\ c \in {1, 2} /\ x = b + c
                            /\ a + (j - 1 - k) <= b
                            => a + (j - k) <= x /\ x \in Nat /\ 1 .. a \subseteq 1 .. b
        BY <3>3
      <4> QED BY <1>1, <3>1, <3>2, <4>1
    <3>5. Q(j)
      BY <1>1, <3>1, <3>2, <3>4
    <3> HIDE DEF Q
    <3> QED BY <3>5 DEF j
  <2>2. CASE ~(k + (n + 1) <= Len(t))
    BY <2>2
  <2> QED BY <2>1, <2>2
<1>4. Nat \subseteq S
  <2> HIDE DEF S
  <2> QED BY <1>2, <1>3, Induct
<1>5. ASSUME NEW j \in k .. Len(t) PROVE Q(j)
  <2>1. j - k \in Nat /\ k + (j - k) = j /\ j <= Len(t)
    BY <1>0
  <2>2. j - k \in S
    BY <1>4, <2>1
  <2> HIDE DEF Q
  <2> QED BY <2>1, <2>2
<1> HIDE DEF Q
<1>6. \A j \in k .. Len(t) : Q(j)
  BY <1>5
<1> QED
  BY <1>6 DEF Q

(* The encoding of the first characters is the beginning of the encoding.    *)
LEMMA PrefixEncoded ==
  ASSUME NEW t \in Seq(Char), NEW k \in 0 .. Len(t)
  PROVE  /\ Encode(t) \in Seq(Char) /\ Len(Encode(t)) = Reach(t, Len(t))
         /\ Reach(t, k) \in 0 .. Len(Encode(t))
         /\ \A i \in 1 .. Reach(t, k) : Encode(t)[i] = UpTo(t)[k][i]
         /\ Encode(SubSeq(t, 1, k)) = SubSeq(Encode(t), 1, Reach(t, k))
<1> DEFINE u == SubSeq(t, 1, k)
<1>0. Len(t) \in Nat /\ k \in Nat /\ k <= Len(t)
  OBVIOUS
<1>1. u \in Seq(Char) /\ Len(u) = k /\ \A i \in 1 .. k : u[i] = t[i]
  BY <1>0, Cut
<1>2. /\ Encode(t) \in Seq(Char) /\ Encode(t) = UpTo(t)[Len(t)] /\ UpTo(t)[k] \in Seq(Char)
      /\ Encode(u) = UpTo(u)[k]
  <2> HIDE DEF u
  <2>1. UpTo(t) \in [0 .. Len(t) -> Seq(Char)] /\ Encode(t) = UpTo(t)[Len(t)]
    BY Encoding
  <2>2. Encode(u) = UpTo(u)[Len(u)]
    BY <1>1, Encoding
  <2> QED BY <1>0, <1>1, <2>1, <2>2
<1>3. /\ Reach(t, k) \in Nat /\ Reach(t, k) <= Reach(t, Len(t))
      /\ \A i \in 1 .. Reach(t, k) : UpTo(t)[Len(t)][i] = UpTo(t)[k][i]
  BY <1>0, Persists
<1>4. UpTo(u)[k] = UpTo(t)[k]
  <2> DEFINE S == {j \in Nat : j <= k => UpTo(u)[j] = UpTo(t)[j]}
  <2> HIDE DEF u
  <2>1. 0 \in S
    BY <1>1, Encoding
  <2>2. ASSUME NEW j \in Nat, j \in S PROVE j + 1 \in S
    <3>1. CASE j + 1 <= k
      <4>1. /\ j + 1 \in 1 .. Len(t) /\ j + 1 \in 1 .. Len(u) /\ (j + 1) - 1 = j
            /\ UpTo(u)[j] = UpTo(t)[j] /\ u[j + 1] = t[j + 1]
        BY <1>0, <1>1, <2>2, <3>1
      <4>2. UpTo(t)[j + 1] = UpTo(t)[j] \o Code(t[j + 1])
        BY <4>1, Encoding
      <4>3. UpTo(u)[j + 1] = UpTo(u)[j] \o Code(u[j + 1])
        BY <1>1, <4>1, Encoding
      <4>4. UpTo(u)[j + 1] = UpTo(t)[j + 1]
        BY <4>1, <4>2, <4>3
      <4> QED BY <4>4
    <3>2. CASE ~(j + 1 <= k)
      BY <3>2
    <3> QED BY <3>1, <3>2
  <2>3. Nat \subseteq S
    <3> HIDE DEF S
    <3> QED BY <2>1, <2>2, Induct
  <2> QED BY <1>0, <2>3
<1>5. SubSeq(Encode(t), 1, Reach(t, k)) = UpTo(t)[k]
  <2> DEFINE e == Encode(t)
             v == UpTo(t)[k]
             n == Reach(t, k)
  <2>1. /\ e \in Seq(Char) /\ v \in Seq(Char) /\ n \in Nat /\ n <= Len(e) /\ Len(v) = n
        /\ \A i \in 1 .. n : e[i] = v[i]
    BY <1>2, <1>3 DEF Reach
  <2> HIDE DEF e, v, n
  <2>2. /\ SubSeq(e, 1, n) \in Seq(Char) /\ Len(SubSeq(e, 1, n)) = n
        /\ \A i \in 1 .. n : SubSeq(e, 1, n)[i] = e[i]
    BY <2>1
  <2>3. SubSeq(e, 1, n) = v
    BY <2>1, <2>2
  <2> QED BY <2>3 DEF e, v, n
<1> QED
  BY <1>2, <1>3, <1>4, <1>5 DEF Reach

(* A cut that leaves no pair open is the end of a character.                 *)
LEMMA Boundaries ==
  ASSUME NEW t \in Seq(Char), NEW q \in 0 .. Len(Encode(t)),
         q = 0 \/ q = Len(Encode(t)) \/ Encode(t)[q] # "cr"
  PROVE  \E k \in 0 .. Len(t) : Reach(t, k) = q
<1> DEFINE Q(k) == q <= Reach(t, k) => \E j \in 0 .. Len(t) : Reach(t, j) = q
           S == {k \in Nat : k <= Len(t) => Q(k)}
<1>0. /\ Len(t) \in Nat /\ Len(Encode(t)) = Reach(t, Len(t)) /\ Reach(t, Len(t)) \in Nat
      /\ Len(t) \in 0 .. Len(t) /\ 0 \in 0 .. Len(t) /\ q \in Nat
  BY PrefixEncoded
<1>1. Reach(t, 0) = 0
  <2>1. UpTo(t)[0] = <<>>
    BY Encoding
  <2> HIDE DEF Q, S
  <2> QED BY <2>1 DEF Reach
<1>2. 0 \in S
  BY <1>0, <1>1
<1>3. ASSUME NEW n \in Nat, n \in S PROVE n + 1 \in S
  <2> DEFINE k == n + 1
  <2>0. k - 1 = n /\ k \in Nat
    OBVIOUS
  <2> HIDE DEF k
  <2> SUFFICES ASSUME k <= Len(t), q <= Reach(t, k)
               PROVE  \E j \in 0 .. Len(t) : Reach(t, j) = q
    BY <2>0 DEF k
  <2>1. k \in 1 .. Len(t) /\ k \in 0 .. Len(t) /\ k - 1 \in 0 .. Len(t) /\ Q(k - 1)
    BY <1>0, <1>3, <2>0
  <2> HIDE DEF Q, S
  <2>2. CASE q <= Reach(t, k - 1)
    BY <2>1, <2>2 DEF Q
  <2>3. CASE q = Reach(t, k)
    BY <2>1, <2>3
  <2>4. CASE q > Reach(t, k - 1) /\ q # Reach(t, k)
    <3> DEFINE r == Reach(t, k - 1)
               c == Code(t[k])
    <3>1. /\ t[k] \in Char /\ r \in Nat /\ Reach(t, k) = r + Len(c)
          /\ \A i \in 1 .. Len(c) : UpTo(t)[k][r + i] = c[i]
      BY <2>1, Growing
    <3>2. /\ t[k] \in {"lf", "cr"} => c[1] = "cr" /\ Len(c) = 2
          /\ t[k] \notin {"lf", "cr"} => Len(c) = 1
      BY <3>1, Codes
    <3>3. Reach(t, k) \in 0 .. Len(Encode(t)) /\ \A i \in 1 .. Reach(t, k) : Encode(t)[i] = UpTo(t)[k][i]
      BY <2>1, PrefixEncoded
    <3> HIDE DEF r, c
    <3>4. q > r /\ q < r + Len(c)
      BY <1>0, <2>4, <3>1, <3>2 DEF r
    <3>5. q = r + 1 /\ Len(c) = 2 /\ c[1] = "cr"
      <4>1. Len(c) # 1
        BY <1>0, <3>1, <3>4
      <4>2. Len(c) = 2 /\ c[1] = "cr"
        BY <3>2, <4>1
      <4> QED BY <1>0, <3>1, <3>4, <4>2
    <3>6. Encode(t)[q] = "cr" /\ q # 0 /\ q # Len(Encode(t))
      BY <1>0, <3>1, <3>3, <3>5
    <3> QED BY <3>6
  <2>5. Reach(t, k - 1) \in Nat
    BY <2>1, Growing
  <2> QED BY <1>0, <2>2, <2>3, <2>4, <2>5
<1>4. Nat \subseteq S
  <2> HIDE DEF S
  <2> QED BY <1>2, <1>3, Induct
<1> QED
  BY <1>0, <1>4

(* The turns of the loop in parseNetasciiString.                             *)
Reading(b) ==
  CHOOSE f : f = [k \in 0 .. Len(b) |->
                    IF k = 0 THEN [chars |-> <<>>, next |-> 1] ELSE ReadChar(b, f[k - 1])]

(* Every turn goes on from the one before.                                   *)
LEMMA Decoding ==
  ASSUME NEW b \in Seq(Char)
  PROVE  /\ Reading(b)[0] = [chars |-> <<>>, next |-> 1]
         /\ \A k \in 1 .. Len(b) : Reading(b)[k] = ReadChar(b, Reading(b)[k - 1])
         /\ Decode(b) = Reading(b)[Len(b)].chars
<1> DEFINE start == [chars |-> <<>>, next |-> 1]
           P(f) == f = [k \in 0 .. Len(b) |-> IF k = 0 THEN start ELSE ReadChar(b, f[k - 1])]
<1>1. Reading(b) = CHOOSE f : P(f)
  BY DEF Reading
<1>2. Len(b) \in Nat
  OBVIOUS
<1>3. \E f : P(f)
  <2> DEFINE X == [chars : Seq(Char), next : Nat \ {0}]
             G == [k \in Nat |-> [x \in X |-> ReadChar(b, x)]]
  <2>1. start \in X
    OBVIOUS
  <2>2. G \in [Nat -> [X -> X]]
    <3>1. ASSUME NEW x \in X PROVE ReadChar(b, x) \in X
      <4>1. CASE x.next > Len(b)
        BY <4>1 DEF ReadChar
      <4>2. CASE ~(x.next > Len(b))
        <5>1. x.next \in 1 .. Len(b) /\ b[x.next] \in Char /\ Append(x.chars, b[x.next]) \in Seq(Char)
          BY <1>2, <4>2
        <5>2. Append(x.chars, Unpair(b[x.next + 1])) \in Seq(Char)
          <6>1. Unpair(b[x.next + 1]) \in Char
            BY CharAssumption DEF Unpair
          <6> QED BY <6>1
        <5>3. [x EXCEPT !.next = Len(b) + 1] \in X
          BY <1>2
        <5> QED BY <1>2, <4>2, <5>1, <5>2, <5>3 DEF ReadChar
      <4> QED BY <4>1, <4>2
    <3> HIDE DEF X
    <3> QED BY <3>1
  <2>3. PICK f \in [0 .. Len(b) -> X] : Iterates(f, start, G, Len(b))
    <3> HIDE DEF G, X, start
    <3> QED BY <1>2, <2>1, <2>2, Recursion
  <2>4. f[0] = start /\ \A k \in 1 .. Len(b) : f[k] = ReadChar(b, f[k - 1])
    <3> HIDE DEF X, start
    <3>1. f[0] = start
      BY <2>3 DEF Iterates
    <3>2. ASSUME NEW k \in 1 .. Len(b) PROVE f[k] = ReadChar(b, f[k - 1])
      <4>1. k \in Nat /\ k - 1 \in 0 .. Len(b)
        BY <1>2
      <4>2. f[k - 1] \in X
        BY <4>1
      <4>3. f[k] = G[k][f[k - 1]]
        BY <2>3 DEF Iterates
      <4> QED BY <4>1, <4>2, <4>3
    <3> QED BY <3>1, <3>2
  <2>5. P(f)
    <3> HIDE DEF start
    <3>1. \A k \in 0 .. Len(b) : k = 0 \/ k \in 1 .. Len(b)
      BY <1>2
    <3>2. \A k \in 0 .. Len(b) : f[k] = IF k = 0 THEN start ELSE ReadChar(b, f[k - 1])
      BY <2>4, <3>1
    <3>3. f = [k \in 0 .. Len(b) |-> f[k]]
      OBVIOUS
    <3> QED BY <3>2, <3>3
  <2> QED BY <2>5
<1>4. P(Reading(b))
  <2> HIDE DEF P
  <2> QED BY <1>1, <1>3
<1> HIDE DEF start
<1>5. \A k \in 0 .. Len(b) : Reading(b)[k] = IF k = 0 THEN start ELSE ReadChar(b, Reading(b)[k - 1])
  BY <1>4
<1>6. 0 \in 0 .. Len(b) /\ \A k \in 1 .. Len(b) : k \in 0 .. Len(b) /\ k # 0
  BY <1>2
<1>7. Decode(b) = Reading(b)[Len(b)].chars
  BY DEF Decode, Reading
<1> HIDE DEF P
<1>8. Reading(b)[0] = start /\ \A k \in 1 .. Len(b) : Reading(b)[k] = ReadChar(b, Reading(b)[k - 1])
  BY <1>5, <1>6
<1> QED
  BY <1>7, <1>8 DEF start

(* A turn of the loop reads the code of a character and stores the character. *)
LEMMA ReadsCode ==
  ASSUME NEW b \in Seq(Char), NEW c \in Char, c # "nul", NEW chars, NEW n \in Nat, n >= 1,
         n + Len(Code(c)) - 1 <= Len(b),
         \A i \in 1 .. Len(Code(c)) : b[n + i - 1] = Code(c)[i]
  PROVE  ReadChar(b, [chars |-> chars, next |-> n]) =
           [chars |-> Append(chars, c), next |-> n + Len(Code(c))]
<1>0. Len(b) \in Nat
  OBVIOUS
<1>1. CASE c \in {"lf", "cr"}
  <2> DEFINE second == IF c = "lf" THEN "lf" ELSE "nul"
  <2>1. Code(c) = <<"cr", second>>
    BY <1>1, Codes
  <2>2. Len(Code(c)) = 2 /\ Code(c)[1] = "cr" /\ Code(c)[2] = second
    BY <2>1
  <2> HIDE DEF second
  <2>3. b[n] = "cr" /\ b[n + 1] = second /\ n < Len(b)
    <3>1. n + 1 - 1 = n /\ n + 2 - 1 = n + 1 /\ 1 \in 1 .. 2 /\ 2 \in 1 .. 2
      OBVIOUS
    <3> QED BY <1>0, <2>2, <3>1
  <2>4. second \in {"nul", "lf"} /\ Unpair(second) = c
    BY <1>1 DEF second, Unpair
  <2>5. ~(n > Len(b))
    BY <1>0, <2>3
  <2> QED BY <2>2, <2>3, <2>4, <2>5 DEF ReadChar
<1>2. CASE c \notin {"lf", "cr"}
  <2>1. Code(c) = <<c>>
    BY <1>2, Codes
  <2>2. Len(Code(c)) = 1 /\ Code(c)[1] = c
    BY <2>1
  <2>3. b[n] = c /\ ~(n > Len(b))
    <3>1. n + 1 - 1 = n /\ 1 \in 1 .. 1
      OBVIOUS
    <3> QED BY <1>0, <2>2, <3>1
  <2> QED BY <1>2, <2>2, <2>3 DEF ReadChar
<1> QED
  BY <1>1, <1>2

(* One more character of a sequence.                                         *)
LEMMA CutMore ==
  ASSUME NEW C, NEW s \in Seq(C), NEW m \in Nat, NEW n \in Nat, 1 <= m, m <= n + 1, n < Len(s)
  PROVE  Append(SubSeq(s, m, n), s[n + 1]) = SubSeq(s, m, n + 1)
<1> DEFINE u == SubSeq(s, m, n)
           v == SubSeq(s, m, n + 1)
<1>1. /\ u \in Seq(C) /\ Len(u) = n - m + 1 /\ \A i \in 1 .. n - m + 1 : u[i] = s[m + i - 1]
      /\ v \in Seq(C) /\ Len(v) = n - m + 2 /\ \A i \in 1 .. n - m + 2 : v[i] = s[m + i - 1]
      /\ s[n + 1] \in C
  <2>1. u \in Seq(C) /\ Len(u) = n - m + 1 /\ \A i \in 1 .. n - m + 1 : u[i] = s[m + i - 1]
    BY Cut
  <2>2. /\ v \in Seq(C) /\ Len(v) = (n + 1) - m + 1
        /\ \A i \in 1 .. (n + 1) - m + 1 : v[i] = s[m + i - 1]
    <3>1. n + 1 \in Nat /\ m <= (n + 1) + 1 /\ n + 1 <= Len(s)
      OBVIOUS
    <3> QED BY <3>1, Cut
  <2>3. (n + 1) - m + 1 = n - m + 2 /\ n + 1 \in 1 .. Len(s)
    OBVIOUS
  <2>4. s[n + 1] \in C
    BY <2>3
  <2> HIDE DEF u, v
  <2> QED BY <2>1, <2>2, <2>3, <2>4
<1> HIDE DEF u, v
<1>2. /\ Append(u, s[n + 1]) \in Seq(C) /\ Len(Append(u, s[n + 1])) = n - m + 2
      /\ \A i \in 1 .. n - m + 1 : Append(u, s[n + 1])[i] = u[i]
      /\ Append(u, s[n + 1])[n - m + 2] = s[n + 1]
  BY <1>1
<1>3. ASSUME NEW i \in 1 .. n - m + 2 PROVE Append(u, s[n + 1])[i] = v[i]
  <2>1. CASE i = n - m + 2
    <3>1. m + i - 1 = n + 1
      BY <2>1
    <3> QED BY <1>1, <1>2, <2>1, <3>1
  <2>2. CASE i # n - m + 2
    <3>1. i \in 1 .. n - m + 1
      BY <2>2
    <3> QED BY <1>1, <1>2, <3>1
  <2> QED BY <2>1, <2>2
<1> QED
  BY <1>1, <1>2, <1>3, SeqEqual DEF u, v

(* A block that begins and ends between characters is decoded to them.       *)
LEMMA BlockDecoded ==
  ASSUME NEW t \in Seq(Char), Plain(t), NEW k \in 0 .. Len(t), NEW m \in k .. Len(t)
  PROVE  Decode(SubSeq(Encode(t), Reach(t, k) + 1, Reach(t, m))) = SubSeq(t, k + 1, m)
<1> DEFINE e == Encode(t)
           b == SubSeq(e, Reach(t, k) + 1, Reach(t, m))
           At(j) == [chars |-> SubSeq(t, k + 1, k + j),
                     next |-> Reach(t, k + j) - Reach(t, k) + 1]
<1>0. Len(t) \in Nat /\ k \in Nat /\ m \in Nat /\ k <= m /\ m <= Len(t) /\ m \in 0 .. Len(t)
  OBVIOUS
<1>1. \A j \in k .. m : /\ Reach(t, j) \in Nat /\ Reach(t, k) + (j - k) <= Reach(t, j)
                         /\ Reach(t, j) + (m - j) <= Reach(t, m)
  <2> TAKE j \in k .. m
  <2>1. j \in k .. Len(t) /\ j \in 0 .. Len(t) /\ m \in j .. Len(t)
    BY <1>0
  <2> QED BY <2>1, Persists
<1>2. /\ e \in Seq(Char) /\ Reach(t, k) \in Nat /\ Reach(t, m) \in Nat
      /\ Reach(t, k) <= Reach(t, m) /\ Reach(t, m) <= Len(e)
  <2>1. k \in k .. m /\ m \in k .. m
    BY <1>0
  <2> HIDE DEF b, At
  <2> QED BY <1>0, <1>1, <2>1, PrefixEncoded
<1>3. /\ b \in Seq(Char) /\ Len(b) = Reach(t, m) - Reach(t, k)
      /\ \A i \in 1 .. Len(b) : b[i] = e[Reach(t, k) + i]
  <2> HIDE DEF e
  <2>1. /\ b \in Seq(Char) /\ Len(b) = Reach(t, m) - (Reach(t, k) + 1) + 1
        /\ \A i \in 1 .. Reach(t, m) - (Reach(t, k) + 1) + 1 : b[i] = e[Reach(t, k) + 1 + i - 1]
    BY <1>2, Cut
  <2>2. \A x, y \in Nat : y - (x + 1) + 1 = y - x
    OBVIOUS
  <2>3. \A i \in 1 .. Len(b) : Reach(t, k) + 1 + i - 1 = Reach(t, k) + i
    BY <1>2
  <2> HIDE DEF b
  <2> QED BY <1>2, <2>1, <2>2, <2>3
<1> DEFINE S == {j \in Nat : j <= m - k => Reading(b)[j] = At(j)}
<1> HIDE DEF b, e
<1>4. 0 \in S
  <2>1. SubSeq(t, k + 1, k + 0) = <<>> /\ Reach(t, k + 0) - Reach(t, k) + 1 = 1
    BY <1>0, <1>2
  <2> QED BY <1>3, <2>1, Decoding
<1>5. ASSUME NEW j \in Nat, j \in S PROVE j + 1 \in S
  <2> SUFFICES ASSUME j + 1 <= m - k PROVE Reading(b)[j + 1] = At(j + 1)
    OBVIOUS
  <2> DEFINE x == k + j + 1
  <2>1. x \in 1 .. Len(t) /\ x \in k .. m /\ x - 1 = k + j /\ x - 1 \in k .. m /\ x = k + (j + 1)
    BY <1>0
  <2>2. Reading(b)[j] = At(j)
    BY <1>0, <1>5
  <2> HIDE DEF S, x
  <2> DEFINE c == Code(t[x])
             r == Reach(t, x - 1)
             n == r - Reach(t, k) + 1
  <2>3. /\ t[x] \in Char /\ t[x] # "nul" /\ r \in Nat /\ Reach(t, x) = r + Len(c)
        /\ Len(c) \in {1, 2} /\ \A i \in 1 .. Len(c) : UpTo(t)[x][r + i] = c[i]
    BY <2>1, Growing, Codes DEF Plain
  <2>4. Reach(t, x) <= Reach(t, m) /\ Reach(t, k) <= r /\ Reach(t, x) \in Nat
    <3>1. Reach(t, x) \in Nat /\ Reach(t, x) + (m - x) <= Reach(t, m)
      BY <1>1, <2>1
    <3>2. Reach(t, x - 1) \in Nat /\ Reach(t, k) + ((x - 1) - k) <= Reach(t, x - 1)
      BY <1>1, <2>1
    <3>3. m - x \in Nat /\ (x - 1) - k \in Nat
      BY <1>0, <2>1
    <3>4. \A y, z, w \in Nat : y + w <= z => y <= z
      OBVIOUS
    <3> QED BY <1>2, <3>1, <3>2, <3>3, <3>4
  <2>5. \A i \in 1 .. Reach(t, x) : e[i] = UpTo(t)[x][i]
    <3>1. x \in 0 .. Len(t)
      BY <2>1
    <3> QED BY <3>1, PrefixEncoded DEF e
  <2> HIDE DEF c, r
  <2>6. n \in Nat /\ n >= 1 /\ n + Len(c) - 1 <= Len(b)
    BY <1>2, <1>3, <2>3, <2>4
  <2>7. ASSUME NEW i \in 1 .. Len(c) PROVE b[n + i - 1] = c[i]
    <3>1. n + i - 1 \in 1 .. Len(b) /\ Reach(t, k) + (n + i - 1) = r + i /\ r + i \in 1 .. Reach(t, x)
      <4>1. \A first, last, next, y \in Nat, l \in {1, 2} :
              first <= y /\ next = y + l /\ next <= last =>
                \A h \in 1 .. l :
                  /\ (y - first + 1) + h - 1 \in 1 .. last - first
                  /\ first + ((y - first + 1) + h - 1) = y + h
                  /\ y + h \in 1 .. next
        OBVIOUS
      <4> DEFINE first == Reach(t, k)
                 last == Reach(t, m)
                 next == Reach(t, x)
      <4>2. /\ first \in Nat /\ last \in Nat /\ next \in Nat /\ r \in Nat /\ Len(c) \in {1, 2}
            /\ first <= r /\ next = r + Len(c) /\ next <= last /\ Len(b) = last - first
        BY <1>2, <1>3, <2>3, <2>4
      <4> HIDE DEF first, last, next
      <4>3. /\ (r - first + 1) + i - 1 \in 1 .. last - first
            /\ first + ((r - first + 1) + i - 1) = r + i
            /\ r + i \in 1 .. next
        BY <4>1, <4>2
      <4> QED BY <4>2, <4>3 DEF first, last, next
    <3>2. b[n + i - 1] = e[r + i]
      BY <1>3, <3>1
    <3>3. e[r + i] = UpTo(t)[x][r + i]
      BY <2>5, <3>1
    <3>4. UpTo(t)[x][r + i] = c[i]
      BY <2>3
    <3> QED BY <3>2, <3>3, <3>4
  <2>8. At(j) = [chars |-> SubSeq(t, k + 1, k + j), next |-> n]
    BY <2>1 DEF r
  <2> HIDE DEF n
  <2>9. ReadChar(b, At(j)) =
          [chars |-> Append(SubSeq(t, k + 1, k + j), t[x]), next |-> n + Len(c)]
    <3> HIDE DEF At
    <3>1. ReadChar(b, [chars |-> SubSeq(t, k + 1, k + j), next |-> n]) =
            [chars |-> Append(SubSeq(t, k + 1, k + j), t[x]), next |-> n + Len(Code(t[x]))]
      BY <1>3, <2>3, <2>6, <2>7, ReadsCode DEF c
    <3> QED BY <2>8, <3>1 DEF c
  <2>10. Append(SubSeq(t, k + 1, k + j), t[x]) = SubSeq(t, k + 1, k + (j + 1))
    <3>1. /\ k + 1 \in Nat /\ k + j \in Nat /\ 1 <= k + 1 /\ k + 1 <= (k + j) + 1
          /\ k + j < Len(t) /\ x = (k + j) + 1 /\ k + (j + 1) = (k + j) + 1
      BY <1>0, <2>1
    <3> QED BY <3>1, CutMore
  <2>11. n + Len(c) = Reach(t, k + (j + 1)) - Reach(t, k) + 1
    <3>1. Reach(t, x) = r + Len(c) /\ k + (j + 1) = x
      BY <2>1, <2>3
    <3>2. \A first, y \in Nat, l \in {1, 2} : (y - first + 1) + l = (y + l) - first + 1
      OBVIOUS
    <3> DEFINE first == Reach(t, k)
    <3>3. n = r - first + 1 /\ first \in Nat /\ r \in Nat /\ Len(c) \in {1, 2}
      BY <1>2, <2>3 DEF n
    <3> HIDE DEF At, first
    <3>4. \A l \in {1, 2} : l = Len(c) => n + l = (r + l) - first + 1
      BY <3>2, <3>3
    <3>5. n + Len(c) = (r + Len(c)) - first + 1
      BY <3>3, <3>4
    <3> QED BY <3>1, <3>5 DEF first
  <2>12. j + 1 \in 1 .. Len(b) /\ (j + 1) - 1 = j
    <3>1. m \in k .. m /\ Reach(t, k) + (m - k) <= Reach(t, m)
      BY <1>0, <1>1
    <3>2. \A first, last, l \in Nat : l = last - first /\ first + (m - k) <= last =>
            \A h \in Nat : h + 1 <= m - k => h + 1 \in 1 .. l /\ (h + 1) - 1 = h
      BY <1>0
    <3>3. Len(b) \in Nat /\ j + 1 <= m - k
      BY <1>2, <1>3
    <3> HIDE DEF At
    <3> QED BY <1>2, <1>3, <3>1, <3>2, <3>3
  <2>13. Reading(b)[j + 1] = ReadChar(b, Reading(b)[j])
    BY <1>3, <2>12, Decoding
  <2> QED BY <2>2, <2>9, <2>10, <2>11, <2>13
<1>6. Nat \subseteq S
  <2> HIDE DEF S
  <2> QED BY <1>4, <1>5, Induct
<1>7. Reading(b)[m - k] = [chars |-> SubSeq(t, k + 1, m), next |-> Len(b) + 1]
  <2>1. m - k \in Nat /\ m - k <= m - k /\ k + (m - k) = m
    BY <1>0
  <2>2. Reading(b)[m - k] = At(m - k)
    BY <1>6, <2>1
  <2> QED BY <1>3, <2>1, <2>2
<1> DEFINE T == {j \in Nat : m - k + j <= Len(b) => Reading(b)[m - k + j] = Reading(b)[m - k]}
<1>8. 0 \in T
  BY <1>0
<1>9. ASSUME NEW j \in Nat, j \in T PROVE j + 1 \in T
  <2> SUFFICES ASSUME m - k + (j + 1) <= Len(b)
               PROVE  Reading(b)[m - k + (j + 1)] = Reading(b)[m - k]
    OBVIOUS
  <2>1. Len(b) \in Nat
    BY <1>3
  <2>2. m - k + (j + 1) \in 1 .. Len(b) /\ (m - k + (j + 1)) - 1 = m - k + j
    BY <1>0, <2>1
  <2>3. Reading(b)[m - k + j] = Reading(b)[m - k]
    BY <1>0, <1>9, <2>1
  <2>4. Reading(b)[m - k + (j + 1)] = ReadChar(b, Reading(b)[m - k])
    BY <1>3, <2>2, <2>3, Decoding
  <2>5. Reading(b)[m - k].next > Len(b)
    BY <1>7, <2>1
  <2> QED BY <2>4, <2>5 DEF ReadChar
<1>10. Nat \subseteq T
  <2> HIDE DEF T
  <2> QED BY <1>8, <1>9, Induct
<1>11. Reading(b)[Len(b)].chars = SubSeq(t, k + 1, m)
  <2>1. m \in k .. m /\ Reach(t, k) + (m - k) <= Reach(t, m)
    BY <1>0, <1>1
  <2>2. Len(b) - (m - k) \in Nat /\ m - k + (Len(b) - (m - k)) = Len(b) /\ Len(b) \in Nat
    BY <1>0, <1>2, <1>3, <2>1
  <2>3. Len(b) - (m - k) \in T
    BY <1>10, <2>2
  <2>4. Reading(b)[Len(b)] = Reading(b)[m - k]
    BY <2>2, <2>3
  <2> QED BY <1>7, <2>4
<1>12. Decode(b) = SubSeq(t, k + 1, m)
  BY <1>3, <1>11, Decoding
<1> QED
  BY <1>12 DEF b, e

(* Two parts of a sequence that meet.                                        *)
LEMMA CutsMeet ==
  ASSUME NEW C, NEW s \in Seq(C), NEW m \in Nat, NEW n \in Nat, m <= n, n <= Len(s)
  PROVE  SubSeq(s, 1, m) \o SubSeq(s, m + 1, n) = SubSeq(s, 1, n)
<1>1. 1 \in 1 .. Len(s) + 1 /\ m \in 1 - 1 .. Len(s) /\ n \in m .. Len(s)
  OBVIOUS
<1> QED
  BY <1>1, ConcatAdjacentSubSeq

(* An encoding of the beginning of a text ends where its last character does. *)
LEMMA EndOfPrefix ==
  ASSUME NEW t \in Seq(Char), NEW k \in 0 .. Len(t), NEW p \in 0 .. Len(Encode(t)),
         SubSeq(Encode(t), 1, p) = Encode(SubSeq(t, 1, k))
  PROVE  Reach(t, k) = p
<1>1. /\ Encode(t) \in Seq(Char) /\ Reach(t, k) \in Nat /\ Reach(t, k) <= Len(Encode(t))
      /\ SubSeq(Encode(t), 1, p) = SubSeq(Encode(t), 1, Reach(t, k))
  BY PrefixEncoded
<1>2. Len(SubSeq(Encode(t), 1, p)) = p - 1 + 1
  BY <1>1, Cut
<1>3. Len(SubSeq(Encode(t), 1, Reach(t, k))) = Reach(t, k) - 1 + 1
  BY <1>1, Cut
<1> QED
  BY <1>1, <1>2, <1>3

(* A netascii block after those before: the file is the beginning of the     *)
(* text again.                                                               *)
LEMMA BlockStored ==
  ASSUME NEW t \in Seq(Char), Plain(t), NEW size \in Nat, CutBetween(Encode(t), size),
         NEW p \in 0 .. Len(Encode(t)), NEW q \in p .. Len(Encode(t)),
         q = Len(Encode(t)) \/ q % size = 0,
         NEW k \in 0 .. Len(t), SubSeq(Encode(t), 1, p) = Encode(SubSeq(t, 1, k))
  PROVE  \E m \in 0 .. Len(t) :
           /\ SubSeq(Encode(t), 1, q) = Encode(SubSeq(t, 1, m))
           /\ SubSeq(t, 1, k) \o Decode(SubSeq(Encode(t), p + 1, q)) = SubSeq(t, 1, m)
<1>0. /\ Encode(t) \in Seq(Char) /\ Len(Encode(t)) \in Nat /\ q \in 0 .. Len(Encode(t))
      /\ p <= q /\ Len(t) \in Nat
  BY PrefixEncoded
<1>1. Reach(t, k) = p
  BY EndOfPrefix
<1>2. q = 0 \/ q = Len(Encode(t)) \/ Encode(t)[q] # "cr"
  BY <1>0 DEF CutBetween
<1>3. PICK m \in 0 .. Len(t) : Reach(t, m) = q
  BY <1>0, <1>2, Boundaries
<1>4. k <= m
  <2> SUFFICES ASSUME m < k PROVE FALSE
    BY <1>0
  <2>1. k \in m .. Len(t)
    BY <1>0
  <2>2. Reach(t, m) + (k - m) <= Reach(t, k)
    BY <2>1, Persists
  <2> QED BY <1>0, <1>1, <1>3, <2>2
<1>5. m \in k .. Len(t)
  BY <1>0, <1>4
<1>6. Decode(SubSeq(Encode(t), p + 1, q)) = SubSeq(t, k + 1, m)
  BY <1>1, <1>3, <1>5, BlockDecoded
<1>7. SubSeq(t, 1, k) \o SubSeq(t, k + 1, m) = SubSeq(t, 1, m)
  BY <1>0, <1>4, CutsMeet
<1>8. SubSeq(Encode(t), 1, q) = Encode(SubSeq(t, 1, m))
  BY <1>3, PrefixEncoded
<1> QED
  BY <1>6, <1>7, <1>8

(* When the whole encoding has been stored, the whole text has.              *)
LEMMA WholeText ==
  ASSUME NEW t \in Seq(Char), NEW k \in 0 .. Len(t),
         SubSeq(Encode(t), 1, Len(Encode(t))) = Encode(SubSeq(t, 1, k))
  PROVE  SubSeq(t, 1, k) = t
<1>1. /\ Encode(t) \in Seq(Char) /\ Len(Encode(t)) = Reach(t, Len(t))
      /\ Len(t) \in Nat /\ Len(Encode(t)) \in 0 .. Len(Encode(t))
  BY PrefixEncoded
<1>2. Reach(t, k) = Reach(t, Len(t))
  BY <1>1, EndOfPrefix
<1>3. k = Len(t)
  <2>1. Len(t) \in k .. Len(t)
    BY <1>1
  <2>2. Reach(t, k) + (Len(t) - k) <= Reach(t, Len(t)) /\ Reach(t, k) \in Nat
    BY <2>1, Persists
  <2> QED BY <1>1, <1>2, <2>2
<1> DEFINE u == SubSeq(t, 1, Len(t))
<1>4. u \in Seq(Char) /\ Len(u) = Len(t) - 1 + 1 /\ \A i \in 1 .. Len(t) - 1 + 1 : u[i] = t[1 + i - 1]
  BY <1>1, Cut
<1>5. Len(t) - 1 + 1 = Len(t) /\ \A i \in Int : 1 + i - 1 = i
  BY <1>1
<1> HIDE DEF u
<1>6. u = t
  BY <1>4, <1>5, SeqEqual
<1> QED
  BY <1>3, <1>6 DEF u

-----------------------------------------------------------------------------
(* The loop over the options. *)

(* What std::stoull returns is a number of 64 bits, if it returns one, and the *)
(* text of such a number is read as that number.                               *)
LEMMA StoullReads ==
  /\ \A f : f.num \in Int \cup {NaN} => Stoull(f) \in Nat \cup {NaN}
  /\ \A v \in 0 .. Word - 1 : Stoull(Number(v)) = v
<1>0. Word \in Nat /\ NaN \notin Int /\ None \notin Int
  BY WidthAssumption, NotNumbers
<1>1. ASSUME NEW f, f.num \in Int \cup {NaN} PROVE Stoull(f) \in Nat \cup {NaN}
  <2> DEFINE n == f.num
  <2>1. CASE n = NaN \/ n \notin 1 - Word .. Word - 1
    BY <2>1 DEF Stoull
  <2>2. CASE ~(n = NaN \/ n \notin 1 - Word .. Word - 1)
    <3>1. n \in Int /\ Word > 0
      BY <1>0, <1>1, <2>2
    <3>2. n % Word \in Nat
      BY <1>0, <3>1
    <3> QED BY <2>2, <3>2 DEF Stoull
  <2> QED BY <2>1, <2>2
<1>2. ASSUME NEW v \in 0 .. Word - 1 PROVE Stoull(Number(v)) = v
  <2>1. Number(v).num = v
    BY DEF Number
  <2>2. v \in Nat /\ v # NaN /\ v \in 1 - Word .. Word - 1 /\ v % Word = v
    BY <1>0
  <2> QED BY <2>1, <2>2 DEF Stoull
<1> QED
  BY <1>0, <1>1, <1>2

(* The pair of fields at i asks for value v of option o, and v is one that    *)
(* may be taken.                                                              *)
Gives(d, i, o, v) ==
  /\ Complete(d, i) /\ Complete(d, i + 1)
  /\ Lower(d.fields[i]) = o /\ o \in OptionName
  /\ Stoull(d.fields[i + 1]) = v /\ v # NaN
  /\ ~(d.op = "RRQ" /\ o = "tsize" /\ v # 0)

(* A turn of the loop adds what the pair gives, and nothing else.             *)
LEMMA OneTurn ==
  ASSUME NEW d, HasFields(d), NEW i \in Nat, NEW opts \in Options \cup {None}
  PROVE  /\ TakenPair(d, i, opts) \in Options \cup {None}
         /\ TakenPair(d, i, opts) # None =>
              /\ opts \in Options
              /\ \A o \in OptionName :
                   \/ TakenPair(d, i, opts)[o] = opts[o]
                   \/ ~Has(opts, o) /\ Gives(d, i, o, TakenPair(d, i, opts)[o])
              /\ \A o, v : Gives(d, i, o, v) =>
                   ~Has(opts, o) /\ TakenPair(d, i, opts)[o] = v /\ v \in Nat
<1> DEFINE r == TakenPair(d, i, opts)
           name == Lower(d.fields[i])
           v == Stoull(d.fields[i + 1])
<1>1. CASE opts = None \/ ~Complete(d, i) \/ ~Complete(d, i + 1)
  <2>1. r = None
    BY <1>1 DEF TakenPair
  <2> QED BY <2>1
<1>2. CASE opts # None /\ Complete(d, i) /\ Complete(d, i + 1)
  <2>1. opts \in Options
    BY <1>2
  <2>2. v \in Nat \cup {NaN}
    <3>1. i + 1 \in DOMAIN d.fields
      BY <1>2 DEF Complete, HasFields
    <3>2. d.fields[i + 1].num \in Int \cup {NaN}
      BY <3>1 DEF HasFields
    <3> QED BY <3>2, StoullReads
  <2> HIDE DEF v, name
  <2>3. r = IF name \in OptionName /\ Has(opts, name) THEN None ELSE Taken(d.op, opts, name, v)
    BY <1>2 DEF TakenPair, name, v
  <2>4. \A o, w : Gives(d, i, o, w) <=>
          o = name /\ o \in OptionName /\ w = v /\ v # NaN /\ ~(d.op = "RRQ" /\ o = "tsize" /\ v # 0)
    BY <1>2 DEF Gives, name, v
  <2> HIDE DEF r
  <2>5. CASE name \in OptionName /\ Has(opts, name)
    BY <2>3, <2>5 DEF r
  <2>6. CASE name \notin OptionName
    <3>1. r = opts
      BY <2>3, <2>6 DEF Taken
    <3>2. \A o, w : ~Gives(d, i, o, w)
      BY <2>4, <2>6
    <3> QED BY <2>1, <3>1, <3>2 DEF r
  <2>7. CASE name \in OptionName /\ ~Has(opts, name)
    <3>1. CASE v = NaN
      <4>1. r = None \/ r = opts
        BY <2>3, <2>7, <3>1 DEF Taken
      <4>2. \A o, w : ~Gives(d, i, o, w)
        BY <2>4, <3>1
      <4> QED BY <2>1, <4>1, <4>2 DEF r
    <3>2. CASE v # NaN /\ d.op = "RRQ" /\ name = "tsize" /\ v # 0
      <4>1. r = opts
        BY <2>3, <2>7, <3>2 DEF Taken
      <4>2. \A o, w : ~Gives(d, i, o, w)
        BY <2>4, <3>2
      <4> QED BY <2>1, <4>1, <4>2 DEF r
    <3>3. CASE v # NaN /\ ~(d.op = "RRQ" /\ name = "tsize" /\ v # 0)
      <4>1. r = [opts EXCEPT ![name] = v]
        BY <2>3, <2>7, <3>3 DEF Taken
      <4>2. v \in Nat
        BY <2>2, <3>3
      <4>3. r \in Options /\ r[name] = v /\ \A o \in OptionName : o # name => r[o] = opts[o]
        BY <2>1, <2>7, <4>1, <4>2 DEF Options
      <4>4. Gives(d, i, name, v)
        BY <2>4, <2>7, <3>3
      <4>5. \A o, w : Gives(d, i, o, w) => o = name /\ w = v
        BY <2>4
      <4> QED BY <2>1, <2>7, <4>2, <4>3, <4>4, <4>5 DEF r
    <3> QED BY <3>1, <3>2, <3>3
  <2> QED BY <2>5, <2>6, <2>7
<1> QED
  BY <1>1, <1>2

(* The options after each turn of the loop.                                   *)
Parsing(d, first) ==
  CHOOSE f : f = [k \in 0 .. Turns(d, first) |->
                    IF k = 0 THEN NoOptions ELSE TakenPair(d, first + 2 * (k - 1), f[k - 1])]

(* Every turn goes on from the one before.                                    *)
LEMMA ParsingTurns ==
  ASSUME NEW d, HasFields(d), NEW first \in Nat, Len(d.fields) - first + 2 \in Nat
  PROVE  /\ Turns(d, first) \in Nat
         /\ Parsing(d, first) \in [0 .. Turns(d, first) -> Options \cup {None}]
         /\ Parsing(d, first)[0] = NoOptions
         /\ \A k \in 1 .. Turns(d, first) :
              /\ k - 1 \in 0 .. Turns(d, first) /\ first + 2 * (k - 1) \in Nat
              /\ Parsing(d, first)[k] = TakenPair(d, first + 2 * (k - 1), Parsing(d, first)[k - 1])
         /\ ParsedOptions(d, first) = Parsing(d, first)[Turns(d, first)]
<1> DEFINE N == Turns(d, first)
           X == Options \cup {None}
           at(k) == first + 2 * (k - 1)
           P(f) == f = [k \in 0 .. N |-> IF k = 0 THEN NoOptions ELSE TakenPair(d, at(k), f[k - 1])]
           g == Parsing(d, first)
<1>1. N \in Nat /\ \A k \in 1 .. N : k - 1 \in 0 .. N /\ k \in Nat /\ at(k) \in Nat
  <2>1. \A n \in Nat : n \div 2 \in Nat
    OBVIOUS
  <2>2. N \in Nat
    BY <2>1 DEF Turns
  <2> HIDE DEF N
  <2> QED BY <2>2
<1>2. NoOptions \in X
  BY DEF NoOptions, Options
<1>3. \A i \in Nat, x \in X : TakenPair(d, i, x) \in X
  BY OneTurn
<1> HIDE DEF N, X
<1>4. \E f \in [0 .. N -> X] : P(f)
  <2> DEFINE step(k, x) == IF k \in 1 .. N THEN TakenPair(d, at(k), x) ELSE x
             G == [k \in Nat |-> [x \in X |-> step(k, x)]]
  <2>1. G \in [Nat -> [X -> X]]
    <3>1. \A k \in Nat, x \in X : step(k, x) \in X
      BY <1>1, <1>3
    <3> HIDE DEF step
    <3> QED BY <3>1
  <2>2. PICK f \in [0 .. N -> X] : Iterates(f, NoOptions, G, N)
    <3> HIDE DEF G
    <3> QED BY <1>1, <1>2, <2>1, Recursion
  <2>3. f[0] = NoOptions
    BY <2>2 DEF Iterates
  <2>4. ASSUME NEW k \in 1 .. N PROVE f[k] = TakenPair(d, at(k), f[k - 1])
    <3>1. k \in Nat /\ f[k - 1] \in X
      BY <1>1, <2>2
    <3>2. f[k] = G[k][f[k - 1]]
      BY <2>2 DEF Iterates
    <3>3. G[k][f[k - 1]] = step(k, f[k - 1])
      <4> HIDE DEF step
      <4> QED BY <3>1
    <3> HIDE DEF G
    <3> QED BY <3>2, <3>3
  <2>5. P(f)
    <3> HIDE DEF at
    <3>1. \A k \in 0 .. N : k = 0 \/ k \in 1 .. N
      BY <1>1
    <3>2. \A k \in 0 .. N : f[k] = IF k = 0 THEN NoOptions ELSE TakenPair(d, at(k), f[k - 1])
      BY <2>3, <2>4, <3>1
    <3>3. f = [k \in 0 .. N |-> f[k]]
      BY <2>2
    <3> QED BY <3>2, <3>3
  <2> HIDE DEF P
  <2> QED BY <2>5
<1>5. g = CHOOSE f : P(f)
  BY DEF Parsing, N
<1>6. P(g)
  <2> HIDE DEF P, g
  <2> QED BY <1>4, <1>5
<1> HIDE DEF at
<1>7. \A k \in 0 .. N : g[k] = IF k = 0 THEN NoOptions ELSE TakenPair(d, at(k), g[k - 1])
  BY <1>6
<1>8. 0 \in 0 .. N /\ \A k \in 1 .. N : k \in 0 .. N /\ k # 0
  BY <1>1
<1>9. ParsedOptions(d, first) = g[N]
  BY DEF ParsedOptions, Parsing, N
<1>10. DOMAIN g = 0 .. N /\ g = [k \in 0 .. N |-> g[k]]
  BY <1>6
<1> HIDE DEF P, g
<1>11. g[0] = NoOptions /\ \A k \in 1 .. N : g[k] = TakenPair(d, at(k), g[k - 1])
  BY <1>7, <1>8
<1>12. \A k \in 0 .. N : g[k] \in X
  <2> DEFINE S == {k \in Nat : k <= N => g[k] \in X}
  <2>1. 0 \in S
    BY <1>2, <1>11
  <2>2. ASSUME NEW k \in Nat, k \in S PROVE k + 1 \in S
    <3> SUFFICES ASSUME k + 1 <= N PROVE g[k + 1] \in X
      OBVIOUS
    <3>1. k + 1 \in 1 .. N /\ (k + 1) - 1 = k /\ g[k] \in X
      BY <1>1, <2>2
    <3> QED BY <1>1, <1>3, <1>11, <3>1
  <2> HIDE DEF S
  <2>3. Nat \subseteq S
    BY <2>1, <2>2, Induct
  <2> QED BY <1>1, <2>3 DEF S
<1>13. g \in [0 .. N -> X]
  BY <1>10, <1>12
<1> QED
  BY <1>1, <1>9, <1>11, <1>13 DEF g, N, X, at
(* The options are exactly what the pairs so far have given.                  *)
LEMMA Parsed ==
  ASSUME NEW d, HasFields(d), NEW first \in Nat, Len(d.fields) - first + 2 \in Nat,
         NEW n \in 0 .. Turns(d, first), Parsing(d, first)[n] # None
  PROVE  /\ Parsing(d, first)[n] \in Options
         /\ \A o \in OptionName : Has(Parsing(d, first)[n], o) =>
              \E k \in 1 .. n : Gives(d, first + 2 * (k - 1), o, Parsing(d, first)[n][o])
         /\ \A o, v : \A k \in 1 .. n :
              Gives(d, first + 2 * (k - 1), o, v) => Parsing(d, first)[n][o] = v /\ v \in Nat
<1> DEFINE g == Parsing(d, first)
           N == Turns(d, first)
           at(k) == first + 2 * (k - 1)
           From(m) == \A o \in OptionName : Has(g[m], o) =>
                        \E k \in 1 .. m : Gives(d, at(k), o, g[m][o])
           Kept(m) == \A o, v : \A k \in 1 .. m :
                        Gives(d, at(k), o, v) => g[m][o] = v /\ v \in Nat
           S == {m \in Nat : m <= N /\ g[m] # None => g[m] \in Options /\ From(m) /\ Kept(m)}
<1>1. /\ N \in Nat /\ g[0] = NoOptions
      /\ \A m \in 0 .. N : g[m] \in Options \cup {None}
      /\ \A k \in 1 .. N : k - 1 \in 0 .. N /\ at(k) \in Nat /\ g[k] = TakenPair(d, at(k), g[k - 1])
  BY ParsingTurns
<1> HIDE DEF g, N, at
<1>2. 0 \in S
  <2>1. g[0] \in Options /\ \A o \in OptionName : ~Has(g[0], o)
    BY <1>1 DEF NoOptions, Options, Has
  <2>2. From(0)
    BY <2>1
  <2>3. Kept(0)
    OBVIOUS
  <2> HIDE DEF From, Kept
  <2> QED BY <2>1, <2>2, <2>3
<1>3. ASSUME NEW m \in Nat, m \in S PROVE m + 1 \in S
  <2> SUFFICES ASSUME m + 1 <= N, g[m + 1] # None
               PROVE  g[m + 1] \in Options /\ From(m + 1) /\ Kept(m + 1)
    OBVIOUS
  <2> DEFINE i == at(m + 1)
             r == g[m + 1]
             opts == g[m]
  <2>1. m + 1 \in 1 .. N /\ (m + 1) - 1 = m /\ m \in 0 .. N /\ m <= N
    BY <1>1
  <2>2. i \in Nat /\ r = TakenPair(d, i, opts) /\ opts \in Options \cup {None}
    BY <1>1, <2>1
  <2> HIDE DEF i
  <2>3. /\ opts \in Options /\ r \in Options
        /\ \A o \in OptionName : r[o] = opts[o] \/ (~Has(opts, o) /\ Gives(d, i, o, r[o]))
        /\ \A o, v : Gives(d, i, o, v) => ~Has(opts, o) /\ r[o] = v /\ v \in Nat
    <3> HIDE DEF r, opts
    <3>1. PICK taken : taken = TakenPair(d, i, opts)
      OBVIOUS
    <3>2. r # None /\ r = taken
      BY <2>2, <3>1 DEF r
    <3>3. /\ taken \in Options \cup {None}
          /\ taken # None =>
               /\ opts \in Options
               /\ \A o \in OptionName :
                    taken[o] = opts[o] \/ (~Has(opts, o) /\ Gives(d, i, o, taken[o]))
               /\ \A o, v : Gives(d, i, o, v) => ~Has(opts, o) /\ taken[o] = v /\ v \in Nat
      BY <2>2, <3>1, OneTurn
    <3> QED BY <3>2, <3>3
  <2>4. From(m) /\ Kept(m)
    <3> HIDE DEF From, Kept
    <3>1. g[m] # None
      BY <2>3, NotOptions
    <3> QED BY <1>3, <2>1, <3>1
  <2>5. From(m + 1)
    <3> SUFFICES ASSUME NEW o \in OptionName, Has(r, o)
                 PROVE  \E k \in 1 .. m + 1 : Gives(d, at(k), o, r[o])
      OBVIOUS
    <3>1. CASE r[o] = opts[o]
      <4>1. Has(opts, o)
        BY <3>1 DEF Has
      <4>2. PICK k \in 1 .. m : Gives(d, at(k), o, opts[o])
        BY <2>4, <4>1
      <4>3. k \in 1 .. m + 1
        OBVIOUS
      <4> HIDE DEF r, opts
      <4> QED BY <3>1, <4>2, <4>3
    <3>2. CASE Gives(d, i, o, r[o])
      <4>1. m + 1 \in 1 .. m + 1
        OBVIOUS
      <4> QED BY <3>2, <4>1 DEF i
    <3> QED BY <2>3, <3>1, <3>2
  <2>6. Kept(m + 1)
    <3> SUFFICES ASSUME NEW o, NEW v, NEW k \in 1 .. m + 1, Gives(d, at(k), o, v)
                 PROVE  r[o] = v /\ v \in Nat
      OBVIOUS
    <3>1. CASE k = m + 1
      <4>1. Gives(d, i, o, v)
        BY <3>1 DEF i
      <4> QED BY <2>3, <4>1
    <3>2. CASE k # m + 1
      <4>1. k \in 1 .. m
        BY <3>2
      <4>2. opts[o] = v /\ v \in Nat
        BY <2>4, <4>1
      <4>3. Has(opts, o) /\ o \in OptionName
        BY <4>2, NotNumbers DEF Has, Gives
      <4>4. \A w : ~Gives(d, i, o, w)
        BY <2>3, <4>3
      <4>5. r[o] = opts[o]
        BY <2>3, <4>3, <4>4
      <4> QED BY <4>2, <4>5
    <3> QED BY <3>1, <3>2
  <2> HIDE DEF From, Kept
  <2> QED BY <2>3, <2>5, <2>6
<1>4. Nat \subseteq S
  <2> HIDE DEF S
  <2> QED BY <1>2, <1>3, Induct
<1>5. g[n] \in Options /\ From(n) /\ Kept(n)
  <2> HIDE DEF From, Kept
  <2>1. n \in Nat /\ n <= N /\ g[n] # None
    BY <1>1 DEF g, N
  <2> QED BY <1>4, <2>1
<1> QED
  BY <1>5 DEF g, at

(* A request whose fields are all complete, in pairs, and that names no       *)
(* option twice is not refused.                                               *)
LEMMA NotRefused ==
  ASSUME NEW d, HasFields(d), NEW first \in Nat, Len(d.fields) - first + 2 \in Nat,
         d.op # "OACK", first >= 1,
         \A i \in first .. Len(d.fields) : Complete(d, i),
         2 * Turns(d, first) = Len(d.fields) - first + 1,
         \A o \in OptionName : \A j, k \in 1 .. Turns(d, first) :
           /\ Lower(d.fields[first + 2 * (j - 1)]) = o
           /\ Lower(d.fields[first + 2 * (k - 1)]) = o
           => j = k
  PROVE  ParsedOptions(d, first) # None
<1> DEFINE g == Parsing(d, first)
           N == Turns(d, first)
           at(k) == first + 2 * (k - 1)
           S == {m \in Nat : m <= N => g[m] # None}
<1>1. /\ N \in Nat /\ g[0] = NoOptions /\ ParsedOptions(d, first) = g[N]
      /\ \A m \in 0 .. N : g[m] \in Options \cup {None}
      /\ \A k \in 1 .. N : k - 1 \in 0 .. N /\ at(k) \in Nat /\ g[k] = TakenPair(d, at(k), g[k - 1])
  BY ParsingTurns
<1>2. 0 \in S
  <2>1. NoOptions \in Options
    BY DEF NoOptions, Options
  <2> QED BY <1>1, <2>1, NotOptions
<1>3. ASSUME NEW m \in Nat, m \in S PROVE m + 1 \in S
  <2> SUFFICES ASSUME m + 1 <= N PROVE g[m + 1] # None
    OBVIOUS
  <2> DEFINE i == at(m + 1)
             name == Lower(d.fields[i])
             opts == g[m]
  <2>1. m + 1 \in 1 .. N /\ (m + 1) - 1 = m /\ m \in 0 .. N /\ m <= N
    <3> HIDE DEF N
    <3> QED BY <1>1
  <2>2. g[m + 1] = TakenPair(d, i, opts) /\ opts # None /\ opts \in Options
    <3> HIDE DEF g, N, at
    <3> QED BY <1>1, <1>3, <2>1
  <2>3. Complete(d, i) /\ Complete(d, i + 1)
    <3>1. i \in first .. Len(d.fields) /\ i + 1 \in first .. Len(d.fields)
      <4>1. \A l, f, t \in Int : m + 1 <= t /\ 2 * t = l - f + 1 =>
              f + 2 * ((m + 1) - 1) \in f .. l /\ f + 2 * ((m + 1) - 1) + 1 \in f .. l
        OBVIOUS
      <4>2. Len(d.fields) \in Int
        BY DEF HasFields
      <4> HIDE DEF g
      <4> QED BY <1>1, <4>1, <4>2
    <3> QED BY <3>1
  <2>4. ~(name \in OptionName /\ Has(opts, name))
    <3> SUFFICES ASSUME name \in OptionName, Has(opts, name) PROVE FALSE
      OBVIOUS
    <3>1. PICK k \in 1 .. m : Gives(d, at(k), name, opts[name])
      <4> HIDE DEF name
      <4> QED BY <2>1, <2>2, Parsed
    <3>2. k \in 1 .. N /\ Lower(d.fields[at(k)]) = name /\ k # m + 1
      <4>1. k \in 1 .. N /\ k # m + 1
        <5> HIDE DEF N
        <5> QED BY <1>1, <2>1
      <4> QED BY <3>1, <4>1 DEF Gives
    <3>3. m + 1 \in 1 .. N /\ Lower(d.fields[at(m + 1)]) = name
      BY <2>1
    <3> HIDE DEF name
    <3> QED BY <3>2, <3>3
  <2> DEFINE v == Stoull(d.fields[i + 1])
  <2>5. TakenPair(d, i, opts) = Taken(d.op, opts, name, v)
    BY <2>2, <2>3, <2>4 DEF TakenPair
  <2> HIDE DEF name, v, opts
  <2>6. \/ Taken(d.op, opts, name, v) = opts
        \/ /\ v # NaN /\ name \in OptionName
           /\ Taken(d.op, opts, name, v) = [opts EXCEPT ![name] = v]
    BY DEF Taken
  <2>7. v # NaN => [opts EXCEPT ![name] = v] # None
    <3>1. v \in Nat \cup {NaN}
      <4>1. i + 1 \in DOMAIN d.fields
        BY <2>3 DEF Complete, HasFields
      <4>2. d.fields[i + 1].num \in Int \cup {NaN}
        BY <4>1 DEF HasFields
      <4> QED BY <4>2, StoullReads DEF v
    <3>2. v # NaN => [opts EXCEPT ![name] = v] \in Options
      BY <2>2, <3>1 DEF Options
    <3> QED BY <3>2, NotOptions
  <2> QED BY <2>2, <2>5, <2>6, <2>7
<1>4. Nat \subseteq S
  <2> HIDE DEF S
  <2> QED BY <1>2, <1>3, Induct
<1> QED
  BY <1>1, <1>4

-----------------------------------------------------------------------------
(* The options in an OACK. *)

Odd(i) == i % 2 = 1

(* s is a sequence of pairs of fields, one pair for each of the names in O.   *)
Lists(s, opts, O) ==
  /\ Len(s) \in Nat /\ Len(s) % 2 = 0 /\ DOMAIN s = 1 .. Len(s)
  /\ \A i \in 1 .. Len(s) : Odd(i) =>
       \E o \in O : i + 1 <= Len(s) /\ s[i] = Text(o) /\ s[i + 1] = Number(opts[o])
  /\ \A o \in O : \E i \in 1 .. Len(s) :
       Odd(i) /\ i + 1 <= Len(s) /\ s[i] = Text(o) /\ s[i + 1] = Number(opts[o])

(* One more option is one more pair.                                          *)
LEMMA OneMorePair ==
  ASSUME NEW F, NEW opts, NEW O, NEW s \in Seq(F), Lists(s, opts, O),
         NEW o, Has(opts, o) => Text(o) \in F /\ Number(opts[o]) \in F
  PROVE  /\ s \o Pair(opts, o) \in Seq(F)
         /\ Lists(s \o Pair(opts, o), opts, IF Has(opts, o) THEN O \cup {o} ELSE O)
<1>1. CASE ~Has(opts, o)
  <2>1. Pair(opts, o) = <<>> /\ s \o <<>> = s
    BY <1>1, ConcatEmptySeq DEF Pair
  <2> QED BY <1>1, <2>1
<1>2. CASE Has(opts, o)
  <2> DEFINE x == Text(o)
             y == Number(opts[o])
             p == <<x, y>>
             t == s \o p
             l == Len(s)
             U == O \cup {o}
  <2>1. Pair(opts, o) = p
    BY <1>2 DEF Pair
  <2>2. l \in Nat /\ l % 2 = 0
    BY DEF Lists
  <2>3. p \in Seq(F) /\ Len(p) = 2 /\ p[1] = x /\ p[2] = y
    <3> HIDE DEF x, y
    <3>1. x \in F /\ y \in F
      BY <1>2 DEF x, y
    <3> QED BY <3>1
  <2>4. /\ t \in Seq(F) /\ Len(t) = l + 2
        /\ \A i \in 1 .. l + 2 : t[i] = IF i <= l THEN s[i] ELSE p[i - l]
    <3> HIDE DEF p
    <3>1. /\ t \in Seq(F) /\ Len(t) = Len(s) + Len(p)
          /\ \A i \in 1 .. Len(s) + Len(p) : t[i] = IF i <= Len(s) THEN s[i] ELSE p[i - Len(s)]
      BY <2>3, ConcatProperties
    <3> HIDE DEF t
    <3> QED BY <2>3, <3>1
  <2> HIDE DEF p, t, x, y
  <2>5. t[l + 1] = x /\ t[l + 2] = y /\ DOMAIN t = 1 .. Len(t)
    <3>1. l + 1 \in 1 .. l + 2 /\ l + 2 \in 1 .. l + 2 /\ ~(l + 1 <= l) /\ ~(l + 2 <= l)
          /\ (l + 1) - l = 1 /\ (l + 2) - l = 2
      BY <2>2
    <3> QED BY <2>3, <2>4, <3>1
  <2>6. \A i \in 1 .. l : t[i] = s[i] /\ (i + 1 <= l => t[i + 1] = s[i + 1])
    <3> HIDE DEF l
    <3> QED BY <2>2, <2>4
  <2> HIDE DEF l
  <2>7. ASSUME NEW i \in 1 .. Len(t), Odd(i)
        PROVE  \E q \in U : i + 1 <= Len(t) /\ t[i] = Text(q) /\ t[i + 1] = Number(opts[q])
    <3>1. i \in 1 .. l \/ i = l + 1
      <4>1. (l + 2) % 2 = 0
        BY <2>2
      <4> QED BY <2>2, <2>4, <2>7, <4>1 DEF Odd
    <3>2. CASE i \in 1 .. l
      <4>1. PICK q \in O : i + 1 <= l /\ s[i] = Text(q) /\ s[i + 1] = Number(opts[q])
        BY <2>7, <3>2 DEF Lists, l
      <4>2. i + 1 <= Len(t)
        BY <2>2, <2>4, <4>1
      <4> QED BY <2>6, <3>2, <4>1, <4>2
    <3>3. CASE i = l + 1
      <4>1. i + 1 = l + 2 /\ i + 1 <= Len(t)
        BY <2>2, <2>4, <3>3
      <4> QED BY <2>5, <3>3, <4>1 DEF x, y
    <3> QED BY <3>1, <3>2, <3>3
  <2>8. ASSUME NEW q \in U
        PROVE  \E i \in 1 .. Len(t) :
                 Odd(i) /\ i + 1 <= Len(t) /\ t[i] = Text(q) /\ t[i + 1] = Number(opts[q])
    <3>1. CASE q \in O
      <4>1. PICK i \in 1 .. l : Odd(i) /\ i + 1 <= l /\ s[i] = Text(q) /\ s[i + 1] = Number(opts[q])
        BY <3>1 DEF Lists, l
      <4>2. i \in 1 .. Len(t) /\ i + 1 <= Len(t)
        BY <2>2, <2>4
      <4> QED BY <2>6, <4>1, <4>2
    <3>2. CASE q = o
      <4>1. l + 1 \in 1 .. Len(t) /\ (l + 1) + 1 <= Len(t) /\ (l + 1) + 1 = l + 2
        BY <2>2, <2>4
      <4>2. (l + 1) % 2 = 1
        BY <2>2
      <4> QED BY <2>5, <3>2, <4>1, <4>2 DEF x, y, Odd
    <3> QED BY <3>1, <3>2
  <2>9. Len(t) \in Nat /\ Len(t) % 2 = 0
    BY <2>2, <2>4
  <2>10. Lists(t, opts, U)
    BY <2>5, <2>7, <2>8, <2>9 DEF Lists
  <2> QED BY <1>2, <2>1, <2>4, <2>10 DEF t
<1> QED
  BY <1>1, <1>2

Present(opts) == {o \in OptionName : Has(opts, o)}
OptionField(opts) ==
  [word : {"blksize", "timeout", "tsize", "number"}, caps : {FALSE},
   num : {NaN} \cup {opts[o] : o \in Present(opts)}]

(* The options of a packet are the pairs of the options there are.            *)
LEMMA FieldsOfOptions ==
  ASSUME NEW opts
  PROVE  /\ OptionFields(opts) \in Seq(OptionField(opts))
         /\ Lists(OptionFields(opts), opts, Present(opts))
<1> DEFINE F == OptionField(opts)
           With(O, o) == IF Has(opts, o) THEN O \cup {o} ELSE O
           A1 == With({}, "blksize")
           A2 == With(A1, "timeout")
           A3 == With(A2, "tsize")
           s1 == <<>> \o Pair(opts, "blksize")
           s2 == s1 \o Pair(opts, "timeout")
           s3 == s2 \o Pair(opts, "tsize")
<1>1. \A o \in {"blksize", "timeout", "tsize"} :
        Has(opts, o) => Text(o) \in F /\ Number(opts[o]) \in F
  BY DEF Text, Number, OptionName, OptionField, Present
<1> HIDE DEF F
<1>2. <<>> \in Seq(F) /\ Lists(<<>>, opts, {})
  BY DEF Lists
<1>3. s1 \in Seq(F) /\ Lists(s1, opts, A1)
  BY <1>1, <1>2, OneMorePair
<1> HIDE DEF s1, A1
<1>4. s2 \in Seq(F) /\ Lists(s2, opts, A2)
  BY <1>1, <1>3, OneMorePair
<1> HIDE DEF s2, A2
<1>5. s3 \in Seq(F) /\ Lists(s3, opts, A3)
  BY <1>1, <1>4, OneMorePair
<1>6. A3 = Present(opts)
  BY DEF A1, A2, OptionName, Present
<1>7. s1 = Pair(opts, "blksize")
  <2>1. Pair(opts, "blksize") \in Seq(F)
    <3>1. \A x, y \in F : <<x, y>> \in Seq(F)
      OBVIOUS
    <3>2. <<>> \in Seq(F)
      OBVIOUS
    <3> QED BY <1>1, <3>1, <3>2 DEF Pair
  <2> QED BY <2>1, ConcatEmptySeq DEF s1
<1>8. s3 = OptionFields(opts)
  BY <1>7 DEF OptionFields, s2
<1> QED
  BY <1>5, <1>6, <1>8 DEF F

(* An OACK is a packet with fields, its options stand at the odd ones, and    *)
(* the field behind the name of an option reads as its value.                 *)
LEMMA OackFields ==
  ASSUME NEW opts \in Options
  PROVE  LET d == OackBytes(opts)
         IN /\ HasFields(d) /\ ~d.open /\ d.op = "OACK" /\ Len(d.fields) % 2 = 0
            /\ \A i \in 1 .. Len(d.fields) :
                 /\ d.fields[i].word # ""
                 /\ d.fields[i].word \in OptionName =>
                      /\ Odd(i) /\ i + 1 <= Len(d.fields)
                      /\ Has(opts, d.fields[i].word)
                      /\ d.fields[i + 1] = Number(opts[d.fields[i].word])
            /\ \A o \in OptionName : Has(opts, o) =>
                 \E i \in 1 .. Len(d.fields) :
                   /\ Odd(i) /\ i + 1 <= Len(d.fields)
                   /\ d.fields[i] = Text(o) /\ d.fields[i + 1] = Number(opts[o])
<1> DEFINE d == OackBytes(opts)
           s == OptionFields(opts)
<1>1. d.fields = s /\ d.op = "OACK" /\ d.open = FALSE
  BY DEF OackBytes
<1>2. s \in Seq(OptionField(opts)) /\ Lists(s, opts, Present(opts))
  BY FieldsOfOptions
<1> HIDE DEF d, s
<1>3. Len(s) \in Nat /\ DOMAIN s = 1 .. Len(s) /\ Len(s) % 2 = 0
  BY <1>2 DEF Lists
<1>4. \A i \in 1 .. Len(s) : s[i] \in OptionField(opts)
  BY <1>2, <1>3
<1>5. HasFields(d)
  <2>1. \A o \in Present(opts) : opts[o] \in Int
    BY DEF Present, Options, Has
  <2>2. \A i \in 1 .. Len(s) : s[i].num \in Int \cup {NaN}
    BY <1>4, <2>1 DEF OptionField
  <2> QED BY <1>1, <1>3, <2>2 DEF HasFields
<1>6. ASSUME NEW i \in 1 .. Len(s) PROVE s[i].word # ""
  BY <1>4 DEF OptionField
<1>7. ASSUME NEW i \in 1 .. Len(s), s[i].word \in OptionName
      PROVE  /\ Odd(i) /\ i + 1 <= Len(s) /\ Has(opts, s[i].word)
             /\ s[i + 1] = Number(opts[s[i].word])
  <2>1. CASE Odd(i)
    <3>1. PICK o \in Present(opts) : i + 1 <= Len(s) /\ s[i] = Text(o) /\ s[i + 1] = Number(opts[o])
      BY <1>2, <2>1 DEF Lists
    <3>2. s[i].word = o
      BY <3>1 DEF Text
    <3> QED BY <2>1, <3>1, <3>2 DEF Present
  <2>2. CASE ~Odd(i)
    <3>1. i - 1 \in 1 .. Len(s) /\ Odd(i - 1) /\ (i - 1) + 1 = i
      BY <1>3, <2>2 DEF Odd
    <3>2. PICK o \in Present(opts) : s[i] = Number(opts[o])
      BY <1>2, <3>1 DEF Lists
    <3>3. s[i].word = "number"
      BY <3>2 DEF Number
    <3> QED BY <1>7, <3>3 DEF OptionName
  <2> QED BY <2>1, <2>2
<1>8. ASSUME NEW o \in OptionName, Has(opts, o)
      PROVE  \E i \in 1 .. Len(s) :
               Odd(i) /\ i + 1 <= Len(s) /\ s[i] = Text(o) /\ s[i + 1] = Number(opts[o])
  <2>1. o \in Present(opts)
    BY <1>8 DEF Present
  <2> QED BY <1>2, <2>1 DEF Lists
<1> QED
  BY <1>1, <1>3, <1>5, <1>6, <1>7, <1>8 DEF d

(* What the client reads in the OACK is what the server has put there.        *)
LEMMA OackUnderstood ==
  ASSUME NEW opts \in Options, NEW o \in {"blksize", "timeout"},
         opts[o] \in 0 .. Word - 1 \cup {None},
         ParseOack(OackBytes(opts)).code = 0
  PROVE  /\ ParsedOptions(OackBytes(opts), 1)[o] = opts[o]
         /\ ParseOack(OackBytes(opts)).opts = Filter(ParsedOptions(OackBytes(opts), 1))
<1> DEFINE d == OackBytes(opts)
           N == Turns(d, 1)
           P == ParsedOptions(d, 1)
           len == Len(d.fields)
<1>1. /\ HasFields(d) /\ ~d.open /\ d.op = "OACK" /\ len % 2 = 0 /\ DOMAIN d.fields = 1 .. len
      /\ len \in Nat
      /\ \A i \in 1 .. len :
           /\ d.fields[i].word # ""
           /\ d.fields[i].word \in OptionName =>
                /\ Odd(i) /\ i + 1 <= len
                /\ Has(opts, d.fields[i].word)
                /\ d.fields[i + 1] = Number(opts[d.fields[i].word])
      /\ \A q \in OptionName : Has(opts, q) =>
           \E i \in 1 .. len :
             /\ Odd(i) /\ i + 1 <= len
             /\ d.fields[i] = Text(q) /\ d.fields[i + 1] = Number(opts[q])
  BY OackFields DEF HasFields
<1>2. P # None /\ ParseOack(d).opts = Filter(P)
  <2>1. ParseOack(d).code = 0
    OBVIOUS
  <2> HIDE DEF d
  <2>2. Rejected(ParsingError).code # 0 /\ Rejected(OptionError).code # 0
    BY DEF Rejected, ParsingError, OptionError
  <2>3. /\ ~(d.fields = <<>> \/ d.fields = <<Text("")>>)
        /\ ParseOack(d) = IF P = None THEN Rejected(OptionError) ELSE Accepted("octet", Filter(P))
    BY <2>1, <2>2 DEF ParseOack
  <2> HIDE DEF P
  <2>4. P # None
    BY <2>1, <2>2, <2>3
  <2>5. Accepted("octet", Filter(P)).opts = Filter(P)
    BY DEF Accepted
  <2> QED BY <2>3, <2>4, <2>5
<1> HIDE DEF d, len
<1>3. /\ N \in Nat /\ P = Parsing(d, 1)[N] /\ N \in 0 .. N /\ 1 \in Nat /\ Len(d.fields) - 1 + 2 \in Nat
      /\ 2 * N = len
  <2>1. Len(d.fields) - 1 + 2 \in Nat /\ 1 \in Nat
    <3>1. \A l \in Nat : l - 1 + 2 \in Nat
      OBVIOUS
    <3> QED BY <1>1, <3>1 DEF len
  <2>2. N \in Nat /\ P = Parsing(d, 1)[N]
    BY <1>1, <2>1, ParsingTurns
  <2>3. \A l \in Nat : l % 2 = 0 => 2 * ((l - 1 + 2) \div 2) = l
    OBVIOUS
  <2>4. 2 * N = len
    BY <1>1, <2>3 DEF Turns, len
  <2> HIDE DEF N
  <2> QED BY <2>1, <2>2, <2>4
<1> HIDE DEF N, P
<1>4. /\ \A q \in OptionName : Has(P, q) => \E k \in 1 .. N : Gives(d, 1 + 2 * (k - 1), q, P[q])
      /\ \A q, v : \A k \in 1 .. N : Gives(d, 1 + 2 * (k - 1), q, v) => P[q] = v /\ v \in Nat
  <2>1. Parsing(d, 1)[N] # None
    BY <1>2, <1>3
  <2>2. HasFields(d) /\ 1 \in Nat /\ Len(d.fields) - 1 + 2 \in Nat /\ N \in 0 .. Turns(d, 1)
    BY <1>1, <1>3 DEF N
  <2>3. /\ \A q \in OptionName : Has(Parsing(d, 1)[N], q) =>
             \E k \in 1 .. N : Gives(d, 1 + 2 * (k - 1), q, Parsing(d, 1)[N][q])
        /\ \A q, v : \A k \in 1 .. N : Gives(d, 1 + 2 * (k - 1), q, v) =>
             Parsing(d, 1)[N][q] = v /\ v \in Nat
    BY <2>1, <2>2, Parsed
  <2> QED BY <1>3, <2>3
<1>5. ASSUME Has(opts, o) PROVE P[o] = opts[o]
  <2>1. o \in OptionName
    BY DEF OptionName
  <2>2. PICK i \in 1 .. len : Odd(i) /\ i + 1 <= len /\ d.fields[i] = Text(o) /\ d.fields[i + 1] = Number(opts[o])
    BY <1>1, <1>5, <2>1
  <2>3. opts[o] \in 0 .. Word - 1
    BY <1>5 DEF Has
  <2>4. Stoull(Number(opts[o])) = opts[o] /\ opts[o] # NaN
    BY <2>3, StoullReads, NotNumbers
  <2>5. Gives(d, i, o, opts[o])
    <3>1. Complete(d, i) /\ Complete(d, i + 1)
      <4>1. i + 1 \in 1 .. len
        BY <2>2
      <4> QED BY <1>1, <4>1 DEF Complete, len
    <3>2. Lower(d.fields[i]) = o
      BY <2>2 DEF Lower, Text
    <3> QED BY <1>1, <2>1, <2>2, <2>4, <3>1, <3>2 DEF Gives
  <2>6. PICK k \in 1 .. N : i = 1 + 2 * (k - 1)
    <3>1. \A l, n \in Nat : 2 * n = l => \A j \in 1 .. l : j % 2 = 1 =>
            (j + 1) \div 2 \in 1 .. n /\ j = 1 + 2 * ((j + 1) \div 2 - 1)
      OBVIOUS
    <3>2. (i + 1) \div 2 \in 1 .. N /\ i = 1 + 2 * ((i + 1) \div 2 - 1)
      BY <1>1, <1>3, <2>2, <3>1 DEF Odd
    <3> QED BY <3>2
  <2> QED BY <1>4, <2>5, <2>6
<1>6. ASSUME ~Has(opts, o) PROVE P[o] = opts[o]
  <2>1. o \in OptionName
    BY DEF OptionName
  <2>2. ~Has(P, o)
    <3> SUFFICES ASSUME Has(P, o) PROVE FALSE
      OBVIOUS
    <3>1. PICK i : Gives(d, i, o, P[o])
      BY <1>4, <2>1
    <3>2. i \in 1 .. len /\ d.fields[i].word = o
      BY <3>1 DEF Gives, Complete, Lower, len
    <3> QED BY <1>1, <1>6, <2>1, <3>2
  <2> QED BY <1>6, <2>2 DEF Has
<1> QED
  BY <1>2, <1>5, <1>6 DEF d, P

(* What the fields of a packet say of option o to who takes them at their word. *)
ValuesOf(d, o) ==
  {Stoull(d.fields[i + 1]) : i \in {j \in DOMAIN d.fields : Lower(d.fields[j]) = o}}

(* Another client reads the same in it.                                       *)
LEMMA OackTakenAtItsWord ==
  ASSUME NEW opts \in Options, NEW o \in {"blksize", "timeout"},
         opts[o] \in 0 .. Word - 1 \cup {None}
  PROVE  ValuesOf(OackBytes(opts), o) = IF Has(opts, o) THEN {opts[o]} ELSE {}
<1> DEFINE d == OackBytes(opts)
           I == {j \in DOMAIN d.fields : Lower(d.fields[j]) = o}
<1>1. /\ DOMAIN d.fields = 1 .. Len(d.fields)
      /\ \A i \in 1 .. Len(d.fields) : d.fields[i].word \in OptionName =>
           /\ Has(opts, d.fields[i].word)
           /\ d.fields[i + 1] = Number(opts[d.fields[i].word])
      /\ \A q \in OptionName : Has(opts, q) => \E i \in 1 .. Len(d.fields) : d.fields[i] = Text(q)
  BY OackFields DEF HasFields
<1>2. o \in OptionName
  BY DEF OptionName
<1>3. Has(opts, o) => Stoull(Number(opts[o])) = opts[o]
  BY StoullReads DEF Has
<1> HIDE DEF d
<1>4. \A i \in I : Has(opts, o) /\ Stoull(d.fields[i + 1]) = opts[o]
  BY <1>1, <1>2, <1>3 DEF Lower
<1>5. Has(opts, o) => I # {}
  <2> SUFFICES ASSUME Has(opts, o) PROVE \E i : i \in I
    OBVIOUS
  <2>1. PICK i \in 1 .. Len(d.fields) : d.fields[i] = Text(o)
    BY <1>1, <1>2
  <2> QED BY <1>1, <2>1 DEF Lower, Text
<1> HIDE DEF I
<1>6. {Stoull(d.fields[i + 1]) : i \in I} = IF Has(opts, o) THEN {opts[o]} ELSE {}
  BY <1>4, <1>5
<1> QED
  BY <1>6 DEF d, I, ValuesOf
=============================================================================
