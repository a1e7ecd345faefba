---------------------------- MODULE PeerStreamProofs ----------------------------
(***************************************************************************)
(* What two peers can rely on of the connection between them, for every    *)
(* torrent, all messages and all frames of another program: that the       *)
(* encodings of this program are read back as what they were made from,    *)
(* byte by byte, and so messages arrive as they were sent.                 *)
(*                                                                         *)
(*   1. Frames one after the other, numbers of four bytes, bitfields       *)
(*   2. Bencode: integers, byte strings and dictionaries are read back     *)
(*      (ParseIntReads, ParseBytesReads, ReadsDict)                        *)
(*   3. The payloads of the extensions, by their dictionaries              *)
(*      (DecodeShort, DecodeLong, ExtensionsRead, PexReads)                *)
(*   4. The messages, each by its id, and their frames (SayableMeans)      *)
(*   5. The handshake (HandshakeReads)                                     *)
(*   6. What was said of pieces (Introduced), frames on the way (Due)      *)
(*   7. The inductive invariant (StreamInv) and one lemma for each action  *)
(*   8. The theorems                                                       *)
(*                                                                         *)
(* What the decoder computes by recursion (FlattenSeq, Digits, Number,     *)
(* Calls) is a recursive function of a number; that there is one, which    *)
(* CHOOSE alone does not say, is shown first for each.                     *)
(***************************************************************************)
EXTENDS PeerStreamProperties, TorrentProofs, SequenceTheorems

-----------------------------------------------------------------------------
\* Sequences of byte strings, one after the other

\* FlattenSeq is a recursive function of how many are taken.
FlattenRule(f, q, n) == f = [i \in 1 .. n |-> IF i = 1 THEN q[i] ELSE f[i - 1] \o q[i]]

\* It is some function.
LEMMA FlattenExists ==
  ASSUME NEW q
  PROVE  \A n \in Nat : \E f : FlattenRule(f, q, n)
<1> DEFINE T == {n \in Nat : \E f : FlattenRule(f, q, n)}
<1>1. 0 \in T
  <2> DEFINE f == [i \in 1 .. 0 |-> <<>>]
  <2>1. f = [i \in 1 .. 0 |-> IF i = 1 THEN q[i] ELSE f[i - 1] \o q[i]]
    OBVIOUS
  <2> HIDE DEF f
  <2>2. FlattenRule(f, q, 0)
    BY <2>1 DEF FlattenRule
  <2> QED
    BY <2>2
<1>2. ASSUME NEW n \in T PROVE n + 1 \in T
  <2>1. PICK f : FlattenRule(f, q, n)
    OBVIOUS
  <2>2. n \in Nat
    OBVIOUS
  <2> DEFINE g == [i \in 1 .. n + 1 |-> IF i = 1 THEN q[i] ELSE f[i - 1] \o q[i]]
  <2> HIDE DEF T
  <2>3. ASSUME NEW i \in 1 .. n PROVE g[i] = f[i]
    <3>1. g[i] = IF i = 1 THEN q[i] ELSE f[i - 1] \o q[i]
      BY <2>2
    <3> HIDE DEF g
    <3> QED
      BY <2>1, <2>2, <3>1 DEF FlattenRule
  <2>4. ASSUME NEW i \in 1 .. n + 1 PROVE g[i] = IF i = 1 THEN q[i] ELSE g[i - 1] \o q[i]
    <3>1. i # 1 => i - 1 \in 1 .. n
      BY <2>2
    <3>2. i # 1 => g[i - 1] = f[i - 1]
      BY <2>3, <3>1
    <3> QED
      BY <3>2
  <2>5. FlattenRule(g, q, n + 1)
    <3>1. g = [i \in 1 .. n + 1 |-> g[i]]
      OBVIOUS
    <3> HIDE DEF g
    <3> QED
      BY <2>4, <3>1 DEF FlattenRule
  <2> QED
    BY <2>2, <2>5 DEF T
<1>3. T \in SUBSET Nat
  OBVIOUS
<1>4. T = Nat
  <2> HIDE DEF T
  <2> QED
    BY <1>1, <1>2, <1>3, Induction
<1> QED
  BY <1>4

Flat(q, n) == CHOOSE f : FlattenRule(f, q, n)

\* What it is, step by step.
LEMMA FlatSteps ==
  ASSUME NEW q, NEW n \in Nat
  PROVE  /\ n # 0 => Flat(q, n)[1] = q[1]
         /\ \A i \in 1 .. n - 1 : Flat(q, n)[i + 1] = Flat(q, n)[i] \o q[i + 1]
<1> DEFINE f == Flat(q, n)
<1>1. FlattenRule(f, q, n)
  BY FlattenExists, Zenon DEF Flat
<1> HIDE DEF f
<1>2. ASSUME NEW i \in 1 .. n PROVE f[i] = IF i = 1 THEN q[i] ELSE f[i - 1] \o q[i]
  BY <1>1, Zenon DEF FlattenRule
<1>3. ASSUME n # 0 PROVE f[1] = q[1]
  <2>1. 1 \in 1 .. n
    BY <1>3
  <2> QED
    BY <1>2, <2>1, Zenon
<1>4. ASSUME NEW i \in 1 .. n - 1 PROVE f[i + 1] = f[i] \o q[i + 1]
  <2>1. i + 1 \in 1 .. n /\ i + 1 # 1 /\ (i + 1) - 1 = i
    OBVIOUS
  <2>2. f[i + 1] = IF i + 1 = 1 THEN q[i + 1] ELSE f[(i + 1) - 1] \o q[i + 1]
    BY <1>2, <2>1, Zenon
  <2> QED
    BY <2>1, <2>2, Zenon
<1> QED
  BY <1>3, <1>4, Zenon DEF f

\* FlattenSeq is that function, taken to the end.
LEMMA FlattenIsFlat ==
  ASSUME NEW q, Len(q) # 0
  PROVE  FlattenSeq(q) = Flat(q, Len(q))[Len(q)]
BY Zenon DEF FlattenSeq, Flat, FlattenRule

\* What the first k come to does not depend on the others.
LEMMA FlatAgrees ==
  ASSUME NEW q, NEW r, NEW m \in Nat, NEW n \in Nat,
         NEW k \in Nat, k <= m, k <= n, \A i \in 1 .. k : q[i] = r[i]
  PROVE  \A i \in 1 .. k : Flat(q, m)[i] = Flat(r, n)[i]
<1> DEFINE f == Flat(q, m)
           g == Flat(r, n)
           T == {j \in Nat : j \in 1 .. k => f[j] = g[j]}
<1>1. 0 \in T
  OBVIOUS
<1>2. ASSUME NEW j \in T PROVE j + 1 \in T
  <2>1. j \in Nat /\ (j \in 1 .. k => f[j] = g[j])
    OBVIOUS
  <2>2. ASSUME j + 1 \in 1 .. k PROVE f[j + 1] = g[j + 1]
    <3>1. CASE j = 0
      <4>1. m # 0 /\ n # 0 /\ 1 \in 1 .. k /\ j + 1 = 1
        BY <2>2, <3>1
      <4>2. f[1] = q[1]
        BY <4>1, FlatSteps, Zenon
      <4>3. g[1] = r[1]
        BY <4>1, FlatSteps, Zenon
      <4> HIDE DEF T, f, g
      <4> QED
        BY <4>1, <4>2, <4>3, Zenon
    <3>2. CASE j # 0
      <4>1. j \in 1 .. m - 1 /\ j \in 1 .. n - 1 /\ j \in 1 .. k
        BY <2>1, <2>2, <3>2
      <4>2. f[j + 1] = f[j] \o q[j + 1]
        BY <4>1, FlatSteps, Zenon
      <4>3. g[j + 1] = g[j] \o r[j + 1]
        BY <4>1, FlatSteps, Zenon
      <4> HIDE DEF T, f, g
      <4> QED
        BY <2>1, <2>2, <4>1, <4>2, <4>3
    <3> QED
      BY <3>1, <3>2
  <2> HIDE DEF f, g
  <2> QED
    BY <2>1, <2>2
<1>3. T \in SUBSET Nat
  OBVIOUS
<1>4. T = Nat
  <2> HIDE DEF T
  <2> QED
    BY <1>1, <1>2, <1>3, Induction
<1> HIDE DEF f, g
<1>5. \A i \in 1 .. k : f[i] = g[i]
  BY <1>4
<1> QED
  BY <1>5 DEF f, g

\* Where two sequences agree, so do their beginnings when joined.
LEMMA FlatAgreesAt ==
  ASSUME NEW q, NEW r, NEW m \in Nat, NEW n \in Nat,
         NEW k \in 1 .. m, k \in 1 .. n, \A i \in 1 .. k : q[i] = r[i]
  PROVE  Flat(q, m)[k] = Flat(r, n)[k]
<1>1. k \in Nat /\ k <= m /\ k <= n /\ k \in 1 .. k
  OBVIOUS
<1>2. \A i \in 1 .. k : Flat(q, m)[i] = Flat(r, n)[i]
  BY <1>1, FlatAgrees
<1> QED
  BY <1>1, <1>2, Zenon

\* Nothing.
LEMMA FlattenEmpty ==
  ASSUME NEW q, Len(q) = 0
  PROVE  FlattenSeq(q) = q
BY DEF FlattenSeq

\* The last one comes last.
LEMMA FlattenAppend ==
  ASSUME NEW B, NEW q \in Seq(Seq(B)), NEW x \in Seq(B)
  PROVE  FlattenSeq(Append(q, x)) = FlattenSeq(q) \o x
<1> DEFINE n == Len(q)
           r == Append(q, x)
<1>1. n \in Nat /\ r \in Seq(Seq(B)) /\ Len(r) = n + 1 /\ r[n + 1] = x /\ \A i \in 1 .. n : q[i] = r[i]
  OBVIOUS
<1> HIDE DEF r
<1>2. FlattenSeq(r) = Flat(r, n + 1)[n + 1]
  BY <1>1, FlattenIsFlat
<1>3. CASE n = 0
  <2>1. 1 \in Nat /\ 1 # 0 /\ n + 1 = 1
    BY <1>3
  <2>3. Flat(r, 1)[1] = r[1]
    BY <2>1, FlatSteps, Zenon
  <2>2. FlattenSeq(q) = <<>>
    BY <1>3, FlattenEmpty
  <2> QED
    BY <1>1, <1>2, <2>1, <2>2, <2>3 DEF r
<1>4. CASE n # 0
  <2>1. FlattenSeq(q) = Flat(q, n)[n]
    BY <1>4, FlattenIsFlat
  <2>2. Flat(q, n)[n] = Flat(r, n + 1)[n]
    <3>1. n \in Nat /\ n + 1 \in Nat /\ n \in 1 .. n /\ n \in 1 .. n + 1
      BY <1>1, <1>4
    <3>2. \A i \in 1 .. n : q[i] = r[i]
      BY <1>1
    <3> HIDE DEF n
    <3> QED
      BY <3>1, <3>2, FlatAgreesAt
  <2>3. Flat(r, n + 1)[n + 1] = Flat(r, n + 1)[n] \o x
    <3>1. n + 1 \in Nat /\ n \in 1 .. (n + 1) - 1
      BY <1>1, <1>4
    <3> HIDE DEF n
    <3> QED
      BY <1>1, <3>1, FlatSteps, Zenon
  <2> QED
    BY <1>2, <2>1, <2>2, <2>3 DEF r
<1> QED
  BY <1>3, <1>4

\* Byte strings make a byte string.
LEMMA FlattenType ==
  ASSUME NEW B, NEW q \in Seq(Seq(B))
  PROVE  FlattenSeq(q) \in Seq(B)
<1> DEFINE n == Len(q)
           f == Flat(q, n)
           T == {j \in Nat : j \in 1 .. n => f[j] \in Seq(B)}
<1>1. n \in Nat /\ \A i \in 1 .. n : q[i] \in Seq(B)
  OBVIOUS
<1>2. 0 \in T
  OBVIOUS
<1>3. ASSUME NEW j \in T PROVE j + 1 \in T
  <2>1. j \in Nat /\ (j \in 1 .. n => f[j] \in Seq(B))
    OBVIOUS
  <2>2. ASSUME j + 1 \in 1 .. n PROVE f[j + 1] \in Seq(B)
    <3>1. CASE j = 0
      <4>1. n # 0 /\ 1 \in 1 .. n /\ j + 1 = 1
        BY <2>2, <3>1
      <4>2. f[1] = q[1]
        BY <1>1, <4>1, FlatSteps, Zenon
      <4> HIDE DEF T, f, n
      <4> QED
        BY <1>1, <4>1, <4>2, Zenon
    <3>2. CASE j # 0
      <4>1. j \in 1 .. n - 1 /\ j \in 1 .. n
        BY <2>1, <2>2, <3>2
      <4>2. f[j + 1] = f[j] \o q[j + 1]
        BY <1>1, <4>1, FlatSteps, Zenon
      <4> HIDE DEF T, f, n
      <4> QED
        BY <1>1, <2>1, <2>2, <4>1, <4>2
    <3> QED
      BY <3>1, <3>2
  <2> HIDE DEF f, n
  <2> QED
    BY <2>1, <2>2
<1>4. T \in SUBSET Nat
  OBVIOUS
<1>5. T = Nat
  <2> HIDE DEF T
  <2> QED
    BY <1>2, <1>3, <1>4, Induction
<1>6. CASE n = 0
  <2>1. q = <<>> /\ <<>> \in Seq(B)
    BY <1>6
  <2>2. FlattenSeq(q) = q
    BY <1>6, FlattenEmpty
  <2> QED
    BY <2>1, <2>2
<1>7. CASE n # 0
  <2>1. FlattenSeq(q) = f[n]
    BY <1>7, FlattenIsFlat
  <2>2. n \in 1 .. n
    BY <1>1, <1>7
  <2> HIDE DEF f, n
  <2> QED
    BY <1>1, <1>5, <2>1, <2>2
<1> QED
  BY <1>6, <1>7

\* The first one comes first.
LEMMA FlattenPrepend ==
  ASSUME NEW B, NEW q \in Seq(Seq(B)), NEW x \in Seq(B)
  PROVE  FlattenSeq(<<x>> \o q) = x \o FlattenSeq(q)
<1> DEFINE n == Len(q)
           r == <<x>> \o q
           f == Flat(q, n)
           g == Flat(r, n + 1)
           T == {j \in Nat : j \in 1 .. n => f[j] \in Seq(B) /\ g[j + 1] = x \o f[j]}
<1>1. /\ n \in Nat /\ n + 1 \in Nat /\ Len(r) = n + 1 /\ r[1] = x
      /\ \A i \in 1 .. n : r[i + 1] = q[i] /\ q[i] \in Seq(B)
  OBVIOUS
<1>2. 0 \in T
  OBVIOUS
<1>3. g[1] = x
  <2>1. n + 1 # 0
    BY <1>1
  <2> HIDE DEF n, r
  <2> QED
    BY <1>1, <2>1, FlatSteps, Zenon
<1>4. ASSUME NEW j \in T PROVE j + 1 \in T
  <2>1. j \in Nat /\ (j \in 1 .. n => f[j] \in Seq(B) /\ g[j + 1] = x \o f[j])
    OBVIOUS
  <2>2. ASSUME j + 1 \in 1 .. n PROVE f[j + 1] \in Seq(B) /\ g[(j + 1) + 1] = x \o f[j + 1]
    <3>1. j + 1 \in 1 .. (n + 1) - 1
      BY <1>1, <2>1, <2>2
    <3>2. g[(j + 1) + 1] = g[j + 1] \o r[(j + 1) + 1]
      BY <1>1, <3>1, FlatSteps, Zenon
    <3>3. r[(j + 1) + 1] = q[j + 1] /\ q[j + 1] \in Seq(B)
      BY <1>1, <2>2, Zenon
    <3>4. CASE j = 0
      <4>1. n # 0 /\ j + 1 = 1
        BY <2>2, <3>4
      <4>2. f[1] = q[1]
        BY <1>1, <4>1, FlatSteps, Zenon
      <4> HIDE DEF T, f, g, n, r
      <4> QED
        BY <1>3, <3>2, <3>3, <4>1, <4>2, Zenon
    <3>5. CASE j # 0
      <4>1. j \in 1 .. n - 1 /\ j \in 1 .. n
        BY <2>1, <2>2, <3>5
      <4>2. f[j + 1] = f[j] \o q[j + 1]
        BY <1>1, <4>1, FlatSteps, Zenon
      <4> HIDE DEF T, f, g, n, r
      <4>3. f[j] \in Seq(B) /\ g[j + 1] = x \o f[j]
        BY <2>1, <4>1
      <4>4. (x \o f[j]) \o q[j + 1] = x \o (f[j] \o q[j + 1])
        <5> DEFINE s == f[j]
                   t == q[j + 1]
        <5>1. s \in Seq(B) /\ t \in Seq(B)
          BY <3>3, <4>3
        <5> HIDE DEF s, t
        <5>2. (x \o s) \o t = x \o (s \o t)
          BY <5>1, ConcatAssociative
        <5> QED
          BY <5>2 DEF s, t
      <4>5. f[j] \o q[j + 1] \in Seq(B)
        BY <3>3, <4>3
      <4> QED
        BY <3>2, <3>3, <4>2, <4>3, <4>4, <4>5, Zenon
    <3> QED
      BY <3>4, <3>5
  <2> HIDE DEF f, g, n, r
  <2> QED
    BY <2>1, <2>2
<1>5. T \in SUBSET Nat
  OBVIOUS
<1>6. T = Nat
  <2> HIDE DEF T
  <2> QED
    BY <1>2, <1>4, <1>5, Induction
<1>7. FlattenSeq(r) = g[n + 1]
  <2>1. Len(r) # 0
    BY <1>1
  <2>2. FlattenSeq(r) = Flat(r, Len(r))[Len(r)]
    BY <2>1, FlattenIsFlat, Zenon
  <2> QED
    BY <1>1, <2>2, Zenon
<1>8. CASE n = 0
  <2>1. n + 1 = 1 /\ FlattenSeq(q) = <<>>
    BY <1>8, FlattenEmpty
  <2> HIDE DEF f, g, r
  <2> QED
    BY <1>3, <1>7, <2>1 DEF r
<1>9. CASE n # 0
  <2>1. FlattenSeq(q) = f[n]
    BY <1>9, FlattenIsFlat
  <2>2. n \in 1 .. n
    BY <1>1, <1>9
  <2> HIDE DEF f, g, n, r
  <2>3. g[n + 1] = x \o f[n]
    BY <1>1, <1>6, <2>2
  <2> QED
    BY <1>7, <2>1, <2>3 DEF r
<1> QED
  BY <1>8, <1>9

\* One, two and three of them.
LEMMA FlattenFew ==
  ASSUME NEW B, NEW a \in Seq(B), NEW b \in Seq(B), NEW c \in Seq(B)
  PROVE  /\ FlattenSeq(<<a>>) = a
         /\ FlattenSeq(<<a, b>>) = a \o b
         /\ FlattenSeq(<<a, b, c>>) = (a \o b) \o c
<1>1. ASSUME NEW q, NEW n \in 1 .. 3, Len(q) = n
      PROVE  /\ FlattenSeq(q) = Flat(q, n)[n] /\ Flat(q, n)[1] = q[1]
             /\ n > 1 => Flat(q, n)[2] = Flat(q, n)[1] \o q[2]
             /\ n > 2 => Flat(q, n)[3] = Flat(q, n)[2] \o q[3]
  <2>1. n \in Nat /\ n # 0
    OBVIOUS
  <2>2. FlattenSeq(q) = Flat(q, n)[n]
    BY <1>1, <2>1, FlattenIsFlat
  <2>3. \A i \in 1 .. n - 1 : Flat(q, n)[i + 1] = Flat(q, n)[i] \o q[i + 1]
    BY <2>1, FlatSteps, Zenon
  <2>4. Flat(q, n)[1] = q[1]
    BY <2>1, FlatSteps, Zenon
  <2>5. n > 1 => 1 \in 1 .. n - 1 /\ 1 + 1 = 2
    OBVIOUS
  <2>6. n > 2 => 2 \in 1 .. n - 1 /\ 2 + 1 = 3
    OBVIOUS
  <2>7. n > 1 => Flat(q, n)[2] = Flat(q, n)[1] \o q[2]
    BY <2>3, <2>5, Zenon
  <2>8. n > 2 => Flat(q, n)[3] = Flat(q, n)[2] \o q[3]
    BY <2>3, <2>6, Zenon
  <2> QED
    BY <2>2, <2>4, <2>7, <2>8, Zenon
<1>2. FlattenSeq(<<a>>) = a
  <2>1. Len(<<a>>) = 1 /\ <<a>>[1] = a /\ 1 \in 1 .. 3
    OBVIOUS
  <2> QED
    BY <1>1, <2>1, Zenon
<1>3. FlattenSeq(<<a, b>>) = a \o b
  <2>1. Len(<<a, b>>) = 2 /\ <<a, b>>[1] = a /\ <<a, b>>[2] = b /\ 2 \in 1 .. 3 /\ 2 > 1
    OBVIOUS
  <2> QED
    BY <1>1, <2>1, Zenon
<1>4. FlattenSeq(<<a, b, c>>) = (a \o b) \o c
  <2>1. /\ Len(<<a, b, c>>) = 3 /\ <<a, b, c>>[1] = a /\ <<a, b, c>>[2] = b /\ <<a, b, c>>[3] = c
        /\ 3 \in 1 .. 3 /\ 3 > 1 /\ 3 > 2
    OBVIOUS
  <2>2. /\ FlattenSeq(<<a, b, c>>) = Flat(<<a, b, c>>, 3)[3] /\ Flat(<<a, b, c>>, 3)[1] = <<a, b, c>>[1]
        /\ Flat(<<a, b, c>>, 3)[2] = Flat(<<a, b, c>>, 3)[1] \o <<a, b, c>>[2]
        /\ Flat(<<a, b, c>>, 3)[3] = Flat(<<a, b, c>>, 3)[2] \o <<a, b, c>>[3]
    BY <1>1, <2>1, Zenon
  <2> QED
    BY <2>1, <2>2, Zenon
<1> QED
  BY <1>2, <1>3, <1>4


\* A sequence is a function.
LEMMA SeqIsFunction ==
  ASSUME NEW B, NEW g \in Seq(B), NEW m \in Nat, Len(g) = m
  PROVE  g = [i \in 1 .. m |-> g[i]]
BY LenProperties, Zenon

\* A sequence with one element more, as a function.
LEMMA AppendIs ==
  ASSUME NEW B, NEW g \in Seq(B), NEW m \in Nat, Len(g) = m, NEW y \in B
  PROVE  /\ Append(g, y) = [i \in 1 .. m + 1 |-> Append(g, y)[i]]
         /\ \A i \in 1 .. m : Append(g, y)[i] = g[i]
         /\ Append(g, y)[m + 1] = y
<1>1. Append(g, y) \in Seq(B) /\ Len(Append(g, y)) = m + 1 /\ m + 1 \in Nat
  BY AppendProperties
<1>2. Append(g, y) = [i \in 1 .. m + 1 |-> Append(g, y)[i]]
  BY <1>1, SeqIsFunction, Zenon
<1>3. (\A i \in 1 .. m : Append(g, y)[i] = g[i]) /\ Append(g, y)[m + 1] = y
  OBVIOUS
<1> QED
  BY <1>2, <1>3, Zenon

-----------------------------------------------------------------------------
\* Frames, one after the other

\* The bytes of frames, of which each is some.
Framed(messages) == \A i \in 1 .. Len(messages) : FrameOf(messages[i]) \in Seq(Byte)

\* Frames one after the other are bytes.
LEMMA FramesFromType ==
  ASSUME NEW M, NEW q \in Seq(M), Framed(q), NEW k \in 0 .. Len(q)
  PROVE  /\ FramesFrom(q, k) \in Seq(Byte)
         /\ [i \in 1 .. Len(q) - k |-> FrameOf(q[k + i])] \in Seq(Seq(Byte))
<1> DEFINE g == [i \in 1 .. Len(q) - k |-> FrameOf(q[k + i])]
<1>1. g \in Seq(Seq(Byte))
  <2>1. Len(q) - k \in Nat
    OBVIOUS
  <2>2. ASSUME NEW i \in 1 .. Len(q) - k PROVE FrameOf(q[k + i]) \in Seq(Byte)
    <3>1. k + i \in 1 .. Len(q)
      OBVIOUS
    <3> QED
      BY <3>1, Zenon DEF Framed
  <2> HIDE DEF g
  <2>3. g \in [1 .. Len(q) - k -> Seq(Byte)]
    BY <2>2, Zenon DEF g
  <2> QED
    BY <2>1, <2>3
<1> QED
  BY <1>1, FlattenType, Zenon DEF FramesFrom

\* All of them.
LEMMA FramesFromEnd ==
  ASSUME NEW M, NEW q \in Seq(M)
  PROVE  FramesFrom(q, Len(q)) = <<>>
<1> DEFINE g == [i \in 1 .. Len(q) - Len(q) |-> FrameOf(q[Len(q) + i])]
<1>1. Len(q) - Len(q) = 0
  OBVIOUS
<1>2. g = <<>>
  BY <1>1
<1>3. FlattenSeq(<<>>) = <<>>
  BY FlattenEmpty
<1> HIDE DEF g
<1> QED
  BY <1>2, <1>3, Zenon DEF FramesFrom, g

\* One more is sent.
LEMMA FramesFromAppend ==
  ASSUME NEW M, NEW q \in Seq(M), NEW x \in M, Framed(q), FrameOf(x) \in Seq(Byte),
         NEW k \in 0 .. Len(q)
  PROVE  FramesFrom(Append(q, x), k) = FramesFrom(q, k) \o FrameOf(x)
<1> DEFINE n == Len(q)
           r == Append(q, x)
           g == [i \in 1 .. n - k |-> FrameOf(q[k + i])]
           h == [i \in 1 .. Len(r) - k |-> FrameOf(r[k + i])]
<1>1. /\ n \in Nat /\ n - k \in Nat /\ Len(r) = n + 1 /\ (n + 1) - k = (n - k) + 1
      /\ k + ((n - k) + 1) = n + 1 /\ r[n + 1] = x
  OBVIOUS
<1>2. g \in Seq(Seq(Byte)) /\ Len(g) = n - k
  <2>1. g \in Seq(Seq(Byte))
    BY FramesFromType
  <2> HIDE DEF g
  <2>2. DOMAIN g = 1 .. n - k
    BY DEF g
  <2> QED
    BY <1>1, <2>1, <2>2
<1>3. ASSUME NEW i \in 1 .. n - k PROVE r[k + i] = q[k + i] /\ k + i \in 1 .. n
  OBVIOUS
<1>4. h = Append(g, FrameOf(x))
  <2>1. DOMAIN h = 1 .. (n - k) + 1
    BY <1>1
  <2>2. ASSUME NEW i \in 1 .. n - k PROVE h[i] = g[i]
    <3>1. h[i] = FrameOf(r[k + i])
      BY <1>1
    <3>2. g[i] = FrameOf(q[k + i])
      OBVIOUS
    <3> HIDE DEF g, h, r
    <3> QED
      BY <1>3, <3>1, <3>2, Zenon
  <2>3. h[(n - k) + 1] = FrameOf(x)
    <3>1. h[(n - k) + 1] = FrameOf(r[k + ((n - k) + 1)])
      BY <1>1
    <3> HIDE DEF h, r
    <3> QED
      BY <1>1, <3>1, Zenon
  <2>4. h = [i \in 1 .. (n - k) + 1 |-> h[i]]
    BY <1>1
  <2>5. /\ Append(g, FrameOf(x)) = [i \in 1 .. (n - k) + 1 |-> Append(g, FrameOf(x))[i]]
        /\ \A i \in 1 .. n - k : Append(g, FrameOf(x))[i] = g[i]
        /\ Append(g, FrameOf(x))[(n - k) + 1] = FrameOf(x)
    <3> DEFINE m == n - k
    <3>1. m \in Nat
      BY <1>1
    <3> HIDE DEF g, m
    <3>2. Len(g) = m /\ g \in Seq(Seq(Byte))
      BY <1>2 DEF m
    <3>3. FrameOf(x) \in Seq(Byte)
      OBVIOUS
    <3>4. /\ Append(g, FrameOf(x)) = [i \in 1 .. m + 1 |-> Append(g, FrameOf(x))[i]]
          /\ \A i \in 1 .. m : Append(g, FrameOf(x))[i] = g[i]
          /\ Append(g, FrameOf(x))[m + 1] = FrameOf(x)
      BY <3>1, <3>2, <3>3, AppendIs
    <3> QED
      BY <3>4, Zenon DEF m
  <2>6. ASSUME NEW i \in 1 .. (n - k) + 1 PROVE h[i] = Append(g, FrameOf(x))[i]
    <3>1. i \in 1 .. n - k \/ i = (n - k) + 1
      BY <1>1
    <3> HIDE DEF g, h
    <3> QED
      BY <2>2, <2>3, <2>5, <3>1, Zenon
  <2> HIDE DEF g, h
  <2> QED
    BY <2>4, <2>5, <2>6, Zenon
<1>5. FlattenSeq(Append(g, FrameOf(x))) = FlattenSeq(g) \o FrameOf(x)
  <2> HIDE DEF g
  <2> QED
    BY <1>2, FlattenAppend
<1> HIDE DEF g, h, r
<1> QED
  BY <1>4, <1>5, Zenon DEF FramesFrom, g, h, r

\* The first one is read.
LEMMA FramesFromNext ==
  ASSUME NEW M, NEW q \in Seq(M), Framed(q), NEW k \in Nat, k < Len(q)
  PROVE  FramesFrom(q, k) = FrameOf(q[k + 1]) \o FramesFrom(q, k + 1)
<1> DEFINE n == Len(q)
           x == FrameOf(q[k + 1])
           g == [i \in 1 .. n - (k + 1) |-> FrameOf(q[k + 1 + i])]
           h == [i \in 1 .. n - k |-> FrameOf(q[k + i])]
           m == n - (k + 1)
<1>1. n \in Nat /\ m \in Nat /\ n - k = m + 1 /\ k + 1 \in 1 .. n /\ k + 1 \in 0 .. n
  OBVIOUS
<1>2. x \in Seq(Byte)
  BY <1>1, Zenon DEF Framed
<1>3. g \in Seq(Seq(Byte)) /\ Len(g) = m
  <2>1. g \in Seq(Seq(Byte))
    BY <1>1, FramesFromType
  <2> HIDE DEF g
  <2>2. DOMAIN g = 1 .. m
    BY DEF g
  <2> HIDE DEF m
  <2> QED
    BY <1>1, <2>1, <2>2
<1>4. h = <<x>> \o g
  <2>1. h = [i \in 1 .. m + 1 |-> h[i]]
    BY <1>1
  <2>2. /\ <<x>> \o g = [i \in 1 .. m + 1 |-> (<<x>> \o g)[i]]
        /\ (<<x>> \o g)[1] = x
        /\ \A i \in 1 .. m : (<<x>> \o g)[i + 1] = g[i]
    <3> HIDE DEF g, x, m
    <3> QED
      BY <1>1, <1>2, <1>3
  <2>3. h[1] = x
    BY <1>1
  <2>4. ASSUME NEW i \in 1 .. m PROVE h[i + 1] = g[i]
    <3>1. i + 1 \in 1 .. n - k /\ k + (i + 1) = k + 1 + i
      BY <1>1
    <3>2. h[i + 1] = FrameOf(q[k + (i + 1)])
      BY <3>1
    <3>3. g[i] = FrameOf(q[k + 1 + i])
      BY <1>1
    <3> HIDE DEF g, h
    <3> QED
      BY <3>1, <3>2, <3>3, Zenon
  <2>5. ASSUME NEW i \in 1 .. m + 1 PROVE h[i] = (<<x>> \o g)[i]
    <3>1. i = 1 \/ (i - 1 \in 1 .. m /\ (i - 1) + 1 = i)
      BY <1>1
    <3> HIDE DEF g, h, x, m
    <3> QED
      BY <2>2, <2>3, <2>4, <3>1, Zenon
  <2> HIDE DEF g, h, x, m
  <2> QED
    BY <2>1, <2>2, <2>5, Zenon
<1>5. FlattenSeq(<<x>> \o g) = x \o FlattenSeq(g)
  <2> HIDE DEF g, x
  <2> QED
    BY <1>2, <1>3, FlattenPrepend
<1> HIDE DEF g, h, x
<1> QED
  BY <1>4, <1>5, Zenon DEF FramesFrom, g, h, x, n


-----------------------------------------------------------------------------
\* Bytes and numbers of four

\* A number of four bytes, without its bounds written out.
LEMMA U32Is == \A n : n \in U32 <=> n \in Nat /\ n <= Huge
<1>1. Huge \in Nat
  BY SMT DEF Huge
<1> QED
  BY <1>1, SMT DEF U32

\* A number of four bytes is written as four bytes that make it up.
LEMMA BigEndianBytes ==
  ASSUME NEW n \in U32
  PROVE  /\ BigEndian(n) \in Seq(Byte) /\ Len(BigEndian(n)) = 4
         /\ 256 * (256 * (256 * BigEndian(n)[1] + BigEndian(n)[2]) + BigEndian(n)[3])
              + BigEndian(n)[4] = n
<1> DEFINE a == n \div 16777216
           b == (n \div 65536) % 256
           c == (n \div 256) % 256
           d == n % 256
<1>1. n \in Nat /\ n <= 2147483647
  BY U32Is, SMT DEF Huge
<1>2. a \in 0 .. 255 /\ b \in 0 .. 255 /\ c \in 0 .. 255 /\ d \in 0 .. 255
  BY <1>1, SMT
<1>3. n = 256 * (n \div 256) + d
  BY <1>1, SMT
<1>4. n \div 256 = 256 * (n \div 65536) + c
  BY <1>1, SMT
<1>5. n \div 65536 = 256 * a + b
  BY <1>1, SMT
<1>6. 256 * (256 * (256 * a + b) + c) + d = n
  <2> DEFINE x == n \div 256
             y == n \div 65536
  <2>1. x \in Int /\ y \in Int
    BY <1>1, SMT
  <2>2. n = 256 * x + d /\ x = 256 * y + c /\ y = 256 * a + b
    BY <1>3, <1>4, <1>5, SMT
  <2> HIDE DEF a, b, c, d, x, y
  <2> QED
    BY <1>1, <1>2, <2>1, <2>2, SMT
<1>7. BigEndian(n) = <<a, b, c, d>>
  BY SMT DEF BigEndian
<1> HIDE DEF a, b, c, d
<1> QED
  BY <1>2, <1>6, <1>7, SMT DEF Byte

\* What is read as a number is one.
LEMMA ReadU32Type ==
  ASSUME NEW s \in Seq(Byte), NEW k \in Nat, k + 4 <= Len(s)
  PROVE  ReadU32(s, k) \in Nat
<1>1. s[k + 1] \in Nat /\ s[k + 2] \in Nat /\ s[k + 3] \in Nat /\ s[k + 4] \in Nat
  <2>1. k + 1 \in 1 .. Len(s) /\ k + 2 \in 1 .. Len(s) /\ k + 3 \in 1 .. Len(s) /\ k + 4 \in 1 .. Len(s)
    OBVIOUS
  <2>2. \A i \in 1 .. Len(s) : s[i] \in Byte
    OBVIOUS
  <2>3. \A b \in Byte : b \in Nat
    BY DEF Byte
  <2> QED
    BY <2>1, <2>2, <2>3, Zenon
<1> DEFINE a == s[k + 1]
           b == s[k + 2]
           c == s[k + 3]
           d == s[k + 4]
<1>2. ReadU32(s, k) = 256 * (256 * (256 * a + b) + c) + d
  BY SMT DEF ReadU32
<1>3. a \in Nat /\ b \in Nat /\ c \in Nat /\ d \in Nat
  BY <1>1, Zenon
<1> HIDE DEF a, b, c, d
<1> QED
  BY <1>2, <1>3, SMT

\* A word w is at position i of s.
Holds(s, i, w) == i - 1 + Len(w) <= Len(s) /\ \A k \in 1 .. Len(w) : s[i - 1 + k] = w[k]

\* A number is read as it was written, wherever it stands (Codec).
LEMMA ReadU32Reads ==
  ASSUME NEW s \in Seq(Byte), NEW k \in Nat, NEW n \in U32, Holds(s, k + 1, BigEndian(n))
  PROVE  ReadU32(s, k) = n
<1> DEFINE w == BigEndian(n)
<1>1. /\ Len(w) = 4
      /\ 256 * (256 * (256 * w[1] + w[2]) + w[3]) + w[4] = n
  BY BigEndianBytes
<1> HIDE DEF w
<1>2. \A j \in 1 .. 4 : s[k + 1 - 1 + j] = w[j]
  BY <1>1 DEF Holds, w
<1>3. 1 \in 1 .. 4 /\ 2 \in 1 .. 4 /\ 3 \in 1 .. 4 /\ 4 \in 1 .. 4
  OBVIOUS
<1>4. s[k + 1 - 1 + 1] = w[1] /\ s[k + 1 - 1 + 2] = w[2] /\ s[k + 1 - 1 + 3] = w[3] /\ s[k + 1 - 1 + 4] = w[4]
  BY <1>2, <1>3, Zenon
<1>5. k + 1 - 1 + 1 = k + 1 /\ k + 1 - 1 + 2 = k + 2 /\ k + 1 - 1 + 3 = k + 3 /\ k + 1 - 1 + 4 = k + 4
  OBVIOUS
<1>6. s[k + 1] = w[1] /\ s[k + 2] = w[2] /\ s[k + 3] = w[3] /\ s[k + 4] = w[4]
  BY <1>4, <1>5, Zenon
<1> QED
  BY <1>1, <1>6 DEF ReadU32

\* Words in a row are each at their place.
LEMMA HoldsSplit ==
  ASSUME NEW B, NEW s \in Seq(B), NEW i \in Nat \ {0}, NEW u \in Seq(B), NEW v \in Seq(B),
         Holds(s, i, u \o v)
  PROVE  Holds(s, i, u) /\ Holds(s, i + Len(u), v) /\ i + Len(u) \in Nat \ {0}
<1>1. /\ Len(u) \in Nat /\ Len(v) \in Nat /\ Len(u \o v) = Len(u) + Len(v)
      /\ \A k \in 1 .. Len(u) : (u \o v)[k] = u[k]
      /\ \A k \in 1 .. Len(v) : (u \o v)[Len(u) + k] = v[k]
  OBVIOUS
<1>2. Len(s) \in Nat /\ i - 1 + (Len(u) + Len(v)) <= Len(s)
  BY <1>1 DEF Holds
<1>3. \A k \in 1 .. Len(u) + Len(v) : s[i - 1 + k] = (u \o v)[k]
  BY <1>1 DEF Holds
<1>4. ASSUME NEW k \in 1 .. Len(u) PROVE s[i - 1 + k] = u[k]
  <2>1. k \in 1 .. Len(u) + Len(v)
    BY <1>1
  <2> QED
    BY <1>1, <1>3, <2>1, Zenon
<1>5. ASSUME NEW k \in 1 .. Len(v) PROVE s[(i + Len(u)) - 1 + k] = v[k]
  <2>1. Len(u) + k \in 1 .. Len(u) + Len(v) /\ i - 1 + (Len(u) + k) = (i + Len(u)) - 1 + k
    BY <1>1
  <2>2. s[i - 1 + (Len(u) + k)] = (u \o v)[Len(u) + k]
    BY <1>3, <2>1, Zenon
  <2> QED
    BY <1>1, <2>1, <2>2, Zenon
<1>6. i - 1 + Len(u) <= Len(s) /\ (i + Len(u)) - 1 + Len(v) <= Len(s) /\ i + Len(u) \in Nat \ {0}
  BY <1>1, <1>2
<1>7. Holds(s, i, u)
  BY <1>4, <1>6, Zenon DEF Holds
<1>8. Holds(s, i + Len(u), v)
  BY <1>5, <1>6, Zenon DEF Holds
<1> QED
  BY <1>6, <1>7, <1>8, Zenon

\* A sequence holds itself from its start.
LEMMA HoldsWhole ==
  ASSUME NEW B, NEW s \in Seq(B)
  PROVE  Holds(s, 1, s)
BY DEF Holds

\* What is held can be cut out.
LEMMA HoldsCut ==
  ASSUME NEW B, NEW s \in Seq(B), NEW i \in Nat \ {0}, NEW w \in Seq(B), Holds(s, i, w)
  PROVE  SubSeq(s, i, i + Len(w) - 1) = w
<1> DEFINE j == i + Len(w) - 1
           c == SubSeq(s, i, j)
<1>1. Len(w) \in Nat /\ Len(s) \in Nat /\ j \in Nat /\ j <= Len(s) /\ j - i + 1 = Len(w)
  BY DEF Holds
<1>2. \A k \in i .. j : s[k] \in B
  BY <1>1
<1>3. /\ c \in Seq(B) /\ Len(c) = Len(w)
      /\ \A k \in 1 .. j - i + 1 : c[k] = s[i + k - 1]
  <2>1. i \in Int /\ j \in Int
    BY <1>1
  <2> HIDE DEF j
  <2>2. /\ SubSeq(s, i, j) \in Seq(B)
        /\ Len(SubSeq(s, i, j)) = IF i <= j THEN j - i + 1 ELSE 0
        /\ \A k \in 1 .. j - i + 1 : SubSeq(s, i, j)[k] = s[i + k - 1]
    BY <1>2, <2>1, SubSeqProperties
  <2> QED
    BY <1>1, <2>1, <2>2
<1>4. ASSUME NEW k \in 1 .. Len(w) PROVE c[k] = w[k]
  <2>1. k \in 1 .. j - i + 1 /\ i + k - 1 = i - 1 + k
    BY <1>1
  <2>2. c[k] = s[i + k - 1]
    BY <1>3, <2>1
  <2>3. s[i - 1 + k] = w[k]
    BY Zenon DEF Holds
  <2> QED
    BY <2>1, <2>2, <2>3
<1> HIDE DEF c, j
<1>5. c = w
  BY <1>3, <1>4, SeqEqual
<1> QED
  BY <1>5 DEF c, j

-----------------------------------------------------------------------------
\* Bits

Bit == {1, 2, 4, 8, 16, 32, 64, 128}

\* A bit, or no bit.
OrNot(bit) == {0, bit}

\* A sum of eight.
Eight(a, b, c, d, e, f, g, h) == a + b + c + d + e + f + g + h

\* A byte has a bit for each of these that is not 0.
BitsAre(byte, a, b, c, d, e, f, g, h) ==
  /\ byte \in Byte
  /\ HasBit(byte, 1) <=> a # 0
  /\ HasBit(byte, 2) <=> b # 0
  /\ HasBit(byte, 4) <=> c # 0
  /\ HasBit(byte, 8) <=> d # 0
  /\ HasBit(byte, 16) <=> e # 0
  /\ HasBit(byte, 32) <=> f # 0
  /\ HasBit(byte, 64) <=> g # 0
  /\ HasBit(byte, 128) <=> h # 0

\* The bits of a sum of bits.
LEMMA SumOfBits ==
  ASSUME NEW a \in OrNot(1), NEW b \in OrNot(2), NEW c \in OrNot(4), NEW d \in OrNot(8),
         NEW e \in OrNot(16), NEW f \in OrNot(32), NEW g \in OrNot(64), NEW h \in OrNot(128)
  PROVE  BitsAre(Eight(a, b, c, d, e, f, g, h), a, b, c, d, e, f, g, h)
<1> DEFINE sum == a + b + c + d + e + f + g + h
<1>1. sum \in Byte
  BY DEF Byte, OrNot
<1>2. HasBit(sum, 1) <=> a # 0
  BY DEF HasBit, OrNot
<1>3. HasBit(sum, 2) <=> b # 0
  BY DEF HasBit, OrNot
<1>4. HasBit(sum, 4) <=> c # 0
  BY DEF HasBit, OrNot
<1>5. HasBit(sum, 8) <=> d # 0
  BY DEF HasBit, OrNot
<1>6. HasBit(sum, 16) <=> e # 0
  BY DEF HasBit, OrNot
<1>7. HasBit(sum, 32) <=> f # 0
  BY DEF HasBit, OrNot
<1>8. HasBit(sum, 64) <=> g # 0
  BY DEF HasBit, OrNot
<1>9. HasBit(sum, 128) <=> h # 0
  BY DEF HasBit, OrNot
<1> HIDE DEF sum
<1>10. BitsAre(sum, a, b, c, d, e, f, g, h)
  BY <1>1, <1>2, <1>3, <1>4, <1>5, <1>6, <1>7, <1>8, <1>9, SMT DEF BitsAre
<1>11. Eight(a, b, c, d, e, f, g, h) = sum
  BY SMT DEF Eight, sum
<1> QED
  BY <1>10, <1>11, Zenon

\* x | y has the bits of both.
LEMMA OrBits ==
  ASSUME NEW x \in Byte, NEW y \in Byte
  PROVE  /\ Or(x, y) \in Byte
         /\ \A mask \in Bit : HasBit(Or(x, y), mask) <=> HasBit(x, mask) \/ HasBit(y, mask)
<1> DEFINE E(mask) == EitherBit(x, y, mask)
<1>1. \A mask \in Bit : E(mask) \in OrNot(mask) /\ (E(mask) # 0 <=> HasBit(x, mask) \/ HasBit(y, mask))
  BY DEF EitherBit, Bit, OrNot
<1>2. \A mask \in Bit : mask \in Nat
  BY DEF Bit
<1> DEFINE sum == Eight(E(1), E(2), E(4), E(8), E(16), E(32), E(64), E(128))
<1>3. Or(x, y) = sum
  BY SMT DEF Or, Eight
<1> HIDE DEF E
<1>4. BitsAre(sum, E(1), E(2), E(4), E(8), E(16), E(32), E(64), E(128))
  <2>1. /\ E(1) \in OrNot(1) /\ E(2) \in OrNot(2) /\ E(4) \in OrNot(4) /\ E(8) \in OrNot(8)
        /\ E(16) \in OrNot(16) /\ E(32) \in OrNot(32) /\ E(64) \in OrNot(64) /\ E(128) \in OrNot(128)
    BY <1>1, Zenon DEF Bit
  <2> QED
    BY <2>1, SumOfBits, Zenon
<1> HIDE DEF sum
<1>5. \A mask \in Bit : HasBit(sum, mask) <=> E(mask) # 0
  BY <1>4, SMT DEF Bit, BitsAre
<1> QED
  BY <1>1, <1>3, <1>4, <1>5, Zenon DEF BitsAre

\* The masks of the places in a byte.
LEMMA MaskIs ==
  ASSUME NEW k \in Nat
  PROVE  /\ Mask(k) \in Bit /\ Mask(k) \in Byte
         /\ \A j \in Nat : HasBit(Mask(k), Mask(j)) <=> k % 8 = j % 8
<1> DEFINE M(b) == Masks[8 - b]
<1>1. \A b \in 0 .. 7 : M(b) \in Bit /\ M(b) \in Byte
  BY DEF Masks, Bit, Byte
<1>2. \A b, c \in 0 .. 7 : HasBit(M(b), M(c)) <=> b = c
  <2>1. /\ M(0) = 128 /\ M(1) = 64 /\ M(2) = 32 /\ M(3) = 16
        /\ M(4) = 8 /\ M(5) = 4 /\ M(6) = 2 /\ M(7) = 1
    BY DEF Masks
  <2> HIDE DEF M
  <2> TAKE b, c \in 0 .. 7
  <2>2. M(b) \in Bit /\ M(c) \in Bit /\ (M(b) = M(c) <=> b = c)
    BY <2>1 DEF Bit
  <2>3. \A x, y \in Bit : HasBit(x, y) <=> x = y
    BY DEF Bit, HasBit
  <2> QED
    BY <2>2, <2>3
<1>3. \A j \in Nat : j % 8 \in 0 .. 7 /\ Mask(j) = M(j % 8)
  BY DEF Mask
<1> HIDE DEF M
<1> QED
  BY <1>1, <1>2, <1>3

-----------------------------------------------------------------------------
\* Bitfields

\* The bitfields of n pieces.
BitfieldOf(n) == [data : [1 .. (n + 7) \div 8 -> Byte], pieces : {n}]

\* The bytes of a bitfield, and that every bit has one.
LEMMA BitfieldData ==
  ASSUME NEW n \in Nat, NEW bf \in BitfieldOf(n)
  PROVE  /\ bf.data \in Seq(Byte) /\ Len(bf.data) = (n + 7) \div 8 /\ bf.pieces = n
         /\ \A k \in 0 .. 8 * Len(bf.data) - 1 : k \div 8 + 1 \in 1 .. Len(bf.data) /\ ByteOf(bf, k) \in Byte
<1>1. (n + 7) \div 8 \in Nat
  OBVIOUS
<1>2. bf.data \in [1 .. (n + 7) \div 8 -> Byte] /\ bf.pieces = n
  BY DEF BitfieldOf
<1>3. bf.data \in Seq(Byte) /\ Len(bf.data) = (n + 7) \div 8
  BY <1>1, <1>2
<1>4. ASSUME NEW k \in 0 .. 8 * Len(bf.data) - 1
      PROVE  k \div 8 + 1 \in 1 .. Len(bf.data) /\ ByteOf(bf, k) \in Byte
  <2>1. k \div 8 + 1 \in 1 .. Len(bf.data)
    BY <1>1, <1>3
  <2> QED
    BY <1>2, <1>3, <2>1 DEF ByteOf
<1> QED
  BY <1>2, <1>3, <1>4

\* A new bitfield has no bit set (Bitfield::new).
LEMMA NewBitfieldIs ==
  ASSUME NEW n \in Nat
  PROVE  NewBitfield(n) \in BitfieldOf(n) /\ Indices(NewBitfield(n)) = {}
<1> DEFINE bf == NewBitfield(n)
<1>1. bf \in BitfieldOf(n)
  BY DEF NewBitfield, BitfieldOf, Byte
<1>2. ASSUME NEW k \in 0 .. 8 * Len(bf.data) - 1 PROVE ~HasBit(ByteOf(bf, k), Mask(k))
  <2>1. k \div 8 + 1 \in 1 .. Len(bf.data) /\ Len(bf.data) = (n + 7) \div 8 /\ k \in Nat
    BY <1>1, BitfieldData
  <2>2. ByteOf(bf, k) = 0
    BY <2>1 DEF ByteOf, NewBitfield
  <2>3. Mask(k) \in Bit
    BY <2>1, MaskIs
  <2>4. \A b \in Bit : ~HasBit(0, b)
    BY DEF Bit, HasBit
  <2> QED
    BY <2>2, <2>3, <2>4
<1> QED
  BY <1>1, <1>2, Zenon DEF Indices

\* A bit more.
LEMMA SetBitIs ==
  ASSUME NEW n \in Nat, NEW bf \in BitfieldOf(n), NEW p \in 0 .. n - 1
  PROVE  SetBit(bf, p) \in BitfieldOf(n) /\ Indices(SetBit(bf, p)) = Indices(bf) \cup {p}
<1> DEFINE m == (n + 7) \div 8
           j == p \div 8 + 1
           b == Or(ByteOf(bf, p), Mask(p))
           new == SetBit(bf, p)
<1>1. m \in Nat /\ j \in 1 .. m /\ p \in Nat /\ p \in 0 .. 8 * m - 1
  OBVIOUS
<1>2. bf.data \in [1 .. m -> Byte] /\ Len(bf.data) = m /\ bf.pieces = n
  BY BitfieldData DEF BitfieldOf
<1>3. new = [bf EXCEPT !.data[j] = b]
  BY <1>2 DEF SetBit, CheckBit, WithByte
<1>4. /\ ByteOf(bf, p) \in Byte /\ Mask(p) \in Byte /\ b \in Byte
      /\ \A mask \in Bit : HasBit(b, mask) <=> HasBit(ByteOf(bf, p), mask) \/ HasBit(Mask(p), mask)
  <2>1. ByteOf(bf, p) \in Byte
    BY <1>1, <1>2, BitfieldData
  <2>2. Mask(p) \in Byte
    BY <1>1, MaskIs
  <2> QED
    BY <2>1, <2>2, OrBits
<1>5. /\ new \in BitfieldOf(n) /\ new.data = [bf.data EXCEPT ![j] = b]
  <2> HIDE DEF b, j, m
  <2>1. bf \in [data : [1 .. m -> Byte], pieces : {n}]
    BY DEF BitfieldOf, m
  <2>2. [bf EXCEPT !.data[j] = b] = [data |-> [bf.data EXCEPT ![j] = b], pieces |-> n]
    BY <2>1
  <2>3. [bf.data EXCEPT ![j] = b] \in [1 .. m -> Byte]
    BY <1>1, <1>2, <1>4
  <2> QED
    BY <1>3, <2>2, <2>3 DEF BitfieldOf, m
<1>6. Len(new.data) = m /\ \A k \in 0 .. 8 * m - 1 : k \div 8 + 1 \in 1 .. m
  BY <1>5, BitfieldData
<1>7. ASSUME NEW k \in 0 .. 8 * m - 1
      PROVE  HasBit(ByteOf(new, k), Mask(k)) <=> HasBit(ByteOf(bf, k), Mask(k)) \/ k = p
  <2>1. k \in Nat /\ k \div 8 + 1 \in 1 .. m
    BY <1>6
  <2>2. Mask(k) \in Bit /\ (HasBit(Mask(p), Mask(k)) <=> p % 8 = k % 8)
    BY <1>1, <2>1, MaskIs
  <2>3. CASE k \div 8 + 1 = j
    <3>1. ByteOf(bf, k) = ByteOf(bf, p)
      BY <2>3 DEF ByteOf
    <3>2. ByteOf(new, k) = b
      <4> HIDE DEF b, j, m, new
      <4> QED
        BY <1>1, <1>2, <1>5, <2>3 DEF ByteOf
    <3>3. p % 8 = k % 8 <=> k = p
      BY <1>1, <2>1, <2>3
    <3> HIDE DEF b, j, m, new
    <3> QED
      BY <1>4, <2>2, <3>1, <3>2, <3>3, Zenon
  <2>4. CASE k \div 8 + 1 # j
    <3>1. k # p
      BY <2>4
    <3>2. ByteOf(new, k) = ByteOf(bf, k)
      <4> HIDE DEF b, j, m, new
      <4> QED
        BY <1>1, <1>2, <1>5, <2>1, <2>4 DEF ByteOf
    <3> QED
      BY <3>1, <3>2
  <2> QED
    BY <2>3, <2>4
<1> HIDE DEF b, j, m, new
<1>8. Indices(new) = Indices(bf) \cup {p}
  BY <1>1, <1>2, <1>6, <1>7 DEF Indices
<1> QED
  BY <1>5, <1>8 DEF new

\* The bitfield that is filled piece by piece.
HoldingRule(f, held, n) ==
  f = [k \in 0 .. n |->
        IF k = 0 THEN NewBitfield(NumPieces)
        ELSE IF k - 1 \in held THEN SetBit(f[k - 1], k - 1) ELSE f[k - 1]]

\* The bitfield of pieces, set one by one, is some function.
LEMMA HoldingExists ==
  ASSUME NEW held
  PROVE  \A n \in Nat : \E f : HoldingRule(f, held, n)
<1> DEFINE Step(f, k) == IF k = 0 THEN NewBitfield(NumPieces)
                         ELSE IF k - 1 \in held THEN SetBit(f[k - 1], k - 1) ELSE f[k - 1]
           T == {n \in Nat : \E f : f = [k \in 0 .. n |-> Step(f, k)]}
<1>1. 0 \in T
  <2> DEFINE f == [k \in 0 .. 0 |-> NewBitfield(NumPieces)]
  <2>1. f = [k \in 0 .. 0 |-> Step(f, k)]
    OBVIOUS
  <2> HIDE DEF f
  <2> QED
    BY <2>1
<1>2. ASSUME NEW n \in T PROVE n + 1 \in T
  <2>1. PICK f : f = [k \in 0 .. n |-> Step(f, k)]
    OBVIOUS
  <2>2. n \in Nat
    OBVIOUS
  <2> DEFINE g == [k \in 0 .. n + 1 |-> Step(f, k)]
  <2> HIDE DEF T
  <2>3. ASSUME NEW k \in 0 .. n PROVE g[k] = f[k]
    <3>1. k \in 0 .. n + 1
      BY <2>2
    <3>2. g[k] = Step(f, k)
      BY <3>1
    <3>3. f[k] = Step(f, k)
      <4> HIDE DEF Step, g
      <4> QED
        BY <2>1, Zenon
    <3> QED
      BY <3>2, <3>3, Zenon
  <2>4. ASSUME NEW k \in 0 .. n + 1 PROVE Step(f, k) = Step(g, k)
    <3>1. k # 0 => k - 1 \in 0 .. n
      BY <2>2
    <3>2. k # 0 => g[k - 1] = f[k - 1]
      <4> HIDE DEF g
      <4> QED
        BY <2>3, <3>1, Zenon
    <3> HIDE DEF g
    <3> QED
      BY <3>2, Zenon
  <2>5. g = [k \in 0 .. n + 1 |-> Step(g, k)]
    <3>1. g = [k \in 0 .. n + 1 |-> Step(f, k)]
      OBVIOUS
    <3> HIDE DEF g, Step
    <3> QED
      BY <2>4, <3>1
  <2> HIDE DEF g, Step
  <2> QED
    BY <2>2, <2>5 DEF T
<1>3. T \in SUBSET Nat
  OBVIOUS
<1>4. T = Nat
  <2> HIDE DEF T
  <2> QED
    BY <1>1, <1>2, <1>3, Induction
<1>5. ASSUME NEW n \in Nat PROVE \E f : HoldingRule(f, held, n)
  <2>1. PICK f : f = [k \in 0 .. n |-> Step(f, k)]
    <3> HIDE DEF Step
    <3> QED
      BY <1>4
  <2> QED
    BY <2>1, Zenon DEF HoldingRule
<1> QED
  BY <1>5

\* The bitfield of some pieces has their bits set and no other, spare ones included.
LEMMA HoldingIs ==
  ASSUME NEW held \in SUBSET Piece
  PROVE  Holding(held) \in BitfieldOf(NumPieces) /\ Indices(Holding(held)) = held
<1> DEFINE n == NumPieces
           f == CHOOSE g : HoldingRule(g, held, n)
           T == {k \in Nat : k <= n => f[k] \in BitfieldOf(n)
                                       /\ Indices(f[k]) = {p \in held : p < k}}
<1>1. n \in Nat \ {0} /\ \A p \in held : p \in 0 .. n - 1
  BY TorrentAssumption DEF GeometryAssumption, Piece
<1>2. HoldingRule(f, held, n)
  BY <1>1, HoldingExists, Zenon
<1>3. Holding(held) = f[n]
  BY Zenon DEF Holding, HoldingRule
<1> HIDE DEF f
<1>4. ASSUME NEW k \in 0 .. n
      PROVE  f[k] = IF k = 0 THEN NewBitfield(n)
                    ELSE IF k - 1 \in held THEN SetBit(f[k - 1], k - 1) ELSE f[k - 1]
  BY <1>2, Zenon DEF HoldingRule
<1>5. 0 \in T
  <2>1. 0 \in 0 .. n
    BY <1>1
  <2>2. f[0] = NewBitfield(n)
    BY <1>4, <2>1, Zenon
  <2>3. {p \in held : p < 0} = {}
    BY <1>1
  <2>4. NewBitfield(n) \in BitfieldOf(n) /\ Indices(NewBitfield(n)) = {}
    BY <1>1, NewBitfieldIs
  <2> HIDE DEF n
  <2> QED
    BY <2>2, <2>3, <2>4
<1>6. ASSUME NEW k \in T PROVE k + 1 \in T
  <2>1. k \in Nat /\ (k <= n => f[k] \in BitfieldOf(n) /\ Indices(f[k]) = {p \in held : p < k})
    OBVIOUS
  <2>2. ASSUME k + 1 <= n
        PROVE  f[k + 1] \in BitfieldOf(n) /\ Indices(f[k + 1]) = {p \in held : p < k + 1}
    <3>1. k + 1 \in 0 .. n /\ k + 1 # 0 /\ (k + 1) - 1 = k /\ k <= n /\ k \in 0 .. n - 1
      BY <1>1, <2>1, <2>2
    <3>2. f[k + 1] = IF k \in held THEN SetBit(f[k], k) ELSE f[k]
      <4>1. f[k + 1] = IF k + 1 = 0 THEN NewBitfield(n)
                       ELSE IF (k + 1) - 1 \in held THEN SetBit(f[(k + 1) - 1], (k + 1) - 1)
                       ELSE f[(k + 1) - 1]
        BY <1>4, <3>1, Zenon
      <4> QED
        BY <3>1, <4>1, Zenon
    <3>3. f[k] \in BitfieldOf(n) /\ Indices(f[k]) = {p \in held : p < k}
      BY <2>1, <3>1
    <3> HIDE DEF n, T
    <3>4. CASE k \in held
      <4>1. SetBit(f[k], k) \in BitfieldOf(n) /\ Indices(SetBit(f[k], k)) = Indices(f[k]) \cup {k}
        BY <1>1, <3>1, <3>3, SetBitIs
      <4>2. {p \in held : p < k + 1} = {p \in held : p < k} \cup {k}
        <5>1. \A p \in held : p < k + 1 <=> p < k \/ p = k
          BY <1>1, <2>1
        <5>2. k < k + 1
          BY <2>1
        <5> QED
          BY <3>4, <5>1, <5>2, Zenon
      <4> QED
        BY <3>2, <3>3, <3>4, <4>1, <4>2, Zenon
    <3>5. CASE k \notin held
      <4>1. {p \in held : p < k + 1} = {p \in held : p < k}
        BY <1>1, <2>1, <3>5
      <4> QED
        BY <3>2, <3>3, <3>5, <4>1, Zenon
    <3> QED
      BY <3>4, <3>5
  <2> HIDE DEF n
  <2> QED
    BY <2>1, <2>2
<1>7. T \in SUBSET Nat
  OBVIOUS
<1>8. T = Nat
  <2> HIDE DEF T, n
  <2> QED
    BY <1>5, <1>6, <1>7, Induction
<1>9. {p \in held : p < n} = held
  BY <1>1
<1>10. f[n] \in BitfieldOf(n) /\ Indices(f[n]) = {p \in held : p < n}
  <2> HIDE DEF n
  <2> QED
    BY <1>1, <1>8
<1> QED
  BY <1>3, <1>9, <1>10, Zenon

\* What bytes say of pieces is what the bitfield they were taken from says.
LEMMA FromBytesIs ==
  ASSUME NEW n \in Nat, NEW bf \in BitfieldOf(n)
  PROVE  Indices(FromBytes(bf.data)) = Indices(bf)
<1> DEFINE s == bf.data
           l == Len(s)
           new == NewBitfield(8 * l)
           or == [i \in DOMAIN s |-> Or(new.data[i], s[i])]
<1>1. s \in Seq(Byte) /\ l \in Nat /\ DOMAIN s = 1 .. l
      /\ \A k \in 0 .. 8 * l - 1 : k \div 8 + 1 \in 1 .. l /\ ByteOf(bf, k) \in Byte
  BY BitfieldData
<1>2. new \in BitfieldOf(8 * l) /\ new.data = [i \in 1 .. l |-> 0] /\ Len(new.data) = l
  <2> HIDE DEF l
  <2>1. 8 * l \in Nat /\ (8 * l + 7) \div 8 = l
    BY <1>1
  <2>2. new \in BitfieldOf(8 * l)
    BY <2>1, NewBitfieldIs
  <2>3. new.data = [i \in 1 .. l |-> 0]
    BY <2>1 DEF NewBitfield
  <2>4. Len(new.data) = l
    BY <1>1, <2>3
  <2> QED
    BY <2>2, <2>3, <2>4
<1>3. FromBytes(s) = [new EXCEPT !.data = or]
  BY <1>2 DEF FromBytes, ExtendBytes
<1>4. FromBytes(s).data = or
  <2> HIDE DEF or
  <2>1. new = [data |-> new.data, pieces |-> new.pieces]
    BY DEF NewBitfield
  <2> HIDE DEF new
  <2> QED
    BY <1>3, <2>1
<1>5. Len(or) = l
  <2>1. DOMAIN or = 1 .. l
    BY <1>1
  <2>2. \A i \in 1 .. l : or[i] \in Byte
    <3> TAKE i \in 1 .. l
    <3>1. s[i] \in Byte /\ new.data[i] = 0 /\ 0 \in Byte
      <4>1. s[i] \in Byte
        BY <1>1
      <4>2. new.data[i] = 0
        BY <1>2
      <4> QED
        BY <4>1, <4>2 DEF Byte
    <3>2. or[i] = Or(0, s[i])
      BY <1>1, <3>1
    <3> QED
      BY <3>1, <3>2, OrBits
  <2>3. or \in [1 .. l -> Byte]
    <3>1. or = [i \in 1 .. l |-> or[i]]
      BY <1>1
    <3> HIDE DEF or
    <3> QED
      BY <2>2, <3>1
  <2> HIDE DEF or, l
  <2> QED
    BY <1>1, <2>3
<1>6. ASSUME NEW k \in 0 .. 8 * l - 1
      PROVE  HasBit(ByteOf(FromBytes(s), k), Mask(k)) <=> HasBit(ByteOf(bf, k), Mask(k))
  <2> DEFINE i == k \div 8 + 1
  <2>1. i \in 1 .. l /\ s[i] \in Byte /\ k \in Nat
    BY <1>1 DEF ByteOf
  <2>2. ByteOf(FromBytes(s), k) = Or(0, s[i])
    <3>1. or[i] = Or(new.data[i], s[i])
      BY <1>1, <2>1
    <3>2. new.data[i] = 0
      BY <1>2, <2>1
    <3> QED
      BY <1>4, <3>1, <3>2, Zenon DEF ByteOf
  <2>3. ByteOf(bf, k) = s[i]
    BY DEF ByteOf
  <2>4. Mask(k) \in Bit
    BY <2>1, MaskIs
  <2>5. 0 \in Byte /\ ~HasBit(0, Mask(k))
    BY <2>4 DEF Byte, Bit, HasBit
  <2> HIDE DEF i, s
  <2>6. HasBit(Or(0, s[i]), Mask(k)) <=> HasBit(0, Mask(k)) \/ HasBit(s[i], Mask(k))
    BY <2>1, <2>4, <2>5, OrBits, Zenon
  <2> QED
    BY <2>2, <2>3, <2>5, <2>6, Zenon
<1> HIDE DEF or, new
<1>7. Len(FromBytes(s).data) = l
  BY <1>4, <1>5
<1> QED
  BY <1>6, <1>7 DEF Indices


-----------------------------------------------------------------------------
\* Numbers as digits

\* The digits of a number are those of a tenth of it, and one more.
DigitsRule(f, n) ==
  f = [k \in 0 .. n |-> IF k < 10 THEN <<Zero + k>> ELSE Append(f[k \div 10], Zero + (k % 10))]

\* Of a number of two digits or more, all but the last is a smaller one.
LEMMA Tenth ==
  ASSUME NEW k \in Nat, k >= 10
  PROVE  k \div 10 \in Nat /\ 0 < k \div 10 /\ k \div 10 < k
OBVIOUS

\* The digits of the numbers so far are some function.
LEMMA DigitsExists ==
  \A n \in Nat : \E f : DigitsRule(f, n)
<1> DEFINE Step(f, k) == IF k < 10 THEN <<Zero + k>> ELSE Append(f[k \div 10], Zero + (k % 10))
           T == {n \in Nat : \E f : f = [k \in 0 .. n |-> Step(f, k)]}
<1>1. 0 \in T
  <2> DEFINE f == [k \in 0 .. 0 |-> <<Zero + k>>]
  <2>1. f = [k \in 0 .. 0 |-> Step(f, k)]
    OBVIOUS
  <2> HIDE DEF f
  <2> QED
    BY <2>1
<1>2. ASSUME NEW n \in T PROVE n + 1 \in T
  <2>1. PICK f : f = [k \in 0 .. n |-> Step(f, k)]
    OBVIOUS
  <2>2. n \in Nat
    OBVIOUS
  <2> DEFINE g == [k \in 0 .. n + 1 |-> Step(f, k)]
  <2> HIDE DEF T
  <2>3. ASSUME NEW k \in 0 .. n PROVE g[k] = f[k]
    <3>1. k \in 0 .. n + 1
      BY <2>2
    <3> HIDE DEF Step
    <3>2. g[k] = Step(f, k)
      BY <3>1
    <3>3. f[k] = Step(f, k)
      <4> HIDE DEF g
      <4> QED
        BY <2>1, Zenon
    <3> QED
      BY <3>2, <3>3, Zenon
  <2>4. ASSUME NEW k \in 0 .. n + 1 PROVE Step(f, k) = Step(g, k)
    <3>1. ~(k < 10) => k \div 10 \in 0 .. n
      BY <2>2, Tenth
    <3>2. ~(k < 10) => g[k \div 10] = f[k \div 10]
      <4> HIDE DEF g
      <4> QED
        BY <2>3, <3>1, Zenon
    <3> HIDE DEF g
    <3> QED
      BY <3>2, Zenon
  <2>5. g = [k \in 0 .. n + 1 |-> Step(g, k)]
    <3>1. g = [k \in 0 .. n + 1 |-> Step(f, k)]
      OBVIOUS
    <3> HIDE DEF g, Step
    <3> QED
      BY <2>4, <3>1
  <2> HIDE DEF g, Step
  <2> QED
    BY <2>2, <2>5 DEF T
<1>3. T \in SUBSET Nat
  OBVIOUS
<1>4. T = Nat
  <2> HIDE DEF T
  <2> QED
    BY <1>1, <1>2, <1>3, Induction
<1>5. ASSUME NEW n \in Nat PROVE \E f : DigitsRule(f, n)
  <2>1. PICK f : f = [k \in 0 .. n |-> Step(f, k)]
    <3> HIDE DEF Step
    <3> QED
      BY <1>4
  <2> QED
    BY <2>1, Zenon DEF DigitsRule
<1> QED
  BY <1>5

Text(n) == CHOOSE f : DigitsRule(f, n)

\* The digits of a number, by that function.
LEMMA DigitsIsText == \A n : Digits(n) = Text(n)[n]
BY Zenon DEF Digits, Text, DigitsRule

\* How the digits of a number follow from those of a tenth of it.
LEMMA TextSteps ==
  ASSUME NEW n \in Nat, NEW k \in 0 .. n
  PROVE  /\ k < 10 => Text(n)[k] = <<Zero + k>>
         /\ k >= 10 => Text(n)[k] = Append(Text(n)[k \div 10], Zero + (k % 10))
<1> DEFINE f == Text(n)
<1>1. DigitsRule(f, n)
  BY DigitsExists, Zenon DEF Text
<1> HIDE DEF f
<1>2. f[k] = IF k < 10 THEN <<Zero + k>> ELSE Append(f[k \div 10], Zero + (k % 10))
  BY <1>1, Zenon DEF DigitsRule
<1>3. k >= 10 <=> ~(k < 10)
  OBVIOUS
<1> QED
  BY <1>2, <1>3, Zenon DEF f

\* They do not depend on how many numbers are written.
LEMMA TextAgrees ==
  ASSUME NEW m \in Nat, NEW n \in Nat
  PROVE  \A k \in Nat : k <= m /\ k <= n => Text(m)[k] = Text(n)[k]
<1> DEFINE f == Text(m)
           g == Text(n)
           T == {j \in Nat : \A k \in 0 .. j : k <= m /\ k <= n => f[k] = g[k]}
<1>1. ASSUME NEW k \in Nat, k <= m, k <= n, k >= 10 => f[k \div 10] = g[k \div 10]
      PROVE  f[k] = g[k]
  <2>1. k \in 0 .. m /\ k \in 0 .. n
    BY <1>1
  <2>2. (k < 10 => f[k] = <<Zero + k>>) /\ (k >= 10 => f[k] = Append(f[k \div 10], Zero + (k % 10)))
    BY <2>1, TextSteps, Zenon
  <2>3. (k < 10 => g[k] = <<Zero + k>>) /\ (k >= 10 => g[k] = Append(g[k \div 10], Zero + (k % 10)))
    BY <2>1, TextSteps, Zenon
  <2>4. k < 10 \/ k >= 10
    OBVIOUS
  <2> HIDE DEF f, g
  <2> QED
    BY <1>1, <2>2, <2>3, <2>4, Zenon
<1> HIDE DEF f, g
<1>2. 0 \in T
  <2>1. \A k \in 0 .. 0 : k \in Nat /\ ~(k >= 10)
    OBVIOUS
  <2>2. \A k \in 0 .. 0 : k <= m /\ k <= n => f[k] = g[k]
    BY <1>1, <2>1
  <2> QED
    BY <2>2
<1>3. ASSUME NEW j \in T PROVE j + 1 \in T
  <2>1. j \in Nat /\ \A k \in 0 .. j : k <= m /\ k <= n => f[k] = g[k]
    OBVIOUS
  <2>2. ASSUME NEW k \in 0 .. j + 1, k <= m, k <= n PROVE f[k] = g[k]
    <3>1. k >= 10 => k \div 10 \in 0 .. j /\ k \div 10 <= m /\ k \div 10 <= n
      BY <2>1, <2>2, Tenth
    <3>2. k >= 10 => f[k \div 10] = g[k \div 10]
      BY <2>1, <3>1, Zenon
    <3>3. k \in Nat
      BY <2>1
    <3> QED
      BY <1>1, <2>2, <3>2, <3>3, Zenon
  <2> QED
    BY <2>1, <2>2
<1>4. T \in SUBSET Nat
  OBVIOUS
<1>5. T = Nat
  <2> HIDE DEF T
  <2> QED
    BY <1>2, <1>3, <1>4, Induction
<1>6. ASSUME NEW k \in Nat PROVE k <= m /\ k <= n => f[k] = g[k]
  <2>1. k \in T /\ k \in 0 .. k
    BY <1>5
  <2> QED
    BY <2>1
<1> QED
  BY <1>6 DEF f, g

\* So the digits of a number are those of a tenth of it and one more.
LEMMA DigitsSteps ==
  ASSUME NEW n \in Nat
  PROVE  /\ n < 10 => Digits(n) = <<Zero + n>>
         /\ n >= 10 => Digits(n) = Append(Digits(n \div 10), Zero + (n % 10))
<1>1. n \in 0 .. n
  OBVIOUS
<1>2. Digits(n) = Text(n)[n] /\ Digits(n \div 10) = Text(n \div 10)[n \div 10]
  BY DigitsIsText, Zenon
<1>3. (n < 10 => Text(n)[n] = <<Zero + n>>) /\ (n >= 10 => Text(n)[n] = Append(Text(n)[n \div 10], Zero + (n % 10)))
  BY <1>1, TextSteps, Zenon
<1>4. ASSUME n >= 10 PROVE Text(n)[n \div 10] = Text(n \div 10)[n \div 10]
  <2>1. n \div 10 \in Nat /\ n \div 10 <= n /\ n \div 10 <= n \div 10
    BY <1>4, Tenth
  <2> QED
    BY <2>1, TextAgrees
<1> QED
  BY <1>2, <1>3, <1>4, Zenon

-----------------------------------------------------------------------------
\* Digits as a number

NumberRule(f, digits, n) ==
  f = [k \in 0 .. n |-> IF k = 0 THEN 0 ELSE 10 * f[k - 1] + digits[k] - Zero]

\* The value of the digits so far is some function.
LEMMA NumberExists ==
  ASSUME NEW digits
  PROVE  \A n \in Nat : \E f : NumberRule(f, digits, n)
<1> DEFINE Step(f, k) == IF k = 0 THEN 0 ELSE 10 * f[k - 1] + digits[k] - Zero
           T == {n \in Nat : \E f : f = [k \in 0 .. n |-> Step(f, k)]}
<1>1. 0 \in T
  <2> DEFINE f == [k \in 0 .. 0 |-> 0]
  <2>1. f = [k \in 0 .. 0 |-> Step(f, k)]
    OBVIOUS
  <2> HIDE DEF f
  <2> QED
    BY <2>1
<1>2. ASSUME NEW n \in T PROVE n + 1 \in T
  <2>1. PICK f : f = [k \in 0 .. n |-> Step(f, k)]
    OBVIOUS
  <2>2. n \in Nat
    OBVIOUS
  <2> DEFINE g == [k \in 0 .. n + 1 |-> Step(f, k)]
  <2> HIDE DEF T
  <2>3. ASSUME NEW k \in 0 .. n PROVE g[k] = f[k]
    <3>1. k \in 0 .. n + 1
      BY <2>2
    <3> HIDE DEF Step
    <3>2. g[k] = Step(f, k)
      BY <3>1
    <3>3. f[k] = Step(f, k)
      <4> HIDE DEF g
      <4> QED
        BY <2>1, Zenon
    <3> QED
      BY <3>2, <3>3, Zenon
  <2>4. ASSUME NEW k \in 0 .. n + 1 PROVE Step(f, k) = Step(g, k)
    <3>1. k # 0 => k - 1 \in 0 .. n
      BY <2>2
    <3>2. k # 0 => g[k - 1] = f[k - 1]
      <4> HIDE DEF g
      <4> QED
        BY <2>3, <3>1, Zenon
    <3> HIDE DEF g
    <3> QED
      BY <3>2, Zenon
  <2>5. g = [k \in 0 .. n + 1 |-> Step(g, k)]
    <3>1. g = [k \in 0 .. n + 1 |-> Step(f, k)]
      OBVIOUS
    <3> HIDE DEF g, Step
    <3> QED
      BY <2>4, <3>1
  <2> HIDE DEF g, Step
  <2> QED
    BY <2>2, <2>5 DEF T
<1>3. T \in SUBSET Nat
  OBVIOUS
<1>4. T = Nat
  <2> HIDE DEF T
  <2> QED
    BY <1>1, <1>2, <1>3, Induction
<1>5. ASSUME NEW n \in Nat PROVE \E f : NumberRule(f, digits, n)
  <2>1. PICK f : f = [k \in 0 .. n |-> Step(f, k)]
    <3> HIDE DEF Step
    <3> QED
      BY <1>4
  <2> QED
    BY <2>1, Zenon DEF NumberRule
<1> QED
  BY <1>5

Value(digits, n) == CHOOSE f : NumberRule(f, digits, n)

\* How it follows, digit by digit.
LEMMA ValueSteps ==
  ASSUME NEW digits, NEW n \in Nat
  PROVE  /\ Value(digits, n)[0] = 0
         /\ \A k \in 0 .. n - 1 : Value(digits, n)[k + 1] = 10 * Value(digits, n)[k] + digits[k + 1] - Zero
<1> DEFINE f == Value(digits, n)
<1>1. NumberRule(f, digits, n)
  BY NumberExists, Zenon DEF Value
<1> HIDE DEF f
<1>2. ASSUME NEW k \in 0 .. n PROVE f[k] = IF k = 0 THEN 0 ELSE 10 * f[k - 1] + digits[k] - Zero
  BY <1>1, Zenon DEF NumberRule
<1>3. f[0] = 0
  <2>1. 0 \in 0 .. n
    OBVIOUS
  <2> QED
    BY <1>2, <2>1, Zenon
<1>4. ASSUME NEW k \in 0 .. n - 1 PROVE f[k + 1] = 10 * f[k] + digits[k + 1] - Zero
  <2>1. k + 1 \in 0 .. n /\ k + 1 # 0 /\ (k + 1) - 1 = k
    OBVIOUS
  <2>2. f[k + 1] = IF k + 1 = 0 THEN 0 ELSE 10 * f[(k + 1) - 1] + digits[k + 1] - Zero
    BY <1>2, <2>1, Zenon
  <2> QED
    BY <2>1, <2>2, Zenon
<1> QED
  BY <1>3, <1>4, Zenon DEF f

\* The number that is read is the value of all digits.
LEMMA NumberIsValue == \A digits : Number(digits) = Value(digits, Len(digits))[Len(digits)]
BY Zenon DEF Number, Value, NumberRule

\* The first digits come to the same, whatever follows.
LEMMA ValueAgrees ==
  ASSUME NEW m \in Nat, NEW n \in Nat, m <= n, NEW q, NEW r,
         \A k \in 1 .. m : q[k] \in Digit /\ q[k] = r[k]
  PROVE  \A k \in 0 .. m : Value(q, m)[k] \in Nat /\ Value(q, m)[k] = Value(r, n)[k]
<1> DEFINE f == Value(q, m)
           g == Value(r, n)
           T == {k \in Nat : k <= m => f[k] \in Nat /\ f[k] = g[k]}
<1>1. 0 \in T
  <2>1. f[0] = 0
    BY ValueSteps, Zenon
  <2>2. g[0] = 0
    BY ValueSteps, Zenon
  <2> HIDE DEF f, g
  <2> QED
    BY <2>1, <2>2
<1>2. ASSUME NEW k \in T PROVE k + 1 \in T
  <2>1. k \in Nat /\ (k <= m => f[k] \in Nat /\ f[k] = g[k])
    OBVIOUS
  <2>2. ASSUME k + 1 <= m PROVE f[k + 1] \in Nat /\ f[k + 1] = g[k + 1]
    <3>1. k \in 0 .. m - 1 /\ k \in 0 .. n - 1 /\ k <= m /\ k + 1 \in 1 .. m
      BY <2>1, <2>2
    <3>2. f[k + 1] = 10 * f[k] + q[k + 1] - Zero
      BY <3>1, ValueSteps, Zenon
    <3>3. g[k + 1] = 10 * g[k] + r[k + 1] - Zero
      BY <3>1, ValueSteps, Zenon
    <3>4. q[k + 1] \in Digit /\ q[k + 1] = r[k + 1]
      BY <3>1, Zenon
    <3>5. f[k] \in Nat /\ f[k] = g[k]
      BY <2>1, <3>1
    <3> HIDE DEF f, g
    <3>6. f[k + 1] = g[k + 1]
      BY <3>2, <3>3, <3>4, <3>5, Zenon
    <3>7. f[k + 1] \in Nat
      BY <3>2, <3>4, <3>5 DEF Digit, Zero, Nine
    <3> QED
      BY <3>6, <3>7
  <2> HIDE DEF f, g
  <2> QED
    BY <2>1, <2>2
<1>3. T \in SUBSET Nat
  OBVIOUS
<1>4. T = Nat
  <2> HIDE DEF T
  <2> QED
    BY <1>1, <1>2, <1>3, Induction
<1> HIDE DEF f, g
<1>5. \A k \in 0 .. m : f[k] \in Nat /\ f[k] = g[k]
  BY <1>4
<1> QED
  BY <1>5 DEF f, g

\* A number with one digit more is ten times as large and that digit.
LEMMA NumberSteps ==
  ASSUME NEW q \in Seq(Digit), NEW x \in Digit
  PROVE  /\ Number(<<>>) = 0
         /\ Number(q) \in Nat
         /\ Number(Append(q, x)) = 10 * Number(q) + x - Zero
<1> DEFINE n == Len(q)
           r == Append(q, x)
<1>1. Number(<<>>) = 0
  <2>1. Len(<<>>) = 0 /\ 0 \in Nat
    OBVIOUS
  <2>2. Number(<<>>) = Value(<<>>, Len(<<>>))[Len(<<>>)]
    BY NumberIsValue, Zenon
  <2>3. Value(<<>>, 0)[0] = 0
    BY <2>1, ValueSteps, Zenon
  <2> QED
    BY <2>1, <2>2, <2>3, Zenon
<1>2. /\ n \in Nat /\ n + 1 \in Nat /\ n <= n + 1 /\ Len(r) = n + 1 /\ n \in 0 .. (n + 1) - 1
      /\ r[n + 1] = x /\ n \in 0 .. n
  OBVIOUS
<1>3. \A k \in 1 .. n : q[k] \in Digit /\ q[k] = r[k]
  OBVIOUS
<1>4. Number(q) = Value(q, n)[n]
  BY NumberIsValue, Zenon
<1>5. Number(r) = Value(r, n + 1)[n + 1]
  BY <1>2, NumberIsValue, Zenon
<1> HIDE DEF n, r
<1>6. Value(r, n + 1)[n + 1] = 10 * Value(r, n + 1)[n] + r[n + 1] - Zero
  BY <1>2, ValueSteps, Zenon
<1>7. Value(q, n)[n] \in Nat /\ Value(q, n)[n] = Value(r, n + 1)[n]
  BY <1>2, <1>3, ValueAgrees
<1> QED
  BY <1>1, <1>2, <1>4, <1>5, <1>6, <1>7, Zenon DEF r

\* The digits of a number are read as that number, and none is put in front.
LEMMA DigitsRead ==
  \A n \in Nat :
    /\ Digits(n) \in Seq(Digit) /\ Digits(n) # <<>> /\ Len(Digits(n)) <= n \div 10 + 1
    /\ Number(Digits(n)) = n
    /\ n # 0 => Digits(n)[1] # Zero
<1> DEFINE P(n) == /\ Digits(n) \in Seq(Digit) /\ Len(Digits(n)) >= 1 /\ Len(Digits(n)) <= n \div 10 + 1
                   /\ Number(Digits(n)) = n
                   /\ n # 0 => Digits(n)[1] # Zero
           T == {n \in Nat : \A k \in 0 .. n : P(k)}
<1>1. ASSUME NEW n \in Nat, n < 10 PROVE P(n)
  <2> DEFINE x == Zero + n
  <2>1. x \in Digit /\ (n # 0 => x # Zero) /\ n \div 10 = 0
    BY <1>1 DEF Digit, Zero, Nine
  <2>2. Digits(n) = <<x>>
    BY <1>1, DigitsSteps, Zenon
  <2>3. Number(<<x>>) = 10 * 0 + x - Zero
    <3>1. <<>> \in Seq(Digit) /\ Append(<<>>, x) = <<x>>
      OBVIOUS
    <3> HIDE DEF x
    <3> QED
      BY <2>1, <3>1, NumberSteps, Zenon
  <2>4. 10 * 0 + x - Zero = n
    BY DEF Zero
  <2> HIDE DEF x
  <2> QED
    BY <2>1, <2>2, <2>3, <2>4
<1>2. ASSUME NEW n \in Nat, n >= 10, P(n \div 10) PROVE P(n)
  <2> DEFINE m == n \div 10
             q == Digits(m)
             x == Zero + (n % 10)
  <2>1. /\ m \in Nat /\ m # 0 /\ n = 10 * m + (n % 10) /\ m >= 1 /\ m \div 10 + 1 <= m
        /\ n % 10 \in 0 .. 9
    BY <1>2
  <2>2. x \in Digit /\ 10 * m + x - Zero = n
    BY <2>1 DEF Digit, Zero, Nine
  <2>3. Digits(n) = Append(q, x)
    BY <1>2, DigitsSteps, Zenon
  <2>4. q \in Seq(Digit) /\ Len(q) >= 1 /\ Len(q) <= m \div 10 + 1 /\ Number(q) = m /\ q[1] # Zero
    BY <1>2, <2>1
  <2> HIDE DEF x, q, m
  <2>5. Number(Append(q, x)) = 10 * Number(q) + x - Zero
    BY <2>2, <2>4, NumberSteps, Zenon
  <2>6. Number(Append(q, x)) = n
    BY <2>2, <2>4, <2>5, Zenon
  <2>7. Append(q, x) \in Seq(Digit) /\ Len(Append(q, x)) = Len(q) + 1 /\ Append(q, x)[1] = q[1]
    BY <2>2, <2>4
  <2>8. Len(q) + 1 >= 1 /\ Len(q) + 1 <= m + 1
    BY <2>1, <2>4
  <2>9. Digits(n) \in Seq(Digit) /\ Len(Digits(n)) = Len(q) + 1 /\ Number(Digits(n)) = n /\ Digits(n)[1] # Zero
    BY <2>3, <2>4, <2>6, <2>7, Zenon
  <2>10. Len(Digits(n)) >= 1 /\ Len(Digits(n)) <= n \div 10 + 1
    BY <2>8, <2>9 DEF m
  <2> QED
    BY <2>9, <2>10, Zenon
<1> HIDE DEF P
<1>3. 0 \in T
  <2>1. \A k \in 0 .. 0 : k \in Nat /\ k < 10
    OBVIOUS
  <2>2. \A k \in 0 .. 0 : P(k)
    BY <1>1, <2>1, Zenon
  <2> QED
    BY <2>2
<1>4. ASSUME NEW n \in T PROVE n + 1 \in T
  <2>1. n \in Nat /\ \A k \in 0 .. n : P(k)
    OBVIOUS
  <2>2. ASSUME NEW k \in 0 .. n + 1 PROVE P(k)
    <3>1. k \in Nat /\ (k < 10 \/ k >= 10)
      BY <2>1
    <3>2. k >= 10 => k \div 10 \in 0 .. n
      BY <2>1, Tenth
    <3> QED
      BY <1>1, <1>2, <2>1, <3>1, <3>2, Zenon
  <2> QED
    BY <2>1, <2>2
<1>5. T \in SUBSET Nat
  OBVIOUS
<1>6. T = Nat
  <2> HIDE DEF T
  <2> QED
    BY <1>3, <1>4, <1>5, Induction
<1>7. ASSUME NEW n \in Nat PROVE P(n)
  <2>1. n \in T /\ n \in 0 .. n
    BY <1>6
  <2> QED
    BY <2>1
<1> QED
  BY <1>7 DEF P

-----------------------------------------------------------------------------
\* Numbers and byte strings, read where they are

\* Where a run of bytes ends (Decoder::parse_len).
LEMMA PastIs ==
  ASSUME NEW set, NEW s, Len(s) \in Nat, NEW i \in Nat, NEW j \in i .. Len(s) + 1,
         At(s, j) \notin set, \A k \in i .. j - 1 : At(s, k) \in set
  PROVE  Past(set, s, i) = j
<1> DEFINE S == {k \in i .. Len(s) + 1 : At(s, k) \notin set}
<1>1. j \in S
  OBVIOUS
<1>2. ASSUME NEW k \in S PROVE j <= k
  <2>1. k \in i .. Len(s) + 1 /\ At(s, k) \notin set
    OBVIOUS
  <2>2. ~(k \in i .. j - 1)
    BY <2>1
  <2> QED
    BY <2>1, <2>2
<1>3. \A k \in S : k \in Nat
  OBVIOUS
<1> HIDE DEF S
<1>4. \A k \in S : (\A l \in S : k <= l) => k = j
  BY <1>1, <1>2, <1>3
<1>5. Min(S) = j
  BY <1>1, <1>2, <1>4 DEF Min
<1> QED
  BY <1>5 DEF Past, S

\* Three sequences one after the other.
LEMMA ConcatThree ==
  ASSUME NEW B, NEW u \in Seq(B), NEW v \in Seq(B), NEW w \in Seq(B)
  PROVE  /\ u \o v \in Seq(B) /\ Len(u \o v) = Len(u) + Len(v)
         /\ (u \o v) \o w \in Seq(B) /\ Len((u \o v) \o w) = Len(u) + Len(v) + Len(w)
         /\ Len(u) \in Nat /\ Len(v) \in Nat /\ Len(w) \in Nat
<1>1. u \o v \in Seq(B) /\ Len(u \o v) = Len(u) + Len(v)
  OBVIOUS
<1> DEFINE x == u \o v
<1> HIDE DEF x
<1>2. x \in Seq(B)
  BY <1>1 DEF x
<1>3. x \o w \in Seq(B) /\ Len(x \o w) = Len(x) + Len(w)
  BY <1>2
<1>4. Len(u) \in Nat /\ Len(v) \in Nat /\ Len(w) \in Nat
  OBVIOUS
<1> QED
  BY <1>1, <1>3, <1>4, Zenon DEF x

\* A sequence of one byte.
LEMMA OneByte ==
  ASSUME NEW b \in Byte
  PROVE  <<b>> \in Seq(Byte) /\ Len(<<b>>) = 1 /\ <<b>>[1] = b
OBVIOUS

\* The bytes that mark what follows are no digits, and differ.
LEMMA Markers ==
  /\ CharI \in Byte /\ CharE \in Byte /\ CharD \in Byte /\ Colon \in Byte
  /\ CharI \notin Digit /\ CharE \notin Digit /\ CharD \notin Digit /\ Colon \notin Digit
  /\ CharI # CharE /\ CharI # CharD /\ CharE # CharD /\ CharL \notin {CharI, CharE, CharD} \cup Digit
  /\ Plus \notin Digit /\ Minus \notin Digit /\ Digit \subseteq Byte
BY DEF CharI, CharE, CharD, CharL, Colon, Plus, Minus, Digit, Zero, Nine, Byte

\* What is encoded is made of bytes.
LEMMA EncodedTypes ==
  /\ \A n \in Nat : EncodeInt(n) \in Seq(Byte) /\ Len(EncodeInt(n)) = Len(Digits(n)) + 2
  /\ \A w \in Seq(Byte) :
       ByteString(w) \in Seq(Byte) /\ Len(ByteString(w)) = Len(Digits(Len(w))) + 1 + Len(w)
  /\ \A n \in Nat : Digits(n) \in Seq(Byte) /\ Decimal(n) = Digits(n)
<1>1. ASSUME NEW n \in Nat PROVE Digits(n) \in Seq(Byte) /\ Decimal(n) = Digits(n)
  <2>1. Digits(n) \in Seq(Digit) /\ Digit \subseteq Byte
    BY DigitsRead DEF Digit, Byte, Zero, Nine
  <2>2. Digits(n) \in Seq(Byte)
    BY <2>1, SeqMonotonic
  <2> QED
    BY <2>2 DEF Decimal
<1>2. CharI \in Byte /\ CharE \in Byte /\ Colon \in Byte
  BY DEF CharI, CharE, Colon, Byte
<1>3. ASSUME NEW n \in Nat PROVE EncodeInt(n) \in Seq(Byte) /\ Len(EncodeInt(n)) = Len(Digits(n)) + 2
  <2>1. <<CharI>> \in Seq(Byte) /\ Len(<<CharI>>) = 1 /\ <<CharE>> \in Seq(Byte) /\ Len(<<CharE>>) = 1
    BY <1>2, OneByte
  <2>2. EncodeInt(n) = (<<CharI>> \o Digits(n)) \o <<CharE>>
    BY <1>1, Zenon DEF EncodeInt
  <2>3. /\ (<<CharI>> \o Digits(n)) \o <<CharE>> \in Seq(Byte)
        /\ Len((<<CharI>> \o Digits(n)) \o <<CharE>>) = Len(<<CharI>>) + Len(Digits(n)) + Len(<<CharE>>)
        /\ Len(Digits(n)) \in Nat
    BY <1>1, <2>1, ConcatThree
  <2>4. Len(<<CharI>>) + Len(Digits(n)) + Len(<<CharE>>) = Len(Digits(n)) + 2
    BY <2>1, <2>3
  <2> QED
    BY <2>2, <2>3, <2>4, Zenon
<1>4. ASSUME NEW w \in Seq(Byte)
      PROVE  ByteString(w) \in Seq(Byte) /\ Len(ByteString(w)) = Len(Digits(Len(w))) + 1 + Len(w)
  <2>1. Len(w) \in Nat /\ Digits(Len(w)) \in Seq(Byte) /\ Decimal(Len(w)) = Digits(Len(w))
    BY <1>1
  <2> QED
    BY <1>2, <2>1 DEF ByteString
<1> QED
  BY <1>1, <1>3, <1>4

\* The digits of a number are read as that number, and have no zero before them.
LEMMA DigitsOf ==
  ASSUME NEW n \in Nat
  PROVE  /\ Digits(n) \in Seq(Byte) /\ Digits(n) \in Seq(Digit) /\ Digits(n) # <<>>
         /\ Len(Digits(n)) \in Nat /\ Len(Digits(n)) >= 1
         /\ Number(Digits(n)) = n /\ (n # 0 => Digits(n)[1] # Zero)
         /\ (Len(Digits(n)) > 1 => n # 0)
<1>1. /\ Digits(n) \in Seq(Digit) /\ Digits(n) # <<>> /\ Len(Digits(n)) <= n \div 10 + 1
      /\ Number(Digits(n)) = n /\ (n # 0 => Digits(n)[1] # Zero)
  BY DigitsRead, Zenon
<1>2. Digits(n) \in Seq(Byte)
  BY EncodedTypes, Zenon
<1>3. Len(Digits(n)) \in Nat /\ Len(Digits(n)) >= 1
  BY <1>1
<1>4. Len(Digits(n)) > 1 => n # 0
  BY <1>1, <1>3
<1> QED
  BY <1>1, <1>2, <1>3, <1>4, Zenon

\* At the place of a word there are its bytes.
LEMMA HoldsAt ==
  ASSUME NEW B, NEW s \in Seq(B), NEW i \in Nat \ {0}, NEW w \in Seq(B), Holds(s, i, w)
  PROVE  \A k \in 1 .. Len(w) : At(s, i - 1 + k) = w[k] /\ i - 1 + k \in 1 .. Len(s)
<1> TAKE k \in 1 .. Len(w)
<1>1. s[i - 1 + k] = w[k] /\ i - 1 + Len(w) <= Len(s)
  BY DEF Holds
<1>2. i - 1 + k \in 1 .. Len(s)
  BY <1>1
<1> QED
  BY <1>1, <1>2 DEF At

\* A sequence that holds one byte has it there.
LEMMA HoldsByte ==
  ASSUME NEW s \in Seq(Byte), NEW i \in Nat \ {0}, NEW b \in Byte, Holds(s, i, <<b>>)
  PROVE  At(s, i) = b /\ i \in 1 .. Len(s)
<1>1. <<b>> \in Seq(Byte) /\ Len(<<b>>) = 1 /\ <<b>>[1] = b /\ 1 \in 1 .. 1 /\ i - 1 + 1 = i
  OBVIOUS
<1>2. \A k \in 1 .. Len(<<b>>) : At(s, i - 1 + k) = <<b>>[k] /\ i - 1 + k \in 1 .. Len(s)
  BY <1>1, HoldsAt
<1> QED
  BY <1>1, <1>2, Zenon

\* Three words in a row.
LEMMA HoldsThree ==
  ASSUME NEW B, NEW s \in Seq(B), NEW i \in Nat \ {0}, NEW u \in Seq(B), NEW v \in Seq(B),
         NEW w \in Seq(B), Holds(s, i, (u \o v) \o w)
  PROVE  /\ Holds(s, i, u) /\ Holds(s, i + Len(u), v) /\ Holds(s, i + Len(u) + Len(v), w)
         /\ i + Len(u) \in Nat \ {0} /\ i + Len(u) + Len(v) \in Nat \ {0}
<1> DEFINE x == u \o v
<1>1. x \in Seq(B) /\ Len(x) = Len(u) + Len(v) /\ Len(u) \in Nat /\ Len(v) \in Nat
  BY ConcatThree
<1>2. Holds(s, i, x \o w)
  OBVIOUS
<1> HIDE DEF x
<1>3. Holds(s, i, x) /\ Holds(s, i + Len(x), w)
  BY <1>1, <1>2, HoldsSplit
<1>4. Holds(s, i, u \o v)
  BY <1>3 DEF x
<1>5. Holds(s, i, u) /\ Holds(s, i + Len(u), v)
  BY <1>4, HoldsSplit
<1>6. /\ i + Len(x) = i + Len(u) + Len(v)
      /\ i + Len(u) \in Nat \ {0} /\ i + Len(u) + Len(v) \in Nat \ {0}
  BY <1>1
<1> QED
  BY <1>3, <1>5, <1>6, Zenon

\* What ParseInt makes of the text t, of which e is the end.
TextRead(s, e, t) ==
  LET signed == At(t, 1) \in {Plus, Minus}
      digits == IF signed THEN Tail(t) ELSE t
      n      == Number(digits)
  IN  IF /\ e <= Len(s)
         /\ digits # <<>> /\ Range(digits) \subseteq Digit
         /\ ~(At(t, 1) = Minus /\ At(t, 2) = Zero)
         /\ ~(At(t, 1) = Zero /\ Len(t) > 1)
      THEN Decoded(Integer(IF At(t, 1) = Minus THEN -n ELSE n), e + 1)
      ELSE Refused

\* And that is what it makes of the bytes up to the end marker.
LEMMA ParseIntIs ==
  ASSUME NEW s, NEW i
  PROVE  LET end == Past(0 .. 255 \ {CharE}, s, i + 1)
         IN  ParseInt(s, i) = TextRead(s, end, SubSeq(s, i + 1, end - 1))
BY Zenon DEF ParseInt, TextRead

\* The bytes of s after the i-th and before the end marker at end are the unsigned text d,
IsUnsigned(s, i, end, d) ==
  /\ Past(0 .. 255 \ {CharE}, s, i + 1) = end /\ SubSeq(s, i + 1, end - 1) = d
  /\ end <= Len(s) /\ d # <<>> /\ Range(d) \subseteq Digit
  /\ At(d, 1) \notin {Plus, Minus} /\ At(d, 1) # Minus /\ ~(At(d, 1) = Zero /\ Len(d) > 1)

\* and this is what they are read as.
LEMMA UnsignedRead ==
  ASSUME NEW s, NEW i, NEW end, NEW d, IsUnsigned(s, i, end, d)
  PROVE  ParseInt(s, i) = Decoded(Integer(Number(d)), end + 1)
<1> DEFINE Lead(t) == At(t, 1)
           digits == IF Lead(d) \in {Plus, Minus} THEN Tail(d) ELSE d
           sound  == /\ end <= Len(s)
                     /\ digits # <<>> /\ Range(digits) \subseteq Digit
                     /\ ~(Lead(d) = Minus /\ At(d, 2) = Zero)
                     /\ ~(Lead(d) = Zero /\ Len(d) > 1)
           value  == IF Lead(d) = Minus THEN -Number(digits) ELSE Number(digits)
<1>0. /\ Past(0 .. 255 \ {CharE}, s, i + 1) = end /\ SubSeq(s, i + 1, end - 1) = d
      /\ end <= Len(s) /\ d # <<>> /\ Range(d) \subseteq Digit
      /\ At(d, 1) \notin {Plus, Minus} /\ At(d, 1) # Minus /\ ~(At(d, 1) = Zero /\ Len(d) > 1)
  BY Zenon DEF IsUnsigned
<1>1. ParseInt(s, i) = IF sound THEN Decoded(Integer(value), end + 1) ELSE Refused
  <2>1. ParseInt(s, i) = TextRead(s, end, d)
    <3>1. Past(0 .. 255 \ {CharE}, s, i + 1) = end /\ SubSeq(s, i + 1, end - 1) = d
      BY <1>0, Zenon
    <3> QED
      BY <3>1, ParseIntIs, Zenon
  <2>2. TextRead(s, end, d) = IF sound THEN Decoded(Integer(value), end + 1) ELSE Refused
    BY Zenon DEF TextRead
  <2> HIDE DEF sound, value
  <2> QED
    BY <2>1, <2>2, Zenon
<1>2. digits = d
  BY <1>0, SMT
<1>3. value = Number(d)
  <2> HIDE DEF digits
  <2> QED
    BY <1>0, <1>2, SMT
<1>4. sound
  <2> HIDE DEF digits
  <2> QED
    BY <1>0, <1>2, SMT
<1> HIDE DEF sound, value
<1> QED
  BY <1>1, <1>3, <1>4, SMT

\* An integer is read as what it was written from (Decoder::parse_int).
LEMMA ParseIntReads ==
  ASSUME NEW s \in Seq(Byte), NEW i \in Nat \ {0}, NEW n \in Nat, Holds(s, i, EncodeInt(n))
  PROVE  ParseInt(s, i) = Decoded(Integer(n), i + Len(EncodeInt(n))) /\ At(s, i) = CharI
<1> DEFINE d == Digits(n)
           end == i + 1 + Len(d)
<1>1. /\ d \in Seq(Byte) /\ d \in Seq(Digit) /\ d # <<>> /\ Len(d) \in Nat /\ Len(d) >= 1
      /\ Number(d) = n /\ (n # 0 => d[1] # Zero) /\ (Len(d) > 1 => n # 0)
  BY DigitsOf
<1>2. <<CharI>> \in Seq(Byte) /\ Len(<<CharI>>) = 1 /\ <<CharE>> \in Seq(Byte)
  BY Markers, OneByte
<1>3. EncodeInt(n) = (<<CharI>> \o d) \o <<CharE>>
  BY EncodedTypes, Zenon DEF EncodeInt
<1> HIDE DEF d
<1>4. Holds(s, i, (<<CharI>> \o d) \o <<CharE>>)
  BY <1>3, Zenon
<1>5. Holds(s, i, <<CharI>>) /\ Holds(s, i + 1, d) /\ Holds(s, end, <<CharE>>)
  BY <1>1, <1>2, <1>4, HoldsThree
<1>6. i + 1 \in Nat \ {0} /\ end \in Nat \ {0}
  BY <1>1
<1>7. At(s, i) = CharI /\ At(s, end) = CharE /\ end <= Len(s)
  <2> HIDE DEF end
  <2>1. At(s, i) = CharI
    BY <1>5, Markers, HoldsByte
  <2>2. At(s, end) = CharE /\ end \in 1 .. Len(s)
    BY <1>5, <1>6, Markers, HoldsByte
  <2> QED
    BY <2>1, <2>2
<1>8. \A k \in 1 .. Len(d) : At(s, (i + 1) - 1 + k) = d[k] /\ d[k] \in Digit
  BY <1>1, <1>5, <1>6, HoldsAt
<1>9. Past(0 .. 255 \ {CharE}, s, i + 1) = end
  <2>1. ASSUME NEW k \in i + 1 .. end - 1 PROVE At(s, k) \in 0 .. 255 \ {CharE}
    <3>1. k - i \in 1 .. Len(d) /\ (i + 1) - 1 + (k - i) = k
      BY <1>1
    <3>2. At(s, k) \in Digit
      BY <1>8, <3>1
    <3> QED
      BY <3>2 DEF Digit, Zero, Nine, CharE
  <2>2. end \in i + 1 .. Len(s) + 1 /\ i + 1 \in Nat /\ Len(s) \in Nat
    BY <1>1, <1>6, <1>7
  <2>3. At(s, end) \notin 0 .. 255 \ {CharE}
    BY <1>7
  <2> DEFINE set == 0 .. 255 \ {CharE}
  <2>4. \A k \in i + 1 .. end - 1 : At(s, k) \in set
    BY <2>1
  <2>5. At(s, end) \notin set
    BY <2>3
  <2> HIDE DEF end, set
  <2>6. Past(set, s, i + 1) = end
    BY <2>2, <2>4, <2>5, PastIs
  <2> QED
    BY <2>6, Zenon DEF set
<1>10. SubSeq(s, i + 1, end - 1) = d
  <2>1. SubSeq(s, i + 1, (i + 1) + Len(d) - 1) = d
    BY <1>1, <1>5, <1>6, HoldsCut
  <2>2. (i + 1) + Len(d) - 1 = end - 1
    BY <1>1
  <2> QED
    BY <2>1, <2>2, Zenon
<1>11. d[1] \in Digit /\ At(d, 1) = d[1]
  BY <1>1 DEF At
<1>12. At(d, 1) \notin {Plus, Minus}
  BY <1>11 DEF Digit, Zero, Nine, Plus, Minus
<1>13. Range(d) \subseteq Digit
  BY <1>1, RangeOfSeq DEF Range
<1>14. ~(At(d, 1) = Zero /\ Len(d) > 1)
  BY <1>1, <1>11
<1>15. end + 1 = i + Len(EncodeInt(n))
  <2>1. Len(EncodeInt(n)) = Len(d) + 2
    BY EncodedTypes DEF d
  <2> QED
    BY <1>1, <2>1
<1> HIDE DEF end
<1>16. ParseInt(s, i) = Decoded(Integer(n), end + 1)
  <2>1. /\ end <= Len(s) /\ d # <<>> /\ At(d, 1) # Minus
    BY <1>1, <1>7, <1>12
  <2>2. IsUnsigned(s, i, end, d)
    BY <1>9, <1>10, <1>12, <1>13, <1>14, <2>1, Zenon DEF IsUnsigned
  <2> QED
    BY <1>1, <2>2, UnsignedRead, Zenon
<1> QED
  BY <1>7, <1>15, <1>16

\* And so is a byte string (Decoder::parse_bytes).
LEMMA ParseBytesReads ==
  ASSUME NEW s \in Seq(Byte), NEW i \in Nat \ {0}, NEW w \in Seq(Byte), Holds(s, i, ByteString(w))
  PROVE  /\ ParseBytes(s, i) = Decoded(Bytes(w), i + Len(ByteString(w)))
         /\ At(s, i) \in Digit
<1> DEFINE d == Digits(Len(w))
           colon == i + Len(d)
           end == colon + Len(w)
<1>1. /\ d \in Seq(Byte) /\ d \in Seq(Digit) /\ d # <<>> /\ Len(d) \in Nat /\ Len(d) >= 1
      /\ Number(d) = Len(w) /\ Len(w) \in Nat
  <2>1. Len(w) \in Nat
    OBVIOUS
  <2> QED
    BY <2>1, DigitsOf, Zenon
<1>2. <<Colon>> \in Seq(Byte) /\ Len(<<Colon>>) = 1
  BY Markers, OneByte
<1>3. ByteString(w) = (d \o <<Colon>>) \o w
  BY <1>1, EncodedTypes, Zenon DEF ByteString
<1> HIDE DEF d
<1>4. Holds(s, i, (d \o <<Colon>>) \o w)
  BY <1>3, Zenon
<1>5. Holds(s, i, d) /\ Holds(s, colon, <<Colon>>) /\ Holds(s, colon + 1, w)
  BY <1>1, <1>2, <1>4, HoldsThree
<1>6. colon \in Nat \ {0} /\ colon + 1 \in Nat \ {0} /\ colon > i /\ end \in Nat
  BY <1>1
<1>7. At(s, colon) = Colon /\ colon <= Len(s)
  <2> HIDE DEF colon
  <2>1. At(s, colon) = Colon /\ colon \in 1 .. Len(s)
    BY <1>5, <1>6, Markers, HoldsByte
  <2> QED
    BY <2>1
<1>8. \A k \in 1 .. Len(d) : At(s, i - 1 + k) = d[k] /\ d[k] \in Digit
  BY <1>1, <1>5, <1>6, HoldsAt
<1>9. Past(Digit, s, i) = colon
  <2>1. ASSUME NEW k \in i .. colon - 1 PROVE At(s, k) \in Digit
    <3>1. k - i + 1 \in 1 .. Len(d) /\ i - 1 + (k - i + 1) = k
      BY <1>1
    <3> QED
      BY <1>8, <3>1
  <2>2. colon \in i .. Len(s) + 1 /\ i \in Nat /\ Len(s) \in Nat
    BY <1>1, <1>6, <1>7
  <2>3. At(s, colon) \notin Digit
    BY <1>7 DEF Colon, Digit, Zero, Nine
  <2> HIDE DEF colon
  <2> QED
    BY <2>1, <2>2, <2>3, PastIs
<1>10. SubSeq(s, i, colon - 1) = d
  <2>1. SubSeq(s, i, i + Len(d) - 1) = d
    BY <1>1, <1>5, HoldsCut
  <2>2. i + Len(d) - 1 = colon - 1
    BY <1>1
  <2> QED
    BY <2>1, <2>2, Zenon
<1>11. SubSeq(s, colon + 1, end) = w
  <2>1. SubSeq(s, colon + 1, (colon + 1) + Len(w) - 1) = w
    BY <1>5, <1>6, HoldsCut
  <2>2. (colon + 1) + Len(w) - 1 = end
    BY <1>1
  <2> QED
    BY <2>1, <2>2, Zenon
<1>12. end <= Len(s)
  <2>1. colon + 1 - 1 + Len(w) <= Len(s)
    BY <1>5 DEF Holds
  <2> QED
    BY <1>1, <2>1
<1>13. end + 1 = i + Len(ByteString(w))
  <2>1. Len(ByteString(w)) = Len(d) + 1 + Len(w)
    BY EncodedTypes DEF d
  <2> QED
    BY <1>1, <2>1
<1>14. At(s, i) \in Digit
  <2>1. 1 \in 1 .. Len(d) /\ i - 1 + 1 = i
    BY <1>1
  <2> QED
    BY <1>8, <2>1
<1> HIDE DEF colon, end
<1>15. ParseBytes(s, i) = Decoded(Bytes(w), end + 1)
  <2>1. colon + Number(d) = end
    BY <1>1 DEF end
  <2> QED
    BY <1>6, <1>7, <1>9, <1>10, <1>11, <1>12, <2>1, Zenon DEF ParseBytes
<1> QED
  BY <1>13, <1>14, <1>15

-----------------------------------------------------------------------------
\* Calls of the decoder, one within another

Nothing(s) == [i \in 1 .. Len(s) + 1 |-> Refused]
NoCalls(s) == [value |-> Nothing(s), items |-> Nothing(s), entries |-> Nothing(s)]
CallsOver(s, deeper) ==
  [value   |-> [i \in 1 .. Len(s) + 1 |-> Parse(s, i, deeper)],
   items   |-> [i \in 1 .. Len(s) + 1 |-> ParseItems(s, i, deeper)],
   entries |-> [i \in 1 .. Len(s) + 1 |-> ParseEntries(s, i, deeper)]]
CallsRule(f, s, n) ==
  f = [k \in 0 .. n |-> IF k = 0 THEN NoCalls(s) ELSE CallsOver(s, f[k - 1])]

\* The results of calls of some depth are some function of the depth.
LEMMA CallsExist ==
  ASSUME NEW s
  PROVE  \A n \in Nat : \E f : CallsRule(f, s, n)
<1> DEFINE Step(f, k) == IF k = 0 THEN NoCalls(s) ELSE CallsOver(s, f[k - 1])
           T == {n \in Nat : \E f : f = [k \in 0 .. n |-> Step(f, k)]}
<1>1. 0 \in T
  <2> DEFINE f == [k \in 0 .. 0 |-> NoCalls(s)]
  <2>1. f = [k \in 0 .. 0 |-> Step(f, k)]
    OBVIOUS
  <2> HIDE DEF f
  <2> QED
    BY <2>1
<1>2. ASSUME NEW n \in T PROVE n + 1 \in T
  <2>1. PICK f : f = [k \in 0 .. n |-> Step(f, k)]
    OBVIOUS
  <2>2. n \in Nat
    OBVIOUS
  <2> DEFINE g == [k \in 0 .. n + 1 |-> Step(f, k)]
  <2> HIDE DEF T
  <2>3. ASSUME NEW k \in 0 .. n PROVE g[k] = f[k]
    <3>1. k \in 0 .. n + 1
      BY <2>2
    <3> HIDE DEF Step
    <3>2. g[k] = Step(f, k)
      BY <3>1
    <3>3. f[k] = Step(f, k)
      <4> HIDE DEF g
      <4> QED
        BY <2>1, Zenon
    <3> QED
      BY <3>2, <3>3, Zenon
  <2>4. ASSUME NEW k \in 0 .. n + 1 PROVE Step(f, k) = Step(g, k)
    <3>1. k # 0 => k - 1 \in 0 .. n
      BY <2>2
    <3>2. k # 0 => g[k - 1] = f[k - 1]
      <4> HIDE DEF g
      <4> QED
        BY <2>3, <3>1, Zenon
    <3> HIDE DEF g
    <3> QED
      BY <3>2, Zenon
  <2>5. g = [k \in 0 .. n + 1 |-> Step(g, k)]
    <3>1. g = [k \in 0 .. n + 1 |-> Step(f, k)]
      OBVIOUS
    <3> HIDE DEF g, Step
    <3> QED
      BY <2>4, <3>1
  <2> HIDE DEF g, Step
  <2> QED
    BY <2>2, <2>5 DEF T
<1>3. T \in SUBSET Nat
  OBVIOUS
<1>4. T = Nat
  <2> HIDE DEF T
  <2> QED
    BY <1>1, <1>2, <1>3, Induction
<1>5. ASSUME NEW n \in Nat PROVE \E f : CallsRule(f, s, n)
  <2>1. PICK f : f = [k \in 0 .. n |-> Step(f, k)]
    <3> HIDE DEF Step
    <3> QED
      BY <1>4
  <2> QED
    BY <2>1, Zenon DEF CallsRule
<1> QED
  BY <1>5

Depth(s) == 2 * Len(s) + 2

\* A call of some depth reads with those one deeper.
LEMMA CallsSteps ==
  ASSUME NEW s, Len(s) \in Nat, NEW n \in 1 .. Depth(s), NEW i \in 1 .. Len(s) + 1
  PROVE  /\ Calls(s)[n].value[i] = Parse(s, i, Calls(s)[n - 1])
         /\ Calls(s)[n].entries[i] = ParseEntries(s, i, Calls(s)[n - 1])
<1> DEFINE f == Calls(s)
<1>1. Depth(s) \in Nat
  BY DEF Depth
<1>2. f = CHOOSE g : CallsRule(g, s, Depth(s))
  BY Zenon DEF Calls, CallsRule, Depth, NoCalls, Nothing, CallsOver
<1>3. CallsRule(f, s, Depth(s))
  BY <1>1, <1>2, CallsExist, Zenon
<1> HIDE DEF f
<1>4. n \in 0 .. Depth(s) /\ n # 0
  BY <1>1
<1>5. f[n] = CallsOver(s, f[n - 1])
  BY <1>3, <1>4, Zenon DEF CallsRule
<1>6. f[n].value[i] = Parse(s, i, f[n - 1]) /\ f[n].entries[i] = ParseEntries(s, i, f[n - 1])
  BY <1>5 DEF CallsOver
<1> QED
  BY <1>6 DEF f

\* A number and a byte string, wherever they are.
LEMMA ValueOfInt ==
  ASSUME NEW s \in Seq(Byte), NEW n \in 1 .. Depth(s), NEW i \in Nat \ {0},
         NEW k \in Nat, Holds(s, i, EncodeInt(k))
  PROVE  Calls(s)[n].value[i] = Decoded(Integer(k), i + Len(EncodeInt(k)))
<1>1. ParseInt(s, i) = Decoded(Integer(k), i + Len(EncodeInt(k))) /\ At(s, i) = CharI
  BY ParseIntReads
<1>2. i \in 1 .. Len(s) + 1 /\ Len(s) \in Nat
  BY <1>1 DEF At, CharI
<1>3. Calls(s)[n].value[i] = Parse(s, i, Calls(s)[n - 1])
  BY <1>2, CallsSteps
<1>4. Parse(s, i, Calls(s)[n - 1]) = ParseInt(s, i)
  BY <1>1, Markers DEF Parse
<1> QED
  BY <1>1, <1>3, <1>4, Zenon

\* A byte string is read by a call of any depth.
LEMMA ValueOfBytes ==
  ASSUME NEW s \in Seq(Byte), NEW n \in 1 .. Depth(s), NEW i \in Nat \ {0},
         NEW w \in Seq(Byte), Holds(s, i, ByteString(w))
  PROVE  Calls(s)[n].value[i] = Decoded(Bytes(w), i + Len(ByteString(w)))
<1>1. ParseBytes(s, i) = Decoded(Bytes(w), i + Len(ByteString(w))) /\ At(s, i) \in Digit
  BY ParseBytesReads
<1>2. i \in 1 .. Len(s) + 1 /\ Len(s) \in Nat
  BY <1>1 DEF At, Digit, Zero, Nine
<1>3. Calls(s)[n].value[i] = Parse(s, i, Calls(s)[n - 1])
  BY <1>2, CallsSteps
<1>4. Parse(s, i, Calls(s)[n - 1]) = ParseBytes(s, i)
  BY <1>1, Markers DEF Parse
<1> QED
  BY <1>1, <1>3, <1>4, Zenon

\* The entries of a dictionary, from the last one on.
LEMMA EntriesEnd ==
  ASSUME NEW s \in Seq(Byte), NEW n \in 1 .. Depth(s), NEW i \in Nat \ {0}, Holds(s, i, <<CharE>>)
  PROVE  Calls(s)[n].entries[i] = Decoded(<<>>, i + 1)
<1>1. At(s, i) = CharE /\ i \in 1 .. Len(s) + 1 /\ Len(s) \in Nat
  BY HoldsByte, Markers
<1>2. Calls(s)[n].entries[i] = ParseEntries(s, i, Calls(s)[n - 1])
  BY <1>1, CallsSteps
<1> QED
  BY <1>1, <1>2, Zenon DEF ParseEntries

\* An entry of a dictionary is read, and then those after it.
LEMMA EntriesStep ==
  ASSUME NEW s \in Seq(Byte), NEW n \in 2 .. Depth(s), NEW i \in Nat \ {0},
         NEW key \in Seq(Byte), Holds(s, i, ByteString(key)),
         NEW v, NEW k, Calls(s)[n - 1].value[i + Len(ByteString(key))] = Decoded(v, k),
         NEW d, NEW l, Calls(s)[n - 1].entries[k] = Decoded(d, l)
  PROVE  Calls(s)[n].entries[i] = Decoded(Before(key, v, d), l)
<1> DEFINE j == i + Len(ByteString(key))
<1>1. ParseBytes(s, i) = Decoded(Bytes(key), j) /\ At(s, i) \in Digit
  BY ParseBytesReads
<1>2. i \in 1 .. Len(s) + 1 /\ Len(s) \in Nat /\ n \in 1 .. Depth(s) /\ At(s, i) # CharE
  BY <1>1, Markers DEF At, Digit, Zero, Nine, Depth
<1> HIDE DEF j
<1>3. Calls(s)[n].entries[i] = ParseEntries(s, i, Calls(s)[n - 1])
  BY <1>2, CallsSteps
<1>4. Calls(s)[n - 1].value[j] = Decoded(v, k)
  BY DEF j
<1>5. /\ Decoded(Bytes(key), j).ok /\ Decoded(Bytes(key), j).value = Bytes(key)
      /\ Decoded(Bytes(key), j).next = j
      /\ Decoded(v, k).ok /\ Decoded(v, k).value = v /\ Decoded(v, k).next = k
      /\ Decoded(d, l).ok /\ Decoded(d, l).value = d /\ Decoded(d, l).next = l
  BY DEF Decoded
<1>6. Bytes(key).bytes = key
  BY DEF Bytes
<1>7. ParseEntries(s, i, Calls(s)[n - 1]) = Decoded(Before(key, v, d), l)
  <2> DEFINE deeper == Calls(s)[n - 1]
             read == ParseBytes(s, i)
  <2>1. deeper.value[read.next] = Decoded(v, k) /\ deeper.entries[deeper.value[read.next].next] = Decoded(d, l)
    BY <1>1, <1>4, <1>5, Zenon
  <2>2. /\ read.ok /\ deeper.value[read.next].ok /\ deeper.entries[deeper.value[read.next].next].ok
        /\ read.value.bytes = key /\ deeper.value[read.next].value = v
        /\ deeper.entries[deeper.value[read.next].next].value = d
        /\ deeper.entries[deeper.value[read.next].next].next = l
    BY <1>1, <1>5, <1>6, <2>1, Zenon
  <2> HIDE DEF deeper
  <2>3. ParseEntries(s, i, deeper) = Decoded(Before(key, v, d), l)
    BY <1>2, <2>2, Zenon DEF ParseEntries
  <2> QED
    BY <2>3, Zenon DEF deeper
<1> QED
  BY <1>3, <1>7, Zenon

\* A dictionary, of its entries.
LEMMA ValueOfDict ==
  ASSUME NEW s \in Seq(Byte), NEW n \in 2 .. Depth(s), NEW i \in Nat \ {0}, Holds(s, i, <<CharD>>),
         NEW d, NEW l, Calls(s)[n - 1].entries[i + 1] = Decoded(d, l)
  PROVE  Calls(s)[n].value[i] = Decoded(Dict(d), l)
<1>1. At(s, i) = CharD /\ i \in 1 .. Len(s) + 1 /\ Len(s) \in Nat /\ n \in 1 .. Depth(s)
  BY HoldsByte, Markers DEF Depth
<1>2. Calls(s)[n].value[i] = Parse(s, i, Calls(s)[n - 1])
  BY <1>1, CallsSteps
<1>3. Decoded(d, l).ok /\ Decoded(d, l).value = d /\ Decoded(d, l).next = l
  BY DEF Decoded
<1>4. Parse(s, i, Calls(s)[n - 1]) = Decoded(Dict(d), l)
  BY <1>1, <1>3, Markers DEF Parse
<1> QED
  BY <1>2, <1>4, Zenon

-----------------------------------------------------------------------------
\* The order of keys

\* The lesser of two numbers.
LEMMA MinOfTwo ==
  ASSUME NEW a \in Nat, NEW b \in Nat
  PROVE  Min({a, b}) = IF a <= b THEN a ELSE b
<1> DEFINE m == IF a <= b THEN a ELSE b
           S == {a, b}
<1>1. m \in S /\ \A y \in S : m <= y
  OBVIOUS
<1>2. \A x \in S : (\A y \in S : x <= y) => x = m
  OBVIOUS
<1> HIDE DEF m, S
<1>3. Min(S) = m
  BY <1>1, <1>2 DEF Min
<1> QED
  BY <1>3 DEF S, m

\* A function on the first numbers is a sequence.
LEMMA FixedLength ==
  ASSUME NEW S, NEW n \in Nat, NEW q \in [1 .. n -> S]
  PROVE  q \in Seq(S) /\ Len(q) = n
BY SeqDef

\* The elements of a byte string.
LEMMA ByteAt ==
  ASSUME NEW s \in Seq(Byte)
  PROVE  Len(s) \in Nat /\ \A i \in 1 .. Len(s) : s[i] \in Byte /\ s[i] \in Nat
<1>1. \A i \in 1 .. Len(s) : s[i] \in Byte
  OBVIOUS
<1>2. Byte \subseteq Nat
  BY DEF Byte
<1>3. Len(s) \in Nat
  OBVIOUS
<1> QED
  BY <1>1, <1>2, <1>3, Zenon

\* No key comes before itself.
LEMMA NotBeforeItself ==
  ASSUME NEW s \in Seq(Byte)
  PROVE  ~Precedes(s, s)
<1>1. ~IsStrictPrefix(s, s)
  BY DEF IsStrictPrefix
<1>2. Min({Len(s), Len(s)}) = Len(s)
  BY MinOfTwo
<1>3. ASSUME NEW i \in 1 .. Len(s) PROVE ~(s[i] < s[i])
  <2>1. s[i] \in Nat
    BY ByteAt
  <2> QED
    BY <2>1
<1> QED
  BY <1>1, <1>2, <1>3, Zenon DEF Precedes

\* The first byte that differs decides.
LEMMA FirstDifference ==
  ASSUME NEW s \in Seq(Byte), NEW t \in Seq(Byte), NEW p \in 1 .. Len(s), p <= Len(t),
         s[p] < t[p], \A j \in 1 .. p - 1 : s[j] = t[j]
  PROVE  Precedes(s, t) /\ ~Precedes(t, s)
<1>1. Len(s) \in Nat /\ Len(t) \in Nat
  OBVIOUS
<1>2. /\ p \in 1 .. Min({Len(s), Len(t)})
      /\ \A i \in 1 .. Min({Len(t), Len(s)}) : i \in 1 .. Len(s) /\ i \in 1 .. Len(t)
  <2>1. /\ Min({Len(s), Len(t)}) = IF Len(s) <= Len(t) THEN Len(s) ELSE Len(t)
        /\ Min({Len(t), Len(s)}) = IF Len(t) <= Len(s) THEN Len(t) ELSE Len(s)
    BY <1>1, MinOfTwo
  <2> DEFINE m == Min({Len(s), Len(t)})
             n == Min({Len(t), Len(s)})
  <2> HIDE DEF m, n
  <2>2. m = IF Len(s) <= Len(t) THEN Len(s) ELSE Len(t)
    BY <2>1, Zenon DEF m
  <2>3. n = IF Len(t) <= Len(s) THEN Len(t) ELSE Len(s)
    BY <2>1, Zenon DEF n
  <2>4. p \in 1 .. m
    BY <1>1, <2>2
  <2>5. \A i \in 1 .. n : i \in 1 .. Len(s) /\ i \in 1 .. Len(t)
    BY <1>1, <2>3
  <2> QED
    BY <2>4, <2>5, Zenon DEF m, n
<1>3. Precedes(s, t)
  <2> DEFINE m == Min({Len(s), Len(t)})
  <2>1. p \in 1 .. m
    BY <1>2
  <2> HIDE DEF m
  <2>2. \E i \in 1 .. m : s[i] < t[i] /\ \A j \in 1 .. i - 1 : s[j] = t[j]
    BY <2>1
  <2> QED
    BY <2>2, Zenon DEF Precedes, m
<1>4. \A i \in 1 .. Len(s) : s[i] \in Int
  BY ByteAt
<1>5. \A i \in 1 .. Len(t) : t[i] \in Int
  BY ByteAt
<1>6. p \in 1 .. Len(t)
  BY <1>1
<1>7. s[p] \in Int /\ t[p] \in Int /\ s[p] # t[p] /\ ~(t[p] < s[p])
  BY <1>4, <1>5, <1>6
<1>8. ~IsStrictPrefix(t, s)
  <2>1. SUFFICES ASSUME Len(t) <= Len(s), SubSeq(t, 1, Len(t)) = SubSeq(s, 1, Len(t)) PROVE FALSE
    BY DEF IsStrictPrefix, IsPrefix
  <2>2. SubSeq(t, 1, Len(t))[p] = t[p]
    BY <1>1, <1>6
  <2>3. SubSeq(s, 1, Len(t))[p] = s[p]
    BY <1>1, <1>6, <2>1
  <2> QED
    BY <1>7, <2>1, <2>2, <2>3
<1>9. ASSUME NEW i \in 1 .. Min({Len(t), Len(s)}), t[i] < s[i], \A j \in 1 .. i - 1 : t[j] = s[j]
      PROVE  FALSE
  <2>1. i \in 1 .. Len(s) /\ i \in 1 .. Len(t) /\ s[i] \in Int /\ t[i] \in Int
    BY <1>2, <1>4, <1>5
  <2>2. CASE i < p
    <3>1. i \in 1 .. p - 1
      BY <2>1, <2>2
    <3> QED
      BY <1>9, <2>1, <3>1
  <2>3. CASE i = p
    BY <1>7, <1>9, <2>3
  <2>4. CASE p < i
    <3>1. p \in 1 .. i - 1
      BY <2>1, <2>4
    <3> QED
      BY <1>7, <1>9, <3>1
  <2> QED
    BY <2>1, <2>2, <2>3, <2>4
<1> QED
  BY <1>3, <1>8, <1>9, Zenon DEF Precedes

\* One key, two and three.
LEMMA OneKey ==
  ASSUME NEW a
  PROVE  InOrder({a}) = <<a>>
<1>1. Cardinality({a}) = 1
  BY FS_Singleton
<1> DEFINE S == [1 .. 1 -> {a}]
           Good(q) == \A i, j \in DOMAIN q : i < j => Precedes(q[i], q[j])
<1>2. \A q \in S : q = <<a>>
  OBVIOUS
<1>3. <<a>> \in S
  OBVIOUS
<1>4. Good(<<a>>)
  OBVIOUS
<1>5. InOrder({a}) = CHOOSE q \in S : Good(q)
  BY <1>1, Zenon DEF InOrder
<1> HIDE DEF S, Good
<1> QED
  BY <1>2, <1>3, <1>4, <1>5

\* Two keys in order,
LEMMA TwoKeys ==
  ASSUME NEW a \in Seq(Byte), NEW b \in Seq(Byte), Precedes(a, b), ~Precedes(b, a)
  PROVE  InOrder({a, b}) = <<a, b>>
<1>1. ~Precedes(a, a) /\ ~Precedes(b, b) /\ a # b
  BY NotBeforeItself
<1>2. Cardinality({a, b}) = 2
  <2>1. IsFiniteSet({a}) /\ Cardinality({a}) = 1 /\ b \notin {a} /\ {a} \cup {b} = {a, b}
    BY <1>1, FS_Singleton
  <2>2. Cardinality({a} \cup {b}) = 1 + 1
    BY <2>1, FS_AddElement
  <2>3. Cardinality({a, b}) = 1 + 1
    BY <2>1, <2>2, Zenon
  <2> QED
    BY <2>3, SMT
<1> DEFINE S == [1 .. 2 -> {a, b}]
           Good(q) == \A i, j \in DOMAIN q : i < j => Precedes(q[i], q[j])
<1>3. ASSUME NEW q \in S, Good(q) PROVE q = <<a, b>>
  <2>1. q[1] \in {a, b} /\ q[2] \in {a, b} /\ Precedes(q[1], q[2])
    BY <1>3
  <2>2. q[1] = a /\ q[2] = b
    BY <1>1, <2>1, Zenon
  <2> QED
    BY <2>2
<1>4. <<a, b>> \in S
  OBVIOUS
<1>5. Good(<<a, b>>)
  OBVIOUS
<1>6. InOrder({a, b}) = CHOOSE q \in S : Good(q)
  BY <1>2, Zenon DEF InOrder
<1> HIDE DEF S, Good
<1> QED
  BY <1>3, <1>4, <1>5, <1>6

\* and three.
LEMMA ThreeKeys ==
  ASSUME NEW a \in Seq(Byte), NEW b \in Seq(Byte), NEW c \in Seq(Byte),
         Precedes(a, b), ~Precedes(b, a), Precedes(b, c), ~Precedes(c, b),
         Precedes(a, c), ~Precedes(c, a)
  PROVE  InOrder({a, b, c}) = <<a, b, c>>
<1>1. ~Precedes(a, a) /\ ~Precedes(b, b) /\ ~Precedes(c, c) /\ a # b /\ a # c /\ b # c
  BY NotBeforeItself
<1>2. Cardinality({a, b, c}) = 3
  <2>1. IsFiniteSet({a}) /\ Cardinality({a}) = 1
    BY FS_Singleton
  <2>2. b \notin {a} /\ c \notin {a} \cup {b} /\ ({a} \cup {b}) \cup {c} = {a, b, c}
    BY <1>1
  <2>3. IsFiniteSet({a} \cup {b}) /\ Cardinality({a} \cup {b}) = 1 + 1
    BY <2>1, <2>2, FS_AddElement
  <2>4. Cardinality(({a} \cup {b}) \cup {c}) = 1 + 1 + 1
    BY <2>2, <2>3, FS_AddElement
  <2>5. 1 + 1 + 1 = 3
    OBVIOUS
  <2> QED
    BY <2>2, <2>4, <2>5, Zenon
<1> DEFINE S == [1 .. 3 -> {a, b, c}]
           Good(q) == \A i, j \in DOMAIN q : i < j => Precedes(q[i], q[j])
<1>3. ASSUME NEW q \in S, Good(q) PROVE q = <<a, b, c>>
  <2>1. /\ q[1] \in {a, b, c} /\ q[2] \in {a, b, c} /\ q[3] \in {a, b, c}
        /\ Precedes(q[1], q[2]) /\ Precedes(q[2], q[3]) /\ Precedes(q[1], q[3])
    BY <1>3
  <2>2. q[1] = a /\ q[2] = b /\ q[3] = c
    BY <1>1, <2>1, Zenon
  <2> DEFINE t == <<a, b, c>>
             K == {a, b, c}
  <2>3. t \in Seq(K) /\ Len(t) = 3 /\ t[1] = a /\ t[2] = b /\ t[3] = c
    OBVIOUS
  <2> HIDE DEF t
  <2>4. \A i \in 1 .. 3 : i = 1 \/ i = 2 \/ i = 3
    OBVIOUS
  <2>5. \A i \in 1 .. 3 : q[i] = t[i]
    BY <2>2, <2>3, <2>4, Zenon
  <2>6. q \in [1 .. 3 -> K] /\ 3 \in Nat
    OBVIOUS
  <2> HIDE DEF K
  <2>7. q \in Seq(K) /\ Len(q) = 3
    BY <2>6, FixedLength, Zenon
  <2>8. q = t
    BY <2>3, <2>5, <2>7, SeqEqual
  <2> QED
    BY <2>8, Zenon DEF t
<1>4. <<a, b, c>> \in S
  OBVIOUS
<1>5. Good(<<a, b, c>>)
  OBVIOUS
<1>6. InOrder({a, b, c}) = CHOOSE q \in S : Good(q)
  BY <1>2, Zenon DEF InOrder
<1> HIDE DEF S, Good
<1> QED
  BY <1>3, <1>4, <1>5, <1>6

-----------------------------------------------------------------------------
\* Dictionaries

Entry(key, x) == ByteString(key) \o x
EntriesOf(e) == (<<CharD>> \o e) \o <<CharE>>

\* A dictionary of one entry, as it is written,
LEMMA EncodeDictOne ==
  ASSUME NEW a \in Seq(Byte), NEW f, DOMAIN f = {a}, f[a] \in Seq(Byte)
  PROVE  EncodeDict(f) = EntriesOf(Entry(a, f[a]))
<1> DEFINE q == <<a>>
           r == [i \in DOMAIN q |-> ByteString(q[i]) \o f[q[i]]]
<1>1. InOrder(DOMAIN f) = q
  BY OneKey
<1>2. r = <<Entry(a, f[a])>>
  BY DEF Entry
<1>3. Entry(a, f[a]) \in Seq(Byte)
  BY EncodedTypes, ConcatThree DEF Entry
<1>4. FlattenSeq(<<Entry(a, f[a])>>) = Entry(a, f[a])
  BY <1>3, FlattenFew
<1>5. EncodeDict(f) = (<<CharD>> \o FlattenSeq(r)) \o <<CharE>>
  <2> HIDE DEF q
  <2> QED
    BY <1>1, Zenon DEF EncodeDict
<1> HIDE DEF r
<1> QED
  BY <1>2, <1>4, <1>5, Zenon DEF EntriesOf

\* of two, whichever was inserted first,
LEMMA EncodeDictTwo ==
  ASSUME NEW a \in Seq(Byte), NEW b \in Seq(Byte), Precedes(a, b), ~Precedes(b, a),
         NEW f, DOMAIN f = {a, b}, f[a] \in Seq(Byte), f[b] \in Seq(Byte)
  PROVE  EncodeDict(f) = EntriesOf(Entry(a, f[a]) \o Entry(b, f[b]))
<1> DEFINE q == <<a, b>>
           r == [i \in DOMAIN q |-> ByteString(q[i]) \o f[q[i]]]
<1>1. InOrder(DOMAIN f) = q
  BY TwoKeys
<1>2. r = <<Entry(a, f[a]), Entry(b, f[b])>>
  BY DEF Entry
<1>3. Entry(a, f[a]) \in Seq(Byte) /\ Entry(b, f[b]) \in Seq(Byte)
  BY EncodedTypes, ConcatThree DEF Entry
<1>4. FlattenSeq(<<Entry(a, f[a]), Entry(b, f[b])>>) = Entry(a, f[a]) \o Entry(b, f[b])
  BY <1>3, FlattenFew
<1>5. EncodeDict(f) = (<<CharD>> \o FlattenSeq(r)) \o <<CharE>>
  <2> HIDE DEF q
  <2> QED
    BY <1>1, Zenon DEF EncodeDict
<1> HIDE DEF r
<1> QED
  BY <1>2, <1>4, <1>5, Zenon DEF EntriesOf

\* Three byte strings, joined,
LEMMA FlattenThree ==
  ASSUME NEW q, q \in [1 .. 3 -> Seq(Byte)]
  PROVE  FlattenSeq(q) = q[1] \o (q[2] \o q[3])
<1>1. /\ Len(q) = 3 /\ Len(q) # 0 /\ 3 \in Nat /\ 3 # 0
      /\ q[1] \in Seq(Byte) /\ q[2] \in Seq(Byte) /\ q[3] \in Seq(Byte)
  <2>1. 3 \in Nat /\ 3 # 0 /\ 1 \in 1 .. 3 /\ 2 \in 1 .. 3 /\ 3 \in 1 .. 3
    OBVIOUS
  <2>2. Len(q) = 3
    BY <2>1, SeqDef
  <2> QED
    BY <2>1, <2>2, Zenon
<1>2. FlattenSeq(q) = Flat(q, 3)[3]
  BY <1>1, FlattenIsFlat, Zenon
<1>3. /\ Flat(q, 3)[1] = q[1]
      /\ \A i \in 1 .. 3 - 1 : Flat(q, 3)[i + 1] = Flat(q, 3)[i] \o q[i + 1]
  BY <1>1, FlatSteps, Zenon
<1>4. 1 \in 1 .. 3 - 1 /\ 2 \in 1 .. 3 - 1 /\ 1 + 1 = 2 /\ 2 + 1 = 3
  OBVIOUS
<1>5. Flat(q, 3)[2] = q[1] \o q[2] /\ Flat(q, 3)[3] = Flat(q, 3)[2] \o q[3]
  BY <1>3, <1>4, Zenon
<1>6. FlattenSeq(q) = (q[1] \o q[2]) \o q[3]
  BY <1>2, <1>5, Zenon
<1>7. (q[1] \o q[2]) \o q[3] = q[1] \o (q[2] \o q[3])
  BY <1>1, ConcatAssociative, SMT
<1> QED
  BY <1>6, <1>7, Zenon

\* and so a dictionary of three entries.
LEMMA EncodeDictThree ==
  ASSUME NEW a \in Seq(Byte), NEW b \in Seq(Byte), NEW c \in Seq(Byte),
         Precedes(a, b), ~Precedes(b, a), Precedes(b, c), ~Precedes(c, b),
         Precedes(a, c), ~Precedes(c, a),
         NEW f, a \in DOMAIN f, b \in DOMAIN f, c \in DOMAIN f,
         \A k \in DOMAIN f : k = a \/ k = b \/ k = c,
         f[a] \in Seq(Byte), f[b] \in Seq(Byte), f[c] \in Seq(Byte)
  PROVE  EncodeDict(f) = EntriesOf(Entry(a, f[a]) \o (Entry(b, f[b]) \o Entry(c, f[c])))
<1> DEFINE q == <<a, b, c>>
           r == [i \in DOMAIN q |-> ByteString(q[i]) \o f[q[i]]]
           s == [i \in 1 .. 3 |-> Entry(q[i], f[q[i]])]
<1>1. InOrder(DOMAIN f) = q
  <2>1. DOMAIN f = {a, b, c}
    OBVIOUS
  <2> QED
    BY <2>1, ThreeKeys, Zenon
<1>2. r = s
  <2>1. DOMAIN q = 1 .. 3
    OBVIOUS
  <2> HIDE DEF q
  <2> QED
    BY <2>1, Zenon DEF Entry
<1>3. s = [i \in 1 .. 3 |-> s[i]] /\ s[1] = Entry(a, f[a]) /\ s[2] = Entry(b, f[b]) /\ s[3] = Entry(c, f[c])
  <2>1. q[1] = a /\ q[2] = b /\ q[3] = c /\ 1 \in 1 .. 3 /\ 2 \in 1 .. 3 /\ 3 \in 1 .. 3
    OBVIOUS
  <2> HIDE DEF q
  <2> QED
    BY <2>1, Zenon
<1>4. EncodeDict(f) = (<<CharD>> \o FlattenSeq(r)) \o <<CharE>>
  <2> HIDE DEF q
  <2> QED
    BY <1>1, Zenon DEF EncodeDict
<1>5. ByteString(a) \in Seq(Byte) /\ ByteString(b) \in Seq(Byte) /\ ByteString(c) \in Seq(Byte)
  BY EncodedTypes, Zenon
<1>6. Entry(a, f[a]) \in Seq(Byte) /\ Entry(b, f[b]) \in Seq(Byte) /\ Entry(c, f[c]) \in Seq(Byte)
  BY <1>5, ConcatThree, Zenon DEF Entry
<1>7. s \in [1 .. 3 -> Seq(Byte)]
  <2>1. \A i \in 1 .. 3 : i = 1 \/ i = 2 \/ i = 3
    OBVIOUS
  <2>2. \A i \in 1 .. 3 : s[i] \in Seq(Byte)
    BY <1>3, <1>6, <2>1, Zenon
  <2> HIDE DEF q
  <2> QED
    BY <2>2, Zenon
<1> HIDE DEF r, s
<1>8. FlattenSeq(s) = s[1] \o (s[2] \o s[3])
  BY <1>7, FlattenThree, Zenon
<1> QED
  BY <1>2, <1>3, <1>4, <1>8, Zenon DEF EntriesOf

\* Wherever the bytes are, they are read as a value, by d calls within another.
ReadsAs(s, x, v, d) ==
  \A j \in Nat \ {0}, m \in d .. Depth(s) :
    Holds(s, j, x) => Calls(s)[m].value[j] = Decoded(v, j + Len(x))
ReadEntries(s, e, v, d) ==
  \A j \in Nat \ {0}, m \in d .. Depth(s) :
    Holds(s, j, e) /\ Holds(s, j + Len(e), <<CharE>>)
      => Calls(s)[m].entries[j] = Decoded(v, j + Len(e) + 1)

\* An integer is read wherever it stands, at any depth,
LEMMA ReadsInt ==
  ASSUME NEW s \in Seq(Byte), NEW k \in Nat, NEW d \in Nat \ {0}
  PROVE  ReadsAs(s, EncodeInt(k), Integer(k), d)
<1>1. \A m \in d .. Depth(s) : m \in 1 .. Depth(s)
  BY DEF Depth
<1> QED
  BY <1>1, ValueOfInt DEF ReadsAs

\* and so is a byte string.
LEMMA ReadsBytes ==
  ASSUME NEW s \in Seq(Byte), NEW w \in Seq(Byte), NEW d \in Nat \ {0}
  PROVE  ReadsAs(s, ByteString(w), Bytes(w), d)
<1>1. \A m \in d .. Depth(s) : m \in 1 .. Depth(s)
  BY DEF Depth
<1> QED
  BY <1>1, ValueOfBytes DEF ReadsAs

\* No entries are read as none,
LEMMA ReadNoEntries ==
  ASSUME NEW s \in Seq(Byte), NEW d \in Nat \ {0}
  PROVE  ReadEntries(s, <<>>, <<>>, d)
<1> SUFFICES ASSUME NEW j \in Nat \ {0}, NEW m \in d .. Depth(s), Holds(s, j + Len(<<>>), <<CharE>>)
             PROVE  Calls(s)[m].entries[j] = Decoded(<<>>, j + Len(<<>>) + 1)
  BY Zenon DEF ReadEntries
<1>1. m \in 1 .. Depth(s) /\ j + Len(<<>>) = j
  BY DEF Depth
<1>2. Holds(s, j, <<CharE>>)
  BY <1>1
<1>3. Calls(s)[m].entries[j] = Decoded(<<>>, j + 1)
  BY <1>1, <1>2, EntriesEnd
<1>4. j + Len(<<>>) + 1 = j + 1
  OBVIOUS
<1> QED
  BY <1>3, <1>4, Zenon

\* and one before others as theirs and its own.
LEMMA ReadEntry ==
  ASSUME NEW s \in Seq(Byte), NEW d \in Nat \ {0}, NEW key \in Seq(Byte),
         NEW x \in Seq(Byte), NEW v, ReadsAs(s, x, v, d),
         NEW e \in Seq(Byte), NEW w, ReadEntries(s, e, w, d)
  PROVE  ReadEntries(s, Entry(key, x) \o e, Before(key, v, w), d + 1)
<1> DEFINE k == ByteString(key)
<1>1. k \in Seq(Byte) /\ Len(k) \in Nat /\ Len(x) \in Nat /\ Len(e) \in Nat
  <2>1. k \in Seq(Byte)
    BY EncodedTypes, Zenon
  <2> HIDE DEF k
  <2> QED
    BY <2>1, ConcatThree, Zenon
<1>2. Entry(key, x) \o e = (k \o x) \o e
  BY Zenon DEF Entry
<1>3. Len((k \o x) \o e) = Len(k) + Len(x) + Len(e)
  BY <1>1, ConcatThree
<1> HIDE DEF k
<1> SUFFICES ASSUME NEW j \in Nat \ {0}, NEW m \in d + 1 .. Depth(s),
                    Holds(s, j, (k \o x) \o e),
                    Holds(s, j + (Len(k) + Len(x) + Len(e)), <<CharE>>)
             PROVE  Calls(s)[m].entries[j]
                      = Decoded(Before(key, v, w), j + (Len(k) + Len(x) + Len(e)) + 1)
  BY <1>2, <1>3, Zenon DEF ReadEntries
<1> DEFINE i == j + Len(k)
           l == j + Len(k) + Len(x)
<1>4. /\ Holds(s, j, k) /\ Holds(s, i, x) /\ Holds(s, l, e) /\ i \in Nat \ {0} /\ l \in Nat \ {0}
  BY <1>1, HoldsThree
<1>5. /\ m - 1 \in d .. Depth(s) /\ m \in 2 .. Depth(s) /\ i + Len(x) = l
      /\ j + (Len(k) + Len(x) + Len(e)) = l + Len(e)
  BY <1>1 DEF Depth
<1> HIDE DEF i, l
<1>6. Calls(s)[m - 1].value[i] = Decoded(v, i + Len(x))
  BY <1>4, <1>5, Zenon DEF ReadsAs
<1>7. Holds(s, l + Len(e), <<CharE>>)
  BY <1>5, Zenon
<1>8. Calls(s)[m - 1].entries[l] = Decoded(w, l + Len(e) + 1)
  BY <1>4, <1>5, <1>7, Zenon DEF ReadEntries
<1>9. /\ Holds(s, j, ByteString(key))
      /\ Calls(s)[m - 1].value[j + Len(ByteString(key))] = Decoded(v, l)
  BY <1>4, <1>5, <1>6, Zenon DEF k, i
<1>10. Calls(s)[m].entries[j] = Decoded(Before(key, v, w), l + Len(e) + 1)
  BY <1>5, <1>8, <1>9, EntriesStep
<1> QED
  BY <1>5, <1>10, Zenon

\* A dictionary is read one call deeper than its entries.
LEMMA ReadsDict ==
  ASSUME NEW s \in Seq(Byte), NEW d \in Nat \ {0},
         NEW e \in Seq(Byte), NEW w, ReadEntries(s, e, w, d)
  PROVE  ReadsAs(s, EntriesOf(e), Dict(w), d + 1)
<1>1. <<CharD>> \in Seq(Byte) /\ Len(<<CharD>>) = 1 /\ <<CharE>> \in Seq(Byte) /\ Len(<<CharE>>) = 1
  BY Markers, OneByte
<1>2. Len((<<CharD>> \o e) \o <<CharE>>) = 1 + Len(e) + 1 /\ Len(e) \in Nat
  BY <1>1, ConcatThree
<1> SUFFICES ASSUME NEW j \in Nat \ {0}, NEW m \in d + 1 .. Depth(s),
                    Holds(s, j, (<<CharD>> \o e) \o <<CharE>>)
             PROVE  Calls(s)[m].value[j] = Decoded(Dict(w), j + (1 + Len(e) + 1))
  BY <1>2, Zenon DEF ReadsAs, EntriesOf
<1>3. /\ Holds(s, j, <<CharD>>) /\ Holds(s, j + 1, e) /\ Holds(s, j + 1 + Len(e), <<CharE>>)
      /\ j + 1 \in Nat \ {0}
  BY <1>1, HoldsThree
<1>4. /\ m - 1 \in d .. Depth(s) /\ m \in 2 .. Depth(s)
      /\ j + 1 + Len(e) + 1 = j + (1 + Len(e) + 1)
  BY <1>2 DEF Depth
<1>5. Calls(s)[m - 1].entries[j + 1] = Decoded(w, j + 1 + Len(e) + 1)
  BY <1>3, <1>4, Zenon DEF ReadEntries
<1>6. Calls(s)[m].value[j] = Decoded(Dict(w), j + 1 + Len(e) + 1)
  BY <1>3, <1>4, <1>5, ValueOfDict
<1> QED
  BY <1>4, <1>6, Zenon

\* What is read by calls of some depth is read by deeper ones.
LEMMA ReadsDeeper ==
  ASSUME NEW s \in Seq(Byte), NEW d \in Nat, NEW x, NEW v
  PROVE  /\ ReadEntries(s, x, v, d) => ReadEntries(s, x, v, d + 1)
         /\ ReadsAs(s, x, v, d) => ReadsAs(s, x, v, d + 1)
<1>1. \A m \in d + 1 .. Depth(s) : m \in d .. Depth(s)
  BY DEF Depth
<1> QED
  BY <1>1, Zenon DEF ReadEntries, ReadsAs

\* The first value of some bytes is decoded, and what follows it is left.
LEMMA DecodeReads ==
  ASSUME NEW x \in Seq(Byte), NEW t \in Seq(Byte), NEW v, NEW d \in 1 .. 6, Len(x) >= 2,
         ReadsAs(x \o t, x, v, d)
  PROVE  Decode(x \o t) = Decoded(v, Len(x) + 1) /\ Rest(x \o t, Decode(x \o t)) = t
<1> DEFINE s == x \o t
<1>1. s \in Seq(Byte) /\ Len(s) = Len(x) + Len(t) /\ Len(x) \in Nat /\ Len(t) \in Nat
  BY ConcatThree
<1>2. Holds(s, 1, s)
  BY <1>1, HoldsWhole
<1>3. Holds(s, 1, x) /\ Holds(s, 1 + Len(x), t)
  <2>1. 1 \in Nat \ {0}
    OBVIOUS
  <2> QED
    BY <1>1, <1>2, <2>1, HoldsSplit, Zenon
<1> HIDE DEF s
<1>4. Depth(s) \in d .. Depth(s) /\ 1 \in Nat \ {0} /\ 1 + Len(x) = Len(x) + 1
  BY <1>1 DEF Depth
<1>5. Calls(s)[Depth(s)].value[1] = Decoded(v, 1 + Len(x))
  BY <1>3, <1>4, Zenon DEF ReadsAs, s
<1>6. Decode(s) = Decoded(v, Len(x) + 1)
  BY <1>4, <1>5, Zenon DEF Decode, Depth
<1>7. SubSeq(s, 1 + Len(x), 1 + Len(x) + Len(t) - 1) = t
  BY <1>1, <1>3, HoldsCut
<1>8. 1 + Len(x) + Len(t) - 1 = Len(s)
  BY <1>1
<1>9. Decoded(v, Len(x) + 1).next = Len(x) + 1
  BY DEF Decoded
<1>10. Rest(s, Decode(s)) = t
  BY <1>4, <1>6, <1>7, <1>8, <1>9, Zenon DEF Rest
<1> QED
  BY <1>6, <1>10 DEF s

-----------------------------------------------------------------------------
\* The keys of the dictionaries, in their order

\* The keys are byte strings; the bytes that tell them apart.
LEMMA KeysAreBytes ==
  /\ KeyM \in Seq(Byte) /\ Len(KeyM) = 1 /\ KeyM[1] = 109
  /\ KeyMetadataSize \in Seq(Byte) /\ Len(KeyMetadataSize) = 13
  /\ KeyMetadataSize[1] = 109
  /\ KeyMsgType \in Seq(Byte) /\ Len(KeyMsgType) = 8 /\ KeyMsgType[1] = 109
  /\ KeyPiece \in Seq(Byte) /\ Len(KeyPiece) = 5 /\ KeyPiece[1] = 112
  /\ KeyTotalSize \in Seq(Byte) /\ Len(KeyTotalSize) = 10 /\ KeyTotalSize[1] = 116
  /\ KeyAdded \in Seq(Byte) /\ Len(KeyAdded) = 5
  /\ KeyAdded6 \in Seq(Byte) /\ Len(KeyAdded6) = 6
  /\ \A k \in 1 .. 5 : KeyAdded[k] = KeyAdded6[k]
  /\ UtMetadata \in Seq(Byte) /\ Len(UtMetadata) = 11
  /\ UtMetadata[1] = 117 /\ UtMetadata[2] = 116 /\ UtMetadata[3] = 95 /\ UtMetadata[4] = 109
  /\ UtPex \in Seq(Byte) /\ Len(UtPex) = 6
  /\ UtPex[1] = 117 /\ UtPex[2] = 116 /\ UtPex[3] = 95 /\ UtPex[4] = 112
<1>1. /\ 109 \in Byte /\ 101 \in Byte /\ 116 \in Byte /\ 97 \in Byte /\ 100 \in Byte
      /\ 95 \in Byte /\ 115 \in Byte /\ 105 \in Byte /\ 122 \in Byte /\ 103 \in Byte
      /\ 121 \in Byte /\ 112 \in Byte /\ 99 \in Byte /\ 111 \in Byte /\ 108 \in Byte
      /\ 117 \in Byte /\ 120 \in Byte /\ 54 \in Byte
  BY DEF Byte
<1>2. KeyM \in Seq(Byte) /\ Len(KeyM) = 1 /\ KeyM[1] = 109
  BY <1>1 DEF KeyM
<1>3. KeyMetadataSize \in Seq(Byte) /\ Len(KeyMetadataSize) = 13 /\ KeyMetadataSize[1] = 109
  BY <1>1 DEF KeyMetadataSize
<1>4. KeyMsgType \in Seq(Byte) /\ Len(KeyMsgType) = 8 /\ KeyMsgType[1] = 109
  BY <1>1 DEF KeyMsgType
<1>5. KeyPiece \in Seq(Byte) /\ Len(KeyPiece) = 5 /\ KeyPiece[1] = 112
  BY <1>1 DEF KeyPiece
<1>6. KeyTotalSize \in Seq(Byte) /\ Len(KeyTotalSize) = 10 /\ KeyTotalSize[1] = 116
  BY <1>1 DEF KeyTotalSize
<1>7. /\ KeyAdded \in Seq(Byte) /\ Len(KeyAdded) = 5
      /\ KeyAdded6 \in Seq(Byte) /\ Len(KeyAdded6) = 6
      /\ \A k \in 1 .. 5 : KeyAdded[k] = KeyAdded6[k]
  BY <1>1 DEF KeyAdded, KeyAdded6
<1>8. /\ UtMetadata \in Seq(Byte) /\ Len(UtMetadata) = 11
      /\ UtMetadata[1] = 117 /\ UtMetadata[2] = 116 /\ UtMetadata[3] = 95 /\ UtMetadata[4] = 109
  BY <1>1 DEF UtMetadata
<1>9. /\ UtPex \in Seq(Byte) /\ Len(UtPex) = 6
      /\ UtPex[1] = 117 /\ UtPex[2] = 116 /\ UtPex[3] = 95 /\ UtPex[4] = 112
  BY <1>1 DEF UtPex
<1> QED
  BY <1>2, <1>3, <1>4, <1>5, <1>6, <1>7, <1>8, <1>9

\* A key comes before those it begins.
LEMMA BeginsBefore ==
  ASSUME NEW s \in Seq(Byte), NEW t \in Seq(Byte), Len(s) < Len(t),
         \A k \in 1 .. Len(s) : s[k] = t[k]
  PROVE  Precedes(s, t) /\ ~Precedes(t, s)
<1> DEFINE n == Len(s)
           u == SubSeq(s, 1, n)
           v == SubSeq(t, 1, n)
<1>1. n \in Nat /\ Len(t) \in Nat /\ n <= Len(t) /\ ~(Len(t) <= n) /\ n # Len(t)
  OBVIOUS
<1>2. /\ u \in Seq(Byte) /\ Len(u) = n /\ \A k \in 1 .. n : u[k] = s[k]
      /\ v \in Seq(Byte) /\ Len(v) = n /\ \A k \in 1 .. n : v[k] = t[k]
  BY <1>1, SubSeqProperties
<1> HIDE DEF u, v
<1>3. u = v
  <2>1. \A k \in 1 .. n : u[k] = v[k]
    BY <1>2, Zenon
  <2> QED
    BY <1>2, <2>1, SeqEqual, Zenon
<1>4. Precedes(s, t)
  <2>1. s # t
    BY <1>1, Zenon
  <2> QED
    BY <1>1, <1>3, <2>1, Zenon DEF Precedes, IsStrictPrefix, IsPrefix, u, v
<1>5. ~Precedes(t, s)
  <2>1. ~IsStrictPrefix(t, s)
    BY <1>1, Zenon DEF IsStrictPrefix, IsPrefix
  <2> DEFINE m == Min({Len(t), Len(s)})
  <2>2. m = n
    BY <1>1, MinOfTwo
  <2>3. \A i \in 1 .. n : t[i] = s[i] /\ s[i] \in Int
    BY ByteAt
  <2>4. \A i \in 1 .. n : ~(t[i] < s[i])
    BY <2>3
  <2> QED
    BY <2>1, <2>2, <2>4, Zenon DEF Precedes
<1> QED
  BY <1>4, <1>5, Zenon

\* The order in which dictionaries have them.
LEMMA KeyOrder ==
  /\ Precedes(KeyMsgType, KeyPiece) /\ ~Precedes(KeyPiece, KeyMsgType)
  /\ Precedes(KeyPiece, KeyTotalSize) /\ ~Precedes(KeyTotalSize, KeyPiece)
  /\ Precedes(KeyMsgType, KeyTotalSize) /\ ~Precedes(KeyTotalSize, KeyMsgType)
  /\ Precedes(UtMetadata, UtPex) /\ ~Precedes(UtPex, UtMetadata)
  /\ Precedes(KeyM, KeyMetadataSize) /\ ~Precedes(KeyMetadataSize, KeyM)
  /\ Precedes(KeyAdded, KeyAdded6) /\ ~Precedes(KeyAdded6, KeyAdded)
<1>1. Precedes(KeyMsgType, KeyPiece) /\ ~Precedes(KeyPiece, KeyMsgType)
  <2>1. /\ KeyMsgType \in Seq(Byte) /\ KeyPiece \in Seq(Byte) /\ 1 \in 1 .. Len(KeyMsgType)
        /\ 1 <= Len(KeyPiece) /\ KeyMsgType[1] < KeyPiece[1] /\ \A j \in 1 .. 1 - 1 : KeyMsgType[j] = KeyPiece[j]
    BY KeysAreBytes
  <2> QED
    BY <2>1, FirstDifference
<1>2. Precedes(KeyPiece, KeyTotalSize) /\ ~Precedes(KeyTotalSize, KeyPiece)
  <2>1. /\ KeyPiece \in Seq(Byte) /\ KeyTotalSize \in Seq(Byte) /\ 1 \in 1 .. Len(KeyPiece)
        /\ 1 <= Len(KeyTotalSize) /\ KeyPiece[1] < KeyTotalSize[1] /\ \A j \in 1 .. 1 - 1 : KeyPiece[j] = KeyTotalSize[j]
    BY KeysAreBytes
  <2> QED
    BY <2>1, FirstDifference
<1>3. Precedes(KeyMsgType, KeyTotalSize) /\ ~Precedes(KeyTotalSize, KeyMsgType)
  <2>1. /\ KeyMsgType \in Seq(Byte) /\ KeyTotalSize \in Seq(Byte) /\ 1 \in 1 .. Len(KeyMsgType)
        /\ 1 <= Len(KeyTotalSize) /\ KeyMsgType[1] < KeyTotalSize[1] /\ \A j \in 1 .. 1 - 1 : KeyMsgType[j] = KeyTotalSize[j]
    BY KeysAreBytes
  <2> QED
    BY <2>1, FirstDifference
<1>4. Precedes(UtMetadata, UtPex) /\ ~Precedes(UtPex, UtMetadata)
  <2>1. /\ UtMetadata \in Seq(Byte) /\ UtPex \in Seq(Byte) /\ 4 \in 1 .. Len(UtMetadata)
        /\ 4 <= Len(UtPex) /\ UtMetadata[4] < UtPex[4]
        /\ \A j \in 1 .. 4 - 1 : UtMetadata[j] = UtPex[j]
    BY KeysAreBytes
  <2> QED
    BY <2>1, FirstDifference
<1>5. Precedes(KeyM, KeyMetadataSize) /\ ~Precedes(KeyMetadataSize, KeyM)
  <2>1. /\ KeyM \in Seq(Byte) /\ KeyMetadataSize \in Seq(Byte) /\ Len(KeyM) < Len(KeyMetadataSize)
        /\ \A k \in 1 .. Len(KeyM) : KeyM[k] = KeyMetadataSize[k]
    BY KeysAreBytes
  <2> QED
    BY <2>1, BeginsBefore, Zenon
<1>6. Precedes(KeyAdded, KeyAdded6) /\ ~Precedes(KeyAdded6, KeyAdded)
  <2>1. /\ KeyAdded \in Seq(Byte) /\ KeyAdded6 \in Seq(Byte) /\ Len(KeyAdded) < Len(KeyAdded6)
        /\ \A k \in 1 .. Len(KeyAdded) : KeyAdded[k] = KeyAdded6[k]
    BY KeysAreBytes
  <2> QED
    BY <2>1, BeginsBefore, Zenon
<1> QED
  BY <1>1, <1>2, <1>3, <1>4, <1>5, <1>6, Zenon

\* A dictionary with another key.
LEMMA InsertIs ==
  ASSUME NEW d, NEW key, NEW v
  PROVE  /\ DOMAIN Insert(d, key, v) = DOMAIN d \cup {key}
         /\ Insert(d, key, v)[key] = v
         /\ \A k \in DOMAIN d \ {key} : Insert(d, key, v)[k] = d[k]
         /\ key \notin DOMAIN d => Before(key, v, d) = Insert(d, key, v)
BY DEF Insert, Before

\* Two keys in an empty dictionary, put there in either order.
LEMMA InsertTwoKeys ==
  ASSUME NEW a, NEW b, a # b, NEW x, NEW y
  PROVE  DOMAIN Insert(Insert(<<>>, a, x), b, y) = {a, b}
<1>1. DOMAIN <<>> = {}
  OBVIOUS
<1>2. DOMAIN Insert(<<>>, a, x) = {a}
  BY <1>1 DEF Insert
<1> QED
  BY <1>2 DEF Insert

\* What two insertions leave,
LEMMA InsertTwoValues ==
  ASSUME NEW a, NEW b, a # b, NEW x, NEW y
  PROVE  /\ Insert(Insert(<<>>, a, x), b, y)[a] = x
         /\ Insert(Insert(<<>>, a, x), b, y)[b] = y
<1>1. DOMAIN Insert(<<>>, a, x) = {a} /\ Insert(<<>>, a, x)[a] = x
  <2>1. DOMAIN <<>> = {}
    OBVIOUS
  <2> QED
    BY <2>1 DEF Insert
<1> QED
  BY <1>1 DEF Insert

\* and that reading two entries, the last one first, comes to the same.
LEMMA InsertTwoBefore ==
  ASSUME NEW a, NEW b, a # b, NEW x, NEW y
  PROVE  Before(a, x, Before(b, y, <<>>)) = Insert(Insert(<<>>, a, x), b, y)
<1> DEFINE d == Insert(<<>>, a, x)
           e == Insert(<<>>, b, y)
<1>1. DOMAIN <<>> = {}
  OBVIOUS
<1>2. DOMAIN d = {a} /\ d[a] = x /\ DOMAIN e = {b} /\ e[b] = y
  BY <1>1 DEF Insert
<1>3. Before(b, y, <<>>) = e
  BY <1>1, Zenon DEF Before
<1> HIDE DEF d, e
<1>4. Before(a, x, e) = Insert(e, a, x)
  BY <1>2 DEF Before
<1>5. Insert(e, a, x) = Insert(d, b, y)
  BY <1>2 DEF Insert
<1> QED
  BY <1>3, <1>4, <1>5, Zenon DEF d

\* The entries of numbers that are all there.
LEMMA NumbersIs ==
  ASSUME NEW d, \A k \in DOMAIN d : d[k] \in Nat
  PROVE  DOMAIN Numbers(d) = DOMAIN d /\ \A k \in DOMAIN d : Numbers(d)[k] = EncodeInt(d[k])
<1>1. \A k \in DOMAIN d : d[k] # NoNumber
  BY DEF NoNumber
<1> QED
  BY <1>1, Zenon DEF Numbers

-----------------------------------------------------------------------------
\* Dictionaries of numbers

\* What a decoder finds in what it made.
LEMMA Found ==
  /\ \A v : IsDict(Dict(v)) /\ Dict(v).dict = v /\ ~IsInt(Dict(v))
  /\ \A k : IsInt(Integer(k)) /\ Integer(k).int = k
  /\ \A w : IsBytes(Bytes(w)) /\ Bytes(w).bytes = w
  /\ \A v, i : Decoded(v, i).ok /\ Decoded(v, i).value = v
BY DEF IsDict, Dict, IsInt, Integer, IsBytes, Bytes, Decoded

\* A number is found under its key.
LEMMA FoundInt ==
  ASSUME NEW v, NEW key \in DOMAIN v, NEW k, v[key] = Integer(k)
  PROVE  HasInt(Dict(v), key) /\ GetInt(Dict(v), key) = k
<1>1. IsDict(Dict(v)) /\ Dict(v).dict = v /\ IsInt(Integer(k)) /\ Integer(k).int = k
  BY Found, Zenon
<1> QED
  BY <1>1, Zenon DEF HasInt, HasKey, GetInt

\* A number that is read is followed by entries that are read.
LEMMA ReadNumber ==
  ASSUME NEW s \in Seq(Byte), NEW d \in Nat \ {0}, NEW key \in Seq(Byte), NEW k \in Nat,
         NEW e \in Seq(Byte), NEW w, ReadEntries(s, e, w, d)
  PROVE  ReadEntries(s, Entry(key, EncodeInt(k)) \o e, Before(key, Integer(k), w), d + 1)
<1>1. ReadsAs(s, EncodeInt(k), Integer(k), d)
  BY ReadsInt, Zenon
<1>2. EncodeInt(k) \in Seq(Byte)
  BY EncodedTypes, Zenon
<1> QED
  BY <1>1, <1>2, ReadEntry, Zenon

\* The bytes of an entry,
LEMMA EntryType ==
  ASSUME NEW key \in Seq(Byte), NEW x \in Seq(Byte)
  PROVE  Entry(key, x) \in Seq(Byte) /\ Len(Entry(key, x)) = Len(ByteString(key)) + Len(x)
<1>1. ByteString(key) \in Seq(Byte)
  BY EncodedTypes, Zenon
<1> QED
  BY <1>1, ConcatThree, Zenon DEF Entry

\* and of a dictionary.
LEMMA EntriesOfType ==
  ASSUME NEW e \in Seq(Byte)
  PROVE  EntriesOf(e) \in Seq(Byte) /\ Len(EntriesOf(e)) = Len(e) + 2
<1>1. <<CharD>> \in Seq(Byte) /\ Len(<<CharD>>) = 1 /\ <<CharE>> \in Seq(Byte) /\ Len(<<CharE>>) = 1
  BY Markers, OneByte
<1>2. /\ (<<CharD>> \o e) \o <<CharE>> \in Seq(Byte)
      /\ Len((<<CharD>> \o e) \o <<CharE>>) = Len(<<CharD>>) + Len(e) + Len(<<CharE>>)
      /\ Len(e) \in Nat
  BY <1>1, ConcatThree
<1> QED
  BY <1>1, <1>2 DEF EntriesOf

\* Bytes that are read as a dictionary wherever they are.
WellRead(w, v, d) ==
  /\ w \in Seq(Byte) /\ Len(w) >= 2
  /\ \A s \in Seq(Byte) : ReadsAs(s, w, Dict(v), d)

\* A number under one key, under two and three.
LEMMA OneNumber ==
  ASSUME NEW a \in Seq(Byte), NEW x \in Nat
  PROVE  LET w == EncodeDict(Numbers(Insert(<<>>, a, x)))
             v == Before(a, Integer(x), <<>>)
         IN  /\ w \in Seq(Byte) /\ Len(w) = Len(Entry(a, EncodeInt(x))) + 2
             /\ \A s \in Seq(Byte) : ReadsAs(s, w, Dict(v), 3)
<1> DEFINE d == Insert(<<>>, a, x)
           v == Before(a, Integer(x), <<>>)
           ea == Entry(a, EncodeInt(x))
<1>1. DOMAIN d = {a} /\ d[a] = x
  BY DEF Insert
<1> HIDE DEF d
<1>2. /\ DOMAIN Numbers(d) = {a} /\ Numbers(d)[a] = EncodeInt(x)
  BY <1>1, NumbersIs
<1>3. EncodeInt(x) \in Seq(Byte) /\ ea \in Seq(Byte)
  BY EncodedTypes, EntryType, Zenon
<1>4. EncodeDict(Numbers(d)) = EntriesOf(ea)
  BY <1>2, <1>3, EncodeDictOne, Zenon
<1>5. ASSUME NEW s \in Seq(Byte) PROVE ReadsAs(s, EntriesOf(ea), Dict(v), 3)
  <2>1. 1 \in Nat \ {0} /\ 1 + 1 = 2 /\ 2 \in Nat \ {0} /\ 2 + 1 = 3
    OBVIOUS
  <2>2. ReadEntries(s, <<>>, <<>>, 1)
    BY <2>1, ReadNoEntries, Zenon
  <2>3. ReadEntries(s, ea \o <<>>, v, 2)
    <3>1. <<>> \in Seq(Byte)
      OBVIOUS
    <3> QED
      BY <2>1, <2>2, <3>1, ReadNumber, Zenon
  <2>4. ea \o <<>> = ea
    BY <1>3, ConcatEmptySeq
  <2>5. ReadEntries(s, ea, v, 2)
    BY <2>3, <2>4, Zenon
  <2> QED
    BY <1>3, <2>1, <2>5, ReadsDict, Zenon
<1> QED
  BY <1>3, <1>4, <1>5, EntriesOfType DEF d

\* Two numbers are read as the entries of their keys,
LEMMA ReadTwo ==
  ASSUME NEW s \in Seq(Byte), NEW a \in Seq(Byte), NEW b \in Seq(Byte), NEW x \in Nat, NEW y \in Nat
  PROVE  ReadEntries(s, Entry(a, EncodeInt(x)) \o Entry(b, EncodeInt(y)),
                     Before(a, Integer(x), Before(b, Integer(y), <<>>)), 3)
<1> DEFINE eb == Entry(b, EncodeInt(y))
<1>1. /\ 1 \in Nat \ {0} /\ 1 + 1 = 2 /\ 2 \in Nat \ {0} /\ 2 + 1 = 3
      /\ <<>> \in Seq(Byte)
  OBVIOUS
<1>2. ReadEntries(s, <<>>, <<>>, 1)
  BY <1>1, ReadNoEntries, Zenon
<1>3. ReadEntries(s, eb \o <<>>, Before(b, Integer(y), <<>>), 2)
  BY <1>1, <1>2, ReadNumber, Zenon
<1>4. eb \in Seq(Byte)
  BY EncodedTypes, EntryType, Zenon
<1> HIDE DEF eb
<1>5. eb \o <<>> = eb
  BY <1>4, ConcatEmptySeq
<1>6. ReadEntries(s, eb, Before(b, Integer(y), <<>>), 2)
  BY <1>3, <1>5, Zenon
<1>7. ReadEntries(s, Entry(a, EncodeInt(x)) \o eb, Before(a, Integer(x), Before(b, Integer(y), <<>>)), 2 + 1)
  BY <1>1, <1>4, <1>6, ReadNumber, Zenon
<1> QED
  BY <1>1, <1>7, Zenon DEF eb

\* and three.
LEMMA ReadThree ==
  ASSUME NEW s \in Seq(Byte), NEW a \in Seq(Byte), NEW b \in Seq(Byte), NEW c \in Seq(Byte),
         NEW x \in Nat, NEW y \in Nat, NEW z \in Nat
  PROVE  ReadEntries(s, Entry(a, EncodeInt(x)) \o (Entry(b, EncodeInt(y)) \o Entry(c, EncodeInt(z))),
                     Before(a, Integer(x), Before(b, Integer(y), Before(c, Integer(z), <<>>))), 4)
<1> DEFINE e == Entry(b, EncodeInt(y)) \o Entry(c, EncodeInt(z))
           w == Before(b, Integer(y), Before(c, Integer(z), <<>>))
<1>1. 3 \in Nat \ {0} /\ 3 + 1 = 4
  OBVIOUS
<1>2. ReadEntries(s, e, w, 3)
  BY ReadTwo, Zenon
<1>3. Entry(b, EncodeInt(y)) \in Seq(Byte) /\ Entry(c, EncodeInt(z)) \in Seq(Byte)
  BY EncodedTypes, EntryType, Zenon
<1>4. e \in Seq(Byte)
  BY <1>3, ConcatThree, Zenon
<1> HIDE DEF e, w
<1>5. ReadEntries(s, Entry(a, EncodeInt(x)) \o e, Before(a, Integer(x), w), 3 + 1)
  BY <1>1, <1>2, <1>4, ReadNumber, Zenon
<1> QED
  BY <1>1, <1>5, Zenon DEF e, w

\* A dictionary of two numbers is read as it was written,
LEMMA TwoNumbers ==
  ASSUME NEW a \in Seq(Byte), NEW b \in Seq(Byte), Precedes(a, b), ~Precedes(b, a),
         NEW x \in Nat, NEW y \in Nat
  PROVE  LET w == EncodeDict(Numbers(Insert(Insert(<<>>, a, x), b, y)))
             v == Before(a, Integer(x), Before(b, Integer(y), <<>>))
         IN  /\ w \in Seq(Byte)
             /\ Len(w) = Len(Entry(a, EncodeInt(x))) + Len(Entry(b, EncodeInt(y))) + 2
             /\ \A s \in Seq(Byte) : ReadsAs(s, w, Dict(v), 4)
<1> DEFINE d == Insert(Insert(<<>>, a, x), b, y)
           f == Numbers(d)
           v == Before(a, Integer(x), Before(b, Integer(y), <<>>))
           ea == Entry(a, EncodeInt(x))
           eb == Entry(b, EncodeInt(y))
           e == ea \o eb
<1>1. a # b
  BY NotBeforeItself
<1>2. DOMAIN d = {a, b} /\ d[a] = x /\ d[b] = y
  <2>1. DOMAIN d = {a, b}
    BY <1>1, InsertTwoKeys, Zenon
  <2>2. d[a] = x /\ d[b] = y
    BY <1>1, InsertTwoValues, SMT
  <2> QED
    BY <2>1, <2>2
<1> HIDE DEF d
<1>3. DOMAIN f = {a, b} /\ f[a] = EncodeInt(x) /\ f[b] = EncodeInt(y)
  BY <1>2, NumbersIs
<1> HIDE DEF f
<1>4. EncodeInt(x) \in Seq(Byte) /\ EncodeInt(y) \in Seq(Byte)
  BY EncodedTypes, Zenon
<1>5. EncodeDict(f) = EntriesOf(Entry(a, f[a]) \o Entry(b, f[b]))
  BY <1>3, <1>4, EncodeDictTwo, Zenon
<1>6. EncodeDict(f) = EntriesOf(e)
  BY <1>3, <1>5, Zenon
<1>7. \A s \in Seq(Byte) : ReadEntries(s, e, v, 3)
  BY ReadTwo, Zenon
<1>8. ea \in Seq(Byte) /\ eb \in Seq(Byte)
  BY <1>4, EntryType, Zenon
<1> HIDE DEF ea, eb
<1>9. e \in Seq(Byte) /\ Len(e) = Len(ea) + Len(eb)
  BY <1>8, ConcatThree, Zenon
<1> HIDE DEF e, v
<1>10. 3 \in Nat \ {0} /\ 3 + 1 = 4
  OBVIOUS
<1>11. \A s \in Seq(Byte) : ReadsAs(s, EntriesOf(e), Dict(v), 4)
  BY <1>7, <1>9, <1>10, ReadsDict, Zenon
<1>12. EntriesOf(e) \in Seq(Byte) /\ Len(EntriesOf(e)) = Len(ea) + Len(eb) + 2
  BY <1>9, EntriesOfType
<1> QED
  BY <1>6, <1>11, <1>12, Zenon DEF d, f, v, ea, eb

\* and so is one of three.
LEMMA ThreeNumbers ==
  ASSUME NEW a \in Seq(Byte), NEW b \in Seq(Byte), NEW c \in Seq(Byte),
         Precedes(a, b), ~Precedes(b, a), Precedes(b, c), ~Precedes(c, b),
         Precedes(a, c), ~Precedes(c, a),
         NEW x \in Nat, NEW y \in Nat, NEW z \in Nat
  PROVE  WellRead(EncodeDict(Numbers(Insert(Insert(Insert(<<>>, a, x), b, y), c, z))),
                  Before(a, Integer(x), Before(b, Integer(y), Before(c, Integer(z), <<>>))), 5)
<1> DEFINE d2 == Insert(Insert(<<>>, a, x), b, y)
           d == Insert(d2, c, z)
           f == Numbers(d)
           v == Before(a, Integer(x), Before(b, Integer(y), Before(c, Integer(z), <<>>)))
           e == Entry(a, EncodeInt(x)) \o (Entry(b, EncodeInt(y)) \o Entry(c, EncodeInt(z)))
<1>1. a # b /\ a # c /\ b # c
  BY NotBeforeItself
<1>2. DOMAIN d = {a, b, c} /\ d[a] = x /\ d[b] = y /\ d[c] = z
  <2>1. DOMAIN d2 = {a, b} /\ d2[a] = x /\ d2[b] = y
    <3>1. DOMAIN d2 = {a, b}
      BY <1>1, InsertTwoKeys, Zenon
    <3>2. d2[a] = x /\ d2[b] = y
      BY <1>1, InsertTwoValues, SMT
    <3> QED
      BY <3>1, <3>2
  <2> HIDE DEF d2
  <2> QED
    BY <1>1, <2>1 DEF Insert
<1> HIDE DEF d
<1>3. DOMAIN f = {a, b, c} /\ f[a] = EncodeInt(x) /\ f[b] = EncodeInt(y) /\ f[c] = EncodeInt(z)
  <2>1. \A k \in DOMAIN d : d[k] \in Nat
    BY <1>2
  <2>2. DOMAIN f = DOMAIN d /\ \A k \in DOMAIN d : f[k] = EncodeInt(d[k])
    BY <2>1, NumbersIs, Zenon
  <2>3. a \in DOMAIN d /\ b \in DOMAIN d /\ c \in DOMAIN d
    BY <1>2, Zenon
  <2> HIDE DEF f
  <2> QED
    BY <1>2, <2>2, <2>3, Zenon
<1> HIDE DEF f
<1>4. EncodeInt(x) \in Seq(Byte) /\ EncodeInt(y) \in Seq(Byte) /\ EncodeInt(z) \in Seq(Byte)
  BY EncodedTypes, Zenon
<1>5. EncodeDict(f) = EntriesOf(Entry(a, f[a]) \o (Entry(b, f[b]) \o Entry(c, f[c])))
  <2>1. f[a] \in Seq(Byte) /\ f[b] \in Seq(Byte) /\ f[c] \in Seq(Byte)
    BY <1>3, <1>4, Zenon
  <2>2. /\ a \in DOMAIN f /\ b \in DOMAIN f /\ c \in DOMAIN f
        /\ \A k \in DOMAIN f : k = a \/ k = b \/ k = c
    BY <1>3
  <2> QED
    BY <2>1, <2>2, EncodeDictThree, SMT
<1>6. EncodeDict(f) = EntriesOf(e)
  BY <1>3, <1>5, Zenon
<1>7. \A s \in Seq(Byte) : ReadEntries(s, e, v, 4)
  BY ReadThree, Zenon
<1>8. /\ Entry(a, EncodeInt(x)) \in Seq(Byte)
      /\ Entry(b, EncodeInt(y)) \in Seq(Byte) /\ Entry(c, EncodeInt(z)) \in Seq(Byte)
  BY <1>4, EntryType, Zenon
<1>9. e \in Seq(Byte)
  BY <1>8, ConcatThree, Zenon
<1> HIDE DEF e, v
<1>10. 4 \in Nat \ {0} /\ 4 + 1 = 5
  OBVIOUS
<1>11. \A s \in Seq(Byte) : ReadsAs(s, EntriesOf(e), Dict(v), 5)
  BY <1>7, <1>9, <1>10, ReadsDict, Zenon
<1>12. EntriesOf(e) \in Seq(Byte) /\ Len(EntriesOf(e)) >= 2
  <2>1. EntriesOf(e) \in Seq(Byte) /\ Len(EntriesOf(e)) = Len(e) + 2 /\ Len(e) \in Nat
    BY <1>9, EntriesOfType
  <2> QED
    BY <2>1
<1> QED
  BY <1>6, <1>11, <1>12, Zenon DEF d, f, v, WellRead

-----------------------------------------------------------------------------
\* Messages of the metadata extension

\* The numbers a message has, as a decoder finds them.
ShortEntries(kind, piece) ==
  Before(KeyMsgType, Integer(kind), Before(KeyPiece, Integer(piece), <<>>))
LongEntries(kind, piece, size) ==
  Before(KeyMsgType, Integer(kind),
         Before(KeyPiece, Integer(piece), Before(KeyTotalSize, Integer(size), <<>>)))
HasShort(d, kind, piece) ==
  /\ HasInt(d, KeyMsgType) /\ GetInt(d, KeyMsgType) = kind
  /\ HasInt(d, KeyPiece) /\ GetInt(d, KeyPiece) = piece
HasLong(d, kind, piece, size) ==
  HasShort(d, kind, piece) /\ HasInt(d, KeyTotalSize) /\ GetInt(d, KeyTotalSize) = size

\* A request or a rejection has what it is found by,
LEMMA KindAndPiece ==
  ASSUME NEW kind \in Nat, NEW piece \in Nat
  PROVE  HasShort(Dict(ShortEntries(kind, piece)), kind, piece)
<1> DEFINE v == Before(KeyMsgType, Integer(kind), Before(KeyPiece, Integer(piece), <<>>))
           d == Insert(Insert(<<>>, KeyMsgType, Integer(kind)), KeyPiece, Integer(piece))
<1>1. KeyMsgType # KeyPiece
  BY KeysAreBytes
<1>2. v = d
  BY <1>1, InsertTwoBefore, SMT
<1>3. d[KeyMsgType] = Integer(kind) /\ d[KeyPiece] = Integer(piece)
  BY <1>1, InsertTwoValues, SMT
<1>4. DOMAIN d = {KeyMsgType, KeyPiece}
  BY <1>1, InsertTwoKeys, Zenon
<1> HIDE DEF v, d
<1>5. KeyMsgType \in DOMAIN v /\ KeyPiece \in DOMAIN v
  BY <1>2, <1>4
<1>6. v[KeyMsgType] = Integer(kind) /\ v[KeyPiece] = Integer(piece)
  BY <1>2, <1>3, Zenon
<1>7. HasInt(Dict(v), KeyMsgType) /\ GetInt(Dict(v), KeyMsgType) = kind
  BY <1>5, <1>6, FoundInt, SMT
<1>8. HasInt(Dict(v), KeyPiece) /\ GetInt(Dict(v), KeyPiece) = piece
  BY <1>5, <1>6, FoundInt, SMT
<1> QED
  BY <1>7, <1>8, Zenon DEF v, HasShort, ShortEntries

\* and so have data.
LEMMA KindPieceAndSize ==
  ASSUME NEW kind \in Nat, NEW piece \in Nat, NEW size \in Nat
  PROVE  HasLong(Dict(LongEntries(kind, piece, size)), kind, piece, size)
<1> DEFINE r == Before(KeyPiece, Integer(piece), Before(KeyTotalSize, Integer(size), <<>>))
           d == Insert(Insert(<<>>, KeyPiece, Integer(piece)), KeyTotalSize, Integer(size))
           v == Before(KeyMsgType, Integer(kind), r)
<1>1. KeyMsgType # KeyPiece /\ KeyMsgType # KeyTotalSize /\ KeyPiece # KeyTotalSize
  BY KeysAreBytes
<1>2. r = d
  BY <1>1, InsertTwoBefore, SMT
<1>3. d[KeyPiece] = Integer(piece) /\ d[KeyTotalSize] = Integer(size)
  BY <1>1, InsertTwoValues, SMT
<1>4. DOMAIN d = {KeyPiece, KeyTotalSize}
  BY <1>1, InsertTwoKeys, Zenon
<1> HIDE DEF r, d
<1>5. KeyMsgType \in DOMAIN v /\ KeyPiece \in DOMAIN v /\ KeyTotalSize \in DOMAIN v
  BY <1>1, <1>2, <1>4 DEF Before, Insert
<1>6. v[KeyMsgType] = Integer(kind) /\ v[KeyPiece] = Integer(piece) /\ v[KeyTotalSize] = Integer(size)
  BY <1>1, <1>2, <1>3, <1>4 DEF Before, Insert
<1> HIDE DEF v
<1>7. HasInt(Dict(v), KeyMsgType) /\ GetInt(Dict(v), KeyMsgType) = kind
  BY <1>5, <1>6, FoundInt, SMT
<1>8. HasInt(Dict(v), KeyPiece) /\ GetInt(Dict(v), KeyPiece) = piece
  BY <1>5, <1>6, FoundInt, SMT
<1>9. HasInt(Dict(v), KeyTotalSize) /\ GetInt(Dict(v), KeyTotalSize) = size
  BY <1>5, <1>6, FoundInt, SMT
<1> QED
  BY <1>7, <1>8, <1>9, Zenon DEF v, r, HasShort, HasLong, LongEntries

\* A value that is all there is is decoded (Bencode::decode).
LEMMA DecodeWhole ==
  ASSUME NEW x \in Seq(Byte), NEW v, NEW d \in 1 .. 6, Len(x) >= 2, ReadsAs(x, x, v, d)
  PROVE  Decode(x) = Decoded(v, Len(x) + 1)
<1>1. x \o <<>> = x /\ <<>> \in Seq(Byte)
  BY ConcatEmptySeq
<1>2. ReadsAs(x \o <<>>, x, v, d)
  BY <1>1, Zenon
<1>3. Decode(x \o <<>>) = Decoded(v, Len(x) + 1)
  BY <1>1, <1>2, DecodeReads, Zenon
<1> QED
  BY <1>1, <1>3, Zenon

\* A request and a rejection, of a piece.
ShortRead(x, kind, piece) ==
  x \in Seq(Byte) /\ Decode(x).ok /\ HasShort(Decode(x).value, kind, piece)

\* The dictionary of a request or a rejection is decoded,
LEMMA DecodeShort ==
  ASSUME NEW kind \in Nat, NEW piece \in Nat
  PROVE  ShortRead(EncodeDict(Numbers(MetadataEntries(kind, piece))), kind, piece)
<1> DEFINE x == EncodeDict(Numbers(MetadataEntries(kind, piece)))
           v == ShortEntries(kind, piece)
           a == Entry(KeyMsgType, EncodeInt(kind))
           b == Entry(KeyPiece, EncodeInt(piece))
<1>1. KeyMsgType \in Seq(Byte) /\ KeyPiece \in Seq(Byte)
  BY KeysAreBytes, Zenon
<1>2. Precedes(KeyMsgType, KeyPiece) /\ ~Precedes(KeyPiece, KeyMsgType)
  BY KeyOrder, Zenon
<1>3. /\ x \in Seq(Byte) /\ Len(x) = Len(a) + Len(b) + 2
      /\ \A s \in Seq(Byte) : ReadsAs(s, x, Dict(v), 4)
  BY <1>1, <1>2, TwoNumbers, Zenon DEF MetadataEntries, ShortEntries
<1>4. a \in Seq(Byte) /\ b \in Seq(Byte)
  BY <1>1, EncodedTypes, EntryType, Zenon
<1> HIDE DEF x, a, b, v
<1>5. Len(x) >= 2 /\ 4 \in 1 .. 6
  BY <1>3, <1>4
<1>6. ReadsAs(x, x, Dict(v), 4)
  BY <1>3, Zenon
<1>7. Decode(x) = Decoded(Dict(v), Len(x) + 1)
  BY <1>3, <1>5, <1>6, DecodeWhole, SMT
<1>8. Decode(x).ok /\ Decode(x).value = Dict(v)
  BY <1>7 DEF Decoded
<1>9. HasShort(Dict(v), kind, piece)
  BY KindAndPiece, Zenon DEF v
<1> QED
  BY <1>3, <1>8, <1>9, Zenon DEF x, ShortRead

\* A piece, which follows the dictionary.
LongRead(x, kind, piece, size, data) ==
  /\ x \in Seq(Byte) /\ Decode(x).ok /\ Rest(x, Decode(x)) = data
  /\ HasLong(Decode(x).value, kind, piece, size)

\* and that of data, with the data that follow it, which it leaves alone.
LEMMA DecodeLong ==
  ASSUME NEW kind \in Nat, NEW piece \in Nat, NEW size \in Nat, NEW data \in Seq(Byte)
  PROVE  LongRead(EncodeDict(Numbers(Insert(MetadataEntries(kind, piece), KeyTotalSize, size))) \o data,
                  kind, piece, size, data)
<1> DEFINE x == EncodeDict(Numbers(Insert(MetadataEntries(kind, piece), KeyTotalSize, size)))
           v == LongEntries(kind, piece, size)
           s == x \o data
<1>1. KeyMsgType \in Seq(Byte) /\ KeyPiece \in Seq(Byte) /\ KeyTotalSize \in Seq(Byte)
  BY KeysAreBytes, Zenon
<1>2. /\ Precedes(KeyMsgType, KeyPiece) /\ ~Precedes(KeyPiece, KeyMsgType)
      /\ Precedes(KeyPiece, KeyTotalSize) /\ ~Precedes(KeyTotalSize, KeyPiece)
      /\ Precedes(KeyMsgType, KeyTotalSize) /\ ~Precedes(KeyTotalSize, KeyMsgType)
  BY KeyOrder, Zenon
<1>3. WellRead(x, v, 5)
  BY <1>1, <1>2, ThreeNumbers, SMT DEF MetadataEntries, LongEntries
<1> HIDE DEF x, v
<1>4. x \in Seq(Byte) /\ Len(x) >= 2 /\ \A t \in Seq(Byte) : ReadsAs(t, x, Dict(v), 5)
  BY <1>3, Zenon DEF WellRead
<1>5. s \in Seq(Byte) /\ 5 \in 1 .. 6
  BY <1>4, ConcatThree
<1>6. ReadsAs(s, x, Dict(v), 5)
  BY <1>4, <1>5, Zenon
<1>7. Decode(s) = Decoded(Dict(v), Len(x) + 1) /\ Rest(s, Decode(s)) = data
  BY <1>4, <1>5, <1>6, DecodeReads, SMT
<1>8. Decode(s).ok /\ Decode(s).value = Dict(v)
  BY <1>7 DEF Decoded
<1>9. HasLong(Dict(v), kind, piece, size)
  BY KindPieceAndSize, Zenon DEF v
<1> QED
  BY <1>5, <1>7, <1>8, <1>9, Zenon DEF x, LongRead

\* A number that is not negative stays itself as a usize.
LEMMA AsUsizeIs == \A n \in Nat : AsUsize(n) = n
BY DEF AsUsize

\* A number of four bytes is a number.
LEMMA U32IsNat == \A n \in U32 : n \in Nat
BY U32Is, Zenon

\* What is said of metadata is understood.
LEMMA MetadataReads ==
  ASSUME NEW m \in MetadataMessage
  PROVE  EncodeMetadata(m) \in Seq(Byte) /\ DecodeMetadata(EncodeMetadata(m)) = Accepted(m)
<1> DEFINE Short == [type : {"Request", "Reject"}, piece : U32]
           Long == [type : {"Data"}, piece : U32, totalSize : U32, data : Seq(Byte)]
           s == EncodeMetadata(m)
           d == Decode(s)
<1>1. CASE m \in Short /\ m.type = "Request"
  <2>1. m.piece \in Nat /\ m = [type |-> "Request", piece |-> m.piece] /\ 0 \in Nat
    BY <1>1, U32IsNat
  <2>2. s = EncodeDict(Numbers(MetadataEntries(0, m.piece)))
    BY <1>1 DEF EncodeMetadata
  <2>6. ShortRead(s, 0, m.piece)
    BY <2>1, <2>2, DecodeShort, Zenon
  <2>3. /\ s \in Seq(Byte) /\ d.ok /\ HasInt(d.value, KeyMsgType) /\ GetInt(d.value, KeyMsgType) = 0
        /\ HasInt(d.value, KeyPiece) /\ GetInt(d.value, KeyPiece) = m.piece
    BY <2>6, Zenon DEF ShortRead, HasShort
  <2> HIDE DEF s
  <2>4. AsUsize(GetInt(d.value, KeyPiece)) = m.piece
    BY <2>1, <2>3, AsUsizeIs, Zenon
  <2>5. DecodeMetadata(s) = Accepted([type |-> "Request", piece |-> m.piece])
    BY <2>3, <2>4 DEF DecodeMetadata
  <2> QED
    BY <2>1, <2>3, <2>5, Zenon DEF s
<1>2. CASE m \in Short /\ m.type = "Reject"
  <2>1. m.piece \in Nat /\ m = [type |-> "Reject", piece |-> m.piece] /\ 2 \in Nat
    BY <1>2, U32IsNat
  <2>2. s = EncodeDict(Numbers(MetadataEntries(2, m.piece)))
    BY <1>2 DEF EncodeMetadata
  <2>6. ShortRead(s, 2, m.piece)
    BY <2>1, <2>2, DecodeShort, Zenon
  <2>3. /\ s \in Seq(Byte) /\ d.ok /\ HasInt(d.value, KeyMsgType) /\ GetInt(d.value, KeyMsgType) = 2
        /\ HasInt(d.value, KeyPiece) /\ GetInt(d.value, KeyPiece) = m.piece
    BY <2>6, Zenon DEF ShortRead, HasShort
  <2> HIDE DEF s
  <2>4. AsUsize(GetInt(d.value, KeyPiece)) = m.piece
    BY <2>1, <2>3, AsUsizeIs, Zenon
  <2>5. DecodeMetadata(s) = Accepted([type |-> "Reject", piece |-> m.piece])
    BY <2>3, <2>4 DEF DecodeMetadata
  <2> QED
    BY <2>1, <2>3, <2>5, Zenon DEF s
<1>3. CASE m \in Long
  <2>1. /\ m.piece \in Nat /\ m.totalSize \in Nat /\ m.data \in Seq(Byte) /\ 1 \in Nat
        /\ m = [type |-> "Data", piece |-> m.piece, totalSize |-> m.totalSize, data |-> m.data]
    BY <1>3, U32IsNat
  <2>2. s = EncodeDict(Numbers(Insert(MetadataEntries(1, m.piece), KeyTotalSize, m.totalSize))) \o m.data
    BY <1>3 DEF EncodeMetadata
  <2>6. LongRead(s, 1, m.piece, m.totalSize, m.data)
    BY <2>1, <2>2, DecodeLong, Zenon
  <2>3. /\ s \in Seq(Byte) /\ d.ok /\ Rest(s, d) = m.data
        /\ HasInt(d.value, KeyMsgType) /\ GetInt(d.value, KeyMsgType) = 1
        /\ HasInt(d.value, KeyPiece) /\ GetInt(d.value, KeyPiece) = m.piece
        /\ HasInt(d.value, KeyTotalSize) /\ GetInt(d.value, KeyTotalSize) = m.totalSize
    BY <2>6, Zenon DEF LongRead, HasLong, HasShort
  <2> HIDE DEF s
  <2>4. /\ AsUsize(GetInt(d.value, KeyPiece)) = m.piece
        /\ AsUsize(GetInt(d.value, KeyTotalSize)) = m.totalSize
    BY <2>1, <2>3, AsUsizeIs, Zenon
  <2>5. DecodeMetadata(s) = Accepted([type |-> "Data", piece |-> m.piece,
                                      totalSize |-> m.totalSize, data |-> m.data])
    BY <2>3, <2>4 DEF DecodeMetadata
  <2> QED
    BY <2>1, <2>3, <2>5, Zenon DEF s
<1>4. \/ m \in Short /\ m.type = "Request"
      \/ m \in Short /\ m.type = "Reject"
      \/ m \in Long
  BY DEF MetadataMessage
<1> QED
  BY <1>1, <1>2, <1>3, <1>4, Zenon

-----------------------------------------------------------------------------
\* The extension handshake of this program

OurNames == EncodeDict(Numbers(Insert(Insert(<<>>, UtMetadata, 1), UtPex, 2)))
NamesRead == Before(UtMetadata, Integer(1), Before(UtPex, Integer(2), <<>>))

\* The names of the extensions are read, and they are few.
LEMMA NamesAreRead ==
  /\ OurNames \in Seq(Byte) /\ Len(OurNames) <= 30
  /\ \A s \in Seq(Byte) : ReadsAs(s, OurNames, Dict(NamesRead), 4)
<1> DEFINE a == Entry(UtMetadata, EncodeInt(1))
           b == Entry(UtPex, EncodeInt(2))
<1>1. UtMetadata \in Seq(Byte) /\ UtPex \in Seq(Byte) /\ 1 \in Nat /\ 2 \in Nat
  BY KeysAreBytes
<1>2. Precedes(UtMetadata, UtPex) /\ ~Precedes(UtPex, UtMetadata)
  BY KeyOrder, Zenon
<1>3. /\ OurNames \in Seq(Byte) /\ Len(OurNames) = Len(a) + Len(b) + 2
      /\ \A s \in Seq(Byte) : ReadsAs(s, OurNames, Dict(NamesRead), 4)
  BY <1>1, <1>2, TwoNumbers, Zenon DEF OurNames, NamesRead
<1>4. EncodeInt(1) \in Seq(Byte) /\ EncodeInt(2) \in Seq(Byte)
  BY <1>1, EncodedTypes, Zenon
<1>5. /\ Len(a) = Len(ByteString(UtMetadata)) + Len(EncodeInt(1))
      /\ Len(b) = Len(ByteString(UtPex)) + Len(EncodeInt(2))
  BY <1>1, <1>4, EntryType, Zenon
<1>6. /\ Len(ByteString(UtMetadata)) = Len(Digits(11)) + 1 + 11
      /\ Len(ByteString(UtPex)) = Len(Digits(6)) + 1 + 6
  <2>1. Len(UtMetadata) = 11 /\ Len(UtPex) = 6
    BY KeysAreBytes, Zenon
  <2>2. /\ Len(ByteString(UtMetadata)) = Len(Digits(Len(UtMetadata))) + 1 + Len(UtMetadata)
        /\ Len(ByteString(UtPex)) = Len(Digits(Len(UtPex))) + 1 + Len(UtPex)
    BY <1>1, EncodedTypes, Zenon
  <2> QED
    BY <2>1, <2>2, Zenon
<1>7. Len(EncodeInt(1)) = Len(Digits(1)) + 2 /\ Len(EncodeInt(2)) = Len(Digits(2)) + 2
  BY <1>1, EncodedTypes, Zenon
<1>8. 11 \in Nat /\ 6 \in Nat /\ 11 \div 10 + 1 = 2 /\ 6 \div 10 + 1 = 1 /\ 1 \div 10 + 1 = 1 /\ 2 \div 10 + 1 = 1
  OBVIOUS
<1>9. Len(Digits(11)) <= 2 /\ Len(Digits(6)) <= 1 /\ Len(Digits(1)) <= 1 /\ Len(Digits(2)) <= 1
  <2>1. /\ Len(Digits(11)) <= 11 \div 10 + 1 /\ Len(Digits(6)) <= 6 \div 10 + 1
        /\ Len(Digits(1)) <= 1 \div 10 + 1 /\ Len(Digits(2)) <= 2 \div 10 + 1
    BY <1>1, <1>8, DigitsRead, Zenon
  <2> QED
    BY <1>8, <2>1, Zenon
<1>10. /\ Len(Digits(11)) \in Nat /\ Len(Digits(6)) \in Nat
       /\ Len(Digits(1)) \in Nat /\ Len(Digits(2)) \in Nat
  BY <1>1, <1>8, DigitsOf, Zenon
<1> HIDE DEF a, b
<1>11. Len(OurNames) <= 30
  BY <1>3, <1>5, <1>6, <1>7, <1>9, <1>10, SMT
<1> QED
  BY <1>3, <1>11, Zenon

\* The entries of the handshake: the names, and the size if there is one.
OurEntries ==
  IF OurSize = NoNumber THEN Entry(KeyM, OurNames)
  ELSE Entry(KeyM, OurNames) \o Entry(KeyMetadataSize, EncodeInt(OurSize))
EntriesRead ==
  Before(KeyM, Dict(NamesRead),
         IF OurSize = NoNumber THEN <<>> ELSE Before(KeyMetadataSize, Integer(OurSize), <<>>))

\* The extension handshake is a dictionary of these entries.
LEMMA ExtensionsEncoded ==
  EncodeExtensions(OurExtensions) = EntriesOf(OurEntries)
<1> DEFINE f == Insert(Numbers(Insert(<<>>, KeyMetadataSize, OurSize)), KeyM, OurNames)
<1>1. EncodeExtensions(OurExtensions) = EncodeDict(f)
  BY DEF EncodeExtensions, OurExtensions, OurNames
<1>2. KeyM \in Seq(Byte) /\ KeyMetadataSize \in Seq(Byte) /\ KeyM # KeyMetadataSize
  <2>1. KeyM \in Seq(Byte) /\ KeyMetadataSize \in Seq(Byte) /\ Len(KeyM) # Len(KeyMetadataSize)
    BY KeysAreBytes
  <2> QED
    BY <2>1, Zenon
<1>3. OurNames \in Seq(Byte)
  BY NamesAreRead, Zenon
<1>4. OurSize = NoNumber \/ OurSize \in U32
  BY StreamAssumption, Zenon
<1>5. DOMAIN Insert(<<>>, KeyMetadataSize, OurSize) = {KeyMetadataSize}
      /\ Insert(<<>>, KeyMetadataSize, OurSize)[KeyMetadataSize] = OurSize
  <2>1. DOMAIN <<>> = {}
    OBVIOUS
  <2> QED
    BY <2>1 DEF Insert
<1>6. CASE OurSize = NoNumber
  <2>1. DOMAIN Numbers(Insert(<<>>, KeyMetadataSize, OurSize)) = {}
    BY <1>5, <1>6 DEF Numbers
  <2>2. DOMAIN f = {KeyM} /\ f[KeyM] = OurNames
    BY <2>1 DEF Insert
  <2> HIDE DEF f
  <2>3. EncodeDict(f) = EntriesOf(Entry(KeyM, f[KeyM]))
    BY <1>2, <1>3, <2>2, EncodeDictOne, Zenon
  <2> QED
    BY <1>1, <1>6, <2>2, <2>3, Zenon DEF OurEntries
<1>7. CASE OurSize # NoNumber
  <2> DEFINE d == Insert(<<>>, KeyMetadataSize, OurSize)
             n == Numbers(d)
  <2>1. OurSize \in Nat
    BY <1>4, <1>7, U32IsNat
  <2>2. DOMAIN d = {KeyMetadataSize} /\ d[KeyMetadataSize] = OurSize
    BY <1>5, Zenon
  <2> HIDE DEF d
  <2>3. DOMAIN n = {KeyMetadataSize} /\ n[KeyMetadataSize] = EncodeInt(OurSize)
    BY <2>1, <2>2, NumbersIs
  <2> HIDE DEF n
  <2>4. f = Insert(n, KeyM, OurNames)
    BY Zenon DEF n, d
  <2>5. DOMAIN f = {KeyM, KeyMetadataSize} /\ f[KeyM] = OurNames
        /\ f[KeyMetadataSize] = EncodeInt(OurSize)
    <3> HIDE DEF f
    <3> QED
      BY <1>2, <2>3, <2>4 DEF Insert
  <2> HIDE DEF f
  <2>6. Precedes(KeyM, KeyMetadataSize) /\ ~Precedes(KeyMetadataSize, KeyM)
    BY KeyOrder, Zenon
  <2>7. EncodeInt(OurSize) \in Seq(Byte)
    BY <2>1, EncodedTypes, Zenon
  <2>8. f[KeyM] \in Seq(Byte) /\ f[KeyMetadataSize] \in Seq(Byte)
    BY <1>3, <2>5, <2>7, Zenon
  <2>9. EncodeDict(f) = EntriesOf(Entry(KeyM, f[KeyM]) \o Entry(KeyMetadataSize, f[KeyMetadataSize]))
    BY <1>2, <2>5, <2>6, <2>8, EncodeDictTwo, Zenon
  <2> QED
    BY <1>1, <1>7, <2>5, <2>9, Zenon DEF OurEntries
<1> QED
  BY <1>6, <1>7, Zenon

\* They are read, and they are not many.
LEMMA OurEntriesRead ==
  /\ OurEntries \in Seq(Byte) /\ Len(OurEntries) + 4 <= Huge
  /\ \A s \in Seq(Byte) : ReadEntries(s, OurEntries, EntriesRead, 5)
<1> DEFINE a == Entry(KeyM, OurNames)
           b == Entry(KeyMetadataSize, EncodeInt(OurSize))
<1>1. KeyM \in Seq(Byte) /\ KeyMetadataSize \in Seq(Byte) /\ Len(KeyM) = 1 /\ Len(KeyMetadataSize) = 13
  BY KeysAreBytes, Zenon
<1>2. OurNames \in Seq(Byte) /\ Len(OurNames) <= 30
  BY NamesAreRead, Zenon
<1>3. \A s \in Seq(Byte) : ReadsAs(s, OurNames, Dict(NamesRead), 4)
  BY NamesAreRead, Zenon
<1>4. a \in Seq(Byte) /\ Len(a) = Len(ByteString(KeyM)) + Len(OurNames)
  BY <1>1, <1>2, EntryType, Zenon
<1>5. Len(a) <= 33 /\ Len(a) \in Nat
  <2>1. Len(ByteString(KeyM)) = Len(Digits(1)) + 1 + 1
    BY <1>1, EncodedTypes, Zenon
  <2>2. 1 \in Nat /\ 1 \div 10 + 1 = 1
    OBVIOUS
  <2>3. Len(Digits(1)) <= 1 \div 10 + 1 /\ Len(Digits(1)) \in Nat
    BY <2>2, DigitsRead, DigitsOf, Zenon
  <2>4. Len(OurNames) \in Nat
    BY <1>2
  <2> HIDE DEF a
  <2> QED
    BY <1>2, <1>4, <2>1, <2>2, <2>3, <2>4, SMT
<1>6. /\ 3 \in Nat \ {0} /\ 3 + 1 = 4 /\ 4 \in Nat \ {0} /\ 4 + 1 = 5 /\ <<>> \in Seq(Byte)
  OBVIOUS
<1>7. CASE OurSize = NoNumber
  <2>1. ASSUME NEW s \in Seq(Byte) PROVE ReadEntries(s, a, EntriesRead, 5)
    <3>1. ReadEntries(s, <<>>, <<>>, 4)
      BY <1>6, ReadNoEntries, Zenon
    <3>2. ReadsAs(s, OurNames, Dict(NamesRead), 4)
      BY <1>3, Zenon
    <3>3. ReadEntries(s, a \o <<>>, Before(KeyM, Dict(NamesRead), <<>>), 4 + 1)
      BY <1>1, <1>2, <1>6, <3>1, <3>2, ReadEntry, Zenon
    <3>4. a \o <<>> = a
      BY <1>4, ConcatEmptySeq
    <3> QED
      BY <1>6, <1>7, <3>3, <3>4, Zenon DEF EntriesRead
  <2> QED
    <3>1. OurEntries = a
      BY <1>7, Zenon DEF OurEntries
    <3> HIDE DEF a
    <3>2. Len(a) + 4 <= Huge
      BY <1>5, SMT DEF Huge
    <3> QED
      BY <1>4, <2>1, <3>1, <3>2, Zenon
<1>8. CASE OurSize # NoNumber
  <2>1. OurSize \in Nat /\ OurSize <= Huge
    BY <1>8, StreamAssumption, U32Is
  <2>2. EncodeInt(OurSize) \in Seq(Byte) /\ Len(EncodeInt(OurSize)) = Len(Digits(OurSize)) + 2
    BY <2>1, EncodedTypes, Zenon
  <2>3. b \in Seq(Byte) /\ Len(b) = Len(ByteString(KeyMetadataSize)) + Len(EncodeInt(OurSize))
    BY <1>1, <2>2, EntryType, Zenon
  <2>4. Len(b) <= 20 + (OurSize \div 10 + 1) /\ Len(b) \in Nat
    <3>1. Len(ByteString(KeyMetadataSize)) = Len(Digits(13)) + 1 + 13
      BY <1>1, EncodedTypes, Zenon
    <3>2. 13 \in Nat /\ 13 \div 10 + 1 = 2
      OBVIOUS
    <3>3. Len(Digits(13)) <= 13 \div 10 + 1 /\ Len(Digits(OurSize)) <= OurSize \div 10 + 1
      BY <2>1, <3>2, DigitsRead, Zenon
    <3>4. Len(Digits(13)) \in Nat /\ Len(Digits(OurSize)) \in Nat
      BY <2>1, <3>2, DigitsOf, Zenon
    <3> HIDE DEF b
    <3> QED
      BY <2>1, <2>2, <2>3, <3>1, <3>2, <3>3, <3>4, SMT
  <2>5. OurSize \div 10 <= 214748364
    BY <2>1, SMT DEF Huge
  <2>6. OurEntries = a \o b
    BY <1>8, Zenon DEF OurEntries
  <2>7. EntriesRead = Before(KeyM, Dict(NamesRead), Before(KeyMetadataSize, Integer(OurSize), <<>>))
    BY <1>8, Zenon DEF EntriesRead
  <2>8. ASSUME NEW s \in Seq(Byte) PROVE ReadEntries(s, a \o b, EntriesRead, 5)
    <3>1. ReadEntries(s, <<>>, <<>>, 3)
      BY <1>6, ReadNoEntries, Zenon
    <3>2. ReadEntries(s, b \o <<>>, Before(KeyMetadataSize, Integer(OurSize), <<>>), 3 + 1)
      BY <1>1, <1>6, <2>1, <3>1, ReadNumber, Zenon
    <3>3. b \o <<>> = b
      BY <2>3, ConcatEmptySeq
    <3>4. ReadEntries(s, b, Before(KeyMetadataSize, Integer(OurSize), <<>>), 4)
      BY <1>6, <3>2, <3>3, Zenon
    <3>5. ReadsAs(s, OurNames, Dict(NamesRead), 4)
      BY <1>3, Zenon
    <3> HIDE DEF b
    <3>6. ReadEntries(s, a \o b, Before(KeyM, Dict(NamesRead), Before(KeyMetadataSize, Integer(OurSize), <<>>)), 4 + 1)
      BY <1>1, <1>2, <1>6, <2>3, <3>4, <3>5, ReadEntry, Zenon
    <3> QED
      BY <1>6, <2>7, <3>6, Zenon
  <2> HIDE DEF a, b
  <2>9. a \o b \in Seq(Byte) /\ Len(a \o b) = Len(a) + Len(b)
    BY <1>4, <2>3, ConcatThree, Zenon
  <2>10. Len(a \o b) + 4 <= Huge
    BY <1>5, <2>1, <2>4, <2>5, <2>9, SMT DEF Huge
  <2> QED
    BY <2>6, <2>8, <2>9, <2>10, Zenon
<1> QED
  BY <1>7, <1>8, Zenon

\* What the peer makes of them.
LEMMA ExtensionsUnderstood == ExtensionsFrom(Dict(EntriesRead)) = OurExtensions
<1> DEFINE v == Dict(EntriesRead)
           m == NamesRead
           valid == {k \in DOMAIN m : IsInt(m[k]) /\ m[k].int \in 0 .. 255}
           r == IF OurSize = NoNumber THEN <<>> ELSE Before(KeyMetadataSize, Integer(OurSize), <<>>)
           ours == Insert(Insert(<<>>, UtMetadata, 1), UtPex, 2)
           size == IF HasInt(v, KeyMetadataSize) /\ GetInt(v, KeyMetadataSize) >= 0
                   THEN GetInt(v, KeyMetadataSize) ELSE NoNumber
<1>1. UtMetadata # UtPex /\ KeyM # KeyMetadataSize
  <2>1. Len(UtMetadata) # Len(UtPex) /\ Len(KeyM) # Len(KeyMetadataSize)
    BY KeysAreBytes
  <2> QED
    BY <2>1, Zenon
<1>2. m = Insert(Insert(<<>>, UtMetadata, Integer(1)), UtPex, Integer(2))
  BY <1>1, InsertTwoBefore, SMT DEF NamesRead
<1>3. DOMAIN m = {UtMetadata, UtPex}
  BY <1>1, <1>2, InsertTwoKeys, Zenon
<1>4. m[UtMetadata] = Integer(1) /\ m[UtPex] = Integer(2)
  <2>1. /\ Insert(Insert(<<>>, UtMetadata, Integer(1)), UtPex, Integer(2))[UtMetadata] = Integer(1)
        /\ Insert(Insert(<<>>, UtMetadata, Integer(1)), UtPex, Integer(2))[UtPex] = Integer(2)
    BY <1>1, InsertTwoValues, SMT
  <2> QED
    BY <1>2, <2>1, Zenon
<1>5. DOMAIN ours = {UtMetadata, UtPex}
  BY <1>1, InsertTwoKeys, Zenon
<1>6. ours[UtMetadata] = 1 /\ ours[UtPex] = 2
  BY <1>1, InsertTwoValues, SMT
<1>7. ours = [k \in {UtMetadata, UtPex} |-> ours[k]]
  BY <1>5 DEF Insert
<1> HIDE DEF m, ours
<1>8. valid = {UtMetadata, UtPex}
  BY <1>3, <1>4 DEF IsInt, Integer
<1>9. m[UtMetadata].int = 1 /\ m[UtPex].int = 2
  BY <1>4 DEF Integer
<1>10. [k \in valid |-> m[k].int] = ours
  <2> HIDE DEF valid
  <2> QED
    BY <1>6, <1>7, <1>8, <1>9
<1>11. DOMAIN r = IF OurSize = NoNumber THEN {} ELSE {KeyMetadataSize}
  <2>1. DOMAIN <<>> = {}
    OBVIOUS
  <2> QED
    BY <2>1 DEF Before, Insert
<1>12. OurSize # NoNumber => r[KeyMetadataSize] = Integer(OurSize)
  BY DEF Before, Insert
<1>13. EntriesRead = Before(KeyM, Dict(m), r)
  BY Zenon DEF EntriesRead, m
<1> HIDE DEF r
<1>14. /\ KeyM \in DOMAIN EntriesRead /\ EntriesRead[KeyM] = Dict(m)
       /\ OurSize = NoNumber => KeyMetadataSize \notin DOMAIN EntriesRead
       /\ OurSize # NoNumber => KeyMetadataSize \in DOMAIN EntriesRead
                                /\ EntriesRead[KeyMetadataSize] = Integer(OurSize)
  BY <1>1, <1>11, <1>12, <1>13 DEF Before, Insert
<1>15. HasKey(v, KeyM) /\ IsDict(v.dict[KeyM]) /\ v.dict[KeyM].dict = m
  BY <1>14 DEF HasKey, IsDict, Dict
<1>16. size = OurSize
  <2>1. CASE OurSize = NoNumber
    <3>1. ~HasInt(v, KeyMetadataSize)
      BY <1>14, <2>1 DEF HasInt, HasKey, IsDict, Dict
    <3> QED
      BY <2>1, <3>1, Zenon
  <2>2. CASE OurSize # NoNumber
    <3>1. KeyMetadataSize \in DOMAIN EntriesRead /\ EntriesRead[KeyMetadataSize] = Integer(OurSize)
      BY <1>14, <2>2, Zenon
    <3>2. HasInt(v, KeyMetadataSize) /\ GetInt(v, KeyMetadataSize) = OurSize
      BY <3>1, FoundInt, SMT
    <3>3. OurSize \in Nat
      BY <2>2, StreamAssumption, U32IsNat, Zenon
    <3>4. OurSize >= 0
      BY <3>3
    <3> QED
      BY <3>2, <3>4, Zenon
  <2> QED
    BY <2>1, <2>2, Zenon
<1> HIDE DEF v
<1>17. ExtensionsFrom(v) = [type |-> "ExtensionHandshake", extensions |-> [k \in valid |-> m[k].int],
                            metadataSize |-> size]
  BY <1>15, Zenon DEF ExtensionsFrom
<1> HIDE DEF valid, size
<1>18. OurExtensions = [type |-> "ExtensionHandshake", metadataSize |-> OurSize, extensions |-> ours]
  BY Zenon DEF OurExtensions, ours
<1>19. ExtensionsFrom(v) = [type |-> "ExtensionHandshake", extensions |-> ours, metadataSize |-> OurSize]
  BY <1>10, <1>16, <1>17 DEF valid, m
<1> QED
  BY <1>18, <1>19 DEF v

\* It is decoded to the extensions and the size it was made from.
LEMMA ExtensionsRead ==
  LET x == EncodeExtensions(OurExtensions)
  IN  /\ x \in Seq(Byte) /\ Len(x) + 2 <= Huge /\ Decode(x).ok
      /\ ExtensionsFrom(Decode(x).value) = OurExtensions
<1> DEFINE x == EntriesOf(OurEntries)
<1>1. OurEntries \in Seq(Byte) /\ Len(OurEntries) + 4 <= Huge /\ Len(OurEntries) \in Nat
  <2>1. OurEntries \in Seq(Byte) /\ Len(OurEntries) + 4 <= Huge
    BY OurEntriesRead, Zenon
  <2> QED
    BY <2>1
<1>2. x \in Seq(Byte) /\ Len(x) = Len(OurEntries) + 2
  BY <1>1, EntriesOfType, Zenon
<1>3. Len(x) >= 2 /\ Len(x) + 2 <= Huge /\ 6 \in 1 .. 6 /\ 5 \in Nat \ {0} /\ 5 + 1 = 6
  <2> HIDE DEF x
  <2> QED
    BY <1>1, <1>2 DEF Huge
<1>4. ReadEntries(x, OurEntries, EntriesRead, 5)
  BY <1>2, OurEntriesRead, Zenon
<1>5. ReadsAs(x, x, Dict(EntriesRead), 6)
  BY <1>1, <1>2, <1>3, <1>4, ReadsDict, Zenon
<1> HIDE DEF x
<1>6. Decode(x) = Decoded(Dict(EntriesRead), Len(x) + 1)
  BY <1>2, <1>3, <1>5, DecodeWhole, SMT
<1>7. Decode(x).ok /\ Decode(x).value = Dict(EntriesRead)
  BY <1>6 DEF Decoded
<1> QED
  BY <1>2, <1>3, <1>7, ExtensionsUnderstood, ExtensionsEncoded, Zenon DEF x

-----------------------------------------------------------------------------
\* Messages of the peer exchange extension

\* A finite set as a list.
LEMMA ListIs ==
  ASSUME NEW S, IsFiniteSet(S)
  PROVE  LET n == Cardinality(S)
             q == SetToSeq(S)
         IN  n \in Nat /\ q \in [1 .. n -> S] /\ \A x \in S : \E i \in 1 .. n : q[i] = x
<1> DEFINE n == Cardinality(S)
           q == SetToSeq(S)
<1>1. n \in Nat /\ ExistsBijection(1 .. n, S)
  BY FS_CardinalityType, Zenon
<1>2. \E f \in [1 .. n -> S] : IsInjective(f)
  BY <1>1, Zenon DEF ExistsBijection, Bijection, Injection
<1>3. q \in [1 .. n -> S] /\ IsInjective(q)
  BY <1>2, Zenon DEF SetToSeq
<1>4. IsFiniteSet(1 .. n) /\ Cardinality(1 .. n) = n
  BY <1>1, FS_Interval
<1>5. q \in Surjection(1 .. n, S)
  <2>1. q \in Injection(1 .. n, S)
    BY <1>3, Zenon DEF Injection
  <2> HIDE DEF q
  <2> QED
    BY <1>1, <1>4, <2>1, FS_Injection, Zenon
<1>6. \A x \in S : \E i \in 1 .. n : q[i] = x
  <2> HIDE DEF q, n
  <2> QED
    BY <1>5, Zenon DEF Surjection
<1> QED
  BY <1>1, <1>3, <1>6, Zenon

\* Items of six bytes each, or of eighteen, one after the other.
LEMMA OfOneSize ==
  ASSUME NEW c \in {6, 18}, NEW n \in Nat \ {0}, NEW q \in [1 .. n -> Seq(Byte)],
         \A i \in 1 .. n : Len(q[i]) = c
  PROVE  /\ FlattenSeq(q) \in Seq(Byte) /\ Len(FlattenSeq(q)) = c * n
         /\ \A i \in 0 .. n - 1 : \A k \in 1 .. c : FlattenSeq(q)[c * i + k] = q[i + 1][k]
<1> DEFINE f == Flat(q, n)
           P(j) == /\ f[j] \in Seq(Byte) /\ Len(f[j]) = c * j
                   /\ \A i \in 0 .. j - 1 : \A k \in 1 .. c : f[j][c * i + k] = q[i + 1][k]
           T == {j \in Nat : j \in 1 .. n => P(j)}
<1>0. /\ c \in Nat /\ c * 0 = 0 /\ c * 1 = c
      /\ \A j \in Nat : c * j \in Nat /\ c * (j + 1) = c * j + c
      /\ \A j \in Nat : \A i \in 0 .. j - 1 : \A k \in 1 .. c : c * i + k \in 1 .. c * j
  <2>1. CASE c = 6
    BY <2>1
  <2>2. CASE c = 18
    BY <2>2
  <2> QED
    BY <2>1, <2>2
<1>1. n \in Nat /\ n # 0 /\ Len(q) = n /\ Len(q) # 0 /\ n \in 1 .. n /\ 1 \in 1 .. n
  BY SeqDef
<1>2. FlattenSeq(q) = f[n]
  BY <1>1, FlattenIsFlat, Zenon
<1>3. f[1] = q[1] /\ \A i \in 1 .. n - 1 : f[i + 1] = f[i] \o q[i + 1]
  BY <1>1, FlatSteps, Zenon
<1>4. P(1)
  <2>1. q[1] \in Seq(Byte) /\ Len(q[1]) = c
    BY <1>1
  <2>2. \A i \in 0 .. 1 - 1 : i = 0
    OBVIOUS
  <2>3. \A k \in 1 .. c : c * 0 + k = k /\ 0 + 1 = 1
    BY <1>0
  <2>4. \A i \in 0 .. 1 - 1 : \A k \in 1 .. c : f[1][c * i + k] = q[i + 1][k]
    <3> HIDE DEF f
    <3> QED
      BY <1>3, <2>2, <2>3
  <2> HIDE DEF f
  <2> QED
    BY <1>0, <1>3, <2>1, <2>4
<1> HIDE DEF f
<1>5. ASSUME NEW j \in 1 .. n - 1, P(j) PROVE P(j + 1)
  <2> DEFINE u == f[j]
             v == q[j + 1]
             w == u \o v
  <2>1. j + 1 \in 1 .. n /\ j \in Nat
    BY <1>1
  <2>2. u \in Seq(Byte) /\ Len(u) = c * j /\ v \in Seq(Byte) /\ Len(v) = c
    BY <1>5, <2>1
  <2>3. f[j + 1] = w
    BY <1>3, <1>5, Zenon
  <2>4. \A i \in 0 .. j - 1 : \A k \in 1 .. c : u[c * i + k] = q[i + 1][k]
    BY <1>5, Zenon
  <2> HIDE DEF u, v
  <2>5. /\ w \in Seq(Byte) /\ Len(w) = c * (j + 1)
        /\ \A k \in 1 .. Len(u) : w[k] = u[k]
        /\ \A k \in 1 .. Len(v) : w[Len(u) + k] = v[k]
    <3>1. w \in Seq(Byte) /\ Len(w) = Len(u) + Len(v)
      <4>1. u \in Seq(Byte) /\ v \in Seq(Byte)
        BY <2>2, Zenon
      <4> QED
        BY <4>1, ConcatThree, Zenon
    <3>2. /\ \A k \in 1 .. Len(u) : w[k] = u[k]
          /\ \A k \in 1 .. Len(v) : w[Len(u) + k] = v[k]
      <4>1. \A i \in 1 .. Len(u) + Len(v) : w[i] = IF i <= Len(u) THEN u[i] ELSE v[i - Len(u)]
        BY <2>2, ConcatProperties, Zenon
      <4> DEFINE l == Len(u)
                 h == Len(v)
      <4>2. l \in Nat /\ h \in Nat
        BY <2>2, ConcatThree, Zenon
      <4> HIDE DEF w, l, h
      <4>3. \A k \in 1 .. l : k \in 1 .. l + h /\ k <= l
        BY <4>2
      <4>4. \A i \in 1 .. l + h : w[i] = IF i <= l THEN u[i] ELSE v[i - l]
        BY <4>1, Zenon DEF l, h
      <4>5. \A k \in 1 .. l : w[k] = u[k]
        BY <4>3, <4>4, Zenon
      <4>6. ASSUME NEW k \in 1 .. h PROVE w[l + k] = v[k]
        <5> DEFINE m == l + k
        <5>1. m \in 1 .. l + h /\ ~(m <= l) /\ m - l = k
          BY <4>2
        <5> HIDE DEF m
        <5>2. w[m] = v[m - l]
          BY <4>4, <5>1, Zenon
        <5> QED
          BY <5>1, <5>2, Zenon DEF m
      <4> QED
        BY <4>5, <4>6, Zenon DEF l, h
    <3> HIDE DEF w
    <3>3. Len(w) = c * (j + 1)
      BY <1>0, <2>1, <2>2, <3>1
    <3> QED
      BY <3>1, <3>2, <3>3, Zenon
  <2> HIDE DEF w
  <2>6. ASSUME NEW i \in 0 .. (j + 1) - 1, NEW k \in 1 .. c PROVE w[c * i + k] = q[i + 1][k]
    <3>1. CASE i = j
      <4>1. w[c * j + k] = v[k]
        BY <1>0, <2>1, <2>2, <2>5
      <4> QED
        BY <3>1, <4>1 DEF v
    <3>2. CASE i # j
      <4>1. i \in 0 .. j - 1 /\ c * i + k \in 1 .. Len(u)
        BY <1>0, <2>1, <2>2, <3>2
      <4>2. w[c * i + k] = u[c * i + k]
        BY <2>5, <4>1, Zenon
      <4> QED
        BY <2>4, <4>1, <4>2, Zenon
    <3> QED
      BY <3>1, <3>2, Zenon
  <2>7. \A i \in 0 .. (j + 1) - 1 : \A k \in 1 .. c : w[c * i + k] = q[i + 1][k]
    BY <2>6, Zenon
  <2> QED
    BY <2>3, <2>5, <2>7, Zenon
<1> HIDE DEF P
<1>6. T \in SUBSET Nat
  OBVIOUS
<1>7. 0 \in T
  OBVIOUS
<1>8. ASSUME NEW j \in Nat, j \in T PROVE j + 1 \in T
  <2>1. CASE j + 1 \in 1 .. n /\ j # 0
    <3>1. j \in 1 .. n - 1 /\ j \in 1 .. n
      BY <1>1, <2>1
    <3>2. P(j)
      BY <1>8, <3>1, Zenon
    <3>3. P(j + 1)
      BY <1>5, <3>1, <3>2, Zenon
    <3> QED
      BY <1>8, <3>3
  <2>2. CASE j + 1 \notin 1 .. n
    BY <2>2
  <2>3. CASE j = 0
    <3>1. 0 + 1 = 1 /\ 1 \in Nat
      OBVIOUS
    <3> QED
      BY <1>4, <2>3, <3>1, Zenon
  <2> QED
    BY <2>1, <2>2, <2>3, Zenon
<1> HIDE DEF T
<1>9. T = Nat
  <2>1. \A j \in T : j + 1 \in T
    BY <1>6, <1>8, Zenon
  <2> QED
    BY <1>6, <1>7, <2>1, Induction, Zenon
<1>10. P(n)
  BY <1>1, <1>9, Zenon DEF T
<1> QED
  BY <1>2, <1>10, Zenon DEF P

-----------------------------------------------------------------------------
\* What an address is made of.
LEMMA AddressFields ==
  ASSUME NEW A, NEW P, NEW a \in [ip : A, port : P]
  PROVE  a.ip \in A /\ a.port \in P /\ a = [ip |-> a.ip, port |-> a.port]
OBVIOUS

\* A port fits two bytes.
LEMMA PortIs == \A p \in 0 .. MaxPort : p \in Nat /\ p <= MaxPort
<1>1. MaxPort \in Nat
  BY SMT DEF MaxPort
<1> QED
  BY <1>1, SMT

\* The addresses of w bytes: Address4 and Address6.
OfSize(w) == [ip : [1 .. w -> Byte], port : 0 .. MaxPort]

\* The parts of an address.
LEMMA AddressIs ==
  ASSUME NEW w \in {4, 16}, NEW a \in OfSize(w)
  PROVE  /\ a.ip \in Seq(Byte) /\ Len(a.ip) = w
         /\ a.port \in Nat /\ a.port <= MaxPort
         /\ a = [ip |-> a.ip, port |-> a.port]
<1>1. a.ip \in [1 .. w -> Byte] /\ a.port \in 0 .. MaxPort /\ a = [ip |-> a.ip, port |-> a.port]
  BY AddressFields, Zenon DEF OfSize
<1>2. w \in Nat
  OBVIOUS
<1>3. a.ip \in Seq(Byte) /\ Len(a.ip) = w
  BY <1>1, <1>2, FixedLength, Zenon
<1>4. a.port \in Nat /\ a.port <= MaxPort
  BY <1>1, PortIs, Zenon
<1> QED
  BY <1>1, <1>3, <1>4, Zenon

\* An address is its bytes.
IsBytesOf(x, a, w) ==
  /\ x \in Seq(Byte) /\ Len(x) = w + 2
  /\ \A k \in 1 .. w : x[k] = a.ip[k]
  /\ 256 * x[w + 1] + x[w + 2] = a.port

\* Those it is written as.
LEMMA AddrBytes ==
  ASSUME NEW w \in {4, 16}, NEW a \in OfSize(w)
  PROVE  IsBytesOf(EncodeAddr(a), a, w)
<1> DEFINE p == a.port
           u == a.ip
           hi == p \div 256
           lo == p % 256
           v == <<hi, lo>>
           x == u \o v
<1>1. p \in Nat /\ p <= MaxPort
  BY AddressIs, Zenon
<1>2. u \in Seq(Byte) /\ Len(u) = w
  BY AddressIs, Zenon
<1>3. hi \in 0 .. 255 /\ lo \in 0 .. 255 /\ 256 * hi + lo = p
  <2> HIDE DEF p
  <2> QED
    BY <1>1 DEF MaxPort
<1> HIDE DEF p, u, hi, lo
<1>4. v \in Seq(Byte) /\ Len(v) = 2 /\ v[1] = hi /\ v[2] = lo
  BY <1>3 DEF Byte
<1> HIDE DEF v
<1>5. x \in Seq(Byte) /\ Len(x) = w + 2
  <2>1. x \in Seq(Byte) /\ Len(x) = Len(u) + Len(v)
    BY <1>2, <1>4, ConcatThree, Zenon
  <2> HIDE DEF x
  <2> QED
    BY <1>2, <1>4, <2>1
<1>6. \A i \in 1 .. Len(u) + Len(v) : x[i] = IF i <= Len(u) THEN u[i] ELSE v[i - Len(u)]
  BY <1>2, <1>4, ConcatProperties, Zenon
<1>7. x = EncodeAddr(a)
  BY Zenon DEF EncodeAddr, x, u, v, hi, lo, p
<1> HIDE DEF x
<1>8. \A k \in 1 .. w : x[k] = u[k]
  BY <1>2, <1>4, <1>6
<1>9. x[w + 1] = hi /\ x[w + 2] = lo
  BY <1>2, <1>4, <1>6
<1>10. 256 * x[w + 1] + x[w + 2] = p
  BY <1>3, <1>9
<1> QED
  BY <1>5, <1>7, <1>8, <1>10, Zenon DEF u, p, IsBytesOf

\* The address at a place in a list of them, as parse_socket_addrs cuts it.
AddrAt(s, i) ==
  [ip |-> SubSeq(s, 6 * i + 1, 6 * i + 4), port |-> 256 * s[6 * i + 5] + s[6 * i + 6]]

\* Its six bytes are all it depends on.
LEMMA SameBytes ==
  ASSUME NEW s \in Seq(Byte), NEW i \in Nat, 6 * i + 6 <= Len(s),
         NEW x \in Seq(Byte), NEW j \in Nat, 6 * j + 6 <= Len(x),
         \A k \in 1 .. 6 : s[6 * i + k] = x[6 * j + k]
  PROVE  AddrAt(s, i) = AddrAt(x, j)
<1> DEFINE u == SubSeq(s, 6 * i + 1, 6 * i + 4)
           v == SubSeq(x, 6 * j + 1, 6 * j + 4)
<1>1. s[6 * i + 5] = x[6 * j + 5] /\ s[6 * i + 6] = x[6 * j + 6]
  OBVIOUS
<1>2. u \in Seq(Byte) /\ Len(u) = 4 /\ \A k \in 1 .. 4 : u[k] = s[6 * i + k]
  BY SubSeqProperties
<1>3. v \in Seq(Byte) /\ Len(v) = 4 /\ \A k \in 1 .. 4 : v[k] = x[6 * j + k]
  BY SubSeqProperties
<1> HIDE DEF u, v
<1>4. \A k \in 1 .. 4 : u[k] = v[k]
  <2>1. \A k \in 1 .. 4 : k \in 1 .. 6
    OBVIOUS
  <2> QED
    BY <1>2, <1>3, <2>1, Zenon
<1>5. u = v
  BY <1>2, <1>3, <1>4, SeqEqual, Zenon
<1> QED
  BY <1>1, <1>5, Zenon DEF AddrAt, u, v

\* The addresses a list is cut into.
LEMMA AddrsOfIs ==
  ASSUME NEW s, NEW m \in Nat, Len(s) = 6 * m
  PROVE  AddrsOf(s, 6) = {AddrAt(s, i) : i \in 0 .. m - 1}
<1>1. Len(s) \div 6 = m
  OBVIOUS
<1>2. \A i \in 0 .. m - 1 : /\ i * 6 + 1 = 6 * i + 1 /\ i * 6 + 6 - 2 = 6 * i + 4
                            /\ i * 6 + 6 - 1 = 6 * i + 5 /\ i * 6 + 6 = 6 * i + 6
  OBVIOUS
<1> DEFINE R(i) == [ip |-> SubSeq(s, i * 6 + 1, i * 6 + 6 - 2),
                    port |-> 256 * s[i * 6 + 6 - 1] + s[i * 6 + 6]]
<1>3. \A i \in 0 .. m - 1 : AddrAt(s, i) = R(i)
  BY <1>2, Zenon DEF AddrAt
<1>4. AddrsOf(s, 6) = {R(i) : i \in 0 .. Len(s) \div 6 - 1}
  BY Zenon DEF AddrsOf
<1> HIDE DEF R
<1> QED
  BY <1>1, <1>3, <1>4, Zenon

\* Four bytes of others,
LEMMA FourBytes ==
  ASSUME NEW x \in Seq(Byte), NEW i \in Nat \ {0}, i + 3 <= Len(x)
  PROVE  LET u == SubSeq(x, i, i + 3)
         IN  u \in Seq(Byte) /\ Len(u) = 4 /\ \A k \in 1 .. 4 : u[k] = x[i + k - 1]
BY SubSeqProperties

\* which are the same if the bytes are.
LEMMA SamePart ==
  ASSUME NEW x \in Seq(Byte), NEW y \in Seq(Byte), NEW i \in Nat \ {0},
         i + 3 <= Len(x), i + 3 <= Len(y), \A k \in i .. i + 3 : x[k] = y[k]
  PROVE  SubSeq(x, i, i + 3) = SubSeq(y, i, i + 3)
<1> DEFINE u == SubSeq(x, i, i + 3)
           v == SubSeq(y, i, i + 3)
<1>1. u \in Seq(Byte) /\ Len(u) = 4 /\ \A k \in 1 .. 4 : u[k] = x[i + k - 1]
  BY FourBytes, Zenon
<1>2. v \in Seq(Byte) /\ Len(v) = 4 /\ \A k \in 1 .. 4 : v[k] = y[i + k - 1]
  BY FourBytes, Zenon
<1>3. \A k \in 1 .. 4 : x[i + k - 1] = y[i + k - 1]
  OBVIOUS
<1> HIDE DEF u, v
<1>4. \A k \in 1 .. 4 : u[k] = v[k]
  BY <1>1, <1>2, <1>3, Zenon
<1>5. u = v
  BY <1>1, <1>2, <1>4, SeqEqual, Zenon
<1> QED
  BY <1>5 DEF u, v

\* What is read of one address.
ReadParts(a) == AddrsOf(EncodeAddr(a), 6)

\* One of IPv4 is read as it is,
LEMMA FourRead ==
  ASSUME NEW a \in Address4
  PROVE  ReadParts(a) = {a}
<1> DEFINE x == EncodeAddr(a)
           ip == a.ip
           u == SubSeq(x, 1, 4)
<1>1. a \in OfSize(4)
  BY Zenon DEF Address4, OfSize
<1>2. /\ x \in Seq(Byte) /\ Len(x) = 6
      /\ \A k \in 1 .. 4 : x[k] = ip[k]
      /\ 256 * x[5] + x[6] = a.port
  <2> DEFINE w == 4
  <2>1. w \in {4, 16} /\ w + 2 = 6 /\ w + 1 = 5
    OBVIOUS
  <2>2. a \in OfSize(w)
    BY <1>1, Zenon
  <2>3. IsBytesOf(x, a, w)
    <3> HIDE DEF w
    <3> QED
      BY <2>1, <2>2, AddrBytes, Zenon
  <2>4. /\ x \in Seq(Byte) /\ Len(x) = w + 2
        /\ \A k \in 1 .. w : x[k] = ip[k]
        /\ 256 * x[w + 1] + x[w + 2] = a.port
    <3> HIDE DEF w, x
    <3> QED
      BY <2>3, Zenon DEF IsBytesOf
  <2> HIDE DEF x, ip
  <2> QED
    BY <2>1, <2>4, Zenon
<1>3. ip \in Seq(Byte) /\ Len(ip) = 4 /\ a = [ip |-> ip, port |-> a.port]
  BY <1>1, AddressIs
<1>4. ReadParts(a) = AddrsOf(x, 6)
  BY Zenon DEF ReadParts
<1> HIDE DEF x, ip
<1>5. AddrsOf(x, 6) = {AddrAt(x, i) : i \in 0 .. 1 - 1}
  <2>1. 1 \in Nat /\ Len(x) = 6 * 1
    BY <1>2
  <2> QED
    BY <2>1, AddrsOfIs, Zenon
<1>6. \A i : i \in 0 .. 1 - 1 <=> i = 0
  OBVIOUS
<1>7. 6 * 0 + 1 = 1 /\ 6 * 0 + 4 = 4 /\ 6 * 0 + 5 = 5 /\ 6 * 0 + 6 = 6
  OBVIOUS
<1>8. AddrAt(x, 0) = [ip |-> u, port |-> 256 * x[5] + x[6]]
  BY <1>7, Zenon DEF AddrAt
<1>9. u = ip
  <2> DEFINE v == SubSeq(ip, 1, 1 + 3)
  <2>1. u = v
    BY <1>2, <1>3, SamePart
  <2>2. v \in Seq(Byte) /\ Len(v) = 4 /\ \A k \in 1 .. 4 : v[k] = ip[1 + k - 1]
    <3>1. 1 \in Nat \ {0} /\ 1 + 3 <= Len(ip)
      BY <1>3
    <3> QED
      BY <1>3, <3>1, FourBytes, Zenon
  <2>3. \A k \in 1 .. 4 : 1 + k - 1 = k
    OBVIOUS
  <2> HIDE DEF u, v
  <2>4. \A k \in 1 .. 4 : v[k] = ip[k]
    BY <2>2, <2>3, Zenon
  <2> QED
    BY <1>3, <2>1, <2>2, <2>4, SeqEqual, Zenon
<1>10. AddrAt(x, 0) = a
  BY <1>2, <1>3, <1>8, <1>9, Zenon
<1>11. {AddrAt(x, i) : i \in 0 .. 1 - 1} = {AddrAt(x, 0)}
  BY <1>6
<1> QED
  BY <1>4, <1>5, <1>10, <1>11, Zenon

\* and one of IPv6 as three of IPv4.
ThreeParts(a) ==
  {[ip |-> SubSeq(a.ip, 1, 4), port |-> 256 * a.ip[5] + a.ip[6]],
   [ip |-> SubSeq(a.ip, 7, 10), port |-> 256 * a.ip[11] + a.ip[12]],
   [ip |-> SubSeq(a.ip, 13, 16), port |-> a.port]}

\* They are the ones it is cut into.
LEMMA SixRead ==
  ASSUME NEW a \in Address6
  PROVE  ReadParts(a) = ThreeParts(a)
<1> DEFINE x == EncodeAddr(a)
           ip == a.ip
<1>1. a \in OfSize(16)
  BY Zenon DEF Address6, OfSize
<1>2. /\ x \in Seq(Byte) /\ Len(x) = 18
      /\ \A k \in 1 .. 16 : x[k] = ip[k]
      /\ 256 * x[17] + x[18] = a.port
  <2> DEFINE w == 16
  <2>1. w \in {4, 16} /\ w + 2 = 18 /\ w + 1 = 17
    OBVIOUS
  <2>2. a \in OfSize(w)
    BY <1>1, Zenon
  <2>3. IsBytesOf(x, a, w)
    <3> HIDE DEF w
    <3> QED
      BY <2>1, <2>2, AddrBytes, Zenon
  <2>4. /\ x \in Seq(Byte) /\ Len(x) = w + 2
        /\ \A k \in 1 .. w : x[k] = ip[k]
        /\ 256 * x[w + 1] + x[w + 2] = a.port
    <3> HIDE DEF w, x
    <3> QED
      BY <2>3, Zenon DEF IsBytesOf
  <2> HIDE DEF x, ip
  <2> QED
    BY <2>1, <2>4, Zenon
<1>3. ip \in Seq(Byte) /\ Len(ip) = 16
  BY <1>1, AddressIs
<1>4. ReadParts(a) = AddrsOf(x, 6)
  BY Zenon DEF ReadParts
<1> HIDE DEF x, ip
<1>5. AddrsOf(x, 6) = {AddrAt(x, i) : i \in 0 .. 3 - 1}
  <2>1. 3 \in Nat /\ Len(x) = 6 * 3
    BY <1>2
  <2> QED
    BY <2>1, AddrsOfIs, Zenon
<1>6. \A i : i \in 0 .. 3 - 1 <=> i = 0 \/ i = 1 \/ i = 2
  OBVIOUS
<1>7. AddrAt(x, 0) = [ip |-> SubSeq(ip, 1, 4), port |-> 256 * ip[5] + ip[6]]
  <2>1. 6 * 0 + 1 = 1 /\ 6 * 0 + 4 = 4 /\ 6 * 0 + 5 = 5 /\ 6 * 0 + 6 = 6
    OBVIOUS
  <2>2. AddrAt(x, 0) = [ip |-> SubSeq(x, 1, 4), port |-> 256 * x[5] + x[6]]
    BY <2>1, Zenon DEF AddrAt
  <2>3. x[5] = ip[5] /\ x[6] = ip[6]
    BY <1>2
  <2>4. SubSeq(x, 1, 1 + 3) = SubSeq(ip, 1, 1 + 3) /\ 1 + 3 = 4
    BY <1>2, <1>3, SamePart
  <2> QED
    BY <2>2, <2>3, <2>4, Zenon
<1>8. AddrAt(x, 1) = [ip |-> SubSeq(ip, 7, 10), port |-> 256 * ip[11] + ip[12]]
  <2>1. 6 * 1 + 1 = 7 /\ 6 * 1 + 4 = 10 /\ 6 * 1 + 5 = 11 /\ 6 * 1 + 6 = 12
    OBVIOUS
  <2>2. AddrAt(x, 1) = [ip |-> SubSeq(x, 7, 10), port |-> 256 * x[11] + x[12]]
    BY <2>1, Zenon DEF AddrAt
  <2>3. x[11] = ip[11] /\ x[12] = ip[12]
    BY <1>2
  <2>4. SubSeq(x, 7, 7 + 3) = SubSeq(ip, 7, 7 + 3) /\ 7 + 3 = 10
    BY <1>2, <1>3, SamePart
  <2> QED
    BY <2>2, <2>3, <2>4, Zenon
<1>9. AddrAt(x, 2) = [ip |-> SubSeq(ip, 13, 16), port |-> a.port]
  <2>1. 6 * 2 + 1 = 13 /\ 6 * 2 + 4 = 16 /\ 6 * 2 + 5 = 17 /\ 6 * 2 + 6 = 18
    OBVIOUS
  <2>2. AddrAt(x, 2) = [ip |-> SubSeq(x, 13, 16), port |-> 256 * x[17] + x[18]]
    BY <2>1, Zenon DEF AddrAt
  <2>3. SubSeq(x, 13, 13 + 3) = SubSeq(ip, 13, 13 + 3) /\ 13 + 3 = 16
    BY <1>2, <1>3, SamePart
  <2> QED
    BY <1>2, <2>2, <2>3, Zenon
<1>10. {AddrAt(x, i) : i \in 0 .. 3 - 1} = {AddrAt(x, 0), AddrAt(x, 1), AddrAt(x, 2)}
  BY <1>6
<1> QED
  BY <1>4, <1>5, <1>7, <1>8, <1>9, <1>10, Zenon DEF ThreeParts, ip

\* An address is of one size or the other.
LEMMA SizeTells ==
  /\ \A a \in Address4 : Len(a.ip) = 4
  /\ \A a \in Address6 : Len(a.ip) = 16
<1>1. ASSUME NEW a \in Address4 PROVE Len(a.ip) = 4
  <2>1. a \in OfSize(4)
    BY Zenon DEF Address4, OfSize
  <2> QED
    BY <2>1, AddressIs
<1>2. ASSUME NEW a \in Address6 PROVE Len(a.ip) = 16
  <2>1. a \in OfSize(16)
    BY Zenon DEF Address6, OfSize
  <2> QED
    BY <2>1, AddressIs
<1> QED
  BY <1>1, <1>2, Zenon

\* The peers that are read are those read of each address.
LEMMA AsReadIs ==
  ASSUME NEW addrs \in SUBSET Address
  PROVE  AsRead(addrs) = UNION {ReadParts(a) : a \in addrs}
<1> DEFINE four == {a \in addrs : Len(a.ip) = 4}
           P == UNION {ThreeParts(a) : a \in addrs \ four}
<1>1. AsRead(addrs) = four \cup P
  BY Zenon DEF AsRead, ThreeParts
<1>2. \A a \in four : ReadParts(a) = {a}
  <2>1. ASSUME NEW a \in four PROVE a \in Address4
    <3>1. a \in Address4 \/ a \in Address6
      BY Zenon DEF Address
    <3>2. a \in Address6 => Len(a.ip) = 16
      BY SizeTells, Zenon
    <3>3. Len(a.ip) = 4 /\ 4 # 16
      OBVIOUS
    <3> QED
      BY <3>1, <3>2, <3>3, Zenon
  <2> QED
    BY <2>1, FourRead, Zenon
<1>3. \A a \in addrs \ four : ReadParts(a) = ThreeParts(a)
  <2>1. ASSUME NEW a \in addrs \ four PROVE a \in Address6
    <3>1. a \in Address4 \/ a \in Address6
      BY Zenon DEF Address
    <3>2. a \in Address4 => Len(a.ip) = 4
      BY SizeTells, Zenon
    <3> QED
      BY <3>1, <3>2, Zenon
  <2> QED
    BY <2>1, SixRead, Zenon
<1>4. four \subseteq addrs
  BY Zenon
<1> HIDE DEF four
<1> DEFINE U == UNION {ReadParts(a) : a \in addrs}
<1>5. ASSUME NEW y PROVE y \in four \cup P <=> y \in U
  <2>1. y \in P <=> \E a \in addrs \ four : y \in ThreeParts(a)
    BY Zenon
  <2>2. y \in U <=> \E a \in addrs : y \in ReadParts(a)
    BY Zenon
  <2> HIDE DEF P, U
  <2>3. y \in four => y \in U
    BY <1>2, <1>4, <2>2
  <2>4. y \in P => y \in U
    BY <1>3, <2>1, <2>2, Zenon
  <2>5. y \in U => y \in four \cup P
    <3>1. ASSUME NEW a \in addrs, y \in ReadParts(a) PROVE y \in four \cup P
      <4>1. CASE a \in four
        <5>1. y \in {a}
          BY <1>2, <3>1, <4>1, Zenon
        <5> QED
          BY <4>1, <5>1, Zenon
      <4>2. CASE a \notin four
        BY <1>3, <2>1, <3>1, <4>2, Zenon
      <4> QED
        BY <4>1, <4>2, Zenon
    <3> QED
      BY <2>2, <3>1, Zenon
  <2> QED
    BY <2>3, <2>4, <2>5, Zenon
<1> QED
  BY <1>1, <1>5, Zenon

\* What a list of addresses of one size is taken for.
LEMMA CompactReads ==
  ASSUME NEW w \in {4, 16}, NEW addrs \in SUBSET OfSize(w), IsFiniteSet(addrs), addrs # {}
  PROVE  /\ Compact(addrs) \in Seq(Byte)
         /\ ParseSocketAddrs(Compact(addrs)) = Accepted(UNION {ReadParts(a) : a \in addrs})
<1> DEFINE n == Cardinality(addrs)
           list == SetToSeq(addrs)
           q == [i \in DOMAIN list |-> EncodeAddr(list[i])]
           s == FlattenSeq(q)
           c == w + 2
           t == IF w = 4 THEN 1 ELSE 3
<1>1. n \in Nat /\ list \in [1 .. n -> addrs] /\ \A x \in addrs : \E i \in 1 .. n : list[i] = x
  BY ListIs, Zenon
<1> HIDE DEF n, list
<1>2. n \in Nat \ {0} /\ DOMAIN list = 1 .. n
  BY <1>1
<1>3. c \in {6, 18} /\ t \in {1, 3} /\ c = 6 * t
  OBVIOUS
<1>4. \A i \in 1 .. n : q[i] \in Seq(Byte) /\ Len(q[i]) = c /\ q[i] = EncodeAddr(list[i]) /\ list[i] \in addrs
  <2>1. \A i \in 1 .. n : q[i] = EncodeAddr(list[i]) /\ list[i] \in addrs
    BY <1>1, <1>2, Zenon
  <2>2. \A a \in addrs : EncodeAddr(a) \in Seq(Byte) /\ Len(EncodeAddr(a)) = w + 2
    <3>1. \A a \in addrs : IsBytesOf(EncodeAddr(a), a, w)
      BY AddrBytes, Zenon
    <3> QED
      BY <3>1, Zenon DEF IsBytesOf
  <2> HIDE DEF q
  <2> QED
    BY <2>1, <2>2, Zenon
<1>5. q \in [1 .. n -> Seq(Byte)]
  BY <1>2, <1>4, Zenon
<1> HIDE DEF q, c, t
<1>6. /\ s \in Seq(Byte) /\ Len(s) = c * n
      /\ \A i \in 0 .. n - 1 : \A k \in 1 .. c : s[c * i + k] = q[i + 1][k]
  <2>1. \A i \in 1 .. n : Len(q[i]) = c
    BY <1>4, Zenon
  <2> QED
    BY <1>2, <1>3, <1>5, <2>1, OfOneSize
<1>7. s = Compact(addrs)
  BY Zenon DEF Compact, q, list
<1> HIDE DEF s
<1>8. t * n \in Nat /\ Len(s) = 6 * (t * n) /\ Len(s) % 6 = 0
  <2> DEFINE l == Len(s)
  <2>1. l = c * n
    BY <1>6, Zenon
  <2> HIDE DEF l
  <2>2. t * n \in Nat /\ l = 6 * (t * n) /\ l % 6 = 0
    <3>1. CASE t = 1
      BY <1>2, <1>3, <2>1, <3>1
    <3>2. CASE t = 3
      BY <1>2, <1>3, <2>1, <3>2
    <3> QED
      BY <1>3, <3>1, <3>2, Zenon
  <2> QED
    BY <2>2, Zenon DEF l
<1>9. ASSUME NEW j \in 0 .. n - 1, NEW r \in 0 .. t - 1
       PROVE  /\ j \in Nat /\ r \in Nat /\ j + 1 \in 1 .. n
              /\ t * j + r \in Nat /\ t * j + r \in 0 .. t * n - 1
              /\ 6 * (t * j + r) + 6 <= 6 * (t * n) /\ 6 * r + 6 <= c
              /\ \A k \in 1 .. 6 : 6 * (t * j + r) + k = c * j + (6 * r + k) /\ 6 * r + k \in 1 .. c
  <2>1. CASE t = 1
    BY <1>2, <1>3, <2>1
  <2>2. CASE t = 3
    BY <1>2, <1>3, <2>2
  <2> QED
    BY <1>3, <2>1, <2>2, Zenon
<1>10. ASSUME NEW i \in 0 .. t * n - 1 PROVE \E j \in 0 .. n - 1 : \E r \in 0 .. t - 1 : i = t * j + r
  <2>1. CASE t = 1
    <3>1. i \in 0 .. n - 1 /\ 0 \in 0 .. t - 1 /\ i = t * i + 0
      BY <1>2, <2>1
    <3> QED
      BY <3>1, Zenon
  <2>2. CASE t = 3
    <3> DEFINE j == i \div 3
               r == i % 3
    <3>1. i \in 0 .. 3 * n - 1
      BY <2>2
    <3>2. j \in 0 .. n - 1 /\ r \in 0 .. 3 - 1 /\ i = 3 * j + r
      BY <1>2, <3>1
    <3> HIDE DEF j, r
    <3> QED
      BY <2>2, <3>2, Zenon
  <2> QED
    BY <1>3, <2>1, <2>2, Zenon
<1> DEFINE PartAt(j, r) == AddrAt(q[j + 1], r)
<1>11. \A j \in 0 .. n - 1 : \A r \in 0 .. t - 1 : AddrAt(s, t * j + r) = PartAt(j, r)
  <2> SUFFICES ASSUME NEW j \in 0 .. n - 1, NEW r \in 0 .. t - 1 PROVE AddrAt(s, t * j + r) = PartAt(j, r)
    BY Zenon
  <2> DEFINE i == t * j + r
             x == q[j + 1]
  <2>1. i \in Nat /\ r \in Nat /\ 6 * i + 6 <= Len(s) /\ 6 * r + 6 <= c /\ j + 1 \in 1 .. n
    BY <1>8, <1>9, Zenon
  <2>2. x \in Seq(Byte) /\ Len(x) = c
    BY <1>4, <2>1, Zenon
  <2>3. ASSUME NEW k \in 1 .. 6 PROVE s[6 * i + k] = x[6 * r + k]
    <3> DEFINE h == 6 * r + k
    <3>1. 6 * i + k = c * j + h /\ h \in 1 .. c
      BY <1>9, Zenon
    <3> HIDE DEF h, i
    <3>2. s[c * j + h] = x[h]
      BY <1>6, <3>1, Zenon
    <3> QED
      BY <3>1, <3>2, Zenon DEF h
  <2> HIDE DEF i, x
  <2>4. AddrAt(s, i) = AddrAt(x, r)
    BY <1>6, <2>1, <2>2, <2>3, SameBytes
  <2> QED
    BY <2>4, Zenon DEF i, x
<1>12. \A j \in 0 .. n - 1 : ReadParts(list[j + 1]) = {PartAt(j, r) : r \in 0 .. t - 1} /\ list[j + 1] \in addrs
  <2> SUFFICES ASSUME NEW j \in 0 .. n - 1
               PROVE  ReadParts(list[j + 1]) = {PartAt(j, r) : r \in 0 .. t - 1} /\ list[j + 1] \in addrs
    BY Zenon
  <2> DEFINE x == q[j + 1]
  <2>1. j + 1 \in 1 .. n
    BY <1>2
  <2>2. Len(x) = c /\ x = EncodeAddr(list[j + 1]) /\ list[j + 1] \in addrs
    BY <1>4, <2>1, Zenon
  <2>3. t \in Nat /\ c = 6 * t
    BY <1>3
  <2>4. AddrsOf(x, 6) = {AddrAt(x, r) : r \in 0 .. t - 1}
    <3> HIDE DEF x
    <3> QED
      BY <2>2, <2>3, AddrsOfIs, SMT
  <2> QED
    BY <2>2, <2>4, Zenon DEF ReadParts
<1>13. AddrsOf(s, 6) = {AddrAt(s, i) : i \in 0 .. t * n - 1}
  <2> DEFINE m == t * n
  <2>1. m \in Nat /\ Len(s) = 6 * m
    BY <1>8, Zenon
  <2> HIDE DEF m
  <2>2. AddrsOf(s, 6) = {AddrAt(s, i) : i \in 0 .. m - 1}
    BY <2>1, AddrsOfIs, Zenon
  <2> QED
    BY <2>2, Zenon DEF m
<1> HIDE DEF PartAt
<1> DEFINE V == {AddrAt(s, i) : i \in 0 .. t * n - 1}
           U == UNION {ReadParts(a) : a \in addrs}
<1>14. ASSUME NEW y \in V PROVE y \in U
  <2>1. PICK i \in 0 .. t * n - 1 : y = AddrAt(s, i)
    BY Zenon
  <2>2. PICK j \in 0 .. n - 1 : \E r \in 0 .. t - 1 : i = t * j + r
    BY <1>10, Zenon
  <2>3. PICK r \in 0 .. t - 1 : i = t * j + r
    BY <2>2, Zenon
  <2>4. y = PartAt(j, r)
    BY <1>11, <2>1, <2>3, Zenon
  <2> QED
    BY <1>12, <2>4, Zenon
<1>15. ASSUME NEW y \in U PROVE y \in V
  <2>1. PICK a \in addrs : y \in ReadParts(a)
    BY Zenon
  <2>2. PICK i \in 1 .. n : list[i] = a
    BY <1>1, Zenon
  <2> DEFINE j == i - 1
  <2>3. j \in 0 .. n - 1 /\ j + 1 = i
    BY <1>2
  <2> HIDE DEF j
  <2>4. PICK r \in 0 .. t - 1 : y = PartAt(j, r)
    BY <1>12, <2>1, <2>2, <2>3, Zenon
  <2>5. y = AddrAt(s, t * j + r) /\ t * j + r \in 0 .. t * n - 1
    BY <1>11, <1>9, <2>3, <2>4, Zenon
  <2> QED
    BY <2>5, Zenon
<1>16. V = U
  <2> HIDE DEF V, U
  <2> QED
    BY <1>14, <1>15, Zenon
<1>17. ParseSocketAddrs(s) = Accepted(AddrsOf(s, 6))
  BY <1>8, Zenon DEF ParseSocketAddrs
<1> QED
  BY <1>6, <1>7, <1>13, <1>16, <1>17, Zenon

-----------------------------------------------------------------------------
\* The four lists of the message have keys of their own.
LEMMA ListKeys ==
  /\ KeyAdded6 # KeyAdded /\ KeyDropped # KeyAdded /\ KeyDropped6 # KeyAdded
  /\ KeyDropped # KeyAdded6 /\ KeyDropped6 # KeyAdded6
<1>1. Len(KeyAdded) = 5
  BY DEF KeyAdded
<1>2. Len(KeyAdded6) = 6
  BY DEF KeyAdded6
<1>3. Len(KeyDropped) = 7
  BY DEF KeyDropped
<1>4. Len(KeyDropped6) = 8
  BY DEF KeyDropped6
<1>5. /\ Len(KeyAdded6) # Len(KeyAdded) /\ Len(KeyDropped) # Len(KeyAdded)
      /\ Len(KeyDropped6) # Len(KeyAdded)
      /\ Len(KeyDropped) # Len(KeyAdded6) /\ Len(KeyDropped6) # Len(KeyAdded6)
  BY <1>1, <1>2, <1>3, <1>4
<1> QED
  BY <1>5, Zenon

\* A dictionary of byte strings is read: bytes x are what e is written as.
IsWritten(x, e) == x \in Seq(Byte) /\ Decode(x) = Decoded(Dict(e), Len(x) + 1)

\* One byte string under its key,
LEMMA OneString ==
  ASSUME NEW a \in Seq(Byte), NEW x \in Seq(Byte),
         NEW f, DOMAIN f = {a}, f[a] = ByteString(x)
  PROVE  IsWritten(EncodeDict(f), Before(a, Bytes(x), <<>>))
<1> DEFINE e == Before(a, Bytes(x), <<>>)
           y == Entry(a, ByteString(x))
           s == EncodeDict(f)
<1>1. ByteString(x) \in Seq(Byte) /\ y \in Seq(Byte)
  BY EncodedTypes, EntryType, Zenon
<1>2. s = EntriesOf(y)
  BY <1>1, EncodeDictOne, Zenon
<1>3. s \in Seq(Byte) /\ Len(s) = Len(y) + 2
  BY <1>1, <1>2, EntriesOfType, Zenon
<1> HIDE DEF s
<1>4. /\ 1 \in Nat \ {0} /\ 1 + 1 = 2 /\ 2 \in Nat \ {0} /\ 2 + 1 = 3
      /\ <<>> \in Seq(Byte)
  OBVIOUS
<1>5. ReadEntries(s, <<>>, <<>>, 1)
  BY <1>3, <1>4, ReadNoEntries, Zenon
<1>6. ReadsAs(s, ByteString(x), Bytes(x), 1)
  BY <1>3, <1>4, ReadsBytes, Zenon
<1>7. ReadEntries(s, y \o <<>>, e, 1 + 1)
  BY <1>1, <1>3, <1>4, <1>5, <1>6, ReadEntry, Zenon
<1> HIDE DEF y, e
<1>8. y \o <<>> = y
  BY <1>1, ConcatEmptySeq
<1>9. ReadEntries(s, y, e, 2)
  BY <1>4, <1>7, <1>8, Zenon
<1>10. ReadsAs(s, s, Dict(e), 3)
  BY <1>1, <1>2, <1>3, <1>4, <1>9, ReadsDict, Zenon
<1>11. Len(s) >= 2 /\ 3 \in 1 .. 6
  BY <1>1, <1>3
<1>12. Decode(s) = Decoded(Dict(e), Len(s) + 1)
  BY <1>3, <1>10, <1>11, DecodeWhole, SMT
<1> QED
  BY <1>3, <1>12, Zenon DEF IsWritten, s, e

\* and two under theirs.
LEMMA TwoStrings ==
  ASSUME NEW a \in Seq(Byte), NEW b \in Seq(Byte), Precedes(a, b), ~Precedes(b, a),
         NEW x \in Seq(Byte), NEW z \in Seq(Byte),
         NEW f, DOMAIN f = {a, b}, f[a] = ByteString(x), f[b] = ByteString(z)
  PROVE  IsWritten(EncodeDict(f), Before(a, Bytes(x), Before(b, Bytes(z), <<>>)))
<1> DEFINE eb == Before(b, Bytes(z), <<>>)
           e == Before(a, Bytes(x), eb)
           ya == Entry(a, ByteString(x))
           yb == Entry(b, ByteString(z))
           y == ya \o yb
           s == EncodeDict(f)
<1>1. /\ ByteString(x) \in Seq(Byte) /\ ya \in Seq(Byte)
      /\ ByteString(z) \in Seq(Byte) /\ yb \in Seq(Byte)
  BY EncodedTypes, EntryType, Zenon
<1>2. y \in Seq(Byte)
  <2> HIDE DEF ya, yb
  <2> QED
    BY <1>1, ConcatThree, Zenon
<1>3. s = EntriesOf(y)
  <2>1. f[a] \in Seq(Byte) /\ f[b] \in Seq(Byte)
    BY <1>1, Zenon
  <2>2. EncodeDict(f) = EntriesOf(Entry(a, f[a]) \o Entry(b, f[b]))
    BY <2>1, EncodeDictTwo, Zenon
  <2>3. Entry(a, f[a]) = ya /\ Entry(b, f[b]) = yb
    BY Zenon
  <2> HIDE DEF ya, yb
  <2> QED
    BY <2>2, <2>3, Zenon
<1>4. s \in Seq(Byte) /\ Len(s) = Len(y) + 2
  <2> HIDE DEF y
  <2> QED
    BY <1>2, <1>3, EntriesOfType, Zenon
<1> HIDE DEF s
<1>5. /\ 1 \in Nat \ {0} /\ 1 + 1 = 2 /\ 2 \in Nat \ {0} /\ 2 + 1 = 3
      /\ 3 \in Nat \ {0} /\ 3 + 1 = 4 /\ <<>> \in Seq(Byte)
  OBVIOUS
<1>6. ReadEntries(s, <<>>, <<>>, 1)
  BY <1>4, <1>5, ReadNoEntries, Zenon
<1>7. ReadsAs(s, ByteString(z), Bytes(z), 1) /\ ReadsAs(s, ByteString(x), Bytes(x), 2)
  BY <1>4, <1>5, ReadsBytes, Zenon
<1>8. ReadEntries(s, yb \o <<>>, eb, 1 + 1)
  BY <1>1, <1>4, <1>5, <1>6, <1>7, ReadEntry, Zenon
<1> HIDE DEF yb, eb
<1>9. yb \o <<>> = yb
  BY <1>1, ConcatEmptySeq
<1>10. ReadEntries(s, yb, eb, 2)
  BY <1>5, <1>8, <1>9, Zenon
<1>11. ReadEntries(s, y, e, 2 + 1)
  BY <1>1, <1>4, <1>5, <1>7, <1>10, ReadEntry, Zenon
<1> HIDE DEF y, e
<1>12. ReadsAs(s, s, Dict(e), 4)
  <2>1. ReadEntries(s, y, e, 3)
    BY <1>5, <1>11, Zenon
  <2> QED
    BY <1>2, <1>3, <1>4, <1>5, <2>1, ReadsDict, Zenon
<1>13. Len(s) >= 2 /\ 4 \in 1 .. 6
  BY <1>2, <1>4
<1>14. Decode(s) = Decoded(Dict(e), Len(s) + 1)
  BY <1>4, <1>12, <1>13, DecodeWhole, SMT
<1> QED
  BY <1>4, <1>14, Zenon DEF IsWritten, s, e, eb

\* The lists of peers that were added: those of IPv4, of IPv6, or both.
AddedKeys == {KeyAdded, KeyAdded6}

\* They are read as they were written, each under its key.
LEMMA ListsRead ==
  ASSUME NEW f, NEW c, DOMAIN f \subseteq AddedKeys, DOMAIN f # {},
         \A k \in DOMAIN f : c[k] \in Seq(Byte) /\ f[k] = ByteString(c[k])
  PROVE  \E e : /\ IsWritten(EncodeDict(f), e)
                /\ DOMAIN e = DOMAIN f /\ \A k \in DOMAIN f : e[k] = Bytes(c[k])
<1>1. KeyAdded \in Seq(Byte) /\ KeyAdded6 \in Seq(Byte)
  BY KeysAreBytes
<1>2. ASSUME NEW a \in Seq(Byte), DOMAIN f = {a}
      PROVE  \E e : /\ IsWritten(EncodeDict(f), e)
                    /\ DOMAIN e = DOMAIN f /\ \A k \in DOMAIN f : e[k] = Bytes(c[k])
  <2> DEFINE e == Before(a, Bytes(c[a]), <<>>)
  <2>1. IsWritten(EncodeDict(f), e)
    BY <1>2, OneString, Zenon
  <2>2. DOMAIN e = {a} /\ e[a] = Bytes(c[a])
    BY DEF Before, Insert
  <2> HIDE DEF e
  <2> QED
    BY <1>2, <2>1, <2>2, Zenon
<1>3. CASE DOMAIN f = {KeyAdded}
  BY <1>1, <1>2, <1>3, Zenon
<1>4. CASE DOMAIN f = {KeyAdded6}
  BY <1>1, <1>2, <1>4, Zenon
<1>5. CASE DOMAIN f = {KeyAdded, KeyAdded6}
  <2> DEFINE a == KeyAdded
             b == KeyAdded6
             e == Before(a, Bytes(c[a]), Before(b, Bytes(c[b]), <<>>))
             d == Insert(Insert(<<>>, a, Bytes(c[a])), b, Bytes(c[b]))
  <2>1. IsWritten(EncodeDict(f), e)
    BY <1>1, <1>5, KeyOrder, TwoStrings, Zenon
  <2>2. a # b
    BY ListKeys, Zenon
  <2>3. e = d
    BY <2>2, InsertTwoBefore, SMT
  <2>4. DOMAIN d = {a, b}
    BY <2>2, InsertTwoKeys, Zenon
  <2>5. d[a] = Bytes(c[a]) /\ d[b] = Bytes(c[b])
    BY <2>2, InsertTwoValues, SMT
  <2> HIDE DEF e, d
  <2> QED
    BY <1>5, <2>1, <2>3, <2>4, <2>5, Zenon
<1> QED
  BY <1>3, <1>4, <1>5, Zenon DEF AddedKeys

\* What a message with such lists tells.
LEMMA PexOf ==
  ASSUME NEW s, NEW e, IsWritten(s, e), DOMAIN e \subseteq AddedKeys, DOMAIN e # {},
         NEW c, NEW A,
         \A k \in DOMAIN e : e[k] = Bytes(c[k]) /\ ParseSocketAddrs(c[k]) = Accepted(A[k])
  PROVE  DecodePex(s) = Accepted([type |-> "Pex", addrs |-> UNION {A[k] : k \in DOMAIN e}])
<1> DEFINE d == Decode(s)
           Lists(keys) == {k \in keys : HasKey(d.value, k) /\ IsBytes(d.value.dict[k])}
           Addrs(k) == ParseSocketAddrs(d.value.dict[k].bytes)
           All(keys) == UNION {Addrs(k).value : k \in Lists(keys)}
           plus == {KeyAdded, KeyAdded6}
           minus == {KeyDropped, KeyDropped6}
           addrs == UNION {A[k] : k \in DOMAIN e}
<1>1. d.ok /\ d.value = Dict(e)
  <2>1. d = Decoded(Dict(e), Len(s) + 1)
    BY Zenon DEF IsWritten
  <2> QED
    BY <2>1 DEF Decoded
<1>2. DecodePex(s) =
        IF ~d.ok \/ ~IsDict(d.value) THEN Refused
        ELSE IF Lists(plus \cup minus) = {} \/ \E k \in Lists(plus \cup minus) : ~Addrs(k).ok
             THEN Refused
        ELSE Accepted([type |-> "Pex", addrs |-> All(plus) \ All(minus)])
  BY Zenon DEF DecodePex
<1> HIDE DEF d
<1>3. IsDict(d.value) /\ d.value.dict = e
  BY <1>1, Found, Zenon
<1>4. \A k \in DOMAIN e : IsBytes(d.value.dict[k]) /\ d.value.dict[k].bytes = c[k]
  BY <1>3, Found, Zenon
<1>5. \A k : HasKey(d.value, k) <=> k \in DOMAIN e
  BY <1>3, Zenon DEF HasKey
<1>6. \A k \in minus : k \notin DOMAIN e
  BY ListKeys, Zenon DEF AddedKeys
<1>7. DOMAIN e \subseteq plus
  BY Zenon DEF AddedKeys
<1> HIDE DEF plus, minus
<1>8. Lists(plus \cup minus) = DOMAIN e /\ Lists(plus) = DOMAIN e /\ Lists(minus) = {}
  BY <1>4, <1>5, <1>6, <1>7, Zenon
<1>9. \A k \in DOMAIN e : Addrs(k).ok /\ Addrs(k).value = A[k]
  <2> SUFFICES ASSUME NEW k \in DOMAIN e PROVE Addrs(k).ok /\ Addrs(k).value = A[k]
    BY Zenon
  <2> DEFINE r == Addrs(k)
  <2>1. r = [ok |-> TRUE, value |-> A[k]]
    BY <1>4, Zenon DEF Accepted
  <2> HIDE DEF r
  <2>2. r.ok /\ r.value = A[k]
    BY <2>1
  <2> QED
    BY <2>2, Zenon DEF r
<1> HIDE DEF Lists, Addrs
<1>10. All(plus) = addrs /\ All(minus) = {}
  <2>1. All(plus) = UNION {Addrs(k).value : k \in DOMAIN e}
    BY <1>8, Zenon
  <2>2. {Addrs(k).value : k \in DOMAIN e} = {A[k] : k \in DOMAIN e}
    BY <1>9, Zenon
  <2>3. All(minus) = {}
    BY <1>8, Zenon
  <2> QED
    BY <2>1, <2>2, <2>3, Zenon
<1> HIDE DEF All, addrs
<1>11. All(plus) \ All(minus) = addrs
  BY <1>10, Zenon
<1>12. ~(~d.ok \/ ~IsDict(d.value))
  BY <1>1, <1>3, Zenon
<1>13. ~(Lists(plus \cup minus) = {} \/ \E k \in Lists(plus \cup minus) : ~Addrs(k).ok)
  BY <1>8, <1>9, Zenon
<1> QED
  BY <1>2, <1>11, <1>12, <1>13, Zenon DEF addrs

\* The peers told of are read as parse_socket_addrs takes their addresses.
LEMMA PexReads ==
  ASSUME NEW m \in PexMessage, IsFiniteSet(m.addrs), m.addrs # {}
  PROVE  /\ EncodePex(m) \in Seq(Byte)
         /\ DecodePex(EncodePex(m)) = Accepted([m EXCEPT !.addrs = AsRead(@)])
<1> DEFINE four == {a \in m.addrs : Len(a.ip) = 4}
           sixteen == {a \in m.addrs : Len(a.ip) = 16}
           added == Insert(Insert(<<>>, KeyAdded, four), KeyAdded6, sixteen)
           some == {key \in DOMAIN added : added[key] # {}}
           c == [k \in some |-> Compact(added[k])]
           A == [k \in some |-> UNION {ReadParts(a) : a \in added[k]}]
           f == [k \in some |-> ByteString(Compact(added[k]))]
           s == EncodeDict(f)
<1>1. m.addrs \in SUBSET Address /\ m = [type |-> "Pex", addrs |-> m.addrs]
  BY DEF PexMessage
<1>2. /\ four \in SUBSET OfSize(4) /\ sixteen \in SUBSET OfSize(16)
      /\ four \cup sixteen = m.addrs
  <2>1. \A a \in m.addrs : \/ a \in OfSize(4) /\ Len(a.ip) = 4 /\ Len(a.ip) # 16
                           \/ a \in OfSize(16) /\ Len(a.ip) = 16 /\ Len(a.ip) # 4
    <3> SUFFICES ASSUME NEW a \in m.addrs
                 PROVE  \/ a \in OfSize(4) /\ Len(a.ip) = 4 /\ Len(a.ip) # 16
                        \/ a \in OfSize(16) /\ Len(a.ip) = 16 /\ Len(a.ip) # 4
      BY Zenon
    <3>1. CASE a \in Address4
      <4>1. Len(a.ip) = 4 /\ a \in OfSize(4)
        BY <3>1, SizeTells, Zenon DEF Address4, OfSize
      <4> QED
        BY <4>1
    <3>2. CASE a \in Address6
      <4>1. Len(a.ip) = 16 /\ a \in OfSize(16)
        BY <3>2, SizeTells, Zenon DEF Address6, OfSize
      <4> QED
        BY <4>1
    <3> QED
      BY <1>1, <3>1, <3>2, Zenon DEF Address
  <2> QED
    BY <2>1, Zenon
<1>3. IsFiniteSet(four) /\ IsFiniteSet(sixteen)
  BY FS_Subset, Zenon
<1>4. EncodePex(m) = s
  BY Zenon DEF EncodePex
<1> HIDE DEF four, sixteen
<1>5. DOMAIN added = AddedKeys
  BY ListKeys, InsertTwoKeys, Zenon DEF AddedKeys
<1>6. added[KeyAdded] = four /\ added[KeyAdded6] = sixteen
  BY ListKeys, InsertTwoValues, SMT
<1> HIDE DEF added
<1>7. some \subseteq AddedKeys /\ DOMAIN f = some /\ DOMAIN c = some
  BY <1>5, Zenon
<1>8. some # {}
  <2>1. four # {} \/ sixteen # {}
    BY <1>2, Zenon
  <2>2. KeyAdded \in AddedKeys /\ KeyAdded6 \in AddedKeys
    BY Zenon DEF AddedKeys
  <2> QED
    BY <1>5, <1>6, <2>1, <2>2, Zenon
<1>9. \A k \in some : Compact(added[k]) \in Seq(Byte)
                   /\ ParseSocketAddrs(Compact(added[k])) = Accepted(UNION {ReadParts(a) : a \in added[k]})
  <2> SUFFICES ASSUME NEW k \in some
               PROVE  /\ Compact(added[k]) \in Seq(Byte)
                      /\ ParseSocketAddrs(Compact(added[k])) = Accepted(UNION {ReadParts(a) : a \in added[k]})
    BY Zenon
  <2> DEFINE T == added[k]
  <2>1. T # {}
    BY Zenon
  <2>2. \E w \in {4, 16} : T \in SUBSET OfSize(w)
    BY <1>2, <1>5, <1>6, Zenon DEF AddedKeys
  <2>3. IsFiniteSet(T)
    BY <1>3, <1>5, <1>6, Zenon DEF AddedKeys
  <2> HIDE DEF T
  <2>4. /\ Compact(T) \in Seq(Byte)
        /\ ParseSocketAddrs(Compact(T)) = Accepted(UNION {ReadParts(a) : a \in T})
    BY <2>1, <2>2, <2>3, CompactReads, Zenon
  <2> QED
    BY <2>4, Zenon DEF T
<1>10. UNION {A[k] : k \in some} = AsRead(m.addrs)
  <2>1. AsRead(m.addrs) = UNION {ReadParts(a) : a \in m.addrs}
    BY <1>1, AsReadIs, Zenon
  <2>2. \A a : a \in m.addrs <=> \E k \in some : a \in added[k]
    <3>1. KeyAdded \in AddedKeys /\ KeyAdded6 \in AddedKeys /\ \A k \in AddedKeys : k = KeyAdded \/ k = KeyAdded6
      BY Zenon DEF AddedKeys
    <3>2. ASSUME NEW a \in m.addrs PROVE \E k \in some : a \in added[k]
      <4>1. CASE a \in four
        BY <1>5, <1>6, <3>1, <4>1, Zenon
      <4>2. CASE a \in sixteen
        BY <1>5, <1>6, <3>1, <4>2, Zenon
      <4> QED
        BY <1>2, <4>1, <4>2, Zenon
    <3>3. ASSUME NEW k \in some, NEW a \in added[k] PROVE a \in m.addrs
      BY <1>2, <1>5, <1>6, <3>1, Zenon
    <3> QED
      BY <3>2, <3>3, Zenon
  <2>3. \A k \in some : A[k] = UNION {ReadParts(a) : a \in added[k]}
    BY Zenon
  <2> HIDE DEF A, some
  <2>4. ASSUME NEW y PROVE y \in UNION {A[k] : k \in some} <=> y \in UNION {ReadParts(a) : a \in m.addrs}
    <3>1. ASSUME NEW k \in some, y \in A[k] PROVE y \in UNION {ReadParts(a) : a \in m.addrs}
      <4>1. y \in UNION {ReadParts(a) : a \in added[k]}
        BY <2>3, <3>1, Zenon
      <4>2. PICK a \in added[k] : y \in ReadParts(a)
        BY <4>1, Zenon
      <4>3. a \in m.addrs
        BY <2>2, <4>2, Zenon
      <4> QED
        BY <4>2, <4>3, Zenon
    <3>2. ASSUME NEW a \in m.addrs, y \in ReadParts(a) PROVE y \in UNION {A[k] : k \in some}
      <4>1. PICK k \in some : a \in added[k]
        BY <2>2, Zenon
      <4>2. y \in A[k]
        BY <2>3, <3>2, <4>1, Zenon
      <4> QED
        BY <4>2, Zenon
    <3> QED
      BY <3>1, <3>2, Zenon
  <2> QED
    BY <2>1, <2>4, Zenon
<1>11. \A k \in some : /\ c[k] \in Seq(Byte) /\ f[k] = ByteString(c[k])
                       /\ ParseSocketAddrs(c[k]) = Accepted(A[k])
  BY <1>9, Zenon
<1> HIDE DEF some, c, A, f
<1>12. PICK e : /\ IsWritten(s, e)
                /\ DOMAIN e = DOMAIN f /\ \A k \in DOMAIN f : e[k] = Bytes(c[k])
  <2>1. DOMAIN f \subseteq AddedKeys /\ DOMAIN f # {}
    BY <1>7, <1>8, Zenon
  <2>2. \A k \in DOMAIN f : c[k] \in Seq(Byte) /\ f[k] = ByteString(c[k])
    BY <1>7, <1>11, Zenon
  <2> QED
    BY <2>1, <2>2, ListsRead
<1> HIDE DEF s
<1>13. DecodePex(s) = Accepted([type |-> "Pex", addrs |-> UNION {A[k] : k \in DOMAIN e}])
  <2>1. IsWritten(s, e) /\ DOMAIN e \subseteq AddedKeys /\ DOMAIN e # {}
    BY <1>7, <1>8, <1>12, Zenon
  <2>2. \A k \in DOMAIN e : e[k] = Bytes(c[k]) /\ ParseSocketAddrs(c[k]) = Accepted(A[k])
    BY <1>7, <1>11, <1>12, Zenon
  <2> QED
    BY <2>1, <2>2, PexOf
<1>14. DecodePex(s) = Accepted([type |-> "Pex", addrs |-> AsRead(m.addrs)])
  BY <1>7, <1>10, <1>12, <1>13, Zenon
<1>15. [m EXCEPT !.addrs = AsRead(@)] = [type |-> "Pex", addrs |-> AsRead(m.addrs)]
  <2> DEFINE r == AsRead(m.addrs)
  <2>1. [m EXCEPT !.addrs = AsRead(@)] = [m EXCEPT !.addrs = r]
    BY Zenon
  <2> HIDE DEF r
  <2>2. [m EXCEPT !.addrs = r] = [type |-> "Pex", addrs |-> r]
    BY <1>1
  <2> QED
    BY <2>1, <2>2, Zenon DEF r
<1>16. s \in Seq(Byte)
  BY <1>12, Zenon DEF IsWritten
<1> QED
  BY <1>4, <1>14, <1>15, <1>16, Zenon

\* A peer exchange is read as what it told exactly when all its addresses are of IPv4:
\* parse_socket_addrs never gets to read one of IPv6 (UtPexMessage::decode of encode).
THEOREM PexIsReadOfFour ==
  ASSUME NEW m \in PexMessage, IsFiniteSet(m.addrs), m.addrs # {}
  PROVE  DecodePex(EncodePex(m)) = Accepted(m) <=> m.addrs \subseteq Address4
<1> DEFINE read == AsRead(m.addrs)
           r == [type |-> "Pex", addrs |-> read]
           four == {a \in m.addrs : Len(a.ip) = 4}
<1>1. m.addrs \in SUBSET Address /\ m = [type |-> "Pex", addrs |-> m.addrs]
  BY DEF PexMessage
<1>2. DecodePex(EncodePex(m)) = Accepted(r)
  <2>1. [m EXCEPT !.addrs = AsRead(@)] = [m EXCEPT !.addrs = read]
    BY Zenon
  <2> HIDE DEF read
  <2>2. [m EXCEPT !.addrs = read] = r
    BY <1>1
  <2>3. DecodePex(EncodePex(m)) = Accepted([m EXCEPT !.addrs = read])
    BY <2>1, PexReads, Zenon DEF read
  <2> QED
    BY <2>2, <2>3, Zenon
<1>3. Accepted(r) = Accepted(m) <=> read = m.addrs
  <2>1. Accepted(r) = Accepted(m) => r = m
    BY DEF Accepted
  <2>2. r = m <=> read = m.addrs
    <3> HIDE DEF read
    <3> QED
      BY <1>1
  <2> QED
    BY <2>1, <2>2, Zenon
<1>4. \A a \in m.addrs : a \in Address6 => a \notin four
  <2>1. 16 # 4
    OBVIOUS
  <2> QED
    BY <2>1, SizeTells, Zenon
<1>5. read = four \cup UNION {ThreeParts(a) : a \in m.addrs \ four}
  BY Zenon DEF AsRead, ThreeParts
<1>6. ASSUME m.addrs \subseteq Address4 PROVE read = m.addrs
  <2>1. four = m.addrs
    BY <1>6, SizeTells, Zenon
  <2> HIDE DEF four, read
  <2> QED
    BY <1>5, <2>1, Zenon
<1>7. ASSUME NEW a \in m.addrs, a \in Address6 PROVE read # m.addrs
  <2>1. Len(a.ip) = 16 /\ a \notin four
    BY <1>4, <1>7, SizeTells, Zenon
  <2>2. ASSUME NEW b \in m.addrs \ four, a \in ThreeParts(b) PROVE FALSE
    <3>1. b \in Address6
      <4>1. b \in Address4 => Len(b.ip) = 4
        BY SizeTells, Zenon
      <4> QED
        BY <1>1, <4>1, Zenon DEF Address
    <3>2. b.ip \in Seq(Byte) /\ Len(b.ip) = 16
      <4>1. b \in OfSize(16)
        BY <3>1, Zenon DEF Address6, OfSize
      <4> QED
        BY <4>1, AddressIs
    <3>3. \/ a.ip = SubSeq(b.ip, 1, 1 + 3) \/ a.ip = SubSeq(b.ip, 7, 7 + 3)
          \/ a.ip = SubSeq(b.ip, 13, 13 + 3)
      BY <2>2 DEF ThreeParts
    <3> DEFINE u == b.ip
    <3>4. /\ Len(SubSeq(u, 1, 1 + 3)) = 4 /\ Len(SubSeq(u, 7, 7 + 3)) = 4
          /\ Len(SubSeq(u, 13, 13 + 3)) = 4
      <4> HIDE DEF u
      <4>1. u \in Seq(Byte) /\ Len(u) = 16
        BY <3>2, Zenon DEF u
      <4> QED
        BY <4>1, FourBytes
    <3>5. Len(a.ip) = 4
      BY <3>3, <3>4, Zenon
    <3> QED
      BY <2>1, <3>5
  <2>3. a \notin read
    BY <1>5, <2>1, <2>2, Zenon
  <2> QED
    BY <2>3, Zenon
<1>8. read = m.addrs => m.addrs \subseteq Address4
  BY <1>1, <1>7, Zenon DEF Address
<1> QED
  BY <1>2, <1>3, <1>6, <1>8, Zenon

-----------------------------------------------------------------------------
\* Messages

\* The messages of an id.
IdsOf(ids, id) == {t \in DOMAIN ids : ids[t] = id}

\* The ids of messages that are nothing but their id,
LEMMA PlainIds ==
  /\ DOMAIN PlainId = {"Choke", "Unchoke", "Interested", "NotInterested", "HaveAll", "HaveNone"}
  /\ PlainId["Choke"] = 0 /\ PlainId["Unchoke"] = 1 /\ PlainId["Interested"] = 2
  /\ PlainId["NotInterested"] = 3 /\ PlainId["HaveAll"] = 14 /\ PlainId["HaveNone"] = 15
BY DEF PlainId

\* of those that name a piece,
LEMMA IndexedIds ==
  /\ DOMAIN IndexedId = {"Have", "SuggestPiece", "AllowedFast"}
  /\ IndexedId["Have"] = 4 /\ IndexedId["SuggestPiece"] = 13 /\ IndexedId["AllowedFast"] = 17
BY DEF IndexedId

\* and of those that name a range.
LEMMA RangedIds ==
  /\ DOMAIN RangedId = {"Request", "Cancel", "RejectRequest"}
  /\ RangedId["Request"] = 6 /\ RangedId["Cancel"] = 8 /\ RangedId["RejectRequest"] = 16
BY DEF RangedId

\* No two messages have one id: not these,
LEMMA IdsOfPlain ==
  ASSUME NEW t \in DOMAIN PlainId
  PROVE  /\ PlainId[t] \in Byte /\ PlainId[t] \in {0, 1, 2, 3, 14, 15}
         /\ IdsOf(PlainId, PlainId[t]) = {t}
         /\ IdsOf(IndexedId, PlainId[t]) = {} /\ IdsOf(RangedId, PlainId[t]) = {}
<1>1. PlainId[t] \in {0, 1, 2, 3, 14, 15}
  BY PlainIds
<1>2. PlainId[t] \in Byte
  BY <1>1 DEF Byte
<1>3. \A u \in DOMAIN PlainId : PlainId[u] = PlainId[t] => u = t
  BY PlainIds
<1>4. \A u \in DOMAIN IndexedId : IndexedId[u] # PlainId[t]
  BY <1>1, IndexedIds
<1>5. \A u \in DOMAIN RangedId : RangedId[u] # PlainId[t]
  BY <1>1, RangedIds
<1> QED
  BY <1>1, <1>2, <1>3, <1>4, <1>5, Zenon DEF IdsOf

\* nor these,
LEMMA IdsOfIndexed ==
  ASSUME NEW t \in DOMAIN IndexedId
  PROVE  /\ IndexedId[t] \in Byte /\ IndexedId[t] \in {4, 13, 17}
         /\ IdsOf(IndexedId, IndexedId[t]) = {t}
         /\ IdsOf(PlainId, IndexedId[t]) = {} /\ IdsOf(RangedId, IndexedId[t]) = {}
<1>1. IndexedId[t] \in {4, 13, 17}
  BY IndexedIds
<1>2. IndexedId[t] \in Byte
  BY <1>1 DEF Byte
<1>3. \A u \in DOMAIN IndexedId : IndexedId[u] = IndexedId[t] => u = t
  BY IndexedIds
<1>4. \A u \in DOMAIN PlainId : PlainId[u] # IndexedId[t]
  BY <1>1, PlainIds
<1>5. \A u \in DOMAIN RangedId : RangedId[u] # IndexedId[t]
  BY <1>1, RangedIds
<1> QED
  BY <1>1, <1>2, <1>3, <1>4, <1>5, Zenon DEF IdsOf

\* nor these,
LEMMA IdsOfRanged ==
  ASSUME NEW t \in DOMAIN RangedId
  PROVE  /\ RangedId[t] \in Byte /\ RangedId[t] \in {6, 8, 16}
         /\ IdsOf(RangedId, RangedId[t]) = {t}
         /\ IdsOf(PlainId, RangedId[t]) = {} /\ IdsOf(IndexedId, RangedId[t]) = {}
<1>1. RangedId[t] \in {6, 8, 16}
  BY RangedIds
<1>2. RangedId[t] \in Byte
  BY <1>1 DEF Byte
<1>3. \A u \in DOMAIN RangedId : RangedId[u] = RangedId[t] => u = t
  BY RangedIds
<1>4. \A u \in DOMAIN PlainId : PlainId[u] # RangedId[t]
  BY <1>1, PlainIds
<1>5. \A u \in DOMAIN IndexedId : IndexedId[u] # RangedId[t]
  BY <1>1, IndexedIds
<1> QED
  BY <1>1, <1>2, <1>3, <1>4, <1>5, Zenon DEF IdsOf

\* nor the others.
LEMMA OtherIds ==
  ASSUME NEW id \in {5, 7, 20}
  PROVE  IdsOf(PlainId, id) = {} /\ IdsOf(IndexedId, id) = {} /\ IdsOf(RangedId, id) = {}
<1>1. \A u \in DOMAIN PlainId : PlainId[u] # id
  BY PlainIds
<1>2. \A u \in DOMAIN IndexedId : IndexedId[u] # id
  BY IndexedIds
<1>3. \A u \in DOMAIN RangedId : RangedId[u] # id
  BY RangedIds
<1> QED
  BY <1>1, <1>2, <1>3, Zenon DEF IdsOf

\* What is chosen of one is that one.
LEMMA OnlyOne == \A t : (CHOOSE u \in {t} : TRUE) = t
OBVIOUS

\* What is decoded of the messages with each kind of id.
LEMMA DecodesPlain ==
  ASSUME NEW s \in Seq(Byte), s # <<>>, NEW t \in DOMAIN PlainId, s[1] = PlainId[t],
         s[1] < 14 \/ Len(s) - 1 = 0
  PROVE  DecodeMessage(s) = Accepted([type |-> t])
<1>1. {u \in DOMAIN PlainId : PlainId[u] = s[1]} = {t}
  BY IdsOfPlain, Zenon DEF IdsOf
<1>2. (CHOOSE u \in {t} : TRUE) = t
  BY OnlyOne, Zenon
<1>3. {u \in DOMAIN PlainId : PlainId[u] = s[1]} # {}
  BY <1>1, Zenon
<1>4. /\ {u \in DOMAIN IndexedId : IndexedId[u] = s[1]} = {}
      /\ {u \in DOMAIN RangedId : RangedId[u] = s[1]} = {}
  <2>1. IdsOf(IndexedId, s[1]) = {} /\ IdsOf(RangedId, s[1]) = {}
    BY IdsOfPlain, Zenon
  <2> QED
    BY <2>1, Zenon DEF IdsOf
<1>5. s[1] # 5 /\ s[1] # 7 /\ s[1] # 20
  BY IdsOfPlain
<1> QED
  BY <1>1, <1>2, <1>3, <1>4, <1>5, Zenon DEF DecodeMessage

\* A message that names a piece is decoded by its id,
LEMMA DecodesIndexed ==
  ASSUME NEW s \in Seq(Byte), s # <<>>, NEW t \in DOMAIN IndexedId, s[1] = IndexedId[t],
         Len(s) - 1 = 4
  PROVE  DecodeMessage(s) = Accepted([type |-> t, piece |-> ReadU32(s, 1)])
<1>1. {u \in DOMAIN IndexedId : IndexedId[u] = s[1]} = {t}
  BY IdsOfIndexed, Zenon DEF IdsOf
<1>2. (CHOOSE u \in {t} : TRUE) = t
  BY OnlyOne, Zenon
<1>3. {u \in DOMAIN IndexedId : IndexedId[u] = s[1]} # {}
  BY <1>1, Zenon
<1>4. /\ {u \in DOMAIN PlainId : PlainId[u] = s[1]} = {}
      /\ {u \in DOMAIN RangedId : RangedId[u] = s[1]} = {}
  <2>1. IdsOf(PlainId, s[1]) = {} /\ IdsOf(RangedId, s[1]) = {}
    BY IdsOfIndexed, Zenon
  <2> QED
    BY <2>1, Zenon DEF IdsOf
<1>5. s[1] # 5 /\ s[1] # 7 /\ s[1] # 20
  BY IdsOfIndexed
<1> QED
  BY <1>1, <1>2, <1>3, <1>4, <1>5, Zenon DEF DecodeMessage

\* and so is one that names a range,
LEMMA DecodesRanged ==
  ASSUME NEW s \in Seq(Byte), s # <<>>, NEW t \in DOMAIN RangedId, s[1] = RangedId[t],
         Len(s) - 1 = 12
  PROVE  DecodeMessage(s) = Accepted([type |-> t, range |-> RangeOf(s, ReadU32(s, 9))])
<1>1. {u \in DOMAIN RangedId : RangedId[u] = s[1]} = {t}
  BY IdsOfRanged, Zenon DEF IdsOf
<1>2. (CHOOSE u \in {t} : TRUE) = t
  BY OnlyOne, Zenon
<1>3. {u \in DOMAIN RangedId : RangedId[u] = s[1]} # {}
  BY <1>1, Zenon
<1>4. /\ {u \in DOMAIN PlainId : PlainId[u] = s[1]} = {}
      /\ {u \in DOMAIN IndexedId : IndexedId[u] = s[1]} = {}
  <2>1. IdsOf(PlainId, s[1]) = {} /\ IdsOf(IndexedId, s[1]) = {}
    BY IdsOfRanged, Zenon
  <2> QED
    BY <2>1, Zenon DEF IdsOf
<1>5. s[1] # 5 /\ s[1] # 7 /\ s[1] # 20
  BY IdsOfRanged
<1> QED
  BY <1>1, <1>2, <1>3, <1>4, <1>5, Zenon DEF DecodeMessage

\* and the rest of them.
LEMMA DecodesOther ==
  ASSUME NEW s \in Seq(Byte), s # <<>>, s[1] \in {5, 7, 20}
  PROVE  /\ s[1] = 5 => DecodeMessage(s) = Accepted([type |-> "Bitfield", bits |-> Tail(s)])
         /\ s[1] = 7 /\ Len(s) - 1 >= 8 =>
              DecodeMessage(s) = Accepted([type |-> "Piece", range |-> RangeOf(s, Len(s) - 1 - 8),
                                           data |-> SubSeq(s, 10, Len(s))])
         /\ s[1] = 20 /\ Len(s) - 1 # 0 /\ s[2] # 0 =>
              DecodeMessage(s) = Accepted([type |-> "Extension", ext |-> s[2],
                                           payload |-> SubSeq(s, 3, Len(s))])
         /\ s[1] = 20 /\ Len(s) - 1 # 0 /\ s[2] = 0 /\ Decode(SubSeq(s, 3, Len(s))).ok =>
              DecodeMessage(s) = Accepted(ExtensionsFrom(Decode(SubSeq(s, 3, Len(s))).value))
<1>1. /\ {u \in DOMAIN PlainId : PlainId[u] = s[1]} = {}
      /\ {u \in DOMAIN IndexedId : IndexedId[u] = s[1]} = {}
      /\ {u \in DOMAIN RangedId : RangedId[u] = s[1]} = {}
  BY OtherIds, Zenon DEF IdsOf
<1>2. /\ s[1] = 5 => s[1] # 7 /\ s[1] # 20
      /\ s[1] = 7 => s[1] # 5 /\ s[1] # 20
      /\ s[1] = 20 => s[1] # 7 /\ s[1] # 5
  OBVIOUS
<1>3. s[1] = 5 => DecodeMessage(s) = Accepted([type |-> "Bitfield", bits |-> Tail(s)])
  BY <1>1, <1>2, Zenon DEF DecodeMessage
<1>4. s[1] = 7 /\ Len(s) - 1 >= 8 =>
              DecodeMessage(s) = Accepted([type |-> "Piece", range |-> RangeOf(s, Len(s) - 1 - 8),
                                           data |-> SubSeq(s, 10, Len(s))])
  BY <1>1, <1>2, Zenon DEF DecodeMessage
<1>5. s[1] = 20 /\ Len(s) - 1 # 0 /\ s[2] # 0 =>
              DecodeMessage(s) = Accepted([type |-> "Extension", ext |-> s[2],
                                           payload |-> SubSeq(s, 3, Len(s))])
  BY <1>1, <1>2, Zenon DEF DecodeMessage
<1>6. s[1] = 20 /\ Len(s) - 1 # 0 /\ s[2] = 0 /\ Decode(SubSeq(s, 3, Len(s))).ok =>
              DecodeMessage(s) = Accepted(ExtensionsFrom(Decode(SubSeq(s, 3, Len(s))).value))
  BY <1>1, <1>2, Zenon DEF DecodeMessage
<1> QED
  BY <1>3, <1>4, <1>5, <1>6, Zenon

-----------------------------------------------------------------------------
\* The first byte of what begins with one.
LEMMA HeldByte ==
  ASSUME NEW s \in Seq(Byte), NEW b \in Byte, Holds(s, 1, <<b>>)
  PROVE  s[1] = b /\ s # <<>>
<1>1. 1 \in Nat \ {0}
  OBVIOUS
<1>2. At(s, 1) = b /\ 1 \in 1 .. Len(s)
  BY <1>1, HoldsByte, Zenon
<1> QED
  BY <1>2 DEF At

\* An id and a number; an id, two numbers and what follows; an id and what follows.
LEMMA NumberBytes ==
  ASSUME NEW b \in Byte, NEW p \in U32
  PROVE  LET s == <<b>> \o BigEndian(p)
         IN  s \in Seq(Byte) /\ s # <<>> /\ Len(s) = 5 /\ s[1] = b /\ ReadU32(s, 1) = p
<1> DEFINE u == <<b>>
           v == BigEndian(p)
           s == u \o v
<1>1. u \in Seq(Byte) /\ Len(u) = 1
  BY OneByte, Zenon
<1>2. v \in Seq(Byte) /\ Len(v) = 4
  BY BigEndianBytes, Zenon
<1> HIDE DEF u, v
<1>3. s \in Seq(Byte) /\ Len(s) = Len(u) + Len(v)
  BY <1>1, <1>2, ConcatThree, Zenon
<1>4. Holds(s, 1, u) /\ Holds(s, 1 + Len(u), v)
  <2>1. 1 \in Nat \ {0}
    OBVIOUS
  <2>2. Holds(s, 1, s)
    BY <1>3, HoldsWhole, Zenon
  <2> QED
    BY <1>1, <1>2, <1>3, <2>1, <2>2, HoldsSplit, Zenon
<1> HIDE DEF s
<1>5. s[1] = b /\ s # <<>>
  BY <1>3, <1>4, HeldByte, Zenon DEF u
<1>6. Len(s) = 5 /\ 1 \in Nat
  BY <1>1, <1>2, <1>3
<1>7. ReadU32(s, 1) = p
  BY <1>1, <1>3, <1>4, <1>6, ReadU32Reads, Zenon DEF v
<1> QED
  BY <1>3, <1>5, <1>6, <1>7, Zenon DEF s, u, v

Ranged(b, p, o, w) == ((<<b>> \o BigEndian(p)) \o BigEndian(o)) \o w

IsRanged(s, b, p, o, w) ==
  /\ s \in Seq(Byte) /\ s # <<>> /\ Len(s) = 9 + Len(w) /\ s[1] = b
  /\ ReadU32(s, 1) = p /\ ReadU32(s, 5) = o
  /\ Holds(s, 10, w) /\ SubSeq(s, 10, Len(s)) = w

\* A range is read from the bytes it was written as.
LEMMA RangeBytes ==
  ASSUME NEW b \in Byte, NEW p \in U32, NEW o \in U32, NEW w \in Seq(Byte)
  PROVE  IsRanged(Ranged(b, p, o, w), b, p, o, w)
<1> DEFINE u == <<b>> \o BigEndian(p)
           v == BigEndian(o)
           x == u \o v
           s == x \o w
<1>1. u \in Seq(Byte) /\ Len(u) = 5
  BY NumberBytes, Zenon
<1>2. v \in Seq(Byte) /\ Len(v) = 4
  BY BigEndianBytes, Zenon
<1>3. BigEndian(p) \in Seq(Byte) /\ <<b>> \in Seq(Byte) /\ Len(<<b>>) = 1
  BY OneByte, BigEndianBytes, Zenon
<1>13. Ranged(b, p, o, w) = s
  BY Zenon DEF Ranged, s, x, u, v
<1> HIDE DEF u, v
<1>4. s \in Seq(Byte) /\ Len(s) = Len(u) + Len(v) + Len(w) /\ Len(w) \in Nat
  <2>1. x \in Seq(Byte) /\ Len(x) = Len(u) + Len(v)
    BY <1>1, <1>2, ConcatThree, Zenon
  <2> HIDE DEF x
  <2>2. s \in Seq(Byte) /\ Len(s) = Len(x) + Len(w) /\ Len(w) \in Nat
    BY <2>1
  <2> HIDE DEF s
  <2> QED
    BY <1>1, <1>2, <2>1, <2>2
<1>5. 1 \in Nat \ {0} /\ 1 + Len(u) = 6 /\ 1 + Len(u) + Len(v) = 10 /\ 1 + 1 = 2 /\ 5 + 1 = 6
      /\ 1 \in Nat /\ 5 \in Nat /\ 10 \in Nat \ {0}
  BY <1>1, <1>2
<1>6. Holds(s, 1, u) /\ Holds(s, 6, v) /\ Holds(s, 10, w)
  <2>1. Holds(s, 1, (u \o v) \o w)
    BY <1>4, HoldsWhole, Zenon
  <2>2. Holds(s, 1, u) /\ Holds(s, 1 + Len(u), v) /\ Holds(s, 1 + Len(u) + Len(v), w)
    BY <1>1, <1>2, <1>4, <1>5, <2>1, HoldsThree, Zenon
  <2> QED
    BY <1>5, <2>2, Zenon
<1> HIDE DEF s
<1>7. Holds(s, 1, <<b>>) /\ Holds(s, 1 + Len(<<b>>), BigEndian(p))
  BY <1>3, <1>4, <1>5, <1>6, HoldsSplit, Zenon DEF u
<1>8. s[1] = b /\ s # <<>>
  BY <1>4, <1>7, HeldByte, Zenon
<1>9. ReadU32(s, 1) = p
  BY <1>3, <1>4, <1>5, <1>7, ReadU32Reads, Zenon
<1>10. ReadU32(s, 5) = o
  BY <1>4, <1>5, <1>6, ReadU32Reads, Zenon DEF v
<1>11. Len(s) = 9 + Len(w) /\ 10 + Len(w) - 1 = Len(s)
  BY <1>1, <1>2, <1>4
<1>12. SubSeq(s, 10, Len(s)) = w
  <2>1. SubSeq(s, 10, 10 + Len(w) - 1) = w
    BY <1>4, <1>5, <1>6, HoldsCut, Zenon
  <2> QED
    BY <1>11, <2>1, Zenon
<1> QED
  BY <1>4, <1>6, <1>8, <1>9, <1>10, <1>11, <1>12, <1>13, Zenon DEF IsRanged

\* What follows an id,
LEMMA PayloadBytes ==
  ASSUME NEW b \in Byte, NEW w \in Seq(Byte)
  PROVE  LET s == <<b>> \o w
         IN  /\ s \in Seq(Byte) /\ s # <<>> /\ Len(s) = 1 + Len(w) /\ s[1] = b /\ Tail(s) = w
             /\ \A k \in 1 .. Len(w) : s[k + 1] = w[k]
<1> DEFINE u == <<b>>
           s == u \o w
<1>1. u \in Seq(Byte) /\ Len(u) = 1 /\ u[1] = b
  BY OneByte, Zenon
<1> HIDE DEF u
<1>2. s \in Seq(Byte) /\ Len(s) = Len(u) + Len(w) /\ Len(w) \in Nat
  BY <1>1, ConcatThree, Zenon
<1>3. \A i \in 1 .. Len(u) + Len(w) : s[i] = IF i <= Len(u) THEN u[i] ELSE w[i - Len(u)]
  BY <1>1, ConcatProperties, Zenon
<1> HIDE DEF s
<1>4. s[1] = b /\ Len(s) = 1 + Len(w) /\ s # <<>>
  BY <1>1, <1>2, <1>3
<1>5. \A k \in 1 .. Len(w) : s[k + 1] = w[k]
  BY <1>1, <1>2, <1>3
<1>6. Tail(s) = w
  <2> DEFINE t == Tail(s)
  <2>1. t \in Seq(Byte) /\ Len(t) = Len(w) /\ \A k \in 1 .. Len(w) : t[k] = s[k + 1]
    BY <1>2, <1>4
  <2> HIDE DEF t
  <2>2. t = w
    BY <1>5, <2>1, SeqEqual
  <2> QED
    BY <2>2 DEF t
<1> QED
  BY <1>2, <1>4, <1>5, <1>6, Zenon DEF s, u

\* An id, a second byte and what follows.
IsExtended(s, b, c, w) ==
  /\ s \in Seq(Byte) /\ s # <<>> /\ Len(s) = 2 + Len(w) /\ s[1] = b /\ s[2] = c
  /\ SubSeq(s, 3, Len(s)) = w

\* or two.
LEMMA ExtensionBytes ==
  ASSUME NEW b \in Byte, NEW c \in Byte, NEW w \in Seq(Byte)
  PROVE  IsExtended(<<b, c>> \o w, b, c, w)
<1> DEFINE u == <<b, c>>
           s == u \o w
<1>1. u \in Seq(Byte) /\ Len(u) = 2 /\ u[1] = b /\ u[2] = c
  OBVIOUS
<1> HIDE DEF u
<1>2. s \in Seq(Byte) /\ Len(s) = Len(u) + Len(w) /\ Len(w) \in Nat
  BY <1>1, ConcatThree, Zenon
<1>3. \A i \in 1 .. Len(u) + Len(w) : s[i] = IF i <= Len(u) THEN u[i] ELSE w[i - Len(u)]
  BY <1>1, ConcatProperties, Zenon
<1>4. 1 \in Nat \ {0} /\ 1 + Len(u) = 3 /\ 3 \in Nat \ {0}
  BY <1>1
<1>5. Holds(s, 1 + Len(u), w)
  <2>1. Holds(s, 1, u \o w)
    BY <1>2, HoldsWhole, Zenon
  <2> QED
    BY <1>1, <1>2, <1>4, <2>1, HoldsSplit, Zenon
<1> HIDE DEF s
<1>6. s[1] = b /\ s[2] = c /\ Len(s) = 2 + Len(w) /\ s # <<>> /\ 3 + Len(w) - 1 = Len(s)
  BY <1>1, <1>2, <1>3
<1>7. SubSeq(s, 3, 3 + Len(w) - 1) = w
  BY <1>2, <1>4, <1>5, HoldsCut, Zenon
<1> QED
  BY <1>2, <1>6, <1>7, Zenon DEF s, u, IsExtended

-----------------------------------------------------------------------------
\* How the messages are encoded.
LEMMA TypesApart ==
  /\ \A t \in DOMAIN PlainId :
       /\ t \notin DOMAIN IndexedId /\ t \notin DOMAIN RangedId
       /\ t \notin {"Bitfield", "Piece", "ExtensionHandshake", "Extension", "KeepAlive", "Unimplemented"}
  /\ \A t \in DOMAIN IndexedId :
       /\ t \notin DOMAIN RangedId
       /\ t \notin {"Bitfield", "Piece", "ExtensionHandshake", "Extension", "KeepAlive", "Unimplemented"}
  /\ \A t \in DOMAIN RangedId :
       t \notin {"Bitfield", "Piece", "ExtensionHandshake", "Extension", "KeepAlive", "Unimplemented"}
<1>1. DOMAIN PlainId = {"Choke", "Unchoke", "Interested", "NotInterested", "HaveAll", "HaveNone"}
  BY PlainIds
<1>2. DOMAIN IndexedId = {"Have", "SuggestPiece", "AllowedFast"}
  BY IndexedIds
<1>3. DOMAIN RangedId = {"Request", "Cancel", "RejectRequest"}
  BY RangedIds
<1> QED
  BY <1>1, <1>2, <1>3

\* Messages that are nothing but their id,
LEMMA EncodesPlain ==
  ASSUME NEW m, m.type \in DOMAIN PlainId
  PROVE  EncodeMessage(m) = <<PlainId[m.type]>>
<1>1. /\ m.type \notin DOMAIN IndexedId /\ m.type \notin DOMAIN RangedId
      /\ m.type # "Bitfield" /\ m.type # "Piece" /\ m.type # "ExtensionHandshake"
      /\ m.type # "Extension" /\ m.type \notin {"KeepAlive", "Unimplemented"}
  BY TypesApart
<1> QED
  BY <1>1, Zenon DEF EncodeMessage

\* those that name a piece,
LEMMA EncodesIndexed ==
  ASSUME NEW m, m.type \in DOMAIN IndexedId
  PROVE  EncodeMessage(m) = <<IndexedId[m.type]>> \o BigEndian(m.piece)
<1>1. /\ m.type \notin DOMAIN PlainId /\ m.type \notin DOMAIN RangedId
      /\ m.type # "Bitfield" /\ m.type # "Piece" /\ m.type # "ExtensionHandshake"
      /\ m.type # "Extension" /\ m.type \notin {"KeepAlive", "Unimplemented"}
  BY TypesApart
<1> QED
  BY <1>1, Zenon DEF EncodeMessage

\* those that name a range,
LEMMA EncodesRanged ==
  ASSUME NEW m, m.type \in DOMAIN RangedId
  PROVE  EncodeMessage(m)
           = Ranged(RangedId[m.type], m.range.piece, m.range.offset, BigEndian(m.range.len))
<1>1. /\ m.type \notin DOMAIN PlainId /\ m.type \notin DOMAIN IndexedId
      /\ m.type # "Bitfield" /\ m.type # "Piece" /\ m.type # "ExtensionHandshake"
      /\ m.type # "Extension" /\ m.type \notin {"KeepAlive", "Unimplemented"}
  BY TypesApart
<1> QED
  BY <1>1, Zenon DEF EncodeMessage, Ranged

\* and the others.
LEMMA EncodesOther ==
  ASSUME NEW m
  PROVE  /\ m.type = "KeepAlive" => EncodeMessage(m) = <<>>
         /\ m.type = "Bitfield" => EncodeMessage(m) = <<5>> \o m.bits
         /\ m.type = "Piece" =>
              EncodeMessage(m) = Ranged(7, m.range.piece, m.range.offset, m.data)
         /\ m.type = "ExtensionHandshake" => EncodeMessage(m) = <<20, 0>> \o EncodeExtensions(m)
         /\ m.type = "Extension" => EncodeMessage(m) = <<20, m.ext>> \o m.payload
<1> DEFINE others == {"Bitfield", "Piece", "ExtensionHandshake", "Extension", "KeepAlive"}
<1>1. m.type \in others =>
        m.type \notin DOMAIN PlainId /\ m.type \notin DOMAIN IndexedId /\ m.type \notin DOMAIN RangedId
  BY TypesApart
<1>2. m.type = "KeepAlive" => EncodeMessage(m) = <<>>
  <2> HAVE m.type = "KeepAlive"
  <2>1. /\ m.type \in others /\ m.type # "Bitfield" /\ m.type # "Piece"
        /\ m.type # "ExtensionHandshake" /\ m.type # "Extension"
    OBVIOUS
  <2> QED
    BY <1>1, <2>1, Zenon DEF EncodeMessage
<1>3. m.type = "Bitfield" => EncodeMessage(m) = <<5>> \o m.bits
  <2> HAVE m.type = "Bitfield"
  <2>1. /\ m.type \in others /\ m.type # "KeepAlive" /\ m.type # "Unimplemented" /\ m.type # "Piece"
        /\ m.type # "ExtensionHandshake" /\ m.type # "Extension"
    OBVIOUS
  <2> QED
    BY <1>1, <2>1, Zenon DEF EncodeMessage
<1>4. m.type = "Piece" =>
        EncodeMessage(m) = Ranged(7, m.range.piece, m.range.offset, m.data)
  <2> HAVE m.type = "Piece"
  <2>1. /\ m.type \in others /\ m.type # "KeepAlive" /\ m.type # "Unimplemented" /\ m.type # "Bitfield"
        /\ m.type # "ExtensionHandshake" /\ m.type # "Extension"
    OBVIOUS
  <2> QED
    BY <1>1, <2>1, Zenon DEF EncodeMessage, Ranged
<1>5. m.type = "ExtensionHandshake" => EncodeMessage(m) = <<20, 0>> \o EncodeExtensions(m)
  <2> HAVE m.type = "ExtensionHandshake"
  <2>1. /\ m.type \in others /\ m.type # "KeepAlive" /\ m.type # "Unimplemented" /\ m.type # "Bitfield"
        /\ m.type # "Piece" /\ m.type # "Extension"
    OBVIOUS
  <2> QED
    BY <1>1, <2>1, Zenon DEF EncodeMessage
<1>6. m.type = "Extension" => EncodeMessage(m) = <<20, m.ext>> \o m.payload
  <2> HAVE m.type = "Extension"
  <2>1. /\ m.type \in others /\ m.type # "KeepAlive" /\ m.type # "Unimplemented" /\ m.type # "Bitfield"
        /\ m.type # "Piece" /\ m.type # "ExtensionHandshake"
    OBVIOUS
  <2> QED
    BY <1>1, <2>1, Zenon DEF EncodeMessage
<1> QED
  BY <1>2, <1>3, <1>4, <1>5, <1>6, Zenon

-----------------------------------------------------------------------------
\* A message is decoded to what was encoded.
Understood(m) ==
  EncodeMessage(m) \in Seq(Byte) /\ DecodeMessage(EncodeMessage(m)) = Accepted(m)

\* After the first of one there is no more.
LEMMA NoMore ==
  ASSUME NEW s, Len(s) = 1
  PROVE  s # <<>> /\ Len(s) - 1 = 0
OBVIOUS

\* So a message without content is decoded to itself,
LEMMA PlainUnderstood ==
  ASSUME NEW m, m = [type |-> m.type], m.type \in DOMAIN PlainId
  PROVE  Understood(m)
<1> DEFINE b == PlainId[m.type]
           s == <<b>>
<1>1. b \in Byte
  BY IdsOfPlain, Zenon
<1> HIDE DEF b
<1>2. s \in Seq(Byte) /\ Len(s) = 1 /\ s[1] = b
  BY <1>1, OneByte, Zenon
<1>3. EncodeMessage(m) = s
  BY EncodesPlain, Zenon DEF b
<1> HIDE DEF s
<1>4. s # <<>> /\ Len(s) - 1 = 0
  BY <1>2, NoMore, Zenon
<1>5. DecodeMessage(s) = Accepted([type |-> m.type])
  BY <1>2, <1>4, DecodesPlain, Zenon DEF b
<1> QED
  BY <1>2, <1>3, <1>5, Zenon DEF Understood

\* one that names a piece too,
LEMMA IndexedUnderstood ==
  ASSUME NEW m, m = [type |-> m.type, piece |-> m.piece], m.type \in DOMAIN IndexedId, m.piece \in U32
  PROVE  Understood(m)
<1> DEFINE b == IndexedId[m.type]
           s == <<b>> \o BigEndian(m.piece)
<1>1. b \in Byte
  BY IdsOfIndexed, Zenon
<1> HIDE DEF b
<1>2. s \in Seq(Byte) /\ s # <<>> /\ Len(s) = 5 /\ s[1] = b /\ ReadU32(s, 1) = m.piece
  BY <1>1, NumberBytes, Zenon
<1>3. EncodeMessage(m) = s
  BY EncodesIndexed, Zenon DEF b
<1> HIDE DEF s
<1>4. Len(s) - 1 = 4
  BY <1>2
<1>5. DecodeMessage(s) = Accepted([type |-> m.type, piece |-> ReadU32(s, 1)])
  BY <1>2, <1>4, DecodesIndexed, Zenon DEF b
<1> QED
  BY <1>2, <1>3, <1>5, Zenon DEF Understood

\* and one that names a range,
LEMMA RangedUnderstood ==
  ASSUME NEW m, NEW r, m = [type |-> m.type, range |-> r], m.range = r,
         r = [piece |-> r.piece, offset |-> r.offset, len |-> r.len],
         m.type \in DOMAIN RangedId, r.piece \in U32, r.offset \in U32, r.len \in U32
  PROVE  Understood(m)
<1> DEFINE b == RangedId[m.type]
           w == BigEndian(r.len)
           s == Ranged(b, r.piece, r.offset, w)
<1>1. b \in Byte
  BY IdsOfRanged, Zenon
<1>2. w \in Seq(Byte) /\ Len(w) = 4
  BY BigEndianBytes, Zenon
<1> HIDE DEF b, w
<1>3. /\ s \in Seq(Byte) /\ s # <<>> /\ Len(s) = 9 + Len(w) /\ s[1] = b
      /\ ReadU32(s, 1) = r.piece /\ ReadU32(s, 5) = r.offset /\ Holds(s, 10, w)
  <2>1. IsRanged(s, b, r.piece, r.offset, w)
    BY <1>1, <1>2, RangeBytes, Zenon
  <2> HIDE DEF s
  <2> QED
    BY <2>1, Zenon DEF IsRanged
<1>4. EncodeMessage(m) = s
  BY EncodesRanged, Zenon DEF b, w
<1> HIDE DEF s
<1>5. Len(s) - 1 = 12 /\ 9 \in Nat /\ 9 + 1 = 10
  BY <1>2, <1>3
<1>6. ReadU32(s, 9) = r.len
  BY <1>3, <1>5, ReadU32Reads, Zenon DEF w
<1>7. RangeOf(s, ReadU32(s, 9)) = r
  BY <1>3, <1>6, Zenon DEF RangeOf
<1>8. DecodeMessage(s) = Accepted([type |-> m.type, range |-> RangeOf(s, ReadU32(s, 9))])
  BY <1>3, <1>5, DecodesRanged, Zenon DEF b
<1> QED
  BY <1>3, <1>4, <1>7, <1>8, Zenon DEF Understood

\* and a block,
LEMMA PieceUnderstood ==
  ASSUME NEW m, NEW r, m = [type |-> "Piece", range |-> r, data |-> m.data],
         m.type = "Piece", m.range = r,
         r = [piece |-> r.piece, offset |-> r.offset, len |-> r.len],
         r.piece \in U32, r.offset \in U32, m.data \in Seq(Byte), r.len = Len(m.data)
  PROVE  Understood(m)
<1> DEFINE w == m.data
           s == Ranged(7, r.piece, r.offset, w)
<1>1. 7 \in Byte /\ Len(w) \in Nat
  BY DEF Byte
<1>2. /\ s \in Seq(Byte) /\ s # <<>> /\ Len(s) = 9 + Len(w) /\ s[1] = 7
      /\ ReadU32(s, 1) = r.piece /\ ReadU32(s, 5) = r.offset /\ SubSeq(s, 10, Len(s)) = w
  <2>1. IsRanged(s, 7, r.piece, r.offset, w)
    BY <1>1, RangeBytes, Zenon
  <2> HIDE DEF s
  <2> QED
    BY <2>1, Zenon DEF IsRanged
<1>3. EncodeMessage(m) = s
  BY EncodesOther, Zenon
<1> HIDE DEF s
<1>4. Len(s) - 1 >= 8 /\ Len(s) - 1 - 8 = Len(w) /\ s[1] \in {5, 7, 20}
  BY <1>1, <1>2
<1>5. RangeOf(s, Len(s) - 1 - 8) = r
  BY <1>2, <1>4, Zenon DEF RangeOf
<1>6. DecodeMessage(s) = Accepted([type |-> "Piece", range |-> RangeOf(s, Len(s) - 1 - 8),
                                   data |-> SubSeq(s, 10, Len(s))])
  BY <1>2, <1>4, DecodesOther, Zenon
<1> QED
  BY <1>2, <1>3, <1>5, <1>6, Zenon DEF Understood

\* and a bitfield,
LEMMA BitfieldUnderstood ==
  ASSUME NEW w \in Seq(Byte)
  PROVE  LET m == [type |-> "Bitfield", bits |-> w]
         IN  Understood(m) /\ Len(EncodeMessage(m)) = 1 + Len(w)
<1> DEFINE m == [type |-> "Bitfield", bits |-> w]
           s == <<5>> \o w
<1>1. 5 \in Byte /\ m.type = "Bitfield" /\ m.bits = w
  BY DEF Byte
<1>2. s \in Seq(Byte) /\ s # <<>> /\ Len(s) = 1 + Len(w) /\ s[1] = 5 /\ Tail(s) = w
  BY <1>1, PayloadBytes, Zenon
<1>3. EncodeMessage(m) = s
  <2> HIDE DEF m
  <2> QED
    BY <1>1, EncodesOther, Zenon
<1> HIDE DEF s
<1>4. s[1] \in {5, 7, 20}
  BY <1>2
<1>5. DecodeMessage(s) = Accepted([type |-> "Bitfield", bits |-> Tail(s)])
  BY <1>2, <1>4, DecodesOther, Zenon
<1> QED
  BY <1>2, <1>3, <1>5, Zenon DEF Understood

\* and what is told by an extension.
LEMMA ExtensionUnderstood ==
  ASSUME NEW c \in Byte, c # 0, NEW w \in Seq(Byte)
  PROVE  Understood([type |-> "Extension", ext |-> c, payload |-> w])
<1> DEFINE m == [type |-> "Extension", ext |-> c, payload |-> w]
           s == <<20, c>> \o w
<1>1. 20 \in Byte /\ m.type = "Extension" /\ m.ext = c /\ m.payload = w /\ Len(w) \in Nat
  BY DEF Byte
<1>2. /\ s \in Seq(Byte) /\ s # <<>> /\ Len(s) = 2 + Len(w) /\ s[1] = 20 /\ s[2] = c
      /\ SubSeq(s, 3, Len(s)) = w
  <2>1. IsExtended(s, 20, c, w)
    BY <1>1, ExtensionBytes, Zenon
  <2> HIDE DEF s
  <2> QED
    BY <2>1, Zenon DEF IsExtended
<1>3. EncodeMessage(m) = s
  <2> HIDE DEF m
  <2> QED
    BY <1>1, EncodesOther, Zenon
<1> HIDE DEF s
<1>4. s[1] \in {5, 7, 20} /\ Len(s) - 1 # 0
  BY <1>1, <1>2
<1>5. DecodeMessage(s) = Accepted([type |-> "Extension", ext |-> s[2], payload |-> SubSeq(s, 3, Len(s))])
  BY <1>2, <1>4, DecodesOther, Zenon
<1> QED
  BY <1>2, <1>3, <1>5, Zenon DEF Understood

\* Nothing at all keeps the connection alive,
LEMMA DecodesNothing ==
  \A s : s = <<>> => DecodeMessage(s) = Accepted([type |-> "KeepAlive"])
BY Zenon DEF DecodeMessage

\* and is what that message is encoded as.
LEMMA KeepAliveUnderstood ==
  ASSUME NEW m, m = [type |-> "KeepAlive"]
  PROVE  Understood(m)
<1>1. m.type = "KeepAlive"
  OBVIOUS
<1>2. EncodeMessage(m) = <<>>
  BY <1>1, EncodesOther, Zenon
<1>3. DecodeMessage(<<>>) = Accepted([type |-> "KeepAlive"])
  BY DecodesNothing, Zenon
<1>4. <<>> \in Seq(Byte)
  OBVIOUS
<1> QED
  BY <1>2, <1>3, <1>4, Zenon DEF Understood

\* The extension handshake of this program is read back whole.
LEMMA OurExtensionsUnderstood ==
  Understood(OurExtensions) /\ Len(EncodeMessage(OurExtensions)) <= Huge
<1> DEFINE w == EncodeExtensions(OurExtensions)
           s == <<20, 0>> \o w
<1>1. w \in Seq(Byte) /\ Decode(w).ok /\ ExtensionsFrom(Decode(w).value) = OurExtensions
  BY ExtensionsRead, Zenon
<1>2. Len(w) + 2 <= Huge /\ Len(w) \in Nat
  BY <1>1, ExtensionsRead
<1> HIDE DEF w
<1>3. 20 \in Byte /\ 0 \in Byte
  BY DEF Byte
<1>4. OurExtensions.type = "ExtensionHandshake"
  BY DEF OurExtensions
<1>5. EncodeMessage(OurExtensions) = s
  BY <1>4, EncodesOther, Zenon DEF w
<1>6. /\ s \in Seq(Byte) /\ s # <<>> /\ Len(s) = 2 + Len(w) /\ s[1] = 20 /\ s[2] = 0
      /\ SubSeq(s, 3, Len(s)) = w
  <2>1. IsExtended(s, 20, 0, w)
    BY <1>1, <1>3, ExtensionBytes, Zenon
  <2> HIDE DEF s
  <2> QED
    BY <2>1, Zenon DEF IsExtended
<1> HIDE DEF s
<1>7. s[1] \in {5, 7, 20} /\ Len(s) - 1 # 0 /\ Len(s) <= Huge
  <2> HIDE DEF w
  <2>1. Huge \in Nat
    BY DEF Huge
  <2> QED
    BY <1>2, <1>6, <2>1
<1>8. DecodeMessage(s) = Accepted(ExtensionsFrom(Decode(SubSeq(s, 3, Len(s))).value))
  BY <1>1, <1>6, <1>7, DecodesOther, Zenon
<1> QED
  BY <1>1, <1>5, <1>6, <1>7, <1>8, Zenon DEF Understood

-----------------------------------------------------------------------------
\* Frames

\* A decoded message is one, or it is refused.
LEMMA DecodesPlainOr ==
  ASSUME NEW s \in Seq(Byte), s # <<>>, NEW t \in DOMAIN PlainId, s[1] = PlainId[t]
  PROVE  DecodeMessage(s) = Refused \/ DecodeMessage(s) = Accepted([type |-> t])
<1>1. {u \in DOMAIN PlainId : PlainId[u] = s[1]} = {t}
  BY IdsOfPlain, Zenon DEF IdsOf
<1>2. (CHOOSE u \in {t} : TRUE) = t
  BY OnlyOne, Zenon
<1>3. {u \in DOMAIN PlainId : PlainId[u] = s[1]} # {}
  BY <1>1, Zenon
<1>4. /\ {u \in DOMAIN IndexedId : IndexedId[u] = s[1]} = {}
      /\ {u \in DOMAIN RangedId : RangedId[u] = s[1]} = {}
  <2>1. IdsOf(IndexedId, s[1]) = {} /\ IdsOf(RangedId, s[1]) = {}
    BY IdsOfPlain, Zenon
  <2> QED
    BY <2>1, Zenon DEF IdsOf
<1>5. s[1] # 5 /\ s[1] # 7 /\ s[1] # 20
  BY IdsOfPlain
<1> QED
  BY <1>1, <1>2, <1>3, <1>4, <1>5, Zenon DEF DecodeMessage

\* Of any length, what has such an id is decoded as such a message or refused,
LEMMA DecodesIndexedOr ==
  ASSUME NEW s \in Seq(Byte), s # <<>>, NEW t \in DOMAIN IndexedId, s[1] = IndexedId[t]
  PROVE  \/ DecodeMessage(s) = Refused
         \/ DecodeMessage(s) = Accepted([type |-> t, piece |-> ReadU32(s, 1)])
<1>1. {u \in DOMAIN IndexedId : IndexedId[u] = s[1]} = {t}
  BY IdsOfIndexed, Zenon DEF IdsOf
<1>2. (CHOOSE u \in {t} : TRUE) = t
  BY OnlyOne, Zenon
<1>3. {u \in DOMAIN IndexedId : IndexedId[u] = s[1]} # {}
  BY <1>1, Zenon
<1>4. /\ {u \in DOMAIN PlainId : PlainId[u] = s[1]} = {}
      /\ {u \in DOMAIN RangedId : RangedId[u] = s[1]} = {}
  <2>1. IdsOf(PlainId, s[1]) = {} /\ IdsOf(RangedId, s[1]) = {}
    BY IdsOfIndexed, Zenon
  <2> QED
    BY <2>1, Zenon DEF IdsOf
<1>5. s[1] # 5 /\ s[1] # 7 /\ s[1] # 20
  BY IdsOfIndexed
<1> QED
  BY <1>1, <1>2, <1>3, <1>4, <1>5, Zenon DEF DecodeMessage

\* also one that names a range,
LEMMA DecodesRangedOr ==
  ASSUME NEW s \in Seq(Byte), s # <<>>, NEW t \in DOMAIN RangedId, s[1] = RangedId[t]
  PROVE  \/ DecodeMessage(s) = Refused
         \/ DecodeMessage(s) = Accepted([type |-> t, range |-> RangeOf(s, ReadU32(s, 9))])
<1>1. {u \in DOMAIN RangedId : RangedId[u] = s[1]} = {t}
  BY IdsOfRanged, Zenon DEF IdsOf
<1>2. (CHOOSE u \in {t} : TRUE) = t
  BY OnlyOne, Zenon
<1>3. {u \in DOMAIN RangedId : RangedId[u] = s[1]} # {}
  BY <1>1, Zenon
<1>4. /\ {u \in DOMAIN PlainId : PlainId[u] = s[1]} = {}
      /\ {u \in DOMAIN IndexedId : IndexedId[u] = s[1]} = {}
  <2>1. IdsOf(PlainId, s[1]) = {} /\ IdsOf(IndexedId, s[1]) = {}
    BY IdsOfRanged, Zenon
  <2> QED
    BY <2>1, Zenon DEF IdsOf
<1>5. s[1] # 5 /\ s[1] # 7 /\ s[1] # 20
  BY IdsOfRanged
<1> QED
  BY <1>1, <1>2, <1>3, <1>4, <1>5, Zenon DEF DecodeMessage

\* and the others,
LEMMA DecodesOtherOr ==
  ASSUME NEW s \in Seq(Byte), s # <<>>, s[1] \in {5, 7, 20}
  PROVE  DecodeMessage(s) = Refused \/ \E v : DecodeMessage(s) = Accepted(v)
<1>1. /\ {u \in DOMAIN PlainId : PlainId[u] = s[1]} = {}
      /\ {u \in DOMAIN IndexedId : IndexedId[u] = s[1]} = {}
      /\ {u \in DOMAIN RangedId : RangedId[u] = s[1]} = {}
  BY OtherIds, Zenon DEF IdsOf
<1>2. /\ s[1] = 5 => s[1] # 7 /\ s[1] # 20
      /\ s[1] = 7 => s[1] # 5 /\ s[1] # 20
      /\ s[1] = 20 => s[1] # 7 /\ s[1] # 5
  OBVIOUS
<1>3. s[1] = 7 => \/ DecodeMessage(s) = Refused
                  \/ DecodeMessage(s) = Accepted([type |-> "Piece", range |-> RangeOf(s, Len(s) - 1 - 8),
                                                  data |-> SubSeq(s, 10, Len(s))])
  BY <1>1, <1>2, Zenon DEF DecodeMessage
<1>4. s[1] = 20 =>
        \/ DecodeMessage(s) = Refused
        \/ DecodeMessage(s) = Accepted([type |-> "Extension", ext |-> s[2], payload |-> SubSeq(s, 3, Len(s))])
        \/ DecodeMessage(s) = Accepted(ExtensionsFrom(Decode(SubSeq(s, 3, Len(s))).value))
  BY <1>1, <1>2, Zenon DEF DecodeMessage
<1>5. s[1] = 5 => DecodeMessage(s) = Accepted([type |-> "Bitfield", bits |-> Tail(s)])
  BY DecodesOther, Zenon
<1>6. s[1] = 5 \/ s[1] = 7 \/ s[1] = 20
  OBVIOUS
<1> QED
  BY <1>3, <1>4, <1>5, <1>6, Zenon

\* and what has no known id is passed over.
LEMMA DecodesUnknown ==
  ASSUME NEW s \in Seq(Byte), s # <<>>, s[1] \notin {5, 7, 20},
         \A t \in DOMAIN PlainId : PlainId[t] # s[1],
         \A t \in DOMAIN IndexedId : IndexedId[t] # s[1],
         \A t \in DOMAIN RangedId : RangedId[t] # s[1]
  PROVE  DecodeMessage(s) = Accepted([type |-> "Unimplemented"])
<1>1. /\ {u \in DOMAIN PlainId : PlainId[u] = s[1]} = {}
      /\ {u \in DOMAIN IndexedId : IndexedId[u] = s[1]} = {}
      /\ {u \in DOMAIN RangedId : RangedId[u] = s[1]} = {}
  BY Zenon
<1>2. s[1] # 5 /\ s[1] # 7 /\ s[1] # 20
  OBVIOUS
<1> QED
  BY <1>1, <1>2, Zenon DEF DecodeMessage

\* So any frame of another program comes to a message or an error.
LEMMA DecodesOrRefuses ==
  ASSUME NEW s \in Seq(Byte), DecodeMessage(s).ok
  PROVE  DecodeMessage(s) = Accepted(DecodeMessage(s).value)
<1>1. DecodeMessage(s) = Refused \/ \E v : DecodeMessage(s) = Accepted(v)
  <2>1. CASE s = <<>>
    BY <2>1, DecodesNothing, Zenon
  <2>2. CASE s # <<>> /\ s[1] \in {5, 7, 20}
    BY <2>2, DecodesOtherOr, Zenon
  <2>3. CASE s # <<>> /\ \E t \in DOMAIN PlainId : PlainId[t] = s[1]
    BY <2>3, DecodesPlainOr, Zenon
  <2>4. CASE s # <<>> /\ \E t \in DOMAIN IndexedId : IndexedId[t] = s[1]
    BY <2>4, DecodesIndexedOr, Zenon
  <2>5. CASE s # <<>> /\ \E t \in DOMAIN RangedId : RangedId[t] = s[1]
    BY <2>5, DecodesRangedOr, Zenon
  <2>6. CASE /\ s # <<>> /\ s[1] \notin {5, 7, 20}
             /\ \A t \in DOMAIN PlainId : PlainId[t] # s[1]
             /\ \A t \in DOMAIN IndexedId : IndexedId[t] # s[1]
             /\ \A t \in DOMAIN RangedId : RangedId[t] # s[1]
    BY <2>6, DecodesUnknown, Zenon
  <2> QED
    BY <2>1, <2>2, <2>3, <2>4, <2>5, <2>6, Zenon
<1>2. DecodeMessage(s) # Refused
  <2>1. ~Refused.ok
    BY DEF Refused
  <2> QED
    BY <2>1, Zenon
<1>3. PICK v : DecodeMessage(s) = Accepted(v)
  BY <1>1, <1>2, Zenon
<1>4. Accepted(v).value = v
  BY DEF Accepted
<1> QED
  BY <1>3, <1>4, Zenon

-----------------------------------------------------------------------------
\* What a frame comes to when it is read: nothing, as it is too long, or a message
\* that tells what it was sent for, or none.
Payload(f) == SubSeq(f, 5, Len(f))
Carries(x) ==
  LET f == FrameOf(x)
  IN  /\ f \in Seq(Byte) /\ Len(f) >= 4
      /\ \/ ReadU32(f, 0) > MaxMessageSize
         \/ /\ ReadU32(f, 0) = Len(f) - 4
            /\ DecodeMessage(Payload(f)).ok => Tells(DecodeMessage(Payload(f)).value, x)

\* The header of a frame says how long it is, and the rest is what it was made of.
LEMMA FrameReads ==
  ASSUME NEW x \in Seq(Byte), Len(x) <= Huge
  PROVE  LET f == Frame(x)
         IN  /\ f \in Seq(Byte) /\ Len(f) >= 4 /\ ReadU32(f, 0) = Len(f) - 4
             /\ Payload(f) = x
<1> DEFINE n == Len(x)
           u == BigEndian(n)
           f == u \o x
<1>1. n \in U32 /\ n \in Nat
  <2>1. n \in Nat
    OBVIOUS
  <2> QED
    BY <2>1, U32Is, Zenon
<1>2. f = Frame(x)
  BY Zenon DEF Frame
<1>3. u \in Seq(Byte) /\ Len(u) = 4
  BY <1>1, BigEndianBytes, Zenon
<1>4. 1 \in Nat \ {0} /\ 0 \in Nat /\ 0 + 1 = 1
  OBVIOUS
<1> HIDE DEF u
<1>5. f \in Seq(Byte) /\ Len(f) = Len(u) + Len(x)
  BY <1>3, ConcatThree, Zenon
<1>6. Holds(f, 1, u) /\ Holds(f, 1 + Len(u), x)
  <2>1. Holds(f, 1, f)
    BY <1>5, HoldsWhole, Zenon
  <2> QED
    BY <1>3, <1>4, <1>5, <2>1, HoldsSplit, Zenon
<1> HIDE DEF f
<1>7. ReadU32(f, 0) = n
  BY <1>1, <1>4, <1>5, <1>6, ReadU32Reads, Zenon DEF u
<1> HIDE DEF n
<1>8. /\ 1 + Len(u) = 5 /\ 5 \in Nat \ {0} /\ 5 + Len(x) - 1 = Len(f) /\ Len(f) >= 4
      /\ n = Len(f) - 4
  BY <1>1, <1>3, <1>5 DEF n
<1>9. SubSeq(f, 5, 5 + Len(x) - 1) = x
  BY <1>5, <1>6, <1>8, HoldsCut, Zenon
<1>10. Payload(f) = x
  BY <1>8, <1>9, Zenon DEF Payload
<1> QED
  BY <1>2, <1>5, <1>7, <1>8, <1>10, Zenon

\* A message that is understood is told by its frame.
LEMMA MessageCarries ==
  ASSUME NEW x, ~IsRaw(x), Understood(Wire(x)), Len(EncodeMessage(Wire(x))) <= Huge,
         Tells(Wire(x), x)
  PROVE  Carries(x)
<1> DEFINE y == EncodeMessage(Wire(x))
           f == Frame(y)
<1>1. FrameOf(x) = f
  BY Zenon DEF FrameOf
<1>2. y \in Seq(Byte) /\ DecodeMessage(y) = Accepted(Wire(x))
  BY Zenon DEF Understood
<1>3. f \in Seq(Byte) /\ Len(f) >= 4 /\ ReadU32(f, 0) = Len(f) - 4 /\ Payload(f) = y
  BY <1>2, FrameReads, Zenon
<1>4. Accepted(Wire(x)).value = Wire(x)
  BY DEF Accepted
<1> HIDE DEF f, y
<1>5. DecodeMessage(Payload(f)).value = Wire(x)
  BY <1>2, <1>3, <1>4, Zenon
<1> QED
  BY <1>1, <1>3, <1>5, Zenon DEF Carries

\* A frame of another program.
LEMMA RawCarries ==
  ASSUME NEW x \in RawFrames
  PROVE  Carries(x)
<1>1. DOMAIN x = {"raw", "tells"} /\ IsFrame(x)
  BY StreamAssumption, Zenon
<1>2. IsRaw(x) /\ FrameOf(x) = x.raw
  BY <1>1, Zenon DEF IsRaw, FrameOf
<1>3. x.raw \in Seq(Byte) /\ Len(x.raw) >= 4
  BY <1>1, Zenon DEF IsFrame
<1>4. ASSUME ReadU32(x.raw, 0) = Len(x.raw) - 4,
             x.tells = DecodeMessage(SubSeq(x.raw, 5, Len(x.raw)))
      PROVE  /\ ReadU32(x.raw, 0) = Len(x.raw) - 4
             /\ DecodeMessage(Payload(x.raw)).ok =>
                  Tells(DecodeMessage(Payload(x.raw)).value, x)
  <2> DEFINE p == Payload(x.raw)
  <2>1. p \in Seq(Byte)
    BY <1>3 DEF Payload
  <2>2. x.tells = DecodeMessage(p)
    BY <1>4, Zenon DEF Payload
  <2> HIDE DEF p
  <2>3. DecodeMessage(p).ok => x.tells = Accepted(DecodeMessage(p).value)
    BY <2>1, <2>2, DecodesOrRefuses, Zenon
  <2> QED
    BY <1>2, <1>4, <2>3, Zenon DEF p, Tells
<1> QED
  BY <1>1, <1>2, <1>3, <1>4, Zenon DEF IsFrame, Carries

-----------------------------------------------------------------------------
\* The messages of this program

\* A message is told by what it says of itself, and of no piece.
Plain(m) == "type" \in DOMAIN m /\ ~IsSummary(m) /\ Told(m) = {}

\* A message is no frame of another program.
LEMMA NotRaw ==
  ASSUME NEW m, "type" \in DOMAIN m
  PROVE  ~IsRaw(m)
<1>1. "type" \notin {"raw", "tells"}
  OBVIOUS
<1> QED
  BY <1>1, Zenon DEF IsRaw

\* Most messages say nothing of the pieces there are.
LEMMA PlainIs ==
  ASSUME NEW m, "type" \in DOMAIN m, m.type \notin {"Bitfield", "HaveAll", "HaveNone", "Have"}
  PROVE  Plain(m)
<1>1. m.type # "Bitfield" /\ m.type # "HaveAll" /\ m.type # "HaveNone" /\ m.type # "Have"
  OBVIOUS
<1>2. ~IsSummary(m)
  BY DEF IsSummary
<1>3. Told(m) = {}
  BY <1>1, Zenon DEF Told
<1> QED
  BY <1>2, <1>3, Zenon DEF Plain

\* What is told under its own name.
LEMMA TellsItself ==
  ASSUME NEW m, "type" \in DOMAIN m, m.type \notin {"ut_metadata", "ut_pex"}
  PROVE  Wire(m) = m /\ Tells(m, m)
<1>1. m.type # "ut_metadata" /\ m.type # "ut_pex" /\ ~IsRaw(m)
  BY NotRaw
<1>2. Wire(m) = m
  BY <1>1, Zenon DEF Wire
<1>3. Tells(m, m)
  BY <1>1, Zenon DEF Tells
<1> QED
  BY <1>2, <1>3, Zenon

\* What is understood and tells what was meant.
Means(m) == Understood(Wire(m)) /\ Tells(Wire(m), m) /\ Plain(m)

\* Messages of a type only mean what they say,
LEMMA TypeMeans ==
  ASSUME NEW m \in [type : {"KeepAlive", "Choke", "Unchoke", "Interested", "NotInterested"}]
  PROVE  Means(m)
<1>1. /\ m = [type |-> m.type] /\ "type" \in DOMAIN m
      /\ m.type \in {"KeepAlive", "Choke", "Unchoke", "Interested", "NotInterested"}
  OBVIOUS
<1>2. m.type \notin {"ut_metadata", "ut_pex", "Bitfield", "HaveAll", "HaveNone", "Have"}
  BY <1>1
<1>3. Understood(m)
  <2>1. CASE m.type = "KeepAlive"
    BY <1>1, <2>1, KeepAliveUnderstood, Zenon
  <2>2. CASE m.type # "KeepAlive"
    <3>1. m.type \in DOMAIN PlainId
      BY <1>1, <2>2, PlainIds
    <3> QED
      BY <1>1, <3>1, PlainUnderstood, Zenon
  <2> QED
    BY <2>1, <2>2, Zenon
<1>4. Wire(m) = m /\ Tells(m, m)
  <2>1. m.type \notin {"ut_metadata", "ut_pex"}
    BY <1>2
  <2> QED
    BY <1>1, <2>1, TellsItself, Zenon
<1>5. Plain(m)
  <2>1. m.type \notin {"Bitfield", "HaveAll", "HaveNone", "Have"}
    BY <1>2
  <2> QED
    BY <1>1, <2>1, PlainIs, Zenon
<1> QED
  BY <1>3, <1>4, <1>5, Zenon DEF Means

\* those that name a piece too,
LEMMA PieceNameMeans ==
  ASSUME NEW m \in [type : {"SuggestPiece", "AllowedFast"}, piece : U32]
  PROVE  Means(m)
<1>1. /\ m = [type |-> m.type, piece |-> m.piece] /\ "type" \in DOMAIN m
      /\ m.type \in {"SuggestPiece", "AllowedFast"} /\ m.piece \in U32
  OBVIOUS
<1>2. /\ m.type \notin {"ut_metadata", "ut_pex"}
      /\ m.type \notin {"Bitfield", "HaveAll", "HaveNone", "Have"}
  BY <1>1
<1>3. m.type \in DOMAIN IndexedId
  BY <1>1, IndexedIds
<1>4. Understood(m)
  BY <1>1, <1>3, IndexedUnderstood, Zenon
<1>5. Wire(m) = m /\ Tells(m, m)
  BY <1>1, <1>2, TellsItself, Zenon
<1>6. Plain(m)
  BY <1>1, <1>2, PlainIs, Zenon
<1> QED
  BY <1>4, <1>5, <1>6, Zenon DEF Means

\* (what a range is made of)
LEMMA RangeIs ==
  ASSUME NEW r \in RequestedRange
  PROVE  /\ r = [piece |-> r.piece, offset |-> r.offset, len |-> r.len]
         /\ r.piece \in U32 /\ r.offset \in U32 /\ r.len \in U32
BY DEF RequestedRange

\* those that name a range,
LEMMA RangeMeans ==
  ASSUME NEW m \in [type : {"Request", "Cancel", "RejectRequest"}, range : RequestedRange]
  PROVE  Means(m)
<1>1. /\ m = [type |-> m.type, range |-> m.range] /\ "type" \in DOMAIN m
      /\ m.type \in {"Request", "Cancel", "RejectRequest"} /\ m.range \in RequestedRange
  OBVIOUS
<1>2. /\ m.type \notin {"ut_metadata", "ut_pex"}
      /\ m.type \notin {"Bitfield", "HaveAll", "HaveNone", "Have"}
  BY <1>1
<1>3. m.type \in DOMAIN RangedId
  BY <1>1, RangedIds
<1>4. Understood(m)
  <2> DEFINE r == m.range
  <2>1. /\ r = [piece |-> r.piece, offset |-> r.offset, len |-> r.len]
        /\ r.piece \in U32 /\ r.offset \in U32 /\ r.len \in U32
    BY <1>1, RangeIs, Zenon
  <2>2. m = [type |-> m.type, range |-> r] /\ m.range = r
    BY <1>1, Zenon
  <2> HIDE DEF r
  <2> QED
    BY <1>3, <2>1, <2>2, RangedUnderstood, Zenon
<1>5. Wire(m) = m /\ Tells(m, m)
  BY <1>1, <1>2, TellsItself, Zenon
<1>6. Plain(m)
  BY <1>1, <1>2, PlainIs, Zenon
<1> QED
  BY <1>4, <1>5, <1>6, Zenon DEF Means

\* a block as long as its range,
LEMMA BlockMeans ==
  ASSUME NEW m \in [type : {"Piece"}, range : RequestedRange, data : Seq(Byte)],
         m.range.len = Len(m.data)
  PROVE  Means(m)
<1>1. /\ m = [type |-> "Piece", range |-> m.range, data |-> m.data] /\ "type" \in DOMAIN m
      /\ m.type = "Piece" /\ m.range \in RequestedRange /\ m.data \in Seq(Byte)
  OBVIOUS
<1>2. /\ m.type \notin {"ut_metadata", "ut_pex"}
      /\ m.type \notin {"Bitfield", "HaveAll", "HaveNone", "Have"}
  BY <1>1
<1>3. Understood(m)
  <2> DEFINE r == m.range
  <2>1. /\ r = [piece |-> r.piece, offset |-> r.offset, len |-> r.len]
        /\ r.piece \in U32 /\ r.offset \in U32
    BY <1>1, RangeIs, Zenon
  <2>2. /\ m = [type |-> "Piece", range |-> r, data |-> m.data] /\ m.range = r
        /\ r.len = Len(m.data)
    BY <1>1, Zenon
  <2> HIDE DEF r
  <2> QED
    BY <1>1, <2>1, <2>2, PieceUnderstood, Zenon
<1>5. Wire(m) = m /\ Tells(m, m)
  BY <1>1, <1>2, TellsItself, Zenon
<1>6. Plain(m)
  BY <1>1, <1>2, PlainIs, Zenon
<1> QED
  BY <1>3, <1>5, <1>6, Zenon DEF Means

\* What is told as an extension message.
LEMMA MetadataMeans ==
  ASSUME NEW m \in [type : {"ut_metadata"}, message : MetadataMessage]
  PROVE  Means(m)
<1> DEFINE w == EncodeMetadata(m.message)
           g == [type |-> "Extension", ext |-> 1, payload |-> w]
<1>1. "type" \in DOMAIN m /\ m.type = "ut_metadata" /\ m.message \in MetadataMessage
  OBVIOUS
<1>2. m.type \notin {"Bitfield", "HaveAll", "HaveNone", "Have"} /\ m.type # "ut_pex"
  BY <1>1
<1>3. w \in Seq(Byte) /\ DecodeMetadata(w) = Accepted(m.message)
  BY <1>1, MetadataReads, Zenon
<1> HIDE DEF w
<1>4. Wire(m) = g
  BY <1>1, <1>2, Zenon DEF Wire, w
<1>5. Understood(g)
  <2>1. 1 \in Byte /\ 1 # 0
    BY DEF Byte
  <2> QED
    BY <1>3, <2>1, ExtensionUnderstood, Zenon
<1>6. g.type = "Extension" /\ g.ext = 1 /\ g.payload = w
  OBVIOUS
<1>7. ~IsRaw(m)
  BY <1>1, NotRaw, Zenon
<1> HIDE DEF g
<1>8. Tells(g, m)
  BY <1>1, <1>2, <1>3, <1>6, <1>7, Zenon DEF Tells
<1>9. Plain(m)
  BY <1>1, <1>2, PlainIs, Zenon
<1> QED
  BY <1>4, <1>5, <1>8, <1>9, Zenon DEF Means

\* and the peers told of by an exchange.
LEMMA PexMeans ==
  ASSUME NEW m \in [type : {"ut_pex"}, message : PexMessage],
         IsFiniteSet(m.message.addrs), m.message.addrs # {}
  PROVE  Means(m)
<1> DEFINE w == EncodePex(m.message)
           g == [type |-> "Extension", ext |-> 2, payload |-> w]
<1>1. "type" \in DOMAIN m /\ m.type = "ut_pex" /\ m.message \in PexMessage
  OBVIOUS
<1>2. m.type \notin {"Bitfield", "HaveAll", "HaveNone", "Have"} /\ m.type # "ut_metadata"
  BY <1>1
<1>3. w \in Seq(Byte) /\ DecodePex(w) = Accepted([m.message EXCEPT !.addrs = AsRead(@)])
  BY <1>1, PexReads, Zenon
<1> HIDE DEF w
<1>4. Wire(m) = g
  BY <1>1, <1>2, Zenon DEF Wire, w
<1>5. Understood(g)
  <2>1. 2 \in Byte /\ 2 # 0
    BY DEF Byte
  <2> QED
    BY <1>3, <2>1, ExtensionUnderstood, Zenon
<1>6. g.type = "Extension" /\ g.ext = 2 /\ g.payload = w
  OBVIOUS
<1>7. ~IsRaw(m)
  BY <1>1, NotRaw, Zenon
<1> HIDE DEF g
<1>8. Tells(g, m)
  BY <1>1, <1>2, <1>3, <1>6, <1>7, Zenon DEF Tells
<1>9. Plain(m)
  BY <1>1, <1>2, PlainIs, Zenon
<1> QED
  BY <1>4, <1>5, <1>8, <1>9, Zenon DEF Means

\* Every message this program may send is read as what it means (Message::decode of
\* Message::encode), whatever its numbers and its data; and a peer exchange, whatever
\* its IPv4 and IPv6 addresses, as the peers AsRead says: an IPv6 address never as
\* itself but always as three of IPv4, for that is how parse_socket_addrs takes it.
THEOREM SayableMeans ==
  ASSUME NEW m, IsSayable(m)
  PROVE  Means(m)
<1> DEFINE M1 == [type : {"KeepAlive", "Choke", "Unchoke", "Interested", "NotInterested"}]
           M2 == [type : {"SuggestPiece", "AllowedFast"}, piece : U32]
           M3 == [type : {"Request", "Cancel", "RejectRequest"}, range : RequestedRange]
           M4 == [type : {"Piece"}, range : RequestedRange, data : Seq(Byte)]
           M5 == [type : {"ut_metadata"}, message : MetadataMessage]
           M6 == [type : {"ut_pex"}, message : PexMessage]
<1>1. /\ m.type = "Piece" => m.range.len = Len(m.data)
      /\ m.type = "ut_pex" => IsFiniteSet(m.message.addrs) /\ m.message.addrs # {}
  BY Zenon DEF IsSayable
<1>2. m \in M1 \/ m \in M2 \/ m \in M3 \/ m \in M4 \/ m \in M5 \/ m \in M6
  <2>1. m \in Message
    BY Zenon DEF IsSayable
  <2> HIDE DEF M1, M2, M3, M4, M5, M6
  <2>2. Message = ((((M1 \cup M2) \cup M3) \cup M4) \cup M5) \cup M6
    BY Zenon DEF Message, M1, M2, M3, M4, M5, M6
  <2> QED
    BY <2>1, <2>2, Zenon
<1>3. m \in M4 => m.type = "Piece"
  OBVIOUS
<1>4. m \in M6 => m.type = "ut_pex"
  OBVIOUS
<1>5. m \in M1 => Means(m)
  BY TypeMeans, Zenon
<1>6. m \in M2 => Means(m)
  BY PieceNameMeans, Zenon
<1>7. m \in M3 => Means(m)
  BY RangeMeans, Zenon
<1>8. m \in M4 => Means(m)
  BY <1>1, <1>3, BlockMeans, Zenon
<1>9. m \in M5 => Means(m)
  BY MetadataMeans, Zenon
<1>10. m \in M6 => Means(m)
  BY <1>1, <1>4, PexMeans, Zenon
<1> HIDE DEF M1, M2, M3, M4, M5, M6
<1> QED
  BY <1>2, <1>5, <1>6, <1>7, <1>8, <1>9, <1>10, Zenon

\* So it is told by its frame, and says nothing of pieces.
LEMMA SayableCarries ==
  ASSUME NEW m, IsSayable(m)
  PROVE  Carries(m) /\ Plain(m) /\ ~IsRaw(m)
<1>1. Understood(Wire(m)) /\ Tells(Wire(m), m) /\ Plain(m)
  BY SayableMeans, Zenon DEF Means
<1>2. Len(EncodeMessage(Wire(m))) <= Huge
  BY Zenon DEF IsSayable
<1>3. ~IsRaw(m)
  BY <1>1, NotRaw, Zenon DEF Plain
<1> QED
  BY <1>1, <1>2, <1>3, MessageCarries, Zenon

-----------------------------------------------------------------------------
\* What is sent

Bits == [1 .. (NumPieces + 7) \div 8 -> Byte]
Introduction == [type : {"HaveAll", "HaveNone"}] \cup [type : {"Bitfield"}, bits : Bits]
News == [type : {"Have"}, piece : Piece]
Spoken == UNION {Talk[e] : e \in End}
Sendable == Spoken \cup RawFrames \cup {OurExtensions} \cup Introduction \cup News

\* What the ends are given to say is told by its frame.
LEMMA SpokenCarries ==
  ASSUME NEW e \in End, NEW m \in Talk[e]
  PROVE  Carries(m) /\ Plain(m) /\ ~IsRaw(m) /\ m \in Sendable
<1>1. IsSayable(m)
  BY StreamAssumption, Zenon
<1>2. m \in Sendable
  BY Zenon DEF Sendable, Spoken
<1> QED
  BY <1>1, <1>2, SayableCarries, Zenon

\* These messages are no extension messages.
LEMMA TypeNotUt ==
  ASSUME NEW m, m.type \in {"HaveAll", "HaveNone", "Bitfield", "Have", "ExtensionHandshake"}
  PROVE  m.type \notin {"ut_metadata", "ut_pex"}
OBVIOUS

\* A message of this program, told under its own name.
LEMMA NamedCarries ==
  ASSUME NEW m, "type" \in DOMAIN m,
         m.type \in {"HaveAll", "HaveNone", "Bitfield", "Have", "ExtensionHandshake"},
         Understood(m), Len(EncodeMessage(m)) <= Huge
  PROVE  Carries(m) /\ ~IsRaw(m)
<1>1. Wire(m) = m /\ Tells(m, m)
  BY TypeNotUt, TellsItself, Zenon
<1>2. ~IsRaw(m)
  BY NotRaw, Zenon
<1> QED
  BY <1>1, <1>2, MessageCarries, Zenon

\* The extension handshake is told by its frame,
LEMMA ExtensionsCarry ==
  Carries(OurExtensions) /\ Plain(OurExtensions) /\ ~IsRaw(OurExtensions)
<1> DEFINE m == OurExtensions
<1>1. "type" \in DOMAIN m /\ m.type = "ExtensionHandshake"
  BY DEF OurExtensions
<1> HIDE DEF m
<1>2. m.type \in {"HaveAll", "HaveNone", "Bitfield", "Have", "ExtensionHandshake"}
  BY <1>1
<1>3. Understood(m) /\ Len(EncodeMessage(m)) <= Huge
  BY OurExtensionsUnderstood, Zenon DEF m
<1>4. m.type \notin {"Bitfield", "HaveAll", "HaveNone", "Have"}
  BY <1>1
<1>5. Carries(m) /\ ~IsRaw(m)
  BY <1>1, <1>2, <1>3, NamedCarries, Zenon
<1>6. Plain(m)
  BY <1>1, <1>4, PlainIs, Zenon
<1> QED
  BY <1>5, <1>6, Zenon DEF m

\* That there are some pieces, and not too many.
LEMMA PieceNumbers ==
  /\ NumPieces \in Nat /\ NumPieces >= 1
  /\ \A p \in Piece : p \in U32
  /\ (NumPieces + 7) \div 8 \in Nat /\ 1 + (NumPieces + 7) \div 8 <= Huge
<1>1. NumPieces \in Nat /\ NumPieces >= 1
  BY TorrentAssumption DEF GeometryAssumption
<1>2. NumPieces <= Huge
  BY StreamAssumption, Zenon
<1>3. Huge \in Nat /\ Huge >= 100
  BY DEF Huge
<1>4. \A p \in Piece : p \in Nat /\ p <= Huge
  BY <1>1, <1>2, <1>3 DEF Piece
<1>5. (NumPieces + 7) \div 8 \in Nat /\ 1 + (NumPieces + 7) \div 8 <= Huge
  BY <1>1, <1>2, <1>3
<1> QED
  BY <1>1, <1>4, <1>5, U32Is, Zenon

\* what says which pieces there are is,
LEMMA IntroductionCarries ==
  ASSUME NEW m \in Introduction
  PROVE  Carries(m) /\ ~IsRaw(m) /\ IsSummary(m)
<1> DEFINE M1 == [type : {"HaveAll", "HaveNone"}]
           M2 == [type : {"Bitfield"}, bits : Bits]
<1>1. ASSUME m \in M1 PROVE Carries(m) /\ ~IsRaw(m) /\ IsSummary(m)
  <2>1. m = [type |-> m.type] /\ "type" \in DOMAIN m /\ m.type \in {"HaveAll", "HaveNone"}
    BY <1>1
  <2> HIDE DEF M1
  <2>2. m.type \in {"HaveAll", "HaveNone", "Bitfield", "Have", "ExtensionHandshake"}
    BY <2>1
  <2>3. m.type \in DOMAIN PlainId
    BY <2>1, PlainIds
  <2>4. Understood(m)
    BY <2>1, <2>3, PlainUnderstood, Zenon
  <2>5. Len(EncodeMessage(m)) <= Huge
    <3>1. EncodeMessage(m) = <<PlainId[m.type]>>
      BY <2>3, EncodesPlain, Zenon
    <3> QED
      BY <3>1 DEF Huge
  <2>6. IsSummary(m)
    BY <2>1 DEF IsSummary
  <2> QED
    BY <2>1, <2>2, <2>4, <2>5, <2>6, NamedCarries, Zenon
<1>2. ASSUME m \in M2 PROVE Carries(m) /\ ~IsRaw(m) /\ IsSummary(m)
  <2> DEFINE w == m.bits
  <2>1. m = [type |-> "Bitfield", bits |-> w] /\ "type" \in DOMAIN m /\ m.type = "Bitfield"
    BY <1>2
  <2>2. m.bits \in Bits
    BY <1>2
  <2> HIDE DEF M2
  <2>3. w \in Seq(Byte) /\ 1 + Len(w) <= Huge
    <3> DEFINE n == (NumPieces + 7) \div 8
    <3>1. n \in Nat /\ 1 + n <= Huge
      BY PieceNumbers
    <3>2. w \in [1 .. n -> Byte]
      BY <2>2, Zenon DEF Bits
    <3> HIDE DEF n, w
    <3>3. w \in Seq(Byte) /\ Len(w) = n
      BY <3>1, <3>2, FixedLength, Zenon
    <3> QED
      BY <3>1, <3>3, Zenon
  <2> HIDE DEF w
  <2>4. Understood(m) /\ Len(EncodeMessage(m)) = 1 + Len(w)
    BY <2>1, <2>3, BitfieldUnderstood, Zenon
  <2>5. m.type \in {"HaveAll", "HaveNone", "Bitfield", "Have", "ExtensionHandshake"}
    BY <2>1
  <2>6. IsSummary(m)
    BY <2>1 DEF IsSummary
  <2> QED
    BY <2>1, <2>3, <2>4, <2>5, <2>6, NamedCarries, Zenon
<1> HIDE DEF M1, M2
<1>3. m \in M1 \/ m \in M2
  BY Zenon DEF Introduction, M1, M2
<1> QED
  BY <1>1, <1>2, <1>3, Zenon

\* and what says that there is one more.
LEMMA NewsCarry ==
  ASSUME NEW m \in News
  PROVE  Carries(m) /\ ~IsRaw(m) /\ ~IsSummary(m) /\ Told(m) = {m.piece}
<1>1. /\ m = [type |-> m.type, piece |-> m.piece] /\ "type" \in DOMAIN m /\ m.type = "Have"
      /\ m.piece \in Piece
  BY DEF News
<1>2. m.piece \in U32
  BY <1>1, PieceNumbers, Zenon
<1>3. m.type \in DOMAIN IndexedId
  BY <1>1, IndexedIds
<1>4. m.type \in {"HaveAll", "HaveNone", "Bitfield", "Have", "ExtensionHandshake"}
  BY <1>1
<1>5. Understood(m)
  BY <1>1, <1>2, <1>3, IndexedUnderstood, Zenon
<1>6. Len(EncodeMessage(m)) <= Huge
  <2>1. EncodeMessage(m) = <<IndexedId[m.type]>> \o BigEndian(m.piece)
    BY <1>3, EncodesIndexed, Zenon
  <2>2. IndexedId[m.type] \in Byte
    BY <1>3, IdsOfIndexed, Zenon
  <2>3. Len(<<IndexedId[m.type]>> \o BigEndian(m.piece)) = 5
    <3> DEFINE b == IndexedId[m.type]
               p == m.piece
    <3>1. b \in Byte /\ p \in U32
      BY <1>2, <2>2
    <3> HIDE DEF b, p
    <3>2. Len(<<b>> \o BigEndian(p)) = 5
      BY <3>1, NumberBytes
    <3> QED
      BY <3>2, Zenon DEF b, p
  <2>4. Len(EncodeMessage(m)) = 5
    BY <2>1, <2>3, Zenon
  <2>5. Huge >= 5
    BY DEF Huge
  <2> QED
    BY <2>4, <2>5
<1>7. ~IsSummary(m)
  BY <1>1 DEF IsSummary
<1>8. Told(m) = {m.piece}
  <2>1. m.type # "Bitfield" /\ m.type = "Have" /\ m.type # "HaveAll"
    BY <1>1
  <2> QED
    BY <2>1, Zenon DEF Told
<1> QED
  BY <1>1, <1>4, <1>5, <1>6, <1>7, <1>8, NamedCarries, Zenon

\* All that is sent can be read: this is why the two ends stay in step.
LEMMA SendableCarries ==
  ASSUME NEW x \in Sendable
  PROVE  Carries(x)
<1>1. x \in Spoken => Carries(x)
  BY SpokenCarries, Zenon DEF Spoken
<1>2. x \in RawFrames => Carries(x)
  BY RawCarries, Zenon
<1>3. x \in {OurExtensions} => Carries(x)
  BY ExtensionsCarry, Zenon
<1>4. x \in Introduction => Carries(x)
  BY IntroductionCarries, Zenon
<1>5. x \in News => Carries(x)
  BY NewsCarry, Zenon
<1> QED
  BY <1>1, <1>2, <1>3, <1>4, <1>5, Zenon DEF Sendable

\* All of them may be sent.
LEMMA AllSendable ==
  /\ RawFrames \subseteq Sendable /\ OurExtensions \in Sendable
  /\ Introduction \subseteq Sendable /\ News \subseteq Sendable
BY Zenon DEF Sendable

\* The frame of what is sent has a header,
LEMMA SendableFrame ==
  ASSUME NEW x \in Sendable
  PROVE  FrameOf(x) \in Seq(Byte) /\ Len(FrameOf(x)) >= 4 /\ Len(FrameOf(x)) \in Nat
<1>1. FrameOf(x) \in Seq(Byte) /\ Len(FrameOf(x)) >= 4
  BY SendableCarries, Zenon DEF Carries
<1> QED
  BY <1>1

\* and so have those one after the other.
LEMMA SentFramed ==
  ASSUME NEW q \in Seq(Sendable)
  PROVE  Framed(q)
<1>1. \A i \in 1 .. Len(q) : q[i] \in Sendable
  OBVIOUS
<1> QED
  BY <1>1, SendableFrame, Zenon DEF Framed

-----------------------------------------------------------------------------
\* The handshake

\* Five strings of bytes in one, and where they are.
Five(a, b, c, d, e) == (((a \o b) \o c) \o d) \o e
IsFive(s, a, b, c, d, e) ==
  /\ s \in Seq(Byte) /\ Len(s) = 68
  /\ s[1] = a[1] /\ SubSeq(s, 2, 20) = b
  /\ s[26] = c[6] /\ s[28] = c[8]
  /\ SubSeq(s, 29, 48) = d /\ SubSeq(s, 49, 68) = e
HandshakeLengths(a, b, c, d, e) ==
  Len(a) = 1 /\ Len(b) = 19 /\ Len(c) = 8 /\ Len(d) = 20 /\ Len(e) = 20

\* Two byte strings one after the other.
LEMMA Joined ==
  ASSUME NEW u \in Seq(Byte), NEW v \in Seq(Byte)
  PROVE  u \o v \in Seq(Byte) /\ Len(u \o v) = Len(u) + Len(v)
BY ConcatThree, Zenon

\* Five byte strings, one after the other, each of which is where its predecessors end.
IsJoined(a, b, c, d, e) ==
  LET s  == Five(a, b, c, d, e)
      s1 == a \o b
      s2 == s1 \o c
      s3 == s2 \o d
  IN  /\ s \in Seq(Byte) /\ Len(s) = Len(s3) + Len(e) /\ Len(s3) = Len(s2) + Len(d)
      /\ Len(s2) = Len(s1) + Len(c) /\ Len(s1) = Len(a) + Len(b)
      /\ Holds(s, 1, a) /\ Holds(s, 1 + Len(s1), c)
      /\ SubSeq(s, 1 + Len(a), 1 + Len(a) + Len(b) - 1) = b
      /\ SubSeq(s, 1 + Len(s2), 1 + Len(s2) + Len(d) - 1) = d
      /\ SubSeq(s, 1 + Len(s3), 1 + Len(s3) + Len(e) - 1) = e

\* Which they are.
LEMMA FiveJoined ==
  ASSUME NEW a \in Seq(Byte), NEW b \in Seq(Byte), NEW c \in Seq(Byte), NEW d \in Seq(Byte),
         NEW e \in Seq(Byte)
  PROVE  IsJoined(a, b, c, d, e)
<1> DEFINE s1 == a \o b
           s2 == s1 \o c
           s3 == s2 \o d
           s == s3 \o e
<1>1. s = Five(a, b, c, d, e)
  BY Zenon DEF Five
<1>2. s1 \in Seq(Byte) /\ Len(s1) = Len(a) + Len(b)
  BY Joined, Zenon
<1>3. s2 \in Seq(Byte) /\ Len(s2) = Len(s1) + Len(c)
  <2> HIDE DEF s1
  <2> QED
    BY <1>2, Joined, Zenon
<1>4. s3 \in Seq(Byte) /\ Len(s3) = Len(s2) + Len(d)
  <2> HIDE DEF s2
  <2> QED
    BY <1>3, Joined, Zenon
<1>5. s \in Seq(Byte) /\ Len(s) = Len(s3) + Len(e)
  <2> HIDE DEF s3
  <2> QED
    BY <1>4, Joined, Zenon
<1> HIDE DEF s1, s2, s3, s
<1>6. 1 \in Nat \ {0}
  OBVIOUS
<1>7. Holds(s, 1, s3) /\ Holds(s, 1 + Len(s3), e) /\ 1 + Len(s3) \in Nat \ {0}
  <2>1. Holds(s, 1, s)
    BY <1>5, HoldsWhole, Zenon
  <2>2. Holds(s, 1, s3 \o e)
    BY <2>1, Zenon DEF s
  <2> QED
    BY <1>4, <1>5, <1>6, <2>2, HoldsSplit, Zenon
<1>8. Holds(s, 1, s2) /\ Holds(s, 1 + Len(s2), d) /\ 1 + Len(s2) \in Nat \ {0}
  <2>1. Holds(s, 1, s2 \o d)
    BY <1>7, Zenon DEF s3
  <2> QED
    BY <1>3, <1>5, <1>6, <2>1, HoldsSplit, Zenon
<1>9. Holds(s, 1, s1) /\ Holds(s, 1 + Len(s1), c)
  <2>1. Holds(s, 1, s1 \o c)
    BY <1>8, Zenon DEF s2
  <2> QED
    BY <1>2, <1>5, <1>6, <2>1, HoldsSplit, Zenon
<1>10. Holds(s, 1, a) /\ Holds(s, 1 + Len(a), b) /\ 1 + Len(a) \in Nat \ {0}
  <2>1. Holds(s, 1, a \o b)
    BY <1>9, Zenon DEF s1
  <2> QED
    BY <1>5, <1>6, <2>1, HoldsSplit, Zenon
<1>11. SubSeq(s, 1 + Len(a), 1 + Len(a) + Len(b) - 1) = b
  BY <1>5, <1>10, HoldsCut, Zenon
<1>12. SubSeq(s, 1 + Len(s2), 1 + Len(s2) + Len(d) - 1) = d
  BY <1>5, <1>8, HoldsCut, Zenon
<1>13. SubSeq(s, 1 + Len(s3), 1 + Len(s3) + Len(e) - 1) = e
  BY <1>5, <1>7, HoldsCut, Zenon
<1> QED
  BY <1>1, <1>2, <1>3, <1>4, <1>5, <1>9, <1>10, <1>11, <1>12, <1>13, Zenon DEF IsJoined, s1, s2, s3

\* Where they are if they have the lengths of a handshake's parts.
LEMMA FiveParts ==
  ASSUME NEW a \in Seq(Byte), NEW b \in Seq(Byte), NEW c \in Seq(Byte), NEW d \in Seq(Byte),
         NEW e \in Seq(Byte), HandshakeLengths(a, b, c, d, e)
  PROVE  IsFive(Five(a, b, c, d, e), a, b, c, d, e)
<1> DEFINE s  == Five(a, b, c, d, e)
           s1 == a \o b
           s2 == s1 \o c
           s3 == s2 \o d
<1>1. /\ s \in Seq(Byte) /\ Len(s) = Len(s3) + Len(e) /\ Len(s3) = Len(s2) + Len(d)
      /\ Len(s2) = Len(s1) + Len(c) /\ Len(s1) = Len(a) + Len(b)
      /\ Holds(s, 1, a) /\ Holds(s, 1 + Len(s1), c)
      /\ SubSeq(s, 1 + Len(a), 1 + Len(a) + Len(b) - 1) = b
      /\ SubSeq(s, 1 + Len(s2), 1 + Len(s2) + Len(d) - 1) = d
      /\ SubSeq(s, 1 + Len(s3), 1 + Len(s3) + Len(e) - 1) = e
  <2>1. IsJoined(a, b, c, d, e)
    BY FiveJoined, Zenon
  <2> QED
    BY <2>1, Zenon DEF IsJoined
<1> HIDE DEF s, s1, s2, s3
<1>2. /\ Len(a) = 1 /\ Len(b) = 19 /\ Len(c) = 8 /\ Len(d) = 20 /\ Len(e) = 20
      /\ Len(s1) = 20 /\ Len(s2) = 28 /\ Len(s3) = 48 /\ Len(s) = 68
  BY <1>1, SMT DEF HandshakeLengths
<1>3. SubSeq(s, 2, 20) = b /\ SubSeq(s, 29, 48) = d /\ SubSeq(s, 49, 68) = e
  BY <1>1, <1>2, SMT
<1>4. s[1] = a[1]
  BY <1>1, <1>2, SMT DEF Holds
<1>5. s[26] = c[6] /\ s[28] = c[8]
  <2> DEFINE at == 1 + Len(s1)
  <2>1. \A k \in 1 .. Len(c) : s[at - 1 + k] = c[k]
    <3>1. Holds(s, at, c)
      BY <1>1, Zenon
    <3> HIDE DEF at
    <3> QED
      BY <3>1, SMT DEF Holds
  <2> QED
    BY <1>2, <2>1, SMT
<1>6. IsFive(s, a, b, c, d, e)
  BY <1>1, <1>2, <1>3, <1>4, <1>5, SMT DEF IsFive
<1> QED
  BY <1>6, SMT DEF s

\* The flags of a handshake.
LEMMA FlagBits ==
  ASSUME NEW x \in BOOLEAN, NEW f \in BOOLEAN, NEW d \in BOOLEAN
  PROVE  LET one == Flag(x, ExtensionMask)
             two == Or(Flag(f, FastMask), Flag(d, DhtMask))
         IN  /\ one \in Byte /\ two \in Byte
             /\ HasBit(one, ExtensionMask) = x
             /\ HasBit(two, FastMask) = f /\ HasBit(two, DhtMask) = d
<1>1. /\ Flag(x, ExtensionMask) \in Byte /\ HasBit(Flag(x, ExtensionMask), ExtensionMask) = x
  BY DEF Flag, ExtensionMask, HasBit, Byte
<1>2. Flag(f, FastMask) \in Byte /\ Flag(d, DhtMask) \in Byte
  BY DEF Flag, FastMask, DhtMask, Byte
<1>3. /\ HasBit(Flag(f, FastMask), FastMask) = f /\ HasBit(Flag(f, FastMask), DhtMask) = FALSE
      /\ HasBit(Flag(d, DhtMask), FastMask) = FALSE /\ HasBit(Flag(d, DhtMask), DhtMask) = d
  BY DEF Flag, FastMask, DhtMask, HasBit
<1>4. FastMask \in Bit /\ DhtMask \in Bit
  BY DEF FastMask, DhtMask, Bit
<1> DEFINE two == Or(Flag(f, FastMask), Flag(d, DhtMask))
<1>5. /\ two \in Byte
      /\ HasBit(two, FastMask) <=> HasBit(Flag(f, FastMask), FastMask) \/ HasBit(Flag(d, DhtMask), FastMask)
      /\ HasBit(two, DhtMask) <=> HasBit(Flag(f, FastMask), DhtMask) \/ HasBit(Flag(d, DhtMask), DhtMask)
  BY <1>2, <1>4, OrBits, Zenon
<1>6. HasBit(two, FastMask) \in BOOLEAN /\ HasBit(two, DhtMask) \in BOOLEAN
  BY DEF HasBit
<1> HIDE DEF two
<1>7. HasBit(two, FastMask) = f /\ HasBit(two, DhtMask) = d
  BY <1>3, <1>5, <1>6, Zenon
<1> QED
  BY <1>1, <1>5, <1>7, Zenon DEF two

\* The name of the protocol has its length.
LEMMA PstrIs == Pstr \in Seq(Byte) /\ Len(Pstr) = 19
<1>1. Pstr \in [1 .. 19 -> Byte]
  BY DEF Pstr, Byte
<1> QED
  BY <1>1, FixedLength, Zenon

\* A handshake is read back as it was written.
THEOREM HandshakeReads ==
  ASSUME NEW h \in Handshake
  PROVE  /\ EncodeHandshake(h) \in Seq(Byte) /\ Len(EncodeHandshake(h)) = HandshakeLen
         /\ DecodeHandshake(EncodeHandshake(h)) = Accepted(h)
<1> DEFINE one == Flag(h.extension, ExtensionMask)
           two == Or(Flag(h.fast, FastMask), Flag(h.dht, DhtMask))
           a == <<Len(Pstr)>>
           c == <<0, 0, 0, 0, 0, one, 0, two>>
           s == EncodeHandshake(h)
<1>1. /\ h.extension \in BOOLEAN /\ h.fast \in BOOLEAN /\ h.dht \in BOOLEAN
      /\ h = [infoHash |-> h.infoHash, peerId |-> h.peerId, extension |-> h.extension,
              fast |-> h.fast, dht |-> h.dht]
  BY DEF Handshake
<1>2. /\ h.infoHash \in Seq(Byte) /\ Len(h.infoHash) = 20
      /\ h.peerId \in Seq(Byte) /\ Len(h.peerId) = 20
  <2>1. 20 \in Nat
    OBVIOUS
  <2>2. h.infoHash \in [1 .. 20 -> Byte] /\ h.peerId \in [1 .. 20 -> Byte]
    BY DEF Handshake
  <2>3. h.infoHash \in Seq(Byte) /\ Len(h.infoHash) = 20
    BY <2>1, <2>2, FixedLength, Zenon
  <2>4. h.peerId \in Seq(Byte) /\ Len(h.peerId) = 20
    BY <2>1, <2>2, FixedLength, Zenon
  <2> QED
    BY <2>3, <2>4, Zenon
<1>3. /\ one \in Byte /\ two \in Byte /\ HasBit(one, ExtensionMask) = h.extension
      /\ HasBit(two, FastMask) = h.fast /\ HasBit(two, DhtMask) = h.dht
  BY <1>1, FlagBits, Zenon
<1>4. s = Five(a, Pstr, c, h.infoHash, h.peerId)
  BY Zenon DEF EncodeHandshake, Five
<1> HIDE DEF one, two, s
<1>5. a \in Seq(Byte) /\ Len(a) = 1 /\ a[1] = 19 /\ a[1] = Len(Pstr)
  BY PstrIs DEF Byte
<1>6. c \in Seq(Byte) /\ Len(c) = 8 /\ c[6] = one /\ c[8] = two
  <2>1. 0 \in Byte
    BY DEF Byte
  <2> QED
    BY <1>3, <2>1
<1> HIDE DEF a, c
<1>7. IsFive(s, a, Pstr, c, h.infoHash, h.peerId)
  <2>1. HandshakeLengths(a, Pstr, c, h.infoHash, h.peerId)
    BY <1>2, <1>5, <1>6, PstrIs, Zenon DEF HandshakeLengths
  <2>2. a \in Seq(Byte) /\ Pstr \in Seq(Byte) /\ c \in Seq(Byte) /\ h.infoHash \in Seq(Byte) /\ h.peerId \in Seq(Byte)
    BY <1>2, <1>5, <1>6, PstrIs, Zenon
  <2> QED
    BY <1>4, <2>1, <2>2, FiveParts, Zenon
<1>8. /\ s \in Seq(Byte) /\ Len(s) = 68 /\ s[1] = Len(Pstr) /\ SubSeq(s, 2, 20) = Pstr
      /\ s[26] = one /\ s[28] = two
      /\ SubSeq(s, 29, 48) = h.infoHash /\ SubSeq(s, 49, 68) = h.peerId
  BY <1>5, <1>6, <1>7, Zenon DEF IsFive
<1>9. DecodeHandshake(s) = Accepted(h)
  <2> HIDE DEF s
  <2>1. DecodeHandshake(s)
          = Accepted([infoHash |-> h.infoHash, peerId |-> h.peerId, extension |-> h.extension,
                      fast |-> h.fast, dht |-> h.dht])
    BY <1>3, <1>8, Zenon DEF DecodeHandshake
  <2> QED
    BY <1>1, <2>1, Zenon
<1>10. Len(s) = HandshakeLen
  BY <1>8 DEF HandshakeLen
<1> QED
  BY <1>8, <1>9, <1>10, Zenon DEF s

-----------------------------------------------------------------------------
\* What was said of pieces

\* These messages of an end that has these pieces, and has said so or not: they
\* name no other piece, and no raw frame is among them; what all pieces are was
\* said once, and then or later every piece was told of.
Introduced(messages, held, saidIt) ==
  LET Sent == 1 .. Len(messages)
  IN  /\ \A i \in Sent : Told(messages[i]) \subseteq held /\ ~IsRaw(messages[i])
      /\ ~saidIt => \A i \in Sent : ~IsSummary(messages[i])
      /\ saidIt =>
           \E c \in Sent :
             /\ \A i \in Sent : IsSummary(messages[i]) <=> i = c
             /\ \A p \in held : \E i \in Sent : ~(i < c) /\ p \in Told(messages[i])

\* Sequence r is q and x.
IsAppended(r, q, x) ==
  /\ 1 .. Len(r) = 1 .. Len(q) \cup {Len(r)} /\ Len(r) \notin 1 .. Len(q) /\ Len(r) \in Nat
  /\ \A i \in 1 .. Len(q) : r[i] = q[i] /\ i < Len(r) /\ ~(Len(r) < i)
  /\ r[Len(r)] = x

\* A sequence with one element more, element by element.
LEMMA Appended ==
  ASSUME NEW M, NEW q \in Seq(M), NEW x \in M
  PROVE  IsAppended(Append(q, x), q, x)
<1>1. /\ Len(Append(q, x)) = Len(q) + 1 /\ Len(q) \in Nat
      /\ \A i \in 1 .. Len(q) : Append(q, x)[i] = q[i]
      /\ Append(q, x)[Len(q) + 1] = x
  OBVIOUS
<1> QED
  BY <1>1 DEF IsAppended

\* Before anything is sent nothing is said.
LEMMA NothingIntroduced ==
  ASSUME NEW held
  PROVE  Introduced(<<>>, held, FALSE)
<1>1. 1 .. Len(<<>>) = {}
  OBVIOUS
<1> QED
  BY <1>1, Zenon DEF Introduced

\* A message that says nothing of pieces changes nothing,
LEMMA IntroducedPlain ==
  ASSUME NEW M, NEW q \in Seq(M), NEW x \in M, NEW held, NEW s \in BOOLEAN,
         Introduced(q, held, s), Plain(x), ~IsRaw(x)
  PROVE  Introduced(Append(q, x), held, s)
<1> DEFINE r == Append(q, x)
           n == Len(r)
           I == 1 .. Len(q)
           J == 1 .. n
<1>1. /\ J = I \cup {n} /\ n \notin I
      /\ \A i \in I : r[i] = q[i] /\ i < n /\ ~(n < i)
      /\ r[n] = x
  <2>1. IsAppended(r, q, x)
    BY Appended, Zenon
  <2> HIDE DEF r
  <2> QED
    BY <2>1, Zenon DEF IsAppended
<1>2. Told(x) = {} /\ ~IsSummary(x)
  BY Zenon DEF Plain
<1>3. /\ \A i \in I : Told(q[i]) \subseteq held /\ ~IsRaw(q[i])
      /\ ~s => \A i \in I : ~IsSummary(q[i])
      /\ s => \E c \in I :
                /\ \A i \in I : IsSummary(q[i]) <=> i = c
                /\ \A p \in held : \E i \in I : ~(i < c) /\ p \in Told(q[i])
  BY Zenon DEF Introduced
<1> HIDE DEF r, n, I, J
<1>4. \A i \in J : Told(r[i]) \subseteq held /\ ~IsRaw(r[i])
  BY <1>1, <1>2, <1>3, Zenon
<1>5. ~s => \A i \in J : ~IsSummary(r[i])
  BY <1>1, <1>2, <1>3, Zenon
<1>6. ASSUME s
      PROVE  \E c \in J :
               /\ \A i \in J : IsSummary(r[i]) <=> i = c
               /\ \A p \in held : \E i \in J : ~(i < c) /\ p \in Told(r[i])
  <2>1. PICK c \in I : /\ \A i \in I : IsSummary(q[i]) <=> i = c
                       /\ \A p \in held : \E i \in I : ~(i < c) /\ p \in Told(q[i])
    BY <1>3, <1>6, Zenon
  <2>2. c \in J /\ \A i \in J : IsSummary(r[i]) <=> i = c
    BY <1>1, <1>2, <2>1, Zenon
  <2>3. \A p \in held : \E i \in J : ~(i < c) /\ p \in Told(r[i])
    BY <1>1, <2>1, Zenon
  <2> QED
    BY <2>2, <2>3, Zenon
<1> QED
  BY <1>4, <1>5, <1>6, Zenon DEF Introduced, r, n, J

\* one that says all there are makes them known,
LEMMA IntroducedAll ==
  ASSUME NEW M, NEW q \in Seq(M), NEW x \in M, NEW held,
         Introduced(q, held, FALSE), IsSummary(x), Told(x) = held, ~IsRaw(x)
  PROVE  Introduced(Append(q, x), held, TRUE)
<1> DEFINE r == Append(q, x)
           n == Len(r)
           I == 1 .. Len(q)
           J == 1 .. n
<1>1. /\ J = I \cup {n} /\ n \notin I
      /\ \A i \in I : r[i] = q[i] /\ i < n /\ ~(n < i)
      /\ r[n] = x
  <2>1. IsAppended(r, q, x)
    BY Appended, Zenon
  <2> HIDE DEF r
  <2> QED
    BY <2>1, Zenon DEF IsAppended
<1>2. ~(n < n)
  BY Appended DEF IsAppended
<1>3. \A i \in I : Told(q[i]) \subseteq held /\ ~IsSummary(q[i]) /\ ~IsRaw(q[i])
  BY Zenon DEF Introduced
<1> HIDE DEF r, n, I, J
<1>4. \A i \in J : Told(r[i]) \subseteq held /\ ~IsRaw(r[i])
  BY <1>1, <1>3, Zenon
<1>5. n \in J /\ \A i \in J : IsSummary(r[i]) <=> i = n
  BY <1>1, <1>3, Zenon
<1>6. \A p \in held : \E i \in J : ~(i < n) /\ p \in Told(r[i])
  BY <1>1, <1>2, Zenon
<1> QED
  BY <1>4, <1>5, <1>6, Zenon DEF Introduced, r, n, J

\* and news add to what is known.
LEMMA IntroducedNews ==
  ASSUME NEW M, NEW q \in Seq(M), NEW x \in M, NEW held, NEW p, NEW s \in BOOLEAN,
         Introduced(q, held, s), ~IsSummary(x), Told(x) = {p}, ~IsRaw(x)
  PROVE  Introduced(Append(q, x), held \cup {p}, s)
<1> DEFINE r == Append(q, x)
           n == Len(r)
           I == 1 .. Len(q)
           J == 1 .. n
<1>1. /\ J = I \cup {n} /\ n \notin I
      /\ \A i \in I : r[i] = q[i] /\ i < n /\ ~(n < i)
      /\ r[n] = x
  <2>1. IsAppended(r, q, x)
    BY Appended, Zenon
  <2> HIDE DEF r
  <2> QED
    BY <2>1, Zenon DEF IsAppended
<1>3. /\ \A i \in I : Told(q[i]) \subseteq held /\ ~IsRaw(q[i])
      /\ ~s => \A i \in I : ~IsSummary(q[i])
      /\ s => \E c \in I :
                /\ \A i \in I : IsSummary(q[i]) <=> i = c
                /\ \A z \in held : \E i \in I : ~(i < c) /\ z \in Told(q[i])
  BY Zenon DEF Introduced
<1> HIDE DEF r, n, I, J
<1>4. \A i \in J : Told(r[i]) \subseteq held \cup {p} /\ ~IsRaw(r[i])
  BY <1>1, <1>3, Zenon
<1>5. ~s => \A i \in J : ~IsSummary(r[i])
  BY <1>1, <1>3, Zenon
<1>6. ASSUME s
      PROVE  \E c \in J :
               /\ \A i \in J : IsSummary(r[i]) <=> i = c
               /\ \A z \in held \cup {p} : \E i \in J : ~(i < c) /\ z \in Told(r[i])
  <2>1. PICK c \in I : /\ \A i \in I : IsSummary(q[i]) <=> i = c
                       /\ \A z \in held : \E i \in I : ~(i < c) /\ z \in Told(q[i])
    BY <1>3, <1>6, Zenon
  <2>2. c \in J /\ \A i \in J : IsSummary(r[i]) <=> i = c
    BY <1>1, <2>1, Zenon
  <2>3. ~(n < c)
    BY <1>1, <2>1, Zenon
  <2>4. \A z \in held : \E i \in J : ~(i < c) /\ z \in Told(r[i])
    BY <1>1, <2>1, Zenon
  <2>5. n \in J /\ p \in Told(r[n])
    BY <1>1, Zenon
  <2>6. \A z \in held \cup {p} : \E i \in J : ~(i < c) /\ z \in Told(r[i])
    BY <2>3, <2>4, <2>5, Zenon
  <2> QED
    BY <2>2, <2>6, Zenon
<1> QED
  BY <1>4, <1>5, <1>6, Zenon DEF Introduced, r, n, J

\* A piece completed before the introduction will be part of it.
LEMMA IntroducedMore ==
  ASSUME NEW q, NEW held, NEW p, Introduced(q, held, FALSE)
  PROVE  Introduced(q, held \cup {p}, FALSE)
BY Zenon DEF Introduced

\* What the other end makes of them.
LEMMA TellsTheSame ==
  ASSUME NEW g, NEW x, Tells(g, x), ~IsRaw(x)
  PROVE  Told(g) = Told(x) /\ (IsSummary(g) <=> IsSummary(x))
<1>1. CASE x.type = "ut_metadata" \/ x.type = "ut_pex"
  <2>1. g.type = "Extension"
    BY <1>1, Zenon DEF Tells
  <2>2. ~IsSummary(g) /\ ~IsSummary(x)
    BY <1>1, <2>1 DEF IsSummary
  <2>3. /\ g.type # "Bitfield" /\ g.type # "Have" /\ g.type # "HaveAll"
        /\ x.type # "Bitfield" /\ x.type # "Have" /\ x.type # "HaveAll"
    BY <1>1, <2>1
  <2>4. Told(g) = {} /\ Told(x) = {}
    BY <2>3, Zenon DEF Told
  <2> QED
    BY <2>2, <2>4, Zenon
<1>2. CASE x.type # "ut_metadata" /\ x.type # "ut_pex"
  <2>1. g = x
    BY <1>2, Zenon DEF Tells
  <2> QED
    BY <2>1, Zenon
<1> QED
  BY <1>1, <1>2, Zenon

\* What is read of these messages names no other piece, and all of them once all
\* are read.
LEMMA IntroducedRead ==
  ASSUME NEW M, NEW q \in Seq(M), NEW G, NEW r \in Seq(G), NEW held, NEW s \in BOOLEAN,
         Introduced(q, held, s), Len(r) <= Len(q), \A i \in 1 .. Len(r) : Tells(r[i], q[i])
  PROVE  /\ PiecesTold(r) \subseteq held
         /\ s /\ Len(r) = Len(q) => PiecesTold(r) = held
<1> DEFINE I == 1 .. Len(q)
           J == 1 .. Len(r)
           Counting == {n \in J : \A later \in n + 1 .. Len(r) : ~IsSummary(r[later])}
<1>1. J \subseteq I
  OBVIOUS
<1>2. \A i \in I : Told(q[i]) \subseteq held /\ ~IsRaw(q[i])
  BY Zenon DEF Introduced
<1>3. \A i \in J : Told(r[i]) = Told(q[i]) /\ (IsSummary(r[i]) <=> IsSummary(q[i]))
  BY <1>1, <1>2, TellsTheSame, Zenon
<1>4. PiecesTold(r) = UNION {Told(r[i]) : i \in Counting}
  <2>1. DOMAIN r = J
    OBVIOUS
  <2> QED
    BY <2>1, Zenon DEF PiecesTold
<1>5. Counting \subseteq J
  OBVIOUS
<1>6. ASSUME s, Len(r) = Len(q) PROVE held \subseteq PiecesTold(r)
  <2>1. PICK c \in I : /\ \A i \in I : IsSummary(q[i]) <=> i = c
                       /\ \A p \in held : \E i \in I : ~(i < c) /\ p \in Told(q[i])
    BY <1>6, Zenon DEF Introduced
  <2>3. I = J
    BY <1>6
  <2>4. ASSUME NEW i \in I, ~(i < c) PROVE i \in Counting
    <3>1. ASSUME NEW later \in i + 1 .. Len(r) PROVE ~IsSummary(r[later])
      <4>1. later \in I /\ later # c
        BY <1>6, <2>4, <3>1
      <4>2. later \in J
        BY <2>3, <4>1, Zenon
      <4> QED
        BY <1>3, <2>1, <4>1, <4>2, Zenon
    <3> QED
      BY <2>3, <3>1, Zenon
  <2> HIDE DEF Counting, I, J
  <2>5. ASSUME NEW p \in held PROVE p \in PiecesTold(r)
    <3>1. PICK i \in I : ~(i < c) /\ p \in Told(q[i])
      BY <2>1, Zenon
    <3>2. i \in Counting /\ p \in Told(r[i])
      BY <1>3, <2>3, <2>4, <3>1, Zenon
    <3> QED
      BY <1>4, <3>2, Zenon
  <2> QED
    BY <2>5, Zenon
<1> HIDE DEF Counting, I, J
<1>7. PiecesTold(r) \subseteq held
  BY <1>1, <1>2, <1>3, <1>4, <1>5, Zenon
<1> QED
  BY <1>6, <1>7, Zenon

-----------------------------------------------------------------------------
\* Frames on the way

\* The start of what is on the way, and the rest.
LEMMA FirstPart ==
  ASSUME NEW u \in Seq(Byte), NEW v \in Seq(Byte), NEW n \in Nat, n <= Len(u)
  PROVE  /\ SubSeq(u \o v, 1, n) = SubSeq(u, 1, n)
         /\ SubSeq(u \o v, n + 1, Len(u \o v)) = SubSeq(u, n + 1, Len(u)) \o v
         /\ SubSeq(u, n + 1, Len(u)) \in Seq(Byte) /\ Len(SubSeq(u, n + 1, Len(u))) = Len(u) - n
<1> DEFINE s == u \o v
           tail == SubSeq(u, n + 1, Len(u))
           x == SubSeq(s, n + 1, Len(s))
           y == tail \o v
<1>1. s \in Seq(Byte) /\ Len(s) = Len(u) + Len(v) /\ Len(u) \in Nat /\ Len(v) \in Nat
  BY ConcatThree, Zenon
<1>2. /\ \A i \in 1 .. Len(u) : s[i] = u[i]
      /\ \A i \in Len(u) + 1 .. Len(u) + Len(v) : s[i] = v[i - Len(u)]
  OBVIOUS
<1> HIDE DEF s
<1>3. SubSeq(s, 1, n) = SubSeq(u, 1, n)
  <2>1. /\ SubSeq(s, 1, n) \in Seq(Byte) /\ Len(SubSeq(s, 1, n)) = n
        /\ SubSeq(u, 1, n) \in Seq(Byte) /\ Len(SubSeq(u, 1, n)) = n
    BY <1>1
  <2>2. \A i \in 1 .. n : SubSeq(s, 1, n)[i] = SubSeq(u, 1, n)[i]
    BY <1>1, <1>2
  <2> QED
    BY <2>1, <2>2
<1>4. /\ tail \in Seq(Byte) /\ Len(tail) = Len(u) - n
      /\ \A i \in 1 .. Len(u) - n : tail[i] = u[n + i]
  BY <1>1
<1>5. /\ x \in Seq(Byte) /\ Len(x) = Len(u) + Len(v) - n
      /\ \A i \in 1 .. Len(u) + Len(v) - n : x[i] = s[n + i]
  BY <1>1
<1> HIDE DEF tail, x
<1>6. /\ y \in Seq(Byte) /\ Len(y) = Len(u) - n + Len(v)
      /\ \A i \in 1 .. Len(u) - n : y[i] = tail[i]
      /\ \A i \in Len(u) - n + 1 .. Len(u) - n + Len(v) : y[i] = v[i - (Len(u) - n)]
  <2>1. y \in Seq(Byte) /\ Len(y) = Len(tail) + Len(v)
    BY <1>4, ConcatThree, Zenon
  <2>2. /\ \A i \in 1 .. Len(tail) : y[i] = tail[i]
        /\ \A i \in Len(tail) + 1 .. Len(tail) + Len(v) : y[i] = v[i - Len(tail)]
    BY <1>4
  <2> QED
    BY <1>4, <2>1, <2>2
<1> HIDE DEF y
<1>7. \A i \in 1 .. Len(u) + Len(v) - n : x[i] = y[i]
  <2> SUFFICES ASSUME NEW i \in 1 .. Len(u) + Len(v) - n PROVE x[i] = y[i]
    OBVIOUS
  <2>1. CASE i <= Len(u) - n
    <3>1. i \in 1 .. Len(u) - n /\ n + i \in 1 .. Len(u)
      BY <1>1, <2>1
    <3> QED
      BY <1>2, <1>4, <1>5, <1>6, <3>1
  <2>2. CASE ~(i <= Len(u) - n)
    <3>1. /\ i \in Len(u) - n + 1 .. Len(u) - n + Len(v)
          /\ n + i \in Len(u) + 1 .. Len(u) + Len(v)
          /\ (n + i) - Len(u) = i - (Len(u) - n)
      BY <1>1, <2>2
    <3> QED
      BY <1>2, <1>5, <1>6, <3>1
  <2> QED
    BY <2>1, <2>2
<1>8. x = y
  <2>1. Len(x) = Len(y) /\ 1 .. Len(x) = 1 .. Len(u) + Len(v) - n
    BY <1>1, <1>5, <1>6
  <2>2. \A i \in 1 .. Len(x) : x[i] = y[i]
    BY <1>7, <2>1, Zenon
  <2> QED
    BY <1>5, <1>6, <2>1, <2>2, SeqEqual, Zenon
<1> QED
  BY <1>3, <1>4, <1>8 DEF x, y, tail, s

\* The whole of the first part.
LEMMA WholePart ==
  ASSUME NEW u \in Seq(Byte), NEW v \in Seq(Byte)
  PROVE  /\ SubSeq(u \o v, 1, Len(u)) = u
         /\ SubSeq(u \o v, Len(u) + 1, Len(u \o v)) = v
<1>1. Len(u) \in Nat /\ Len(u) <= Len(u)
  OBVIOUS
<1>2. SubSeq(u, 1, Len(u)) = u
  OBVIOUS
<1>3. SubSeq(u, Len(u) + 1, Len(u)) \o v = v
  OBVIOUS
<1> QED
  BY <1>1, <1>2, <1>3, FirstPart, Zenon

\* Byte strings may be joined in any grouping,
LEMMA JoinThree ==
  ASSUME NEW u \in Seq(Byte), NEW v \in Seq(Byte), NEW w \in Seq(Byte)
  PROVE  (u \o v) \o w = u \o (v \o w)
OBVIOUS

\* and nothing may be joined to them.
LEMMA JoinNothing ==
  ASSUME NEW u \in Seq(Byte)
  PROVE  u \o <<>> = u /\ <<>> \o u = u
OBVIOUS

\* What is due of these bytes when the header of the first frame was read or not.
Due(rest, header) == IF header = NoNumber THEN rest ELSE SubSeq(rest, 5, Len(rest))

\* The frames that were not read, the first of them apart.
LEMMA FirstFrame ==
  ASSUME NEW q \in Seq(Sendable), NEW k \in Nat, k < Len(q)
  PROVE  LET f == FrameOf(q[k + 1])
             rest == FramesFrom(q, k)
             after == FramesFrom(q, k + 1)
         IN  /\ q[k + 1] \in Sendable
             /\ f \in Seq(Byte) /\ Len(f) \in Nat /\ Len(f) >= 4
             /\ after \in Seq(Byte) /\ rest = f \o after
             /\ rest \in Seq(Byte) /\ Len(rest) >= 4
             /\ SubSeq(rest, 5, Len(rest)) = Payload(f) \o after
             /\ Payload(f) \in Seq(Byte) /\ Len(Payload(f)) = Len(f) - 4
<1> DEFINE f == FrameOf(q[k + 1])
           rest == FramesFrom(q, k)
           after == FramesFrom(q, k + 1)
<1>1. q[k + 1] \in Sendable /\ k + 1 \in 0 .. Len(q) /\ k \in 0 .. Len(q)
  OBVIOUS
<1>2. f \in Seq(Byte) /\ Len(f) \in Nat /\ Len(f) >= 4
  BY <1>1, SendableFrame, Zenon
<1>3. after \in Seq(Byte) /\ rest \in Seq(Byte)
  BY <1>1, SentFramed, FramesFromType, Zenon
<1>4. rest = f \o after
  BY SentFramed, FramesFromNext, Zenon
<1> HIDE DEF f, rest, after
<1>5. Len(rest) >= 4
  <2>1. Len(f \o after) = Len(f) + Len(after) /\ Len(after) \in Nat
    BY <1>2, <1>3, ConcatThree, Zenon
  <2> QED
    BY <1>2, <1>4, <2>1
<1>6. 4 \in Nat /\ 4 <= Len(f) /\ 4 + 1 = 5
  BY <1>2
<1>7. /\ SubSeq(rest, 5, Len(rest)) = Payload(f) \o after
      /\ Payload(f) \in Seq(Byte) /\ Len(Payload(f)) = Len(f) - 4
  <2>1. /\ SubSeq(f \o after, 4 + 1, Len(f \o after)) = SubSeq(f, 4 + 1, Len(f)) \o after
        /\ SubSeq(f, 4 + 1, Len(f)) \in Seq(Byte) /\ Len(SubSeq(f, 4 + 1, Len(f))) = Len(f) - 4
    BY <1>2, <1>3, <1>6, FirstPart, Zenon
  <2> QED
    BY <1>4, <1>6, <2>1, Zenon DEF Payload
<1> QED
  BY <1>1, <1>2, <1>3, <1>4, <1>5, <1>7, Zenon DEF f, rest, after

\* One more frame goes to the end of what is due.
LEMMA DueMore ==
  ASSUME NEW q \in Seq(Sendable), NEW x \in Sendable, NEW k \in Nat, k <= Len(q), NEW a,
         a # NoNumber => k < Len(q)
  PROVE  /\ FramesFrom(Append(q, x), k) = FramesFrom(q, k) \o FrameOf(x)
         /\ Due(FramesFrom(Append(q, x), k), a) = Due(FramesFrom(q, k), a) \o FrameOf(x)
         /\ FramesFrom(q, k) \in Seq(Byte) /\ FrameOf(x) \in Seq(Byte)
<1> DEFINE rest == FramesFrom(q, k)
           f == FrameOf(x)
           more == FramesFrom(Append(q, x), k)
<1>1. k \in 0 .. Len(q)
  OBVIOUS
<1>2. f \in Seq(Byte)
  BY SendableFrame, Zenon
<1>3. rest \in Seq(Byte)
  BY <1>1, SentFramed, FramesFromType, Zenon
<1>4. more = rest \o f
  BY <1>1, <1>2, SentFramed, FramesFromAppend, Zenon
<1>5. a # NoNumber => Len(rest) >= 4
  BY FirstFrame, Zenon
<1> HIDE DEF rest, f, more
<1>6. ASSUME a # NoNumber PROVE SubSeq(more, 5, Len(more)) = SubSeq(rest, 5, Len(rest)) \o f
  <2>1. 4 \in Nat /\ 4 <= Len(rest) /\ 4 + 1 = 5
    BY <1>3, <1>5, <1>6
  <2>2. SubSeq(rest \o f, 4 + 1, Len(rest \o f)) = SubSeq(rest, 4 + 1, Len(rest)) \o f
    BY <1>2, <1>3, <2>1, FirstPart, Zenon
  <2> QED
    BY <1>4, <2>1, <2>2, Zenon
<1>7. Due(more, a) = Due(rest, a) \o f
  BY <1>4, <1>6, Zenon DEF Due
<1> QED
  BY <1>2, <1>3, <1>4, <1>7, Zenon DEF rest, f, more

\* Nothing is left only if all was read.
LEMMA NothingLeft ==
  ASSUME NEW q \in Seq(Sendable), NEW k \in Nat, k <= Len(q)
  PROVE  /\ Len(FramesFrom(q, k)) >= 4 => k < Len(q)
         /\ FramesFrom(q, k) = <<>> => k = Len(q)
<1>1. FramesFrom(q, Len(q)) = <<>>
  BY FramesFromEnd, Zenon
<1>2. k < Len(q) => Len(FramesFrom(q, k)) >= 4
  BY FirstFrame, Zenon
<1>3. Len(<<>>) = 0
  OBVIOUS
<1> HIDE DEF FramesFrom
<1>4. k = Len(q) => ~(Len(FramesFrom(q, k)) >= 4)
  BY <1>1, <1>3
<1> QED
  BY <1>1, <1>2, <1>3, <1>4

\* The length in a header is that of the frame it begins.
LEMMA HeaderReads ==
  ASSUME NEW q \in Seq(Sendable), NEW k \in Nat, k < Len(q)
  PROVE  LET f == FrameOf(q[k + 1])
             len == ReadU32(SubSeq(FramesFrom(q, k), 1, 4), 0)
         IN  /\ len \in Nat
             /\ len <= MaxMessageSize => len = Len(f) - 4
             /\ len <= MaxMessageSize /\ DecodeMessage(Payload(f)).ok =>
                  Tells(DecodeMessage(Payload(f)).value, q[k + 1])
<1> DEFINE x == q[k + 1]
           f == FrameOf(x)
           rest == FramesFrom(q, k)
           after == FramesFrom(q, k + 1)
           h == SubSeq(rest, 1, 4)
<1>1. x \in Sendable /\ f \in Seq(Byte) /\ Len(f) \in Nat /\ Len(f) >= 4
  BY FirstFrame, Zenon
<1>2. after \in Seq(Byte) /\ rest = f \o after
  BY FirstFrame, Zenon
<1>3. Carries(x)
  BY <1>1, SendableCarries, Zenon
<1>4. /\ \/ ReadU32(f, 0) > MaxMessageSize
         \/ /\ ReadU32(f, 0) = Len(f) - 4
            /\ DecodeMessage(Payload(f)).ok => Tells(DecodeMessage(Payload(f)).value, x)
  BY <1>3, Zenon DEF Carries
<1> HIDE DEF f, rest, after, x
<1>5. h = SubSeq(f, 1, 4)
  <2>1. 4 \in Nat /\ 4 <= Len(f)
    BY <1>1
  <2>2. SubSeq(f \o after, 1, 4) = SubSeq(f, 1, 4)
    BY <1>1, <1>2, <2>1, FirstPart, Zenon
  <2> QED
    BY <1>2, <2>2, Zenon
<1>6. ReadU32(h, 0) = ReadU32(f, 0)
  <2> HIDE DEF h
  <2>1. /\ SubSeq(f, 1, 4)[1] = f[1] /\ SubSeq(f, 1, 4)[2] = f[2]
        /\ SubSeq(f, 1, 4)[3] = f[3] /\ SubSeq(f, 1, 4)[4] = f[4]
    BY <1>1
  <2>2. h[1] = f[1] /\ h[2] = f[2] /\ h[3] = f[3] /\ h[4] = f[4]
    BY <1>5, <2>1, Zenon
  <2> QED
    BY <2>2 DEF ReadU32
<1>7. ReadU32(f, 0) \in Nat
  <2>1. 0 \in Nat /\ 0 + 4 <= Len(f)
    BY <1>1
  <2> QED
    BY <1>1, <2>1, ReadU32Type, Zenon
<1>8. MaxMessageSize \in Nat
  BY StreamAssumption, Zenon
<1> DEFINE len == ReadU32(h, 0)
<1>9. len \in Nat /\ (len <= MaxMessageSize => ~(ReadU32(f, 0) > MaxMessageSize))
  BY <1>6, <1>7, <1>8
<1> HIDE DEF h, len
<1>10. /\ len \in Nat
       /\ len <= MaxMessageSize => len = Len(f) - 4
       /\ len <= MaxMessageSize /\ DecodeMessage(Payload(f)).ok =>
            Tells(DecodeMessage(Payload(f)).value, x)
  BY <1>4, <1>6, <1>9, Zenon DEF len
<1> QED
  BY <1>10, Zenon DEF f, rest, h, len, x

-----------------------------------------------------------------------------
\* The inductive invariant

\* What a decode may come to.
Heard == {DecodeMessage(s).value : s \in Seq(Byte)}

\* What the listening end answers.
Answer == [own["Listener"] EXCEPT !.infoHash = own["Dialer"].infoHash]

StreamTypeOK ==
  /\ own \in [End -> Handshake] /\ foreign \in BOOLEAN
  /\ phase \in [End -> {"Greeting", "Starting", "Open", "Closed"}]
  /\ theirs \in [End -> Handshake \cup {<<>>}]
  /\ wire \in [End -> Seq(Byte)]
  /\ awaiting \in [End -> Nat \cup {NoNumber}]
  /\ sent \in [End -> Seq(Sendable)] /\ got \in [End -> Seq(Heard)]
  /\ done \in [End -> SUBSET Piece] /\ said \in [End -> BOOLEAN]
  /\ have \in [End -> BitfieldOf(NumPieces)] /\ early \in [End -> Seq(News)]

\* Who has greeted whom: the listening end first reads a handshake, and nothing
\* is said before.
GreetedAt(e) ==
  /\ phase[e] = "Greeting" => theirs[e] = <<>>
  /\ phase[e] \in {"Starting", "Open"} => theirs[e] # <<>>
  /\ theirs[e] = <<>> \/ phase[e] = "Starting" =>
       sent[e] = <<>> /\ got[e] = <<>> /\ awaiting[e] = NoNumber
GreetingsOK ==
  /\ theirs["Listener"] # <<>> => theirs["Listener"] = own["Dialer"] /\ own["Dialer"].infoHash \in Registered
  /\ theirs["Dialer"] # <<>> =>
       theirs["Dialer"] = Answer /\ theirs["Listener"] # <<>> /\ own["Dialer"].peerId # own["Listener"].peerId
  /\ \A e \in End : GreetedAt(e)

\* The handshake that is on the way to an end that has not read it.
Greeting(e) ==
  IF e = "Listener" THEN EncodeHandshake(own["Dialer"])
  ELSE IF theirs["Listener"] = <<>> THEN <<>> ELSE EncodeHandshake(Answer)

\* What is on the way to an end: frames from the start of one on, or of its payload.
Pending(e) == FramesFrom(sent[Other(e)], Len(got[e]))
WireAt(e) ==
  /\ phase[e] = "Greeting" => wire[e] = Greeting(e) \o Pending(e)
  /\ phase[e] \in {"Starting", "Open"} => wire[e] = Due(Pending(e), awaiting[e])
  /\ awaiting[e] # NoNumber =>
       /\ Len(got[e]) < Len(sent[Other(e)])
       /\ LET x == sent[Other(e)][Len(got[e]) + 1]
              f == FrameOf(x)
          IN  /\ awaiting[e] = Len(f) - 4
              /\ DecodeMessage(Payload(f)).ok => Tells(DecodeMessage(Payload(f)).value, x)
WireOK == \A e \in End : WireAt(e)

\* What was read is what was sent, in order.
ReadAt(e) ==
  /\ Len(got[e]) <= Len(sent[Other(e)])
  /\ \A i \in 1 .. Len(got[e]) : Tells(got[e][i], sent[Other(e)][i])
ReadOK == \A e \in End : ReadAt(e)

\* What is sent begins with the extensions.
FirstAt(e) ==
  theirs[e] # <<>> /\ theirs[e].extension /\ IsOurs(e) =>
    /\ phase[e] = "Open" => sent[e] # <<>>
    /\ sent[e] # <<>> => sent[e][1] = OurExtensions
FirstOK == \A e \in End : FirstAt(e)

\* What was said of pieces, and the bitfield it was said from; what waits to be
\* said is said before the bitfield.
PiecesAt(e) ==
  /\ Indices(have[e]) = done[e]
  /\ IsOurs(e) => Introduced(sent[e], done[e], said[e])
  /\ said[e] => early[e] = <<>>
  /\ \A i \in 1 .. Len(early[e]) : early[e][i].piece \in done[e]
PiecesOK == \A e \in End : PiecesAt(e)

StreamInv ==
  StreamTypeOK /\ GreetingsOK /\ WireOK /\ ReadOK /\ FirstOK /\ PiecesOK

-----------------------------------------------------------------------------
\* There are two ends, each the other's other one.
LEMMA Ends ==
  /\ \A e \in End : e = "Dialer" \/ e = "Listener"
  /\ "Dialer" \in End /\ "Listener" \in End /\ "Dialer" # "Listener"
  /\ Other("Dialer") = "Listener" /\ Other("Listener") = "Dialer"
  /\ \A e \in End : Other(e) \in End /\ Other(e) # e /\ Other(Other(e)) = e
  /\ \A e \in End : \A f \in End : f = e \/ f = Other(e)
<1>1. \A e \in End : e = "Dialer" \/ e = "Listener"
  BY DEF End
<1>2. "Dialer" \in End /\ "Listener" \in End /\ "Dialer" # "Listener"
  BY DEF End
<1>3. {o \in End : o # "Dialer"} = {"Listener"} /\ {o \in End : o # "Listener"} = {"Dialer"}
  BY <1>1, <1>2, Zenon
<1>4. Other("Dialer") = "Listener"
  <2>1. \E o \in End : o # "Dialer"
    BY <1>2, Zenon
  <2>2. Other("Dialer") \in End /\ Other("Dialer") # "Dialer"
    BY <2>1, Zenon DEF Other
  <2> QED
    BY <1>1, <2>2, Zenon
<1>5. Other("Listener") = "Dialer"
  <2>1. \E o \in End : o # "Listener"
    BY <1>2, Zenon
  <2>2. Other("Listener") \in End /\ Other("Listener") # "Listener"
    BY <2>1, Zenon DEF Other
  <2> QED
    BY <1>1, <2>2, Zenon
<1> QED
  BY <1>1, <1>2, <1>4, <1>5, Zenon

\* Nothing sent makes no frames.
LEMMA NothingFramed == FramesFrom(<<>>, 0) = <<>> /\ <<>> \in Seq(Sendable) /\ Len(<<>>) = 0
<1>1. <<>> \in Seq(Sendable) /\ Len(<<>>) = 0
  OBVIOUS
<1> QED
  BY <1>1, FramesFromEnd, Zenon

\* What both ends have, as a function.
LEMMA Pair ==
  ASSUME NEW S, NEW a \in S, NEW b \in S
  PROVE  [Dialer |-> a, Listener |-> b] \in [End -> S]
<1>1. [Dialer |-> a, Listener |-> b] \in [{"Dialer", "Listener"} -> S]
  OBVIOUS
<1> QED
  BY <1>1, Zenon DEF End

\* The invariant holds at the start.
LEMMA StreamStarts == StreamInit => StreamInv
<1> SUFFICES ASSUME StreamInit PROVE StreamInv
  OBVIOUS
<1>1. own \in [End -> Handshake]
  BY StreamAssumption, Zenon DEF StreamInit
<1>2. done \in [End -> SUBSET Piece]
  BY StreamAssumption, Zenon DEF StreamInit
<1>3. /\ \A e \in End : /\ phase[e] = "Greeting" /\ theirs[e] = <<>> /\ awaiting[e] = NoNumber
                        /\ sent[e] = <<>> /\ got[e] = <<>> /\ said[e] = FALSE
                        /\ early[e] = <<>>
      /\ \A e \in End : have[e] = Holding(done[e])
  BY Zenon DEF StreamInit
<1>4. wire["Dialer"] = <<>> /\ wire["Listener"] = EncodeHandshake(own["Dialer"])
  BY Zenon DEF StreamInit
<1>5. EncodeHandshake(own["Dialer"]) \in Seq(Byte)
  BY <1>1, Ends, HandshakeReads, Zenon
<1>6. \A e \in End : have[e] \in BitfieldOf(NumPieces) /\ Indices(have[e]) = done[e]
  BY <1>2, <1>3, HoldingIs, Zenon
<1>7. StreamTypeOK
  <2>1. foreign \in BOOLEAN
    BY Zenon DEF StreamInit
  <2>2. phase \in [End -> {"Greeting", "Starting", "Open", "Closed"}]
    BY Zenon DEF StreamInit
  <2>3. theirs \in [End -> Handshake \cup {<<>>}] /\ awaiting \in [End -> Nat \cup {NoNumber}]
    BY Zenon DEF StreamInit
  <2>4. wire \in [End -> Seq(Byte)]
    <3>1. wire = [Dialer |-> <<>>, Listener |-> EncodeHandshake(own["Dialer"])]
      BY Zenon DEF StreamInit
    <3> DEFINE w == EncodeHandshake(own["Dialer"])
    <3>2. w \in Seq(Byte) /\ <<>> \in Seq(Byte)
      BY <1>5
    <3> HIDE DEF w
    <3>3. [Dialer |-> <<>>, Listener |-> w] \in [End -> Seq(Byte)]
      BY <3>2, Pair, Zenon
    <3> QED
      BY <3>1, <3>3, Zenon DEF w
  <2>5. sent \in [End -> Seq(Sendable)] /\ got \in [End -> Seq(Heard)]
    <3>1. <<>> \in Seq(Sendable) /\ <<>> \in Seq(Heard)
      OBVIOUS
    <3> QED
      BY <3>1, Zenon DEF StreamInit
  <2>6. said \in [End -> BOOLEAN]
    BY Zenon DEF StreamInit
  <2>7. have \in [End -> BitfieldOf(NumPieces)]
    <3>1. have = [e \in End |-> Holding(done[e])]
      BY Zenon DEF StreamInit
    <3> QED
      BY <1>3, <1>6, <3>1, Zenon
  <2>8. early \in [End -> Seq(News)]
    <3>1. <<>> \in Seq(News)
      OBVIOUS
    <3> QED
      BY <3>1, Zenon DEF StreamInit
  <2> QED
    BY <1>1, <1>2, <2>1, <2>2, <2>3, <2>4, <2>5, <2>6, <2>7, <2>8, Zenon DEF StreamTypeOK
<1>8. GreetingsOK
  <2>1. ASSUME NEW e \in End PROVE GreetedAt(e)
    BY <1>3, <2>1 DEF GreetedAt
  <2> QED
    BY <1>3, <2>1, Ends, Zenon DEF GreetingsOK
<1>9. \A e \in End : Pending(e) = <<>>
  BY <1>3, Ends, NothingFramed, Zenon DEF Pending
<1>10. WireOK
  <2>1. ASSUME NEW e \in End PROVE WireAt(e)
    <3>1. wire[e] = Greeting(e)
      BY <1>3, <1>4, Ends, Zenon DEF Greeting
    <3>2. wire[e] \in Seq(Byte)
      BY <1>7, Zenon DEF StreamTypeOK
    <3>3. wire[e] = Greeting(e) \o Pending(e)
      BY <1>9, <3>1, <3>2, JoinNothing, Zenon
    <3> DEFINE p == phase[e]
    <3>4. p \notin {"Starting", "Open"}
      BY <1>3
    <3> HIDE DEF p
    <3> QED
      BY <1>3, <3>3, <3>4, Zenon DEF WireAt, p
  <2> QED
    BY <2>1, Zenon DEF WireOK
<1>11. ReadOK
  <2>1. ASSUME NEW e \in End PROVE ReadAt(e)
    <3>1. sent[Other(e)] = <<>> /\ got[e] = <<>>
      BY <1>3, Ends, Zenon
    <3> QED
      BY <3>1 DEF ReadAt
  <2> QED
    BY <2>1, Zenon DEF ReadOK
<1>12. FirstOK
  BY <1>3, Zenon DEF FirstOK, FirstAt
<1>13. PiecesOK
  <2>1. 1 .. Len(<<>>) = {}
    OBVIOUS
  <2>2. ASSUME NEW e \in End PROVE PiecesAt(e)
    BY <1>3, <1>6, <2>1, NothingIntroduced, Zenon DEF PiecesAt
  <2> QED
    BY <2>2, Zenon DEF PiecesOK
<1> QED
  BY <1>7, <1>8, <1>10, <1>11, <1>12, <1>13, Zenon DEF StreamInv

-----------------------------------------------------------------------------
\* What a step that sends leaves as it was

\* What an end has, one by one.
LEMMA Types ==
  ASSUME StreamTypeOK, NEW e \in End
  PROVE  /\ own[e] \in Handshake
         /\ phase[e] \in {"Greeting", "Starting", "Open", "Closed"}
         /\ theirs[e] \in Handshake \cup {<<>>}
         /\ wire[e] \in Seq(Byte)
         /\ awaiting[e] \in Nat \cup {NoNumber}
         /\ sent[e] \in Seq(Sendable) /\ got[e] \in Seq(Heard)
         /\ Len(sent[e]) \in Nat /\ Len(got[e]) \in Nat
         /\ done[e] \in SUBSET Piece /\ said[e] \in BOOLEAN
         /\ have[e] \in BitfieldOf(NumPieces) /\ early[e] \in Seq(News)
<1>1. sent[e] \in Seq(Sendable) /\ got[e] \in Seq(Heard)
  BY Zenon DEF StreamTypeOK
<1>2. Len(sent[e]) \in Nat /\ Len(got[e]) \in Nat
  BY <1>1
<1> QED
  BY <1>1, <1>2, Zenon DEF StreamTypeOK

\* The answer is a handshake of the listening end, for the torrent it was asked for.
LEMMA AnswerIs ==
  ASSUME own \in [End -> Handshake]
  PROVE  /\ Answer \in Handshake /\ Answer.infoHash = own["Dialer"].infoHash
         /\ Answer.peerId = own["Listener"].peerId /\ Answer.extension = own["Listener"].extension
<1>1. own["Dialer"] \in Handshake /\ own["Listener"] \in Handshake
  BY Ends, Zenon
<1> DEFINE d == own["Dialer"]
           l == own["Listener"]
<1> HIDE DEF d, l
<1>2. /\ [l EXCEPT !.infoHash = d.infoHash] \in Handshake
      /\ [l EXCEPT !.infoHash = d.infoHash].infoHash = d.infoHash
      /\ [l EXCEPT !.infoHash = d.infoHash].peerId = l.peerId
      /\ [l EXCEPT !.infoHash = d.infoHash].extension = l.extension
  <2>1. d \in Handshake /\ l \in Handshake
    BY <1>1, Zenon DEF d, l
  <2> QED
    BY <2>1 DEF Handshake
<1> QED
  BY <1>2, Zenon DEF Answer, d, l

\* A greeting is bytes.
LEMMA GreetingType ==
  ASSUME StreamTypeOK, NEW e \in End
  PROVE  Greeting(e) \in Seq(Byte)
<1>1. own["Dialer"] \in Handshake /\ Answer \in Handshake
  BY Ends, AnswerIs, Zenon DEF StreamTypeOK
<1>2. <<>> \in Seq(Byte)
  OBVIOUS
<1> QED
  BY <1>1, <1>2, HandshakeReads, Zenon DEF Greeting

\* What stays as it was for an end when nothing that concerns it changes.
LEMMA WireStays ==
  ASSUME NEW e \in End, WireAt(e), ReadAt(e), wire'[e] = wire[e], awaiting'[e] = awaiting[e],
         got'[e] = got[e], sent'[Other(e)] = sent[Other(e)],
         own' = own, theirs'["Listener"] = theirs["Listener"],
         phase'[e] = phase[e] \/ phase'[e] = "Closed" \/ (phase[e] = "Starting" /\ phase'[e] = "Open")
  PROVE  WireAt(e)' /\ ReadAt(e)'
<1>1. Pending(e)' = Pending(e) /\ Greeting(e)' = Greeting(e)
  BY Zenon DEF Pending, Greeting, Answer
<1>2. /\ phase'[e] = "Greeting" => phase[e] = "Greeting"
      /\ phase'[e] \in {"Starting", "Open"} => phase[e] \in {"Starting", "Open"}
  OBVIOUS
<1>3. WireAt(e)'
  <2>1. phase'[e] = "Greeting" => wire'[e] = (Greeting(e) \o Pending(e))'
    BY <1>1, <1>2, Zenon DEF WireAt
  <2>2. phase'[e] \in {"Starting", "Open"} => wire'[e] = Due(Pending(e), awaiting[e])'
    <3>1. Due(Pending(e), awaiting[e])' = Due(Pending(e), awaiting[e])
      BY <1>1, Zenon DEF Due
    <3> QED
      BY <1>2, <3>1, Zenon DEF WireAt
  <2> QED
    BY <2>1, <2>2, Zenon DEF WireAt
<1>4. ReadAt(e)'
  BY Zenon DEF ReadAt
<1> QED
  BY <1>3, <1>4, Zenon

\* An end sends one of what may be sent.
Sending(e, x) ==
  /\ wire' = [wire EXCEPT ![Other(e)] = @ \o FrameOf(x)]
  /\ sent' = [sent EXCEPT ![e] = Append(@, x)]
  /\ UNCHANGED <<own, foreign, theirs, awaiting, got>>

\* What is sent comes after what is on its way.
LEMMA SendKeepsWire ==
  ASSUME StreamInv, NEW e \in End, NEW x \in Sendable, Sending(e, x),
         \A f \in End : phase'[f] = phase[f] \/ (phase[f] = "Starting" /\ phase'[f] = "Open")
  PROVE  /\ WireOK' /\ ReadOK'
         /\ wire' \in [End -> Seq(Byte)] /\ sent' \in [End -> Seq(Sendable)]
<1> DEFINE o == Other(e)
           q == sent[e]
           k == Len(got[o])
           F == FrameOf(x)
<1>1. o \in End /\ o # e /\ Other(o) = e /\ \A f \in End : f = e \/ f = o
  BY Ends, Zenon
<1>2. StreamTypeOK /\ WireOK /\ ReadOK
  BY Zenon DEF StreamInv
<1>3. own' = own /\ theirs' = theirs /\ awaiting' = awaiting /\ got' = got
  BY Zenon DEF Sending
<1>4. /\ wire[o] \in Seq(Byte) /\ q \in Seq(Sendable) /\ k \in Nat /\ Greeting(o) \in Seq(Byte)
  BY <1>1, <1>2, Types, GreetingType, Zenon
<1>5. F \in Seq(Byte)
  BY SendableFrame, Zenon
<1>6. /\ wire'[o] = wire[o] \o F /\ wire'[e] = wire[e]
      /\ sent'[e] = Append(q, x) /\ sent'[o] = sent[o]
  <2>1. wire \in [End -> Seq(Byte)] /\ sent \in [End -> Seq(Sendable)]
    BY <1>2, Zenon DEF StreamTypeOK
  <2> QED
    BY <1>1, <2>1, Zenon DEF Sending
<1>7. wire' \in [End -> Seq(Byte)] /\ sent' \in [End -> Seq(Sendable)]
  <2>1. wire[o] \o F \in Seq(Byte) /\ Append(q, x) \in Seq(Sendable)
    <3>1. wire[o] \o F \in Seq(Byte)
      BY <1>4, <1>5, Joined, Zenon
    <3>2. Append(q, x) \in Seq(Sendable)
      BY <1>4
    <3> QED
      BY <3>1, <3>2, Zenon
  <2>2. wire \in [End -> Seq(Byte)] /\ sent \in [End -> Seq(Sendable)]
    BY <1>2, Zenon DEF StreamTypeOK
  <2> QED
    BY <1>1, <2>1, <2>2, Zenon DEF Sending
<1>8. WireAt(e)' /\ ReadAt(e)'
  <2>1. WireAt(e) /\ ReadAt(e)
    BY <1>2, Zenon DEF WireOK, ReadOK
  <2> QED
    BY <1>1, <1>3, <1>6, <2>1, WireStays, Zenon
<1>9. WireAt(o) /\ ReadAt(o)
  BY <1>1, <1>2, Zenon DEF WireOK, ReadOK
<1>10. k <= Len(q) /\ \A i \in 1 .. k : Tells(got[o][i], q[i])
  BY <1>1, <1>9, Zenon DEF ReadAt
<1>11. awaiting[o] # NoNumber =>
        /\ k < Len(q)
        /\ LET y == q[k + 1]
               f == FrameOf(y)
           IN  /\ awaiting[o] = Len(f) - 4
               /\ DecodeMessage(Payload(f)).ok => Tells(DecodeMessage(Payload(f)).value, y)
  BY <1>1, <1>9, Zenon DEF WireAt
<1>12. Pending(o) = FramesFrom(q, k) /\ Pending(o)' = FramesFrom(Append(q, x), k)
  BY <1>1, <1>3, <1>6, Zenon DEF Pending
<1>13. /\ Pending(o)' = Pending(o) \o F
       /\ Due(Pending(o), awaiting[o])' = Due(Pending(o), awaiting[o]) \o F
       /\ Pending(o) \in Seq(Byte)
  <2>1. /\ FramesFrom(Append(q, x), k) = FramesFrom(q, k) \o F
        /\ Due(FramesFrom(Append(q, x), k), awaiting[o]) = Due(FramesFrom(q, k), awaiting[o]) \o F
        /\ FramesFrom(q, k) \in Seq(Byte)
    BY <1>4, <1>10, <1>11, DueMore, Zenon
  <2>2. Due(Pending(o), awaiting[o])' = Due(FramesFrom(Append(q, x), k), awaiting[o])
    BY <1>3, <1>12, Zenon DEF Due
  <2> QED
    BY <1>12, <2>1, <2>2, Zenon
<1>14. Greeting(o)' = Greeting(o)
  BY <1>3, Zenon DEF Greeting, Answer
<1>15. k < Len(q) => k < Len(Append(q, x)) /\ Append(q, x)[k + 1] = q[k + 1]
  BY <1>4
<1>16. /\ phase'[o] = "Greeting" => phase[o] = "Greeting"
       /\ phase'[o] \in {"Starting", "Open"} => phase[o] \in {"Starting", "Open"}
  BY <1>1
<1>17. WireAt(o)'
  <2>1. phase'[o] = "Greeting" => wire'[o] = (Greeting(o) \o Pending(o))'
    <3>1. phase[o] = "Greeting" => wire[o] = Greeting(o) \o Pending(o)
      BY <1>9, Zenon DEF WireAt
    <3>2. (Greeting(o) \o Pending(o)) \o F = Greeting(o) \o (Pending(o) \o F)
      BY <1>4, <1>5, <1>13, JoinThree, Zenon
    <3> QED
      BY <1>6, <1>13, <1>14, <1>16, <3>1, <3>2, Zenon
  <2>2. phase'[o] \in {"Starting", "Open"} => wire'[o] = Due(Pending(o), awaiting[o])'
    <3>1. phase[o] \in {"Starting", "Open"} => wire[o] = Due(Pending(o), awaiting[o])
      BY <1>9, Zenon DEF WireAt
    <3> QED
      BY <1>6, <1>13, <1>16, <3>1, Zenon
  <2>3. awaiting'[o] # NoNumber =>
          /\ Len(got'[o]) < Len(sent'[e])
          /\ LET y == sent'[e][Len(got'[o]) + 1]
                 f == FrameOf(y)
             IN  /\ awaiting'[o] = Len(f) - 4
                 /\ DecodeMessage(Payload(f)).ok => Tells(DecodeMessage(Payload(f)).value, y)
    BY <1>3, <1>6, <1>11, <1>15, Zenon
  <2> QED
    BY <1>1, <2>1, <2>2, <2>3, Zenon DEF WireAt
<1>18. ReadAt(o)'
  <2>1. k <= Len(Append(q, x)) /\ \A i \in 1 .. k : Append(q, x)[i] = q[i]
    BY <1>4, <1>10
  <2>2. \A i \in 1 .. k : Tells(got[o][i], Append(q, x)[i])
    BY <1>10, <2>1, Zenon
  <2> QED
    BY <1>1, <1>3, <1>6, <2>1, <2>2, Zenon DEF ReadAt
<1> QED
  BY <1>1, <1>7, <1>8, <1>17, <1>18, Zenon DEF WireOK, ReadOK

-----------------------------------------------------------------------------
\* Steps that read

\* What a read takes off the wire, and what it sends.
LEMMA Transferred ==
  ASSUME StreamTypeOK, NEW e \in End, NEW bytes \in Seq(Byte), Needed(e) \in Nat, CanRead(e),
         Transfer(e, bytes)
  PROVE  /\ wire' \in [End -> Seq(Byte)]
         /\ wire'[e] = SubSeq(wire[e], Needed(e) + 1, Len(wire[e]))
         /\ wire'[Other(e)] = wire[Other(e)] \o bytes
         /\ bytes = <<>> => wire'[Other(e)] = wire[Other(e)]
<1> DEFINE o == Other(e)
           u == SubSeq(wire[e], Needed(e) + 1, Len(wire[e]))
           v == wire[o] \o bytes
<1>1. o \in End /\ o # e /\ \A f \in End : f = e \/ f = o
  BY Ends, Zenon
<1>2. wire \in [End -> Seq(Byte)] /\ wire[e] \in Seq(Byte) /\ wire[o] \in Seq(Byte)
  BY <1>1, Zenon DEF StreamTypeOK
<1>3. u \in Seq(Byte)
  BY <1>2
<1>4. v \in Seq(Byte)
  BY <1>2, Joined, Zenon
<1>5. wire' = [[wire EXCEPT ![e] = u] EXCEPT ![o] = v]
  BY <1>1, <1>2, Zenon DEF Transfer
<1>6. bytes = <<>> => v = wire[o]
  BY <1>2, JoinNothing, Zenon
<1> HIDE DEF u, v, o
<1>7. wire'[e] = u /\ wire'[o] = v /\ wire' \in [End -> Seq(Byte)]
  BY <1>1, <1>2, <1>3, <1>4, <1>5, Zenon
<1> QED
  BY <1>6, <1>7, Zenon DEF u, v, o

\* A step leaves what was sent first alone, unless it sends,
LEMMA FirstStays ==
  ASSUME NEW e \in End, FirstAt(e), theirs'[e] = theirs[e], sent'[e] = sent[e], foreign' = foreign,
         phase'[e] = phase[e] \/ phase'[e] = "Closed"
  PROVE  FirstAt(e)'
<1>1. phase'[e] = "Open" => phase[e] = "Open"
  OBVIOUS
<1> QED
  BY <1>1, Zenon DEF FirstAt, IsOurs

\* what was said in the greeting unless it reads or sends,
LEMMA GreetedStays ==
  ASSUME NEW e \in End, GreetedAt(e), theirs'[e] = theirs[e], sent'[e] = sent[e], got'[e] = got[e],
         awaiting'[e] = awaiting[e], phase'[e] = phase[e] \/ phase'[e] = "Closed"
  PROVE  GreetedAt(e)'
<1>1. /\ phase'[e] = "Greeting" => phase[e] = "Greeting"
      /\ phase'[e] = "Starting" => phase[e] = "Starting"
      /\ phase'[e] \in {"Starting", "Open"} => phase[e] \in {"Starting", "Open"}
  OBVIOUS
<1> QED
  BY <1>1, Zenon DEF GreetedAt

\* and what was said of pieces unless it sends or completes one.
LEMMA PiecesStay ==
  ASSUME PiecesOK, UNCHANGED <<foreign, sent, done, have, said, early>>
  PROVE  PiecesOK'
BY Zenon DEF PiecesOK, PiecesAt, IsOurs

\* An end that closes the connection takes nothing else along.
Closing(e) ==
  /\ phase' = [phase EXCEPT ![e] = "Closed"]
  /\ UNCHANGED <<own, foreign, theirs, wire, sent, done, have, said, early>>
  /\ got' = got

\* How far the ends are once one has closed.
LEMMA ClosedPhase ==
  ASSUME StreamTypeOK, NEW e \in End, phase' = [phase EXCEPT ![e] = "Closed"]
  PROVE  /\ phase' \in [End -> {"Greeting", "Starting", "Open", "Closed"}]
         /\ phase'[e] = "Closed" /\ \A f \in End : f # e => phase'[f] = phase[f]
         /\ \A f \in End : phase'[f] = phase[f] \/ phase'[f] = "Closed"
BY Zenon DEF StreamTypeOK

\* An end that gives up keeps the invariant.
LEMMA CloseKeeps ==
  ASSUME StreamInv, NEW e \in End, phase' = [phase EXCEPT ![e] = "Closed"],
         UNCHANGED <<own, foreign, theirs, wire, awaiting, sent, got, done, have, said, early>>
  PROVE  StreamInv'
<1>1. StreamTypeOK /\ GreetingsOK /\ WireOK /\ ReadOK /\ FirstOK /\ PiecesOK
  BY Zenon DEF StreamInv
<1>2. /\ own' = own /\ foreign' = foreign /\ theirs' = theirs /\ wire' = wire
      /\ awaiting' = awaiting /\ sent' = sent /\ got' = got /\ done' = done /\ have' = have
      /\ said' = said /\ early' = early
  OBVIOUS
<1>3. /\ phase' \in [End -> {"Greeting", "Starting", "Open", "Closed"}]
      /\ \A f \in End : phase'[f] = phase[f] \/ phase'[f] = "Closed"
  BY <1>1, ClosedPhase, Zenon
<1>4. StreamTypeOK'
  BY <1>1, <1>2, <1>3, Zenon DEF StreamTypeOK
<1>5. GreetingsOK'
  <2>1. \A f \in End : GreetedAt(f)'
    <3> SUFFICES ASSUME NEW f \in End PROVE GreetedAt(f)'
      OBVIOUS
    <3>1. GreetedAt(f)
      BY <1>1, Zenon DEF GreetingsOK
    <3> QED
      BY <1>2, <1>3, <3>1, GreetedStays, Zenon
  <2> QED
    BY <1>1, <1>2, <2>1, Zenon DEF GreetingsOK, Answer
<1>6. WireOK' /\ ReadOK'
  <2>1. \A f \in End : WireAt(f)' /\ ReadAt(f)'
    <3> SUFFICES ASSUME NEW f \in End PROVE WireAt(f)' /\ ReadAt(f)'
      OBVIOUS
    <3>1. WireAt(f) /\ ReadAt(f)
      BY <1>1, Zenon DEF WireOK, ReadOK
    <3> QED
      BY <1>2, <1>3, <3>1, WireStays, Zenon
  <2> QED
    BY <2>1, Zenon DEF WireOK, ReadOK
<1>7. FirstOK'
  <2>1. \A f \in End : FirstAt(f)'
    <3> SUFFICES ASSUME NEW f \in End PROVE FirstAt(f)'
      OBVIOUS
    <3>1. FirstAt(f)
      BY <1>1, Zenon DEF FirstOK
    <3> QED
      BY <1>2, <1>3, <3>1, FirstStays, Zenon
  <2> QED
    BY <2>1, Zenon DEF FirstOK
<1>8. PiecesOK'
  BY <1>1, <1>2, PiecesStay, Zenon
<1> QED
  BY <1>4, <1>5, <1>6, <1>7, <1>8, Zenon DEF StreamInv

\* No number is the absence of one.
LEMMA NotNothing == \A n \in Nat : n # NoNumber
BY DEF NoNumber

\* An end that is past its handshake and stays as it was but for what it has read.
LEMMA GreetedReads ==
  ASSUME NEW e \in End, phase[e] = "Open", GreetedAt(e), theirs'[e] = theirs[e],
         phase'[e] = phase[e] \/ phase'[e] = "Closed"
  PROVE  GreetedAt(e)'
<1>1. theirs'[e] # <<>> /\ phase'[e] # "Greeting" /\ phase'[e] # "Starting"
  BY DEF GreetedAt
<1> QED
  BY <1>1, Zenon DEF GreetedAt

\* A step of one end that changes only what is on the way to it and what it has
\* read of it.
Reading(e) ==
  /\ phase' = phase \/ phase' = [phase EXCEPT ![e] = "Closed"]
  /\ wire'[Other(e)] = wire[Other(e)]
  /\ awaiting'[Other(e)] = awaiting[Other(e)] /\ got'[Other(e)] = got[Other(e)]
  /\ UNCHANGED <<own, foreign, theirs, sent, done, have, said, early>>

\* A read keeps the invariant if the reader's own bytes are still as they should be.
LEMMA ReadingKeeps ==
  ASSUME StreamInv, NEW e \in End, phase[e] = "Open", Reading(e),
         wire' \in [End -> Seq(Byte)], awaiting' \in [End -> Nat \cup {NoNumber}],
         got' \in [End -> Seq(Heard)], WireAt(e)', ReadAt(e)'
  PROVE  StreamInv'
<1> DEFINE o == Other(e)
<1>1. o \in End /\ o # e /\ Other(o) = e /\ \A f \in End : f = e \/ f = o
  BY Ends, Zenon
<1>2. StreamTypeOK /\ GreetingsOK /\ WireOK /\ ReadOK /\ FirstOK /\ PiecesOK
  BY Zenon DEF StreamInv
<1>3. /\ own' = own /\ foreign' = foreign /\ theirs' = theirs
      /\ sent' = sent /\ done' = done /\ have' = have /\ said' = said /\ early' = early
      /\ wire'[o] = wire[o] /\ awaiting'[o] = awaiting[o] /\ got'[o] = got[o]
  BY Zenon DEF Reading
<1>4. /\ phase' \in [End -> {"Greeting", "Starting", "Open", "Closed"}]
      /\ \A f \in End : phase'[f] = phase[f] \/ phase'[f] = "Closed"
  <2>1. phase \in [End -> {"Greeting", "Starting", "Open", "Closed"}]
    BY <1>2, Zenon DEF StreamTypeOK
  <2> QED
    BY <1>2, <2>1, ClosedPhase, Zenon DEF Reading
<1>5. StreamTypeOK'
  BY <1>2, <1>3, <1>4, Zenon DEF StreamTypeOK
<1>6. GreetingsOK'
  <2>1. GreetedAt(e) /\ GreetedAt(o)
    BY <1>1, <1>2, Zenon DEF GreetingsOK
  <2>2. GreetedAt(e)'
    <3>1. theirs'[e] = theirs[e] /\ (phase'[e] = phase[e] \/ phase'[e] = "Closed")
      BY <1>3, <1>4, Zenon
    <3> QED
      BY <2>1, <3>1, GreetedReads, Zenon
  <2>3. GreetedAt(o)'
    BY <1>1, <1>3, <1>4, <2>1, GreetedStays, Zenon
  <2>4. \A f \in End : GreetedAt(f)'
    BY <1>1, <2>2, <2>3, Zenon
  <2> QED
    BY <1>2, <1>3, <2>4, Zenon DEF GreetingsOK, Answer
<1>7. WireOK' /\ ReadOK'
  <2>1. WireAt(o) /\ ReadAt(o)
    BY <1>1, <1>2, Zenon DEF WireOK, ReadOK
  <2>2. WireAt(o)' /\ ReadAt(o)'
    BY <1>1, <1>3, <1>4, <2>1, WireStays, Zenon
  <2> QED
    BY <1>1, <2>2, Zenon DEF WireOK, ReadOK
<1>8. FirstOK'
  <2>1. \A f \in End : FirstAt(f)'
    <3> SUFFICES ASSUME NEW f \in End PROVE FirstAt(f)'
      OBVIOUS
    <3>1. FirstAt(f)
      BY <1>2, Zenon DEF FirstOK
    <3> QED
      BY <1>3, <1>4, <3>1, FirstStays, Zenon
  <2> QED
    BY <2>1, Zenon DEF FirstOK
<1>9. PiecesOK'
  BY <1>2, <1>3, PiecesStay, Zenon
<1> QED
  BY <1>5, <1>6, <1>7, <1>8, <1>9, Zenon DEF StreamInv

\* So reading a header does,
LEMMA ReadHeaderKeeps ==
  ASSUME StreamInv, NEW e \in End, ReadHeader(e)
  PROVE  StreamInv'
<1> DEFINE o == Other(e)
           q == sent[o]
           k == Len(got[e])
           len == ReadU32(Read(e), 0)
<1>1. o \in End /\ o # e /\ Other(o) = e
  BY Ends, Zenon
<1>2. StreamTypeOK /\ WireAt(e) /\ ReadAt(e)
  BY Zenon DEF StreamInv, WireOK, ReadOK
<1>3. phase[e] = "Open" /\ awaiting[e] = NoNumber /\ CanRead(e)
  BY Zenon DEF ReadHeader
<1>4. Needed(e) = 4
  <2>1. phase[e] # "Greeting"
    BY <1>3
  <2> QED
    BY <1>3, <2>1, Zenon DEF Needed
<1>5. q \in Seq(Sendable) /\ k \in Nat /\ wire[e] \in Seq(Byte)
  BY <1>1, <1>2, Types, Zenon
<1>6. k <= Len(q)
  BY <1>2, Zenon DEF ReadAt
<1>7. wire[e] = Pending(e) /\ Pending(e) = FramesFrom(q, k)
  <2>1. phase[e] \in {"Starting", "Open"}
    BY <1>3
  <2>2. wire[e] = Due(Pending(e), awaiting[e])
    BY <1>2, <2>1, Zenon DEF WireAt
  <2> QED
    BY <1>3, <2>2, Zenon DEF Due, Pending
<1>8. k < Len(q)
  <2>1. Len(FramesFrom(q, k)) >= 4
    BY <1>3, <1>4, <1>7, Zenon DEF CanRead
  <2> QED
    BY <1>5, <1>6, <2>1, NothingLeft, Zenon
<1>9. len = ReadU32(SubSeq(FramesFrom(q, k), 1, 4), 0)
  BY <1>4, <1>7, Zenon DEF Read
<1>10. MaxMessageSize \in Nat
  BY StreamAssumption, Zenon
<1>11. len \in Nat
  BY <1>5, <1>8, <1>9, HeaderReads, Zenon
<1>12. CASE len > MaxMessageSize
  <2>1. /\ phase' = [phase EXCEPT ![e] = "Closed"]
        /\ UNCHANGED <<own, foreign, theirs, wire, awaiting, sent, got, done, have, said, early>>
    BY <1>12, Zenon DEF ReadHeader
  <2> QED
    BY <2>1, CloseKeeps, Zenon
<1>13. CASE ~(len > MaxMessageSize)
  <2>1. /\ awaiting' = [awaiting EXCEPT ![e] = len] /\ Transfer(e, <<>>) /\ phase' = phase
        /\ UNCHANGED <<own, foreign, theirs, sent, got, done, have, said, early>>
    BY <1>13, Zenon DEF ReadHeader
  <2>2. len <= MaxMessageSize
    BY <1>10, <1>11, <1>13
  <2>3. /\ len = Len(FrameOf(q[k + 1])) - 4
        /\ DecodeMessage(Payload(FrameOf(q[k + 1]))).ok =>
             Tells(DecodeMessage(Payload(FrameOf(q[k + 1]))).value, q[k + 1])
    BY <1>5, <1>8, <1>9, <2>2, HeaderReads, Zenon
  <2>4. /\ wire' \in [End -> Seq(Byte)] /\ wire'[e] = SubSeq(wire[e], 5, Len(wire[e]))
        /\ wire'[o] = wire[o]
    <3>1. 4 \in Nat /\ 4 + 1 = 5 /\ <<>> \in Seq(Byte)
      OBVIOUS
    <3>2. Needed(e) \in Nat
      BY <1>4, <3>1, Zenon
    <3>3. /\ wire' \in [End -> Seq(Byte)] /\ wire'[o] = wire[o]
          /\ wire'[e] = SubSeq(wire[e], Needed(e) + 1, Len(wire[e]))
      BY <1>2, <1>3, <2>1, <3>1, <3>2, Transferred, Zenon
    <3> QED
      BY <1>4, <3>1, <3>3, Zenon
  <2>5. /\ awaiting' \in [End -> Nat \cup {NoNumber}]
        /\ awaiting'[e] = len /\ awaiting'[o] = awaiting[o]
    <3>1. awaiting \in [End -> Nat \cup {NoNumber}]
      BY <1>2, Zenon DEF StreamTypeOK
    <3> HIDE DEF len
    <3> QED
      BY <1>1, <1>11, <2>1, <3>1, Zenon
  <2>6. /\ own' = own /\ theirs' = theirs /\ sent' = sent /\ got' = got
    BY <2>1, Zenon
  <2>7. WireAt(e)'
    <3>1. Pending(e)' = Pending(e)
      BY <2>6, Zenon DEF Pending
    <3>2. len # NoNumber
      BY <1>11, NotNothing, Zenon
    <3> HIDE DEF len
    <3>3. wire'[e] = Due(Pending(e), awaiting[e])'
      BY <1>7, <2>4, <2>5, <3>1, <3>2, Zenon DEF Due
    <3>4. phase'[e] # "Greeting"
      BY <1>3, <2>1
    <3>5. /\ Len(got'[e]) < Len(sent'[o])
          /\ LET x == sent'[o][Len(got'[e]) + 1]
                 f == FrameOf(x)
             IN  /\ awaiting'[e] = Len(f) - 4
                 /\ DecodeMessage(Payload(f)).ok => Tells(DecodeMessage(Payload(f)).value, x)
      BY <1>8, <2>3, <2>5, <2>6, Zenon
    <3> QED
      BY <3>3, <3>4, <3>5, Zenon DEF WireAt
  <2>8. ReadAt(e)'
    BY <1>2, <2>6, Zenon DEF ReadAt
  <2>9. Reading(e) /\ got' \in [End -> Seq(Heard)]
    BY <1>2, <2>1, <2>4, <2>5, <2>6, Zenon DEF Reading, StreamTypeOK
  <2> QED
    BY <1>3, <2>4, <2>5, <2>7, <2>8, <2>9, ReadingKeeps, Zenon
<1> QED
  BY <1>12, <1>13, Zenon

\* and reading a payload.
LEMMA ReadPayloadKeeps ==
  ASSUME StreamInv, NEW e \in End, ReadPayload(e)
  PROVE  StreamInv'
<1> DEFINE o == Other(e)
           q == sent[o]
           k == Len(got[e])
           x == q[k + 1]
           f == FrameOf(x)
           p == Payload(f)
           after == FramesFrom(q, k + 1)
           m == DecodeMessage(p)
<1>1. o \in End /\ o # e /\ Other(o) = e
  BY Ends, Zenon
<1>2. StreamTypeOK /\ WireAt(e) /\ ReadAt(e)
  BY Zenon DEF StreamInv, WireOK, ReadOK
<1>3. phase[e] = "Open" /\ awaiting[e] # NoNumber /\ CanRead(e)
  BY Zenon DEF ReadPayload
<1>4. Needed(e) = awaiting[e]
  <2>1. phase[e] # "Greeting"
    BY <1>3
  <2> QED
    BY <1>3, <2>1, Zenon DEF Needed
<1>5. q \in Seq(Sendable) /\ k \in Nat /\ wire[e] \in Seq(Byte) /\ got[e] \in Seq(Heard)
  BY <1>1, <1>2, Types, Zenon
<1>6. /\ k < Len(q) /\ awaiting[e] = Len(f) - 4
      /\ m.ok => Tells(m.value, x)
  BY <1>2, <1>3, Zenon DEF WireAt
<1>7. /\ p \in Seq(Byte) /\ after \in Seq(Byte) /\ Len(p) = Len(f) - 4
      /\ SubSeq(FramesFrom(q, k), 5, Len(FramesFrom(q, k))) = p \o after
  BY <1>5, <1>6, FirstFrame, Zenon
<1>8. wire[e] = p \o after
  <2>1. phase[e] \in {"Starting", "Open"}
    BY <1>3
  <2>2. wire[e] = Due(Pending(e), awaiting[e])
    BY <1>2, <2>1, Zenon DEF WireAt
  <2> QED
    BY <1>3, <1>7, <2>2, Zenon DEF Due, Pending
<1>9. Needed(e) = Len(p) /\ Needed(e) \in Nat
  <2>1. Needed(e) = Len(p)
    BY <1>4, <1>6, <1>7, Zenon
  <2>2. Len(p) \in Nat
    BY <1>7
  <2> QED
    BY <2>1, <2>2, Zenon
<1> HIDE DEF x, f, p, after, m
<1>10. Read(e) = p /\ SubSeq(wire[e], Needed(e) + 1, Len(wire[e])) = after
  BY <1>7, <1>8, <1>9, WholePart, Zenon DEF Read
<1>11. /\ IF m.ok THEN got' = [got EXCEPT ![e] = Append(@, m.value)] /\ UNCHANGED phase
          ELSE phase' = [phase EXCEPT ![e] = "Closed"] /\ UNCHANGED got
       /\ awaiting' = [awaiting EXCEPT ![e] = NoNumber] /\ Transfer(e, <<>>)
       /\ UNCHANGED <<own, foreign, theirs, sent, done, have, said, early>>
  BY <1>10, Zenon DEF ReadPayload, m
<1>12. /\ wire' \in [End -> Seq(Byte)] /\ wire'[e] = after /\ wire'[o] = wire[o]
  <2>1. <<>> \in Seq(Byte)
    OBVIOUS
  <2> QED
    BY <1>2, <1>3, <1>9, <1>10, <1>11, <2>1, Transferred, Zenon
<1>13. /\ awaiting' \in [End -> Nat \cup {NoNumber}]
       /\ awaiting'[e] = NoNumber /\ awaiting'[o] = awaiting[o]
  <2>1. awaiting \in [End -> Nat \cup {NoNumber}]
    BY <1>2, Zenon DEF StreamTypeOK
  <2> QED
    BY <1>1, <1>11, <2>1, Zenon
<1>14. own' = own /\ theirs' = theirs /\ sent' = sent
  BY <1>11, Zenon
<1>15. got \in [End -> Seq(Heard)]
  BY <1>2, Zenon DEF StreamTypeOK
<1>16. k <= Len(q) /\ \A i \in 1 .. k : Tells(got[e][i], q[i])
  BY <1>2, Zenon DEF ReadAt
<1>17. CASE m.ok
  <2> DEFINE r == Append(got[e], m.value)
  <2>1. got' = [got EXCEPT ![e] = r] /\ phase' = phase
    BY <1>11, <1>17, Zenon
  <2>2. m.value \in Heard
    BY <1>7, Zenon DEF Heard, m
  <2>3. r \in Seq(Heard) /\ Len(r) = k + 1 /\ (\A i \in 1 .. k : r[i] = got[e][i]) /\ r[k + 1] = m.value
    BY <1>5, <2>2
  <2> HIDE DEF r
  <2>4. got' \in [End -> Seq(Heard)] /\ got'[e] = r /\ got'[o] = got[o]
    BY <1>1, <1>15, <2>1, <2>3, Zenon
  <2>5. WireAt(e)'
    <3>1. Pending(e)' = after
      BY <1>14, <2>3, <2>4, Zenon DEF Pending, after
    <3>2. wire'[e] = Due(Pending(e), awaiting[e])'
      BY <1>12, <1>13, <3>1, Zenon DEF Due
    <3>3. phase'[e] # "Greeting"
      BY <1>3, <2>1
    <3> QED
      BY <1>13, <3>2, <3>3, Zenon DEF WireAt
  <2>6. ReadAt(e)'
    <3>1. Len(r) <= Len(q) /\ \A i \in 1 .. Len(r) : i \in 1 .. k \/ i = k + 1
      BY <1>5, <1>6, <2>3
    <3>2. \A i \in 1 .. Len(r) : Tells(r[i], q[i])
      BY <1>6, <1>16, <1>17, <2>3, <3>1, Zenon DEF x
    <3> QED
      BY <1>14, <2>4, <3>1, <3>2, Zenon DEF ReadAt
  <2>7. Reading(e)
    BY <1>11, <1>12, <1>13, <2>1, <2>4, Zenon DEF Reading
  <2> QED
    BY <1>3, <1>12, <1>13, <2>4, <2>5, <2>6, <2>7, ReadingKeeps, Zenon
<1>18. CASE ~m.ok
  <2>1. got' = got /\ phase' = [phase EXCEPT ![e] = "Closed"]
    BY <1>11, <1>18, Zenon
  <2>2. phase'[e] = "Closed"
    BY <1>2, <2>1, ClosedPhase, Zenon
  <2>3. phase'[e] # "Greeting" /\ phase'[e] \notin {"Starting", "Open"}
    BY <2>2
  <2>4. WireAt(e)'
    BY <1>13, <2>3, Zenon DEF WireAt
  <2>5. ReadAt(e)'
    BY <1>2, <1>14, <2>1, Zenon DEF ReadAt
  <2>6. Reading(e) /\ got' \in [End -> Seq(Heard)]
    BY <1>11, <1>12, <1>13, <1>15, <2>1, Zenon DEF Reading
  <2> QED
    BY <1>3, <1>12, <1>13, <2>4, <2>5, <2>6, ReadingKeeps, Zenon
<1> QED
  BY <1>17, <1>18, Zenon

\* A handshake is not the absence of one.
LEMMA HandshakeIsSome ==
  ASSUME NEW h \in Handshake
  PROVE  h # <<>>
<1>1. "peerId" \in DOMAIN h
  BY DEF Handshake
<1>2. "peerId" \notin DOMAIN <<>>
  OBVIOUS
<1> QED
  BY <1>1, <1>2, Zenon

\* The handshake an end reads first.
Greeter(e) == IF e = "Listener" THEN own["Dialer"] ELSE Answer

\* What an end reads first is the handshake of the other one.
LEMMA FirstRead ==
  ASSUME StreamInv, NEW e \in End, phase[e] = "Greeting", CanRead(e)
  PROVE  LET h == Greeter(e)
         IN  /\ h \in Handshake /\ Needed(e) \in Nat
             /\ e = "Dialer" => theirs["Listener"] # <<>>
             /\ DecodeHandshake(Read(e)) = Accepted(h)
             /\ SubSeq(wire[e], Needed(e) + 1, Len(wire[e])) = Pending(e)
             /\ theirs[e] = <<>> /\ sent[e] = <<>> /\ got[e] = <<>> /\ awaiting[e] = NoNumber
<1> DEFINE h == Greeter(e)
           s == EncodeHandshake(h)
<1>1. StreamTypeOK /\ WireAt(e) /\ GreetingsOK /\ GreetedAt(e)
  BY Zenon DEF StreamInv, WireOK, GreetingsOK
<1>2. theirs[e] = <<>> /\ sent[e] = <<>> /\ got[e] = <<>> /\ awaiting[e] = NoNumber
  BY <1>1, Zenon DEF GreetedAt
<1>3. Needed(e) = HandshakeLen
  <2>1. ~(phase[e] # "Greeting")
    OBVIOUS
  <2> QED
    BY <2>1, Zenon DEF Needed
<1>4. HandshakeLen \in Nat /\ HandshakeLen > 0
  BY DEF HandshakeLen
<1>5. wire[e] = Greeting(e) \o Pending(e)
  BY <1>1, Zenon DEF WireAt
<1>6. h \in Handshake
  BY <1>1, Ends, AnswerIs, Zenon DEF StreamTypeOK, Greeter
<1>7. s \in Seq(Byte) /\ Len(s) = HandshakeLen /\ DecodeHandshake(s) = Accepted(h)
  BY <1>6, HandshakeReads, Zenon
<1>8. ASSUME e = "Dialer", theirs["Listener"] = <<>> PROVE FALSE
  <2>1. sent["Listener"] = <<>>
    BY <1>1, <1>8, Ends, Zenon DEF GreetingsOK, GreetedAt
  <2>2. Pending(e) = <<>>
    BY <1>2, <1>8, <2>1, Ends, NothingFramed, Zenon DEF Pending
  <2>3. Greeting(e) = <<>>
    BY <1>8, Ends, Zenon DEF Greeting
  <2>4. wire[e] = <<>>
    <3>1. <<>> \in Seq(Byte)
      OBVIOUS
    <3> QED
      BY <1>5, <2>2, <2>3, <3>1, JoinNothing, Zenon
  <2>5. Len(wire[e]) = 0
    BY <2>4
  <2>6. Len(wire[e]) >= HandshakeLen
    BY <1>3, Zenon DEF CanRead
  <2> QED
    BY <1>4, <2>5, <2>6
<1>9. Greeting(e) = s
  BY <1>8, Ends, Zenon DEF Greeting, Greeter
<1>10. Pending(e) \in Seq(Byte)
  <2>1. Other(e) \in End
    BY Ends, Zenon
  <2>2. sent[Other(e)] \in Seq(Sendable) /\ Len(got[e]) = 0
    <3>1. Len(got[e]) = 0
      BY <1>2
    <3> QED
      BY <1>1, <2>1, <3>1, Types, Zenon
  <2>3. 0 \in 0 .. Len(sent[Other(e)])
    BY <2>2
  <2> QED
    BY <2>2, <2>3, SentFramed, FramesFromType, Zenon DEF Pending
<1> HIDE DEF s, h
<1>11. Read(e) = s /\ SubSeq(wire[e], Needed(e) + 1, Len(wire[e])) = Pending(e)
  <2>1. /\ SubSeq(s \o Pending(e), 1, Len(s)) = s
        /\ SubSeq(s \o Pending(e), Len(s) + 1, Len(s \o Pending(e))) = Pending(e)
    BY <1>7, <1>10, WholePart, Zenon
  <2>2. wire[e] = s \o Pending(e) /\ Needed(e) = Len(s)
    BY <1>3, <1>5, <1>7, <1>9, Zenon
  <2> QED
    BY <2>1, <2>2, Zenon DEF Read
<1> QED
  BY <1>2, <1>3, <1>4, <1>6, <1>7, <1>8, <1>11, Zenon DEF h

\* Reading it keeps the invariant.
LEMMA ReadHandshakeKeeps ==
  ASSUME StreamInv, NEW e \in End, ReadHandshake(e)
  PROVE  StreamInv'
<1> DEFINE o == Other(e)
           h == Greeter(e)
           answer == [own[e] EXCEPT !.infoHash = h.infoHash]
           bytes == IF e = "Listener" THEN EncodeHandshake(answer) ELSE <<>>
<1>1. o \in End /\ o # e /\ Other(o) = e /\ (\A f \in End : f = e \/ f = o) /\ "Listener" \in End
  BY Ends, Zenon
<1>2. StreamTypeOK /\ GreetingsOK /\ WireOK /\ ReadOK /\ FirstOK /\ PiecesOK
  BY Zenon DEF StreamInv
<1>3. phase[e] = "Greeting" /\ CanRead(e)
  BY Zenon DEF ReadHandshake
<1>4. /\ h \in Handshake /\ Needed(e) \in Nat
      /\ e = "Dialer" => theirs["Listener"] # <<>>
      /\ DecodeHandshake(Read(e)) = Accepted(h)
      /\ SubSeq(wire[e], Needed(e) + 1, Len(wire[e])) = Pending(e)
      /\ theirs[e] = <<>> /\ sent[e] = <<>> /\ got[e] = <<>> /\ awaiting[e] = NoNumber
  BY <1>3, FirstRead, Zenon
<1>5. Accepted(h).value = h
  BY DEF Accepted
<1> HIDE DEF h
<1>6. /\ IF Welcome(e, Accepted(h))
         THEN /\ theirs' = [theirs EXCEPT ![e] = h]
              /\ phase' = [phase EXCEPT ![e] = "Starting"]
              /\ Transfer(e, bytes)
         ELSE /\ phase' = [phase EXCEPT ![e] = "Closed"]
              /\ UNCHANGED <<theirs, wire>>
      /\ UNCHANGED <<own, foreign, awaiting, sent, got, done, have, said, early>>
  BY <1>4, <1>5, Zenon DEF ReadHandshake
<1>7. CASE ~Welcome(e, Accepted(h))
  <2>1. /\ phase' = [phase EXCEPT ![e] = "Closed"]
        /\ UNCHANGED <<own, foreign, theirs, wire, awaiting, sent, got, done, have, said, early>>
    BY <1>6, <1>7, Zenon
  <2> QED
    BY <2>1, CloseKeeps, Zenon
<1>8. CASE Welcome(e, Accepted(h))
  <2>1. /\ theirs' = [theirs EXCEPT ![e] = h] /\ phase' = [phase EXCEPT ![e] = "Starting"]
        /\ Transfer(e, bytes)
        /\ own' = own /\ foreign' = foreign /\ awaiting' = awaiting /\ sent' = sent /\ got' = got
        /\ done' = done /\ have' = have /\ said' = said /\ early' = early
    BY <1>6, <1>8, Zenon
  <2>2. /\ h.peerId # own[e].peerId
        /\ e = "Listener" => h.infoHash \in Registered
    BY <1>5, <1>8, Zenon DEF Welcome
  <2>3. h # <<>>
    BY <1>4, HandshakeIsSome, Zenon
  <2>4. e = "Listener" => h = own["Dialer"] /\ answer = Answer
    BY Zenon DEF Greeter, h, Answer
  <2>5. e = "Dialer" => h = Answer
    BY Ends, Zenon DEF Greeter, h
  <2>6. Answer \in Handshake /\ Answer.peerId = own["Listener"].peerId
    BY <1>2, AnswerIs, Zenon DEF StreamTypeOK
  <2>7. bytes \in Seq(Byte)
    <3>1. <<>> \in Seq(Byte)
      OBVIOUS
    <3> QED
      BY <2>4, <2>6, <3>1, HandshakeReads, Zenon
  <2>8. /\ wire' \in [End -> Seq(Byte)] /\ wire'[e] = Pending(e)
        /\ wire'[o] = wire[o] \o bytes /\ (e = "Dialer" => wire'[o] = wire[o])
    <3>1. e = "Dialer" => bytes = <<>>
      BY Ends, Zenon
    <3> HIDE DEF bytes
    <3> QED
      BY <1>2, <1>3, <1>4, <2>1, <2>7, <3>1, Transferred, Zenon
  <2> HIDE DEF bytes
  <2>9. /\ theirs' \in [End -> Handshake \cup {<<>>}]
        /\ theirs'[e] = h /\ theirs'[o] = theirs[o]
    <3>1. theirs \in [End -> Handshake \cup {<<>>}]
      BY <1>2, Zenon DEF StreamTypeOK
    <3> QED
      BY <1>1, <1>4, <2>1, <3>1, Zenon
  <2>10. /\ phase' \in [End -> {"Greeting", "Starting", "Open", "Closed"}]
         /\ phase'[e] = "Starting" /\ phase'[o] = phase[o]
    <3>1. phase \in [End -> {"Greeting", "Starting", "Open", "Closed"}]
      BY <1>2, Zenon DEF StreamTypeOK
    <3>2. "Starting" \in {"Greeting", "Starting", "Open", "Closed"}
      OBVIOUS
    <3> QED
      BY <1>1, <2>1, <3>1, <3>2, Zenon
  <2>11. StreamTypeOK'
    BY <1>2, <2>1, <2>8, <2>9, <2>10, Zenon DEF StreamTypeOK
  <2>12. GreetedAt(e) /\ GreetedAt(o)
    BY <1>1, <1>2, Zenon DEF GreetingsOK
  <2>13. GreetingsOK'
    <3>1. phase'[e] # "Greeting"
      BY <2>10
    <3>2. GreetedAt(e)'
      BY <1>4, <2>1, <2>3, <2>9, <3>1, Zenon DEF GreetedAt
    <3>3. GreetedAt(o)'
      BY <1>1, <2>1, <2>9, <2>10, <2>12, GreetedStays, Zenon
    <3>4. \A f \in End : GreetedAt(f)'
      BY <1>1, <3>2, <3>3, Zenon
    <3>5. Answer' = Answer
      BY <2>1, Zenon DEF Answer
    <3>6. CASE e = "Listener"
      <4>1. o = "Dialer"
        BY <3>6, Ends, Zenon
      <4>2. theirs["Dialer"] = <<>>
        BY <1>2, <1>4, <3>6, Zenon DEF GreetingsOK
      <4> QED
        BY <2>1, <2>2, <2>4, <2>9, <3>4, <3>6, <4>1, <4>2, Zenon DEF GreetingsOK
    <3>7. CASE e = "Dialer"
      <4>1. o = "Listener"
        BY <3>7, Ends, Zenon
      <4>2. theirs'["Dialer"] = Answer' /\ own'["Dialer"].peerId # own'["Listener"].peerId
        BY <2>1, <2>2, <2>5, <2>6, <2>9, <3>5, <3>7, Zenon
      <4>3. theirs'["Listener"] # <<>> /\ theirs'["Listener"] = own'["Dialer"]
            /\ own'["Dialer"].infoHash \in Registered
        BY <1>2, <1>4, <2>1, <2>9, <3>7, <4>1, Zenon DEF GreetingsOK
      <4> QED
        BY <3>4, <4>2, <4>3, Zenon DEF GreetingsOK
    <3> QED
      BY <3>6, <3>7, Ends, Zenon
  <2>14. WireAt(e)' /\ ReadAt(e)'
    <3>1. Pending(e)' = Pending(e)
      BY <2>1, Zenon DEF Pending
    <3>2. wire'[e] = Due(Pending(e), awaiting[e])'
      BY <1>4, <2>1, <2>8, <3>1, Zenon DEF Due
    <3>3. phase'[e] # "Greeting"
      BY <2>10
    <3>4. ReadAt(e)
      BY <1>2, Zenon DEF ReadOK
    <3> QED
      BY <1>4, <2>1, <3>2, <3>3, <3>4, Zenon DEF WireAt, ReadAt
  <2>15. WireAt(o)' /\ ReadAt(o)'
    <3>1. WireAt(o) /\ ReadAt(o)
      BY <1>1, <1>2, Zenon DEF WireOK, ReadOK
    <3>2. CASE e = "Dialer"
      <4>1. o = "Listener"
        BY <3>2, Ends, Zenon
      <4> QED
        BY <1>1, <2>1, <2>8, <2>9, <2>10, <3>1, <3>2, <4>1, WireStays, Zenon
    <3>3. CASE e = "Listener"
      <4>1. o = "Dialer"
        BY <3>3, Ends, Zenon
      <4>2. theirs["Dialer"] = <<>>
        BY <1>2, <1>4, <3>3, Zenon DEF GreetingsOK
      <4>3. got[o] = <<>> /\ awaiting[o] = NoNumber
        BY <2>12, <4>1, <4>2, Zenon DEF GreetedAt
      <4>4. phase[o] \notin {"Starting", "Open"}
        BY <2>12, <4>1, <4>2, Zenon DEF GreetedAt
      <4>5. Pending(o) = <<>> /\ Pending(o)' = <<>>
        BY <1>1, <1>4, <2>1, <4>3, NothingFramed, Zenon DEF Pending
      <4>6. Greeting(o) = <<>>
        BY <1>4, <3>3, <4>1, Ends, Zenon DEF Greeting
      <4>7. Greeting(o)' = bytes
        <5>1. bytes = EncodeHandshake(Answer)
          BY <2>4, <3>3, Zenon DEF bytes
        <5>2. Answer' = Answer /\ theirs'["Listener"] # <<>>
          BY <2>1, <2>3, <2>9, <3>3, Zenon DEF Answer
        <5> QED
          BY <4>1, <5>1, <5>2, Ends, Zenon DEF Greeting
      <4>8. phase[o] = "Greeting" => wire'[o] = bytes
        <5>1. <<>> \in Seq(Byte)
          OBVIOUS
        <5>2. phase[o] = "Greeting" => wire[o] = <<>>
          BY <3>1, <4>5, <4>6, <5>1, JoinNothing, Zenon DEF WireAt
        <5> QED
          BY <2>7, <2>8, <5>2, JoinNothing, Zenon
      <4>9. phase'[o] = "Greeting" => wire'[o] = (Greeting(o) \o Pending(o))'
        <5>1. bytes \o <<>> = bytes
          BY <2>7, JoinNothing, Zenon
        <5> QED
          BY <2>10, <4>5, <4>7, <4>8, <5>1, Zenon
      <4>10. WireAt(o)'
        BY <2>1, <2>10, <4>3, <4>4, <4>9, Zenon DEF WireAt
      <4>11. ReadAt(o)'
        BY <2>1, <3>1, Zenon DEF ReadAt
      <4> QED
        BY <4>10, <4>11, Zenon
    <3> QED
      BY <3>2, <3>3, Ends, Zenon
  <2>16. FirstAt(e)' /\ FirstAt(o)'
    <3>1. FirstAt(o)
      BY <1>1, <1>2, Zenon DEF FirstOK
    <3>2. FirstAt(o)'
      BY <1>1, <2>1, <2>9, <2>10, <3>1, FirstStays, Zenon
    <3>3. phase'[e] # "Open"
      BY <2>10
    <3>4. FirstAt(e)'
      BY <1>4, <2>1, <3>3, Zenon DEF FirstAt
    <3> QED
      BY <3>2, <3>4, Zenon
  <2>17. WireOK' /\ ReadOK' /\ FirstOK'
    BY <1>1, <2>14, <2>15, <2>16, Zenon DEF WireOK, ReadOK, FirstOK
  <2>18. PiecesOK'
    BY <1>2, <2>1, PiecesStay, Zenon
  <2> QED
    BY <2>11, <2>13, <2>17, <2>18, Zenon DEF StreamInv
<1> QED
  BY <1>7, <1>8, Zenon

-----------------------------------------------------------------------------
\* Steps that send

\* A sequence that is added to begins as before.
LEMMA AppendedFirst ==
  ASSUME NEW M, NEW q \in Seq(M), NEW x \in M
  PROVE  LET r == Append(q, x)
         IN  r # <<>> /\ (q # <<>> => r[1] = q[1]) /\ (q = <<>> => r[1] = x)
OBVIOUS

\* Sending keeps the invariant if what was said of pieces is still as it should be.
LEMMA SendKeeps ==
  ASSUME StreamInv, NEW e \in End, NEW x \in Sendable, Sending(e, x),
         phase' \in [End -> {"Greeting", "Starting", "Open", "Closed"}],
         \A f \in End : phase'[f] = phase[f] \/ (f = e /\ phase[f] = "Starting" /\ phase'[f] = "Open"),
         phase'[e] = "Open",
         theirs[e].extension /\ IsOurs(e) => sent[e] # <<>> \/ x = OurExtensions,
         done' \in [End -> SUBSET Piece], said' \in [End -> BOOLEAN],
         have' \in [End -> BitfieldOf(NumPieces)], early' \in [End -> Seq(News)], PiecesOK'
  PROVE  StreamInv'
<1> DEFINE o == Other(e)
<1>1. o \in End /\ o # e /\ (\A f \in End : f = e \/ f = o)
  BY Ends, Zenon
<1>2. StreamTypeOK /\ GreetingsOK /\ FirstOK
  BY Zenon DEF StreamInv
<1>3. own' = own /\ foreign' = foreign /\ theirs' = theirs /\ awaiting' = awaiting /\ got' = got
  BY Zenon DEF Sending
<1>4. WireOK' /\ ReadOK' /\ wire' \in [End -> Seq(Byte)] /\ sent' \in [End -> Seq(Sendable)]
  BY SendKeepsWire, Zenon
<1>5. sent'[e] = Append(sent[e], x) /\ sent'[o] = sent[o]
  <2>1. sent \in [End -> Seq(Sendable)]
    BY <1>2, Zenon DEF StreamTypeOK
  <2> QED
    BY <1>1, <2>1, Zenon DEF Sending
<1>6. StreamTypeOK'
  BY <1>2, <1>3, <1>4, Zenon DEF StreamTypeOK
<1>7. phase'[o] = phase[o]
  BY <1>1, Zenon
<1>8. GreetingsOK'
  <2>1. GreetedAt(e) /\ GreetedAt(o)
    BY <1>1, <1>2, Zenon DEF GreetingsOK
  <2>2. theirs[e] # <<>>
    <3>1. phase[e] = "Open" \/ phase[e] = "Starting"
      BY Zenon
    <3>2. phase[e] \in {"Starting", "Open"}
      BY <3>1
    <3> QED
      BY <2>1, <3>2, Zenon DEF GreetedAt
  <2>3. phase'[e] # "Greeting" /\ phase'[e] # "Starting"
    OBVIOUS
  <2>4. GreetedAt(e)'
    BY <1>3, <2>2, <2>3, Zenon DEF GreetedAt
  <2>5. GreetedAt(o)'
    BY <1>1, <1>3, <1>5, <1>7, <2>1, GreetedStays, Zenon
  <2>6. \A f \in End : GreetedAt(f)'
    BY <1>1, <2>4, <2>5, Zenon
  <2> QED
    BY <1>2, <1>3, <2>6, Zenon DEF GreetingsOK, Answer
<1>9. FirstOK'
  <2>1. FirstAt(e) /\ FirstAt(o)
    BY <1>1, <1>2, Zenon DEF FirstOK
  <2>2. FirstAt(o)'
    BY <1>1, <1>3, <1>5, <1>7, <2>1, FirstStays, Zenon
  <2> DEFINE q == sent[e]
             r == Append(q, x)
  <2>3. q \in Seq(Sendable)
    BY <1>2, Types, Zenon
  <2> HIDE DEF q
  <2>4. /\ r # <<>> /\ (q # <<>> => r[1] = q[1]) /\ (q = <<>> => r[1] = x)
    BY <2>3, AppendedFirst
  <2> HIDE DEF r
  <2>5. FirstAt(e)'
    BY <1>3, <1>5, <2>1, <2>4, Zenon DEF FirstAt, IsOurs, q, r
  <2> QED
    BY <1>1, <2>2, <2>5, Zenon DEF FirstOK
<1> QED
  BY <1>4, <1>6, <1>8, <1>9, Zenon DEF StreamInv

\* Nothing changes what the other end has said of its pieces.
LEMMA PiecesOfOther ==
  ASSUME NEW f \in End, PiecesAt(f), foreign' = foreign, sent'[f] = sent[f], done'[f] = done[f],
         have'[f] = have[f], said'[f] = said[f], early'[f] = early[f]
  PROVE  PiecesAt(f)'
BY Zenon DEF PiecesAt, IsOurs

\* What is said is sent.
LEMMA SaidIsSending ==
  ASSUME NEW e \in End, NEW m, ~IsRaw(m), Say(e, m), UNCHANGED <<own, foreign, theirs, awaiting, got>>
  PROVE  Sending(e, m)
<1>1. FrameOf(m) = Frame(EncodeMessage(Wire(m)))
  BY Zenon DEF FrameOf
<1> QED
  BY <1>1, Zenon DEF Say, Send, Sending

\* What a step leaves of the histories of both ends when e sends x.
LEMMA SentAs ==
  ASSUME StreamTypeOK, NEW e \in End, NEW x, Sending(e, x)
  PROVE  sent'[e] = Append(sent[e], x) /\ sent'[Other(e)] = sent[Other(e)]
<1>1. sent \in [End -> Seq(Sendable)] /\ Other(e) \in End /\ Other(e) # e
  BY Ends, Zenon DEF StreamTypeOK
<1> QED
  BY <1>1, Zenon DEF Sending

\* A message that names no piece.
LEMMA PlainKeepsPieces ==
  ASSUME StreamInv, NEW e \in End, NEW x \in Sendable, Sending(e, x), Plain(x), ~IsRaw(x),
         UNCHANGED <<done, have, said, early>>
  PROVE  PiecesOK'
<1> DEFINE o == Other(e)
<1>1. o \in End /\ o # e /\ (\A f \in End : f = e \/ f = o)
  BY Ends, Zenon
<1>2. StreamTypeOK /\ PiecesAt(e) /\ PiecesAt(o)
  BY <1>1, Zenon DEF StreamInv, PiecesOK
<1>3. sent'[e] = Append(sent[e], x) /\ sent'[o] = sent[o] /\ foreign' = foreign
  BY <1>2, SentAs, Zenon DEF Sending
<1>4. done' = done /\ have' = have /\ said' = said /\ early' = early
  OBVIOUS
<1>5. PiecesAt(o)'
  BY <1>1, <1>2, <1>3, <1>4, PiecesOfOther, Zenon
<1>6. PiecesAt(e)'
  <2>1. sent[e] \in Seq(Sendable) /\ said[e] \in BOOLEAN
    BY <1>2, Types, Zenon
  <2>2. Introduced(sent[e], done[e], said[e]) => Introduced(Append(sent[e], x), done[e], said[e])
    BY <2>1, IntroducedPlain, Zenon
  <2> QED
    BY <1>2, <1>3, <1>4, <2>2, Zenon DEF PiecesAt, IsOurs
<1> QED
  BY <1>1, <1>5, <1>6, Zenon DEF PiecesOK

\* So a message that says nothing of pieces does,
LEMMA TellKeeps ==
  ASSUME StreamInv, NEW e \in End, NEW m \in Talk[e], Tell(e, m)
  PROVE  StreamInv'
<1>1. m \in Sendable /\ Plain(m) /\ ~IsRaw(m)
  BY SpokenCarries, Zenon
<1>2. Sending(e, m)
  <2>1. Say(e, m) /\ UNCHANGED <<own, foreign, theirs, awaiting, got>>
    BY Zenon DEF Tell
  <2> QED
    BY <1>1, <2>1, SaidIsSending, Zenon
<1>3. phase' = phase /\ done' = done /\ have' = have /\ said' = said /\ early' = early
  BY Zenon DEF Tell
<1>4. phase[e] = "Open"
  BY Zenon DEF Tell, MaySay, MaySend
<1>5. PiecesOK'
  BY <1>1, <1>2, <1>3, PlainKeepsPieces, Zenon
<1>6. StreamTypeOK /\ FirstAt(e) /\ GreetedAt(e)
  BY Zenon DEF StreamInv, FirstOK, GreetingsOK
<1>7. theirs[e].extension /\ IsOurs(e) => sent[e] # <<>>
  <2>1. theirs[e] # <<>>
    <3>1. phase[e] \in {"Starting", "Open"}
      BY <1>4
    <3> QED
      BY <1>6, <3>1, Zenon DEF GreetedAt
  <2> QED
    BY <1>4, <1>6, <2>1, Zenon DEF FirstAt
<1>8. /\ phase' \in [End -> {"Greeting", "Starting", "Open", "Closed"}]
      /\ done' \in [End -> SUBSET Piece] /\ said' \in [End -> BOOLEAN]
      /\ have' \in [End -> BitfieldOf(NumPieces)] /\ early' \in [End -> Seq(News)]
  BY <1>3, <1>6, Zenon DEF StreamTypeOK
<1> QED
  BY <1>1, <1>2, <1>3, <1>4, <1>5, <1>7, <1>8, SendKeeps, Zenon

\* the extension handshake,
LEMMA StartKeeps ==
  ASSUME StreamInv, NEW e \in End, Start(e)
  PROVE  StreamInv'
<1> DEFINE o == Other(e)
<1>1. o \in End /\ o # e /\ (\A f \in End : f = e \/ f = o)
  BY Ends, Zenon
<1>2. StreamTypeOK /\ GreetingsOK /\ WireOK /\ ReadOK /\ FirstOK /\ PiecesOK
  BY Zenon DEF StreamInv
<1>3. /\ phase[e] = "Starting" /\ phase' = [phase EXCEPT ![e] = "Open"]
      /\ own' = own /\ foreign' = foreign /\ theirs' = theirs /\ awaiting' = awaiting /\ got' = got
      /\ done' = done /\ have' = have /\ said' = said /\ early' = early
  BY Zenon DEF Start
<1>4. /\ phase' \in [End -> {"Greeting", "Starting", "Open", "Closed"}]
      /\ phase'[e] = "Open" /\ phase'[o] = phase[o]
  <2>1. phase \in [End -> {"Greeting", "Starting", "Open", "Closed"}]
    BY <1>2, Zenon DEF StreamTypeOK
  <2>2. "Open" \in {"Greeting", "Starting", "Open", "Closed"}
    OBVIOUS
  <2> QED
    BY <1>1, <1>3, <2>1, <2>2, Zenon
<1>5. \A f \in End : phase'[f] = phase[f] \/ (f = e /\ phase[f] = "Starting" /\ phase'[f] = "Open")
  BY <1>1, <1>3, <1>4, Zenon
<1>6. CASE theirs[e].extension /\ IsOurs(e)
  <2> DEFINE x == OurExtensions
  <2>1. x \in Sendable /\ Plain(x) /\ ~IsRaw(x)
    BY AllSendable, ExtensionsCarry, Zenon
  <2>2. Sending(e, x)
    <3>1. /\ Send(e, Frame(EncodeMessage(x)))
          /\ sent' = [sent EXCEPT ![e] = Append(@, x)]
      BY <1>6, Zenon DEF Start
    <3>2. Wire(x) = x
      <4>1. "type" \in DOMAIN x /\ x.type \notin {"ut_metadata", "ut_pex"}
        BY DEF OurExtensions
      <4> QED
        BY <4>1, TellsItself, Zenon
    <3>3. FrameOf(x) = Frame(EncodeMessage(x))
      BY <2>1, <3>2, Zenon DEF FrameOf
    <3> HIDE DEF x
    <3> QED
      BY <1>3, <3>1, <3>3, Zenon DEF Sending, Send
  <2> HIDE DEF x
  <2>3. PiecesOK'
    BY <1>3, <2>1, <2>2, PlainKeepsPieces, Zenon
  <2>4. /\ done' \in [End -> SUBSET Piece] /\ said' \in [End -> BOOLEAN]
        /\ have' \in [End -> BitfieldOf(NumPieces)] /\ early' \in [End -> Seq(News)]
    BY <1>2, <1>3, Zenon DEF StreamTypeOK
  <2> QED
    BY <1>4, <1>5, <2>1, <2>2, <2>3, <2>4, SendKeeps, Zenon DEF x
<1>7. CASE ~(theirs[e].extension /\ IsOurs(e))
  <2>1. wire' = wire /\ sent' = sent
    BY <1>7, Zenon DEF Start
  <2>2. StreamTypeOK'
    BY <1>2, <1>3, <1>4, <2>1, Zenon DEF StreamTypeOK
  <2>3. GreetingsOK'
    <3>1. GreetedAt(e) /\ GreetedAt(o)
      BY <1>1, <1>2, Zenon DEF GreetingsOK
    <3>2. theirs[e] # <<>>
      <4>1. phase[e] \in {"Starting", "Open"}
        BY <1>3
      <4> QED
        BY <3>1, <4>1, Zenon DEF GreetedAt
    <3>3. phase'[e] # "Greeting" /\ phase'[e] # "Starting"
      BY <1>4
    <3>4. GreetedAt(e)'
      BY <1>3, <3>2, <3>3, Zenon DEF GreetedAt
    <3>5. GreetedAt(o)'
      BY <1>1, <1>3, <1>4, <2>1, <3>1, GreetedStays, Zenon
    <3>6. \A f \in End : GreetedAt(f)'
      BY <1>1, <3>4, <3>5, Zenon
    <3> QED
      BY <1>2, <1>3, <3>6, Zenon DEF GreetingsOK, Answer
  <2>4. \A f \in End : WireAt(f)' /\ ReadAt(f)'
    <3> SUFFICES ASSUME NEW f \in End PROVE WireAt(f)' /\ ReadAt(f)'
      OBVIOUS
    <3>1. WireAt(f) /\ ReadAt(f)
      BY <1>2, Zenon DEF WireOK, ReadOK
    <3> QED
      BY <1>3, <1>5, <2>1, <3>1, WireStays, Zenon
  <2>5. FirstAt(e)' /\ FirstAt(o)'
    <3>1. FirstAt(o)
      BY <1>1, <1>2, Zenon DEF FirstOK
    <3>2. FirstAt(o)'
      BY <1>1, <1>3, <1>4, <2>1, <3>1, FirstStays, Zenon
    <3>3. FirstAt(e)'
      BY <1>3, <1>7, Zenon DEF FirstAt, IsOurs
    <3> QED
      BY <3>2, <3>3, Zenon
  <2>6. PiecesOK'
    BY <1>2, <1>3, <2>1, PiecesStay, Zenon
  <2> QED
    BY <1>1, <2>2, <2>3, <2>4, <2>5, <2>6, Zenon DEF StreamInv, WireOK, ReadOK, FirstOK
<1> QED
  BY <1>6, <1>7, Zenon

\* What an end says of its pieces.
LEMMA PossessionIs ==
  ASSUME StreamTypeOK, NEW e \in End, Indices(have[e]) = done[e]
  PROVE  Possession(e) \in Introduction /\ Told(Possession(e)) = done[e]
<1>1. have[e] \in BitfieldOf(NumPieces)
  BY Types, Zenon
<1>2. have[e].data \in Bits
  BY <1>1, Zenon DEF BitfieldOf, Bits
<1>3. Indices(FromBytes(have[e].data)) = done[e]
  <2>1. NumPieces \in Nat
    BY PieceNumbers, Zenon
  <2> QED
    BY <1>1, <2>1, FromBytesIs, Zenon
<1> DEFINE all == [type |-> "HaveAll"]
           none == [type |-> "HaveNone"]
           bits == [type |-> "Bitfield", bits |-> have[e].data]
<1>4. all \in Introduction /\ Told(all) = Piece
  <2>1. all \in [type : {"HaveAll", "HaveNone"}]
    OBVIOUS
  <2>2. all.type # "Bitfield" /\ all.type # "Have" /\ all.type = "HaveAll"
    OBVIOUS
  <2> HIDE DEF all
  <2> QED
    BY <2>1, <2>2, Zenon DEF Introduction, Told
<1>5. none \in Introduction /\ Told(none) = {}
  <2>1. none \in [type : {"HaveAll", "HaveNone"}]
    OBVIOUS
  <2>2. none.type # "Bitfield" /\ none.type # "Have" /\ none.type # "HaveAll"
    OBVIOUS
  <2> HIDE DEF none
  <2> QED
    BY <2>1, <2>2, Zenon DEF Introduction, Told
<1>6. bits \in Introduction /\ Told(bits) = done[e]
  <2>1. bits \in [type : {"Bitfield"}, bits : Bits]
    BY <1>2
  <2>2. bits.type = "Bitfield" /\ bits.bits = have[e].data
    OBVIOUS
  <2> HIDE DEF bits
  <2> QED
    BY <1>3, <2>1, <2>2, Zenon DEF Introduction, Told
<1>7. \/ Possession(e) = all /\ done[e] = Piece
      \/ Possession(e) = none /\ done[e] = {}
      \/ Possession(e) = bits
  <2> HIDE DEF all, none, bits
  <2>1. CASE theirs[e].fast /\ done[e] = Piece
    <3>1. Piece # {}
      <4>1. NumPieces \in Nat /\ NumPieces >= 1
        BY PieceNumbers, Zenon
      <4>2. 0 \in Piece
        BY <4>1 DEF Piece
      <4> QED
        BY <4>2, Zenon
    <3> QED
      BY <2>1, <3>1, Zenon DEF Possession, all, none, bits
  <2>2. CASE ~(theirs[e].fast /\ done[e] = Piece) /\ theirs[e].fast /\ done[e] = {}
    BY <2>2, Zenon DEF Possession, all, none, bits
  <2>3. CASE ~(theirs[e].fast /\ done[e] = Piece) /\ ~(theirs[e].fast /\ done[e] = {})
    BY <2>3, Zenon DEF Possession, all, none, bits
  <2> QED
    BY <2>1, <2>2, <2>3, Zenon
<1> HIDE DEF all, none, bits
<1> QED
  BY <1>4, <1>5, <1>6, <1>7, Zenon

\* An end that talks has begun with the extensions.
LEMMA TalksAfter ==
  ASSUME StreamInv, NEW e \in End, IsOurs(e), MaySend(e)
  PROVE  /\ phase[e] = "Open" /\ IsOurs(e)
         /\ theirs[e].extension /\ IsOurs(e) => sent[e] # <<>>
<1>1. phase[e] = "Open" /\ IsOurs(e)
  BY Zenon DEF MaySend
<1>2. FirstAt(e) /\ GreetedAt(e)
  BY Zenon DEF StreamInv, FirstOK, GreetingsOK
<1>3. theirs[e] # <<>>
  <2>1. phase[e] \in {"Starting", "Open"}
    BY <1>1
  <2> QED
    BY <1>2, <2>1, Zenon DEF GreetedAt
<1> QED
  BY <1>1, <1>2, <1>3, Zenon DEF FirstAt

\* the introduction,
LEMMA IntroduceKeeps ==
  ASSUME StreamInv, NEW e \in End, Introduce(e)
  PROVE  StreamInv'
<1> DEFINE o == Other(e)
           x == Possession(e)
<1>1. o \in End /\ o # e /\ (\A f \in End : f = e \/ f = o)
  BY Ends, Zenon
<1>2. StreamTypeOK /\ PiecesAt(e) /\ PiecesAt(o)
  BY <1>1, Zenon DEF StreamInv, PiecesOK
<1>3. MaySay(e) /\ ~said[e] /\ said' = [said EXCEPT ![e] = TRUE] /\ Say(e, x)
      /\ UNCHANGED <<own, foreign, phase, theirs, awaiting, got, done, have, early>>
  BY Zenon DEF Introduce
<1>4. /\ Indices(have[e]) = done[e] /\ (IsOurs(e) => Introduced(sent[e], done[e], said[e]))
      /\ early[e] = <<>> /\ \A i \in 1 .. Len(early[e]) : early[e][i].piece \in done[e]
  BY <1>2, <1>3, Zenon DEF PiecesAt, MaySay
<1>5. x \in Introduction /\ Told(x) = done[e]
  BY <1>2, <1>4, PossessionIs, Zenon
<1> HIDE DEF x
<1>6. x \in Sendable /\ ~IsRaw(x) /\ IsSummary(x)
  BY <1>5, AllSendable, IntroductionCarries, Zenon
<1>7. Sending(e, x)
  BY <1>3, <1>6, SaidIsSending, Zenon
<1>8. /\ phase[e] = "Open" /\ IsOurs(e)
      /\ theirs[e].extension /\ IsOurs(e) => sent[e] # <<>>
  BY <1>3, TalksAfter, Zenon DEF MaySay
<1>9. foreign' = foreign /\ phase' = phase /\ done' = done /\ have' = have /\ early' = early
  BY <1>3, Zenon
<1>10. said' \in [End -> BOOLEAN] /\ said'[e] = TRUE /\ said'[o] = said[o]
  <2>1. said \in [End -> BOOLEAN]
    BY <1>2, Zenon DEF StreamTypeOK
  <2> QED
    BY <1>1, <1>3, <2>1, Zenon
<1>11. sent'[e] = Append(sent[e], x) /\ sent'[o] = sent[o]
  BY <1>2, <1>7, SentAs, Zenon
<1>12. PiecesOK'
  <2>1. PiecesAt(o)'
    BY <1>1, <1>2, <1>9, <1>10, <1>11, PiecesOfOther, Zenon
  <2>2. sent[e] \in Seq(Sendable) /\ said[e] = FALSE
    BY <1>2, <1>3, Types, Zenon
  <2>3. Introduced(Append(sent[e], x), done[e], TRUE)
    BY <1>4, <1>5, <1>6, <1>8, <2>2, IntroducedAll, Zenon
  <2>4. PiecesAt(e)'
    BY <1>4, <1>9, <1>10, <1>11, <2>3, Zenon DEF PiecesAt
  <2> QED
    BY <1>1, <2>1, <2>4, Zenon DEF PiecesOK
<1>13. /\ phase' \in [End -> {"Greeting", "Starting", "Open", "Closed"}]
       /\ done' \in [End -> SUBSET Piece] /\ have' \in [End -> BitfieldOf(NumPieces)]
       /\ early' \in [End -> Seq(News)]
  BY <1>2, <1>9, Zenon DEF StreamTypeOK
<1> QED
  BY <1>6, <1>7, <1>8, <1>9, <1>10, <1>12, <1>13, SendKeeps, Zenon

\* a piece completed, told of at once, later or not at all,
LEMMA CompleteKeeps ==
  ASSUME StreamInv, NEW e \in End, NEW p \in Fetched, Complete(e, p)
  PROVE  StreamInv'
<1> DEFINE o == Other(e)
           x == [type |-> "Have", piece |-> p]
<1>1. o \in End /\ o # e /\ (\A f \in End : f = e \/ f = o)
  BY Ends, Zenon
<1>2. StreamTypeOK /\ GreetedAt(e) /\ PiecesAt(e) /\ PiecesAt(o)
  BY <1>1, Zenon DEF StreamInv, PiecesOK, GreetingsOK
<1>3. /\ IsOurs(e)
      /\ done' = [done EXCEPT ![e] = @ \cup {p}]
      /\ have' = [have EXCEPT ![e] = SetBit(@, p)]
      /\ \/ MaySay(e) /\ Say(e, x) /\ early' = early
         \/ /\ ~said[e] /\ early' = [early EXCEPT ![e] = Append(@, x)]
            /\ wire' = wire /\ sent' = sent
         \/ HasNoChannel(e) /\ wire' = wire /\ sent' = sent /\ early' = early
      /\ own' = own /\ foreign' = foreign /\ phase' = phase /\ theirs' = theirs
      /\ awaiting' = awaiting /\ got' = got /\ said' = said
  BY Zenon DEF Complete
<1>4. p \in Piece
  BY StreamAssumption, Zenon
<1>5. /\ have[e] \in BitfieldOf(NumPieces) /\ done[e] \in SUBSET Piece /\ sent[e] \in Seq(Sendable)
      /\ said[e] \in BOOLEAN /\ early[e] \in Seq(News)
  BY <1>2, Types, Zenon
<1>6. /\ Indices(have[e]) = done[e] /\ Introduced(sent[e], done[e], said[e])
      /\ said[e] => early[e] = <<>>
      /\ \A i \in 1 .. Len(early[e]) : early[e][i].piece \in done[e]
  BY <1>2, <1>3, Zenon DEF PiecesAt
<1>7. SetBit(have[e], p) \in BitfieldOf(NumPieces) /\ Indices(SetBit(have[e], p)) = done[e] \cup {p}
  <2>1. NumPieces \in Nat /\ p \in 0 .. NumPieces - 1
    BY <1>4, PieceNumbers, Zenon DEF Piece
  <2>2. have[e] \in BitfieldOf(NumPieces)
    BY <1>5, Zenon
  <2>3. SetBit(have[e], p) \in BitfieldOf(NumPieces) /\ Indices(SetBit(have[e], p)) = Indices(have[e]) \cup {p}
    BY <2>1, <2>2, SetBitIs, Zenon
  <2> QED
    BY <1>6, <2>3, Zenon
<1>8. /\ done' \in [End -> SUBSET Piece] /\ done'[e] = done[e] \cup {p} /\ done'[o] = done[o]
  <2>1. done \in [End -> SUBSET Piece]
    BY <1>2, Zenon DEF StreamTypeOK
  <2>2. done[e] \cup {p} \in SUBSET Piece
    BY <1>4, <1>5, Zenon
  <2> QED
    BY <1>1, <1>3, <2>1, <2>2, Zenon
<1>9. /\ have' \in [End -> BitfieldOf(NumPieces)]
      /\ have'[e] = SetBit(have[e], p) /\ have'[o] = have[o]
  <2>1. have \in [End -> BitfieldOf(NumPieces)]
    BY <1>2, Zenon DEF StreamTypeOK
  <2> QED
    BY <1>1, <1>3, <1>7, <2>1, Zenon
<1>10. x \in News /\ x.piece = p
  BY <1>4 DEF News
<1>11. early \in [End -> Seq(News)]
  BY <1>2, Zenon DEF StreamTypeOK
<1> HIDE DEF x
<1>12. CASE MaySay(e) /\ Say(e, x) /\ early' = early
  <2>1. x \in Sendable /\ ~IsRaw(x) /\ ~IsSummary(x) /\ Told(x) = {p}
    BY <1>10, AllSendable, NewsCarry, Zenon
  <2>2. Sending(e, x)
    <3>1. Say(e, x) /\ UNCHANGED <<own, foreign, theirs, awaiting, got>>
      BY <1>3, <1>12, Zenon
    <3> QED
      BY <2>1, <3>1, SaidIsSending, Zenon
  <2>3. sent'[e] = Append(sent[e], x) /\ sent'[o] = sent[o]
    BY <1>2, <2>2, SentAs, Zenon
  <2>4. PiecesAt(o)'
    BY <1>1, <1>2, <1>3, <1>8, <1>9, <1>12, <2>3, PiecesOfOther, Zenon
  <2>5. Introduced(Append(sent[e], x), done[e] \cup {p}, said[e])
    <3> DEFINE q == sent[e]
               held == done[e]
               s == said[e]
    <3>1. q \in Seq(Sendable) /\ s \in BOOLEAN /\ Introduced(q, held, s)
      BY <1>5, <1>6, Zenon
    <3> HIDE DEF q, held, s
    <3>2. Introduced(Append(q, x), held \cup {p}, s)
      BY <2>1, <3>1, IntroducedNews
    <3> QED
      BY <3>2, Zenon DEF q, held, s
  <2>6. PiecesAt(e)'
    BY <1>3, <1>6, <1>7, <1>8, <1>9, <1>12, <2>3, <2>5, Zenon DEF PiecesAt
  <2>7. PiecesOK'
    BY <1>1, <2>4, <2>6, Zenon DEF PiecesOK
  <2>8. /\ phase[e] = "Open"
        /\ theirs[e].extension /\ IsOurs(e) => sent[e] # <<>>
    BY <1>12, TalksAfter, Zenon DEF MaySay
  <2>9. /\ phase' \in [End -> {"Greeting", "Starting", "Open", "Closed"}]
        /\ said' \in [End -> BOOLEAN]
    BY <1>2, <1>3, Zenon DEF StreamTypeOK
  <2> QED
    BY <1>3, <1>8, <1>9, <1>11, <1>12, <2>1, <2>2, <2>7, <2>8, <2>9, SendKeeps, Zenon
<1>13. ASSUME said[e] = FALSE, wire' = wire, sent' = sent,
              early' \in [End -> Seq(News)], early'[o] = early[o],
              \A i \in 1 .. Len(early'[e]) : early'[e][i].piece \in done[e] \cup {p}
       PROVE  StreamInv'
  <2>1. wire' = wire /\ sent' = sent
    BY <1>13, Zenon
  <2>2. StreamTypeOK'
    BY <1>2, <1>3, <1>8, <1>9, <1>13, Zenon DEF StreamTypeOK
  <2>3. GreetingsOK' /\ FirstOK'
    <3>1. GreetingsOK /\ FirstOK
      BY Zenon DEF StreamInv
    <3>2. GreetingsOK'
      BY <1>3, <2>1, <3>1, Zenon DEF GreetingsOK, GreetedAt, Answer
    <3>3. FirstOK'
      BY <1>3, <2>1, <3>1, Zenon DEF FirstOK, FirstAt, IsOurs
    <3> QED
      BY <3>2, <3>3, Zenon
  <2>4. \A f \in End : WireAt(f)' /\ ReadAt(f)'
    <3> SUFFICES ASSUME NEW f \in End PROVE WireAt(f)' /\ ReadAt(f)'
      OBVIOUS
    <3>1. WireAt(f) /\ ReadAt(f)
      BY Zenon DEF StreamInv, WireOK, ReadOK
    <3> QED
      BY <1>3, <2>1, <3>1, WireStays, Zenon
  <2>5. PiecesAt(o)'
    BY <1>1, <1>2, <1>3, <1>8, <1>9, <1>13, PiecesOfOther, Zenon
  <2>6. PiecesAt(e)'
    <3>1. Introduced(sent[e], done[e] \cup {p}, FALSE)
      BY <1>6, <1>13, IntroducedMore, Zenon
    <3> QED
      BY <1>3, <1>7, <1>8, <1>9, <1>13, <3>1, Zenon DEF PiecesAt
  <2> QED
    BY <1>1, <2>2, <2>3, <2>4, <2>5, <2>6, Zenon DEF StreamInv, WireOK, ReadOK, PiecesOK
<1>14. CASE /\ ~said[e] /\ early' = [early EXCEPT ![e] = Append(@, x)]
            /\ wire' = wire /\ sent' = sent
  <2> DEFINE r == Append(early[e], x)
  <2>1. r \in Seq(News) /\ \A i \in 1 .. Len(r) : r[i] = x \/ (i \in 1 .. Len(early[e]) /\ r[i] = early[e][i])
    BY <1>5, <1>10
  <2> HIDE DEF r
  <2>2. early' \in [End -> Seq(News)] /\ early'[e] = r /\ early'[o] = early[o]
    BY <1>1, <1>11, <1>14, <2>1, Zenon DEF r
  <2>3. \A i \in 1 .. Len(r) : r[i].piece \in done[e] \cup {p}
    BY <1>6, <1>10, <2>1, Zenon
  <2>4. said[e] = FALSE
    BY <1>5, <1>14, Zenon
  <2> QED
    BY <1>13, <1>14, <2>2, <2>3, <2>4, Zenon
<1>15. CASE HasNoChannel(e) /\ wire' = wire /\ sent' = sent /\ early' = early
  <2>1. phase[e] = "Greeting" \/ phase[e] = "Starting"
    BY <1>15 DEF HasNoChannel
  <2>2. sent[e] = <<>>
    BY <1>2, <2>1, Zenon DEF GreetedAt
  <2>3. 1 .. Len(<<>>) = {}
    OBVIOUS
  <2>4. said[e] = FALSE
    BY <1>5, <1>6, <2>2, <2>3, Zenon DEF Introduced
  <2>5. \A i \in 1 .. Len(early'[e]) : early'[e][i].piece \in done[e] \cup {p}
    BY <1>6, <1>15, Zenon
  <2> QED
    BY <1>11, <1>13, <1>15, <2>4, <2>5, Zenon
<1> QED
  BY <1>3, <1>12, <1>14, <1>15, Zenon

\* a Have that waited,
LEMMA WriteEarlyKeeps ==
  ASSUME StreamInv, NEW e \in End, WriteEarly(e)
  PROVE  StreamInv'
<1> DEFINE o == Other(e)
           q == early[e]
           x == Head(q)
           r == Tail(q)
<1>1. o \in End /\ o # e /\ (\A f \in End : f = e \/ f = o)
  BY Ends, Zenon
<1>2. StreamTypeOK /\ PiecesAt(e) /\ PiecesAt(o)
  BY <1>1, Zenon DEF StreamInv, PiecesOK
<1>3. /\ IsOurs(e) /\ MaySend(e) /\ q # <<>> /\ Say(e, x)
      /\ early' = [early EXCEPT ![e] = r]
      /\ own' = own /\ foreign' = foreign /\ phase' = phase /\ theirs' = theirs
      /\ awaiting' = awaiting /\ got' = got /\ done' = done /\ have' = have /\ said' = said
  BY Zenon DEF WriteEarly
<1>4. /\ sent[e] \in Seq(Sendable) /\ said[e] \in BOOLEAN /\ q \in Seq(News)
      /\ early \in [End -> Seq(News)]
  BY <1>2, Types, Zenon DEF StreamTypeOK
<1>5. /\ Introduced(sent[e], done[e], said[e]) /\ ~said[e] /\ Indices(have[e]) = done[e]
      /\ \A i \in 1 .. Len(q) : q[i].piece \in done[e]
  BY <1>2, <1>3, Zenon DEF PiecesAt
<1> HIDE DEF q
<1>6. /\ x \in News /\ r \in Seq(News) /\ x = q[1] /\ 1 \in 1 .. Len(q)
      /\ \A i \in 1 .. Len(r) : i + 1 \in 1 .. Len(q) /\ r[i] = q[i + 1]
  BY <1>3, <1>4
<1> HIDE DEF x, r
<1>7. x.piece \in done[e] /\ \A i \in 1 .. Len(r) : r[i].piece \in done[e]
  BY <1>5, <1>6, Zenon
<1>8. x \in Sendable /\ ~IsRaw(x) /\ ~IsSummary(x) /\ Told(x) = {x.piece}
  BY <1>6, AllSendable, NewsCarry, Zenon
<1>9. Sending(e, x)
  <2>1. Say(e, x) /\ UNCHANGED <<own, foreign, theirs, awaiting, got>>
    BY <1>3, Zenon
  <2> QED
    BY <1>8, <2>1, SaidIsSending, Zenon
<1>10. sent'[e] = Append(sent[e], x) /\ sent'[o] = sent[o]
  BY <1>2, <1>9, SentAs, Zenon
<1>11. early' \in [End -> Seq(News)] /\ early'[e] = r /\ early'[o] = early[o]
  BY <1>1, <1>3, <1>4, <1>6, Zenon
<1>12. Introduced(Append(sent[e], x), done[e], said[e])
  <2>1. Introduced(Append(sent[e], x), done[e] \cup {x.piece}, said[e])
    <3> DEFINE u == sent[e]
               held == done[e]
               s == said[e]
    <3>1. u \in Seq(Sendable) /\ s \in BOOLEAN /\ Introduced(u, held, s)
      BY <1>4, <1>5, Zenon
    <3> HIDE DEF u, held, s
    <3>2. Introduced(Append(u, x), held \cup {x.piece}, s)
      BY <1>8, <3>1, IntroducedNews
    <3> QED
      BY <3>2, Zenon DEF u, held, s
  <2>2. done[e] \cup {x.piece} = done[e]
    BY <1>7, Zenon
  <2> QED
    BY <2>1, <2>2, Zenon
<1>13. PiecesOK'
  <2>1. PiecesAt(o)'
    BY <1>1, <1>2, <1>3, <1>10, <1>11, PiecesOfOther, Zenon
  <2>2. PiecesAt(e)'
    BY <1>3, <1>5, <1>7, <1>10, <1>11, <1>12, Zenon DEF PiecesAt
  <2> QED
    BY <1>1, <2>1, <2>2, Zenon DEF PiecesOK
<1>14. phase[e] = "Open" /\ (theirs[e].extension /\ IsOurs(e) => sent[e] # <<>>)
  BY <1>3, TalksAfter, Zenon
<1>15. /\ phase' \in [End -> {"Greeting", "Starting", "Open", "Closed"}]
       /\ done' \in [End -> SUBSET Piece] /\ said' \in [End -> BOOLEAN]
       /\ have' \in [End -> BitfieldOf(NumPieces)]
  BY <1>2, <1>3, Zenon DEF StreamTypeOK
<1> QED
  BY <1>3, <1>8, <1>9, <1>11, <1>13, <1>14, <1>15, SendKeeps, Zenon

\* and a frame of another program.
LEMMA TellRawKeeps ==
  ASSUME StreamInv, NEW x \in RawFrames, TellRaw(x)
  PROVE  StreamInv'
<1> DEFINE e == "Dialer"
           o == Other(e)
<1>1. /\ e \in End /\ o \in End /\ o # e /\ (\A f \in End : f = e \/ f = o)
  BY Ends, Zenon
<1>2. StreamTypeOK /\ PiecesAt(e) /\ PiecesAt(o)
  BY <1>1, Zenon DEF StreamInv, PiecesOK
<1>3. /\ foreign /\ phase[e] = "Open" /\ Send(e, x.raw)
      /\ sent' = [sent EXCEPT ![e] = Append(@, x)]
      /\ own' = own /\ foreign' = foreign /\ phase' = phase /\ theirs' = theirs
      /\ awaiting' = awaiting /\ got' = got /\ done' = done /\ have' = have /\ said' = said /\ early' = early
  BY Zenon DEF TellRaw, MaySend
<1>4. x \in Sendable
  BY AllSendable, Zenon
<1>5. FrameOf(x) = x.raw
  <2>1. IsRaw(x)
    BY StreamAssumption, Zenon DEF IsRaw
  <2> QED
    BY <2>1, Zenon DEF FrameOf
<1>6. Sending(e, x)
  BY <1>3, <1>5, Zenon DEF Sending, Send
<1>7. sent'[o] = sent[o]
  BY <1>1, <1>2, <1>6, SentAs, Zenon
<1>8. ~IsOurs(e)
  BY <1>3, Zenon DEF IsOurs
<1>9. PiecesAt(o)'
  BY <1>1, <1>2, <1>3, <1>7, PiecesOfOther, Zenon
<1>10. PiecesAt(e)'
  BY <1>2, <1>3, <1>8, Zenon DEF PiecesAt, IsOurs
<1>11. PiecesOK'
  BY <1>1, <1>9, <1>10, Zenon DEF PiecesOK
<1>12. /\ phase' \in [End -> {"Greeting", "Starting", "Open", "Closed"}]
       /\ done' \in [End -> SUBSET Piece] /\ said' \in [End -> BOOLEAN]
       /\ have' \in [End -> BitfieldOf(NumPieces)] /\ early' \in [End -> Seq(News)]
  BY <1>2, <1>3, Zenon DEF StreamTypeOK
<1> QED
  BY <1>1, <1>3, <1>4, <1>6, <1>8, <1>11, <1>12, SendKeeps, Zenon

\* What changes nothing keeps it.
LEMMA StreamUnchanged ==
  ASSUME StreamInv, UNCHANGED streamVars
  PROVE  StreamInv'
<1>1. /\ own' = own /\ foreign' = foreign /\ phase' = phase /\ theirs' = theirs /\ wire' = wire
      /\ awaiting' = awaiting /\ sent' = sent /\ got' = got /\ done' = done /\ have' = have
      /\ said' = said /\ early' = early
  BY Zenon DEF streamVars
<1>2. StreamTypeOK /\ GreetingsOK /\ FirstOK /\ PiecesOK
  BY Zenon DEF StreamInv
<1>3. StreamTypeOK'
  BY <1>1, <1>2, Zenon DEF StreamTypeOK
<1>4. GreetingsOK'
  BY <1>1, <1>2, Zenon DEF GreetingsOK, GreetedAt, Answer
<1>5. FirstOK'
  BY <1>1, <1>2, Zenon DEF FirstOK, FirstAt, IsOurs
<1>6. PiecesOK'
  BY <1>1, <1>2, PiecesStay, Zenon
<1>7. \A f \in End : WireAt(f)' /\ ReadAt(f)'
  <2> SUFFICES ASSUME NEW f \in End PROVE WireAt(f)' /\ ReadAt(f)'
    OBVIOUS
  <2>1. WireAt(f) /\ ReadAt(f)
    BY Zenon DEF StreamInv, WireOK, ReadOK
  <2> QED
    BY <1>1, <2>1, WireStays, Zenon
<1> QED
  BY <1>3, <1>4, <1>5, <1>6, <1>7, Zenon DEF StreamInv, WireOK, ReadOK

\* Every step keeps the invariant.
LEMMA StreamSteps == StreamInv /\ [StreamNext]_streamVars => StreamInv'
<1> SUFFICES ASSUME StreamInv, [StreamNext]_streamVars PROVE StreamInv'
  OBVIOUS
<1>1. ASSUME NEW e \in End, Close(e) PROVE StreamInv'
  <2>1. /\ phase' = [phase EXCEPT ![e] = "Closed"]
        /\ UNCHANGED <<own, foreign, theirs, wire, awaiting, sent, got, done, have, said, early>>
    BY <1>1, Zenon DEF Close
  <2> QED
    BY <2>1, CloseKeeps, Zenon
<1>2. ASSUME NEW e \in End, ReadHandshake(e) PROVE StreamInv'
  BY <1>2, ReadHandshakeKeeps, Zenon
<1>3. ASSUME NEW e \in End, Start(e) PROVE StreamInv'
  BY <1>3, StartKeeps, Zenon
<1>4. ASSUME NEW e \in End, NEW m \in Talk[e], Tell(e, m) PROVE StreamInv'
  BY <1>4, TellKeeps, Zenon
<1>5. ASSUME NEW e \in End, Introduce(e) PROVE StreamInv'
  BY <1>5, IntroduceKeeps, Zenon
<1>6. ASSUME NEW e \in End, NEW p \in Fetched, Complete(e, p) PROVE StreamInv'
  BY <1>6, CompleteKeeps, Zenon
<1>7. ASSUME NEW e \in End, ReadHeader(e) PROVE StreamInv'
  BY <1>7, ReadHeaderKeeps, Zenon
<1>8. ASSUME NEW e \in End, ReadPayload(e) PROVE StreamInv'
  BY <1>8, ReadPayloadKeeps, Zenon
<1>9. ASSUME NEW x \in RawFrames, TellRaw(x) PROVE StreamInv'
  BY <1>9, TellRawKeeps, Zenon
<1>10. ASSUME NEW e \in End, WriteEarly(e) PROVE StreamInv'
  BY <1>10, WriteEarlyKeeps, Zenon
<1>11. CASE UNCHANGED streamVars
  BY <1>11, StreamUnchanged, Zenon
<1> QED
  BY <1>1, <1>2, <1>3, <1>4, <1>5, <1>6, <1>7, <1>8, <1>9, <1>10, <1>11, Zenon DEF StreamNext

-----------------------------------------------------------------------------
\* What two peers can rely on

\* The state of a connection is always as StreamInv says, whatever the two ends
\* say, when they stop, and whatever frames another program sends.
THEOREM StreamHolds == StreamSpec => []StreamInv
<1>1. StreamInit => StreamInv
  BY StreamStarts
<1>2. StreamInv /\ [StreamNext]_streamVars => StreamInv'
  BY StreamSteps
<1> QED
  BY <1>1, <1>2, PTL DEF StreamSpec

\* Every message that is read is the one that was sent, but for the IPv6 addresses of a
\* peer exchange, which are read as IPv4 addresses (AsRead), in order, however its bytes
\* are split on the way, and while an end reads, the rest of the frames is what is
\* still to come (Message::read_from, encode and decode).
THEOREM MessagesArrive == StreamSpec => []ReceivedAsSent
<1>1. StreamInv => ReceivedAsSent
  <2> SUFFICES ASSUME StreamInv, NEW e \in End
               PROVE  LET from  == sent[Other(e)]
                          count == Len(got[e])
                          rest  == FramesFrom(from, count)
                      IN  /\ count <= Len(from)
                          /\ \A i \in 1 .. count : Tells(got[e][i], from[i])
                          /\ phase[e] = "Open" =>
                               wire[e] = IF awaiting[e] = NoNumber THEN rest
                                         ELSE SubSeq(rest, 5, Len(rest))
    BY Zenon DEF ReceivedAsSent
  <2>1. ReadAt(e) /\ WireAt(e)
    BY Zenon DEF StreamInv, ReadOK, WireOK
  <2>2. ASSUME phase[e] = "Open" PROVE wire[e] = Due(Pending(e), awaiting[e])
    <3>1. phase[e] \in {"Starting", "Open"}
      BY <2>2
    <3> QED
      BY <2>1, <3>1, Zenon DEF WireAt
  <2> QED
    BY <2>1, <2>2, Zenon DEF ReadAt, Due, Pending
<1> QED
  BY <1>1, StreamHolds, PTL

\* Two ends that both go on after the handshakes agree on the torrent and on who
\* the other is, and the extensions are what is told first.
THEOREM PeersAgree == StreamSpec => []HandshakesAgree
<1>1. StreamInv => HandshakesAgree
  <2> SUFFICES ASSUME StreamInv PROVE HandshakesAgree
    OBVIOUS
  <2>1. StreamTypeOK /\ GreetingsOK /\ ReadOK /\ FirstOK
    BY Zenon DEF StreamInv
  <2>2. own \in [End -> Handshake]
    BY <2>1, Zenon DEF StreamTypeOK
  <2>3. ASSUME NEW e \in End, own[e].extension, got[e] # <<>>, IsOurs(Other(e))
        PROVE  got[e][1] = OurExtensions
    <3> DEFINE o == Other(e)
    <3>1. o \in End /\ Other(o) = e
      BY Ends, Zenon
    <3>2. ReadAt(e) /\ FirstAt(o) /\ GreetedAt(o)
      BY <2>1, <3>1, Zenon DEF ReadOK, FirstOK, GreetingsOK
    <3>3. got[e] \in Seq(Heard) /\ sent[o] \in Seq(Sendable)
      BY <2>1, <3>1, Types, Zenon
    <3>4. 1 \in 1 .. Len(got[e]) /\ sent[o] # <<>>
      <4>1. Len(got[e]) \in Nat /\ Len(got[e]) # 0
        BY <2>3, <3>3
      <4>2. Len(got[e]) <= Len(sent[o])
        BY <3>2, Zenon DEF ReadAt
      <4> QED
        BY <3>3, <4>1, <4>2
    <3>5. theirs[o] # <<>>
      BY <3>2, <3>4, Zenon DEF GreetedAt
    <3>6. theirs[o].extension = own[e].extension
      <4>1. CASE e = "Dialer"
        BY <2>1, <3>5, <4>1, Ends, Zenon DEF GreetingsOK
      <4>2. CASE e = "Listener"
        <5>1. theirs["Dialer"] = Answer
          BY <2>1, <3>5, <4>2, Ends, Zenon DEF GreetingsOK
        <5>2. Answer.extension = own["Listener"].extension
          BY <2>2, AnswerIs, Zenon
        <5> QED
          BY <4>2, <5>1, <5>2, Ends, Zenon
      <4> QED
        BY <4>1, <4>2, Ends, Zenon
    <3>7. sent[o][1] = OurExtensions
      BY <2>3, <3>2, <3>4, <3>5, <3>6, Zenon DEF FirstAt
    <3>8. Tells(got[e][1], OurExtensions)
      BY <3>2, <3>4, <3>7, Zenon DEF ReadAt
    <3>9. ~IsRaw(OurExtensions)
      BY ExtensionsCarry, Zenon
    <3>10. OurExtensions.type # "ut_metadata" /\ OurExtensions.type # "ut_pex"
      BY DEF OurExtensions
    <3> QED
      BY <3>8, <3>9, <3>10, Zenon DEF Tells
  <2>4. theirs["Dialer"] # <<>> =>
          theirs["Dialer"] = [own["Listener"] EXCEPT !.infoHash = own["Dialer"].infoHash]
    BY <2>1, Zenon DEF GreetingsOK, Answer
  <2> QED
    BY <2>1, <2>3, <2>4, Zenon DEF HandshakesAgree, GreetingsOK
<1> QED
  BY <1>1, StreamHolds, PTL

\* An end is never believed to have a piece it lacks, and is known for all it has
\* once nothing is on the way (Bitfield, PieceManager, Swarm::on_connected and the
\* Have that SwarmIO broadcasts), also when Haves come before the bitfield.
THEOREM PiecesAreKnown == StreamSpec => []AvailabilityArrives
<1>1. StreamInv => AvailabilityArrives
  <2> SUFFICES ASSUME StreamInv, NEW e \in End, IsOurs(Other(e))
               PROVE  /\ PiecesTold(got[e]) \subseteq done[Other(e)]
                      /\ phase[e] = "Open" /\ said[Other(e)] /\ wire[e] = <<>> /\ awaiting[e] = NoNumber
                           => PiecesTold(got[e]) = done[Other(e)]
    BY Zenon DEF AvailabilityArrives
  <2> DEFINE o == Other(e)
  <2>1. o \in End
    BY Ends, Zenon
  <2>2. StreamTypeOK /\ ReadAt(e) /\ WireAt(e) /\ PiecesAt(o)
    BY <2>1, Zenon DEF StreamInv, ReadOK, WireOK, PiecesOK
  <2>3. /\ got[e] \in Seq(Heard) /\ sent[o] \in Seq(Sendable) /\ said[o] \in BOOLEAN
        /\ Len(got[e]) \in Nat
    BY <2>1, <2>2, Types, Zenon
  <2>4. Introduced(sent[o], done[o], said[o])
    BY <2>2, Zenon DEF PiecesAt
  <2>5. /\ Len(got[e]) <= Len(sent[o])
        /\ \A i \in 1 .. Len(got[e]) : Tells(got[e][i], sent[o][i])
    BY <2>2, Zenon DEF ReadAt
  <2>6. /\ PiecesTold(got[e]) \subseteq done[o]
        /\ said[o] /\ Len(got[e]) = Len(sent[o]) => PiecesTold(got[e]) = done[o]
    <3> DEFINE r == got[e]
               q == sent[o]
               held == done[o]
               s == said[o]
    <3>1. /\ r \in Seq(Heard) /\ q \in Seq(Sendable) /\ s \in BOOLEAN
          /\ Introduced(q, held, s) /\ Len(r) <= Len(q) /\ \A i \in 1 .. Len(r) : Tells(r[i], q[i])
      BY <2>3, <2>4, <2>5, Zenon
    <3> HIDE DEF r, q, held, s
    <3>2. PiecesTold(r) \subseteq held /\ (s /\ Len(r) = Len(q) => PiecesTold(r) = held)
      BY <3>1, IntroducedRead
    <3> QED
      BY <3>2, Zenon DEF r, q, held, s
  <2>7. ASSUME phase[e] = "Open", wire[e] = <<>>, awaiting[e] = NoNumber
        PROVE  Len(got[e]) = Len(sent[o])
    <3>1. phase[e] \in {"Starting", "Open"}
      BY <2>7
    <3>2. Pending(e) = <<>>
      BY <2>2, <2>7, <3>1, Zenon DEF WireAt, Due
    <3>3. FramesFrom(sent[o], Len(got[e])) = <<>>
      BY <3>2, Zenon DEF Pending
    <3> QED
      BY <2>3, <2>5, <3>3, NothingLeft, Zenon
  <2> QED
    BY <2>6, <2>7, Zenon
<1> QED
  BY <1>1, StreamHolds, PTL

===============================================================================
