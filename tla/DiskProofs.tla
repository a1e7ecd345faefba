------------------------------- MODULE DiskProofs -------------------------------
(***************************************************************************)
(* What the storage guarantees, for every layout of files, every number of *)
(* calls and every capacity of the queue.                                  *)
(***************************************************************************)
EXTENDS DiskStorageProperties, TorrentProofs, SequenceTheorems

-----------------------------------------------------------------------------
\* The layout

\* The recursion of Offset, for the first n files.
OffsetRule(g, n) == g = [f \in 1 .. n |-> IF f = 1 THEN 0 ELSE g[f - 1] + FileLengths[f - 1]]

\* It defines a function.
LEMMA OffsetsExist == \A n \in Nat : \E g : OffsetRule(g, n)
<1> DEFINE T == {n \in Nat : \E g : OffsetRule(g, n)}
<1>1. 0 \in T
  <2> DEFINE g == [f \in 1 .. 0 |-> 0]
  <2>1. OffsetRule(g, 0)
    BY DEF OffsetRule
  <2> QED
    BY <2>1
<1>2. ASSUME NEW n \in T PROVE n + 1 \in T
  <2>1. PICK g : OffsetRule(g, n)
    OBVIOUS
  <2> DEFINE h == [f \in 1 .. n + 1 |-> IF f = 1 THEN 0 ELSE g[f - 1] + FileLengths[f - 1]]
  <2>2. ASSUME NEW f \in 1 .. n PROVE h[f] = g[f]
    BY <2>1 DEF OffsetRule
  <2>3. ASSUME NEW f \in 1 .. n + 1
        PROVE  h[f] = IF f = 1 THEN 0 ELSE h[f - 1] + FileLengths[f - 1]
    <3>1. f # 1 => f - 1 \in 1 .. n
      OBVIOUS
    <3>2. f # 1 => h[f - 1] = g[f - 1]
      BY <2>2, <3>1
    <3> QED
      BY <3>2
  <2>4. OffsetRule(h, n + 1)
    <3>1. h = [f \in 1 .. n + 1 |-> h[f]]
      OBVIOUS
    <3> HIDE DEF h
    <3> QED
      BY <2>3, <3>1 DEF OffsetRule
  <2> QED
    BY <2>4
<1>3. T = Nat
  <2> HIDE DEF T
  <2> QED
    BY <1>1, <1>2, Induction DEF T
<1> QED
  BY <1>3

\* Each file begins where the one before it ends.
LEMMA OffsetsAdd ==
  /\ \A f \in File : Offset[f] = IF f = 1 THEN 0 ELSE Offset[f - 1] + FileLengths[f - 1]
  /\ \A f \in File : Offset[f] \in Nat /\ FileLengths[f] \in Nat
<1>1. File = 1 .. Len(FileLengths) /\ Len(FileLengths) \in Nat
      /\ \A f \in File : FileLengths[f] \in Nat
  BY DiskAssumption DEF File
<1>2. OffsetRule(Offset, Len(FileLengths))
  BY <1>1, OffsetsExist DEF OffsetRule, Offset
<1>3. \A f \in File : Offset[f] = IF f = 1 THEN 0 ELSE Offset[f - 1] + FileLengths[f - 1]
  BY <1>1, <1>2 DEF OffsetRule
<1> DEFINE T == {n \in Nat : n + 1 \in File => Offset[n + 1] \in Nat}
<1>4. 0 \in T
  BY <1>3
<1>5. ASSUME NEW n \in T PROVE n + 1 \in T
  BY <1>1, <1>3
<1>6. T = Nat
  <2> HIDE DEF T
  <2> QED
    BY <1>4, <1>5, Induction DEF T
<1>7. ASSUME NEW f \in File PROVE Offset[f] \in Nat
  <2>1. f - 1 \in Nat /\ (f - 1) + 1 = f
    BY <1>1
  <2>2. f - 1 \in T
    BY <1>6, <2>1
  <2> QED
    BY <2>1, <2>2
<1> QED
  BY <1>1, <1>3, <1>7

\* Lengths and offsets of files, and the sizes of pieces, are numbers.
LEMMA FileTypes ==
  /\ \A f \in File : FileLengths[f] \in Nat /\ Offset[f] \in Nat
  /\ PieceLength \in Nat \ {0}
  /\ \A p \in Piece : p \in Nat /\ p * PieceLength \in Nat /\ PieceSize(p) \in Nat
<1>1. \A f \in File : FileLengths[f] \in Nat
  BY DiskAssumption DEF File
<1>2. PieceLength \in Nat \ {0} /\ \A p \in Piece : p \in Nat
  BY TorrentAssumption DEF GeometryAssumption, Piece
<1>3. \A p \in Piece : p * PieceLength \in Nat
  BY <1>2
<1> QED
  BY <1>1, <1>2, <1>3, OffsetsAdd, PieceSizePositive

\* Where the range of a whole piece lies.
LEMMA WholePieceStart ==
  ASSUME NEW p \in Piece
  PROVE  /\ Start(WholePiece(p)) = p * PieceLength
         /\ WholePiece(p).len = PieceSize(p)
         /\ WholePiece(p).piece = p
BY FileTypes DEF Start, WholePiece

\* Where the position pos of the torrent lies in file f.
LEMMA PositionInFile ==
  ASSUME NEW f \in File, NEW start \in Nat, NEW len \in Nat, NEW pos \in Part(f, start, len)
  PROVE  /\ pos \in Nat /\ pos - start + 1 \in 1 .. len
         /\ pos - Offset[f] + 1 \in 1 .. FileLengths[f]
         /\ Offset[f] + (pos - Offset[f] + 1) - 1 = pos
BY FileTypes DEF Part

\* A byte carries its position in the torrent.
LEMMA BytesAreRight ==
  ASSUME NEW start \in Nat, NEW len \in Nat
  PROVE  /\ Len(Bytes(start, len)) = len
         /\ \A pos \in Nat : pos - start + 1 \in 1 .. len => Bytes(start, len)[pos - start + 1] = pos
<1>1. Bytes(start, len) \in [1 .. len -> Nat]
  BY DEF Bytes
<1>2. Bytes(start, len) \in Seq(Nat)
  BY <1>1, SeqDef
<1>3. Len(Bytes(start, len)) = len
  BY <1>1, <1>2, LenProperties
<1> QED
  BY <1>3 DEF Bytes

\* A write brings a position to its value or leaves it alone.
LEMMA WrittenPosition ==
  ASSUME NEW f \in File, NEW start \in Nat, NEW len \in Nat, NEW limit,
         NEW s \in Nat, NEW n \in Nat, NEW pos \in Part(f, s, n)
  PROVE  Written(f, start, Bytes(start, len), limit)[pos - Offset[f] + 1]
           = IF pos \in Part(f, start, len) /\ pos < limit THEN pos
             ELSE files[f][pos - Offset[f] + 1]
<1> DEFINE k == pos - Offset[f] + 1
<1>1. k \in 1 .. FileLengths[f] /\ Offset[f] + k - 1 = pos /\ pos \in Nat
  BY PositionInFile
<1>2. Len(Bytes(start, len)) = len
  BY BytesAreRight
<1>3. ASSUME pos \in Part(f, start, len) PROVE Bytes(start, len)[pos - start + 1] = pos
  <2>1. pos - start + 1 \in 1 .. len
    BY <1>3, PositionInFile
  <2> QED
    BY <1>1, <2>1, BytesAreRight
<1>4. Written(f, start, Bytes(start, len), limit)[k]
        = IF pos \in Part(f, start, len) /\ pos < limit
          THEN Bytes(start, len)[pos - start + 1] ELSE files[f][k]
  BY <1>1, <1>2 DEF Written
<1> QED
  BY <1>3, <1>4

\* A write of a range from start on, wherever it stops, spoils nothing.
LEMMA WriteKeepsRight ==
  ASSUME NEW start \in Nat, NEW len \in Nat, NEW limit,
         WriteFiles(start, Bytes(start, len), limit), NEW p \in Piece, Right(p)
  PROVE  Right(p)'
<1> SUFFICES ASSUME NEW f \in File, NEW pos \in Part(f, p * PieceLength, PieceSize(p))
             PROVE  files'[f][pos - Offset[f] + 1] = pos
  BY DEF Right
<1>1. files[f][pos - Offset[f] + 1] = pos
  BY DEF Right
<1>2. p * PieceLength \in Nat /\ PieceSize(p) \in Nat
  BY FileTypes
<1>3. CASE f \in DOMAIN limit
  <2>1. files'[f] = Written(f, start, Bytes(start, len), limit[f])
    BY <1>3 DEF WriteFiles
  <2> QED
    BY <1>1, <1>2, <2>1, WrittenPosition
<1>4. CASE f \notin DOMAIN limit
  BY <1>1, <1>4 DEF WriteFiles
<1> QED
  BY <1>3, <1>4

\* One that reaches the end of every file it touches puts the piece in place.
LEMMA WriteMakesRight ==
  ASSUME NEW p \in Piece, NEW limit,
         DOMAIN limit = Touched(p * PieceLength, PieceSize(p)),
         Short(p * PieceLength, PieceSize(p), limit) = {},
         \A f \in DOMAIN limit : limit[f] \in Int,
         WriteFiles(p * PieceLength, Bytes(p * PieceLength, PieceSize(p)), limit)
  PROVE  Right(p)'
<1> SUFFICES ASSUME NEW f \in File, NEW pos \in Part(f, p * PieceLength, PieceSize(p))
             PROVE  files'[f][pos - Offset[f] + 1] = pos
  BY DEF Right
<1>1. p * PieceLength \in Nat /\ PieceSize(p) \in Nat /\ pos \in Nat
  BY FileTypes, PositionInFile
<1>2. f \in DOMAIN limit
  BY DEF Touched
<1>3. pos < limit[f]
  BY <1>1, <1>2 DEF Short
<1>4. files'[f] = Written(f, p * PieceLength, Bytes(p * PieceLength, PieceSize(p)), limit[f])
  BY <1>2 DEF WriteFiles
<1> QED
  BY <1>1, <1>3, <1>4, WrittenPosition

-----------------------------------------------------------------------------
\* Reading across files

\* What read_from_files gathers from the first n files.
GatherRule(g, n, start, len) ==
  g = [f \in 0 .. n |-> IF f = 0 THEN <<>> ELSE g[f - 1] \o FilePart(f, start, len)]

\* It is some sequence.
LEMMA GatherExists ==
  ASSUME NEW start, NEW len
  PROVE  \A n \in Nat : \E g : GatherRule(g, n, start, len)
<1> DEFINE T == {n \in Nat : \E g : GatherRule(g, n, start, len)}
<1>1. 0 \in T
  <2> DEFINE g == [f \in 0 .. 0 |-> <<>>]
  <2>1. g = [f \in 0 .. 0 |-> IF f = 0 THEN <<>> ELSE g[f - 1] \o FilePart(f, start, len)]
    OBVIOUS
  <2> HIDE DEF g
  <2>2. GatherRule(g, 0, start, len)
    BY <2>1 DEF GatherRule
  <2> QED
    BY <2>2
<1>2. ASSUME NEW n \in T PROVE n + 1 \in T
  <2>1. PICK g : GatherRule(g, n, start, len)
    OBVIOUS
  <2> DEFINE h == [f \in 0 .. n + 1 |-> IF f = 0 THEN <<>> ELSE g[f - 1] \o FilePart(f, start, len)]
  <2>2. ASSUME NEW f \in 0 .. n PROVE h[f] = g[f]
    <3>1. n \in Nat /\ f \in 0 .. n + 1
      OBVIOUS
    <3>2. h[f] = IF f = 0 THEN <<>> ELSE g[f - 1] \o FilePart(f, start, len)
      BY <3>1
    <3> HIDE DEF T, h
    <3>3. g[f] = IF f = 0 THEN <<>> ELSE g[f - 1] \o FilePart(f, start, len)
      BY <2>1, <3>1 DEF GatherRule
    <3> QED
      BY <3>2, <3>3
  <2>3. ASSUME NEW f \in 0 .. n + 1
        PROVE  h[f] = IF f = 0 THEN <<>> ELSE h[f - 1] \o FilePart(f, start, len)
    <3>1. f # 0 => f - 1 \in 0 .. n
      OBVIOUS
    <3>2. f # 0 => h[f - 1] = g[f - 1]
      BY <2>2, <3>1
    <3> QED
      BY <3>2
  <2>4. GatherRule(h, n + 1, start, len)
    <3>1. h = [f \in 0 .. n + 1 |-> h[f]]
      OBVIOUS
    <3> HIDE DEF h
    <3> QED
      BY <2>3, <3>1 DEF GatherRule
  <2> QED
    BY <2>4
<1>3. T = Nat
  <2> HIDE DEF T
  <2> QED
    BY <1>1, <1>2, Induction DEF T
<1> QED
  BY <1>3

\* Where file n ends in the torrent; the first begins where "file 0" ends.
FileEnd(n) == IF n = 0 THEN 0 ELSE Offset[n] + FileLengths[n]

\* How much of a range lies in the first n files.
Covered(n, start, len) ==
  IF FileEnd(n) <= start THEN 0
  ELSE IF start + len <= FileEnd(n) THEN len
  ELSE FileEnd(n) - start

\* The bytes of the range are in their places.
RangeRight(start, len) ==
  \A f \in File : \A pos \in Part(f, start, len) : files[f][pos - Offset[f] + 1] = pos

\* The bytes from a position on are as many as asked for, and in order.
LEMMA BytesAreSequence ==
  ASSUME NEW start \in Nat, NEW len \in Nat
  PROVE  /\ Bytes(start, len) \in Seq(Int) /\ Len(Bytes(start, len)) = len
         /\ \A i \in 1 .. len : Bytes(start, len)[i] = start + i - 1
<1>1. Bytes(start, len) \in [1 .. len -> Int]
  BY DEF Bytes
<1>2. Bytes(start, len) \in Seq(Int)
  BY <1>1, SeqDef
<1>3. Len(Bytes(start, len)) = len
  BY <1>1, <1>2, LenProperties
<1> QED
  BY <1>2, <1>3 DEF Bytes

\* What one file has of the range follows what the files before it have.
LEMMA FilePartFollows ==
  ASSUME NEW f \in File, NEW start \in Nat, NEW len \in Nat, RangeRight(start, len)
  PROVE  Bytes(start, Covered(f - 1, start, len)) \o FilePart(f, start, len)
           = Bytes(start, Covered(f, start, len))
<1> DEFINE c == Covered(f - 1, start, len)
           d == Covered(f, start, len)
           from == IF start > Offset[f] THEN start - Offset[f] ELSE 0
           part == Part(f, start, len)
           mine == FilePart(f, start, len)
<1>1. /\ Offset[f] \in Nat /\ FileLengths[f] \in Nat /\ f \in Nat /\ f - 1 \in Nat
      /\ FileEnd(f - 1) = Offset[f]
      /\ FileEnd(f) = Offset[f] + FileLengths[f]
  <2>1. File = 1 .. Len(FileLengths) /\ Len(FileLengths) \in Nat
    BY DiskAssumption DEF File
  <2>2. f \in Nat /\ f >= 1 /\ f - 1 \in Nat /\ (f - 1 = 0 <=> f = 1)
    BY <2>1
  <2>3. /\ Offset[f] \in Nat /\ FileLengths[f] \in Nat
        /\ Offset[f] = IF f = 1 THEN 0 ELSE Offset[f - 1] + FileLengths[f - 1]
    BY OffsetsAdd, Zenon
  <2>4. FileEnd(f - 1) = Offset[f]
    BY <2>2, <2>3, Zenon DEF FileEnd
  <2>5. FileEnd(f) = Offset[f] + FileLengths[f]
    <3>1. f # 0
      BY <2>2
    <3> QED
      BY <3>1, Zenon DEF FileEnd
  <2> QED
    BY <2>2, <2>3, <2>4, <2>5, Zenon
<1> DEFINE a == FileEnd(f - 1)
           b == FileEnd(f)
<1>0. /\ c = IF a <= start THEN 0 ELSE IF start + len <= a THEN len ELSE a - start
      /\ d = IF b <= start THEN 0 ELSE IF start + len <= b THEN len ELSE b - start
  BY Zenon DEF Covered
<1>2. c \in Nat /\ d \in Nat /\ c <= d /\ d <= len
  <2>1. a \in Nat /\ b \in Nat /\ a <= b
    BY <1>1
  <2> HIDE DEF a, b, c, d
  <2> QED
    BY <1>0, <2>1
<1>3. part = start + c .. start + d - 1
  BY <1>1 DEF Part, Covered
<1>4. Cardinality(part) = d - c
  <2> HIDE DEF c, d, part
  <2>1. start + c \in Int /\ start + d - 1 \in Int
    BY <1>2
  <2>2. Cardinality(start + c .. start + d - 1)
          = IF start + c > start + d - 1 THEN 0 ELSE (start + d - 1) - (start + c) + 1
    BY <2>1, FS_Interval
  <2> QED
    BY <1>2, <1>3, <2>2
<1>5. mine = SubSeq(files[f], from + 1, from + (d - c))
  BY <1>4 DEF FilePart
<1>6. from \in Nat /\ (c < d => from = start + c - Offset[f])
  <2>1. a = Offset[f] /\ a \in Nat /\ b \in Nat /\ a <= b
    BY <1>1
  <2>2. from = IF start > a THEN start - a ELSE 0
    BY <2>1
  <2> HIDE DEF a, b, c, d, from
  <2>3. c < d => from = start + c - a
    BY <1>0, <2>1, <2>2
  <2> QED
    BY <2>1, <2>2, <2>3
<1> HIDE DEF a, b
<1>7. ASSUME NEW i \in from + 1 .. from + (d - c) PROVE files[f][i] = Offset[f] + i - 1
  <2>1. c < d
    BY <1>2, <1>6
  <2> DEFINE pos == Offset[f] + i - 1
  <2>2. pos \in part /\ pos - Offset[f] + 1 = i
    <3> HIDE DEF c, d, from, part, pos
    <3>1. from = start + c - Offset[f] /\ pos = Offset[f] + i - 1 /\ Offset[f] \in Nat
      BY <1>1, <1>6, <2>1, Zenon DEF pos
    <3>2. pos \in start + c .. start + d - 1 /\ pos - Offset[f] + 1 = i
      BY <1>2, <1>6, <3>1, SMT
    <3> QED
      BY <1>3, <3>2, Zenon
  <2> QED
    BY <2>2 DEF RangeRight
<1> HIDE DEF c, d, from, part, mine
<1>8. /\ mine \in Seq(Int) /\ Len(mine) = d - c
      /\ \A i \in 1 .. d - c : mine[i] = start + c + i - 1
  <2>1. \A i \in from + 1 .. from + (d - c) : files[f][i] \in Int
    BY <1>1, <1>2, <1>6, <1>7
  <2>2. from + 1 \in Int /\ from + (d - c) \in Int
    BY <1>2, <1>6
  <2>3. /\ mine \in Seq(Int)
        /\ Len(mine) = IF from + 1 <= from + (d - c) THEN (from + (d - c)) - (from + 1) + 1 ELSE 0
        /\ \A i \in 1 .. (from + (d - c)) - (from + 1) + 1 : mine[i] = files[f][(from + 1) + i - 1]
    BY <1>5, <2>1, <2>2, SubSeqProperties
  <2>4. ASSUME NEW i \in 1 .. d - c PROVE mine[i] = start + c + i - 1
    <3>1. mine[i] = files[f][from + i]
      <4>1. i \in 1 .. (from + (d - c)) - (from + 1) + 1 /\ (from + 1) + i - 1 = from + i
        BY <1>2, <1>6
      <4> QED
        BY <2>3, <4>1
    <3>2. from + i \in from + 1 .. from + (d - c) /\ from = start + c - Offset[f]
      BY <1>2, <1>6
    <3> QED
      BY <1>1, <1>2, <1>7, <3>1, <3>2
  <2> QED
    BY <1>2, <1>6, <2>3, <2>4
<1>9. /\ Bytes(start, c) \in Seq(Int) /\ Len(Bytes(start, c)) = c
      /\ \A i \in 1 .. c : Bytes(start, c)[i] = start + i - 1
  BY <1>2, BytesAreSequence
<1>10. /\ Bytes(start, d) \in Seq(Int) /\ Len(Bytes(start, d)) = d
       /\ \A i \in 1 .. d : Bytes(start, d)[i] = start + i - 1
  BY <1>2, BytesAreSequence
<1> DEFINE both == Bytes(start, c) \o mine
<1>11. /\ both \in Seq(Int) /\ Len(both) = d
       /\ \A i \in 1 .. d : both[i] = start + i - 1
  <2>1. /\ both \in Seq(Int) /\ Len(both) = c + (d - c)
        /\ \A i \in 1 .. c + (d - c) :
             both[i] = IF i <= c THEN Bytes(start, c)[i] ELSE mine[i - c]
    <3> DEFINE front == Bytes(start, c)
    <3>1. /\ front \o mine \in Seq(Int) /\ Len(front \o mine) = Len(front) + Len(mine)
          /\ \A i \in 1 .. Len(front) + Len(mine) :
               (front \o mine)[i] = IF i <= Len(front) THEN front[i] ELSE mine[i - Len(front)]
      <4> HIDE DEF front
      <4>1. front \in Seq(Int) /\ mine \in Seq(Int)
        BY <1>8, <1>9 DEF front
      <4> QED
        BY <4>1, ConcatProperties
    <3> QED
      BY <1>8, <1>9, <3>1
  <2>2. ASSUME NEW i \in 1 .. d PROVE both[i] = start + i - 1
    <3>1. CASE i <= c
      BY <1>2, <1>9, <2>1, <3>1
    <3>2. CASE ~(i <= c)
      <4>1. i - c \in 1 .. d - c /\ start + c + (i - c) - 1 = start + i - 1
        BY <1>2, <3>2
      <4>2. both[i] = mine[i - c]
        <5> HIDE DEF both
        <5>1. c + (d - c) = d /\ i \in 1 .. d
          BY <1>2
        <5> QED
          BY <2>1, <3>2, <5>1, Zenon
      <4>3. mine[i - c] = start + c + (i - c) - 1
        BY <1>8, <4>1, Zenon
      <4> QED
        BY <4>1, <4>2, <4>3, Zenon
    <3> QED
      BY <3>1, <3>2
  <2> HIDE DEF both
  <2> QED
    BY <1>2, <2>1, <2>2
<1> HIDE DEF both
<1>12. both = Bytes(start, d)
  BY <1>10, <1>11, SeqEqual
<1> QED
  BY <1>12 DEF both, c, d, mine

\* All the files together have all of the range.
LEMMA ReadsInPlace ==
  ASSUME NEW start \in Nat, NEW len \in Nat, start + len <= TotalSize, RangeRight(start, len)
  PROVE  ReadFiles(start, len) = Bytes(start, len)
<1> DEFINE N == Len(FileLengths)
<1>1. N \in Nat \ {0} /\ File = 1 .. N
  BY DiskAssumption, EmptySeq, LenProperties DEF File
<1>2. PICK upTo : upTo = [f \in 0 .. N |-> IF f = 0 THEN <<>> ELSE upTo[f - 1] \o FilePart(f, start, len)]
                  /\ ReadFiles(start, len) = upTo[N]
  <2> DEFINE g == CHOOSE u : GatherRule(u, N, start, len)
  <2>1. GatherRule(g, N, start, len)
    BY <1>1, GatherExists
  <2>2. ReadFiles(start, len) = g[N]
    BY DEF ReadFiles, GatherRule
  <2> QED
    BY <2>1, <2>2 DEF GatherRule
<1> DEFINE T == {n \in Nat : n <= N => upTo[n] = Bytes(start, Covered(n, start, len))}
<1>3. 0 \in T
  <2>1. Covered(0, start, len) = 0
    BY DEF Covered, FileEnd
  <2>2. Bytes(start, 0) = <<>>
    BY BytesAreSequence, EmptySeq
  <2> QED
    BY <1>1, <1>2, <2>1, <2>2
<1>4. ASSUME NEW n \in T PROVE n + 1 \in T
  <2> SUFFICES ASSUME n + 1 <= N PROVE upTo[n + 1] = Bytes(start, Covered(n + 1, start, len))
    OBVIOUS
  <2>1. n + 1 \in File /\ n + 1 \in 0 .. N /\ n + 1 # 0 /\ (n + 1) - 1 = n /\ n <= N
    BY <1>1
  <2>2. upTo[n + 1] = upTo[n] \o FilePart(n + 1, start, len)
    BY <1>2, <2>1
  <2>3. upTo[n] = Bytes(start, Covered(n, start, len))
    BY <2>1
  <2>4. Bytes(start, Covered((n + 1) - 1, start, len)) \o FilePart(n + 1, start, len)
          = Bytes(start, Covered(n + 1, start, len))
    BY <2>1, FilePartFollows
  <2> QED
    BY <2>1, <2>2, <2>3, <2>4
<1>5. T = Nat
  <2> HIDE DEF T
  <2> QED
    BY <1>3, <1>4, Induction DEF T
<1>6. Covered(N, start, len) = len
  <2>1. FileEnd(N) = TotalSize
    BY <1>1, DiskAssumption DEF FileEnd
  <2>2. TotalSize \in Nat
    BY TorrentAssumption DEF GeometryAssumption
  <2> QED
    BY <2>1, <2>2 DEF Covered
<1>7. N \in T
  BY <1>1, <1>5
<1> QED
  BY <1>1, <1>2, <1>6, <1>7

-----------------------------------------------------------------------------
\* Calls and the queue

\* A write is always that of a whole piece.
OfPiece(kind, range) == kind = "Write" => \E p \in Piece : range = WholePiece(p)

IsCall(call) ==
  /\ {"kind", "range", "sent"} \subseteq DOMAIN call
  /\ OfPiece(call.kind, call.range)

\* At most one call is not a read: its caller is the owner, who waits for it.
CallInv ==
  /\ nextCall \in Nat
  /\ \A c \in DOMAIN calls : c \in Nat /\ c < nextCall /\ IsCall(calls[c])
  /\ \A c, d \in DOMAIN calls : calls[c].kind # "Read" /\ calls[d].kind # "Read" => c = d

Entry(x) ==
  /\ x.id \in Nat /\ x.id < nextCall
  /\ x.id \in DOMAIN calls => calls[x.id].kind = x.kind
  /\ OfPiece(x.kind, x.range)

\* While a flush is in the queue its caller waits, so that only reads come after
\* it.
QueueInv ==
  /\ \E E : queue \in Seq(E)
  /\ ~working => queue = <<>>
  /\ \A i \in 1 .. Len(queue) : Entry(queue[i])
  /\ \A i \in 1 .. Len(queue) : queue[i].kind = "Flush" =>
        /\ queue[i].id \in DOMAIN calls /\ calls[queue[i].id].sent
        /\ \A j \in i + 1 .. Len(queue) : queue[j].kind = "Read"

\* An accepted piece is in place, or on its way to the worker, unless a write
\* failed.
InQueue(p) == \E i \in 1 .. Len(queue) : queue[i].kind = "Write" /\ queue[i].range = WholePiece(p)
StoredInv ==
  /\ stored \subseteq Piece
  /\ working => \A p \in stored : Right(p) \/ broken # {} \/ InQueue(p)

DiskInv == CallInv /\ QueueInv /\ StoredInv /\ FlushMeansStored

\* StoredInv speaks of the files, the queue and the accepted pieces only.
LEMMA SameStored ==
  ASSUME StoredInv, UNCHANGED <<files, broken, queue, working, stored>>
  PROVE  StoredInv'
BY DEF StoredInv, Right, InQueue

\* Only a flush that succeeds promises anything.
LEMMA FlushReply ==
  ASSUME reply'.kind = "Flush" => ~reply'.ok
  PROVE  FlushMeansStored'
BY DEF FlushMeansStored

\* Only calls go: the flushes in the queue keep theirs.
LEMMA QueueKept ==
  ASSUME QueueInv, UNCHANGED <<queue, working>>, nextCall \in Nat, nextCall' \in Nat,
         nextCall' >= nextCall,
         \A c \in DOMAIN calls' : c < nextCall => c \in DOMAIN calls /\ calls'[c] = calls[c],
         \A i \in 1 .. Len(queue) : queue[i].kind = "Flush" =>
            queue[i].id \in DOMAIN calls' /\ calls'[queue[i].id] = calls[queue[i].id]
  PROVE  QueueInv'
<1>1. Len(queue) \in Nat
  BY LenProperties DEF QueueInv
<1>2. ASSUME NEW i \in 1 .. Len(queue) PROVE Entry(queue[i])'
  BY <1>2 DEF QueueInv, Entry
<1> QED
  BY <1>1, <1>2 DEF QueueInv

\* The head of the queue goes, and perhaps its call.
LEMMA QueueTail ==
  ASSUME QueueInv, queue # <<>>, queue' = Tail(queue), UNCHANGED <<working, nextCall>>, working,
         \A c \in DOMAIN calls' : c \in DOMAIN calls /\ calls'[c] = calls[c],
         \A i \in 2 .. Len(queue) : queue[i].kind = "Flush" => queue[i].id \in DOMAIN calls'
  PROVE  QueueInv'
<1>1. PICK E : queue \in Seq(E)
  BY DEF QueueInv
<1>2. /\ queue' \in Seq(E) /\ Len(queue') = Len(queue) - 1 /\ Len(queue) \in Nat
      /\ \A i \in 1 .. Len(queue') : queue'[i] = queue[i + 1]
  BY <1>1, LenProperties, HeadTailProperties
<1>3. ASSUME NEW i \in 1 .. Len(queue') PROVE Entry(queue[i])'
  <2>1. i + 1 \in 1 .. Len(queue) /\ queue'[i] = queue[i + 1]
    BY <1>2
  <2> QED
    BY <2>1 DEF QueueInv, Entry
<1>4. ASSUME NEW i \in 1 .. Len(queue'), queue'[i].kind = "Flush"
      PROVE  /\ queue'[i].id \in DOMAIN calls' /\ calls'[queue'[i].id].sent
             /\ \A j \in i + 1 .. Len(queue') : queue'[j].kind = "Read"
  <2>1. i + 1 \in 2 .. Len(queue) /\ queue[i + 1].kind = "Flush" /\ queue'[i] = queue[i + 1]
    BY <1>2, <1>4
  <2>2. ASSUME NEW j \in i + 1 .. Len(queue') PROVE queue'[j].kind = "Read"
    <3>1. j + 1 \in (i + 1) + 1 .. Len(queue) /\ queue'[j] = queue[j + 1]
      BY <1>2
    <3> QED
      BY <2>1, <3>1 DEF QueueInv
  <2> QED
    BY <2>1, <2>2 DEF QueueInv
<1> QED
  BY <1>2, <1>3, <1>4 DEF QueueInv

\* The piece of a write that stays behind is still in the queue.
LEMMA InQueueTail ==
  ASSUME QueueInv, queue # <<>>, queue' = Tail(queue), NEW p \in Piece, InQueue(p),
         Head(queue).kind = "Write" => Head(queue).range # WholePiece(p)
  PROVE  InQueue(p)'
<1>1. PICK E : queue \in Seq(E)
  BY DEF QueueInv
<1>2. /\ Len(queue') = Len(queue) - 1 /\ Len(queue) \in Nat /\ Head(queue) = queue[1]
      /\ \A i \in 1 .. Len(queue') : queue'[i] = queue[i + 1]
  BY <1>1, LenProperties, HeadTailProperties
<1>3. PICK i \in 1 .. Len(queue) : queue[i].kind = "Write" /\ queue[i].range = WholePiece(p)
  BY DEF InQueue
<1>4. i # 1
  BY <1>2, <1>3
<1>5. i - 1 \in 1 .. Len(queue') /\ queue'[i - 1] = queue[i]
  BY <1>2, <1>4
<1> QED
  BY <1>3, <1>5 DEF InQueue, WholePiece

\* Taking a command that is no write leaves every accepted piece where it was.
LEMMA StoredTail ==
  ASSUME QueueInv, StoredInv, queue # <<>>, queue' = Tail(queue), Head(queue).kind # "Write",
         UNCHANGED <<files, broken, working, stored>>
  PROVE  StoredInv'
BY InQueueTail DEF StoredInv, Right

\* Nothing is promised of pieces or queue once the worker is gone.
LEMMA DeadQueue ==
  ASSUME CallInv, StoredInv, working' = FALSE, queue' = <<>>, UNCHANGED stored
  PROVE  QueueInv' /\ StoredInv'
<1>1. queue' \in Seq({}) /\ Len(queue') = 0
  BY EmptySeq
<1> QED
  BY <1>1 DEF QueueInv, StoredInv

-----------------------------------------------------------------------------
\* The callers

\* The owner awaits its flush: while it can call, none is queued.
LEMMA ServingFlushes ==
  ASSUME QueueInv, Serving
  PROVE  \A i \in 1 .. Len(queue) : queue[i].kind # "Flush"
BY DEF QueueInv, Entry, Serving, Blocked

\* A call that is made changes the calls only.
LEMMA CallStep ==
  ASSUME DiskInv, NEW kind, NEW range, OfPiece(kind, range), Call(kind, range)
  PROVE  DiskInv'
<1> DEFINE call == [kind |-> kind, range |-> range, sent |-> FALSE]
<1>1. /\ ~Blocked /\ calls' = Insert(calls, nextCall, call) /\ nextCall' = nextCall + 1
      /\ nextCall \in Nat /\ nextCall \notin DOMAIN calls
      /\ reply'.kind = "None"
      /\ UNCHANGED <<files, broken, queue, working, stored>>
  BY DEF Call, Serving, DiskInv, CallInv, NoReply
<1>2. /\ DOMAIN calls' = DOMAIN calls \cup {nextCall} /\ calls'[nextCall] = call
      /\ \A c \in DOMAIN calls : calls'[c] = calls[c]
  BY <1>1 DEF Insert
<1>a. IsCall(call) /\ call.kind = kind
  BY DEF IsCall
<1> HIDE DEF call
<1>3. CallInv'
  <2>2. \A c \in DOMAIN calls' : c \in Nat /\ c < nextCall' /\ IsCall(calls'[c])
    BY <1>1, <1>2, <1>a DEF DiskInv, CallInv
  <2>3. \A c \in DOMAIN calls : calls'[c].kind = "Read"
    BY <1>1, <1>2 DEF Blocked
  <2> QED
    BY <1>1, <1>2, <2>2, <2>3 DEF CallInv
<1>4. QueueInv'
  <2>1. \A c \in DOMAIN calls' : c < nextCall => c \in DOMAIN calls /\ calls'[c] = calls[c]
    BY <1>1, <1>2
  <2>2. \A i \in 1 .. Len(queue) : queue[i].kind # "Flush"
    BY ServingFlushes DEF Call, DiskInv
  <2> QED
    BY <1>1, <2>1, <2>2, QueueKept DEF DiskInv
<1> QED
  BY <1>1, <1>3, <1>4, SameStored, FlushReply DEF DiskInv

\* An aborted read leaves its command in the queue, where nobody waits for it.
LEMMA CancelStep ==
  ASSUME DiskInv, NEW c \in DOMAIN calls, CancelRead(c)
  PROVE  DiskInv'
<1>1. /\ Serving /\ calls' = Remove(calls, {c}) /\ reply'.kind = "None"
      /\ UNCHANGED <<files, broken, queue, working, nextCall, stored>>
  BY DEF CancelRead, NoReply
<1>2. DOMAIN calls' \subseteq DOMAIN calls /\ \A d \in DOMAIN calls' : calls'[d] = calls[d]
  BY <1>1 DEF Remove
<1>3. CallInv'
  BY <1>1, <1>2 DEF DiskInv, CallInv
<1>4. QueueInv'
  <2>1. \A i \in 1 .. Len(queue) : queue[i].kind # "Flush"
    BY <1>1, ServingFlushes DEF DiskInv
  <2>2. nextCall \in Nat /\ nextCall' \in Nat /\ nextCall' >= nextCall
    BY <1>1 DEF DiskInv, CallInv
  <2> QED
    BY <1>1, <1>2, <2>1, <2>2, QueueKept DEF DiskInv
<1> QED
  BY <1>1, <1>3, <1>4, SameStored, FlushReply DEF DiskInv

\* The owner leaves commands behind, and no calls.
LEMMA LeaveStep ==
  ASSUME DiskInv, Leave
  PROVE  DiskInv'
<1>1. /\ Serving /\ DOMAIN calls' = {} /\ reply'.kind = "None"
      /\ UNCHANGED <<files, broken, queue, working, nextCall, stored>>
  BY DEF Leave, Quit, EmptyMap, NoReply
<1>2. CallInv'
  BY <1>1 DEF DiskInv, CallInv
<1>3. QueueInv'
  BY <1>1, ServingFlushes, QueueKept DEF DiskInv, CallInv
<1> QED
  BY <1>1, <1>2, <1>3, SameStored, FlushReply DEF DiskInv

\* A call that fails because the worker is gone ends the owner, unless it reads.
LEMMA FailStep ==
  ASSUME DiskInv, NEW c \in DOMAIN calls, Fail(c)
  PROVE  DiskInv'
<1>1. UNCHANGED <<files, broken, queue, working, nextCall, stored>> /\ ~reply'.ok
  BY DEF Fail, Answer
<1>2. /\ DOMAIN calls' \subseteq DOMAIN calls /\ \A d \in DOMAIN calls' : calls'[d] = calls[d]
      /\ calls[c].kind = "Read" => DOMAIN calls' = DOMAIN calls \ {c}
  BY DEF Fail, Quit, EmptyMap, Remove
<1>3. CallInv'
  BY <1>1, <1>2 DEF DiskInv, CallInv
<1>4. ASSUME NEW i \in 1 .. Len(queue), queue[i].kind = "Flush"
      PROVE  queue[i].id \in DOMAIN calls'
  <2>1. queue[i].id \in DOMAIN calls /\ calls[queue[i].id].kind = "Flush" /\ calls[queue[i].id].sent
    BY <1>4 DEF DiskInv, QueueInv, Entry
  <2>2. CASE calls[c].kind = "Read"
    BY <1>2, <2>1, <2>2
  <2>3. CASE calls[c].kind # "Read"
    <3>1. queue[i].id = c
      BY <2>1, <2>3 DEF DiskInv, CallInv
    <3>2. PICK E : queue \in Seq(E)
      BY DEF DiskInv, QueueInv
    <3>3. i \in DOMAIN queue
      BY <3>2, LenProperties
    <3> QED
      BY <2>1, <3>1, <3>3 DEF Fail
  <2> QED
    BY <2>2, <2>3
<1>5. QueueInv'
  BY <1>1, <1>2, <1>4, QueueKept DEF DiskInv, CallInv
<1> QED
  BY <1>1, <1>3, <1>5, SameStored, FlushReply DEF DiskInv

\* What sending a read or a flush does to its record.
LEMMA SentCall ==
  ASSUME NEW c \in DOMAIN calls, IsCall(calls[c]), calls' = [calls EXCEPT ![c].sent = TRUE]
  PROVE  /\ DOMAIN calls' = DOMAIN calls /\ \A d \in DOMAIN calls : d # c => calls'[d] = calls[d]
         /\ IsCall(calls'[c]) /\ calls'[c].sent
         /\ calls'[c].kind = calls[c].kind /\ calls'[c].range = calls[c].range
<1>1. calls'[c] = [calls[c] EXCEPT !.sent = TRUE] /\ {"kind", "range", "sent"} \subseteq DOMAIN calls[c]
  BY DEF IsCall
<1>2. /\ calls'[c].sent /\ calls'[c].kind = calls[c].kind /\ calls'[c].range = calls[c].range
      /\ DOMAIN calls'[c] = DOMAIN calls[c]
  BY <1>1
<1> QED
  BY <1>2 DEF IsCall

\* A command that is sent goes to the end of the queue; a write is accepted with it.
LEMMA SendStep ==
  ASSUME DiskInv, NEW c \in DOMAIN calls, Send(c)
  PROVE  DiskInv'
<1> DEFINE x == [id |-> c, kind |-> calls[c].kind, range |-> calls[c].range]
<1>1. /\ working /\ ~calls[c].sent /\ queue' = Append(queue, x)
      /\ UNCHANGED <<files, broken, working, nextCall>>
      /\ reply'.kind = "Flush" => ~reply'.ok
  BY DEF Send, Answer, NoReply
<1>2. PICK E : queue \in Seq(E)
  BY DEF DiskInv, QueueInv
<1>3. queue \in Seq(E \cup {x}) /\ x \in E \cup {x}
  BY <1>2
<1>4. /\ queue' \in Seq(E \cup {x}) /\ Len(queue) \in Nat /\ Len(queue') = Len(queue) + 1
      /\ queue'[Len(queue) + 1] = x /\ \A i \in 1 .. Len(queue) : queue'[i] = queue[i]
  BY <1>1, <1>3, AppendProperties, LenProperties
<1>5. /\ DOMAIN calls' \subseteq DOMAIN calls
      /\ \A d \in DOMAIN calls' : calls'[d].kind = calls[d].kind /\ calls'[d].range = calls[d].range
      /\ \A d \in DOMAIN calls : d # c => d \in DOMAIN calls' /\ calls'[d] = calls[d]
      /\ calls[c].kind # "Write" => c \in DOMAIN calls' /\ calls'[c].sent
  <2>1. CASE calls[c].kind = "Write"
    BY <2>1 DEF Send, Remove
  <2>2. CASE calls[c].kind # "Write"
    BY <2>2, SentCall DEF Send, DiskInv, CallInv
  <2> QED
    BY <2>1, <2>2
<1>6. CallInv'
  <2>1. ASSUME NEW d \in DOMAIN calls' PROVE IsCall(calls'[d])
    <3>1. CASE d # c
      BY <1>5, <2>1, <3>1 DEF DiskInv, CallInv
    <3>2. CASE d = c
      <4>1. calls' = [calls EXCEPT ![c].sent = TRUE]
        BY <2>1, <3>2 DEF Send, Remove
      <4> QED
        BY <3>2, <4>1, SentCall DEF DiskInv, CallInv
    <3> QED
      BY <3>1, <3>2
  <2> QED
    BY <1>1, <1>5, <2>1 DEF DiskInv, CallInv
<1>7. QueueInv'
  <2>1. ASSUME NEW i \in 1 .. Len(queue') PROVE Entry(queue[i])'
    <3>1. CASE i \in 1 .. Len(queue)
      BY <1>1, <1>4, <1>5, <3>1 DEF DiskInv, QueueInv, Entry
    <3>2. CASE i = Len(queue) + 1
      BY <1>1, <1>4, <1>5, <3>2 DEF DiskInv, CallInv, IsCall, Entry
    <3> QED
      BY <1>4, <3>1, <3>2
  <2>2. ASSUME NEW i \in 1 .. Len(queue), queue[i].kind = "Flush"
        PROVE  queue[i].id \in DOMAIN calls' /\ calls'[queue[i].id].sent /\ x.kind = "Read"
    <3>1. queue[i].id \in DOMAIN calls /\ calls[queue[i].id].kind = "Flush" /\ calls[queue[i].id].sent
      BY <2>2 DEF DiskInv, QueueInv, Entry
    <3>2. queue[i].id # c
      BY <1>1, <3>1
    <3>3. calls[c].kind = "Read"
      BY <3>1, <3>2 DEF DiskInv, CallInv
    <3> QED
      BY <1>5, <3>1, <3>2, <3>3
  <2>3. ASSUME NEW i \in 1 .. Len(queue'), queue'[i].kind = "Flush"
        PROVE  /\ queue'[i].id \in DOMAIN calls' /\ calls'[queue'[i].id].sent
               /\ \A j \in i + 1 .. Len(queue') : queue'[j].kind = "Read"
    <3>1. CASE i \in 1 .. Len(queue)
      <4>1. queue[i].kind = "Flush" /\ queue'[i] = queue[i]
        BY <1>4, <2>3, <3>1
      <4>2. ASSUME NEW j \in i + 1 .. Len(queue') PROVE queue'[j].kind = "Read"
        <5>1. CASE j \in 1 .. Len(queue)
          BY <1>4, <3>1, <4>1, <5>1 DEF DiskInv, QueueInv
        <5>2. CASE j = Len(queue) + 1
          BY <1>4, <2>2, <3>1, <4>1, <5>2
        <5> QED
          BY <1>4, <3>1, <5>1, <5>2
      <4> QED
        BY <2>2, <3>1, <4>1, <4>2
    <3>2. CASE i = Len(queue) + 1
      BY <1>4, <1>5, <2>3, <3>2
    <3> QED
      BY <1>4, <3>1, <3>2
  <2> QED
    BY <1>1, <1>4, <2>1, <2>3 DEF QueueInv
<1>8. StoredInv'
  <2>1. ASSUME NEW p \in stored, InQueue(p) PROVE InQueue(p)'
    BY <1>4, <2>1 DEF InQueue, WholePiece
  <2>2. \A p \in Piece : Right(p)' <=> Right(p)
    BY <1>1 DEF Right
  <2>3. CASE calls[c].kind # "Write"
    <3>1. UNCHANGED stored
      BY <2>3 DEF Send
    <3> QED
      BY <1>1, <2>1, <2>2, <3>1 DEF DiskInv, StoredInv
  <2>4. CASE calls[c].kind = "Write"
    <3>1. PICK p \in Piece : calls[c].range = WholePiece(p)
      BY <2>4 DEF DiskInv, CallInv, IsCall, OfPiece
    <3>2. stored' = stored \cup {p}
      BY <2>4, <3>1, WholePieceStart DEF Send
    <3>3. InQueue(p)'
      BY <1>4, <2>4, <3>1 DEF InQueue, WholePiece
    <3> QED
      BY <1>1, <2>1, <2>2, <3>2, <3>3 DEF DiskInv, StoredInv
  <2> QED
    BY <2>3, <2>4
<1> QED
  BY <1>1, <1>6, <1>7, <1>8, FlushReply DEF DiskInv

-----------------------------------------------------------------------------
\* The worker

\* The command the worker takes is one of those queued.
LEMMA HeadIsEntry ==
  ASSUME QueueInv, queue # <<>>
  PROVE  /\ 1 \in 1 .. Len(queue) /\ Head(queue) = queue[1] /\ Entry(Head(queue))
         /\ Len(queue) \in Nat
<1>1. PICK E : queue \in Seq(E)
  BY DEF QueueInv
<1>2. Len(queue) \in Nat /\ Len(queue) # 0 /\ Head(queue) = queue[1]
  BY <1>1, LenProperties, EmptySeq
<1> QED
  BY <1>2 DEF QueueInv

\* What a write of piece p does: where it stops in each file, and in which of them
\* it fails.
WriteIs(p, limit, told) ==
  /\ Head(queue).range = WholePiece(p)
  /\ DOMAIN limit = Touched(p * PieceLength, PieceSize(p))
  /\ \A f \in DOMAIN limit : limit[f] \in Int
  /\ WriteFiles(p * PieceLength, Bytes(p * PieceLength, PieceSize(p)), limit)
  /\ told = {} => Continue /\ broken' = broken \cup Short(p * PieceLength, PieceSize(p), limit)
  /\ told # {} => Die
  /\ \A q \in Piece : Right(q) => Right(q)'

\* A write does that, whatever its outcome.
LEMMA TakeWriteIs ==
  ASSUME DiskInv, TakeWrite
  PROVE  \E p \in Piece : \E limit, told : WriteIs(p, limit, told)
<1>1. queue # <<>> /\ Head(queue).kind = "Write" /\ working
  BY DEF TakeWrite, Taking
<1>2. PICK p \in Piece : Head(queue).range = WholePiece(p)
  BY <1>1, HeadIsEntry DEF DiskInv, Entry, OfPiece
<1> DEFINE start == p * PieceLength
           len == PieceSize(p)
<1>3. Start(Head(queue).range) = start /\ Head(queue).range.len = len /\ start \in Nat /\ len \in Nat
  BY <1>2, WholePieceStart, FileTypes
<1>4. PICK limit \in [Touched(start, len) -> start .. start + len],
           told \in {{}} \cup {{f} : f \in Touched(start, len)} : PerformWrite(limit, told)
  BY <1>3 DEF TakeWrite
<1>5. DOMAIN limit = Touched(start, len) /\ \A f \in DOMAIN limit : limit[f] \in Int
  BY <1>3, <1>4
<1>6. WriteFiles(start, Bytes(start, len), limit)
  BY <1>3, <1>4 DEF PerformWrite
<1>7. told = {} => Continue /\ broken' = broken \cup Short(start, len, limit)
  <2>1. Short(start, len, limit) \subseteq DOMAIN limit
    BY DEF Short
  <2> QED
    BY <1>3, <1>4, <2>1 DEF PerformWrite
<1>8. told # {} => Die
  BY <1>4 DEF PerformWrite
<1>9. \A q \in Piece : Right(q) => Right(q)'
  BY <1>3, <1>6, WriteKeepsRight
<1> QED
  BY <1>2, <1>5, <1>6, <1>7, <1>8, <1>9 DEF WriteIs

\* CallInv speaks of the calls only.
LEMMA SameCalls ==
  ASSUME CallInv, UNCHANGED <<calls, nextCall>>
  PROVE  CallInv'
BY DEF CallInv

\* A write puts its piece in place, or a file is broken.
LEMMA TakeWriteStep ==
  ASSUME DiskInv, TakeWrite
  PROVE  DiskInv'
<1>1. /\ queue # <<>> /\ working /\ Head(queue).kind = "Write" /\ reply'.kind = "None"
      /\ UNCHANGED <<calls, nextCall, stored>>
  BY DEF TakeWrite, Taking, NoReply
<1>2. PICK p \in Piece : \E limit, told : WriteIs(p, limit, told)
  BY TakeWriteIs
<1>3. PICK limit, told : WriteIs(p, limit, told)
  BY <1>2
<1>4. CallInv' /\ FlushMeansStored'
  BY <1>1, SameCalls, FlushReply DEF DiskInv
<1>5. CASE told # {}
  BY <1>1, <1>2, <1>3, <1>4, <1>5, DeadQueue DEF DiskInv, Die, WriteIs
<1>6. CASE told = {}
  <2>1. queue' = Tail(queue) /\ UNCHANGED working
    BY <1>2, <1>3, <1>6 DEF Continue, WriteIs
  <2>2. QueueInv'
    <3>1. \A i \in 2 .. Len(queue) : queue[i].kind = "Flush" => queue[i].id \in DOMAIN calls'
      BY <1>1, HeadIsEntry DEF DiskInv, QueueInv
    <3> QED
      BY <1>1, <2>1, <3>1, QueueTail DEF DiskInv
  <2>3. ASSUME NEW q \in stored PROVE Right(q)' \/ broken' # {} \/ InQueue(q)'
    <3>1. q \in Piece /\ (Right(q) \/ broken # {} \/ InQueue(q))
      BY <1>1 DEF DiskInv, StoredInv
    <3>2. CASE InQueue(q) /\ q # p
      <4>1. WholePiece(p) # WholePiece(q)
        BY <3>1, <3>2, WholePieceStart
      <4> QED
        BY <1>1, <1>2, <1>3, <2>1, <3>1, <3>2, <4>1, InQueueTail DEF DiskInv, WriteIs
    <3>3. CASE q = p
      BY <1>2, <1>3, <1>6, <3>3, WriteMakesRight DEF WriteIs
    <3> QED
      BY <1>2, <1>3, <1>6, <3>1, <3>2, <3>3 DEF WriteIs
  <2> QED
    BY <1>1, <1>4, <2>2, <2>3 DEF DiskInv, StoredInv
<1> QED
  BY <1>5, <1>6

\* A read changes no file.
LEMMA AnswerReadStep ==
  ASSUME DiskInv, AnswerRead \/ SkipRead
  PROVE  DiskInv'
<1>1. /\ queue # <<>> /\ working /\ Head(queue).kind = "Read"
      /\ queue' = Tail(queue) /\ UNCHANGED <<files, broken, working, nextCall, stored>>
      /\ calls' = Remove(calls, {Head(queue).id}) \/ UNCHANGED calls
      /\ reply'.kind = "Flush" => ~reply'.ok
  BY DEF AnswerRead, SkipRead, Taking, Continue, NoReply, Answer
<1>2. /\ \A c \in DOMAIN calls' : c \in DOMAIN calls /\ calls'[c] = calls[c]
      /\ \A c \in DOMAIN calls : c # Head(queue).id => c \in DOMAIN calls'
  BY <1>1 DEF Remove
<1>3. CallInv'
  BY <1>1, <1>2 DEF DiskInv, CallInv
<1>4. ASSUME NEW i \in 2 .. Len(queue), queue[i].kind = "Flush" PROVE queue[i].id \in DOMAIN calls'
  <2>1. i \in 1 .. Len(queue)
    BY <1>1, HeadIsEntry DEF DiskInv
  <2>2. queue[i].id \in DOMAIN calls /\ calls[queue[i].id].kind = "Flush"
    BY <1>4, <2>1 DEF DiskInv, QueueInv, Entry
  <2>3. queue[i].id # Head(queue).id
    BY <1>1, <2>2, HeadIsEntry DEF DiskInv, Entry
  <2> QED
    BY <1>2, <2>2, <2>3
<1>5. QueueInv'
  BY <1>1, <1>2, <1>4, QueueTail DEF DiskInv
<1>6. StoredInv'
  BY <1>1, StoredTail DEF DiskInv
<1> QED
  BY <1>1, <1>3, <1>5, <1>6, FlushReply DEF DiskInv

\* A flush that succeeds finds no file broken and no write before it.
LEMMA AnswerFlushStep ==
  ASSUME DiskInv, AnswerFlush
  PROVE  DiskInv'
<1>1. /\ queue # <<>> /\ working /\ Head(queue).kind = "Flush"
      /\ reply'.ok = Flushed
      /\ UNCHANGED <<files, broken, nextCall, stored>>
  BY DEF AnswerFlush, Taking, Answer
<1>2. \A i \in 2 .. Len(queue) : queue[i].kind = "Read"
  <2>1. \A j \in 1 + 1 .. Len(queue) : queue[j].kind = "Read"
    BY <1>1, HeadIsEntry DEF DiskInv, QueueInv
  <2> QED
    BY <2>1
<1>3. \A c \in DOMAIN calls' : c \in DOMAIN calls /\ calls'[c] = calls[c]
  BY DEF AnswerFlush, Quit, EmptyMap, Remove
<1>4. CallInv'
  BY <1>1, <1>3 DEF DiskInv, CallInv
<1>5. CASE Flushed
  <2>1. queue' = Tail(queue) /\ UNCHANGED working
    BY <1>5 DEF AnswerFlush, Continue
  <2>2. QueueInv'
    BY <1>1, <1>2, <1>3, <2>1, QueueTail DEF DiskInv
  <2>3. StoredInv'
    BY <1>1, <2>1, StoredTail DEF DiskInv
  <2>4. ASSUME NEW p \in stored PROVE Right(p)'
    <3>1. \A i \in 1 .. Len(queue) : queue[i].kind # "Write"
      BY <1>1, <1>2, HeadIsEntry DEF DiskInv
    <3>2. Right(p)
      BY <1>1, <1>5, <3>1 DEF DiskInv, StoredInv, InQueue, Flushed
    <3> QED
      BY <1>1, <3>2 DEF Right
  <2>5. FlushMeansStored'
    BY <1>1, <2>4 DEF FlushMeansStored
  <2> QED
    BY <1>4, <2>2, <2>3, <2>5 DEF DiskInv
<1>6. CASE ~Flushed
  <2>1. working' = FALSE /\ queue' = <<>>
    BY <1>6 DEF AnswerFlush, Die
  <2> QED
    BY <1>1, <1>4, <1>6, <2>1, DeadQueue, FlushReply DEF DiskInv
<1> QED
  BY <1>5, <1>6

-----------------------------------------------------------------------------
\* The invariant

\* The piece a position of the torrent belongs to.
LEMMA PieceOfPosition ==
  ASSUME NEW p \in Piece, NEW pos \in Nat, p * PieceLength <= pos,
         pos < p * PieceLength + PieceSize(p)
  PROVE  pos \div PieceLength = p
<1>1. p \in Nat /\ PieceLength \in Nat \ {0} /\ p * PieceLength \in Nat /\ PieceSize(p) \in Nat
  BY FileTypes
<1>2. PieceSize(p) <= PieceLength
  <2>1. CASE p = NumPieces - 1
    <3>1. TotalSize < NumPieces * PieceLength /\ NumPieces \in Nat /\ TotalSize \in Nat
      BY TorrentAssumption DEF GeometryAssumption
    <3>2. NumPieces * PieceLength = p * PieceLength + PieceLength
      BY <1>1, <2>1, <3>1
    <3> QED
      BY <1>1, <2>1, <3>1, <3>2 DEF PieceSize
  <2>2. CASE p # NumPieces - 1
    BY <1>1, <2>2 DEF PieceSize
  <2> QED
    BY <2>1, <2>2
<1> DEFINE q == pos \div PieceLength
<1>3. q \in Nat /\ q * PieceLength <= pos /\ pos < q * PieceLength + PieceLength
  BY <1>1
<1> HIDE DEF q
<1>4. pos < p * PieceLength + PieceLength
  BY <1>1, <1>2
<1>5. ~(q < p)
  <2>1. q < p => q * PieceLength + PieceLength <= p * PieceLength
    <3>1. SUFFICES ASSUME q < p PROVE q * PieceLength + PieceLength <= p * PieceLength
      OBVIOUS
    <3>2. PICK d \in Nat : p = q + 1 + d
      <4>1. p - q - 1 \in Nat /\ p = q + 1 + (p - q - 1)
        BY <1>1, <1>3, <3>1
      <4> QED
        BY <4>1
    <3>3. p * PieceLength = q * PieceLength + PieceLength + d * PieceLength /\ d * PieceLength \in Nat
      BY <1>1, <1>3, <3>2
    <3> QED
      BY <1>1, <1>3, <3>3
  <2> QED
    BY <1>1, <1>3, <2>1
<1>6. ~(p < q)
  <2>1. p < q => p * PieceLength + PieceLength <= q * PieceLength
    <3>1. SUFFICES ASSUME p < q PROVE p * PieceLength + PieceLength <= q * PieceLength
      OBVIOUS
    <3>2. PICK d \in Nat : q = p + 1 + d
      <4>1. q - p - 1 \in Nat /\ q = p + 1 + (q - p - 1)
        BY <1>1, <1>3, <3>1
      <4> QED
        BY <4>1
    <3>3. q * PieceLength = p * PieceLength + PieceLength + d * PieceLength /\ d * PieceLength \in Nat
      BY <1>1, <1>3, <3>2
    <3> QED
      BY <1>1, <1>3, <3>3
  <2> QED
    BY <1>1, <1>3, <1>4, <2>1
<1> QED
  BY <1>1, <1>3, <1>5, <1>6 DEF q

\* The pieces found at the start are in place.
LEMMA DiskInitInv ==
  ASSUME DiskInit
  PROVE  DiskInv
<1>1. /\ queue = <<>> /\ working /\ DOMAIN calls = {} /\ nextCall = 0 /\ reply.kind = "None"
  BY DEF DiskInit, EmptyMap, NoReply
<1>2. PICK found \in SUBSET Piece :
        /\ stored = found
        /\ files = [f \in File |-> [k \in 1 .. FileLengths[f] |->
             IF (Offset[f] + k - 1) \div PieceLength \in found THEN Offset[f] + k - 1
                                                               ELSE Unwritten]]
  BY DEF DiskInit
<1>3. ASSUME NEW p \in found PROVE Right(p)
  <2> SUFFICES ASSUME NEW f \in File, NEW pos \in Part(f, p * PieceLength, PieceSize(p))
               PROVE  files[f][pos - Offset[f] + 1] = pos
    BY DEF Right
  <2>1. p \in Piece /\ p * PieceLength \in Nat /\ PieceSize(p) \in Nat
    BY FileTypes
  <2> DEFINE k == pos - Offset[f] + 1
  <2>2. k \in 1 .. FileLengths[f] /\ Offset[f] + k - 1 = pos /\ pos \in Nat
    BY <2>1, PositionInFile
  <2>3. p * PieceLength <= pos /\ pos < p * PieceLength + PieceSize(p)
    BY <2>1, <2>2 DEF Part
  <2>4. pos \div PieceLength = p
    BY <2>1, <2>2, <2>3, PieceOfPosition
  <2> HIDE DEF k
  <2>5. files[f][k] = pos
    BY <1>2, <2>2, <2>4
  <2> QED
    BY <2>5 DEF k
<1>4. queue \in Seq({}) /\ Len(queue) = 0
  BY <1>1, EmptySeq
<1>5. CallInv
  BY <1>1 DEF CallInv
<1>6. QueueInv
  BY <1>1, <1>4 DEF QueueInv
<1>7. StoredInv
  BY <1>2, <1>3 DEF StoredInv
<1> QED
  BY <1>1, <1>5, <1>6, <1>7 DEF DiskInv, FlushMeansStored

\* Every step of the storage keeps its invariant.
LEMMA DiskStep ==
  ASSUME DiskInv, [DiskNext]_diskVars
  PROVE  DiskInv'
<1>1. ASSUME NEW p \in Piece, Write(p) PROVE DiskInv'
  BY <1>1, CallStep DEF Write, OfPiece
<1>2. ASSUME NEW range, Read(range) PROVE DiskInv'
  BY <1>2, CallStep DEF Read, OfPiece
<1>3. CASE Flush
  BY <1>3, CallStep DEF Flush, OfPiece
<1>4. ASSUME NEW range, RefuseRead(range) PROVE DiskInv'
  <2>1. UNCHANGED <<files, broken, queue, working, calls, nextCall, stored>> /\ ~reply'.ok
    BY <1>4 DEF RefuseRead
  <2>2. QueueInv'
    BY <2>1 DEF DiskInv, QueueInv, Entry
  <2> QED
    BY <2>1, <2>2, SameCalls, SameStored, FlushReply DEF DiskInv
<1>5. CASE End \/ Exit
  <2>1. /\ working' = FALSE /\ queue' = <<>> /\ reply'.kind = "None"
        /\ UNCHANGED <<calls, nextCall, stored>>
    BY <1>5 DEF End, Exit, Die, NoReply
  <2> QED
    BY <2>1, DeadQueue, SameCalls, FlushReply DEF DiskInv
<1>6. CASE UNCHANGED diskVars
  <2>1. UNCHANGED <<files, broken, queue, working, calls, nextCall, stored, reply>>
    BY <1>6 DEF diskVars
  <2>2. QueueInv'
    BY <2>1 DEF DiskInv, QueueInv, Entry
  <2>3. FlushMeansStored'
    BY <2>1 DEF DiskInv, FlushMeansStored, Right
  <2> QED
    BY <2>1, <2>2, <2>3, SameCalls, SameStored DEF DiskInv
<1> QED
  BY <1>1, <1>2, <1>3, <1>4, <1>5, <1>6, CancelStep, SendStep, FailStep, LeaveStep,
     TakeWriteStep, AnswerReadStep, AnswerFlushStep DEF DiskNext, Worker

-----------------------------------------------------------------------------
\* What a read finds

\* A range that may be read, of a piece that was accepted.
Readable(range) == range \in BlockRange /\ ValidRange(range) /\ range.piece \in stored

\* Its write is not behind it in the queue: the piece was accepted, and so its
\* write queued, before the read was called for.
NoWriteBehind(i) ==
  \A j \in i + 1 .. Len(queue) :
    queue[j].kind = "Write" => queue[j].range.piece # queue[i].range.piece

ReadInv ==
  /\ \A c \in DOMAIN calls :
       /\ calls[c].kind = "Read" => Readable(calls[c].range)
       /\ calls[c].kind = "Write" => calls[c].range.piece \notin stored
  /\ \A i \in 1 .. Len(queue) :
       queue[i].kind = "Read" => Readable(queue[i].range) /\ NoWriteBehind(i)

\* Calls and commands that go do not disturb it.
LEMMA LessPending ==
  ASSUME DiskInv, ReadInv, UNCHANGED stored,
         \A c \in DOMAIN calls' : c \in DOMAIN calls /\ calls'[c] = calls[c],
         \/ queue' = queue
         \/ queue # <<>> /\ queue' = Tail(queue)
         \/ queue' = <<>>
  PROVE  ReadInv'
<1>1. \A c \in DOMAIN calls' :
        /\ calls'[c].kind = "Read" => Readable(calls'[c].range)
        /\ calls'[c].kind = "Write" => calls'[c].range.piece \notin stored
  BY DEF ReadInv
<1>2. \A range : Readable(range)' <=> Readable(range)
  BY DEF Readable
<1>3. PICK E : queue \in Seq(E)
  BY DEF DiskInv, QueueInv
<1>4. ASSUME NEW i \in 1 .. Len(queue'), queue'[i].kind = "Read"
      PROVE  /\ Readable(queue'[i].range)
             /\ \A j \in i + 1 .. Len(queue') :
                  queue'[j].kind = "Write" => queue'[j].range.piece # queue'[i].range.piece
  <2>1. CASE queue' = queue
    BY <1>4, <2>1 DEF ReadInv, NoWriteBehind
  <2>2. CASE queue # <<>> /\ queue' = Tail(queue)
    <3>1. /\ Len(queue') = Len(queue) - 1 /\ Len(queue) \in Nat
          /\ \A k \in 1 .. Len(queue') : queue'[k] = queue[k + 1]
      BY <1>3, <2>2, LenProperties, HeadTailProperties
    <3>2. i + 1 \in 1 .. Len(queue) /\ queue'[i] = queue[i + 1]
      BY <3>1
    <3>3. ASSUME NEW j \in i + 1 .. Len(queue')
          PROVE  j + 1 \in (i + 1) + 1 .. Len(queue) /\ queue'[j] = queue[j + 1]
      BY <3>1
    <3> QED
      BY <1>4, <3>2, <3>3 DEF ReadInv, NoWriteBehind
  <2>3. CASE queue' = <<>>
    BY <1>4, <2>3, EmptySeq
  <2> QED
    BY <2>1, <2>2, <2>3
<1> QED
  BY <1>1, <1>2, <1>4 DEF ReadInv, NoWriteBehind

\* The owner reads pieces it has stored, and writes those it has not; while it
\* waits for a write it calls nothing else.
LEMMA CallReadInv ==
  ASSUME DiskInv, ReadInv, NEW kind, NEW range, Call(kind, range),
         kind = "Read" => Readable(range),
         kind = "Write" => range.piece \notin stored
  PROVE  ReadInv'
<1> DEFINE call == [kind |-> kind, range |-> range, sent |-> FALSE]
<1>1. calls' = Insert(calls, nextCall, call) /\ UNCHANGED <<queue, stored>>
  BY DEF Call
<1>2. call.kind = kind /\ call.range = range
  OBVIOUS
<1> HIDE DEF call
<1>3. /\ DOMAIN calls' = DOMAIN calls \cup {nextCall} /\ calls'[nextCall] = call
      /\ \A c \in DOMAIN calls : c # nextCall => calls'[c] = calls[c]
  BY <1>1 DEF Insert
<1>4. \A r : Readable(r)' <=> Readable(r)
  BY <1>1 DEF Readable
<1>5. ASSUME NEW c \in DOMAIN calls'
      PROVE  /\ calls'[c].kind = "Read" => Readable(calls'[c].range)
             /\ calls'[c].kind = "Write" => calls'[c].range.piece \notin stored
  <2>1. CASE c = nextCall
    BY <1>2, <1>3, <2>1
  <2>2. CASE c # nextCall
    BY <1>3, <2>2 DEF ReadInv
  <2> QED
    BY <2>1, <2>2
<1> QED
  BY <1>1, <1>4, <1>5 DEF ReadInv, NoWriteBehind

\* A read goes behind every write there is; a write that is accepted is of a piece
\* that nobody could have asked for yet.
LEMMA SendReadInv ==
  ASSUME DiskInv, ReadInv, NEW c \in DOMAIN calls, Send(c)
  PROVE  ReadInv'
<1> DEFINE x == [id |-> c, kind |-> calls[c].kind, range |-> calls[c].range]
           n == Len(queue)
<1>1. queue' = Append(queue, x) /\ x.kind = calls[c].kind /\ x.range = calls[c].range
  BY DEF Send
<1>2. PICK E : queue \in Seq(E)
  BY DEF DiskInv, QueueInv
<1>3. queue \in Seq(E \cup {x}) /\ x \in E \cup {x}
  BY <1>2
<1> HIDE DEF x
<1>4. /\ n \in Nat /\ Len(queue') = n + 1
      /\ queue'[n + 1] = x /\ \A i \in 1 .. n : queue'[i] = queue[i]
  BY <1>1, <1>3, AppendProperties, LenProperties
<1>5. /\ DOMAIN calls' \subseteq DOMAIN calls
      /\ \A d \in DOMAIN calls' : calls'[d].kind = calls[d].kind /\ calls'[d].range = calls[d].range
      /\ stored \subseteq stored'
      /\ calls[c].kind # "Write" => stored' = stored
      /\ calls[c].kind = "Write" => /\ stored' = stored \cup {calls[c].range.piece}
                                    /\ DOMAIN calls' = DOMAIN calls \ {c}
  <2>1. CASE calls[c].kind = "Write"
    BY <2>1 DEF Send, Remove
  <2>2. CASE calls[c].kind # "Write"
    BY <2>2, SentCall DEF Send, DiskInv, CallInv
  <2> QED
    BY <2>1, <2>2
<1>6. ASSUME NEW d \in DOMAIN calls'
      PROVE  /\ calls'[d].kind = "Read" => Readable(calls'[d].range)
             /\ calls'[d].kind = "Write" => calls'[d].range.piece \notin stored'
  <2>1. d \in DOMAIN calls /\ calls'[d].kind = calls[d].kind /\ calls'[d].range = calls[d].range
    BY <1>5
  <2>2. calls[d].kind = "Write" => calls[c].kind # "Write"
    BY <1>5, <2>1 DEF DiskInv, CallInv
  <2> QED
    BY <1>5, <2>1, <2>2 DEF ReadInv
<1>7. ASSUME NEW i \in 1 .. n + 1, queue'[i].kind = "Read"
      PROVE  /\ Readable(queue'[i].range)
             /\ \A j \in i + 1 .. n + 1 :
                  queue'[j].kind = "Write" => queue'[j].range.piece # queue'[i].range.piece
  <2>1. CASE i \in 1 .. n
    <3>1. queue'[i] = queue[i] /\ Readable(queue[i].range) /\ NoWriteBehind(i)
      BY <1>4, <1>7, <2>1 DEF ReadInv
    <3>2. ASSUME NEW j \in i + 1 .. n + 1, queue'[j].kind = "Write"
          PROVE  queue'[j].range.piece # queue'[i].range.piece
      <4>1. CASE j \in 1 .. n
        <5>1. queue'[j] = queue[j] /\ j \in i + 1 .. Len(queue)
          BY <1>4, <2>1, <4>1
        <5> QED
          BY <3>1, <3>2, <5>1 DEF NoWriteBehind
      <4>2. CASE j = n + 1
        <5>1. calls[c].kind = "Write" /\ queue'[j].range = calls[c].range
          BY <1>1, <1>4, <3>2, <4>2
        <5>2. calls[c].range.piece \notin stored
          BY <5>1 DEF ReadInv
        <5> QED
          BY <3>1, <5>1, <5>2 DEF Readable
      <4> QED
        BY <1>4, <2>1, <4>1, <4>2
    <3> QED
      BY <3>1, <3>2
  <2>2. CASE i = n + 1
    <3>1. calls[c].kind = "Read" /\ queue'[i].range = calls[c].range
      BY <1>1, <1>4, <1>7, <2>2
    <3>2. Readable(calls[c].range)
      BY <3>1 DEF ReadInv
    <3>3. \A j \in i + 1 .. n + 1 : FALSE
      BY <1>4, <2>2
    <3> QED
      BY <3>1, <3>2, <3>3
  <2> QED
    BY <1>4, <2>1, <2>2
<1> QED
  BY <1>4, <1>5, <1>6, <1>7 DEF ReadInv, NoWriteBehind, Readable

\* Nothing is read at the start.
LEMMA ReadInvInit ==
  ASSUME DiskInit
  PROVE  ReadInv
BY EmptySeq DEF DiskInit, EmptyMap, ReadInv

\* Every step keeps reads behind the writes of their pieces.
LEMMA ReadInvStep ==
  ASSUME DiskInv, ReadInv, [DiskNext]_diskVars
  PROVE  ReadInv'
<1>1. ASSUME NEW p \in Piece, Write(p) PROVE ReadInv'
  BY <1>1, CallReadInv, WholePieceStart DEF Write
<1>2. ASSUME NEW range \in ReadRanges, Read(range) PROVE ReadInv'
  <2>1. Readable(range)
    BY <1>2, DiskAssumption DEF Read, Readable
  <2> QED
    BY <1>2, <2>1, CallReadInv DEF Read
<1>3. CASE Flush
  BY <1>3, CallReadInv DEF Flush
<1>4. ASSUME NEW range, RefuseRead(range) PROVE ReadInv'
  BY <1>4, LessPending DEF RefuseRead
<1>5. ASSUME NEW c \in DOMAIN calls, CancelRead(c) \/ Fail(c) PROVE ReadInv'
  <2>1. \A d \in DOMAIN calls' : d \in DOMAIN calls /\ calls'[d] = calls[d]
    BY <1>5 DEF CancelRead, Fail, Quit, Remove, EmptyMap
  <2> QED
    BY <1>5, <2>1, LessPending DEF CancelRead, Fail
<1>6. CASE Leave
  <2>1. \A d \in DOMAIN calls' : d \in DOMAIN calls /\ calls'[d] = calls[d]
    BY <1>6 DEF Leave, Quit, EmptyMap
  <2> QED
    BY <1>6, <2>1, LessPending DEF Leave
<1>7. CASE TakeWrite
  <2>1. UNCHANGED <<calls, stored>> /\ queue # <<>>
    BY <1>7 DEF TakeWrite, Taking
  <2>2. Continue \/ Die
    BY <1>7, TakeWriteIs DEF WriteIs
  <2> QED
    BY <2>1, <2>2, LessPending DEF Continue, Die
<1>8. CASE AnswerRead \/ SkipRead \/ AnswerFlush
  <2>1. \A d \in DOMAIN calls' : d \in DOMAIN calls /\ calls'[d] = calls[d]
    BY <1>8 DEF AnswerRead, SkipRead, AnswerFlush, Quit, Remove, EmptyMap
  <2>2. queue # <<>> /\ UNCHANGED stored /\ (Continue \/ Die)
    BY <1>8 DEF AnswerRead, SkipRead, AnswerFlush, Taking
  <2> QED
    BY <2>1, <2>2, LessPending DEF Continue, Die
<1>9. CASE End \/ Exit
  BY <1>9, LessPending DEF End, Exit, Die
<1>10. CASE UNCHANGED diskVars
  BY <1>10, LessPending DEF diskVars
<1> QED
  BY <1>1, <1>2, <1>3, <1>4, <1>5, <1>6, <1>7, <1>8, <1>9, <1>10, SendReadInv DEF DiskNext, Worker

\* The bytes of a range of a piece that is in place are in their places.
LEMMA RangeInPiece ==
  ASSUME NEW range \in BlockRange, ValidRange(range), Right(range.piece)
  PROVE  /\ Start(range) \in Nat /\ range.len \in Nat /\ Start(range) + range.len <= TotalSize
         /\ RangeRight(Start(range), range.len)
<1> DEFINE p == range.piece
           start == Start(range)
<1>1. /\ p \in Piece /\ p \in Nat /\ range.offset \in Nat /\ range.len \in Nat
      /\ p * PieceLength \in Nat /\ PieceSize(p) \in Nat /\ PieceLength \in Nat
      /\ TotalSize \in Nat
  BY FileTypes, TorrentAssumption DEF ValidRange, BlockRange, GeometryAssumption
<1>2. start = p * PieceLength + range.offset
  BY DEF Start
<1>3. start + range.len <= p * PieceLength + PieceSize(p)
  BY <1>1, <1>2 DEF PieceSize, ValidRange
<1>4. ASSUME NEW f \in File PROVE Part(f, start, range.len) \subseteq Part(f, p * PieceLength, PieceSize(p))
  <2> DEFINE base == p * PieceLength
             size == PieceSize(p)
  <2>1. start .. start + range.len - 1 \subseteq base .. base + size - 1
    <3>1. base \in Nat /\ size \in Nat /\ start \in Nat /\ base <= start /\ start + range.len <= base + size
      BY <1>1, <1>2, <1>3
    <3> HIDE DEF base, size, start
    <3> QED
      BY <1>1, <3>1
  <2> QED
    BY <2>1 DEF Part
<1> QED
  BY <1>1, <1>2, <1>4 DEF RangeRight, Right, ValidRange

\* The worker comes to a read when every write of its piece is done.
LEMMA ReadIsRight ==
  ASSUME DiskInv, ReadInv, AnswerRead, broken' = {}, reply'.ok
  PROVE  reply'.data = Bytes(Start(reply'.range), reply'.range.len)
<1> DEFINE range == Head(queue).range
<1>1. /\ queue # <<>> /\ working /\ Head(queue).kind = "Read" /\ broken = {}
      /\ reply'.range = range
      /\ reply'.data = ReadFiles(Start(range), range.len)
  BY DEF AnswerRead, Taking, Answer
<1>2. 1 \in 1 .. Len(queue) /\ Head(queue) = queue[1] /\ Len(queue) \in Nat
  BY <1>1, HeadIsEntry DEF DiskInv
<1>3. Readable(range) /\ NoWriteBehind(1)
  BY <1>1, <1>2 DEF ReadInv
<1>4. range.piece \in stored /\ range.piece \in Piece
  BY <1>3 DEF Readable, ValidRange
<1>5. ~InQueue(range.piece)
  <2>1. ASSUME NEW i \in 1 .. Len(queue), queue[i].kind = "Write",
               queue[i].range = WholePiece(range.piece)
        PROVE  FALSE
    <3>1. i \in 1 + 1 .. Len(queue)
      BY <1>1, <1>2, <2>1
    <3>2. queue[i].range.piece = range.piece
      BY <1>4, <2>1, WholePieceStart
    <3> QED
      BY <1>2, <1>3, <2>1, <3>1, <3>2 DEF NoWriteBehind
  <2> QED
    BY <2>1 DEF InQueue
<1>6. Right(range.piece)
  BY <1>1, <1>4, <1>5 DEF DiskInv, StoredInv
<1> HIDE DEF range
<1> QED
  BY <1>1, <1>3, <1>6, RangeInPiece, ReadsInPlace DEF Readable

\* Every other step answers no read.
LEMMA OnlyAnswersRead ==
  ASSUME DiskNext, ~AnswerRead
  PROVE  reply'.kind = "Read" => ~reply'.ok
<1>1. NoReply.kind # "Read"
  BY DEF NoReply
<1>2. \A call, ok : Answer(call, ok).kind = call.kind /\ Answer(call, ok).ok = ok
  BY DEF Answer
<1>3. ASSUME NEW kind, NEW range, Call(kind, range) PROVE reply' = NoReply
  BY <1>3 DEF Call
<1>4. ASSUME NEW range, RefuseRead(range) PROVE ~reply'.ok
  BY <1>4 DEF RefuseRead
<1>5. ASSUME NEW c, CancelRead(c) PROVE reply' = NoReply
  BY <1>5 DEF CancelRead
<1>6. ASSUME NEW c, Send(c) PROVE reply'.kind # "Read"
  <2>1. CASE calls[c].kind = "Write"
    <3>1. reply' = Answer(calls[c], TRUE)
      BY <1>6, <2>1 DEF Send
    <3> QED
      BY <1>2, <2>1, <3>1
  <2>2. CASE calls[c].kind # "Write"
    <3>1. reply' = NoReply
      BY <1>6, <2>2 DEF Send
    <3> QED
      BY <1>1, <3>1
  <2> QED
    BY <2>1, <2>2
<1>7. ASSUME NEW c, Fail(c) PROVE reply'.ok = FALSE
  BY <1>2, <1>7 DEF Fail
<1>8. CASE AnswerFlush
  BY <1>2, <1>8 DEF AnswerFlush, Taking
<1>9. CASE Leave \/ TakeWrite \/ SkipRead \/ End \/ Exit
  BY <1>1, <1>9 DEF Leave, TakeWrite, SkipRead, End, Exit
<1> QED
  BY <1>1, <1>3, <1>4, <1>5, <1>6, <1>7, <1>8, <1>9 DEF DiskNext, Write, Read, Flush, Worker

-----------------------------------------------------------------------------
\* The theorems

\* The flush with which a download ends (adapters/disk_storage.rs) succeeds only
\* when every accepted piece is on disk, however writes fail, and however reads
\* are cancelled and calls overtake each other meanwhile.
THEOREM FlushIsHonest == DiskSpec => []FlushMeansStored
<1>1. DiskInit => DiskInv
  BY DiskInitInv
<1>2. DiskInv /\ [DiskNext]_diskVars => DiskInv'
  BY DiskStep
<1>3. DiskInv => FlushMeansStored
  BY DEF DiskInv
<1> QED
  BY <1>1, <1>2, <1>3, PTL DEF DiskSpec

\* No step spoils a piece that is in place: the writes of different pieces never
\* overlap, in whatever files they lie and wherever one of them stops.
THEOREM StoredPiecesStay == DiskSpec => StoredStays
<1>1. DiskInit => DiskInv
  BY DiskInitInv
<1>2. DiskInv /\ [DiskNext]_diskVars => DiskInv'
  BY DiskStep
<1>3. ASSUME DiskInv, [DiskNext]_diskVars PROVE [\A p \in Piece : Right(p) => Right(p)']_diskVars
  <2>1. CASE TakeWrite
    BY <1>3, <2>1, TakeWriteIs DEF WriteIs
  <2>2. CASE UNCHANGED files
    BY <2>2 DEF Right
  <2>3. TakeWrite \/ UNCHANGED files
    BY <1>3 DEF DiskNext, Write, Read, Flush, Call, RefuseRead, CancelRead, Send, Fail, Leave,
                Worker, AnswerRead, SkipRead, AnswerFlush, End, Exit, diskVars
  <2> QED
    BY <2>1, <2>2, <2>3
<1> QED
  BY <1>1, <1>2, <1>3, PTL DEF DiskSpec, StoredStays

\* Whoever reads a piece that was accepted gets its bytes, of whatever files they
\* are gathered, whether they were there at the start, are written or still in
\* the queue; unless a write has failed (adapters/disk_storage.rs).
THEOREM ReadsAreRight == DiskSpec => []ReadsSeeWrites
<1>1. DiskInit => DiskInv /\ ReadInv /\ ReadsSeeWrites
  BY DiskInitInv, ReadInvInit DEF DiskInit, NoReply, ReadsSeeWrites
<1>2. ASSUME DiskInv, ReadInv, ReadsSeeWrites, [DiskNext]_diskVars
      PROVE  DiskInv' /\ ReadInv' /\ ReadsSeeWrites'
  <2>1. DiskInv' /\ ReadInv'
    BY <1>2, DiskStep, ReadInvStep
  <2>2. ReadsSeeWrites'
    <3>1. CASE AnswerRead
      BY <1>2, <3>1, ReadIsRight DEF ReadsSeeWrites
    <3>2. CASE DiskNext /\ ~AnswerRead
      BY <3>2, OnlyAnswersRead DEF ReadsSeeWrites
    <3>3. CASE UNCHANGED diskVars
      <4>1. UNCHANGED <<reply, broken>>
        BY <3>3 DEF diskVars
      <4> QED
        BY <1>2, <4>1 DEF ReadsSeeWrites
    <3> QED
      BY <1>2, <3>1, <3>2, <3>3
  <2> QED
    BY <2>1, <2>2
<1> QED
  BY <1>1, <1>2, PTL DEF DiskSpec

=============================================================================
