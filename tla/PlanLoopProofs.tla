----------------------------- MODULE PlanLoopProofs -----------------------------
(***************************************************************************)
(* The loops of Swarm::plan implement the rule of Planner, for every       *)
(* torrent geometry, every set of addresses and every limit, and from      *)
(* every state in which the swarm calls plan().                            *)
(***************************************************************************)
EXTENDS PlanLoop, SwarmProofs, SequenceTheorems

-----------------------------------------------------------------------------
\* The order of the blocks

\* No list comes before another that comes before it.
LEMMA LessAsymmetric ==
  ASSUME NEW s \in Seq(Int), NEW t \in Seq(Int), Len(s) = Len(t), Less(s, t)
  PROVE  ~Less(t, s)
<1> SUFFICES ASSUME Less(t, s) PROVE FALSE
  OBVIOUS
<1>1. DOMAIN s = 1 .. Len(s) /\ DOMAIN t = 1 .. Len(s) /\ Len(s) \in Nat
  OBVIOUS
<1>2. PICK i \in 1 .. Len(s) : s[i] < t[i] /\ \A k \in 1 .. i - 1 : s[k] = t[k]
  BY <1>1 DEF Less
<1>3. PICK j \in 1 .. Len(s) : t[j] < s[j] /\ \A k \in 1 .. j - 1 : t[k] = s[k]
  BY <1>1 DEF Less
<1>4. s[i] \in Int /\ t[i] \in Int /\ s[j] \in Int /\ t[j] \in Int
  BY <1>1
<1>5. CASE i = j
  BY <1>2, <1>3, <1>4, <1>5
<1>6. CASE i < j
  <2>1. i \in 1 .. j - 1
    BY <1>1, <1>6
  <2> QED
    BY <1>2, <1>3, <1>4, <2>1
<1>7. CASE j < i
  <2>1. j \in 1 .. i - 1
    BY <1>1, <1>7
  <2> QED
    BY <1>2, <1>3, <1>4, <2>1
<1> QED
  BY <1>1, <1>5, <1>6, <1>7

\* One more key before the others.
LEMMA PrependLess ==
  ASSUME NEW h \in Int, NEW g \in Int, NEW s \in Seq(Int), NEW t \in Seq(Int), Len(s) = Len(t),
         Less(<<h>> \o s, <<g>> \o t)
  PROVE  h < g \/ (h = g /\ Less(s, t))
<1> DEFINE u == <<h>> \o s
           v == <<g>> \o t
<1>1. /\ Len(s) \in Nat /\ DOMAIN s = 1 .. Len(s)
      /\ DOMAIN u = 1 .. Len(s) + 1
      /\ u[1] = h /\ v[1] = g
      /\ \A k \in 1 .. Len(s) : u[k + 1] = s[k] /\ v[k + 1] = t[k]
  OBVIOUS
<1>2. PICK i \in 1 .. Len(s) + 1 : u[i] < v[i] /\ \A k \in 1 .. i - 1 : u[k] = v[k]
  BY <1>1 DEF Less
<1> HIDE DEF u, v
<1>3. CASE i = 1
  BY <1>1, <1>2, <1>3
<1>4. CASE i # 1
  <2>1. i - 1 \in 1 .. Len(s) /\ 1 \in 1 .. i - 1
    BY <1>1, <1>2, <1>4
  <2>2. h = g
    BY <1>1, <1>2, <2>1
  <2>3. s[i - 1] < t[i - 1]
    <3>1. (i - 1) + 1 = i
      BY <2>1
    <3> QED
      BY <1>1, <1>2, <2>1, <3>1
  <2>4. ASSUME NEW k \in 1 .. (i - 1) - 1 PROVE s[k] = t[k]
    <3>1. k \in 1 .. Len(s) /\ k + 1 \in 1 .. i - 1
      BY <1>1, <2>1
    <3> QED
      BY <1>1, <1>2, <3>1
  <2> QED
    BY <1>1, <2>1, <2>2, <2>3, <2>4 DEF Less
<1> QED
  BY <1>3, <1>4

\* Any list comes before or after any other of its length.
LEMMA LessTotal ==
  ASSUME NEW s \in Seq(Int), NEW t \in Seq(Int), Len(s) = Len(t), s # t
  PROVE  Less(s, t) \/ Less(t, s)
<1> DEFINE D == {i \in 1 .. Len(s) : s[i] # t[i]}
<1>1. DOMAIN s = 1 .. Len(s) /\ DOMAIN t = 1 .. Len(s) /\ Len(s) \in Nat
  OBVIOUS
<1>2. D \in SUBSET Nat /\ D # {}
  <2>1. D \in SUBSET Nat
    BY <1>1
  <2>2. D = {} => \A i \in 1 .. Len(s) : s[i] = t[i]
    BY Zenon
  <2>3. D = {} => s = t
    BY <2>2, SeqEqual, Zenon
  <2> QED
    BY <2>1, <2>3, Zenon
<1>3. PICK i \in D : \A j \in D : i <= j
  BY <1>2, LeastNumber
<1>4. i \in DOMAIN s /\ i \in DOMAIN t /\ s[i] \in Int /\ t[i] \in Int /\ s[i] # t[i]
  BY <1>1
<1>5. \A k \in 1 .. i - 1 : s[k] = t[k]
  BY <1>1, <1>3
<1>6. i \in Nat /\ (s[i] < t[i] \/ t[i] < s[i])
  BY <1>1, <1>4
<1>7. CASE s[i] < t[i]
  BY <1>4, <1>5, <1>7 DEF Less
<1>8. CASE t[i] < s[i]
  BY <1>4, <1>5, <1>8 DEF Less
<1> HIDE DEF D
<1> QED
  BY <1>6, <1>7, <1>8

\* What comes before a list comes before those after it.
LEMMA LessTransitive ==
  ASSUME NEW s \in Seq(Int), NEW t \in Seq(Int), NEW u \in Seq(Int),
         Len(s) = Len(t), Len(t) = Len(u), Less(s, t), Less(t, u)
  PROVE  Less(s, u)
<1>1. /\ DOMAIN s = 1 .. Len(s) /\ DOMAIN t = 1 .. Len(s) /\ Len(s) \in Nat
      /\ \A k \in 1 .. Len(s) : s[k] \in Int /\ t[k] \in Int /\ u[k] \in Int
  OBVIOUS
<1>2. PICK i \in 1 .. Len(s) : s[i] < t[i] /\ \A k \in 1 .. i - 1 : s[k] = t[k]
  BY <1>1 DEF Less
<1>3. PICK j \in 1 .. Len(s) : t[j] < u[j] /\ \A k \in 1 .. j - 1 : t[k] = u[k]
  BY <1>1 DEF Less
<1>4. CASE i <= j
  <2>1. s[i] < u[i]
    <3>1. i = j \/ i \in 1 .. j - 1
      BY <1>1, <1>4
    <3> QED
      BY <1>1, <1>2, <1>3, <3>1
  <2>2. ASSUME NEW k \in 1 .. i - 1 PROVE s[k] = u[k]
    BY <1>1, <1>2, <1>3, <1>4
  <2> QED
    BY <1>1, <2>1, <2>2 DEF Less
<1>5. CASE j < i
  <2>1. s[j] < u[j]
    <3>1. j \in 1 .. i - 1
      BY <1>1, <1>5
    <3> QED
      BY <1>1, <1>2, <1>3, <3>1
  <2>2. ASSUME NEW k \in 1 .. j - 1 PROVE s[k] = u[k]
    BY <1>1, <1>2, <1>3, <1>5
  <2> QED
    BY <1>1, <2>1, <2>2 DEF Less
<1> QED
  BY <1>1, <1>4, <1>5

\* The keys of blocks are lists of numbers.
LEMMA KeysAreNumbers ==
  ASSUME RegistryOK, NEW b \in AllBlocks
  PROVE  BlockKey(b) \in Seq(Int) /\ Len(BlockKey(b)) = 5
<1>1. b.piece \in Int /\ b.offset \in Int
  BY WantedAreBlocks DEF BlockRange
<1>2. Rarity(b.piece) \in Int
  <2>1. IsFiniteSet(byPiece[b.piece])
    BY WantedAreBlocks, MessageAssumption, FS_Subset DEF RegistryOK
  <2> QED
    BY <2>1, FS_CardinalityType, RegistryAssumption DEF Rarity
<1> QED
  BY <1>1, <1>2 DEF BlockKey

\* Holders and depths are counted.
LEMMA CountsAreNumbers ==
  ASSUME SwarmOK
  PROVE  MaxDepth \in Nat /\ \A b : HolderCount(b) \in Nat
<1>1. IsFiniteSet(Unchoked)
  BY MessageAssumption, FS_Subset DEF SwarmOK, RegistryOK, Unchoked
<1>2. ASSUME NEW b PROVE IsFiniteSet({x \in assigned : x.block = b})
  BY FS_Subset DEF SwarmOK
<1> QED
  BY <1>1, <1>2, FS_CardinalityType DEF MaxDepth, HolderCount

\* The list of plan(): every wanted block, in the order of the policy.
Listed ==
  /\ blocks \in Seq(WantedBlocks)
  /\ \A b \in WantedBlocks : \E k \in DOMAIN blocks : blocks[k] = b
  /\ Sorted(blocks)

\* There are finitely many blocks.
LEMMA WantedFinite == IsFiniteSet(WantedBlocks)
<1> DEFINE BlocksOf(p) == {Block(p, i) : i \in BlockIndices(p)}
<1>1. ASSUME NEW p \in Piece PROVE IsFiniteSet(BlocksOf(p))
  <2> DEFINE f == [i \in BlockIndices(p) |-> Block(p, i)]
  <2>1. IsFiniteSet(BlockIndices(p))
    BY NumBlocksBounds, FS_Interval DEF BlockIndices
  <2>2. f \in Surjection(BlockIndices(p), BlocksOf(p))
    BY DEF Surjection
  <2> QED
    BY <2>1, <2>2, FS_Surjection
<1>2. IsFiniteSet({BlocksOf(p) : p \in Piece})
  <2> DEFINE g == [p \in Piece |-> BlocksOf(p)]
  <2>1. IsFiniteSet(Piece)
    BY TorrentAssumption, FS_Interval DEF Piece, GeometryAssumption
  <2>2. g \in Surjection(Piece, {BlocksOf(p) : p \in Piece})
    BY DEF Surjection
  <2> HIDE DEF BlocksOf
  <2> QED
    BY <2>1, <2>2, FS_Surjection
<1>3. IsFiniteSet(AllBlocks)
  <2>1. IsFiniteSet(UNION {BlocksOf(p) : p \in Piece})
    BY <1>1, <1>2, FS_UNION
  <2> QED
    BY <2>1 DEF AllBlocks
<1> QED
  BY <1>3, WantedAreBlocks, FS_Subset

\* A relation that puts the elements of a set in a line.
Linear(R, S) ==
  /\ \A x \in S : <<x, x>> \notin R
  /\ \A x, y \in S : x # y => <<x, y>> \in R \/ <<y, x>> \in R
  /\ \A x, y, z \in S : <<x, y>> \in R /\ <<y, z>> \in R => <<x, z>> \in R

\* The last of such a line, by induction on its length.
LEMMA LastElement ==
  ASSUME NEW S, IsFiniteSet(S), S # {}, NEW R, Linear(R, S)
  PROVE  \E m \in S : \A x \in S \ {m} : <<x, m>> \in R
<1> DEFINE HasLast(U) == \E m \in U : \A x \in U \ {m} : <<x, m>> \in R
           T == {n \in Nat : \A U \in SUBSET S : Cardinality(U) = n + 1 => HasLast(U)}
<1>1. 0 \in T
  <2>1. ASSUME NEW U \in SUBSET S, Cardinality(U) = 0 + 1 PROVE HasLast(U)
    <3>1. IsFiniteSet(U) /\ Cardinality(U) = 1
      BY <2>1, FS_Subset
    <3>2. PICK m : U = {m}
      BY <3>1, FS_Singleton
    <3> QED
      BY <3>2
  <2> QED
    BY <2>1
<1>2. ASSUME NEW n \in T PROVE n + 1 \in T
  <2>1. ASSUME NEW U \in SUBSET S, Cardinality(U) = (n + 1) + 1 PROVE HasLast(U)
    <3>1. IsFiniteSet(U) /\ U # {}
      BY <2>1, FS_Subset, FS_EmptySet
    <3>2. PICK y \in U : TRUE
      BY <3>1
    <3>3. Cardinality(U \ {y}) = n + 1 /\ U \ {y} \in SUBSET S
      BY <2>1, <3>1, FS_RemoveElement
    <3>4. PICK m \in U \ {y} : \A x \in (U \ {y}) \ {m} : <<x, m>> \in R
      BY <1>2, <3>3
    <3>5. CASE <<y, m>> \in R
      BY <3>4, <3>5
    <3>6. CASE <<m, y>> \in R
      BY <2>1, <3>4, <3>6 DEF Linear
    <3> QED
      BY <2>1, <3>5, <3>6 DEF Linear
  <2> HIDE DEF HasLast
  <2> QED
    BY <2>1
<1>3. T = Nat
  <2>1. T \in SUBSET Nat
    OBVIOUS
  <2> HIDE DEF T
  <2> QED
    BY <1>1, <1>2, <2>1, Induction
<1>4. Cardinality(S) \in Nat \ {0}
  BY FS_CardinalityType, FS_EmptySet
<1>5. Cardinality(S) - 1 \in T /\ Cardinality(S) = (Cardinality(S) - 1) + 1
  BY <1>3, <1>4
<1> HIDE DEF HasLast
<1>6. HasLast(S)
  BY <1>5
<1> QED
  BY <1>6 DEF HasLast

\* A finite set has a sorted list.
LEMMA SortedList ==
  ASSUME NEW S, IsFiniteSet(S), NEW R, Linear(R, S)
  PROVE  \E f \in [1 .. Cardinality(S) -> S] :
           \A i, j \in 1 .. Cardinality(S) : i < j => <<f[i], f[j]>> \in R
<1> DEFINE Line(f, U, n) == /\ f \in [1 .. n -> U]
                            /\ \A i, j \in 1 .. n : i < j => <<f[i], f[j]>> \in R
           T == {n \in Nat : \A U \in SUBSET S : Cardinality(U) = n => \E f : Line(f, U, n)}
<1>1. 0 \in T
  <2>1. ASSUME NEW U PROVE Line([i \in 1 .. 0 |-> 0], U, 0)
    OBVIOUS
  <2> HIDE DEF Line
  <2> QED
    BY <2>1
<1>2. ASSUME NEW n \in T PROVE n + 1 \in T
  <2>1. ASSUME NEW U \in SUBSET S, Cardinality(U) = n + 1 PROVE \E f : Line(f, U, n + 1)
    <3>1. IsFiniteSet(U) /\ U # {} /\ Linear(R, U)
      BY <2>1, FS_Subset, FS_EmptySet DEF Linear
    <3>2. PICK m \in U : \A x \in U \ {m} : <<x, m>> \in R
      BY <3>1, LastElement
    <3>3. Cardinality(U \ {m}) = n /\ U \ {m} \in SUBSET S
      <4>1. n \in Nat
        OBVIOUS
      <4>2. Cardinality(U \ {m}) = Cardinality(U) - 1
        BY <3>1, FS_RemoveElement
      <4> QED
        BY <2>1, <4>1, <4>2
    <3>4. PICK f : Line(f, U \ {m}, n)
      <4> HIDE DEF Line
      <4> QED
        BY <1>2, <3>3
    <3> DEFINE g == [i \in 1 .. n + 1 |-> IF i = n + 1 THEN m ELSE f[i]]
    <3>5. g \in [1 .. n + 1 -> U]
      <4>1. ASSUME NEW i \in 1 .. n + 1, i # n + 1 PROVE f[i] \in U
        BY <3>4, <4>1
      <4> QED
        BY <4>1
    <3>6. ASSUME NEW i \in 1 .. n + 1, NEW j \in 1 .. n + 1, i < j PROVE <<g[i], g[j]>> \in R
      <4>1. i \in 1 .. n /\ g[i] = f[i] /\ f[i] \in U \ {m}
        BY <3>4, <3>6
      <4>2. CASE j = n + 1
        <5>1. g[j] = m
          BY <4>2
        <5> QED
          BY <3>2, <4>1, <5>1
      <4>3. CASE j \in 1 .. n
        <5>1. g[j] = f[j]
          BY <4>3
        <5> QED
          BY <3>4, <3>6, <4>1, <4>3, <5>1
      <4> QED
        BY <4>2, <4>3
    <3> HIDE DEF g
    <3>7. Line(g, U, n + 1)
      BY <3>5, <3>6
    <3> HIDE DEF Line
    <3> QED
      BY <3>7
  <2> HIDE DEF Line
  <2> QED
    BY <2>1
<1>3. T = Nat
  <2>1. T \in SUBSET Nat
    OBVIOUS
  <2> HIDE DEF T
  <2> QED
    BY <1>1, <1>2, <2>1, Induction
<1>4. Cardinality(S) \in T
  BY <1>3, FS_CardinalityType
<1>5. PICK f : Line(f, S, Cardinality(S))
  <2> HIDE DEF Line
  <2> QED
    BY <1>4
<1> QED
  BY <1>5

\* Two blocks do not start at the same place.
LEMMA KeysDiffer ==
  ASSUME NEW b \in AllBlocks, NEW c \in AllBlocks, b # c
  PROVE  BlockKey(b) # BlockKey(c)
<1>1. PICK p \in Piece : \E i \in BlockIndices(p) : b = Block(p, i)
  BY DEF AllBlocks
<1>2. PICK q \in Piece : \E j \in BlockIndices(q) : c = Block(q, j)
  BY DEF AllBlocks
<1>3. b.piece # c.piece \/ b.offset # c.offset
  <2>1. SUFFICES ASSUME b.piece = c.piece, b.offset = c.offset PROVE FALSE
    OBVIOUS
  <2>2. PICK i \in BlockIndices(p) : b = Block(p, i)
    BY <1>1
  <2>3. PICK j \in BlockIndices(q) : c = Block(q, j)
    BY <1>2
  <2>4. p = q
    BY <2>1, <2>2, <2>3 DEF Block
  <2>5. BlockIndex(b) = i /\ BlockIndex(c) = j
    BY <2>2, <2>3, BlockIndexOfBlock
  <2>6. i = j
    BY <2>1, <2>5 DEF BlockIndex
  <2> QED
    BY <2>2, <2>3, <2>4, <2>6
<1>4. /\ BlockKey(b)[4] = b.piece /\ BlockKey(b)[5] = b.offset
      /\ BlockKey(c)[4] = c.piece /\ BlockKey(c)[5] = c.offset
  BY DEF BlockKey
<1> QED
  BY <1>3, <1>4

\* In every state in which the swarm calls plan() (domain/swarm.rs) there is a list
\* that the sort gives: the theorems below are about calls there are.
THEOREM CallHasList ==
  ASSUME SwarmOK
  PROVE  \E list \in Seqs!SetToSeqs(WantedBlocks) : Sorted(list)
<1> DEFINE W == WantedBlocks
           n == Cardinality(W)
           R == {x \in W \X W : Less(BlockKey(x[1]), BlockKey(x[2]))}
<1>1. IsFiniteSet(W) /\ n \in Nat
  BY WantedFinite, FS_CardinalityType
<1>2. \A b \in W : b \in AllBlocks /\ BlockKey(b) \in Seq(Int) /\ Len(BlockKey(b)) = 5
  BY KeysAreNumbers, WantedAreBlocks DEF SwarmOK
<1>3. \A x, y \in W : <<x, y>> \in R <=> Less(BlockKey(x), BlockKey(y))
  OBVIOUS
<1> HIDE DEF R, W
<1>4. Linear(R, W)
  <2>1. ASSUME NEW x \in W, <<x, x>> \in R PROVE FALSE
    BY <1>2, <1>3, <2>1, LessAsymmetric
  <2>2. ASSUME NEW x \in W, NEW y \in W, x # y PROVE <<x, y>> \in R \/ <<y, x>> \in R
    BY <1>2, <1>3, <2>2, KeysDiffer, LessTotal
  <2>3. ASSUME NEW x \in W, NEW y \in W, NEW z \in W, <<x, y>> \in R, <<y, z>> \in R
        PROVE  <<x, z>> \in R
    BY <1>2, <1>3, <2>3, LessTransitive
  <2> QED
    BY <2>1, <2>2, <2>3 DEF Linear
<1>5. PICK f \in [1 .. n -> W] : \A i, j \in 1 .. n : i < j => <<f[i], f[j]>> \in R
  BY <1>1, <1>4, SortedList
<1>6. ASSUME NEW i \in 1 .. n, NEW j \in 1 .. n, i # j PROVE f[i] # f[j]
  <2>1. i < j \/ j < i
    BY <1>6
  <2> QED
    BY <1>4, <1>5, <2>1 DEF Linear
<1>7. f \in Seqs!SetToSeqs(W)
  BY <1>6 DEF Seqs!SetToSeqs, Seqs!Cardinality, Cardinality
<1>8. Sorted(f)
  BY <1>3, <1>5 DEF Sorted
<1> QED
  BY <1>7, <1>8 DEF W

\* plan() starts with such a list.
LEMMA CallLists == Call => Listed
<1> SUFFICES ASSUME Call PROVE Listed
  OBVIOUS
<1> DEFINE n == Cardinality(WantedBlocks)
<1>1. n \in Nat /\ IsFiniteSet(WantedBlocks)
  BY WantedFinite, FS_CardinalityType
<1>2. /\ blocks \in [1 .. n -> WantedBlocks]
      /\ \A i, j \in 1 .. n : i # j => blocks[i] # blocks[j]
      /\ Sorted(blocks)
  BY DEF Call, Seqs!SetToSeqs, Seqs!Cardinality, Cardinality, Seqs!IsInjective
<1>3. blocks \in Injection(1 .. n, WantedBlocks)
  BY <1>2 DEF Injection, IsInjective
<1>4. blocks \in Surjection(1 .. n, WantedBlocks)
  <2>1. Cardinality(1 .. n) = n
    BY <1>1, FS_Interval
  <2> QED
    BY <1>1, <1>3, <2>1, FS_Injection
<1>5. blocks \in Seq(WantedBlocks) /\ DOMAIN blocks = 1 .. n
  BY <1>1, <1>2
<1> QED
  BY <1>2, <1>4, <1>5 DEF Listed, Surjection

-----------------------------------------------------------------------------
\* The rule, seen through INSTANCE

\* What the rule reads is what the loop reads.
LEMMA RuleReads ==
  /\ Rule!Plannable = Plannable
  /\ Rule!OpenSlots = OpenSlots
  /\ Rule!WantedBlocks = WantedBlocks
  /\ \A b : Rule!BlockKey(b) = BlockKey(b) /\ Rule!HolderCount(b) = HolderCount(b)
  /\ \A b, a : Rule!CanAsk(b, a) <=> CanAsk(b, a)
<1>1. \A a : Rule!FreeSlots(a) = FreeSlots(a)
  BY DEF Rule!FreeSlots, FreeSlots, Rule!InFlight, InFlight,
              Rule!Cardinality, Cardinality
<1>2. Rule!Unchoked = Unchoked
  BY DEF Rule!Unchoked, Unchoked
<1>3. Rule!OpenSlots = OpenSlots
  BY <1>1, <1>2 DEF Rule!OpenSlots, OpenSlots
<1>4. \A b, a : Rule!CanAsk(b, a) <=> CanAsk(b, a)
  BY <1>1 DEF Rule!CanAsk, CanAsk, Rule!CanServe, CanServe, Rule!Known, Known,
              Rule!IsHolder, IsHolder
<1>5. Rule!WantedBlocks = WantedBlocks
  BY DEF Rule!WantedBlocks, WantedBlocks, Rule!NeededPieces, NeededPieces,
         Rule!UnreceivedBlocks, UnreceivedBlocks, Rule!IsComplete, IsComplete,
         Rule!Piece, Piece, Rule!Block, Block, Rule!BlockIndices, BlockIndices,
         Rule!NumBlocks, NumBlocks, Rule!PieceSize, PieceSize,
         Rule!BlockLength, BlockLength
<1>6. \A b : Rule!HolderCount(b) = HolderCount(b)
  BY DEF Rule!HolderCount, HolderCount, Rule!Cardinality, Cardinality
<1>7. \A b : Rule!BlockKey(b) = BlockKey(b)
  BY DEF Rule!BlockKey, BlockKey, Rule!IsPartial, IsPartial, Rule!IsComplete, IsComplete,
         Rule!IsSuggested, IsSuggested, Rule!Rarity, Rarity,
         Rule!Cardinality, Cardinality
<1>8. Rule!Plannable = Plannable
  BY <1>2, <1>4, <1>5, <1>6 DEF Rule!Plannable, Plannable, Rule!MaxDepth, MaxDepth,
                                 Rule!Cardinality, Cardinality
<1> QED
  BY <1>3, <1>4, <1>5, <1>6, <1>7, <1>8

-----------------------------------------------------------------------------
\* The inductive invariant

\* What the running sweep has passed by: a block that can still be asked for
\* has more holders than the depth of the pass, or just as many and its turn
\* in this pass to come.  Without it nothing relates the blocks behind to the
\* rule, which looks at all of them again for every request.
Passed ==
  ~returned =>
    \A k \in DOMAIN blocks :
      blocks[k] \in Plannable =>
        \/ replication < HolderCount(blocks[k])
        \/ replication = HolderCount(blocks[k]) /\ at <= k

Counted == holders \in [AllBlocks -> Nat] /\ HoldersInStep

LoopInv ==
  /\ SwarmOK
  /\ Listed
  /\ Counted
  /\ replication \in Nat /\ at \in Nat \ {0}
  /\ Passed

\* A call starts with it.
LEMMA LoopInvInit == SwarmOK /\ Call => LoopInv
<1> SUFFICES ASSUME SwarmOK, Call PROVE LoopInv
  OBVIOUS
<1>1. Counted
  BY CountsAreNumbers DEF Call, Counted, HoldersInStep
<1>2. Listed
  BY CallLists
<1>3. Passed
  <2>1. replication = 0 /\ at = 1
    BY DEF Call
  <2>2. ASSUME NEW k \in DOMAIN blocks PROVE k \in Nat /\ 1 <= k
    BY <1>2 DEF Listed
  <2>3. \A k \in DOMAIN blocks : HolderCount(blocks[k]) \in Nat
    BY CountsAreNumbers
  <2> QED
    BY <2>1, <2>2, <2>3 DEF Passed
<1> QED
  BY <1>1, <1>2, <1>3 DEF LoopInv, Call

\* One request more, of a block that its peer was not asked for: that block has
\* one more holder, and whoever can be asked now could be asked before.
LEMMA AskCounts ==
  ASSUME SwarmOK, NEW a \in Addr, NEW b \in AllBlocks, b = blocks[at], Ask(a)
  PROVE  /\ SwarmOK'
         /\ HolderCount(b)' = HolderCount(b) + 1
         /\ \A c : c # b => HolderCount(c)' = HolderCount(c)
         /\ WantedBlocks' = WantedBlocks
         /\ Plannable' \subseteq Plannable
<1> DEFINE new == [block |-> b, addr |-> a]
<1>1. /\ assigned' = assigned \cup {new} /\ new \notin assigned
      /\ UNCHANGED <<pieceVars, registryVars, status>>
  BY DEF Ask, Assign, CanAsk, IsHolder
<1>2. new \in [block : AllBlocks, addr : Addr]
  OBVIOUS
<1> HIDE DEF new
<1>3. IsFiniteSet(assigned) /\ IsFiniteSet(assigned')
  BY <1>1, FS_AddElement DEF SwarmOK
<1>4. SwarmOK'
  <2>1. assigned' \subseteq [block : AllBlocks, addr : Addr]
    BY <1>1, <1>2 DEF SwarmOK
  <2>2. PiecesOK'
    BY <1>1 DEF SwarmOK, PiecesOK, pieceVars
  <2>3. RegistryOK'
    BY <1>1 DEF SwarmOK, RegistryOK, registryVars
  <2> QED
    BY <1>3, <2>1, <2>2, <2>3 DEF SwarmOK
<1>5. HolderCount(b)' = HolderCount(b) + 1
  <2> DEFINE S == {x \in assigned : x.block = b}
  <2>1. IsFiniteSet(S) /\ new \notin S
    BY <1>1, <1>3, FS_Subset
  <2>2. {x \in assigned' : x.block = b} = S \cup {new}
    BY <1>1 DEF new
  <2>3. Cardinality(S \cup {new}) = Cardinality(S) + 1
    BY <2>1, FS_AddElement
  <2>4. Cardinality({x \in assigned' : x.block = b}) = Cardinality({x \in assigned : x.block = b}) + 1
    BY <2>2, <2>3
  <2> QED
    BY <1>1, <2>4 DEF HolderCount
<1>6. ASSUME NEW c, c # b PROVE HolderCount(c)' = HolderCount(c)
  <2>1. {x \in assigned' : x.block = c} = {x \in assigned : x.block = c}
    BY <1>1, <1>6 DEF new
  <2> QED
    BY <2>1 DEF HolderCount
<1>7. WantedBlocks' = WantedBlocks
  BY <1>1 DEF WantedBlocks, NeededPieces, UnreceivedBlocks, IsComplete, pieceVars
<1>8. ASSUME NEW c \in Plannable' PROVE c \in Plannable
  <2>1. MaxDepth' = MaxDepth
    BY <1>1 DEF MaxDepth, Unchoked, registryVars
  <2>2. HolderCount(c) <= MaxDepth
    <3>1. HolderCount(c)' <= MaxDepth'
      BY <1>8 DEF Plannable
    <3>2. HolderCount(c) <= HolderCount(c)'
      BY <1>5, <1>6, CountsAreNumbers
    <3>3. HolderCount(c) \in Nat /\ HolderCount(c)' \in Nat /\ MaxDepth \in Nat
      <4>1. HolderCount(c) \in Nat /\ HolderCount(b) \in Nat /\ MaxDepth \in Nat
        BY CountsAreNumbers
      <4> QED
        BY <1>5, <1>6, <4>1
    <3> QED
      BY <2>1, <3>1, <3>2, <3>3
  <2>3. PICK x \in Addr : CanAsk(c, x)'
    BY <1>8 DEF Plannable
  <2>4. FreeSlots(x) > 0
    <3>1. InFlight(x) \subseteq InFlight(x)'
      BY <1>1 DEF InFlight
    <3>2. IsFiniteSet(InFlight(x)') /\ IsFiniteSet(InFlight(x))
      BY <1>3, FS_Subset DEF InFlight
    <3>3. /\ Cardinality(InFlight(x)) <= Cardinality(InFlight(x)')
          /\ Cardinality(InFlight(x)) \in Nat
          /\ Cardinality(InFlight(x)') \in Nat
      BY <3>1, <3>2, FS_Subset, FS_CardinalityType
    <3>4. Cardinality(InFlight(x)') < MaxInFlightPerPeer
      BY <2>3 DEF CanAsk, FreeSlots
    <3> QED
      BY <3>3, <3>4, AssignmentAssumption DEF FreeSlots
  <2>5. x \in byPiece[c.piece] /\ CanServe(x, c.piece) /\ ~IsHolder(c, x)
    BY <1>1, <2>3 DEF CanAsk, CanServe, Known, IsHolder, registryVars
  <2>6. c \in WantedBlocks
    BY <1>7, <1>8 DEF Plannable
  <2> QED
    BY <2>2, <2>4, <2>5, <2>6 DEF Plannable, CanAsk
<1> QED
  BY <1>4, <1>5, <1>6, <1>7, <1>8

\* Nothing else changes the state of the swarm, nor what is read from it.
LEMMA SwarmStays ==
  ASSUME SwarmOK, UNCHANGED swarmVars
  PROVE  /\ SwarmOK'
         /\ WantedBlocks' = WantedBlocks
         /\ Plannable' = Plannable
         /\ \A c : HolderCount(c)' = HolderCount(c)
<1>1. UNCHANGED <<pieces, bitfield, peers, byId, byPiece, seeders, leechers, assigned>>
  BY DEF swarmVars, pieceVars, registryVars
<1>2. SwarmOK'
  BY <1>1 DEF SwarmOK, PiecesOK, RegistryOK
<1>3. WantedBlocks' = WantedBlocks
  BY <1>1 DEF WantedBlocks, NeededPieces, UnreceivedBlocks, IsComplete
<1>4. \A c : HolderCount(c)' = HolderCount(c)
  BY <1>1 DEF HolderCount
<1>5. \A c, x : CanAsk(c, x)' <=> CanAsk(c, x)
  BY <1>1 DEF CanAsk, CanServe, Known, FreeSlots, InFlight, IsHolder
<1>6. Plannable' = Plannable
  BY <1>1, <1>3, <1>4, <1>5 DEF Plannable, MaxDepth, Unchoked
<1> QED
  BY <1>2, <1>3, <1>4, <1>6

\* The list keeps its order: a request does not change the key of a block.
LEMMA ListStays ==
  ASSUME Listed, UNCHANGED <<blocks, pieceVars, registryVars>>, WantedBlocks' = WantedBlocks
  PROVE  Listed'
<1>1. \A c : BlockKey(c)' = BlockKey(c)
  BY DEF BlockKey, IsPartial, IsComplete, IsSuggested, Rarity, pieceVars, registryVars
<1>2. Sorted(blocks)'
  <2>1. ASSUME NEW i \in DOMAIN blocks, NEW j \in DOMAIN blocks, i < j
        PROVE  Less(BlockKey(blocks[i])', BlockKey(blocks[j])')
    BY <1>1, <2>1 DEF Listed, Sorted
  <2> QED
    BY <1>1, <2>1 DEF Sorted
<1> QED
  BY <1>2 DEF Listed

\* The blocks of the list are blocks of the torrent, at positions that count.
LEMMA ListedBlocks ==
  ASSUME Listed
  PROVE  /\ Len(blocks) \in Nat /\ DOMAIN blocks = 1 .. Len(blocks)
         /\ \A k \in DOMAIN blocks : blocks[k] \in WantedBlocks /\ blocks[k] \in AllBlocks
BY WantedAreBlocks DEF Listed

\* A request keeps the invariant: the copied count grows with the assignments,
\* past the depth of the pass.
LEMMA AskKeeps ==
  ASSUME LoopInv, NEW a \in Addr, Ask(a)
  PROVE  LoopInv'
<1>1. PICK b \in AllBlocks : b = blocks[at] /\ at \in DOMAIN blocks
  BY ListedBlocks DEF LoopInv, Ask, InPass
<1>2. /\ SwarmOK'
      /\ HolderCount(b)' = HolderCount(b) + 1
      /\ \A c : c # b => HolderCount(c)' = HolderCount(c)
      /\ WantedBlocks' = WantedBlocks
      /\ Plannable' \subseteq Plannable
  BY <1>1, AskCounts DEF LoopInv
<1>3. Listed'
  BY <1>2, ListStays DEF LoopInv, Ask
<1>4. Counted'
  <2>1. holders' = [holders EXCEPT ![b] = @ + 1] /\ holders \in [AllBlocks -> Nat]
    BY <1>1 DEF Ask, OneMore, LoopInv, Counted
  <2>2. holders' \in [AllBlocks -> Nat]
    BY <2>1
  <2>3. ASSUME NEW c \in AllBlocks PROVE holders'[c] = HolderCount(c)'
    BY <1>2, <2>1 DEF LoopInv, Counted, HoldersInStep
  <2> QED
    BY <2>2, <2>3 DEF Counted, HoldersInStep
<1>5. Passed'
  <2>1. /\ at' = at + 1 /\ at \in Nat
        /\ UNCHANGED <<blocks, replication, returned>>
        /\ replication = HolderCount(b)
        /\ ~returned
    BY <1>1 DEF Ask, InPass, LoopInv, Counted, HoldersInStep
  <2>2. ASSUME NEW k \in DOMAIN blocks, NEW c, c = blocks[k], c \in Plannable'
        PROVE  \/ replication < HolderCount(c)'
               \/ replication = HolderCount(c)' /\ at + 1 <= k
    <3>1. CASE c = b
      BY <1>2, <2>1, <3>1, CountsAreNumbers DEF LoopInv
    <3>2. CASE c # b
      <4>1. HolderCount(c)' = HolderCount(c) /\ c \in Plannable
        BY <1>2, <2>2, <3>2
      <4>2. \/ replication < HolderCount(c)
            \/ replication = HolderCount(c) /\ at <= k
        BY <2>1, <2>2, <4>1 DEF LoopInv, Passed
      <4>3. k \in Nat /\ k # at
        BY <1>1, <2>2, <3>2, ListedBlocks DEF LoopInv
      <4> QED
        BY <2>1, <4>1, <4>2, <4>3
    <3> QED
      BY <3>1, <3>2
  <2> QED
    BY <2>1, <2>2 DEF Passed
<1> QED
  BY <1>2, <1>3, <1>4, <1>5 DEF LoopInv, Ask

\* The other steps leave the swarm alone, and the counts with it.
LEMMA QuietKeeps ==
  ASSUME LoopInv, UNCHANGED <<swarmVars, holders, blocks>>
  PROVE  /\ SwarmOK' /\ Listed' /\ Counted'
         /\ Plannable' = Plannable
         /\ \A c : HolderCount(c)' = HolderCount(c)
<1>1. /\ SwarmOK'
      /\ WantedBlocks' = WantedBlocks
      /\ Plannable' = Plannable
      /\ \A c : HolderCount(c)' = HolderCount(c)
  BY SwarmStays DEF LoopInv
<1>2. Listed'
  BY <1>1, ListStays DEF LoopInv, swarmVars
<1>3. Counted'
  BY <1>1 DEF LoopInv, Counted, HoldersInStep
<1> QED
  BY <1>1, <1>2, <1>3

\* What the loop skips cannot be asked for, or has more holders.
LEMMA SkipKeeps ==
  ASSUME LoopInv, Skip
  PROVE  LoopInv'
<1>1. /\ SwarmOK' /\ Listed' /\ Counted'
      /\ Plannable' = Plannable
      /\ \A c : HolderCount(c)' = HolderCount(c)
  BY QuietKeeps DEF Skip
<1>2. /\ at' = at + 1 /\ at \in Nat
      /\ UNCHANGED <<blocks, replication, returned>>
      /\ ~returned /\ at \in DOMAIN blocks
  BY ListedBlocks DEF Skip, InPass, LoopInv
<1>3. ASSUME blocks[at] \in Plannable PROVE HolderCount(blocks[at]) # replication
  <2>1. \E a \in Addr : CanAsk(blocks[at], a)
    BY <1>3 DEF Plannable
  <2>2. holders[blocks[at]] # replication
    BY <2>1 DEF Skip
  <2> QED
    BY <1>2, <2>2, ListedBlocks DEF LoopInv, Counted, HoldersInStep
<1>4. Passed'
  <2>1. ASSUME NEW k \in DOMAIN blocks, NEW c, c = blocks[k], c \in Plannable
        PROVE  \/ replication < HolderCount(c)
               \/ replication = HolderCount(c) /\ at + 1 <= k
    <3>1. \/ replication < HolderCount(c)
          \/ replication = HolderCount(c) /\ at <= k
      BY <1>2, <2>1 DEF LoopInv, Passed
    <3>2. CASE k = at
      BY <1>3, <2>1, <3>1, <3>2
    <3>3. CASE k # at
      <4>1. k \in Nat
        BY <2>1, ListedBlocks DEF LoopInv
      <4> QED
        BY <1>2, <3>1, <3>3, <4>1
    <3> QED
      BY <3>2, <3>3
  <2> QED
    BY <1>1, <1>2, <2>1 DEF Passed
<1> QED
  BY <1>1, <1>2, <1>4 DEF LoopInv, Skip

\* At the end of a pass, what is left has more holders than its depth.
LEMMA NextDepthKeeps ==
  ASSUME LoopInv, NextDepth
  PROVE  LoopInv'
<1>1. /\ SwarmOK' /\ Listed' /\ Counted'
      /\ Plannable' = Plannable
      /\ \A c : HolderCount(c)' = HolderCount(c)
  BY QuietKeeps DEF NextDepth
<1>2. /\ at' = 1 /\ at \in Nat /\ replication' = replication + 1 /\ replication \in Nat
      /\ UNCHANGED <<blocks, returned>>
      /\ ~returned /\ at > Len(blocks)
  BY DEF NextDepth, LoopInv
<1>3. Passed'
  <2>1. ASSUME NEW k \in DOMAIN blocks, NEW c, c = blocks[k], c \in Plannable
        PROVE  \/ replication + 1 < HolderCount(c)
               \/ replication + 1 = HolderCount(c) /\ 1 <= k
    <3>1. \/ replication < HolderCount(c)
          \/ replication = HolderCount(c) /\ at <= k
      BY <1>2, <2>1 DEF LoopInv, Passed
    <3>2. k \in Nat /\ 1 <= k /\ k <= Len(blocks) /\ Len(blocks) \in Nat
      BY <2>1, ListedBlocks DEF LoopInv
    <3>3. HolderCount(c) \in Nat
      BY CountsAreNumbers DEF LoopInv
    <3> QED
      BY <1>2, <3>1, <3>2, <3>3
  <2> QED
    BY <1>1, <1>2, <2>1 DEF Passed
<1> QED
  BY <1>1, <1>2, <1>3 DEF LoopInv

\* Once every depth is swept, nobody can be asked for anything more: no block
\* has more holders than there are peers to hold it.
LEMMA SweptAll ==
  ASSUME LoopInv, ~returned, replication > MaxDepth
  PROVE  Plannable = {}
<1> SUFFICES ASSUME NEW c \in Plannable PROVE FALSE
  OBVIOUS
<1>1. HolderCount(c) <= MaxDepth /\ c \in WantedBlocks
  BY DEF Plannable
<1>2. PICK k \in DOMAIN blocks : blocks[k] = c
  BY <1>1 DEF LoopInv, Listed
<1>3. replication <= HolderCount(c)
  BY <1>2, CountsAreNumbers DEF LoopInv, Passed
<1>4. HolderCount(c) \in Nat /\ MaxDepth \in Nat /\ replication \in Nat
  BY CountsAreNumbers DEF LoopInv
<1> QED
  BY <1>1, <1>3, <1>4

\* The next sweep, if there is one, finds nothing to pass by.
LEMMA EndSweepKeeps ==
  ASSUME LoopInv, EndSweep
  PROVE  LoopInv'
<1>1. /\ SwarmOK' /\ Listed' /\ Counted'
      /\ Plannable' = Plannable
      /\ \A c : HolderCount(c)' = HolderCount(c)
  BY QuietKeeps DEF EndSweep
<1>2. replication' \in Nat /\ at' \in Nat \ {0}
  BY DEF EndSweep, SweepAgain, LoopInv
<1>3. CASE left > 0 /\ progressed
  <2>1. Plannable = {}
    BY <1>3, SweptAll DEF EndSweep, LoopInv
  <2>2. Passed'
    BY <1>1, <2>1 DEF Passed
  <2> QED
    BY <1>1, <1>2, <2>2 DEF LoopInv
<1>4. CASE ~(left > 0 /\ progressed)
  BY <1>1, <1>2, <1>4 DEF LoopInv, Passed, EndSweep
<1> QED
  BY <1>3, <1>4

\* Every step of the loop keeps the invariant.
LEMMA LoopInvStep == LoopInv /\ [LoopNext]_<<swarmVars, loopVars>> => LoopInv'
<1> SUFFICES ASSUME LoopInv, [LoopNext]_<<swarmVars, loopVars>> PROVE LoopInv'
  OBVIOUS
<1>1. CASE UNCHANGED <<swarmVars, loopVars>>
  <2>1. /\ SwarmOK' /\ Listed' /\ Counted'
        /\ Plannable' = Plannable
        /\ \A c : HolderCount(c)' = HolderCount(c)
    BY <1>1, QuietKeeps DEF loopVars
  <2>2. Passed'
    BY <1>1, <2>1 DEF LoopInv, Passed, loopVars
  <2> QED
    BY <1>1, <2>1, <2>2 DEF LoopInv, loopVars
<1> QED
  BY <1>1, AskKeeps, SkipKeeps, NextDepthKeeps, EndSweepKeeps DEF LoopNext

\* Whatever the state of the swarm, a call keeps the invariant.
LEMMA LoopInvariant == CallSpec => []LoopInv
BY LoopInvInit, LoopInvStep, PTL DEF CallSpec

\* The copy of the holder counts that plan() updates by hand never differs from
\* the assignments it stands for: a request adds one to both.
THEOREM CountsInStep == CallSpec => []HoldersInStep
<1>1. LoopInv => HoldersInStep
  BY DEF LoopInv, Counted
<1> QED
  BY <1>1, LoopInvariant, PTL

-----------------------------------------------------------------------------
\* The loops implement the rule

\* The budget of the rule: what plan() may still send, once it cannot send more 0.
RuleBudget == IF ~returned /\ Plannable # {} THEN left ELSE 0

\* The block whose turn it is comes first by the rule: those behind it were
\* passed by for good, those ahead have a greater key.
LEMMA TurnIsNext ==
  ASSUME LoopInv, NEW a \in Addr, NEW b, b = blocks[at], Ask(a)
  PROVE  b \in Rule!NextBlocks
<1>1. /\ at \in DOMAIN blocks /\ at \in Nat /\ ~returned
      /\ b \in WantedBlocks /\ b \in AllBlocks
      /\ replication = HolderCount(b)
  BY ListedBlocks DEF Ask, InPass, LoopInv, Counted, HoldersInStep
<1>2. b \in Plannable
  BY <1>1 DEF Ask, InPass, Plannable
<1>3. ASSUME NEW c \in Plannable, Rule!Precedes(c, b) PROVE FALSE
  <2> DEFINE s == BlockKey(c)
             t == BlockKey(b)
             h == HolderCount(c)
             g == HolderCount(b)
  <2>1. PICK k \in DOMAIN blocks : blocks[k] = c
    BY DEF LoopInv, Listed, Plannable
  <2>2. c \in AllBlocks /\ k \in Nat
    BY <2>1, ListedBlocks DEF LoopInv
  <2>3. /\ s \in Seq(Int) /\ t \in Seq(Int) /\ Len(s) = 5 /\ Len(t) = 5
    BY <1>1, <2>2, KeysAreNumbers DEF LoopInv, SwarmOK
  <2>4. h \in Nat /\ g \in Nat
    BY CountsAreNumbers DEF LoopInv
  <2>5. Less(<<h>> \o s, <<g>> \o t)
    BY <1>3, RuleReads DEF Rule!Precedes, Rule!Less, Less
  <2>6. g < h \/ (g = h /\ at <= k)
    BY <1>1, <2>1 DEF LoopInv, Passed
  <2>7. at < k => Less(t, s)
    BY <1>1, <2>1 DEF LoopInv, Listed, Sorted
  <2>8. at = k => t = s
    BY <2>1
  <2> HIDE DEF s, t, h, g
  <2>9. h < g \/ (h = g /\ Less(s, t))
    BY <2>3, <2>4, <2>5, PrependLess
  <2>10. h = g /\ Less(s, t) /\ at <= k
    BY <2>4, <2>6, <2>9
  <2>11. CASE at < k
    BY <2>3, <2>7, <2>10, <2>11, LessAsymmetric
  <2>12. CASE at = k
    BY <2>3, <2>8, <2>10, <2>12, LessAsymmetric
  <2> QED
    BY <1>1, <2>2, <2>10, <2>11, <2>12
<1> QED
  BY <1>2, <1>3, RuleReads DEF Rule!NextBlocks

\* A request of the loop is one of the rule.
LEMMA AskPicks ==
  ASSUME LoopInv, NEW a \in Addr, Ask(a)
  PROVE  \E b \in Rule!WantedBlocks, x \in Addr : Rule!Pick(b, x)
<1>1. PICK b : b = blocks[at]
  OBVIOUS
<1>2. b \in WantedBlocks /\ ~returned /\ left > 0 /\ CanAsk(b, a) /\ b \in Plannable
  BY <1>1, ListedBlocks DEF Ask, InPass, Plannable, LoopInv, Counted, HoldersInStep
<1>3. b \in Rule!NextBlocks
  BY <1>1, TurnIsNext
<1>4. Rule!Assign(b, a)
  BY <1>1 DEF Ask, Assign, Rule!Assign
<1>5. RuleBudget > 0 /\ RuleBudget = left
  BY <1>2 DEF RuleBudget
<1>6. RuleBudget' = IF Plannable' # {} THEN RuleBudget - 1 ELSE 0
  BY <1>2, <1>5 DEF RuleBudget, Ask
<1>7. (Rule!Plannable = Plannable)'
  BY RuleReads, PTL
<1>8. UNCHANGED <<pieceVars, registryVars, status>>
  BY DEF Ask
<1>9. Rule!Pick(b, a)
  BY <1>2, <1>3, <1>4, <1>5, <1>6, <1>7, <1>8, RuleReads
     DEF Rule!Pick, RuleBudget, pieceVars, registryVars, Rule!pieceVars, Rule!registryVars
<1> QED
  BY <1>2, <1>9, RuleReads

\* Any other step leaves the rule's variables alone: where plan() gives up
\* with budget left, nothing could be sent.
LEMMA QuietStutters ==
  ASSUME LoopInv, UNCHANGED <<swarmVars, left>>,
         returned' = returned \/ (~returned /\ (left = 0 \/ replication > MaxDepth))
  PROVE  UNCHANGED Rule!plannerVars
<1>1. Plannable' = Plannable
  BY SwarmStays DEF LoopInv
<1>2. RuleBudget' = RuleBudget
  BY <1>1, SweptAll DEF RuleBudget
<1> QED
  BY <1>2 DEF RuleBudget, Rule!plannerVars, Rule!pieceVars, Rule!registryVars, swarmVars,
              pieceVars, registryVars

\* plan() implements the rule of Planner from every state it is called in: each
\* request is the next one by the policy, and it gives up only when the budget
\* is used up or nothing can be asked of anybody.
THEOREM LoopsImplementRule == CallSpec => ImplementsPlanner
<1>1. Call => RuleBudget = Rule!PlanBudget
  BY RuleReads DEF Call, RuleBudget, Rule!PlanBudget, Downloads, Rule!Downloads,
                     Rule!Cardinality, Cardinality
<1>2. ASSUME LoopInv, [LoopNext]_<<swarmVars, loopVars>>
      PROVE  [\E b \in Rule!WantedBlocks, a \in Addr : Rule!Pick(b, a)]_Rule!plannerVars
  <2>1. CASE \E a \in Addr : Ask(a)
    BY <1>2, <2>1, AskPicks
  <2>2. CASE Skip
    BY <1>2, <2>2, QuietStutters DEF Skip
  <2>3. CASE NextDepth
    BY <1>2, <2>3, QuietStutters DEF NextDepth
  <2>4. CASE EndSweep
    BY <1>2, <2>4, QuietStutters DEF EndSweep
  <2>5. CASE UNCHANGED <<swarmVars, loopVars>>
    BY <1>2, <2>5, QuietStutters DEF loopVars
  <2> QED
    BY <1>2, <2>1, <2>2, <2>3, <2>4, <2>5 DEF LoopNext
<1> QED
  BY <1>1, <1>2, LoopInvariant, PTL DEF CallSpec, ImplementsPlanner, Rule!PlanSpec, RuleBudget

-----------------------------------------------------------------------------
\* The states plan() is called in

\* Every state of the swarm is one of them.
THEOREM SwarmAdmits == Spec => []SwarmOK
<1>1. TypeInv /\ InFlightInv => SwarmOK
  BY DEF TypeInv, TypeOK, BlocksAssigned, InFlightInv, SwarmOK
<1> QED
  BY <1>1, TypeInvInit, TypeInvStep, InFlightInit, InFlightStep, PTL DEF Spec

=============================================================================
