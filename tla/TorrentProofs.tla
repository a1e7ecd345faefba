----------------------------- MODULE TorrentProofs -----------------------------
(***************************************************************************)
(* The block arithmetic of a torrent, for every block size and piece       *)
(* length: what div_ceil and the short last block amount to.               *)
(***************************************************************************)
EXTENDS Torrent, FiniteSetTheorems, TLAPS

-----------------------------------------------------------------------------
\* Induction, about sets of numbers

\* A set of numbers has a least one: the intervals below them are finite sets, and
\* these are well-founded by inclusion.
LEMMA LeastNumber ==
  ASSUME NEW T \in SUBSET Nat, T # {}
  PROVE  \E n \in T : \A m \in T : n <= m
<1> DEFINE below(n) == 0 .. n - 1
           Belows == {below(n) : n \in T}
           R == StrictSubsetOrdering(Nat)
<1>1. IsWellFoundedOn(R, FiniteSubsetsOf(Nat))
  BY FS_StrictSubsetOrderingWellFounded
<1>2. Belows \subseteq FiniteSubsetsOf(Nat) /\ Belows # {}
  <2>1. ASSUME NEW n \in T PROVE below(n) \in SUBSET Nat /\ IsFiniteSet(below(n))
    BY FS_Interval
  <2> HIDE DEF below
  <2> QED
    BY <2>1 DEF FiniteSubsetsOf
<1>3. PICK B \in Belows : \A C \in Belows : ~(<<C, B>> \in R)
  <2> HIDE DEF Belows, R
  <2> QED
    BY <1>1, <1>2, WFMin
<1>4. PICK n \in T : B = below(n)
  OBVIOUS
<1>5. ASSUME NEW m \in T, m < n PROVE FALSE
  <2>1. below(m) \subseteq below(n) /\ below(m) # below(n)
    <3>1. m \in below(n) /\ m \notin below(m)
      BY <1>5
    <3> QED
      BY <1>5, <3>1
  <2>2. <<below(m), below(n)>> \in R
    BY <2>1 DEF StrictSubsetOrdering
  <2> QED
    BY <1>3, <1>4, <2>2
<1> QED
  BY <1>5

\* Induction, with a set in place of a predicate.
LEMMA Induction ==
  ASSUME NEW T \in SUBSET Nat, 0 \in T, \A n \in T : n + 1 \in T
  PROVE  T = Nat
<1> SUFFICES ASSUME Nat \ T # {} PROVE FALSE
  OBVIOUS
<1>1. PICK n \in Nat \ T : \A m \in Nat \ T : n <= m
  BY LeastNumber
<1>2. n - 1 \in Nat /\ (n - 1) + 1 = n
  BY <1>1
<1>3. n - 1 \in T
  BY <1>1, <1>2
<1> QED
  BY <1>1, <1>2, <1>3

-----------------------------------------------------------------------------
\* Blocks

\* No piece is empty, the last one included.
LEMMA PieceSizePositive ==
  ASSUME NEW p \in Piece
  PROVE  PieceSize(p) \in Nat \ {0}
<1>1. CASE p = NumPieces - 1
  BY <1>1, TorrentAssumption DEF GeometryAssumption, Piece, PieceSize
<1>2. CASE p # NumPieces - 1
  BY <1>2, TorrentAssumption DEF GeometryAssumption, Piece, PieceSize
<1> QED
  BY <1>1, <1>2

\* The defining inequalities of div_ceil.
LEMMA NumBlocksBounds ==
  ASSUME NEW p \in Piece
  PROVE  /\ NumBlocks(p) \in Nat \ {0}
         /\ PieceSize(p) <= NumBlocks(p) * BlockSize
         /\ NumBlocks(p) * BlockSize < PieceSize(p) + BlockSize
<1> DEFINE s == PieceSize(p)
           n == NumBlocks(p)
<1>1. s \in Nat \ {0} /\ BlockSize \in Nat \ {0}
  BY PieceSizePositive, TorrentAssumption DEF GeometryAssumption
<1>2. n = (s + BlockSize - 1) \div BlockSize
  BY DEF NumBlocks
<1> HIDE DEF s, n
<1>3. n \in Nat /\ n * BlockSize <= s + BlockSize - 1 /\ s + BlockSize - 1 < (n + 1) * BlockSize
  BY <1>1, <1>2
<1>4. (n + 1) * BlockSize = n * BlockSize + BlockSize /\ n * BlockSize \in Nat
  BY <1>1, <1>3
<1>5. n # 0
  BY <1>1, <1>3, <1>4
<1>6. s <= n * BlockSize /\ n * BlockSize < s + BlockSize
  BY <1>1, <1>3, <1>4
<1> QED
  BY <1>3, <1>5, <1>6 DEF s, n

\* A block starts inside its piece, and neither it nor its length is out of
\* bounds: it is not empty, not longer than BLOCK_SIZE, and ends in the piece.
LEMMA BlockInPiece ==
  ASSUME NEW p \in Piece, NEW i \in BlockIndices(p)
  PROVE  /\ i * BlockSize \in Nat
         /\ i * BlockSize < PieceSize(p)
         /\ BlockLength(p, i) \in 1 .. BlockSize
         /\ i * BlockSize + BlockLength(p, i) <= PieceSize(p)
<1>1. BlockSize \in Nat \ {0} /\ PieceSize(p) \in Nat \ {0}
  BY PieceSizePositive, TorrentAssumption DEF GeometryAssumption
<1>2. NumBlocks(p) \in Nat \ {0} /\ NumBlocks(p) * BlockSize < PieceSize(p) + BlockSize
  BY NumBlocksBounds
<1>3. i \in Nat /\ i + 1 <= NumBlocks(p)
  BY <1>2 DEF BlockIndices
<1>4. (i + 1) * BlockSize <= NumBlocks(p) * BlockSize
  BY <1>1, <1>2, <1>3
<1>5. i * BlockSize \in Nat /\ (i + 1) * BlockSize = i * BlockSize + BlockSize
  BY <1>1, <1>3
<1>6. NumBlocks(p) * BlockSize \in Nat
  BY <1>1, <1>2
<1>7. i * BlockSize < PieceSize(p)
  BY <1>1, <1>2, <1>4, <1>5, <1>6
<1> QED
  BY <1>1, <1>5, <1>7 DEF BlockLength

\* A block is a byte range.
LEMMA BlockIsRange ==
  ASSUME NEW p \in Piece, NEW i \in BlockIndices(p)
  PROVE  Block(p, i) \in BlockRange
BY BlockInPiece, TorrentAssumption DEF Block, BlockRange, Piece, GeometryAssumption

\* receive_block finds the block again from the offset it was requested with.
LEMMA BlockIndexOfBlock ==
  ASSUME NEW p \in Piece, NEW i \in BlockIndices(p)
  PROVE  /\ BlockIndex(Block(p, i)) = i
         /\ Block(p, i).offset % BlockSize = 0
<1>1. i \in Nat /\ BlockSize \in Nat \ {0}
  BY NumBlocksBounds, TorrentAssumption DEF BlockIndices, GeometryAssumption
<1>2. (i * BlockSize) \div BlockSize = i /\ (i * BlockSize) % BlockSize = 0
  BY <1>1
<1> QED
  BY <1>2 DEF BlockIndex, Block

\* The blocks of a piece tile it: every byte is in exactly one of them.
THEOREM BlocksTilePiece ==
  ASSUME NEW p \in Piece, NEW byte \in 0 .. PieceSize(p) - 1
  PROVE  /\ byte \div BlockSize \in BlockIndices(p)
         /\ \A i \in BlockIndices(p) :
              (i * BlockSize <= byte /\ byte < i * BlockSize + BlockLength(p, i))
                <=> i = byte \div BlockSize
<1> DEFINE q == byte \div BlockSize
<1>1. BlockSize \in Nat \ {0} /\ PieceSize(p) \in Nat \ {0} /\ byte \in Nat /\ byte < PieceSize(p)
  BY PieceSizePositive, TorrentAssumption DEF GeometryAssumption
<1>2. /\ NumBlocks(p) \in Nat \ {0}
      /\ PieceSize(p) <= NumBlocks(p) * BlockSize
  BY NumBlocksBounds
<1>3. /\ q \in Nat
      /\ q * BlockSize <= byte
      /\ byte < q * BlockSize + BlockSize
  BY <1>1
<1> HIDE DEF q
<1>4. q < NumBlocks(p)
  <2>1. SUFFICES ASSUME NumBlocks(p) <= q PROVE FALSE
    BY <1>2, <1>3
  <2>2. NumBlocks(p) * BlockSize <= q * BlockSize
    BY <1>1, <1>2, <1>3, <2>1
  <2>3. NumBlocks(p) * BlockSize \in Nat /\ q * BlockSize \in Nat
    BY <1>1, <1>2, <1>3
  <2> QED
    BY <1>1, <1>2, <1>3, <2>2, <2>3
<1>5. q \in BlockIndices(p)
  BY <1>2, <1>3, <1>4 DEF BlockIndices
<1>6. byte < q * BlockSize + BlockLength(p, q)
  BY <1>1, <1>3 DEF BlockLength
<1>7. ASSUME NEW i \in BlockIndices(p),
             i * BlockSize <= byte, byte < i * BlockSize + BlockLength(p, i)
      PROVE  i = q
  <2>1. /\ i \in Nat
        /\ i * BlockSize \in Nat
        /\ BlockLength(p, i) <= BlockSize
        /\ BlockLength(p, i) \in Nat
    BY <1>1, <1>2, BlockInPiece DEF BlockIndices
  <2>2. byte < i * BlockSize + BlockSize
    BY <1>1, <1>7, <2>1
  <2>3. i * BlockSize < (q + 1) * BlockSize /\ q * BlockSize < (i + 1) * BlockSize
    BY <1>1, <1>3, <1>7, <2>1, <2>2
  <2>4. i < q + 1 /\ q < i + 1
    BY <1>1, <1>3, <2>1, <2>3
  <2> QED
    BY <1>3, <2>1, <2>4
<1> QED
  BY <1>3, <1>5, <1>6, <1>7 DEF q

=============================================================================
