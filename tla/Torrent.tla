------------------------------- MODULE Torrent -------------------------------
(***************************************************************************)
(* The geometry of one torrent: pieces, and the blocks a piece is          *)
(* requested in (domain/torrent.rs, domain/block.rs, and the arithmetic of *)
(* domain/swarm/piece_manager.rs).  Every piece has PieceLength bytes      *)
(* except the last one, which has what is left of TotalSize.  Byte counts  *)
(* are exact; the bytes themselves are not represented.                    *)
(***************************************************************************)
EXTENDS Integers

CONSTANTS
  BlockSize,    \* BLOCK_SIZE, 16 KiB in the program
  PieceLength,  \* Metainfo::piece_length
  NumPieces,    \* Metainfo::pieces.len()
  TotalSize     \* Metainfo::total_size()

\* Metainfo::validate enforces TotalSize < NumPieces * PieceLength.  That the
\* last piece is not empty, and that piece_length is positive, is what a
\* well-formed metainfo guarantees: no code checks it (see the README).
GeometryAssumption ==
  /\ BlockSize \in Nat \ {0}
  /\ PieceLength \in Nat \ {0}
  /\ NumPieces \in Nat \ {0}
  /\ TotalSize \in Nat
  /\ (NumPieces - 1) * PieceLength < TotalSize
  /\ TotalSize < NumPieces * PieceLength

ASSUME TorrentAssumption == GeometryAssumption

Piece == 0 .. NumPieces - 1

\* A byte range within a piece: a block to download, or what a peer asks for.
BlockRange == [piece : Nat, offset : Nat, len : Nat]

PieceSize(p) ==
  IF p = NumPieces - 1 THEN TotalSize - p * PieceLength ELSE PieceLength

\* usize::div_ceil
NumBlocks(p) == (PieceSize(p) + BlockSize - 1) \div BlockSize

BlockIndices(p) == 0 .. NumBlocks(p) - 1

\* The last block of a piece may be shorter than BlockSize.
BlockLength(p, i) ==
  LET rest == PieceSize(p) - i * BlockSize
  IN  IF rest < BlockSize THEN rest ELSE BlockSize

Block(p, i) == [piece |-> p, offset |-> i * BlockSize, len |-> BlockLength(p, i)]

\* The index of the block a range starts in.
BlockIndex(range) == range.offset \div BlockSize

AllBlocks == UNION {{Block(p, i) : i \in BlockIndices(p)} : p \in Piece}

\* What a block's bytes are worth: SHA-1 is taken to accept a piece exactly
\* when each of its blocks holds the bytes the metainfo was built from.
Content == {"good", "bad"}

=============================================================================
