----------------------------- MODULE PieceManager -----------------------------
(***************************************************************************)
(* Which blocks of which piece are here (domain/swarm/piece_manager.rs).   *)
(* A piece is Partial, with the blocks received so far in memory, until    *)
(* its last block arrives and its hash is right; then it is Complete, its  *)
(* bytes leave memory for the disk, and its bit is set in our bitfield.    *)
(***************************************************************************)
EXTENDS Torrent, Sequences

VARIABLES
  pieces,   \* PieceManager::pieces
  bitfield  \* PieceManager::bitfield, the set of bits that are set

pieceVars == <<pieces, bitfield>>

BlockState == Content \cup {"Missing"}

Blank(p) == [state    |-> "Partial",
             blocks   |-> [i \in BlockIndices(p) |-> "Missing"],
             received |-> 0]

Complete == [state |-> "Complete"]

PiecesInit ==
  /\ pieces = [p \in Piece |-> Blank(p)]
  /\ bitfield = {}

PieceState(p) ==
  {Complete} \cup
  [state : {"Partial"}, blocks : [BlockIndices(p) -> BlockState], received : Nat]

PiecesOK ==
  /\ DOMAIN pieces = Piece
  /\ \A p \in Piece : pieces[p] \in PieceState(p)
  /\ bitfield \subseteq Piece

IsComplete(p) == pieces[p].state = "Complete"

\* PieceManager::is_complete and has_no_piece
AllComplete == \A p \in Piece : IsComplete(p)
HasNoPiece  == \A p \in Piece : ~IsComplete(p)

NeededPieces == {p \in Piece : ~IsComplete(p)}

IsPartial(p) == ~IsComplete(p) /\ pieces[p].received > 0

UnreceivedBlocks(p) ==
  IF IsComplete(p) THEN {}
  ELSE {Block(p, i) : i \in {j \in BlockIndices(p) : pieces[p].blocks[j] = "Missing"}}

\* Mutant of Takes: a block received twice counts twice.
TakesDuplicates(range) ==
  /\ range.offset % BlockSize = 0
  /\ range.piece \in Piece
  /\ ~IsComplete(range.piece)
  /\ BlockIndex(range) \in BlockIndices(range.piece)
  /\ range.len = BlockLength(range.piece, BlockIndex(range))

\* receive_block takes the block: an unaligned or unknown range and a wrong
\* length are errors, a complete piece and a received block are no-ops.
Takes(range) ==
  /\ range.offset % BlockSize = 0
  /\ range.piece \in Piece
  /\ ~IsComplete(range.piece)
  /\ BlockIndex(range) \in BlockIndices(range.piece)
  /\ range.len = BlockLength(range.piece, BlockIndex(range))
  /\ pieces[range.piece].blocks[BlockIndex(range)] = "Missing"

\* Mutant of Settle: a wrong piece forgets its blocks but not its counter.
SettleKeepsCounter(p, blocks, received) ==
  IF received # NumBlocks(p)
  THEN [state |-> "Partial", blocks |-> blocks, received |-> received]
  ELSE IF \A i \in BlockIndices(p) : blocks[i] = "good" THEN Complete
  ELSE [Blank(p) EXCEPT !.received = received]

\* Piece p once its blocks and counter are these.  The counter alone decides
\* whether the piece is hashed; a wrong hash forgets every block.
Settle(p, blocks, received) ==
  IF received # NumBlocks(p)
  THEN [state |-> "Partial", blocks |-> blocks, received |-> received]
  ELSE IF \A i \in BlockIndices(p) : blocks[i] = "good" THEN Complete
  ELSE Blank(p)

PieceAfter(range, data) ==
  LET p == range.piece
  IN  Settle(p, [pieces[p].blocks EXCEPT ![BlockIndex(range)] = data],
             pieces[p].received + 1)

\* Mutant of Completes: the last block completes its piece, right or wrong.
CompletesUnverified(range, data) ==
  Takes(range) /\ pieces[range.piece].received + 1 = NumBlocks(range.piece)

\* The block completes its piece: receive_block returns Some(CompletedPiece).
Completes(range, data) == Takes(range) /\ PieceAfter(range, data) = Complete

ReceiveBlock(range, data) ==
  /\ pieces' = IF Takes(range)
               THEN [pieces EXCEPT ![range.piece] = PieceAfter(range, data)]
               ELSE pieces
  /\ bitfield' = IF Completes(range, data) THEN bitfield \cup {range.piece} ELSE bitfield

\* The unreceived blocks of a blank piece p that the bytes found on disk cover,
\* received one after the other; data[i + 1] is what block i is worth.
ReceivePrefix(p, data) ==
  LET blocks == [i \in BlockIndices(p) |-> IF i < Len(data) THEN data[i + 1] ELSE "Missing"]
      after  == Settle(p, blocks, Len(data))
  IN  /\ pieces' = [pieces EXCEPT ![p] = after]
      /\ bitfield' = IF after = Complete THEN bitfield \cup {p} ELSE bitfield

\* valid_upload_range: only bytes of a complete piece, at most a block of them.
ValidUploadRange(range) ==
  /\ range.piece \in Piece
  /\ IsComplete(range.piece)
  /\ range.len > 0
  /\ range.len <= BlockSize
  /\ range.offset + range.len <= PieceSize(range.piece)

=============================================================================
