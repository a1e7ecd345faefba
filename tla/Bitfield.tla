-------------------------------- MODULE Bitfield --------------------------------
(***************************************************************************)
(* Bitfields: sequences of bytes, the most significant bit of the first    *)
(* for piece 0 (domain/bitfield.rs).  An operation that fails leaves the   *)
(* bitfield as it was.                                                     *)
(***************************************************************************)
EXTENDS Integers, SequencesExt

Byte == 0 .. 255

\* The bits of a byte, as masks; the operators & and | of bytes.
Masks == <<1, 2, 4, 8, 16, 32, 64, 128>>
HasBit(byte, mask) == (byte \div mask) % 2 = 1
EitherBit(x, y, mask) == IF HasBit(x, mask) \/ HasBit(y, mask) THEN mask ELSE 0
Or(x, y) ==
  EitherBit(x, y, 1) + EitherBit(x, y, 2) + EitherBit(x, y, 4) + EitherBit(x, y, 8)
    + EitherBit(x, y, 16) + EitherBit(x, y, 32) + EitherBit(x, y, 64) + EitherBit(x, y, 128)

-----------------------------------------------------------------------------
NewBitfield(n) == [data |-> [i \in 1 .. (n + 7) \div 8 |-> 0], pieces |-> n]

\* The byte of a bit, the bit in it, and the bitfield with another byte there.
ByteOf(bf, bit) == bf.data[bit \div 8 + 1]
Mask(bit) == Masks[8 - (bit % 8)]
WithByte(bf, bit, byte) == [bf EXCEPT !.data[bit \div 8 + 1] = byte]

\* check_bit
CheckBit(bf, bit) == bit < bf.pieces

\* Mutant of SetBit: the first bit of a byte is the least significant one.
SetLowBit(bf, bit) ==
  IF CheckBit(bf, bit) THEN WithByte(bf, bit, Or(ByteOf(bf, bit), Masks[(bit % 8) + 1])) ELSE bf

SetBit(bf, bit) ==
  IF CheckBit(bf, bit) THEN WithByte(bf, bit, Or(ByteOf(bf, bit), Mask(bit))) ELSE bf

\* extend_bytes: as many bytes as there are; bits beyond the last piece are taken
\* too.
ExtendBytes(bf, bytes) ==
  IF Len(bytes) = Len(bf.data)
  THEN [bf EXCEPT !.data = [i \in DOMAIN bytes |-> Or(bf.data[i], bytes[i])]]
  ELSE bf

\* TryFrom<&[u8]>: every bit of the bytes is a piece.
FromBytes(bytes) == ExtendBytes(NewBitfield(8 * Len(bytes)), bytes)

\* What BitfieldIter yields, in increasing order.
Indices(bf) == {k \in 0 .. 8 * Len(bf.data) - 1 : HasBit(ByteOf(bf, k), Mask(k))}

=============================================================================
