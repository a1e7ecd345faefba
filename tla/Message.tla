------------------------------- MODULE Message -------------------------------
(***************************************************************************)
(* The peer wire messages, after decoding (domain/message.rs).  A bitfield *)
(* is the set of piece indices its bits name, spare bits included, and an  *)
(* extension payload is what UtMetadataMessage / UtPexMessage::decode make *)
(* of it.                                                                  *)
(***************************************************************************)
EXTENDS Torrent, FiniteSets

CONSTANTS
  Addr,          \* socket addresses
  MaxPieceIndex  \* largest piece index a message of the model carries

ASSUME MessageAssumption ==
  /\ IsFiniteSet(Addr)
  /\ MaxPieceIndex \in Nat
  /\ MaxPieceIndex >= NumPieces - 1

\* A peer may name a piece the torrent does not have.
PieceIndex == 0 .. MaxPieceIndex

\* The extensions Tortue knows, by the names of ExtensionHandshake.
ExtensionName == {"ut_metadata", "ut_pex"}

Plain(kinds)   == [type : kinds]
Indexed(kinds) == [type : kinds, piece : PieceIndex]
Ranged(kinds)  == [type : kinds, range : BlockRange]

Message ==
       Plain({"KeepAlive", "Choke", "Unchoke", "Interested", "NotInterested",
              "HaveAll", "HaveNone", "Unimplemented"})
  \cup Indexed({"Have", "SuggestPiece", "AllowedFast"})
  \cup Ranged({"Request", "Cancel", "RejectRequest"})
  \cup [type : {"Bitfield"}, pieces : SUBSET PieceIndex]
  \cup [type : {"Piece"}, range : BlockRange, data : Content]
  \cup [type : {"ExtensionHandshake"}, names : SUBSET ExtensionName]
  \cup Plain({"MetadataRequest", "MetadataReply", "OtherExtension"})
  \cup [type : {"Pex"}, addrs : SUBSET Addr]

\* BEP 6 messages a peer may only send after negotiating the Fast Extension.
NeedsFast(m) ==
  m.type \in {"HaveAll", "HaveNone", "SuggestPiece", "RejectRequest", "AllowedFast"}

\* Messages after which the scheduler runs at once.
AffectsScheduling(m) == m.type \in {"Unchoke", "AllowedFast", "Piece"}

=============================================================================
