-------------------------------- MODULE MCSwarm --------------------------------
(***************************************************************************)
(* Instances of Swarm for TLC.  Each configuration takes the connections,  *)
(* messages and other inputs that its question needs.                      *)
(***************************************************************************)
EXTENDS SwarmProperties

CONSTANTS a1, a2, a3

Link(a, i, d, f) == [addr |-> a, id |-> i, direction |-> d, fast |-> f]
OfKind(types)    == {[type |-> t] : t \in types}
Bits(sets)       == {[type |-> "Bitfield", pieces |-> s] : s \in sets}
OnPieces(t, ps)  == {[type |-> t, piece |-> p] : p \in ps}
OnRanges(t, rs)  == {[type |-> t, range |-> r] : r \in rs}
Blocks(rs, data) == {[type |-> "Piece", range |-> r, data |-> d] : r \in rs, d \in data}
Bytes(p, o, l)   == [piece |-> p, offset |-> o, len |-> l]

NoLocalFile == {<<>>}
NoDiscovery == {}
NoStatus    == {}

-----------------------------------------------------------------------------
\* Connections: every address may be used by every peer, in both directions,
\* while peers announce pieces and extensions, name each other, a block is in
\* flight and an upload waits.
AnyConnection ==
  {Link(a, i, d, FALSE) : a \in {a1}, i \in PeerId, d \in Direction}
    \cup {Link(a2, 1, d, TRUE) : d \in Direction}
ConnectionMessages ==
  OfKind({"KeepAlive", "Unchoke", "HaveNone", "MetadataRequest", "OtherExtension"})
    \cup Bits({{0}, {0, 1}}) \cup OnPieces("AllowedFast", {0})
    \cup OnRanges("Request", {Bytes(0, 0, 1)})
    \cup {[type |-> "ExtensionHandshake", names |-> n] : n \in {{}, {"ut_pex", "ut_metadata"}}}
    \cup {[type |-> "Pex", addrs |-> {a1, a2}]}
SomeAddresses == {{a1, a2}}
OnePieceOnDisk == {<<"good">>, <<>>}

-----------------------------------------------------------------------------
\* Downloads: two pieces, of two blocks and of one short block, from two peers
\* that choke, allow a piece all the same, refuse, answer rightly or wrongly,
\* late, twice or unasked.
OneConnectionEach == {Link(a1, 1, "Inbound", TRUE), Link(a2, 3, "Outbound", TRUE)}
DownloadMessages ==
  OfKind({"Choke", "Unchoke", "HaveAll"}) \cup OnPieces("Have", {0})
    \cup OnPieces("AllowedFast", {1}) \cup Blocks(AllBlocks, Content)
    \cup OnRanges("RejectRequest", {Block(0, 0)})
NewDownload == {<<>>}
DownloadStatuses == {"DownloadOnly", "UploadOnly"}
ResumedDownload == {<<>>, <<"bad">>, <<"good">>}

-----------------------------------------------------------------------------
\* Uploads: a piece on disk, two peers that ask for an aligned and an unaligned
\* part of it and for bytes that do not exist, change their minds and leave,
\* while the user switches uploads on and off.
SeedMessages ==
  OnRanges("Request", {Bytes(0, 0, 1), Bytes(0, 1, 1), Bytes(0, 1, 2), Bytes(1, 0, 1)})
    \cup OnRanges("Cancel", {Bytes(0, 0, 1), Bytes(0, 1, 1)})
    \cup OfKind({"Interested", "NotInterested"})
OnDisk == {<<"good">>, <<"bad">>}

-----------------------------------------------------------------------------
\* Liveness: a1 is honest, a2 does what it likes but sends no wrong data.
ProgressMessages ==
  OfKind({"Choke", "Unchoke", "HaveAll"}) \cup Blocks(AllBlocks, {"good"})
    \cup OnRanges("RejectRequest", {Block(0, 0)})

=============================================================================
