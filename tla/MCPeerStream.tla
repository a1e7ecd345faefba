------------------------------ MODULE MCPeerStream ------------------------------
(***************************************************************************)
(* An instance of PeerStream for TLC.                                      *)
(***************************************************************************)
EXTENDS PeerStreamProperties

Repeat(byte) == [i \in 1 .. 20 |-> byte]
Hello(hash, id, extension, fast, dht) ==
  [infoHash |-> Repeat(hash), peerId |-> Repeat(id),
   extension |-> extension, fast |-> fast, dht |-> dht]
Pair(d, l) == [Dialer |-> d, Listener |-> l]

\* Two peers of a torrent; an old client, and one with other features; a torrent
\* nobody has; a peer that dials itself.
Hellos ==
  LET us == Hello(9, 2, TRUE, TRUE, FALSE)
  IN  {Pair(Hello(7, 1, TRUE, TRUE, FALSE), us), Pair(Hello(7, 1, FALSE, FALSE, TRUE), us),
       Pair(Hello(8, 1, TRUE, TRUE, FALSE), us), Pair(Hello(7, 2, TRUE, TRUE, FALSE), us)}
OurTorrents == {Repeat(7)}

\* Around the end of a byte.
Started == {Pair(0 .. 8, 1 .. 8), Pair(1 .. 7, {})}

Range1 == [piece |-> 3, offset |-> 16384, len |-> 2]
Addr4(n) == [ip |-> <<10, 0, 0, n>>, port |-> 6881]
Addr6 == [ip |-> <<32, 1, 13, 184, 0, 0, 0, 0, 0, 0, 0, 0, 0, 0, 0, 9>>, port |-> 6882]
Exchange(addrs) == [type |-> "ut_pex", message |-> [type |-> "Pex", addrs |-> addrs]]
Said ==
  {[type |-> t] : t \in {"KeepAlive", "Choke", "Unchoke", "Interested", "NotInterested"}}
  \cup {[type |-> t, piece |-> 70000] : t \in {"SuggestPiece", "AllowedFast"}}
  \cup {[type |-> t, range |-> Range1] : t \in {"Request", "Cancel", "RejectRequest"}}
  \cup {[type |-> "Piece", range |-> Range1, data |-> <<0, 255>>]}
  \cup {[type |-> "ut_metadata", message |-> m] :
          m \in {[type |-> "Request", piece |-> 0], [type |-> "Reject", piece |-> 12],
                 [type |-> "Data", piece |-> 1, totalSize |-> 16386, data |-> <<101, 105>>]}}
  \cup {Exchange({Addr4(1), Addr4(2)}), Exchange({Addr4(1), Addr6})}
Frames  == Pair(3, 2)
Talking == Pair(Said, {})

\* A message, one that is not known, one of the wrong length, one longer than is
\* allowed, an extension message without an id, one that is not bencoded, and
\* extension handshakes with keys out of order, one of them twice, ids that are
\* none, a plus and zeros in front of numbers, and something that follows.
Raw(bytes, outcome) == [raw |-> bytes, tells |-> outcome]
Entry(key, value) == ByteString(key) \o value
Extended(entries, rest) == Frame(<<20, 0, CharD>> \o entries \o <<CharE>> \o rest)
Extensions(names, size) ==
  Accepted([type |-> "ExtensionHandshake", extensions |-> names, metadataSize |-> size])
Raws ==
  {Raw(Frame(<<4, 0, 0, 1, 5>>), Accepted([type |-> "Have", piece |-> 261])),
   Raw(Frame(<<99, 1>>), Accepted([type |-> "Unimplemented"])),
   Raw(Frame(<<4, 0, 0>>), Refused), Raw(BigEndian(2000), Refused),
   Raw(Frame(<<20>>), Refused), Raw(Frame(<<20, 0, CharD, 120>>), Refused),
   Raw(Extended(Entry(KeyMetadataSize, EncodeInt(7))
                  \o Entry(KeyM, EncodeDict(UtPex :> EncodeInt(300)))
                  \o Entry(KeyMetadataSize, EncodeInt(-7)), <<>>),
       Extensions(<<>>, NoNumber)),
   Raw(Extended(<<Zero, Zero, Zero + 1, Colon>> \o KeyM \o EncodeDict(UtPex :> EncodeInt(255))
                  \o Entry(KeyMetadataSize, <<CharI, Plus, Zero, Zero + 7, CharE>>), <<1>>),
       Extensions(UtPex :> 255, 7))}

=============================================================================
