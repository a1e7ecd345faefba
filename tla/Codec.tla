--------------------------------- MODULE Codec ---------------------------------
(***************************************************************************)
(* The peer wire protocol as bytes: the handshake (domain/peer.rs), the    *)
(* messages and the payloads of the two extensions (domain/message.rs),    *)
(* and the frames they travel in (adapters/peer_io.rs).  Numbers above     *)
(* 2^31 are beyond the model, and byte strings are ASCII.                  *)
(***************************************************************************)
EXTENDS Bencode, Bitfield

CONSTANT MaxMessageSize  \* Message::MAX_MESSAGE_SIZE

\* u32::to_be_bytes and from_be_bytes.
BigEndian(n) == <<n \div 16777216, (n \div 65536) % 256, (n \div 256) % 256, n % 256>>
ReadU32(s, offset) ==
  256 * (256 * (256 * s[offset + 1] + s[offset + 2]) + s[offset + 3]) + s[offset + 4]

\* An optional number that is absent, and what `as usize` makes of a negative
\* number: more than any piece or size.
NoNumber == -1
Huge == 2147483647
AsUsize(n) == IF n < 0 THEN Huge ELSE n

\* The outcome of a decode, like those of Bencode.
Accepted(v) == [ok |-> TRUE, value |-> v]

-----------------------------------------------------------------------------
\* Handshake

HandshakeLen == 68
\* "BitTorrent protocol"
Pstr == <<66, 105, 116, 84, 111, 114, 114, 101, 110, 116, 32, 112, 114, 111, 116, 111, 99, 111, 108>>

ExtensionMask == 16
FastMask      == 4
DhtMask       == 1

\* A mask if a feature is on.
Flag(on, mask) == IF on THEN mask ELSE 0

EncodeHandshake(h) ==
  <<Len(Pstr)>> \o Pstr
    \o <<0, 0, 0, 0, 0, Flag(h.extension, ExtensionMask), 0,
         Or(Flag(h.fast, FastMask), Flag(h.dht, DhtMask))>>
    \o h.infoHash \o h.peerId

\* Mutant of DecodeHandshake: the fast flag is looked for in the byte of the
\* extension flag.
DecodeHandshakeFlags(s) ==
  IF s[1] = Len(Pstr) /\ SubSeq(s, 2, 20) = Pstr
  THEN Accepted([infoHash |-> SubSeq(s, 29, 48), peerId |-> SubSeq(s, 49, 68),
                 extension |-> HasBit(s[26], ExtensionMask),
                 fast |-> HasBit(s[26], FastMask), dht |-> HasBit(s[28], DhtMask)])
  ELSE Refused

DecodeHandshake(s) ==
  IF s[1] = Len(Pstr) /\ SubSeq(s, 2, 20) = Pstr
  THEN Accepted([infoHash |-> SubSeq(s, 29, 48), peerId |-> SubSeq(s, 49, 68),
                 extension |-> HasBit(s[26], ExtensionMask),
                 fast |-> HasBit(s[28], FastMask), dht |-> HasBit(s[28], DhtMask)])
  ELSE Refused

-----------------------------------------------------------------------------
\* Extension payloads.  The keys are "m", "metadata_size", "msg_type", "piece",
\* "total_size", "added", "added6", "dropped" and "dropped6".

KeyM == <<109>>
KeyMetadataSize == <<109, 101, 116, 97, 100, 97, 116, 97, 95, 115, 105, 122, 101>>
KeyMsgType == <<109, 115, 103, 95, 116, 121, 112, 101>>
KeyPiece == <<112, 105, 101, 99, 101>>
KeyTotalSize == <<116, 111, 116, 97, 108, 95, 115, 105, 122, 101>>
KeyAdded == <<97, 100, 100, 101, 100>>
KeyAdded6 == <<97, 100, 100, 101, 100, 54>>
KeyDropped == <<100, 114, 111, 112, 112, 101, 100>>
KeyDropped6 == <<100, 114, 111, 112, 112, 101, 100, 54>>

\* The entries of a dictionary of numbers, but for those that are absent.
Numbers(d) == [k \in {key \in DOMAIN d : d[key] # NoNumber} |-> EncodeInt(d[k])]

\* ExtensionHandshake::encode
EncodeExtensions(h) ==
  EncodeDict(Insert(Numbers(Insert(<<>>, KeyMetadataSize, h.metadataSize)),
                    KeyM, EncodeDict(Numbers(h.extensions))))

\* ExtensionHandshake::from_bencode: what has the wrong type or is out of range
\* is left out, and nothing is an error.
ExtensionsFrom(v) ==
  LET m == IF HasKey(v, KeyM) /\ IsDict(v.dict[KeyM]) THEN v.dict[KeyM].dict ELSE <<>>
      valid == {k \in DOMAIN m : IsInt(m[k]) /\ m[k].int \in 0 .. 255}
  IN  [type |-> "ExtensionHandshake",
       extensions |-> [k \in valid |-> m[k].int],
       metadataSize |-> IF HasInt(v, KeyMetadataSize) /\ GetInt(v, KeyMetadataSize) >= 0
                        THEN GetInt(v, KeyMetadataSize) ELSE NoNumber]

\* UtMetadataMessage::encode and decode
MetadataEntries(kind, piece) == Insert(Insert(<<>>, KeyMsgType, kind), KeyPiece, piece)
EncodeMetadata(m) ==
  CASE m.type = "Request" -> EncodeDict(Numbers(MetadataEntries(0, m.piece)))
    [] m.type = "Data"    ->
         EncodeDict(Numbers(Insert(MetadataEntries(1, m.piece), KeyTotalSize, m.totalSize))) \o m.data
    [] m.type = "Reject"  -> EncodeDict(Numbers(MetadataEntries(2, m.piece)))
    [] OTHER              -> <<>>

DecodeMetadata(s) ==
  LET d     == Decode(s)
      kind  == GetInt(d.value, KeyMsgType)
      piece == AsUsize(GetInt(d.value, KeyPiece))
  IN  IF ~d.ok \/ ~HasInt(d.value, KeyMsgType) \/ ~HasInt(d.value, KeyPiece) THEN Refused
      ELSE CASE kind = 0 -> Accepted([type |-> "Request", piece |-> piece])
             [] kind = 1 -> IF HasInt(d.value, KeyTotalSize)
                            THEN Accepted([type |-> "Data", piece |-> piece,
                                           totalSize |-> AsUsize(GetInt(d.value, KeyTotalSize)),
                                           data |-> Rest(s, d)])
                            ELSE Refused
             [] kind = 2 -> Accepted([type |-> "Reject", piece |-> piece])
             [] OTHER    -> Accepted([type |-> "Unimplemented"])

\* A socket address is its 4 or 16 bytes and its port; parse_socket_addrs reads
\* a list of them.  (Every multiple of 18 is one of 6: the second case is never
\* reached, and a list of IPv6 addresses is taken for three times as many of
\* IPv4.)
EncodeAddr(a) == a.ip \o <<a.port \div 256, a.port % 256>>
AddrsOf(s, size) ==
  {[ip |-> SubSeq(s, i * size + 1, i * size + size - 2),
    port |-> 256 * s[i * size + size - 1] + s[i * size + size]] : i \in 0 .. Len(s) \div size - 1}
ParseSocketAddrs(s) ==
  CASE Len(s) % 6 = 0                      -> Accepted(AddrsOf(s, 6))
    [] Len(s) % 6 # 0 /\ Len(s) % 18 = 0   -> Accepted(AddrsOf(s, 18))
    [] OTHER                               -> Refused

\* UtPexMessage::encode, in an order a HashSet might have, and decode.
Compact(addrs) ==
  LET list == SetToSeq(addrs) IN FlattenSeq([i \in DOMAIN list |-> EncodeAddr(list[i])])
EncodePex(m) ==
  LET added == Insert(Insert(<<>>, KeyAdded, {a \in m.addrs : Len(a.ip) = 4}),
                      KeyAdded6, {a \in m.addrs : Len(a.ip) = 16})
  IN  EncodeDict([k \in {key \in DOMAIN added : added[key] # {}} |-> ByteString(Compact(added[k]))])

DecodePex(s) ==
  LET d     == Decode(s)
      Lists(keys) == {k \in keys : HasKey(d.value, k) /\ IsBytes(d.value.dict[k])}
      Addrs(k)    == ParseSocketAddrs(d.value.dict[k].bytes)
      All(keys)   == UNION {Addrs(k).value : k \in Lists(keys)}
      added   == {KeyAdded, KeyAdded6}
      dropped == {KeyDropped, KeyDropped6}
  IN  IF ~d.ok \/ ~IsDict(d.value) THEN Refused
      ELSE IF Lists(added \cup dropped) = {} \/ \E k \in Lists(added \cup dropped) : ~Addrs(k).ok
           THEN Refused
      ELSE Accepted([type |-> "Pex", addrs |-> All(added) \ All(dropped)])

-----------------------------------------------------------------------------
\* Messages

\* Message ids of the messages that are nothing else, that name a piece, and
\* that name a range.
PlainId   == [Choke |-> 0, Unchoke |-> 1, Interested |-> 2, NotInterested |-> 3,
              HaveAll |-> 14, HaveNone |-> 15]
IndexedId == [Have |-> 4, SuggestPiece |-> 13, AllowedFast |-> 17]
RangedId  == [Request |-> 6, Cancel |-> 8, RejectRequest |-> 16]

EncodeMessage(m) ==
  CASE m.type \in DOMAIN PlainId   -> <<PlainId[m.type]>>
    [] m.type \in DOMAIN IndexedId -> <<IndexedId[m.type]>> \o BigEndian(m.piece)
    [] m.type \in DOMAIN RangedId  ->
         <<RangedId[m.type]>> \o BigEndian(m.range.piece) \o BigEndian(m.range.offset)
                              \o BigEndian(m.range.len)
    [] m.type = "Bitfield"         -> <<5>> \o m.bits
    [] m.type = "Piece"            ->
         <<7>> \o BigEndian(m.range.piece) \o BigEndian(m.range.offset) \o m.data
    [] m.type = "ExtensionHandshake" -> <<20, 0>> \o EncodeExtensions(m)
    [] m.type = "Extension"        -> <<20, m.ext>> \o m.payload
    [] m.type \in {"KeepAlive", "Unimplemented"} -> <<>>

\* Mutant of RangeOf: the two offsets in the wrong order.
RangeSwapped(s, len) == [piece |-> ReadU32(s, 5), offset |-> ReadU32(s, 1), len |-> len]

\* The range at the start of a payload.
RangeOf(s, len) == [piece |-> ReadU32(s, 1), offset |-> ReadU32(s, 5), len |-> len]

\* Message::decode, of the id and what follows.  Choke, Unchoke, Interested and
\* NotInterested ignore what follows, and an id that is not known is no error.
DecodeMessage(s) ==
  LET id   == s[1]
      size == Len(s) - 1
      IdOf(ids)    == {t \in DOMAIN ids : ids[t] = id}
      TypeOf(ids)  == CHOOSE t \in IdOf(ids) : TRUE
      When(ok, m)  == IF ok THEN Accepted(m) ELSE Refused
  IN  CASE s = <<>>           -> Accepted([type |-> "KeepAlive"])
        [] s # <<>> /\ IdOf(PlainId) # {}   ->
             When(id < 14 \/ size = 0, [type |-> TypeOf(PlainId)])
        [] s # <<>> /\ IdOf(IndexedId) # {} ->
             When(size = 4, [type |-> TypeOf(IndexedId), piece |-> ReadU32(s, 1)])
        [] s # <<>> /\ IdOf(RangedId) # {}  ->
             When(size = 12, [type |-> TypeOf(RangedId), range |-> RangeOf(s, ReadU32(s, 9))])
        [] s # <<>> /\ id = 5               -> Accepted([type |-> "Bitfield", bits |-> Tail(s)])
        [] s # <<>> /\ id = 7               ->
             When(size >= 8, [type |-> "Piece", range |-> RangeOf(s, size - 8),
                              data |-> SubSeq(s, 10, Len(s))])
        [] s # <<>> /\ id = 20              ->
             IF size = 0 THEN Refused
             ELSE LET payload == SubSeq(s, 3, Len(s))
                  IN  IF s[2] # 0
                      THEN Accepted([type |-> "Extension", ext |-> s[2], payload |-> payload])
                      ELSE When(Decode(payload).ok, ExtensionsFrom(Decode(payload).value))
        [] OTHER                            -> Accepted([type |-> "Unimplemented"])

\* Message::frame
Frame(payload) == BigEndian(Len(payload)) \o payload

=============================================================================
