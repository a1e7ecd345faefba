------------------------------- MODULE PeerStream -------------------------------
(***************************************************************************)
(* One connection between two peers, byte by byte: the handshakes, the     *)
(* frames, and what each end makes of them (adapters/peer_io.rs with       *)
(* domain/peer.rs, message.rs, bencode.rs and bitfield.rs).  The end that  *)
(* listens runs this program; the one that dials may be another one.       *)
(***************************************************************************)
EXTENDS Codec, Torrent

CONSTANTS
  Greetings,   \* handshakes of the two ends, [Dialer |-> ..., Listener |-> ...]
  Registered,  \* the info hashes of the listening end's SwarmRegistry
  OurSize,     \* the size of the info dictionary this program states, or NoNumber
  Contents,    \* the pieces the ends may have at the start
  Fetched,     \* the pieces that may be completed meanwhile
  Talk,        \* Talk[e]: the messages e may send, see Wire
  RawFrames,   \* frames of another program, [raw |-> bytes, tells |-> outcome]
  MaxSaid      \* MaxSaid[e]: most frames e sends

VARIABLES
  own,       \* own[e]: the handshake of end e
  foreign,   \* the dialling end runs another program
  phase,     \* phase[e]: "Greeting", "Starting", "Open" or "Closed"
  theirs,    \* theirs[e]: the handshake e has read, or <<>>
  wire,      \* wire[e]: bytes sent to e and not yet read by it
  awaiting,  \* awaiting[e]: length of the payload e is about to read, or NoNumber
  sent,      \* sent[e]: the frames e has sent, as messages or bytes (history)
  got,       \* got[e]: the messages e has read (history)
  done,      \* done[e]: the pieces e has
  have,      \* have[e]: the bitfield it keeps of them
  said,      \* said[e]: it has sent that bitfield
  early      \* early[e]: Haves in the command channel of e that it has not sent

streamVars ==
  <<own, foreign, phase, theirs, wire, awaiting, sent, got, done, have, said, early>>

End == {"Dialer", "Listener"}
Other(e) == CHOOSE o \in End : o # e

\* The end runs this program.
IsOurs(e) == ~(e = "Dialer" /\ foreign)

-----------------------------------------------------------------------------
\* What is said

\* The extensions this program has, with their ids.
UtMetadata == <<117, 116, 95, 109, 101, 116, 97, 100, 97, 116, 97>>
UtPex == <<117, 116, 95, 112, 101, 120>>
OurExtensions ==
  [type |-> "ExtensionHandshake", metadataSize |-> OurSize,
   extensions |-> Insert(Insert(<<>>, UtMetadata, 1), UtPex, 2)]

\* What is told as an extension message, by these ids.
Wire(m) ==
  CASE m.type = "ut_metadata" -> [type |-> "Extension", ext |-> 1, payload |-> EncodeMetadata(m.message)]
    [] m.type = "ut_pex"      -> [type |-> "Extension", ext |-> 2, payload |-> EncodePex(m.message)]
    [] m.type \notin {"ut_metadata", "ut_pex"} -> m

U32 == 0 .. Huge
Handshake ==
  [infoHash : [1 .. 20 -> Byte], peerId : [1 .. 20 -> Byte],
   extension : BOOLEAN, fast : BOOLEAN, dht : BOOLEAN]

\* The messages the swarm and the fetcher of metadata send, but for those that say
\* which pieces there are.
RequestedRange == [piece : U32, offset : U32, len : U32]
MaxPort == 65535  \* u16::MAX
Address4 == [ip : [1 .. 4 -> Byte], port : 0 .. MaxPort]
Address6 == [ip : [1 .. 16 -> Byte], port : 0 .. MaxPort]
Address == Address4 \cup Address6
MetadataMessage ==
  [type : {"Request", "Reject"}, piece : U32]
    \cup [type : {"Data"}, piece : U32, totalSize : U32, data : Seq(Byte)]
PexMessage == [type : {"Pex"}, addrs : SUBSET Address]
Message ==
  [type : {"KeepAlive", "Choke", "Unchoke", "Interested", "NotInterested"}]
    \cup [type : {"SuggestPiece", "AllowedFast"}, piece : U32]
    \cup [type : {"Request", "Cancel", "RejectRequest"}, range : RequestedRange]
    \cup [type : {"Piece"}, range : RequestedRange, data : Seq(Byte)]
    \cup [type : {"ut_metadata"}, message : MetadataMessage]
    \cup [type : {"ut_pex"}, message : PexMessage]

\* A block is as long as its range says, the peers told of are those connected,
\* and so at least the one that is told, and a frame's length fits its header.
IsSayable(m) ==
  /\ m \in Message
  /\ m.type = "Piece" => m.range.len = Len(m.data)
  /\ m.type = "ut_pex" => IsFiniteSet(m.message.addrs) /\ m.message.addrs # {}
  /\ Len(EncodeMessage(Wire(m))) <= Huge

\* A frame of another program has a header, and is as long as it says or longer
\* than is allowed.
IsFrame(x) ==
  /\ x.raw \in Seq(Byte) /\ Len(x.raw) >= 4
  /\ \/ ReadU32(x.raw, 0) > MaxMessageSize
     \/ /\ ReadU32(x.raw, 0) = Len(x.raw) - 4
        /\ x.tells = DecodeMessage(SubSeq(x.raw, 5, Len(x.raw)))

ASSUME StreamAssumption ==
  /\ MaxMessageSize \in Nat
  /\ NumPieces <= Huge
  /\ Greetings \subseteq [End -> Handshake]
  /\ OurSize = NoNumber \/ OurSize \in U32
  /\ Contents \subseteq [End -> SUBSET Piece]
  /\ Fetched \subseteq Piece
  /\ DOMAIN Talk = End /\ \A e \in End : \A m \in Talk[e] : IsSayable(m)
  /\ \A x \in RawFrames : DOMAIN x = {"raw", "tells"} /\ IsFrame(x)

-----------------------------------------------------------------------------
\* The features this program announces.
Ours(h) == h.extension /\ h.fast /\ ~h.dht

\* The bitfield of these pieces: SwarmIO::restore feeds them back one by one.
Holding(held) ==
  LET after[n \in 0 .. NumPieces] ==
        IF n = 0 THEN NewBitfield(NumPieces)
        ELSE IF n - 1 \in held THEN SetBit(after[n - 1], n - 1) ELSE after[n - 1]
  IN  after[NumPieces]

StreamInit ==
  /\ own \in Greetings /\ Ours(own["Listener"])
  /\ foreign \in BOOLEAN /\ (Ours(own["Dialer"]) \/ foreign)
  /\ phase = [e \in End |-> "Greeting"]
  /\ theirs = [e \in End |-> <<>>]
  \* TcpPeerIO::connect writes its handshake first.
  /\ wire = [Dialer |-> <<>>, Listener |-> EncodeHandshake(own["Dialer"])]
  /\ awaiting = [e \in End |-> NoNumber]
  /\ sent = [e \in End |-> <<>>]
  /\ got = [e \in End |-> <<>>]
  /\ done \in Contents
  /\ have = [e \in End |-> Holding(done[e])]
  /\ said = [e \in End |-> FALSE]
  /\ early = [e \in End |-> <<>>]

-----------------------------------------------------------------------------
\* The connection

\* Bytes the reader of e waits for: a handshake, a header or a payload.
Needed(e) ==
  CASE phase[e] = "Greeting"                            -> HandshakeLen
    [] phase[e] # "Greeting" /\ awaiting[e] = NoNumber  -> 4
    [] phase[e] # "Greeting" /\ awaiting[e] # NoNumber  -> awaiting[e]

\* read_exact has what it waits for.  Nothing but the end of the session makes it
\* give up halfway, so bytes that arrive one by one need no steps of their own.
CanRead(e) == Len(wire[e]) >= Needed(e)
Read(e) == SubSeq(wire[e], 1, Needed(e))

\* e has read what it needed, and sends the other end these bytes.
Transfer(e, bytes) ==
  wire' = [wire EXCEPT ![e] = SubSeq(@, Needed(e) + 1, Len(@)), ![Other(e)] = @ \o bytes]

Send(e, bytes) == wire' = [wire EXCEPT ![Other(e)] = @ \o bytes]

\* A timeout, an error, a cancellation: the end drops the connection, also with a
\* frame half read.
Close(e) ==
  /\ phase[e] # "Closed"
  /\ phase' = [phase EXCEPT ![e] = "Closed"]
  /\ UNCHANGED <<own, foreign, theirs, wire, awaiting, sent, got, done, have, said, early>>

-----------------------------------------------------------------------------
\* Handshakes

\* What the end that dialled, and the one that listens, check of a handshake.
Welcome(e, h) ==
  /\ h.ok
  /\ h.value.peerId # own[e].peerId
  /\ CASE e = "Dialer"   -> h.value.infoHash = own[e].infoHash
       [] e = "Listener" -> h.value.infoHash \in Registered

\* connect reads the answer; handle_peer reads the first handshake and answers
\* for the torrent it names.
ReadHandshake(e) ==
  /\ phase[e] = "Greeting" /\ CanRead(e)
  /\ LET h == DecodeHandshake(Read(e))
         answer == [own[e] EXCEPT !.infoHash = h.value.infoHash]
     IN  IF Welcome(e, h)
         THEN /\ theirs' = [theirs EXCEPT ![e] = h.value]
              /\ phase' = [phase EXCEPT ![e] = "Starting"]
              /\ Transfer(e, IF e = "Listener" THEN EncodeHandshake(answer) ELSE <<>>)
         ELSE /\ phase' = [phase EXCEPT ![e] = "Closed"]
              /\ UNCHANGED <<theirs, wire>>
  /\ UNCHANGED <<own, foreign, awaiting, sent, got, done, have, said, early>>

\* run_session: a peer that knows the extension protocol is sent the extension
\* handshake before anything else.
Start(e) ==
  /\ phase[e] = "Starting"
  /\ phase' = [phase EXCEPT ![e] = "Open"]
  /\ IF theirs[e].extension /\ IsOurs(e)
     THEN /\ Send(e, Frame(EncodeMessage(OurExtensions)))
          /\ sent' = [sent EXCEPT ![e] = Append(@, OurExtensions)]
     ELSE UNCHANGED <<wire, sent>>
  /\ UNCHANGED <<own, foreign, theirs, awaiting, got, done, have, said, early>>

-----------------------------------------------------------------------------
\* Frames

\* The end may send one more frame to an end that reads, and its swarm may tell
\* the session one more message: what is in the command channel goes first.
MaySend(e) == phase[e] = "Open" /\ Len(sent[e]) < MaxSaid[e] /\ phase[Other(e)] # "Closed"
MaySay(e)  == IsOurs(e) /\ MaySend(e) /\ early[e] = <<>>

Say(e, m) ==
  /\ Send(e, Frame(EncodeMessage(Wire(m))))
  /\ sent' = [sent EXCEPT ![e] = Append(@, m)]

Tell(e, m) ==
  /\ MaySay(e) /\ said[e]
  /\ Say(e, m)
  /\ UNCHANGED <<own, foreign, phase, theirs, awaiting, got, done, have, said, early>>

\* Swarm::on_connected: what e has, in short if the fast extension is on.
Possession(e) ==
  CASE theirs[e].fast /\ done[e] = Piece -> [type |-> "HaveAll"]
    [] theirs[e].fast /\ done[e] = {}    -> [type |-> "HaveNone"]
    [] OTHER                             -> [type |-> "Bitfield", bits |-> have[e].data]

Introduce(e) ==
  /\ MaySay(e) /\ ~said[e]
  /\ said' = [said EXCEPT ![e] = TRUE]
  /\ Say(e, Possession(e))
  /\ UNCHANGED <<own, foreign, phase, theirs, awaiting, got, done, have, early>>

\* SwarmIO has a command channel for the session: from the dial on, or from
\* accept_inbound on, which follows handle_peer.
HasChannel(e) == phase[e] \in {"Starting", "Open"} \/ (e = "Dialer" /\ phase[e] = "Greeting")
HasNoChannel(e) == e = "Listener" /\ phase[e] \in {"Greeting", "Starting"} /\ early[e] = <<>>

\* A piece is verified: PieceManager sets its bit, and Broadcast sends a Have to every
\* command channel (swarm_io.rs 269-275), also to that of a session which the swarm
\* does not know to be connected: it is sent when the session comes to write, before
\* the bitfield.
Complete(e, p) ==
  LET news == [type |-> "Have", piece |-> p]
  IN  /\ p \notin done[e] /\ IsOurs(e)
      /\ done' = [done EXCEPT ![e] = @ \cup {p}]
      /\ have' = [have EXCEPT ![e] = SetBit(@, p)]
      /\ \/ MaySay(e) /\ Say(e, news) /\ UNCHANGED early
         \/ /\ HasChannel(e) /\ ~said[e] /\ Len(sent[e]) + Len(early[e]) < MaxSaid[e]
            /\ early' = [early EXCEPT ![e] = Append(@, news)]
            /\ UNCHANGED <<wire, sent>>
         \/ HasNoChannel(e) /\ UNCHANGED <<wire, sent, early>>
      /\ UNCHANGED <<own, foreign, phase, theirs, awaiting, got, said>>

\* write_peer_messages takes the next Have from the channel.
WriteEarly(e) ==
  /\ IsOurs(e) /\ MaySend(e) /\ early[e] # <<>>
  /\ Say(e, Head(early[e]))
  /\ early' = [early EXCEPT ![e] = Tail(@)]
  /\ UNCHANGED <<own, foreign, phase, theirs, awaiting, got, done, have, said>>

TellRaw(x) ==
  /\ foreign /\ MaySend("Dialer")
  /\ Send("Dialer", x.raw)
  /\ sent' = [sent EXCEPT !["Dialer"] = Append(@, x)]
  /\ UNCHANGED <<own, foreign, phase, theirs, awaiting, got, done, have, said, early>>

\* Message::read_from, in its two reads.  One that fails ends the session.
ReadHeader(e) ==
  /\ phase[e] = "Open" /\ awaiting[e] = NoNumber /\ CanRead(e)
  /\ LET len == ReadU32(Read(e), 0)
     IN  IF len > MaxMessageSize
         THEN phase' = [phase EXCEPT ![e] = "Closed"] /\ UNCHANGED <<awaiting, wire>>
         ELSE /\ awaiting' = [awaiting EXCEPT ![e] = len]
              /\ Transfer(e, <<>>)
              /\ UNCHANGED phase
  /\ UNCHANGED <<own, foreign, theirs, sent, got, done, have, said, early>>

ReadPayload(e) ==
  /\ phase[e] = "Open" /\ awaiting[e] # NoNumber /\ CanRead(e)
  /\ LET m == DecodeMessage(Read(e))
     IN  IF m.ok
         THEN got' = [got EXCEPT ![e] = Append(@, m.value)] /\ UNCHANGED phase
         ELSE phase' = [phase EXCEPT ![e] = "Closed"] /\ UNCHANGED got
  /\ awaiting' = [awaiting EXCEPT ![e] = NoNumber]
  /\ Transfer(e, <<>>)
  /\ UNCHANGED <<own, foreign, theirs, sent, done, have, said, early>>

\* Nobody has anything left to do.
Silent == \A e \in End : phase[e] = "Closed"

StreamNext ==
  \/ \E e \in End :
       \/ Close(e)
       \/ ReadHandshake(e)
       \/ Start(e)
       \/ \E m \in Talk[e] : Tell(e, m)
       \/ Introduce(e)
       \/ \E p \in Fetched : Complete(e, p)
       \/ WriteEarly(e)
       \/ ReadHeader(e)
       \/ ReadPayload(e)
  \/ \E x \in RawFrames : TellRaw(x)
  \/ Silent /\ UNCHANGED streamVars

StreamSpec == StreamInit /\ [][StreamNext]_streamVars

=============================================================================
