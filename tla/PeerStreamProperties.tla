--------------------------- MODULE PeerStreamProperties ---------------------------
(***************************************************************************)
(* What two peers can rely on of the connection between them.              *)
(***************************************************************************)
EXTENDS PeerStream

\* The bytes that were sent for x, a message or a frame of another program.
IsRaw(x)   == DOMAIN x = {"raw", "tells"}
FrameOf(x) == IF IsRaw(x) THEN x.raw ELSE Frame(EncodeMessage(Wire(x)))

\* The bytes of the frames that were sent but for the first n.
FramesFrom(messages, n) ==
  FlattenSeq([i \in 1 .. Len(messages) - n |-> FrameOf(messages[n + i])])

\* The peers that are read of these addresses.  A list of IPv6 addresses, of 18 bytes
\* each, is always one of 6 bytes each too, and parse_socket_addrs tests that first
\* (message.rs line 543): it takes each for three of IPv4, although its comment in
\* line 555 means to read "IPv6: 16 bytes address + 2 bytes port".
AsRead(addrs) ==
  LET four    == {a \in addrs : Len(a.ip) = 4}
      Part(a) == {[ip |-> SubSeq(a.ip, 1, 4), port |-> 256 * a.ip[5] + a.ip[6]],
                  [ip |-> SubSeq(a.ip, 7, 10), port |-> 256 * a.ip[11] + a.ip[12]],
                  [ip |-> SubSeq(a.ip, 13, 16), port |-> a.port]}
  IN  four \cup UNION {Part(a) : a \in addrs \ four}

\* Message g tells what x was sent to tell, or what is made of it.
Tells(g, x) ==
  IF IsRaw(x) THEN x.tells = Accepted(g)
  ELSE CASE x.type = "ut_metadata" ->
              g.type = "Extension" /\ g.ext = 1 /\ DecodeMetadata(g.payload) = Accepted(x.message)
         [] x.type = "ut_pex" ->
              /\ g.type = "Extension" /\ g.ext = 2
              /\ DecodePex(g.payload) = Accepted([x.message EXCEPT !.addrs = AsRead(@)])
         [] x.type \notin {"ut_metadata", "ut_pex"} -> g = x

\* Every message arrives as it was meant, but for the IPv6 addresses of a peer
\* exchange, which arrive as AsRead says (PexIsReadOfFour is about those), once and in order, however its bytes are split on the way and whatever frames
\* another program puts in between; and while the session lasts, what has not
\* arrived is still to come, from the start of a frame or of its payload on.
ReceivedAsSent ==
  \A e \in End :
    LET from  == sent[Other(e)]
        count == Len(got[e])
        rest  == FramesFrom(from, count)
    IN  /\ count <= Len(from)
        /\ \A i \in 1 .. count : Tells(got[e][i], from[i])
        /\ phase[e] = "Open" =>
             wire[e] = IF awaiting[e] = NoNumber THEN rest ELSE SubSeq(rest, 5, Len(rest))

\* Two ends that both go on after the handshakes are two peers of one torrent
\* that the listening end has, each knows the other as it is, and the first thing
\* this program says to a peer that knows extensions is which ones it has.
HandshakesAgree ==
  LET h == own["Dialer"].infoHash
  IN  /\ theirs["Listener"] # <<>> => theirs["Listener"] = own["Dialer"] /\ h \in Registered
      /\ theirs["Dialer"] # <<>> => /\ theirs["Dialer"] = [own["Listener"] EXCEPT !.infoHash = h]
                                    /\ theirs["Listener"] # <<>>
                                    /\ own["Dialer"].peerId # own["Listener"].peerId
      /\ \A e \in End :
           own[e].extension /\ got[e] # <<>> /\ IsOurs(Other(e))
             => got[e][1] = OurExtensions

\* What a message says of the pieces its sender has, and whether it says it of all
\* of them (PeerRegistry::apply).
IsSummary(m) == m.type \in {"Bitfield", "HaveAll", "HaveNone"}
Told(m) ==
  CASE m.type = "Bitfield" -> Indices(FromBytes(m.bits))
    [] m.type = "Have"     -> {m.piece}
    [] m.type = "HaveAll"  -> Piece
    [] OTHER               -> {}

\* What messages say: what the last one of all pieces does, and those after it.
PiecesTold(messages) ==
  UNION {Told(messages[i]) : i \in
           {n \in DOMAIN messages : \A later \in n + 1 .. Len(messages) : ~IsSummary(messages[later])}}

\* An end never believes the other to have a piece it lacks, and knows of all it
\* has once nothing is on the way: of those completed before the bitfield, whose
\* Haves may come before it and count no more once it does, and of those completed
\* after it; and the bitfield names no piece by the spare bits of its last byte.
AvailabilityArrives ==
  \A e \in End :
    LET o == Other(e)
    IN  IsOurs(o) =>
          /\ PiecesTold(got[e]) \subseteq done[o]
          /\ phase[e] = "Open" /\ said[o] /\ wire[e] = <<>> /\ awaiting[e] = NoNumber
               => PiecesTold(got[e]) = done[o]

=============================================================================
