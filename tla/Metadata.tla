-------------------------------- MODULE Metadata --------------------------------
(***************************************************************************)
(* Fetching the info dictionary of a magnet link from peers, BEP 9         *)
(* (domain/metadata.rs).  The dictionary comes in pieces; what arrived for *)
(* a piece is "good" when it is what the dictionary has at that place      *)
(* (nothing, beyond its end) and "bad" otherwise.                          *)
(***************************************************************************)
EXTENDS Maps, Integers

CONSTANTS
  Addr,               \* socket addresses
  MetadataPieceSize,  \* Metadata::PIECE_SIZE, 16 KiB in the program
  InfoSize,           \* length of the info dictionary with the wanted hash
  PeerMessages        \* messages peers send in the model

ASSUME MetadataAssumption ==
  /\ MetadataPieceSize \in Nat \ {0}
  /\ InfoSize \in Nat \ {0}
  /\ \A m \in PeerMessages :
        /\ m.type = "Handshake" => m.size \in Nat
        /\ m.type = "Data" => m.data \in {"good", "bad"}

VARIABLES
  totalSize,  \* the size a peer stated, NoSize before
  info,       \* Metadata::pieces: what arrived for each piece
  metaPeers,  \* Metadata::peers: address -> its id for ut_metadata
  requests,   \* outputs of the last step: the requests to send
  fetched,    \* outputs of the last step: Done, with the dictionary
  asked       \* history: which peers were asked for which missing pieces

metadataVars == <<totalSize, info, metaPeers, requests, fetched, asked>>

NoSize == -1

\* usize::div_ceil
PieceCount(size) == (size + MetadataPieceSize - 1) \div MetadataPieceSize

MissingOf(pieces) == {p \in DOMAIN pieces : pieces[p] = "missing"}
Missing == MissingOf(info)

\* make_request, with the ids the peers have stated.
RequestFor(ids, a, p) == [addr |-> a, piece |-> p, ext |-> ids[a]]

\* request_missing_from, for each of the addresses.
RequestMissingFrom(addrs, pieces, ids) ==
  {RequestFor(ids, a, p) : a \in addrs, p \in MissingOf(pieces)}

\* What the step asks for is remembered while it is missing.
Ask(reqs, pieces) ==
  /\ requests' = reqs
  /\ asked' = asked \cup {<<r.addr, r.piece>> : r \in {q \in reqs : q.piece \in MissingOf(pieces)}}

NoRequest == requests' = {} /\ UNCHANGED asked

MetadataInit ==
  /\ totalSize = NoSize
  /\ info = EmptyMap
  /\ metaPeers = EmptyMap
  /\ requests = {}
  /\ fetched = FALSE
  /\ asked = {}

-----------------------------------------------------------------------------
\* Input::PeerDisconnected
LosePeer(a) ==
  /\ metaPeers' = Remove(metaPeers, {a})
  /\ requests' = {}
  /\ asked' = {x \in asked : x[1] # a}
  /\ UNCHANGED <<totalSize, info, fetched>>

\* A message that is ignored: of another kind, an extension handshake that
\* lacks ut_metadata or metadata_size, or an extension message that does not
\* carry the id the peer itself uses for ut_metadata.
Heard(a, m)  == a \in DOMAIN metaPeers /\ metaPeers[a] = m.ext
HasPiece(m)  == m.piece \in Missing
Ignored(a, m) ==
  \/ m.type = "Other"
  \/ m.type \in {"Data", "Reject"} /\ ~Heard(a, m)
  \/ m.type = "Data" /\ ~HasPiece(m)

IgnoreMessage(a, m) ==
  /\ Ignored(a, m)
  /\ NoRequest
  /\ UNCHANGED <<totalSize, info, metaPeers, fetched>>

\* The first stated size counts, and makes room for the pieces.
TakeSize(size) ==
  IF totalSize = NoSize
  THEN /\ totalSize' = size
       /\ info' = [p \in 0 .. PieceCount(size) - 1 |-> "missing"]
  ELSE UNCHANGED <<totalSize, info>>

\* Mutant of OnExtensionHandshake: a known peer is not asked again.
OnFirstHandshake(a, m) ==
  /\ m.type = "Handshake"
  /\ TakeSize(m.size)
  /\ metaPeers' = Insert(metaPeers, a, m.ext)
  /\ IF a \in DOMAIN metaPeers THEN NoRequest
     ELSE Ask(RequestMissingFrom({a}, info', metaPeers'), info')
  /\ UNCHANGED fetched

\* The peer is known from now on, and asked for all that is missing, also after
\* it connected again.
OnExtensionHandshake(a, m) ==
  /\ m.type = "Handshake"
  /\ TakeSize(m.size)
  /\ metaPeers' = Insert(metaPeers, a, m.ext)
  /\ Ask(RequestMissingFrom({a}, info', metaPeers'), info')
  /\ UNCHANGED fetched

Store(m) == [info EXCEPT ![m.piece] = m.data]

\* SHA-1 over all pieces accepts the dictionary and nothing else.
HashMatches(pieces) ==
  /\ \A p \in DOMAIN pieces : pieces[p] = "good"
  /\ PieceCount(InfoSize) - 1 \in DOMAIN pieces

\* Mutant of OnFinalPiece: the pieces are asked of the sender of the last one.
OnFinalPieceAskSender(a, m) ==
  /\ Missing = {m.piece}
  /\ IF HashMatches(Store(m))
     THEN /\ fetched' = TRUE
          /\ info' = Store(m)
          /\ NoRequest
     ELSE /\ info' = [p \in DOMAIN info |-> "missing"]
          /\ requests' = RequestMissingFrom({a}, info', metaPeers)
          /\ asked' = {<<r.addr, r.piece>> : r \in requests'}
          /\ UNCHANGED fetched

\* The last missing piece: try_finalize.  After a wrong hash every piece is
\* discarded and asked of every known peer.
OnFinalPiece(a, m) ==
  /\ Missing = {m.piece}
  /\ IF HashMatches(Store(m))
     THEN /\ fetched' = TRUE
          /\ info' = Store(m)
          /\ NoRequest
     ELSE /\ info' = [p \in DOMAIN info |-> "missing"]
          /\ requests' = RequestMissingFrom(DOMAIN metaPeers, info', metaPeers)
          /\ asked' = {<<r.addr, r.piece>> : r \in requests'}
          /\ UNCHANGED fetched

OnPiece(m) ==
  /\ Missing # {m.piece}
  /\ info' = Store(m)
  /\ requests' = {}
  /\ asked' = {x \in asked : x[2] # m.piece}
  /\ UNCHANGED fetched

OnData(a, m) ==
  /\ m.type = "Data" /\ Heard(a, m) /\ HasPiece(m)
  /\ OnFinalPiece(a, m) \/ OnPiece(m)
  /\ UNCHANGED <<totalSize, metaPeers>>

\* A refused piece is asked of some other peer, also when it is no longer
\* missing or never existed.
OnReject(a, m) ==
  /\ m.type = "Reject" /\ Heard(a, m)
  /\ LET others == DOMAIN metaPeers \ {a}
     IN  IF others = {} THEN NoRequest
         ELSE \E other \in others : Ask({RequestFor(metaPeers, other, m.piece)}, info)
  /\ UNCHANGED <<totalSize, info, metaPeers, fetched>>

\* Input::MessageReceived
OnMessage(a, m) ==
  \/ IgnoreMessage(a, m)
  \/ OnExtensionHandshake(a, m)
  \/ OnData(a, m)
  \/ OnReject(a, m)

MetadataNext == \E a \in Addr : LosePeer(a) \/ \E m \in PeerMessages : OnMessage(a, m)

\* Nothing is asked once the dictionary is there: MetadataIO has returned.
MetadataSpec == MetadataInit /\ [][~fetched /\ MetadataNext]_metadataVars

=============================================================================
