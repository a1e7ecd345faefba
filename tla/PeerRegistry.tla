----------------------------- MODULE PeerRegistry -----------------------------
(***************************************************************************)
(* The peers the swarm talks to (domain/swarm/peer_registry.rs): what each *)
(* connection told us, which pieces it announced, and which connection     *)
(* stands for which remote peer id.  Byte counters and peer_interested,    *)
(* which no decision reads, are left out.                                  *)
(***************************************************************************)
EXTENDS Message, Maps, FiniteSets

CONSTANTS
  PeerId,        \* remote peer ids, ordered as their 20 bytes are
  UnknownRarity  \* usize::MAX, the rarity of a piece nobody announced

ASSUME RegistryAssumption ==
  PeerId \subseteq Nat /\ UnknownRarity \in Nat

VARIABLES
  peers,     \* PeerRegistry::peers: address -> PeerState
  byId,      \* PeerRegistry::by_id: peer id -> the connection it uses
  byPiece,   \* PieceAvailability::by_piece; a piece without peers has no entry
  seeders,   \* PeerRegistry::seeders
  leechers   \* PeerRegistry::leechers

registryVars == <<peers, byId, byPiece, seeders, leechers>>

Direction == {"Inbound", "Outbound"}

PeerState == [id          : PeerId,
              choking     : BOOLEAN,            \* peer_choking
              fast        : BOOLEAN,
              allowedFast : SUBSET PieceIndex,
              suggested   : SUBSET PieceIndex,
              extensions  : SUBSET ExtensionName]

\* Input::PeerConnected, and the connection by_id remembers.
Connection == [addr : Addr, id : PeerId, direction : Direction, fast : BOOLEAN]
ActiveConnection == [addr : Addr, direction : Direction]

RegistryInit ==
  /\ peers = EmptyMap
  /\ byId = EmptyMap
  /\ byPiece = [p \in PieceIndex |-> {}]
  /\ seeders = {}
  /\ leechers = {}

RegistryOK ==
  /\ DOMAIN peers \subseteq Addr
  /\ \A a \in DOMAIN peers : peers[a] \in PeerState
  /\ DOMAIN byId \subseteq PeerId
  /\ \A i \in DOMAIN byId : byId[i] \in ActiveConnection
  /\ byPiece \in [PieceIndex -> SUBSET Addr]
  /\ seeders \subseteq Addr
  /\ leechers \subseteq Addr

-----------------------------------------------------------------------------
\* connected and disconnected

NewPeer(c) == [id |-> c.id, choking |-> TRUE, fast |-> c.fast,
               allowedFast |-> {}, suggested |-> {}, extensions |-> {}]

\* disconnected forgets an id only while by_id still points to that address.
IdsHeldBy(addrs) ==
  {i \in DOMAIN byId : \E a \in addrs \cap DOMAIN peers :
                          peers[a].id = i /\ byId[i].addr = a}

PeersWithout(addrs) == Remove(peers, addrs)
ByIdWithout(addrs)  == Remove(byId, IdsHeldBy(addrs))

\* Mutant of Disconnected: an address that leaves stays in its class.
DisconnectedKeepsClass(addrs) ==
  /\ peers' = PeersWithout(addrs)
  /\ byId' = ByIdWithout(addrs)
  /\ byPiece' = [p \in PieceIndex |-> byPiece[p] \ addrs]
  /\ UNCHANGED <<seeders, leechers>>

\* disconnected, of every address of a set that holds at most one.
Disconnected(addrs) ==
  /\ peers' = PeersWithout(addrs)
  /\ byId' = ByIdWithout(addrs)
  /\ byPiece' = [p \in PieceIndex |-> byPiece[p] \ addrs]
  /\ seeders' = seeders \ addrs
  /\ leechers' = leechers \ addrs

\* disconnected(old), then connected(c): what the registry knew of c.addr
\* itself stays, apart from its PeerState.
ConnectedAfterDisconnecting(c, old) ==
  /\ peers' = Insert(PeersWithout(old), c.addr, NewPeer(c))
  /\ byId' = Insert(ByIdWithout(old), c.id, [addr |-> c.addr, direction |-> c.direction])
  /\ byPiece' = [p \in PieceIndex |-> byPiece[p] \ old]
  /\ seeders' = seeders \ old
  /\ leechers' = leechers \ old

-----------------------------------------------------------------------------
\* apply

Known(a) == a \in DOMAIN peers

\* RejectReason::ProtocolViolation
Violates(a, m) == Known(a) /\ NeedsFast(m) /\ ~peers[a].fast

PeerStateAfter(peer, m) ==
  CASE m.type = "Choke"              -> [peer EXCEPT !.choking = TRUE]
    [] m.type = "Unchoke"            -> [peer EXCEPT !.choking = FALSE]
    [] m.type = "ExtensionHandshake" -> [peer EXCEPT !.extensions = m.names]
    [] m.type = "AllowedFast"        -> [peer EXCEPT !.allowedFast = @ \cup {m.piece}]
    [] m.type = "SuggestPiece"       -> [peer EXCEPT !.suggested = @ \cup {m.piece}]
    [] OTHER                         -> peer

\* The pieces peer a has, by what it announced up to and including m.
Announced(a, m) ==
  LET before == {p \in PieceIndex : a \in byPiece[p]}
  IN  CASE m.type = "Bitfield" -> m.pieces
        [] m.type = "Have"     -> before \cup {m.piece}
        [] m.type = "HaveAll"  -> before \cup Piece
        [] m.type = "HaveNone" -> {}
        [] OTHER               -> before

\* Mutant of Classify: a seeder is never demoted.
ClassifyUpOnly(a, has) ==
  IF Piece \subseteq has
  THEN seeders' = seeders \cup {a} /\ leechers' = leechers \ {a}
  ELSE leechers' = leechers \cup {a} /\ UNCHANGED seeders

\* A peer that announced these pieces is a seeder or a leecher.
Classify(a, has) ==
  IF Piece \subseteq has
  THEN seeders' = seeders \cup {a} /\ leechers' = leechers \ {a}
  ELSE leechers' = leechers \cup {a} /\ seeders' = seeders \ {a}

\* The message passes the registry, and the registry takes note of it.
Apply(a, m) ==
  /\ Known(a)
  /\ ~Violates(a, m)
  /\ peers' = [peers EXCEPT ![a] = PeerStateAfter(@, m)]
  /\ LET has == Announced(a, m)
     IN  /\ byPiece' = [p \in PieceIndex |->
                          IF p \in has THEN byPiece[p] \cup {a} ELSE byPiece[p] \ {a}]
         /\ Classify(a, has)
  /\ UNCHANGED byId

-----------------------------------------------------------------------------
\* What the scheduler asks

Unchoked == {a \in DOMAIN peers : ~peers[a].choking}

CanServe(a, p) == Known(a) /\ (~peers[a].choking \/ p \in peers[a].allowedFast)

IsSuggested(p) == \E a \in DOMAIN peers : p \in peers[a].suggested

Rarity(p) == IF byPiece[p] = {} THEN UnknownRarity ELSE Cardinality(byPiece[p])

=============================================================================
