------------------------------ MODULE SwarmProofs ------------------------------
(***************************************************************************)
(* Proofs about Swarm, for every torrent geometry, every set of addresses  *)
(* and peers, and every bound.                                             *)
(*                                                                         *)
(* A step of Swarm touches few of its parts.  The footprint lemmas say,    *)
(* once and for all actions, how a step may change one part; the proof of  *)
(* an invariant then has one case for each of those ways.  After them, and *)
(* the types, come connections, requests, pieces, the scheduler and        *)
(* uploads.                                                                *)
(***************************************************************************)
EXTENDS SwarmProperties, TorrentProofs, FiniteSetTheorems, TLAPS

-----------------------------------------------------------------------------
\* Footprints

\* The registry changes by connections, disconnections and messages only.
LEMMA RegistryFootprint ==
  ASSUME [Next]_vars
  PROVE  \/ UNCHANGED registryVars
         \/ \E c \in Connections : AcceptConnection(c)
         \/ \E a \in Addr : Disconnected({a})
         \/ \E a \in Addr, m \in Messages : Apply(a, m)
<1>1. CASE UNCHANGED vars
  BY <1>1 DEF vars
<1>2. CASE \E data \in LocalContents : LocalPiece(data)
  BY <1>2 DEF LocalPiece
<1>3. CASE \E c \in Connections : PeerConnected(c)
  BY <1>3 DEF PeerConnected, RejectConnection
<1>4. CASE \E a \in Addr : PeerDisconnected(a)
  BY <1>4 DEF PeerDisconnected
<1>5. CASE \E addrs \in Discoveries : PeersDiscovered(addrs)
  BY <1>5 DEF PeersDiscovered
<1>6. CASE \E a \in Addr, m \in Messages : MessageReceived(a, m)
  BY <1>6 DEF MessageReceived, RejectMessage, Receive, OnAvailability, OnAllowedFast, OnChoke,
       OnUnchoke, OnInterested, OnRejectRequest, OnQuiet, OnPiece, OnRequest, OnCancel,
       OnMetadataRequest, OnPex
<1>7. CASE \E r \in UploadRanges, id \in 0 .. MaxReads - 1 : UploadReadCompleted(id, r)
  BY <1>7 DEF UploadReadCompleted
<1>8. CASE \E s \in Statuses : SetStatus(s)
  BY <1>8 DEF SetStatus
<1>9. CASE TickBlock \/ TickPex \/ PlanPick
  BY <1>9 DEF TickBlock, TickPex, PlanPick, Pick
<1> QED
  BY <1>1, <1>2, <1>3, <1>4, <1>5, <1>6, <1>7, <1>8, <1>9 DEF Next

\* Pieces change by what is found on disk and by data asked for.
LEMMA PieceFootprint ==
  ASSUME [Next]_vars
  PROVE  \/ UNCHANGED <<pieceVars, restored>>
         \/ \E data \in LocalContents : LocalPiece(data)
         \/ /\ restored = NumPieces
            /\ UNCHANGED restored
            /\ \E a \in Addr, m \in Messages :
                 OnPiece(a, m) /\ m.type = "Piece" /\ ReceiveBlock(m.range, m.data)
<1>1. CASE UNCHANGED vars
  BY <1>1 DEF vars
<1>2. CASE \E data \in LocalContents : LocalPiece(data)
  BY <1>2
<1>3. CASE \E c \in Connections : PeerConnected(c)
  BY <1>3 DEF PeerConnected, RejectConnection, AcceptConnection
<1>4. CASE \E a \in Addr : PeerDisconnected(a)
  BY <1>4 DEF PeerDisconnected
<1>5. CASE \E addrs \in Discoveries : PeersDiscovered(addrs)
  BY <1>5 DEF PeersDiscovered
<1>6. CASE \E a \in Addr, m \in Messages : MessageReceived(a, m)
  <2>1. CASE \E a \in Addr, m \in Messages : OnPiece(a, m)
    <3>1. PICK a \in Addr, m \in Messages : OnPiece(a, m)
      BY <2>1
    <3>2. m.type = "Piece" /\ restored = NumPieces /\ UNCHANGED restored
      BY <3>1 DEF OnPiece, Receive, Idle
    <3>3. ReceiveBlock(m.range, m.data) \/ UNCHANGED pieceVars
      BY <3>1 DEF OnPiece
    <3> QED
      BY <3>1, <3>2, <3>3
  <2>2. CASE \E a \in Addr, m \in Messages : MessageReceived(a, m) /\ ~OnPiece(a, m)
    BY <2>2 DEF MessageReceived, RejectMessage, OnAvailability, OnAllowedFast, OnChoke,
         OnUnchoke, OnInterested, OnRejectRequest, OnQuiet, OnRequest, OnCancel,
         OnMetadataRequest, OnPex
  <2> QED
    BY <1>6, <2>1, <2>2
<1>7. CASE \E r \in UploadRanges, id \in 0 .. MaxReads - 1 : UploadReadCompleted(id, r)
  BY <1>7 DEF UploadReadCompleted
<1>8. CASE \E s \in Statuses : SetStatus(s)
  BY <1>8 DEF SetStatus
<1>9. CASE TickBlock \/ TickPex \/ PlanPick
  BY <1>9 DEF TickBlock, TickPex, PlanPick, Pick
<1> QED
  BY <1>1, <1>2, <1>3, <1>4, <1>5, <1>6, <1>7, <1>8, <1>9 DEF Next

\* Requests are sent by plan() alone, and only while its budget lasts; the peers
\* change by connections, disconnections and messages, and a choke gives the
\* requests of its sender up.
LEMMA RequestFootprint ==
  ASSUME [Next]_vars
  PROVE  \/ assigned' \subseteq assigned /\ UNCHANGED peers
         \/ \E c \in Connections : AcceptConnection(c)
         \/ \E a \in Addr : PeerDisconnected(a)
         \/ \E a \in Addr, m \in Messages :
              /\ Apply(a, m)
              /\ assigned' \subseteq assigned
              /\ m.type = "Choke" => ReleasePeers({a})
         \/ \E b \in NextBlocks : \E a \in byPiece[b.piece] : Pick(b, a)
<1>1. CASE UNCHANGED vars
  BY <1>1 DEF vars, registryVars
<1>2. CASE \E data \in LocalContents : LocalPiece(data)
  BY <1>2 DEF LocalPiece, registryVars
<1>3. CASE \E c \in Connections : PeerConnected(c)
  BY <1>3 DEF PeerConnected, RejectConnection, registryVars
<1>4. CASE \E a \in Addr : PeerDisconnected(a)
  BY <1>4
<1>5. CASE \E addrs \in Discoveries : PeersDiscovered(addrs)
  BY <1>5 DEF PeersDiscovered, registryVars
<1>6. ASSUME NEW a \in Addr, NEW m \in Messages, MessageReceived(a, m)
      PROVE  \/ assigned' \subseteq assigned /\ UNCHANGED peers
             \/ /\ Apply(a, m)
                /\ assigned' \subseteq assigned
                /\ m.type = "Choke" => ReleasePeers({a})
  <2>1. CASE RejectMessage(a, m)
    BY <2>1 DEF RejectMessage, registryVars
  <2>2. CASE OnChoke(a, m)
    BY <2>2 DEF OnChoke, Receive, ReleasePeers
  <2>3. CASE OnPiece(a, m) \/ OnRejectRequest(a, m)
    BY <2>3 DEF OnPiece, OnRejectRequest, Receive, Unassign
  <2>4. CASE \/ OnAvailability(a, m) \/ OnAllowedFast(a, m) \/ OnUnchoke(a, m)
             \/ OnInterested(a, m) \/ OnQuiet(a, m) \/ OnRequest(a, m) \/ OnCancel(a, m)
             \/ OnMetadataRequest(a, m) \/ OnPex(a, m)
    BY <2>4 DEF OnAvailability, OnAllowedFast, OnUnchoke, OnInterested, OnQuiet, OnRequest,
         OnCancel, OnMetadataRequest, OnPex, Receive
  <2> QED
    BY <1>6, <2>1, <2>2, <2>3, <2>4 DEF MessageReceived
<1>7. CASE \E r \in UploadRanges, id \in 0 .. MaxReads - 1 : UploadReadCompleted(id, r)
  BY <1>7 DEF UploadReadCompleted, registryVars
<1>8. CASE \E s \in Statuses : SetStatus(s)
  BY <1>8 DEF SetStatus, registryVars
<1>9. CASE TickBlock \/ TickPex \/ PlanPick
  BY <1>9 DEF TickBlock, TickPex, PlanPick, registryVars
<1> QED
  BY <1>1, <1>2, <1>3, <1>4, <1>5, <1>6, <1>7, <1>8, <1>9 DEF Next

\* Pending reads change by requests, cancellations, answers, the status, and
\* the departure of connections; no other step changes who is connected or
\* whether uploads are on.
LEMMA UploadFootprint ==
  ASSUME [Next]_vars
  PROVE  \/ UNCHANGED <<uploadVars, status, DOMAIN peers>>
         \/ \E c \in Connections : AcceptConnection(c)
         \/ \E a \in Addr : PeerDisconnected(a)
         \/ \E a \in Addr, m \in Messages : OnRequest(a, m)
         \/ \E a \in Addr, m \in Messages : OnCancel(a, m)
         \/ \E r \in UploadRanges, id \in 0 .. MaxReads - 1 : UploadReadCompleted(id, r)
         \/ \E s \in Statuses : SetStatus(s)
<1>1. CASE UNCHANGED vars
  BY <1>1 DEF vars, registryVars
<1>2. CASE \E data \in LocalContents : LocalPiece(data)
  BY <1>2 DEF LocalPiece, registryVars
<1>3. CASE \E c \in Connections : PeerConnected(c)
  BY <1>3 DEF PeerConnected, RejectConnection, registryVars
<1>4. CASE \E a \in Addr : PeerDisconnected(a)
  BY <1>4
<1>5. CASE \E addrs \in Discoveries : PeersDiscovered(addrs)
  BY <1>5 DEF PeersDiscovered, registryVars
<1>6. CASE \E a \in Addr, m \in Messages : MessageReceived(a, m)
  <2>1. ASSUME NEW a \in Addr, NEW m \in Messages, MessageReceived(a, m),
               ~OnRequest(a, m), ~OnCancel(a, m)
        PROVE  UNCHANGED <<uploadVars, status, DOMAIN peers>>
    BY <2>1 DEF MessageReceived, RejectMessage, OnAvailability, OnAllowedFast, OnChoke,
         OnUnchoke, OnInterested, OnRejectRequest, OnQuiet, OnPiece, OnMetadataRequest, OnPex,
         Receive, Apply, registryVars
  <2> QED
    BY <1>6, <2>1
<1>7. CASE \E r \in UploadRanges, id \in 0 .. MaxReads - 1 : UploadReadCompleted(id, r)
  BY <1>7
<1>8. CASE \E s \in Statuses : SetStatus(s)
  BY <1>8
<1>9. CASE TickBlock \/ TickPex \/ PlanPick
  BY <1>9 DEF TickBlock, TickPex, PlanPick, Pick, registryVars
<1> QED
  BY <1>1, <1>2, <1>3, <1>4, <1>5, <1>6, <1>7, <1>8, <1>9 DEF Next

\* The budget of plan() is computed from the state plan() starts in, and spent
\* one request at a time; while it lasts nothing else happens to the peers.
LEMMA BudgetFootprint ==
  ASSUME [Next]_vars
  PROVE  \/ budget = 0 /\ budget' = 0
         \/ budget' = PlanBudget'
         \/ budget' \in {budget, PlanBudget} /\ UNCHANGED <<registryVars, assigned, status>>
         \/ \E b \in NextBlocks : \E a \in byPiece[b.piece] : Pick(b, a)
<1>1. CASE UNCHANGED vars
  BY <1>1 DEF vars
<1>2. CASE \E data \in LocalContents : LocalPiece(data)
  BY <1>2 DEF LocalPiece
<1>3. CASE \E c \in Connections : PeerConnected(c)
  BY <1>3 DEF PeerConnected, RejectConnection, AcceptConnection, Idle
<1>4. CASE \E a \in Addr : PeerDisconnected(a)
  BY <1>4 DEF PeerDisconnected, Idle
<1>5. CASE \E addrs \in Discoveries : PeersDiscovered(addrs)
  BY <1>5 DEF PeersDiscovered, Idle
<1>6. CASE \E a \in Addr, m \in Messages : MessageReceived(a, m)
  BY <1>6 DEF MessageReceived, RejectMessage, OnAvailability, OnAllowedFast, OnChoke,
       OnUnchoke, OnInterested, OnRejectRequest, OnQuiet, OnPiece, OnRequest, OnCancel,
       OnMetadataRequest, OnPex, Receive, Replan, Idle
<1>7. CASE \E r \in UploadRanges, id \in 0 .. MaxReads - 1 : UploadReadCompleted(id, r)
  BY <1>7 DEF UploadReadCompleted, Idle
<1>8. CASE \E s \in Statuses : SetStatus(s)
  BY <1>8 DEF SetStatus, Idle
<1>9. CASE TickBlock \/ TickPex \/ PlanPick
  BY <1>9 DEF TickBlock, TickPex, PlanPick
<1> QED
  BY <1>1, <1>2, <1>3, <1>4, <1>5, <1>6, <1>7, <1>8, <1>9 DEF Next

\* The status changes by SetStatus only.
LEMMA StatusFootprint ==
  ASSUME [Next]_vars
  PROVE  UNCHANGED status \/ \E s \in Statuses : SetStatus(s)
<1>1. CASE UNCHANGED vars
  BY <1>1 DEF vars
<1>2. CASE \E data \in LocalContents : LocalPiece(data)
  BY <1>2 DEF LocalPiece
<1>3. CASE \E c \in Connections : PeerConnected(c)
  BY <1>3 DEF PeerConnected, RejectConnection, AcceptConnection
<1>4. CASE \E a \in Addr : PeerDisconnected(a)
  BY <1>4 DEF PeerDisconnected
<1>5. CASE \E addrs \in Discoveries : PeersDiscovered(addrs)
  BY <1>5 DEF PeersDiscovered
<1>6. CASE \E a \in Addr, m \in Messages : MessageReceived(a, m)
  BY <1>6 DEF MessageReceived, RejectMessage, OnAvailability, OnAllowedFast, OnChoke,
       OnUnchoke, OnInterested, OnRejectRequest, OnQuiet, OnPiece, OnRequest, OnCancel,
       OnMetadataRequest, OnPex
<1>7. CASE \E r \in UploadRanges, id \in 0 .. MaxReads - 1 : UploadReadCompleted(id, r)
  BY <1>7 DEF UploadReadCompleted
<1>8. CASE \E s \in Statuses : SetStatus(s)
  BY <1>8
<1>9. CASE TickBlock \/ TickPex \/ PlanPick
  BY <1>9 DEF TickBlock, TickPex, PlanPick, Pick
<1> QED
  BY <1>1, <1>2, <1>3, <1>4, <1>5, <1>6, <1>7, <1>8, <1>9 DEF Next

-----------------------------------------------------------------------------
\* Types

\* A decoded message has the fields its kind needs, within their bounds.
LEMMA MessageFields ==
  ASSUME NEW m \in Messages
  PROVE  /\ m.type \in {"Request", "Cancel", "RejectRequest", "Piece"} => m.range \in BlockRange
         /\ m.type = "Piece" => m.data \in Content
         /\ m.type \in {"Have", "SuggestPiece", "AllowedFast"} => m.piece \in PieceIndex
         /\ m.type = "ExtensionHandshake" => m.names \in SUBSET ExtensionName
BY SwarmAssumption DEF Message, Plain, Indexed, Ranged

\* What a message may change about its sender: never who it is, and only a
\* choke or nothing takes away what it can be asked for.
LEMMA PeerStateStep ==
  ASSUME NEW peer \in PeerState, NEW m \in Messages
  PROVE  /\ PeerStateAfter(peer, m) \in PeerState
         /\ PeerStateAfter(peer, m).id = peer.id
         /\ PeerStateAfter(peer, m).fast = peer.fast
         /\ PeerStateAfter(peer, m).choking => peer.choking \/ m.type = "Choke"
         /\ peer.allowedFast \subseteq PeerStateAfter(peer, m).allowedFast
<1>1. CASE m.type = "Choke"
  BY <1>1 DEF PeerStateAfter, PeerState
<1>2. CASE m.type = "Unchoke"
  BY <1>2 DEF PeerStateAfter, PeerState
<1>3. CASE m.type = "ExtensionHandshake"
  BY <1>3, MessageFields DEF PeerStateAfter, PeerState
<1>4. CASE m.type = "AllowedFast"
  BY <1>4, MessageFields DEF PeerStateAfter, PeerState
<1>5. CASE m.type = "SuggestPiece"
  BY <1>5, MessageFields DEF PeerStateAfter, PeerState
<1>6. CASE m.type \notin {"Choke", "Unchoke", "ExtensionHandshake", "AllowedFast", "SuggestPiece"}
  BY <1>6 DEF PeerStateAfter
<1> QED
  BY <1>1, <1>2, <1>3, <1>4, <1>5, <1>6

\* The registry starts well typed.
LEMMA RegistryOKInit == Init => RegistryOK
BY DEF Init, RegistryInit, RegistryOK, EmptyMap

\* Every step keeps the registry well typed.
LEMMA RegistryOKStep == RegistryOK /\ [Next]_vars => RegistryOK'
<1> SUFFICES ASSUME RegistryOK, [Next]_vars PROVE RegistryOK'
  OBVIOUS
<1>1. CASE UNCHANGED registryVars
  BY <1>1 DEF RegistryOK, registryVars
<1>2. ASSUME NEW c \in Connections, AcceptConnection(c) PROVE RegistryOK'
  <2>1. /\ c.addr \in Addr
        /\ c.id \in PeerId
        /\ NewPeer(c) \in PeerState
        /\ [addr |-> c.addr, direction |-> c.direction] \in ActiveConnection
    BY SwarmAssumption DEF Connection, NewPeer, PeerState, ActiveConnection
  <2>2. ConnectedAfterDisconnecting(c, Replaced(c))
    BY <1>2 DEF AcceptConnection
  <2> QED
    BY <2>1, <2>2 DEF RegistryOK, ConnectedAfterDisconnecting, PeersWithout, ByIdWithout, Insert, Remove
<1>3. ASSUME NEW a \in Addr, Disconnected({a}) PROVE RegistryOK'
  BY <1>3 DEF RegistryOK, Disconnected, PeersWithout, ByIdWithout, Remove
<1>4. ASSUME NEW a \in Addr, NEW m \in Messages, Apply(a, m) PROVE RegistryOK'
  <2>1. DOMAIN peers' = DOMAIN peers /\ \A b \in DOMAIN peers : peers'[b] \in PeerState
    BY <1>4, PeerStateStep DEF RegistryOK, Apply, Known
  <2>2. byPiece' \in [PieceIndex -> SUBSET Addr] /\ seeders' \subseteq Addr /\ leechers' \subseteq Addr
    BY <1>4 DEF RegistryOK, Apply, Classify
  <2> QED
    BY <1>4, <2>1, <2>2 DEF RegistryOK, Apply
<1> QED
  BY <1>1, <1>2, <1>3, <1>4, RegistryFootprint

\* Settle yields one of the states of the piece.
LEMMA SettleType ==
  ASSUME NEW p \in Piece, NEW blocks \in [BlockIndices(p) -> BlockState], NEW n \in Nat
  PROVE  Settle(p, blocks, n) \in PieceState(p)
BY DEF Settle, PieceState, Blank, BlockState

\* Every step keeps the pieces well typed.
LEMMA PiecesOKStep ==
  PiecesOK /\ restored \in 0 .. NumPieces /\ [Next]_vars
    => PiecesOK' /\ restored' \in 0 .. NumPieces
<1> SUFFICES ASSUME PiecesOK, restored \in 0 .. NumPieces, [Next]_vars
             PROVE  PiecesOK' /\ restored' \in 0 .. NumPieces
  OBVIOUS
<1>1. CASE UNCHANGED <<pieceVars, restored>>
  BY <1>1 DEF PiecesOK, pieceVars
<1>2. ASSUME NEW data \in LocalContents, LocalPiece(data)
      PROVE  PiecesOK' /\ restored' \in 0 .. NumPieces
  <2> DEFINE blocks == [i \in BlockIndices(restored) |->
                          IF i < Len(data) THEN data[i + 1] ELSE "Missing"]
             after  == Settle(restored, blocks, Len(data))
  <2>1. data \in Seq(Content) /\ NumPieces \in Nat
    BY SwarmAssumption, TorrentAssumption DEF GeometryAssumption
  <2>2. restored \in Piece /\ restored' \in 0 .. NumPieces
    BY <1>2, <2>1 DEF LocalPiece, Piece
  <2>3. Len(data) \in Nat /\ \A i \in BlockIndices(restored) : i \in Nat
    BY <2>1, <2>2, NumBlocksBounds DEF BlockIndices
  <2>4. blocks \in [BlockIndices(restored) -> BlockState]
    BY <2>1, <2>3 DEF BlockState
  <2>5. after \in PieceState(restored)
    BY <2>2, <2>3, <2>4, SettleType
  <2>6. /\ pieces' = [pieces EXCEPT ![restored] = after]
        /\ bitfield' \in {bitfield, bitfield \cup {restored}}
    BY <1>2 DEF LocalPiece, ReceivePrefix
  <2> QED
    BY <2>2, <2>5, <2>6 DEF PiecesOK
<1>3. ASSUME NEW m \in Messages, m.type = "Piece", ReceiveBlock(m.range, m.data)
      PROVE  PiecesOK'
  <2>1. CASE ~Takes(m.range)
    BY <1>3, <2>1 DEF ReceiveBlock, Completes, PiecesOK
  <2>2. CASE Takes(m.range)
    <3> DEFINE p == m.range.piece
               blocks == [pieces[p].blocks EXCEPT ![BlockIndex(m.range)] = m.data]
    <3>1. p \in Piece /\ m.data \in BlockState
      BY <1>3, <2>2, MessageFields DEF Takes, BlockState
    <3>2. blocks \in [BlockIndices(p) -> BlockState] /\ pieces[p].received + 1 \in Nat
      BY <2>2, <3>1 DEF Takes, IsComplete, PiecesOK, PieceState, Complete
    <3>3. PieceAfter(m.range, m.data) \in PieceState(p)
      BY <3>1, <3>2, SettleType DEF PieceAfter
    <3>4. /\ pieces' = [pieces EXCEPT ![p] = PieceAfter(m.range, m.data)]
          /\ bitfield' \in {bitfield, bitfield \cup {p}}
      BY <1>3, <2>2 DEF ReceiveBlock
    <3> QED
      BY <3>1, <3>3, <3>4 DEF PiecesOK
  <2> QED
    BY <2>1, <2>2
<1> QED
  BY <1>1, <1>2, <1>3, PieceFootprint

\* The pieces of the torrent are among those a message may name.
LEMMA PiecesAreIndices == Piece \subseteq PieceIndex
BY TorrentAssumption, MessageAssumption DEF GeometryAssumption, Piece, PieceIndex

\* What the planner asks for are blocks of the torrent.
LEMMA WantedAreBlocks ==
  /\ WantedBlocks \subseteq AllBlocks
  /\ AllBlocks \subseteq BlockRange
  /\ \A b \in AllBlocks : b.piece \in Piece /\ b.piece \in PieceIndex
<1>1. WantedBlocks \subseteq AllBlocks
  BY DEF WantedBlocks, NeededPieces, UnreceivedBlocks, AllBlocks
<1>2. AllBlocks \subseteq BlockRange
  BY BlockIsRange DEF AllBlocks
<1>3. \A b \in AllBlocks : b.piece \in Piece
  BY DEF AllBlocks, Block
<1> QED
  BY <1>1, <1>2, <1>3, PiecesAreIndices

\* A block in flight is a block of the torrent, at one of the addresses.
BlocksAssigned == assigned \subseteq [block : AllBlocks, addr : Addr]

\* plan() asks for blocks of the torrent only.
LEMMA BlocksAssignedStep == BlocksAssigned /\ RegistryOK /\ [Next]_vars => BlocksAssigned'
<1> SUFFICES ASSUME BlocksAssigned, RegistryOK, [Next]_vars PROVE BlocksAssigned'
  OBVIOUS
<1>1. CASE assigned' \subseteq assigned
  BY <1>1 DEF BlocksAssigned
<1>2. ASSUME NEW b \in NextBlocks, NEW a \in byPiece[b.piece], Pick(b, a) PROVE BlocksAssigned'
  <2>1. b \in AllBlocks /\ b.piece \in PieceIndex
    BY WantedAreBlocks DEF NextBlocks, Plannable
  <2>2. a \in Addr
    BY <2>1 DEF RegistryOK
  <2> QED
    BY <1>2, <2>1, <2>2 DEF BlocksAssigned, Pick, Assign
<1> QED
  BY <1>1, <1>2, RequestFootprint DEF AcceptConnection, PeerDisconnected, ReleasePeers

\* The slots of finitely many peers can be counted.
LEMMA SlotsFinite == RegistryOK => IsFiniteSet(OpenSlots) /\ Cardinality(OpenSlots) \in Nat
<1> SUFFICES ASSUME RegistryOK PROVE IsFiniteSet(OpenSlots)
  BY FS_CardinalityType
<1>1. IsFiniteSet(Unchoked)
  BY MessageAssumption, FS_Subset DEF RegistryOK, Unchoked
<1>2. IsFiniteSet(1 .. MaxInFlightPerPeer)
  BY AssignmentAssumption, FS_Interval
<1> QED
  BY <1>1, <1>2, FS_Product, FS_Subset DEF OpenSlots

\* The budget plan() starts with is a number.
BudgetOK == PlanBudget \in Nat

\* So it is in every state.
LEMMA BudgetType == RegistryOK => BudgetOK
BY SlotsFinite DEF PlanBudget, BudgetOK

\* Every step keeps the pending reads well typed.
LEMMA UploadsOKStep == UploadsOK /\ [Next]_vars => UploadsOK'
<1> SUFFICES ASSUME UploadsOK, [Next]_vars PROVE UploadsOK'
  OBVIOUS
<1>1. CASE UNCHANGED uploadVars
  BY <1>1 DEF UploadsOK, uploadVars
<1>2. ASSUME NEW addrs, CancelUploadsOf(addrs) PROVE UploadsOK'
  BY <1>2 DEF UploadsOK, CancelUploadsOf, uploadVars, PendingRead
<1>3. ASSUME NEW a \in Addr, NEW m \in Messages, OnRequest(a, m) PROVE UploadsOK'
  <2>1. m.range \in BlockRange
    BY <1>3, MessageFields DEF OnRequest, Receive
  <2> QED
    BY <1>3, <2>1
       DEF UploadsOK, OnRequest, ShareRead, StartRead, Insert, PendingRead, uploadVars
<1>4. ASSUME NEW a \in Addr, NEW m \in Messages, OnCancel(a, m) PROVE UploadsOK'
  BY <1>4 DEF UploadsOK, OnCancel, CancelUpload, Remove, PendingRead
<1>5. ASSUME NEW r \in UploadRanges, NEW id \in 0 .. MaxReads - 1, UploadReadCompleted(id, r)
      PROVE  UploadsOK'
  BY <1>5 DEF UploadsOK, UploadReadCompleted, Remove
<1>6. ASSUME NEW s \in Statuses, SetStatus(s) PROVE UploadsOK'
  BY <1>6 DEF UploadsOK, SetStatus, EmptyMap
<1> QED
  BY <1>1, <1>2, <1>3, <1>4, <1>5, <1>6, UploadFootprint DEF AcceptConnection, PeerDisconnected

\* The type invariant, with what the next requests are chosen from.
TypeInv == TypeOK /\ BlocksAssigned

\* The initial state is well typed.
LEMMA TypeInvInit == Init => TypeInv
<1> SUFFICES ASSUME Init PROVE TypeInv
  OBVIOUS
<1>1. PiecesOK
  <2>1. ASSUME NEW p \in Piece PROVE Blank(p) \in PieceState(p)
    BY DEF Blank, PieceState, BlockState
  <2> QED
    BY <2>1 DEF Init, PiecesInit, PiecesOK
<1>2. RegistryOK
  BY RegistryOKInit
<1>3. AssignmentsOK /\ BlocksAssigned
  BY DEF Init, AssignmentsInit, AssignmentsOK, BlocksAssigned
<1>4. UploadsOK
  BY DEF Init, UploadsInit, UploadsOK, EmptyMap
<1>5. status \in SwarmStatus /\ budget \in Nat /\ restored \in 0 .. NumPieces
  BY TorrentAssumption DEF Init, SwarmStatus, GeometryAssumption
<1> QED
  BY <1>1, <1>2, <1>3, <1>4, <1>5 DEF TypeInv, TypeOK

\* Every step keeps every part well typed.
LEMMA TypeInvStep == TypeInv /\ [Next]_vars => TypeInv'
<1> SUFFICES ASSUME TypeInv, [Next]_vars PROVE TypeInv'
  OBVIOUS
<1>1. PiecesOK' /\ restored' \in 0 .. NumPieces
  BY PiecesOKStep DEF TypeInv, TypeOK
<1>2. RegistryOK'
  BY RegistryOKStep DEF TypeInv, TypeOK
<1>3. BlocksAssigned'
  BY BlocksAssignedStep DEF TypeInv, TypeOK
<1>4. AssignmentsOK'
  BY <1>3, WantedAreBlocks DEF BlocksAssigned, AssignmentsOK, Assignment
<1>5. UploadsOK'
  BY UploadsOKStep DEF TypeInv, TypeOK
<1>6. status' \in SwarmStatus
  BY StatusFootprint, SwarmAssumption DEF TypeInv, TypeOK, SetStatus
<1>7. budget' \in Nat
  <2>1. BudgetOK
    BY BudgetType DEF TypeInv, TypeOK
  <2>2. BudgetOK'
    BY <1>2, BudgetType, PTL
  <2> QED
    BY <2>1, <2>2, BudgetFootprint DEF TypeInv, TypeOK, BudgetOK, Pick
<1> QED
  BY <1>1, <1>2, <1>3, <1>4, <1>5, <1>6, <1>7 DEF TypeInv, TypeOK

\* Every variable of the swarm keeps its type.
THEOREM TypeCorrect == Spec => []TypeOK
<1>1. TypeInv => TypeOK
  BY DEF TypeInv
<1> QED
  BY <1>1, TypeInvInit, TypeInvStep, PTL DEF Spec

-----------------------------------------------------------------------------
\* Counting

\* The first n numbers are n.
LEMMA CountInterval == ASSUME NEW n \in Nat PROVE Cardinality(0 .. n - 1) = n
<1>1. Cardinality(0 .. n - 1) = IF 0 > n - 1 THEN 0 ELSE (n - 1) - 0 + 1
  BY FS_Interval
<1> QED
  BY <1>1

\* One more element makes the count grow by one at most.
LEMMA CountOneMore ==
  ASSUME NEW S, IsFiniteSet(S), NEW x
  PROVE  /\ IsFiniteSet(S \cup {x})
         /\ Cardinality(S \cup {x}) \in Nat
         /\ Cardinality(S) \in Nat
         /\ Cardinality(S \cup {x}) <= Cardinality(S) + 1
<1>1. Cardinality(S) \in Nat /\ IsFiniteSet(S \cup {x}) /\ Cardinality(S \cup {x}) \in Nat
  BY FS_AddElement, FS_CardinalityType
<1>2. CASE x \in S
  <2>1. Cardinality(S \cup {x}) = Cardinality(S)
    BY <1>2, FS_AddElement
  <2> QED
    BY <1>1, <2>1
<1>3. CASE x \notin S
  <2>1. Cardinality(S \cup {x}) = Cardinality(S) + 1
    BY <1>3, FS_AddElement
  <2> QED
    BY <1>1, <2>1
<1> QED
  BY <1>1, <1>2, <1>3

-----------------------------------------------------------------------------
\* Connections

\* by_id leads back to every registered address.  The converse does not hold:
\* the id of a connection that was overwritten at its address stays in by_id.
IdsLeadBack ==
  \A a \in DOMAIN peers :
    peers[a].id \in DOMAIN byId /\ byId[peers[a].id].addr = a

\* Nobody is registered initially.
LEMMA IdsLeadBackInit == Init => IdsLeadBack
BY DEF Init, RegistryInit, IdsLeadBack, EmptyMap

\* A replaced connection takes its entry along, and no other.
LEMMA IdsLeadBackStep == TypeInv /\ IdsLeadBack /\ [Next]_vars => IdsLeadBack'
<1> SUFFICES ASSUME RegistryOK, IdsLeadBack, [Next]_vars PROVE IdsLeadBack'
  BY DEF TypeInv, TypeOK
<1>1. CASE UNCHANGED registryVars
  BY <1>1 DEF IdsLeadBack, registryVars
<1>2. ASSUME NEW c \in Connections, AcceptConnection(c) PROVE IdsLeadBack'
  <2>1. /\ peers' = Insert(PeersWithout(Replaced(c)), c.addr, NewPeer(c))
        /\ byId' = Insert(ByIdWithout(Replaced(c)), c.id,
                          [addr |-> c.addr, direction |-> c.direction])
    BY <1>2 DEF AcceptConnection, ConnectedAfterDisconnecting
  <2>2. ASSUME NEW a \in DOMAIN peers'
        PROVE  peers'[a].id \in DOMAIN byId' /\ byId'[peers'[a].id].addr = a
    <3>1. CASE a = c.addr
      BY <2>1, <3>1 DEF Insert, NewPeer
    <3>2. CASE a # c.addr
      \* A peer that stays has another id than the new one, and keeps its entry.
      <4>1. a \in DOMAIN peers \ Replaced(c) /\ peers'[a] = peers[a]
        BY <2>1, <2>2, <3>2 DEF Insert, PeersWithout, Remove
      <4>2. peers[a].id \in DOMAIN byId /\ byId[peers[a].id].addr = a
        BY <4>1 DEF IdsLeadBack
      <4>3. peers[a].id # c.id
        BY <4>1, <4>2 DEF Replaced, HasConnection
      <4>4. peers[a].id \notin IdsHeldBy(Replaced(c))
        BY <4>1, <4>2 DEF IdsHeldBy
      <4> QED
        BY <2>1, <4>1, <4>2, <4>3, <4>4 DEF Insert, ByIdWithout, Remove
    <3> QED
      BY <3>1, <3>2
  <2> QED
    BY <2>2 DEF IdsLeadBack
<1>3. ASSUME NEW a \in Addr, Disconnected({a}) PROVE IdsLeadBack'
  BY <1>3 DEF IdsLeadBack, Disconnected, PeersWithout, ByIdWithout, IdsHeldBy, Remove
<1>4. ASSUME NEW a \in Addr, NEW m \in Messages, Apply(a, m) PROVE IdsLeadBack'
  <2>1. PeerStateAfter(peers[a], m).id = peers[a].id
    BY <1>4, PeerStateStep DEF RegistryOK, Apply, Known
  <2> QED
    BY <1>4, <2>1 DEF IdsLeadBack, Apply, Known
<1> QED
  BY <1>1, <1>2, <1>3, <1>4, RegistryFootprint

\* on_connected never keeps two connections of one peer.
THEOREM OneConnection == Spec => []OneConnectionPerPeerId
<1>1. IdsLeadBack => OneConnectionPerPeerId
  BY DEF IdsLeadBack, OneConnectionPerPeerId
<1> QED
  BY <1>1, TypeInvInit, TypeInvStep, IdsLeadBackInit, IdsLeadBackStep, PTL DEF Spec

\* Nothing about an address survives its disconnection.
THEOREM KnownPeers == Spec => []OnlyPeersAreKnown
<1>1. Init => OnlyPeersAreKnown
  BY DEF Init, RegistryInit, OnlyPeersAreKnown, EmptyMap
<1>2. ASSUME OnlyPeersAreKnown, [Next]_vars PROVE OnlyPeersAreKnown'
  <2>1. CASE UNCHANGED registryVars
    BY <1>2, <2>1 DEF OnlyPeersAreKnown, registryVars
  <2>2. ASSUME NEW c \in Connections, AcceptConnection(c) PROVE OnlyPeersAreKnown'
    BY <1>2, <2>2
       DEF OnlyPeersAreKnown, AcceptConnection, ConnectedAfterDisconnecting, PeersWithout,
           Insert, Remove
  <2>3. ASSUME NEW a \in Addr, Disconnected({a}) PROVE OnlyPeersAreKnown'
    BY <1>2, <2>3 DEF OnlyPeersAreKnown, Disconnected, PeersWithout, Remove
  <2>4. ASSUME NEW a \in Addr, NEW m \in Messages, Apply(a, m) PROVE OnlyPeersAreKnown'
    BY <1>2, <2>4 DEF OnlyPeersAreKnown, Apply, Known, Classify
  <2> QED
    BY <1>2, <2>1, <2>2, <2>3, <2>4, RegistryFootprint
<1> QED
  BY <1>1, <1>2, PTL DEF Spec

\* A classified peer is a seeder exactly when it announced every piece.
THEOREM Classes == Spec => []ClassesMatchAvailability
<1>1. Init => ClassesMatchAvailability
  BY DEF Init, RegistryInit, ClassesMatchAvailability
<1>2. ASSUME ClassesMatchAvailability, [Next]_vars PROVE ClassesMatchAvailability'
  <2>1. CASE UNCHANGED registryVars
    BY <1>2, <2>1 DEF ClassesMatchAvailability, registryVars
  <2>2. ASSUME NEW c \in Connections, AcceptConnection(c) PROVE ClassesMatchAvailability'
    <3>1. /\ byPiece' = [p \in PieceIndex |-> byPiece[p] \ Replaced(c)]
          /\ seeders' = seeders \ Replaced(c)
          /\ leechers' = leechers \ Replaced(c)
      BY <2>2 DEF AcceptConnection, ConnectedAfterDisconnecting
    <3> QED
      BY <1>2, <3>1, PiecesAreIndices DEF ClassesMatchAvailability
  <2>3. ASSUME NEW a \in Addr, Disconnected({a}) PROVE ClassesMatchAvailability'
    BY <1>2, <2>3, PiecesAreIndices DEF ClassesMatchAvailability, Disconnected
  <2>4. ASSUME NEW a \in Addr, NEW m \in Messages, Apply(a, m) PROVE ClassesMatchAvailability'
    <3> DEFINE has == Announced(a, m)
    <3>1. /\ byPiece' = [p \in PieceIndex |->
                           IF p \in has THEN byPiece[p] \cup {a} ELSE byPiece[p] \ {a}]
          /\ Classify(a, has)
      BY <2>4 DEF Apply
    <3> HIDE DEF has
    <3>2. Piece \subseteq has <=> \A p \in Piece : a \in byPiece'[p]
      BY <3>1, PiecesAreIndices
    <3>3. \A b : b # a => \A p \in Piece : b \in byPiece'[p] <=> b \in byPiece[p]
      BY <3>1, PiecesAreIndices
    <3> QED
      BY <1>2, <3>1, <3>2, <3>3 DEF ClassesMatchAvailability, Classify
  <2> QED
    BY <1>2, <2>1, <2>2, <2>3, <2>4, RegistryFootprint
<1> QED
  BY <1>1, <1>2, PTL DEF Spec

-----------------------------------------------------------------------------
\* Requests

\* A peer that could serve piece p still can after any message but a choke.
LEMMA ServesAfterMessage ==
  ASSUME RegistryOK, NEW a \in Addr, NEW m \in Messages, Apply(a, m), m.type # "Choke",
         NEW b, NEW p, CanServe(b, p)
  PROVE  CanServe(b, p)'
<1>1. DOMAIN peers' = DOMAIN peers /\ b \in DOMAIN peers
  BY DEF Apply, CanServe, Known
<1>2. CASE b # a
  BY <1>1, <1>2 DEF Apply, CanServe, Known
<1>3. CASE b = a
  BY <1>1, <1>3, PeerStateStep DEF RegistryOK, Apply, CanServe, Known
<1> QED
  BY <1>2, <1>3

\* Every step that takes a peer or its consent away gives its requests up.
LEMMA RequestsStep ==
  TypeInv /\ RequestsCanBeAnswered /\ [Next]_vars => RequestsCanBeAnswered'
<1> SUFFICES ASSUME TypeInv, RequestsCanBeAnswered, [Next]_vars,
                    NEW x \in assigned'
             PROVE  /\ x.block \in AllBlocks
                    /\ x.addr \in DOMAIN peers'
                    /\ CanServe(x.addr, x.block.piece)'
  BY DEF RequestsCanBeAnswered
<1>1. RegistryOK
  BY DEF TypeInv, TypeOK
<1>2. ASSUME x \in assigned, peers' = peers
      PROVE  CanServe(x.addr, x.block.piece)' /\ x.block \in AllBlocks
  BY <1>2 DEF RequestsCanBeAnswered, CanServe, Known
<1>3. ASSUME NEW c \in Connections, AcceptConnection(c)
      PROVE  CanServe(x.addr, x.block.piece)' /\ x.block \in AllBlocks
  <2>1. x \in assigned /\ x.addr # c.addr /\ x.addr \notin Replaced(c)
    BY <1>3 DEF AcceptConnection, ReleasePeers, Abandoned
  <2>2. x.addr \in DOMAIN peers /\ CanServe(x.addr, x.block.piece) /\ x.block \in AllBlocks
    BY <2>1 DEF RequestsCanBeAnswered
  <2>3. x.addr \in DOMAIN peers' /\ peers'[x.addr] = peers[x.addr]
    BY <1>3, <2>1, <2>2
       DEF AcceptConnection, ConnectedAfterDisconnecting, Insert, PeersWithout, Remove
  <2> QED
    BY <2>2, <2>3 DEF CanServe, Known
<1>4. ASSUME NEW a \in Addr, PeerDisconnected(a)
      PROVE  CanServe(x.addr, x.block.piece)' /\ x.block \in AllBlocks
  <2>1. x \in assigned /\ x.addr # a
    BY <1>4 DEF PeerDisconnected, ReleasePeers
  <2>2. x.addr \in DOMAIN peers /\ CanServe(x.addr, x.block.piece) /\ x.block \in AllBlocks
    BY <2>1 DEF RequestsCanBeAnswered
  <2>3. x.addr \in DOMAIN peers' /\ peers'[x.addr] = peers[x.addr]
    BY <1>4, <2>1, <2>2 DEF PeerDisconnected, Disconnected, PeersWithout, Remove
  <2> QED
    BY <2>2, <2>3 DEF CanServe, Known
<1>5. ASSUME NEW a \in Addr, NEW m \in Messages, Apply(a, m),
             assigned' \subseteq assigned, m.type = "Choke" => ReleasePeers({a})
      PROVE  CanServe(x.addr, x.block.piece)' /\ x.block \in AllBlocks
  <2>1. x \in assigned /\ CanServe(x.addr, x.block.piece) /\ x.block \in AllBlocks
    BY <1>5 DEF RequestsCanBeAnswered
  <2>2. CASE m.type # "Choke"
    BY <1>1, <1>5, <2>1, <2>2, ServesAfterMessage
  <2>3. CASE m.type = "Choke"
    <3>1. x.addr # a
      BY <1>5, <2>3 DEF ReleasePeers
    <3> QED
      BY <1>5, <2>1, <3>1 DEF Apply, CanServe, Known
  <2> QED
    BY <2>2, <2>3
<1>6. ASSUME NEW b \in NextBlocks, NEW a \in byPiece[b.piece], Pick(b, a)
      PROVE  CanServe(x.addr, x.block.piece)' /\ x.block \in AllBlocks
  <2>1. peers' = peers
    BY <1>6 DEF Pick, registryVars
  <2>2. CASE x \in assigned
    BY <1>2, <2>1, <2>2
  <2>3. CASE x = [block |-> b, addr |-> a]
    BY <1>6, <2>1, <2>3, WantedAreBlocks
       DEF Pick, CanAsk, CanServe, Known, NextBlocks, Plannable
  <2> QED
    BY <1>6, <2>2, <2>3 DEF Pick, Assign
<1>7. CanServe(x.addr, x.block.piece)' /\ x.block \in AllBlocks
  BY <1>2, <1>3, <1>4, <1>5, <1>6, RequestFootprint
<1> QED
  BY <1>7 DEF CanServe, Known

\* No request waits at a peer that left, choked us, or came back as another.
THEOREM Answerable == Spec => []RequestsCanBeAnswered
<1>1. Init => RequestsCanBeAnswered
  BY DEF Init, AssignmentsInit, RequestsCanBeAnswered
<1> QED
  BY <1>1, TypeInvInit, TypeInvStep, RequestsStep, PTL DEF Spec

\* The bound on one peer's requests needs that they are finitely many.
InFlightInv == IsFiniteSet(assigned) /\ InFlightBounded

\* Nothing is in flight initially.
LEMMA InFlightInit == Init => InFlightInv
<1> SUFFICES ASSUME Init PROVE InFlightInv
  OBVIOUS
<1>1. assigned = {} /\ \A a \in Addr : InFlight(a) = {}
  BY DEF Init, AssignmentsInit, InFlight
<1> QED
  BY <1>1, FS_EmptySet, AssignmentAssumption DEF InFlightInv, InFlightBounded

\* plan() adds a request only where a slot is free.
LEMMA InFlightStep == InFlightInv /\ [Next]_vars => InFlightInv'
<1> SUFFICES ASSUME InFlightInv, [Next]_vars PROVE InFlightInv'
  OBVIOUS
<1>1. \A a \in Addr : IsFiniteSet(InFlight(a)) /\ Cardinality(InFlight(a)) \in Nat
  BY FS_Subset, FS_CardinalityType DEF InFlightInv, InFlight
<1>2. CASE assigned' \subseteq assigned
  <2>1. IsFiniteSet(assigned')
    BY <1>2, FS_Subset DEF InFlightInv
  <2>2. ASSUME NEW a \in Addr PROVE Cardinality(InFlight(a)') <= MaxInFlightPerPeer
    <3>1. InFlight(a)' \subseteq InFlight(a)
      BY <1>2 DEF InFlight
    <3>2. Cardinality(InFlight(a)') <= Cardinality(InFlight(a)) /\ Cardinality(InFlight(a)') \in Nat
      BY <1>1, <3>1, FS_Subset, FS_CardinalityType
    <3> QED
      BY <1>1, <3>2, AssignmentAssumption DEF InFlightInv, InFlightBounded
  <2> QED
    BY <2>1, <2>2 DEF InFlightInv, InFlightBounded
<1>3. ASSUME NEW b \in NextBlocks, NEW a \in byPiece[b.piece], Pick(b, a) PROVE InFlightInv'
  <2> DEFINE new == [block |-> b, addr |-> a]
  <2>1. assigned' = assigned \cup {new} /\ FreeSlots(a) > 0
    BY <1>3 DEF Pick, Assign, CanAsk
  <2>2. IsFiniteSet(assigned')
    BY <2>1, FS_AddElement DEF InFlightInv
  <2>3. ASSUME NEW c \in Addr PROVE Cardinality(InFlight(c)') <= MaxInFlightPerPeer
    <3>1. CASE c = a
      <4>1. InFlight(a)' = InFlight(a) \cup {new}
        BY <2>1 DEF InFlight
      <4>2. Cardinality(InFlight(a)) < MaxInFlightPerPeer
        BY <2>1 DEF FreeSlots
      <4>3. /\ Cardinality(InFlight(a)') <= Cardinality(InFlight(a)) + 1
            /\ Cardinality(InFlight(a)') \in Nat
            /\ Cardinality(InFlight(a)) \in Nat
        BY <1>1, <3>1, <4>1, CountOneMore
      <4> QED
        BY <3>1, <4>2, <4>3, AssignmentAssumption
    <3>2. CASE c # a
      <4>1. InFlight(c)' = InFlight(c)
        BY <2>1, <3>2 DEF InFlight
      <4> QED
        BY <4>1 DEF InFlightInv, InFlightBounded
    <3> QED
      BY <3>1, <3>2
  <2> QED
    BY <2>2, <2>3 DEF InFlightInv, InFlightBounded
<1> QED
  BY <1>2, <1>3, RequestFootprint DEF AcceptConnection, PeerDisconnected, ReleasePeers

\* MAX_IN_FLIGHT_PER_PEER bounds the requests of every peer, choked or not.
THEOREM InFlightLimit == Spec => []InFlightBounded
<1>1. InFlightInv => InFlightBounded
  BY DEF InFlightInv
<1> QED
  BY <1>1, InFlightInit, InFlightStep, PTL DEF Spec

-----------------------------------------------------------------------------
\* Pieces

\* Indices of the blocks that are here, of a piece or of a list of blocks.
Present(p, blocks) == {i \in BlockIndices(p) : blocks[i] # "Missing"}

\* The blocks that are here are finitely many, at most those of the piece.
LEMMA PresentCount ==
  ASSUME NEW p \in Piece, NEW blocks
  PROVE  /\ IsFiniteSet(Present(p, blocks))
         /\ Cardinality(Present(p, blocks)) \in 0 .. NumBlocks(p)
         /\ Cardinality(Present(p, blocks)) = NumBlocks(p) => Present(p, blocks) = BlockIndices(p)
<1>1. NumBlocks(p) \in Nat
  BY NumBlocksBounds
<1>2. IsFiniteSet(BlockIndices(p)) /\ Cardinality(BlockIndices(p)) = NumBlocks(p)
  BY <1>1, FS_Interval DEF BlockIndices
<1>3. Present(p, blocks) \subseteq BlockIndices(p)
  BY DEF Present
<1> QED
  BY <1>1, <1>2, <1>3, FS_Subset, FS_CardinalityType

\* The invariant of Piece: the counter counts, and a full piece has a verdict.
Counts(p, piece) ==
  \/ piece = Complete
  \/ /\ piece.state = "Partial"
     /\ piece.received = Cardinality(Present(p, piece.blocks))
     /\ piece.received < NumBlocks(p)

\* Settle leaves a counter that counts, and no full piece without a verdict.
LEMMA SettleCounts ==
  ASSUME NEW p \in Piece, NEW blocks
  PROVE  Counts(p, Settle(p, blocks, Cardinality(Present(p, blocks))))
<1> DEFINE n == Cardinality(Present(p, blocks))
<1>1. n \in 0 .. NumBlocks(p) /\ NumBlocks(p) \in Nat \ {0}
  BY PresentCount, NumBlocksBounds
<1>2. CASE n # NumBlocks(p)
  BY <1>1, <1>2 DEF Settle, Counts
<1>3. CASE n = NumBlocks(p) /\ Settle(p, blocks, n) # Complete
  <2>1. Settle(p, blocks, n) = Blank(p)
    BY <1>3 DEF Settle
  <2>2. Present(p, Blank(p).blocks) = {}
    BY DEF Blank, Present
  <2> QED
    BY <1>1, <2>1, <2>2, FS_EmptySet DEF Counts, Blank
<1> QED
  BY <1>2, <1>3 DEF Counts

\* A block that is taken is one more block that is here.
LEMMA TakenBlock ==
  ASSUME PiecesOK, NEW m \in Messages, m.type = "Piece", Takes(m.range),
         Counts(m.range.piece, pieces[m.range.piece])
  PROVE  LET p      == m.range.piece
             i      == BlockIndex(m.range)
             blocks == [pieces[p].blocks EXCEPT ![i] = m.data]
         IN  /\ p \in Piece /\ i \in BlockIndices(p)
             /\ pieces[p].state = "Partial"
             /\ pieces[p].blocks \in [BlockIndices(p) -> BlockState]
             /\ blocks \in [BlockIndices(p) -> BlockState]
             /\ m.data # "Missing"
             /\ Cardinality(Present(p, blocks)) = pieces[p].received + 1
             /\ PieceAfter(m.range, m.data) = Settle(p, blocks, Cardinality(Present(p, blocks)))
<1> DEFINE p      == m.range.piece
           i      == BlockIndex(m.range)
           old    == pieces[p].blocks
           blocks == [old EXCEPT ![i] = m.data]
<1>1. p \in Piece /\ i \in BlockIndices(p) /\ m.data \in BlockState /\ m.data # "Missing"
  BY MessageFields DEF Takes, BlockState, Content
<1>2. /\ pieces[p].state = "Partial"
      /\ old \in [BlockIndices(p) -> BlockState]
      /\ old[i] = "Missing"
      /\ pieces[p].received = Cardinality(Present(p, old))
  BY <1>1 DEF Takes, IsComplete, PiecesOK, PieceState, Complete, Counts
<1>3. blocks \in [BlockIndices(p) -> BlockState] /\ Present(p, blocks) = Present(p, old) \cup {i}
  BY <1>1, <1>2 DEF Present
<1>4. i \notin Present(p, old) /\ IsFiniteSet(Present(p, old))
  BY <1>1, <1>2, PresentCount DEF Present
<1>5. Cardinality(Present(p, blocks)) = pieces[p].received + 1
  BY <1>2, <1>3, <1>4, FS_AddElement
<1>6. PieceAfter(m.range, m.data) = Settle(p, blocks, Cardinality(Present(p, blocks)))
  BY <1>5 DEF PieceAfter
<1> QED
  BY <1>1, <1>2, <1>3, <1>5, <1>6

\* What receiving a block makes of the counts.
LEMMA ReceiveCounts ==
  ASSUME PiecesOK, NEW m \in Messages, m.type = "Piece", Takes(m.range),
         Counts(m.range.piece, pieces[m.range.piece])
  PROVE  /\ m.range.piece \in Piece
         /\ PieceAfter(m.range, m.data) \in PieceState(m.range.piece)
         /\ Counts(m.range.piece, PieceAfter(m.range, m.data))
<1> DEFINE p      == m.range.piece
           blocks == [pieces[p].blocks EXCEPT ![BlockIndex(m.range)] = m.data]
<1>1. /\ p \in Piece
      /\ blocks \in [BlockIndices(p) -> BlockState]
      /\ PieceAfter(m.range, m.data) = Settle(p, blocks, Cardinality(Present(p, blocks)))
  BY TakenBlock
<1>2. Cardinality(Present(p, blocks)) \in Nat
  BY <1>1, PresentCount
<1> QED
  BY <1>1, <1>2, SettleType, SettleCounts

\* What the bytes found on disk make of the counts.
LEMMA PrefixCounts ==
  ASSUME NEW p \in Piece, NEW data \in Seq(Content), Len(data) <= NumBlocks(p)
  PROVE  LET blocks == [i \in BlockIndices(p) |-> IF i < Len(data) THEN data[i + 1] ELSE "Missing"]
         IN  Counts(p, Settle(p, blocks, Len(data)))
<1> DEFINE blocks == [i \in BlockIndices(p) |-> IF i < Len(data) THEN data[i + 1] ELSE "Missing"]
<1>1. Len(data) \in Nat /\ NumBlocks(p) \in Nat /\ \A i \in BlockIndices(p) : i \in Nat
  BY NumBlocksBounds DEF BlockIndices
<1>2. \A i \in BlockIndices(p) : i < Len(data) => data[i + 1] \in Content
  BY <1>1
<1>3. Present(p, blocks) = 0 .. Len(data) - 1
  BY <1>1, <1>2 DEF Present, BlockIndices, Content
<1>4. Cardinality(Present(p, blocks)) = Len(data)
  BY <1>1, <1>3, CountInterval
<1> QED
  BY <1>4, SettleCounts

\* Pieces that restoring has not reached are blank.
PieceInv ==
  /\ \A p \in Piece : Counts(p, pieces[p])
  /\ BitfieldIsExact
  /\ \A p \in Piece : p >= restored => pieces[p] = Blank(p)

\* Nothing has been received initially.
LEMMA PieceInvInit == Init => PieceInv
<1> SUFFICES ASSUME Init PROVE PieceInv
  OBVIOUS
<1>1. ASSUME NEW p \in Piece PROVE pieces[p] = Blank(p) /\ Counts(p, Blank(p))
  <2>1. Present(p, Blank(p).blocks) = {}
    BY DEF Blank, Present
  <2>2. Cardinality(Present(p, Blank(p).blocks)) = 0
    BY <2>1, FS_EmptySet
  <2>3. Counts(p, Blank(p))
    BY <2>2, NumBlocksBounds DEF Counts, Blank
  <2> QED
    BY <2>3 DEF Init, PiecesInit
<1>2. BitfieldIsExact
  BY <1>1 DEF Init, PiecesInit, BitfieldIsExact, IsComplete, Blank
<1> QED
  BY <1>1, <1>2 DEF PieceInv

\* Restoring and receiving keep the invariant of every piece.
LEMMA PieceInvStep == TypeInv /\ PieceInv /\ [Next]_vars => PieceInv'
<1> SUFFICES ASSUME TypeInv, PieceInv, [Next]_vars PROVE PieceInv'
  OBVIOUS
<1>1. PiecesOK /\ restored \in 0 .. NumPieces /\ NumPieces \in Nat
  BY TorrentAssumption DEF TypeInv, TypeOK, GeometryAssumption
<1>2. CASE UNCHANGED <<pieceVars, restored>>
  BY <1>2 DEF PieceInv, pieceVars, BitfieldIsExact, IsComplete
<1>3. ASSUME NEW data \in LocalContents, LocalPiece(data) PROVE PieceInv'
  <2> DEFINE p      == restored
             blocks == [i \in BlockIndices(p) |-> IF i < Len(data) THEN data[i + 1] ELSE "Missing"]
             after  == Settle(p, blocks, Len(data))
  <2>1. p \in Piece /\ data \in Seq(Content) /\ Len(data) <= NumBlocks(p) /\ restored' = p + 1
    BY <1>1, <1>3, SwarmAssumption DEF LocalPiece, Piece
  <2>2. Counts(p, after)
    BY <2>1, PrefixCounts
  <2>3. /\ pieces' = [pieces EXCEPT ![p] = after]
        /\ bitfield' = IF after = Complete THEN bitfield \cup {p} ELSE bitfield
    BY <1>3 DEF LocalPiece, ReceivePrefix
  <2>4. pieces[p].state # "Complete" /\ (after.state = "Complete" <=> after = Complete)
    BY <1>1, <2>1 DEF PieceInv, Blank, Settle, Complete
  <2> HIDE DEF after
  <2>5. BitfieldIsExact'
    BY <1>1, <2>1, <2>3, <2>4 DEF PieceInv, BitfieldIsExact, IsComplete, PiecesOK
  <2>6. \A q \in Piece : Counts(q, pieces'[q])
    BY <1>1, <2>1, <2>2, <2>3 DEF PieceInv, PiecesOK
  <2>7. \A q \in Piece : q >= restored' => pieces'[q] = Blank(q)
    BY <1>1, <2>1, <2>3 DEF PieceInv, PiecesOK, Piece
  <2> QED
    BY <2>5, <2>6, <2>7 DEF PieceInv
<1>4. ASSUME NEW m \in Messages, m.type = "Piece", ReceiveBlock(m.range, m.data),
             restored = NumPieces, UNCHANGED restored
      PROVE  PieceInv'
  <2>1. CASE ~Takes(m.range)
    BY <1>4, <2>1 DEF ReceiveBlock, Completes, PieceInv, BitfieldIsExact, IsComplete
  <2>2. CASE Takes(m.range)
    <3> DEFINE p     == m.range.piece
               after == PieceAfter(m.range, m.data)
    <3>1. p \in Piece /\ after \in PieceState(p) /\ Counts(p, after)
      BY <1>1, <1>4, <2>2, ReceiveCounts DEF PieceInv, Takes
    <3>2. /\ pieces' = [pieces EXCEPT ![p] = after]
          /\ bitfield' = IF after = Complete THEN bitfield \cup {p} ELSE bitfield
      BY <1>4, <2>2 DEF ReceiveBlock, Completes
    <3>3. pieces[p].state # "Complete" /\ (after.state = "Complete" <=> after = Complete)
      BY <2>2, <3>1 DEF Takes, IsComplete, PieceState, Complete
    <3> HIDE DEF after
    <3>4. BitfieldIsExact'
      BY <1>1, <3>1, <3>2, <3>3 DEF PieceInv, BitfieldIsExact, IsComplete, PiecesOK
    <3>5. \A q \in Piece : Counts(q, pieces'[q])
      BY <1>1, <3>1, <3>2 DEF PieceInv, PiecesOK
    <3>6. \A q \in Piece : ~(q >= restored')
      BY <1>1, <1>4 DEF Piece
    <3> QED
      BY <3>4, <3>5, <3>6 DEF PieceInv
  <2> QED
    BY <2>1, <2>2
<1> QED
  BY <1>2, <1>3, <1>4, PieceFootprint

\* The counter that triggers the hash check counts the blocks that are here.
THEOREM NothingStuck == Spec => []NoPieceStuck
<1>1. PieceInv => NoPieceStuck
  BY DEF PieceInv, Counts, Present, NoPieceStuck, NeededPieces, IsComplete, Complete
<1> QED
  BY <1>1, TypeInvInit, TypeInvStep, PieceInvInit, PieceInvStep, PTL DEF Spec

\* We announce a piece exactly when it is complete.
THEOREM ExactBitfield == Spec => []BitfieldIsExact
<1>1. PieceInv => BitfieldIsExact
  BY DEF PieceInv
<1> QED
  BY <1>1, TypeInvInit, TypeInvStep, PieceInvInit, PieceInvStep, PTL DEF Spec

\* A step that is no answer to a request stores and announces nothing.
StoresNothing ==
  \A o \in out' : /\ o.kind \notin {"WritePiece", "Completed"}
                  /\ o.kind = "Broadcast" => o.message.type # "Have"

\* Only a piece message makes the swarm store and announce.
LEMMA OnlyPiecesStore ==
  ASSUME Next, \A a \in Addr, m \in Messages : ~OnPiece(a, m)
  PROVE  StoresNothing
<1> USE DEF StoresNothing, Send, Bare, DisconnectPeer, ConnectPeer, CancelUploadRead, Cancelled,
            Dial, Reply, Interested, ReadForUpload, Request, PieceData
<1>1. ASSUME NEW data \in LocalContents, LocalPiece(data) PROVE StoresNothing
  BY <1>1 DEF LocalPiece
<1>2. ASSUME NEW c \in Connections, PeerConnected(c) PROVE StoresNothing
  BY <1>2 DEF PeerConnected, RejectConnection, AcceptConnection
<1>3. ASSUME NEW a \in Addr, PeerDisconnected(a) PROVE StoresNothing
  BY <1>3 DEF PeerDisconnected
<1>4. ASSUME NEW addrs \in Discoveries, PeersDiscovered(addrs) PROVE StoresNothing
  BY <1>4 DEF PeersDiscovered
<1>5. ASSUME NEW a \in Addr, NEW m \in Messages, MessageReceived(a, m) PROVE StoresNothing
  <2>1. CASE OnRequest(a, m) \/ OnCancel(a, m)
    BY <2>1 DEF OnRequest, OnCancel
  <2>2. CASE \/ RejectMessage(a, m) \/ OnAvailability(a, m) \/ OnAllowedFast(a, m)
             \/ OnChoke(a, m) \/ OnUnchoke(a, m) \/ OnInterested(a, m)
             \/ OnRejectRequest(a, m) \/ OnQuiet(a, m)
    BY <2>2 DEF RejectMessage, OnAvailability, OnAllowedFast, OnChoke, OnUnchoke,
         OnInterested, OnRejectRequest, OnQuiet
  <2>3. CASE OnMetadataRequest(a, m) \/ OnPex(a, m)
    BY <2>3 DEF OnMetadataRequest, OnPex
  <2> QED
    BY <1>5, <2>1, <2>2, <2>3 DEF MessageReceived
<1>6. ASSUME NEW r \in UploadRanges, NEW id \in 0 .. MaxReads - 1, UploadReadCompleted(id, r)
      PROVE  StoresNothing
  BY <1>6 DEF UploadReadCompleted
<1>7. ASSUME NEW s \in Statuses, SetStatus(s) PROVE StoresNothing
  BY <1>7 DEF SetStatus
<1>8. CASE TickBlock \/ PlanPick
  BY <1>8 DEF TickBlock, PlanPick
<1>9. CASE TickPex
  BY <1>9 DEF TickPex
<1> QED
  BY <1>1, <1>2, <1>3, <1>4, <1>5, <1>6, <1>7, <1>8, <1>9 DEF Next

\* The outputs that tell of a completed piece, and when they are due.
StoredInStep ==
  restored = NumPieces =>
    /\ \A p \in Piece :
         LET completed == ~IsComplete(p) /\ IsComplete(p)'
         IN  /\ (WritePiece(p) \in out') <=> completed
             /\ (Broadcast(Have(p)) \in out') <=> completed
    /\ (DownloadCompleted \in out') <=> (~AllComplete /\ AllComplete')

\* A piece is stored and announced in the step that completes it, and in no other.
THEOREM StoredOnce == Spec => StoredWhenComplete
<1>1. ASSUME PiecesOK, PieceInv, Next PROVE StoredInStep
  <2> SUFFICES ASSUME restored = NumPieces
               PROVE  /\ \A p \in Piece :
                           /\ (WritePiece(p) \in out') <=> ~IsComplete(p) /\ IsComplete(p)'
                           /\ (Broadcast(Have(p)) \in out') <=> ~IsComplete(p) /\ IsComplete(p)'
                      /\ (DownloadCompleted \in out') <=> (~AllComplete /\ AllComplete')
    BY DEF StoredInStep
  <2> USE DEF WritePiece, Broadcast, Have, DownloadCompleted, DisconnectPeer
  <2>1. CASE StoresNothing /\ UNCHANGED pieces
    <3>1. \A p \in Piece : IsComplete(p)' <=> IsComplete(p)
      BY <2>1 DEF IsComplete
    <3>2. AllComplete' <=> AllComplete
      BY <3>1 DEF AllComplete
    <3> QED
      BY <2>1, <3>1, <3>2 DEF StoresNothing
  <2>2. ASSUME NEW a \in Addr, NEW m \in Messages, OnPiece(a, m), Completes(m.range, m.data),
               IsHolder(m.range, a)
        PROVE  StoredInStep
    <3> DEFINE q == m.range.piece
    <3>1. q \in Piece /\ ~IsComplete(q) /\ pieces' = [pieces EXCEPT ![q] = Complete]
      BY <2>2 DEF OnPiece, ReceiveBlock, Completes, Takes
    <3>2. \A p \in Piece : IsComplete(p)' <=> IsComplete(p) \/ p = q
      BY <1>1, <3>1 DEF IsComplete, PiecesOK, Complete
    <3>3. out' = Announce(q)
      BY <2>2 DEF OnPiece
    <3>4. ~AllComplete
      BY <3>1 DEF AllComplete
    <3> QED
      BY <3>1, <3>2, <3>3, <3>4 DEF Announce, StoredInStep
  <2>3. ASSUME NEW a \in Addr, NEW m \in Messages, OnPiece(a, m),
               ~(IsHolder(m.range, a) /\ Completes(m.range, m.data))
        PROVE  StoredInStep
    <3>1. out' = {}
      BY <2>3 DEF OnPiece
    <3>2. \A p \in Piece : IsComplete(p)' <=> IsComplete(p)
      <4>1. CASE pieces' = pieces
        BY <4>1 DEF IsComplete
      <4>2. CASE Takes(m.range) /\ ReceiveBlock(m.range, m.data) /\ IsHolder(m.range, a)
        <5> DEFINE after == PieceAfter(m.range, m.data)
        <5>1. /\ m.range.piece \in Piece /\ ~IsComplete(m.range.piece)
              /\ pieces' = [pieces EXCEPT ![m.range.piece] = after]
              /\ after # Complete
          BY <2>3, <4>2 DEF Takes, ReceiveBlock, Completes
        <5>2. after \in PieceState(m.range.piece)
          BY <1>1, <2>3, <4>2, ReceiveCounts DEF PieceInv, Takes, OnPiece, Receive
        <5>3. after.state # "Complete"
          BY <5>1, <5>2 DEF PieceState, Complete
        <5> HIDE DEF after
        <5> QED
          BY <1>1, <5>1, <5>3 DEF IsComplete, PiecesOK
      <4> QED
        BY <2>3, <4>1, <4>2 DEF OnPiece, ReceiveBlock, pieceVars
    <3>3. AllComplete' <=> AllComplete
      BY <3>2 DEF AllComplete
    <3> QED
      BY <3>1, <3>2, <3>3 DEF StoredInStep
  <2>4. CASE \A a \in Addr, m \in Messages : ~OnPiece(a, m)
    <3>1. StoresNothing
      BY <1>1, <2>4, OnlyPiecesStore
    <3>2. UNCHANGED pieces
      BY <1>1, <2>4, PieceFootprint, TorrentAssumption DEF LocalPiece, pieceVars, GeometryAssumption
    <3> QED
      BY <2>1, <3>1, <3>2
  <2> QED
    BY <2>2, <2>3, <2>4 DEF StoredInStep
<1>2. TypeInv /\ PieceInv /\ [Next]_vars => [StoredInStep]_vars
  BY <1>1 DEF TypeInv, TypeOK
<1> QED
  BY <1>2, TypeInvInit, TypeInvStep, PieceInvInit, PieceInvStep, PTL
     DEF Spec, StoredWhenComplete, StoredInStep

\* What a step may make piece p forget.
ForgetsOnlyWrong(p) ==
  /\ IsComplete(p) => IsComplete(p)'
  /\ ~IsComplete(p) /\ ~IsComplete(p)' =>
       \A i \in BlockIndices(p) :
         pieces[p].blocks[i] # "Missing" /\ pieces'[p].blocks[i] = "Missing"
           => \E a \in Addr, m \in Messages : OnPiece(a, m) /\ MakesWrong(p, m)

\* A block is forgotten only with all the others of its piece, when the last of
\* them shows that one is wrong.
THEOREM MismatchForgets == Spec => OnlyMismatchForgets
<1>1. ASSUME TypeInv, PieceInv, Next, NEW p \in Piece PROVE ForgetsOnlyWrong(p)
  <2>0. PiecesOK /\ restored \in 0 .. NumPieces /\ NumPieces \in Nat
    BY <1>1, TorrentAssumption DEF TypeInv, TypeOK, GeometryAssumption
  <2>1. CASE UNCHANGED pieces
    BY <2>1 DEF ForgetsOnlyWrong, IsComplete
  <2>2. ASSUME NEW data \in LocalContents, LocalPiece(data) PROVE ForgetsOnlyWrong(p)
    <3>1. restored \in Piece /\ pieces[restored] = Blank(restored)
      BY <1>1, <2>0, <2>2 DEF LocalPiece, Piece, PieceInv
    <3>2. \A q \in Piece : q # restored => pieces'[q] = pieces[q]
      BY <2>0, <2>2, <3>1 DEF LocalPiece, ReceivePrefix, PiecesOK
    <3> QED
      BY <3>1, <3>2 DEF ForgetsOnlyWrong, IsComplete, Blank
  <2>3. ASSUME NEW a \in Addr, NEW m \in Messages, OnPiece(a, m), m.type = "Piece",
               ReceiveBlock(m.range, m.data), Takes(m.range)
        PROVE  ForgetsOnlyWrong(p)
    <3> DEFINE q      == m.range.piece
               j      == BlockIndex(m.range)
               blocks == [pieces[q].blocks EXCEPT ![j] = m.data]
               after  == PieceAfter(m.range, m.data)
    <3>1. q \in Piece /\ ~IsComplete(q) /\ pieces' = [pieces EXCEPT ![q] = after]
      BY <2>3 DEF Takes, ReceiveBlock
    <3>2. Counts(q, pieces[q])
      BY <1>1, <3>1 DEF PieceInv
    <3>3. /\ j \in BlockIndices(q)
          /\ blocks \in [BlockIndices(q) -> BlockState]
          /\ pieces[q].blocks \in [BlockIndices(q) -> BlockState]
          /\ m.data # "Missing"
          /\ after = Settle(q, blocks, Cardinality(Present(q, blocks)))
      BY <2>0, <2>3, <3>2, TakenBlock
    <3>4. CASE p # q
      BY <2>0, <3>1, <3>4 DEF ForgetsOnlyWrong, IsComplete, PiecesOK
    <3>5. CASE p = q
      <4> SUFFICES ASSUME ~IsComplete(p)', NEW i \in BlockIndices(p),
                          pieces[p].blocks[i] # "Missing", pieces'[p].blocks[i] = "Missing"
                   PROVE  MakesWrong(p, m)
        BY <2>3, <3>1, <3>5 DEF ForgetsOnlyWrong
      <4>1. pieces'[p] = after
        BY <2>0, <3>1, <3>5 DEF PiecesOK
      <4>2. blocks[i] # "Missing"
        BY <3>3, <3>5
      <4>3. Cardinality(Present(q, blocks)) = NumBlocks(q) /\ after # Complete
        <5> DEFINE received == Cardinality(Present(q, blocks))
        <5>1. after.state # "Complete" /\ after.blocks[i] = "Missing"
          <6> HIDE DEF after, q
          <6>1. pieces'[p].state # "Complete" /\ pieces'[p].blocks[i] = "Missing"
            BY DEF IsComplete
          <6> QED
            BY <4>1, <6>1, Zenon
        <5>2. after # Complete
          <6>1. Complete.state = "Complete"
            BY DEF Complete
          <6> HIDE DEF after
          <6> QED
            BY <5>1, <6>1, Zenon
        <5>3. after = Settle(q, blocks, received)
          BY <3>3, Zenon
        <5>4. CASE received # NumBlocks(q)
          <6> HIDE DEF after, blocks, received
          <6>1. after = [state |-> "Partial", blocks |-> blocks, received |-> received]
            BY <5>3, <5>4, Zenon DEF Settle
          <6>2. after.blocks = blocks
            BY <6>1
          <6> QED
            BY <4>2, <5>1, <6>2, Zenon
        <5> QED
          BY <5>2, <5>4, Zenon
      <4>4. \A k \in BlockIndices(q) : blocks[k] # "Missing"
        <5> HIDE DEF blocks
        <5>1. Present(q, blocks) = BlockIndices(q)
          BY <3>1, <4>3, PresentCount
        <5> QED
          BY <5>1 DEF Present
      <4>5. \E k \in BlockIndices(q) : blocks[k] # "good"
        BY <3>3, <4>3 DEF Settle
      <4>6. \E k \in BlockIndices(q) : blocks[k] = "bad"
        BY <3>3, <4>4, <4>5 DEF BlockState, Content
      <4> QED
        BY <3>5, <4>4, <4>6 DEF MakesWrong
    <3> QED
      BY <3>4, <3>5
  <2>4. ASSUME NEW m \in Messages, ReceiveBlock(m.range, m.data), ~Takes(m.range)
        PROVE  UNCHANGED pieces
    BY <2>4 DEF ReceiveBlock
  <2> QED
    BY <1>1, <2>1, <2>2, <2>3, <2>4, PieceFootprint DEF pieceVars
<1>2. TypeInv /\ PieceInv /\ [Next]_vars => [\A p \in Piece : ForgetsOnlyWrong(p)]_vars
  BY <1>1
<1> QED
  BY <1>2, TypeInvInit, TypeInvStep, PieceInvInit, PieceInvStep, PTL
     DEF Spec, OnlyMismatchForgets, ForgetsOnlyWrong

-----------------------------------------------------------------------------
\* The scheduler

\* Each request in flight for a block has a holder of its own, and only so many
\* peers have unchoked us.
LEMMA HoldersFit ==
  ASSUME TypeInv, HoldersUnchoked, NEW b, NEW a \in Unchoked, ~IsHolder(b, a)
  PROVE  HolderCount(b) <= MaxDepth
<1> DEFINE held    == {x \in assigned : x.block = b}
           holders == {x.addr : x \in held}
<1>1. IsFiniteSet(Unchoked)
  BY MessageAssumption, FS_Subset DEF TypeInv, TypeOK, RegistryOK, Unchoked
<1>2. holders \subseteq Unchoked
  BY DEF HoldersUnchoked
<1>3. IsFiniteSet(holders) /\ Cardinality(holders) <= Cardinality(Unchoked)
  BY <1>1, <1>2, FS_Subset
<1>4. \A x, y \in held : x.addr = y.addr => x = y
  BY DEF TypeInv, TypeOK, AssignmentsOK, Assignment
<1>5. ExistsBijection(holders, held)
  <2> DEFINE f == [h \in holders |-> CHOOSE x \in held : x.addr = h]
  <2>1. \A h \in holders : f[h] \in held /\ f[h].addr = h
    OBVIOUS
  <2>2. f \in Bijection(holders, held)
    <3>1. f \in Injection(holders, held)
      BY <2>1 DEF Injection, IsInjective
    <3>2. f \in Surjection(holders, held)
      <4>1. f \in [holders -> held]
        BY <2>1
      <4>2. \A x \in held : x.addr \in holders /\ f[x.addr] = x
        BY <1>4, <2>1
      <4> HIDE DEF f, held, holders
      <4> QED
        BY <4>1, <4>2 DEF Surjection
    <3> QED
      BY <3>1, <3>2 DEF Bijection
  <2> QED
    BY <2>2 DEF ExistsBijection
<1>6. Cardinality(held) = Cardinality(holders)
  BY <1>3, <1>5, FS_Bijection
<1> QED
  BY <1>3, <1>6 DEF HolderCount, MaxDepth

\* Slots are numbers up to the limit, and a peer's free ones are the first of them.
LEMMA FreeSlotsRange ==
  ASSUME IsFiniteSet(assigned), NEW a
  PROVE  FreeSlots(a) \in 0 .. MaxInFlightPerPeer
<1>1. Cardinality(InFlight(a)) \in Nat
  BY FS_Subset, FS_CardinalityType DEF InFlight
<1> QED
  BY <1>1, AssignmentAssumption DEF FreeSlots

\* A willing peer that is idle has a slot, and a block that plan() would ask for.
LEMMA IdleServerPlanned ==
  ASSUME TypeInv, InFlightInv, HoldersUnchoked, Downloads, IdleServer
  PROVE  PlanBudget # 0
<1>1. PICK a \in Unchoked, b \in WantedBlocks :
        FreeSlots(a) > 0 /\ a \in byPiece[b.piece] /\ ~IsHolder(b, a)
  BY DEF IdleServer
<1>2. a \in Addr /\ CanAsk(b, a)
  BY <1>1 DEF TypeInv, TypeOK, RegistryOK, Unchoked, CanAsk, CanServe, Known
<1>3. b \in Plannable
  BY <1>1, <1>2, HoldersFit DEF Plannable
<1>4. FreeSlots(a) \in 0 .. MaxInFlightPerPeer
  BY FreeSlotsRange DEF InFlightInv
<1>5. <<a, 1>> \in OpenSlots
  BY <1>1, <1>4, AssignmentAssumption DEF OpenSlots
<1>6. Cardinality(OpenSlots) # 0
  BY <1>5, SlotsFinite, FS_EmptySet DEF TypeInv, TypeOK
<1> QED
  BY <1>3, <1>6 DEF PlanBudget

\* When no choked peer holds a block, plan() leaves no willing peer idle.
THEOREM TickFinds == Spec => []TickFindsWork
<1>1. TypeInv /\ InFlightInv => TickFindsWork
  BY IdleServerPlanned DEF TickFindsWork
<1> QED
  BY <1>1, TypeInvInit, TypeInvStep, InFlightInit, InFlightStep, PTL DEF Spec

\* While plan() runs, and unless a choked peer has used a slot up, its budget is
\* the number of slots that are left.
BudgetIsSlots == HoldersUnchoked => budget = 0 \/ budget = Cardinality(OpenSlots)

\* A request to an unchoked peer takes one slot.
LEMMA PickTakesSlot ==
  ASSUME TypeInv, InFlightInv, NEW b, NEW a, Pick(b, a), HoldersUnchoked'
  PROVE  /\ HoldersUnchoked
         /\ Cardinality(OpenSlots)' = Cardinality(OpenSlots) - 1
<1> DEFINE new == [block |-> b, addr |-> a]
<1>1. /\ assigned' = assigned \cup {new} /\ new \notin assigned
      /\ UNCHANGED peers
      /\ FreeSlots(a) > 0
  BY DEF Pick, Assign, CanAsk, IsHolder, registryVars
<1>2. HoldersUnchoked /\ a \in Unchoked /\ Unchoked' = Unchoked
  BY <1>1 DEF HoldersUnchoked, Unchoked
<1>3. IsFiniteSet(assigned)
  BY DEF InFlightInv
<1>4. FreeSlots(a)' = FreeSlots(a) - 1
  <2>1. InFlight(a)' = InFlight(a) \cup {new} /\ new \notin InFlight(a)
    BY <1>1 DEF InFlight
  <2>2. IsFiniteSet(InFlight(a))
    BY <1>3, FS_Subset DEF InFlight
  <2>3. /\ Cardinality(InFlight(a)') = Cardinality(InFlight(a)) + 1
        /\ Cardinality(InFlight(a)) \in Nat
    BY <2>1, <2>2, FS_AddElement, FS_CardinalityType
  <2> QED
    BY <1>1, <2>3, AssignmentAssumption DEF FreeSlots
<1>5. ASSUME NEW c, c # a PROVE FreeSlots(c)' = FreeSlots(c)
  <2>1. InFlight(c)' = InFlight(c)
    BY <1>1, <1>5 DEF InFlight
  <2> QED
    BY <2>1 DEF FreeSlots
<1> DEFINE slot == <<a, FreeSlots(a)>>
<1>6. \A c : FreeSlots(c) \in 0 .. MaxInFlightPerPeer
  BY <1>3, FreeSlotsRange
<1>7. slot \in OpenSlots /\ OpenSlots' = OpenSlots \ {slot}
  <2>1. slot \in OpenSlots
    BY <1>1, <1>2, <1>6, AssignmentAssumption DEF OpenSlots
  <2>2. ASSUME NEW c \in Unchoked, NEW n \in 1 .. MaxInFlightPerPeer
        PROVE  n <= FreeSlots(c)' <=> n <= FreeSlots(c) /\ <<c, n>> # slot
    <3>1. CASE c = a
      BY <1>4, <1>6, <3>1
    <3>2. CASE c # a
      BY <1>5, <3>2
    <3> QED
      BY <3>1, <3>2
  <2> QED
    BY <1>2, <2>1, <2>2 DEF OpenSlots
<1>8. IsFiniteSet(OpenSlots)
  BY SlotsFinite DEF TypeInv, TypeOK
<1> QED
  BY <1>2, <1>7, <1>8, FS_RemoveElement

\* plan() spends a slot with every request.
LEMMA BudgetIsSlotsStep ==
  TypeInv /\ InFlightInv /\ BudgetIsSlots /\ [Next]_vars => BudgetIsSlots'
<1> SUFFICES ASSUME TypeInv, InFlightInv, BudgetIsSlots, [Next]_vars, HoldersUnchoked'
             PROVE  budget' = 0 \/ budget' = Cardinality(OpenSlots)'
  BY DEF BudgetIsSlots
<1>1. CASE budget' = PlanBudget'
  BY <1>1 DEF PlanBudget
<1>2. CASE budget' \in {budget, PlanBudget} /\ UNCHANGED <<registryVars, assigned, status>>
  <2>1. HoldersUnchoked /\ OpenSlots' = OpenSlots
    BY <1>2 DEF HoldersUnchoked, OpenSlots, Unchoked, FreeSlots, InFlight, registryVars
  <2> QED
    BY <1>2, <2>1 DEF BudgetIsSlots, PlanBudget
<1>3. ASSUME NEW b \in NextBlocks, NEW a \in byPiece[b.piece], Pick(b, a)
      PROVE  budget' = 0 \/ budget' = Cardinality(OpenSlots)'
  <2>1. HoldersUnchoked /\ Cardinality(OpenSlots)' = Cardinality(OpenSlots) - 1
    BY <1>3, PickTakesSlot
  <2>2. budget > 0 /\ budget' \in {0, budget - 1}
    BY <1>3 DEF Pick
  <2> QED
    BY <2>1, <2>2 DEF BudgetIsSlots
<1> QED
  BY <1>1, <1>2, <1>3, BudgetFootprint

\* One call of plan() hands out all it can.
THEOREM PlanHandsOut == Spec => PlanExhausts
<1>1. Init => BudgetIsSlots
  BY DEF Init, BudgetIsSlots
<1>2. ASSUME TypeInv, InFlightInv, BudgetIsSlots, PlanPick, HoldersUnchoked', budget' = 0
      PROVE  PlanBudget' = 0
  <2>1. PICK b \in NextBlocks : \E a \in byPiece[b.piece] : Pick(b, a)
    BY <1>2 DEF PlanPick
  <2>2. PICK a \in byPiece[b.piece] : Pick(b, a)
    BY <2>1
  <2>3. CASE Plannable' = {}
    BY <2>3 DEF PlanBudget
  <2>4. CASE Plannable' # {}
    <3>1. HoldersUnchoked /\ Cardinality(OpenSlots)' = Cardinality(OpenSlots) - 1
      BY <1>2, <2>2, PickTakesSlot
    <3>2. budget = 1
      BY <1>2, <2>2, <2>4 DEF Pick, TypeInv, TypeOK
    <3>3. Cardinality(OpenSlots)' = 0
      BY <1>2, <3>1, <3>2 DEF BudgetIsSlots
    <3> QED
      BY <3>3 DEF PlanBudget
  <2> QED
    BY <2>3, <2>4
<1>3. TypeInv /\ InFlightInv /\ BudgetIsSlots /\ [Next]_vars =>
        [PlanPick /\ HoldersUnchoked' /\ budget' = 0 => PlanBudget' = 0]_vars
  BY <1>2
<1> QED
  BY <1>1, <1>3, TypeInvInit, TypeInvStep, InFlightInit, InFlightStep, BudgetIsSlotsStep, PTL
     DEF Spec, PlanExhausts

-----------------------------------------------------------------------------
\* Uploads

\* Once restoring is over, a complete piece stays complete.
LEMMA CompleteStays ==
  ASSUME PiecesOK, restored = NumPieces, [Next]_vars, NEW p \in Piece, IsComplete(p)
  PROVE  IsComplete(p)'
<1>1. ~(\E data \in LocalContents : LocalPiece(data))
  BY TorrentAssumption DEF LocalPiece, GeometryAssumption
<1>2. CASE UNCHANGED pieceVars
  BY <1>2 DEF pieceVars, IsComplete
<1>3. ASSUME NEW m \in Messages, ReceiveBlock(m.range, m.data) PROVE IsComplete(p)'
  BY <1>3 DEF ReceiveBlock, Takes, IsComplete, PiecesOK
<1> QED
  BY <1>1, <1>2, <1>3, PieceFootprint

\* No read is pending before restoring is over.
ReadsInv == PendingReadsAreWanted /\ (restored # NumPieces => DOMAIN pending = {})

\* Every step keeps the pending reads wanted.
LEMMA ReadsStep == TypeInv /\ ReadsInv /\ [Next]_vars => ReadsInv'
<1> SUFFICES ASSUME TypeInv, ReadsInv, [Next]_vars PROVE ReadsInv'
  OBVIOUS
<1>1. PiecesOK /\ UploadsOK /\ NumPieces \in Nat /\ restored \in 0 .. NumPieces
  BY TorrentAssumption DEF TypeInv, TypeOK, GeometryAssumption
<1>2. restored = NumPieces => restored' = NumPieces
  BY <1>1, PieceFootprint DEF LocalPiece
<1>3. ASSUME NEW r, ValidUploadRange(r), restored = NumPieces PROVE ValidUploadRange(r)'
  BY <1>1, <1>3, CompleteStays DEF ValidUploadRange
<1>4. CASE UNCHANGED <<uploadVars, status, DOMAIN peers>>
  <2>1. CASE restored = NumPieces
    BY <1>2, <1>3, <1>4, <2>1 DEF ReadsInv, PendingReadsAreWanted, uploadVars, Uploads
  <2>2. CASE restored # NumPieces
    BY <1>4, <2>2 DEF ReadsInv, PendingReadsAreWanted, uploadVars
  <2> QED
    BY <2>1, <2>2
<1>5. ASSUME NEW old, CancelUploadsOf(old), Idle, DOMAIN peers \ old \subseteq DOMAIN peers',
             UNCHANGED status
      PROVE  ReadsInv'
  <2>1. restored = NumPieces /\ restored' = NumPieces
    BY <1>2, <1>5 DEF Idle
  <2>2. /\ DOMAIN pending' = DOMAIN pending \ Orphaned(old)
        /\ \A r \in DOMAIN pending' : pending'[r].peers = pending[r].peers \ old
                                      /\ pending'[r].id = pending[r].id
        /\ nextReadId' = nextReadId
    BY <1>1, <1>5 DEF CancelUploadsOf, UploadsOK, PendingRead
  <2> QED
    BY <1>3, <1>5, <2>1, <2>2 DEF ReadsInv, PendingReadsAreWanted, Orphaned, Uploads
<1>6. ASSUME NEW c \in Connections, AcceptConnection(c) PROVE ReadsInv'
  <2>1. DOMAIN peers \ Replaced(c) \subseteq DOMAIN peers'
    BY <1>6 DEF AcceptConnection, ConnectedAfterDisconnecting, PeersWithout, Insert, Remove
  <2> QED
    BY <1>5, <1>6, <2>1 DEF AcceptConnection
<1>7. ASSUME NEW a \in Addr, PeerDisconnected(a) PROVE ReadsInv'
  <2>1. DOMAIN peers \ {a} \subseteq DOMAIN peers'
    BY <1>7 DEF PeerDisconnected, Disconnected, PeersWithout, Remove
  <2> QED
    BY <1>5, <1>7, <2>1 DEF PeerDisconnected
<1>8. ASSUME NEW a \in Addr, NEW m \in Messages, OnRequest(a, m) PROVE ReadsInv'
  <2>1. /\ restored = NumPieces /\ restored' = NumPieces
        /\ a \in DOMAIN peers /\ DOMAIN peers' = DOMAIN peers /\ status' = status
    BY <1>2, <1>8 DEF OnRequest, Receive, Idle, Apply, Known
  <2>2. CASE UNCHANGED uploadVars
    BY <1>3, <2>1, <2>2 DEF ReadsInv, PendingReadsAreWanted, uploadVars, Uploads
  <2>3. CASE m.range \in DOMAIN pending /\ ShareRead(a, m.range)
    <3>1. /\ DOMAIN pending' = DOMAIN pending
          /\ nextReadId' = nextReadId
          /\ \A r \in DOMAIN pending :
               /\ pending'[r].id = pending[r].id
               /\ pending'[r].peers \in {pending[r].peers, pending[r].peers \cup {a}}
      BY <1>1, <2>3 DEF ShareRead, UploadsOK, PendingRead
    <3> QED
      BY <1>3, <2>1, <3>1 DEF ReadsInv, PendingReadsAreWanted, Uploads
  <2>4. CASE ~Refuses(m.range) /\ m.range \notin DOMAIN pending /\ StartRead(a, m.range)
    <3>1. /\ DOMAIN pending' = DOMAIN pending \cup {m.range}
          /\ nextReadId' = nextReadId + 1 /\ nextReadId \in Nat
          /\ pending'[m.range].id = nextReadId /\ pending'[m.range].peers = {a}
          /\ \A r \in DOMAIN pending : pending'[r] = pending[r] /\ pending[r].id \in Nat
      BY <1>1, <2>4 DEF StartRead, Insert, UploadsOK, PendingRead
    <3>2. ValidUploadRange(m.range)' /\ Uploads'
      BY <1>3, <2>1, <2>4 DEF Refuses, Uploads
    <3>3. \A r \in DOMAIN pending : pending[r].id < nextReadId
      BY DEF ReadsInv, PendingReadsAreWanted
    <3>4. ASSUME NEW r \in DOMAIN pending'
          PROVE  /\ pending'[r].peers # {}
                 /\ pending'[r].peers \subseteq DOMAIN peers'
                 /\ ValidUploadRange(r)'
                 /\ Uploads'
                 /\ pending'[r].id < nextReadId'
                 /\ \A s \in DOMAIN pending' : pending'[r].id = pending'[s].id => r = s
      <4>1. CASE r = m.range
        BY <2>1, <3>1, <3>2, <3>3, <4>1
      <4>2. CASE r \in DOMAIN pending
        BY <1>3, <2>1, <3>1, <3>2, <3>3, <4>2 DEF ReadsInv, PendingReadsAreWanted
      <4> QED
        BY <3>1, <4>1, <4>2
    <3> QED
      BY <2>1, <3>4 DEF ReadsInv, PendingReadsAreWanted
  <2> QED
    BY <1>8, <2>2, <2>3, <2>4 DEF OnRequest
\* Reads disappear, or lose a peer while others wait.
<1>9. ASSUME DOMAIN pending' \subseteq DOMAIN pending,
             \A r \in DOMAIN pending' : /\ pending'[r].id = pending[r].id
                                        /\ pending'[r].peers # {}
                                        /\ pending'[r].peers \subseteq pending[r].peers,
             nextReadId' = nextReadId, restored = NumPieces, DOMAIN peers' = DOMAIN peers,
             Uploads' \/ DOMAIN pending' = {}
      PROVE  ReadsInv'
  BY <1>2, <1>3, <1>9 DEF ReadsInv, PendingReadsAreWanted
<1>10. ASSUME NEW a \in Addr, NEW m \in Messages, OnCancel(a, m) PROVE ReadsInv'
  <2>1. /\ restored = NumPieces /\ DOMAIN peers' = DOMAIN peers /\ status' = status
        /\ CancelUpload(a, m.range)
    BY <1>10 DEF OnCancel, Receive, Idle, Apply
  <2>2. DOMAIN pending' \subseteq DOMAIN pending /\ nextReadId' = nextReadId
    BY <2>1 DEF CancelUpload, Remove
  <2>3. ASSUME NEW r \in DOMAIN pending'
        PROVE  /\ pending'[r].id = pending[r].id
               /\ pending'[r].peers # {}
               /\ pending'[r].peers \subseteq pending[r].peers
    BY <1>1, <2>1, <2>2, <2>3
       DEF CancelUpload, CancelsRead, Remove, UploadsOK, PendingRead, ReadsInv, PendingReadsAreWanted
  <2>4. Uploads' \/ DOMAIN pending' = {}
    BY <2>1, <2>2 DEF Uploads, ReadsInv, PendingReadsAreWanted
  <2> QED
    BY <1>9, <2>1, <2>2, <2>3, <2>4
<1>11. ASSUME NEW r \in UploadRanges, NEW id \in 0 .. MaxReads - 1, UploadReadCompleted(id, r)
       PROVE  ReadsInv'
  <2>1. /\ restored = NumPieces /\ peers' = peers /\ status' = status /\ nextReadId' = nextReadId
        /\ DOMAIN pending' \subseteq DOMAIN pending
        /\ \A s \in DOMAIN pending' : pending'[s] = pending[s]
    BY <1>11 DEF UploadReadCompleted, Idle, registryVars, Remove
  <2>2. Uploads' \/ DOMAIN pending' = {}
    BY <2>1 DEF Uploads, ReadsInv, PendingReadsAreWanted
  <2> QED
    BY <1>9, <2>1, <2>2 DEF ReadsInv, PendingReadsAreWanted
<1>12. ASSUME NEW s \in Statuses, SetStatus(s) PROVE ReadsInv'
  <2>1. /\ restored = NumPieces /\ peers' = peers /\ nextReadId' = nextReadId
        /\ pending' = IF Uploads' THEN pending ELSE EmptyMap
    BY <1>12 DEF SetStatus, Idle, registryVars
  <2> QED
    BY <1>9, <2>1 DEF EmptyMap, ReadsInv, PendingReadsAreWanted
<1> QED
  BY <1>4, <1>6, <1>7, <1>8, <1>10, <1>11, <1>12, UploadFootprint

\* A read is pending only for connected peers, for bytes of a complete piece,
\* while uploads are on, and under an id of its own.
THEOREM ReadsWanted == Spec => []PendingReadsAreWanted
<1>1. Init => ReadsInv
  BY DEF Init, UploadsInit, ReadsInv, PendingReadsAreWanted, EmptyMap
<1>2. ReadsInv => PendingReadsAreWanted
  BY DEF ReadsInv
<1> QED
  BY <1>1, <1>2, TypeInvInit, TypeInvStep, ReadsStep, PTL DEF Spec

\* Only answered reads send data.
LEMMA OnlyReadsSend ==
  ASSUME Next, \A r \in UploadRanges, id \in 0 .. MaxReads - 1 : ~UploadReadCompleted(id, r)
  PROVE  PiecesSent' = {}
<1> SUFFICES ASSUME NEW o \in out', o.kind = "SendToPeer" PROVE o.message.type # "Piece"
  BY DEF PiecesSent
<1> USE DEF Send, Bare, DisconnectPeer, ConnectPeer, CancelUploadRead, Cancelled, Dial, Reply,
            Interested, Broadcast, WritePiece, DownloadCompleted, ReadForUpload, Request
<1>1. ASSUME NEW data \in LocalContents, LocalPiece(data) PROVE o.message.type # "Piece"
  BY <1>1 DEF LocalPiece
<1>2. ASSUME NEW c \in Connections, PeerConnected(c) PROVE o.message.type # "Piece"
  <2>1. OurPieces(c).type # "Piece"
    BY DEF OurPieces
  <2> QED
    BY <1>2, <2>1 DEF PeerConnected, RejectConnection, AcceptConnection
<1>3. ASSUME NEW a \in Addr, PeerDisconnected(a) PROVE o.message.type # "Piece"
  BY <1>3 DEF PeerDisconnected
<1>4. ASSUME NEW addrs \in Discoveries, PeersDiscovered(addrs) PROVE o.message.type # "Piece"
  BY <1>4 DEF PeersDiscovered
<1>5. ASSUME NEW a \in Addr, NEW m \in Messages, MessageReceived(a, m)
      PROVE  o.message.type # "Piece"
  <2>1. CASE OnPiece(a, m)
    BY <2>1 DEF OnPiece, Announce
  <2>2. CASE OnRequest(a, m) \/ OnCancel(a, m)
    BY <2>2 DEF OnRequest, OnCancel
  <2>3. CASE \/ RejectMessage(a, m) \/ OnAvailability(a, m) \/ OnAllowedFast(a, m)
             \/ OnChoke(a, m) \/ OnUnchoke(a, m) \/ OnInterested(a, m)
             \/ OnRejectRequest(a, m) \/ OnQuiet(a, m)
    BY <2>3 DEF RejectMessage, OnAvailability, OnAllowedFast, OnChoke, OnUnchoke,
         OnInterested, OnRejectRequest, OnQuiet
  <2>4. CASE OnMetadataRequest(a, m) \/ OnPex(a, m)
    BY <2>4 DEF OnMetadataRequest, OnPex
  <2> QED
    BY <1>5, <2>1, <2>2, <2>3, <2>4 DEF MessageReceived
<1>6. ASSUME NEW s \in Statuses, SetStatus(s) PROVE o.message.type # "Piece"
  BY <1>6 DEF SetStatus
<1>7. CASE TickBlock \/ PlanPick
  BY <1>7 DEF TickBlock, PlanPick
<1>8. CASE TickPex
  BY <1>8 DEF TickPex
<1> QED
  BY <1>1, <1>2, <1>3, <1>4, <1>5, <1>6, <1>7, <1>8 DEF Next

\* What a peer may be served is what some message may ask for, and those are
\* finitely many at any time.
PendingInv == DOMAIN pending \subseteq UploadRanges /\ IsFiniteSet(DOMAIN pending)

\* Reads are started for what was asked, one at a time.
LEMMA PendingInvStep == PendingInv /\ [Next]_vars => PendingInv'
<1> SUFFICES ASSUME PendingInv, [Next]_vars PROVE PendingInv'
  OBVIOUS
<1>1. ASSUME NEW a \in Addr, NEW m \in Messages, OnRequest(a, m) PROVE PendingInv'
  <2>1. DOMAIN pending' \subseteq DOMAIN pending \cup {m.range} /\ m.range \in UploadRanges
    BY <1>1 DEF OnRequest, Receive, ShareRead, StartRead, Insert, uploadVars, UploadRanges
  <2>2. IsFiniteSet(DOMAIN pending \cup {m.range})
    BY FS_AddElement DEF PendingInv
  <2> QED
    BY <2>1, <2>2, FS_Subset DEF PendingInv
<1>2. CASE DOMAIN pending' \subseteq DOMAIN pending
  BY <1>2, FS_Subset DEF PendingInv
<1> QED
  BY <1>1, <1>2, UploadFootprint
     DEF AcceptConnection, PeerDisconnected, CancelUploadsOf, OnCancel,
         CancelUpload, UploadReadCompleted, SetStatus, Remove, EmptyMap, uploadVars

\* The waiting peers can be counted.
LEMMA WaitingFinite == PendingInv => IsFiniteSet(Waiting) /\ Cardinality(Waiting) \in Nat
<1> SUFFICES ASSUME PendingInv PROVE IsFiniteSet(Waiting)
  BY FS_CardinalityType
<1>1. IsFiniteSet((DOMAIN pending) \X Addr)
  BY FS_Product, MessageAssumption DEF PendingInv
<1>2. Waiting \subseteq (DOMAIN pending) \X Addr
  BY DEF Waiting
<1> QED
  BY <1>1, <1>2, FS_Subset

\* Every step of the swarm is one step of the upload service.
LEMMA ServiceStep ==
  TypeInv /\ ReadsInv /\ PendingInv /\ [Next]_vars => [Service!ServiceNext]_(Service!serviceVars)
<1> SUFFICES ASSUME TypeInv, ReadsInv, PendingInv, [Next]_vars
             PROVE  [Service!ServiceNext]_(Service!serviceVars)
  OBVIOUS
<1> USE DEF Service!ServiceNext, Service!Wait
<1>1. UploadsOK /\ RegistryOK
  BY DEF TypeInv, TypeOK
<1>2. CASE UNCHANGED vars
  BY <1>2 DEF vars, uploadVars, registryVars, Service!serviceVars, Uploads, Waiting, PiecesSent
<1>3. ASSUME Next, \A r \in UploadRanges, id \in 0 .. MaxReads - 1 : ~UploadReadCompleted(id, r)
      PROVE  Service!ServiceNext
  <2>1. PiecesSent' = {}
    BY <1>3, OnlyReadsSend
  \* Nobody gives up anything.
  <2>2. ASSUME UNCHANGED <<pending, status>> PROVE Service!GiveUp({})
    BY <2>1, <2>2 DEF Service!GiveUp, Uploads, Waiting
  <2>3. ASSUME NEW old, old = {} \/ \E a \in Addr : old = {a}, CancelUploadsOf(old), UNCHANGED status
        PROVE  Service!ServiceNext
    <3>1. Waiting' = {w \in Waiting : w[2] \notin old}
      <4>1. /\ DOMAIN pending' = DOMAIN pending \ Orphaned(old)
            /\ \A r \in DOMAIN pending' : pending'[r].peers = pending[r].peers \ old
        BY <1>1, <2>3 DEF CancelUploadsOf, UploadsOK, PendingRead
      <4> QED
        BY <4>1 DEF Waiting, Orphaned
    <3>2. Uploads' = Uploads
      BY <2>3 DEF Uploads
    <3>3. CASE old = {}
      <4>1. Waiting' = Waiting \ {}
        BY <3>1, <3>3 DEF Waiting
      <4>2. Service!GiveUp({})
        BY <2>1, <3>2, <4>1 DEF Service!GiveUp
      <4> QED
        BY <4>2
    <3>4. ASSUME NEW a \in Addr, old = {a} PROVE Service!ServiceNext
      <4>1. Waiting' = Waiting \ {w \in Waiting : w[2] = a}
        BY <3>1, <3>4
      <4>2. Service!GiveUp({w \in Waiting : w[2] = a})
        BY <2>1, <3>2, <4>1 DEF Service!GiveUp
      <4> QED
        BY <4>2
    <3> QED
      BY <2>3, <3>3, <3>4
  <2>4. ASSUME NEW c \in Connections, AcceptConnection(c) PROVE Service!ServiceNext
    <3>1. Replaced(c) = {} \/ \E a \in Addr : Replaced(c) = {a}
      BY <1>1 DEF Replaced, HasConnection, RegistryOK, ActiveConnection
    <3> QED
      BY <2>3, <2>4, <3>1 DEF AcceptConnection
  <2>5. ASSUME NEW a \in Addr, PeerDisconnected(a) PROVE Service!ServiceNext
    BY <2>3, <2>5 DEF PeerDisconnected
  <2>6. ASSUME NEW a \in Addr, NEW m \in Messages, OnRequest(a, m) PROVE Service!ServiceNext
    <3> DEFINE r == m.range
    <3>1. r \in UploadRanges /\ Uploads' = Uploads
      BY <2>6 DEF OnRequest, Receive, UploadRanges, Uploads
    <3>2. CASE UNCHANGED uploadVars
      BY <2>2, <2>6, <3>2 DEF OnRequest, uploadVars
    <3>3. CASE ~Refuses(r) /\ ~UNCHANGED uploadVars
      <4>1. Waiting' = Waiting \cup {<<r, a>>}
        <5>1. CASE r \in DOMAIN pending /\ ShareRead(a, r)
          <6>1. /\ DOMAIN pending' = DOMAIN pending
                /\ pending'[r].peers = pending[r].peers \cup {a}
                /\ \A s \in DOMAIN pending : s # r => pending'[s] = pending[s]
            BY <1>1, <5>1 DEF ShareRead, UploadsOK, PendingRead
          <6> QED
            BY <5>1, <6>1 DEF Waiting
        <5>2. CASE r \notin DOMAIN pending /\ StartRead(a, r)
          BY <5>2 DEF StartRead, Insert, Waiting
        <5> QED
          BY <2>6, <3>3, <5>1, <5>2 DEF OnRequest
      <4>2. Uploads /\ Cardinality(Waiting) < MaxPendingUploads
        <5>1. Cardinality(Waiting) \in Nat
          BY WaitingFinite
        <5> QED
          BY <3>3, <5>1, UploadsAssumption DEF Refuses
      <4>3. Service!Ask(<<r, a>>)
        <5>1. Service!Cardinality(Waiting) = Cardinality(Waiting)
          BY DEF Service!Cardinality, Cardinality
        <5> QED
          BY <2>1, <3>1, <4>1, <4>2, <5>1 DEF Service!Ask
      <4> QED
        BY <3>1, <4>3
    <3> QED
      BY <2>6, <3>2, <3>3 DEF OnRequest
  <2>7. ASSUME NEW a \in Addr, NEW m \in Messages, OnCancel(a, m) PROVE Service!ServiceNext
    <3> DEFINE r == m.range
    <3>1. Uploads' = Uploads /\ CancelUpload(a, r) /\ status' = status
      BY <2>7 DEF OnCancel, Uploads
    <3>2. CASE r \notin DOMAIN pending
      <4>1. pending' = pending
        BY <3>1, <3>2 DEF CancelUpload, CancelsRead
      <4> QED
        BY <2>2, <3>1, <4>1
    <3>3. CASE r \in DOMAIN pending
      <4>1. Waiting' = Waiting \ {<<r, a>>}
        <5>1. CASE CancelsRead(a, r)
          BY <3>1, <5>1 DEF CancelUpload, CancelsRead, Remove, Waiting
        <5>2. CASE ~CancelsRead(a, r)
          <6>1. /\ DOMAIN pending' = DOMAIN pending
                /\ pending'[r].peers = pending[r].peers \ {a}
                /\ \A s \in DOMAIN pending : s # r => pending'[s] = pending[s]
            BY <1>1, <3>1, <3>3, <5>2 DEF CancelUpload, UploadsOK, PendingRead
          <6> QED
            BY <3>3, <6>1 DEF Waiting
        <5> QED
          BY <5>1, <5>2
      <4>2. Service!GiveUp({<<r, a>>})
        BY <2>1, <3>1, <4>1 DEF Service!GiveUp
      <4>3. r \in UploadRanges
        BY <3>3 DEF PendingInv
      <4> QED
        BY <4>2, <4>3
    <3> QED
      BY <3>2, <3>3
  <2>8. ASSUME NEW s \in Statuses, SetStatus(s) PROVE Service!ServiceNext
    <3>1. Waiting' = IF Uploads' THEN Waiting ELSE {}
      BY <2>8 DEF SetStatus, Waiting, EmptyMap
    <3>2. Service!Switch(Uploads')
      BY <2>1, <3>1 DEF Service!Switch
    <3>3. Uploads' \in BOOLEAN
      BY DEF Uploads
    <3> QED
      BY <3>2, <3>3
  <2> QED
    BY <1>3, <2>2, <2>4, <2>5, <2>6, <2>7, <2>8, UploadFootprint DEF uploadVars
<1>4. ASSUME NEW r \in UploadRanges, NEW id \in 0 .. MaxReads - 1, UploadReadCompleted(id, r)
      PROVE  Service!ServiceNext
  <2>1. Uploads' = Uploads
    BY <1>4 DEF UploadReadCompleted, Uploads
  <2>2. CASE ~IsCurrentRead(id, r)
    <3>1. pending' = pending /\ out' = {}
      BY <1>4, <2>2 DEF UploadReadCompleted
    <3>2. Waiting' = Waiting \ {} /\ PiecesSent' = {}
      BY <3>1 DEF Waiting, PiecesSent
    <3>3. Service!GiveUp({})
      BY <2>1, <3>2 DEF Service!GiveUp
    <3> QED
      BY <3>3
  <2>3. CASE IsCurrentRead(id, r)
    <3>1. /\ Uploads /\ r \in DOMAIN pending
          /\ pending[r].peers \subseteq DOMAIN peers
          /\ pending[r].peers \subseteq Addr
      BY <1>1, <2>3
         DEF IsCurrentRead, ReadsInv, PendingReadsAreWanted, UploadsOK, PendingRead
    <3>2. /\ pending' = Remove(pending, {r})
          /\ out' = {Send(a, PieceData(r)) : a \in pending[r].peers}
      <4>1. pending[r].peers \cap DOMAIN peers = pending[r].peers
        BY <3>1
      <4> QED
        BY <1>4, <2>3, <3>1, <4>1 DEF UploadReadCompleted
    <3>3. PiecesSent' = {<<r, a>> : a \in pending[r].peers}
      <4>1. ASSUME NEW w \in PiecesSent' PROVE \E a \in pending[r].peers : w = <<r, a>>
        BY <3>2 DEF PiecesSent, Send, PieceData
      <4>2. ASSUME NEW a \in pending[r].peers PROVE <<r, a>> \in PiecesSent'
        <5>1. Send(a, PieceData(r)) \in out'
          BY <3>2
        <5>2. /\ Send(a, PieceData(r)).kind = "SendToPeer"
              /\ Send(a, PieceData(r)).addr = a
              /\ Send(a, PieceData(r)).message = PieceData(r)
              /\ PieceData(r).type = "Piece"
              /\ PieceData(r).range = r
          BY DEF Send, PieceData
        <5> QED
          BY <5>1, <5>2 DEF PiecesSent
      <4> QED
        BY <4>1, <4>2
    <3>4. {w \in Waiting : w[1] = r} = {<<r, a>> : a \in pending[r].peers}
      BY <3>1 DEF Waiting
    <3>5. Waiting' = Waiting \ {<<r, a>> : a \in pending[r].peers}
      BY <3>1, <3>2 DEF Waiting, Remove
    <3>6. Service!Serve(r)
      BY <2>1, <3>1, <3>3, <3>4, <3>5 DEF Service!Serve
    <3> QED
      BY <3>6
  <2> QED
    BY <2>2, <2>3
<1> QED
  BY <1>2, <1>3, <1>4

\* What the refinement needs holds all along.
LEMMA ServiceInvariant == Spec => [](TypeInv /\ ReadsInv /\ PendingInv)
<1>1. Init => ReadsInv
  BY DEF Init, UploadsInit, ReadsInv, PendingReadsAreWanted, EmptyMap
<1>2. Init => PendingInv
  <2>1. Init => DOMAIN pending = {}
    BY DEF Init, UploadsInit, EmptyMap
  <2> QED
    BY <2>1, FS_EmptySet DEF PendingInv
<1> QED
  BY <1>1, <1>2, TypeInvInit, TypeInvStep, ReadsStep, PendingInvStep, PTL DEF Spec

\* The swarm implements the upload service: data goes out once for each wait
\* that was accepted, has not been withdrawn, and is of somebody still here.
THEOREM UploadRefinement == Spec => ImplementsUploadService
<1>1. Init => Service!ServiceInit
  BY DEF Init, UploadsInit, EmptyMap, Service!ServiceInit, Uploads, Waiting, PiecesSent
<1> QED
  BY <1>1, ServiceInvariant, ServiceStep, PTL DEF Spec, ImplementsUploadService, Service!ServiceSpec

\* The queue of the swarm is bounded because that of the service is.
LEMMA UploadsBoundedStep ==
  UploadsBounded /\ PendingInv /\ PendingInv' /\ [Service!ServiceNext]_(Service!serviceVars)
    => UploadsBounded'
<1> SUFFICES ASSUME UploadsBounded, PendingInv, PendingInv',
                    [Service!ServiceNext]_(Service!serviceVars)
             PROVE  Cardinality(Waiting') <= MaxPendingUploads
  BY DEF UploadsBounded
<1>1. IsFiniteSet(Waiting) /\ Cardinality(Waiting) \in Nat
  BY WaitingFinite
<1>2. CASE Waiting' \subseteq Waiting
  <2>1. Cardinality(Waiting') <= Cardinality(Waiting) /\ Cardinality(Waiting') \in Nat
    BY <1>1, <1>2, FS_Subset, FS_CardinalityType
  <2> QED
    BY <1>1, <2>1, UploadsAssumption DEF UploadsBounded
<1>3. ASSUME NEW w, Service!Ask(w) PROVE Cardinality(Waiting') <= MaxPendingUploads
  <2>1. Service!Cardinality(Waiting) = Cardinality(Waiting)
    BY DEF Service!Cardinality, Cardinality
  <2>2. Cardinality(Waiting) < MaxPendingUploads /\ Waiting' = Waiting \cup {w}
    BY <1>3, <2>1 DEF Service!Ask
  <2>3. Cardinality(Waiting') <= Cardinality(Waiting) + 1 /\ Cardinality(Waiting') \in Nat
    BY <1>1, <2>2, CountOneMore
  <2> QED
    BY <1>1, <2>2, <2>3, UploadsAssumption
<1> QED
  BY <1>2, <1>3 DEF Service!ServiceNext, Service!serviceVars, Service!GiveUp, Service!Serve,
                    Service!Switch

\* MAX_PENDING_UPLOADS bounds the peers that wait.
THEOREM UploadLimit == Spec => []UploadsBounded
<1>1. Init => UploadsBounded
  <2>1. Init => Waiting = {}
    BY DEF Init, UploadsInit, EmptyMap, Waiting
  <2> QED
    BY <2>1, FS_EmptySet, UploadsAssumption DEF UploadsBounded
<1> QED
  BY <1>1, ServiceInvariant, ServiceStep, UploadsBoundedStep, PTL DEF Spec

\* The steps that ask for reads or give them up, other than by an answer.
NoAnswer ==
  \/ UNCHANGED uploadVars
  \/ \E c \in Connections : AcceptConnection(c)
  \/ \E a \in Addr : PeerDisconnected(a)
  \/ \E a \in Addr, m \in Messages : OnRequest(a, m)
  \/ \E a \in Addr, m \in Messages : OnCancel(a, m)
  \/ \E s \in Statuses : SetStatus(s)

\* A read that stops being pending without an answer has its task cancelled.
LEMMA ReadKept ==
  ASSUME TypeInv, NoAnswer, NEW r \in DOMAIN pending
  PROVE  \/ r \in DOMAIN pending' /\ pending'[r].id = pending[r].id
         \/ CancelUploadRead(pending[r].id) \in out'
<1>1. UploadsOK
  BY DEF TypeInv, TypeOK
<1> DEFINE Kept      == r \in DOMAIN pending' /\ pending'[r].id = pending[r].id
           Withdrawn == CancelUploadRead(pending[r].id) \in out'
<1>2. CASE UNCHANGED uploadVars
  BY <1>2 DEF uploadVars
<1>3. ASSUME NEW old, CancelUploadsOf(old), Cancelled(Orphaned(old)) \subseteq out'
      PROVE  Kept \/ Withdrawn
  <2>1. CASE r \in Orphaned(old)
    BY <1>3, <2>1 DEF Cancelled
  <2>2. CASE r \notin Orphaned(old)
    BY <1>1, <1>3, <2>2 DEF CancelUploadsOf, UploadsOK, PendingRead
  <2> QED
    BY <2>1, <2>2
<1>4. ASSUME NEW c \in Connections, AcceptConnection(c) PROVE Kept \/ Withdrawn
  BY <1>3, <1>4 DEF AcceptConnection
<1>5. ASSUME NEW a \in Addr, PeerDisconnected(a) PROVE Kept \/ Withdrawn
  BY <1>3, <1>5 DEF PeerDisconnected
<1>6. ASSUME NEW a \in Addr, NEW m \in Messages, OnRequest(a, m) PROVE Kept
  BY <1>1, <1>6
     DEF OnRequest, uploadVars, ShareRead, StartRead, Insert, UploadsOK, PendingRead
<1>7. ASSUME NEW a \in Addr, NEW m \in Messages, OnCancel(a, m) PROVE Kept \/ Withdrawn
  <2>1. CASE CancelsRead(a, m.range) /\ r = m.range
    BY <1>7, <2>1 DEF OnCancel, Cancelled
  <2>2. CASE ~(CancelsRead(a, m.range) /\ r = m.range)
    BY <1>1, <1>7, <2>2
       DEF OnCancel, CancelUpload, CancelsRead, Remove, UploadsOK, PendingRead
  <2> QED
    BY <2>1, <2>2
<1>8. ASSUME NEW s \in Statuses, SetStatus(s) PROVE Kept \/ Withdrawn
  BY <1>8 DEF SetStatus, Cancelled
<1> QED
  BY <1>2, <1>4, <1>5, <1>6, <1>7, <1>8 DEF NoAnswer

\* A read that stops being pending was answered, or its task is cancelled.
THEOREM ReadsAccounted == Spec => NoLeakedRead
<1>1. ASSUME TypeInv, [Next]_vars, NEW r \in DOMAIN pending
      PROVE  \/ r \in DOMAIN pending' /\ pending'[r].id = pending[r].id
             \/ CancelUploadRead(pending[r].id) \in out'
             \/ UploadReadCompleted(pending[r].id, r)
  <2>1. ASSUME NEW s \in UploadRanges, NEW id \in 0 .. MaxReads - 1, UploadReadCompleted(id, s)
        PROVE  \/ r \in DOMAIN pending' /\ pending'[r].id = pending[r].id
               \/ UploadReadCompleted(pending[r].id, r)
    <3>1. CASE r # s \/ ~IsCurrentRead(id, s)
      BY <1>1, <2>1, <3>1 DEF UploadReadCompleted, Remove
    <3>2. CASE r = s /\ IsCurrentRead(id, s)
      BY <2>1, <3>2 DEF IsCurrentRead
    <3> QED
      BY <3>1, <3>2
  <2>2. CASE NoAnswer
    BY <1>1, <2>2, ReadKept
  <2> QED
    BY <1>1, <2>1, <2>2, UploadFootprint DEF NoAnswer
<1>2. ASSUME TypeInv, [Next]_vars
      PROVE  \A r \in DOMAIN pending :
               \/ r \in DOMAIN pending' /\ pending'[r].id = pending[r].id
               \/ CancelUploadRead(pending[r].id) \in out'
               \/ UploadReadCompleted(pending[r].id, r)
  BY <1>1, <1>2
<1> QED
  BY <1>2, TypeInvInit, TypeInvStep, PTL DEF Spec, NoLeakedRead

=============================================================================
