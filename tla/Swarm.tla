--------------------------------- MODULE Swarm ---------------------------------
(***************************************************************************)
(* The state machine of one torrent (domain/swarm.rs).  Swarm::step takes  *)
(* one input, changes the state and returns the outputs to perform; it     *)
(* runs to its end before the next input.  One action per input here, and  *)
(* PlanPick for each request plan() sends at the end of a step: while      *)
(* budget > 0 the step is not over and no input is taken.                  *)
(*                                                                         *)
(* out holds the outputs of the last action as a set: within one step the  *)
(* order is fixed by their kind (see the README).                          *)
(***************************************************************************)
EXTENDS Planner, Uploads

CONSTANTS
  ClientId,       \* Swarm::client_id
  Connections,    \* the connections that may come up: Input::PeerConnected
  Messages,       \* the messages peers may send: Input::MessageReceived
  Discoveries,    \* sets of addresses a tracker may return
  Statuses,       \* statuses the user may choose
  LocalContents,  \* block contents of a piece found on disk, as sequences
  MaxReads        \* bound: upload reads started in a behaviour

\* peer_io.rs refuses a remote that presents our own id (lines 392 and 504).
ASSUME SwarmAssumption ==
  /\ ClientId \in Nat \ PeerId
  /\ Connections \subseteq Connection
  /\ Messages \subseteq Message
  /\ Discoveries \subseteq SUBSET Addr
  /\ Statuses \subseteq SwarmStatus
  /\ LocalContents \subseteq Seq(Content)
  /\ MaxReads \in Nat

VARIABLES
  restored,  \* pieces SwarmIO::restore has fed back from disk, in order
  out        \* outputs of the last action

vars == <<pieceVars, registryVars, assigned, uploadVars, status, budget, restored, out>>

\* Restoring is over and no step is being executed.
Idle == restored = NumPieces /\ budget = 0

-----------------------------------------------------------------------------
\* Outputs

ConnectPeer(a)        == [kind |-> "ConnectPeer", addr |-> a]
DisconnectPeer(a)     == [kind |-> "DisconnectPeer", addr |-> a]
Send(a, m)            == [kind |-> "SendToPeer", addr |-> a, message |-> m]
WritePiece(p)         == [kind |-> "WritePiece", piece |-> p]
ReadForUpload(id, r)  == [kind |-> "ReadForUpload", id |-> id, range |-> r]
CancelUploadRead(id)  == [kind |-> "CancelUploadRead", id |-> id]
Broadcast(m)          == [kind |-> "Broadcast", message |-> m]
DownloadCompleted     == [kind |-> "Completed"]

Bare(type)       == [type |-> type]
Have(p)          == [type |-> "Have", piece |-> p]
Request(range)   == [type |-> "Request", range |-> range]
PieceData(range) == [type |-> "Piece", range |-> range, data |-> "good"]
Interested(a)    == Send(a, Bare("Interested"))

Cancelled(reads) == {CancelUploadRead(pending[r].id) : r \in reads}

-----------------------------------------------------------------------------
\* Connections

PreferredDirection(id) == IF ClientId > id THEN "Outbound" ELSE "Inbound"

HasConnection(id) == id \in DOMAIN byId

\* The new connection loses against the one by_id remembers.
Loses(c) ==
  /\ HasConnection(c.id)
  /\ \/ c.direction = byId[c.id].direction
     \/ c.direction # PreferredDirection(c.id)

\* Mutant of Replaced: the old connection of the peer is left alone.
ReplacedNever(c) == {}

\* The connection the new one replaces, if any.
Replaced(c) == IF HasConnection(c.id) THEN {byId[c.id].addr} ELSE {}

\* Mutant of Abandoned: only the replaced connection gives up its requests.
AbandonedByOld(c) == Replaced(c)

\* The addresses whose requests in flight are given up: a new connection of a
\* known address has not been asked for anything yet.
Abandoned(c) == Replaced(c) \cup {c.addr}

\* What we have, in the form BEP 6 asks for.
OurPieces(c) ==
  CASE c.fast /\ AllComplete -> Bare("HaveAll")
    [] c.fast /\ HasNoPiece  -> Bare("HaveNone")
    [] OTHER -> [type |-> "Bitfield", pieces |-> bitfield]

RejectConnection(c) ==
  /\ Idle
  /\ Loses(c)
  /\ out' = {DisconnectPeer(c.addr)}
  /\ UNCHANGED <<pieceVars, registryVars, assigned, uploadVars, status, budget, restored>>

AcceptConnection(c) ==
  /\ Idle
  /\ ~Loses(c)
  /\ ConnectedAfterDisconnecting(c, Replaced(c))
  /\ ReleasePeers(Abandoned(c))
  /\ CancelUploadsOf(Replaced(c))
  /\ out' = Cancelled(Orphaned(Replaced(c)))
              \cup {DisconnectPeer(a) : a \in Replaced(c)}
              \cup {Send(c.addr, OurPieces(c)), Interested(c.addr)}
  /\ UNCHANGED <<pieceVars, status, budget, restored>>

PeerConnected(c) == RejectConnection(c) \/ AcceptConnection(c)

PeerDisconnected(a) ==
  /\ Idle
  /\ Disconnected({a})
  /\ ReleasePeers({a})
  /\ CancelUploadsOf({a})
  /\ out' = Cancelled(Orphaned({a}))
  /\ UNCHANGED <<pieceVars, status, budget, restored>>

\* on_discovered: dial what we are not connected to, unless we have it all.
Dial(addrs) ==
  IF AllComplete THEN {} ELSE {ConnectPeer(a) : a \in addrs \ DOMAIN peers}

PeersDiscovered(addrs) ==
  /\ Idle
  /\ out' = Dial(addrs)
  /\ UNCHANGED <<pieceVars, registryVars, assigned, uploadVars, status, budget, restored>>

-----------------------------------------------------------------------------
\* Messages

\* plan() starts: its budget is computed from the state the handler leaves.
Replan == budget' = PlanBudget'

Receive(a, m, kinds) == Idle /\ m.type \in kinds /\ Apply(a, m)

RejectMessage(a, m) ==
  /\ Idle
  /\ ~Known(a) \/ Violates(a, m)
  /\ out' = IF Known(a) THEN {DisconnectPeer(a)} ELSE {}
  /\ UNCHANGED <<pieceVars, registryVars, assigned, uploadVars, status, budget, restored>>

OnAvailability(a, m) ==
  /\ Receive(a, m, {"Bitfield", "Have", "HaveAll", "SuggestPiece"})
  /\ out' = {Interested(a)}
  /\ UNCHANGED <<pieceVars, assigned, uploadVars, status, budget, restored>>

OnAllowedFast(a, m) ==
  /\ Receive(a, m, {"AllowedFast"})
  /\ out' = {Interested(a)}
  /\ UNCHANGED <<pieceVars, assigned, uploadVars, status, restored>>
  /\ Replan

OnChoke(a, m) ==
  /\ Receive(a, m, {"Choke"})
  /\ ReleasePeers({a})
  /\ out' = {}
  /\ UNCHANGED <<pieceVars, uploadVars, status, budget, restored>>

OnUnchoke(a, m) ==
  /\ Receive(a, m, {"Unchoke"})
  /\ out' = {}
  /\ UNCHANGED <<pieceVars, assigned, uploadVars, status, restored>>
  /\ Replan

OnInterested(a, m) ==
  /\ Receive(a, m, {"Interested"})
  /\ out' = {Send(a, Bare("Unchoke"))}
  /\ UNCHANGED <<pieceVars, assigned, uploadVars, status, budget, restored>>

OnRejectRequest(a, m) ==
  /\ Receive(a, m, {"RejectRequest"})
  /\ Unassign(m.range, a)
  /\ out' = {}
  /\ UNCHANGED <<pieceVars, uploadVars, status, budget, restored>>

OnQuiet(a, m) ==
  /\ Receive(a, m, {"HaveNone", "NotInterested", "KeepAlive", "Unimplemented",
                    "ExtensionHandshake", "MetadataReply", "OtherExtension"})
  /\ out' = {}
  /\ UNCHANGED <<pieceVars, assigned, uploadVars, status, budget, restored>>

\* Mutant of Announce: completeness is looked up before the piece is marked.
AnnounceEarly(p) ==
  {Broadcast(Have(p)), WritePiece(p)} \cup (IF AllComplete THEN {DownloadCompleted} ELSE {})

\* What a completed piece makes the swarm do; seeders are of no use any more
\* once the torrent is complete.
Announce(p) ==
  {Broadcast(Have(p)), WritePiece(p)}
    \cup (IF AllComplete' THEN {DownloadCompleted} \cup {DisconnectPeer(a) : a \in seeders'}
          ELSE {})

\* on_message_piece: a block counts only if it was asked of this very peer.
OnPiece(a, m) ==
  /\ Receive(a, m, {"Piece"})
  /\ IF IsHolder(m.range, a)
     THEN /\ Unassign(m.range, a)
          /\ ReceiveBlock(m.range, m.data)
          /\ out' = IF Completes(m.range, m.data) THEN Announce(m.range.piece) ELSE {}
     ELSE out' = {} /\ UNCHANGED <<pieceVars, assigned>>
  /\ UNCHANGED <<uploadVars, status, restored>>
  /\ Replan

-----------------------------------------------------------------------------
\* Uploads

\* Mutant of Refuses: one waiting peer too many.
RefusesLate(range) ==
  \/ ~Uploads
  \/ ~ValidUploadRange(range)
  \/ Cardinality(Waiting) > MaxPendingUploads

\* The early returns of on_message_request.
Refuses(range) ==
  \/ ~Uploads
  \/ ~ValidUploadRange(range)
  \/ Cardinality(Waiting) >= MaxPendingUploads

OnRequest(a, m) ==
  /\ Receive(a, m, {"Request"})
  /\ UNCHANGED <<pieceVars, assigned, status, budget, restored>>
  /\ \/ Refuses(m.range) /\ out' = {} /\ UNCHANGED uploadVars
     \/ /\ ~Refuses(m.range) /\ m.range \in DOMAIN pending
        /\ ShareRead(a, m.range)
        /\ out' = {}
     \/ /\ ~Refuses(m.range) /\ m.range \notin DOMAIN pending
        /\ nextReadId < MaxReads
        /\ StartRead(a, m.range)
        /\ out' = {ReadForUpload(nextReadId, m.range)}

OnCancel(a, m) ==
  /\ Receive(a, m, {"Cancel"})
  /\ CancelUpload(a, m.range)
  /\ out' = IF CancelsRead(a, m.range) THEN Cancelled({m.range}) ELSE {}
  /\ UNCHANGED <<pieceVars, assigned, status, budget, restored>>

\* Mutant of UploadReadCompleted: the answered read stays pending.
UploadReadAnsweredAgain(id, range) ==
  /\ Idle
  /\ id < nextReadId
  /\ IsCurrentRead(id, range)
  /\ out' = {Send(a, PieceData(range)) : a \in pending[range].peers \cap DOMAIN peers}
  /\ UNCHANGED <<pieceVars, registryVars, assigned, uploadVars, status, budget, restored>>

\* The store answers a read: the current one of its range, or one that was
\* cancelled too late to stop it.
UploadReadCompleted(id, range) ==
  /\ Idle
  /\ id < nextReadId
  /\ IF IsCurrentRead(id, range)
     THEN /\ pending' = Remove(pending, {range})
          /\ out' = IF Uploads
                    THEN {Send(a, PieceData(range)) : a \in pending[range].peers \cap DOMAIN peers}
                    ELSE {}
     ELSE out' = {} /\ UNCHANGED pending
  /\ UNCHANGED <<pieceVars, registryVars, assigned, nextReadId, status, budget, restored>>

\* Mutant of SetStatus: the queue is cleared without cancelling the reads.
SetStatusSilently(s) ==
  /\ Idle
  /\ status' = s
  /\ pending' = IF Uploads' THEN pending ELSE EmptyMap
  /\ out' = {}
  /\ UNCHANGED <<pieceVars, registryVars, assigned, nextReadId, budget, restored>>

SetStatus(s) ==
  /\ Idle
  /\ status' = s
  /\ pending' = IF Uploads' THEN pending ELSE EmptyMap
  /\ out' = IF Uploads' THEN {} ELSE Cancelled(DOMAIN pending)
  /\ UNCHANGED <<pieceVars, registryVars, assigned, nextReadId, budget, restored>>

-----------------------------------------------------------------------------
\* Extensions

\* A message in the form an extension of the peer has: none if it has not said
\* under which id it takes that extension.
Reply(a, name, m) == IF name \in peers[a].extensions THEN {Send(a, m)} ELSE {}

OnMetadataRequest(a, m) ==
  /\ Receive(a, m, {"MetadataRequest"})
  /\ out' = Reply(a, "ut_metadata", Bare("MetadataReply"))
  /\ UNCHANGED <<pieceVars, assigned, uploadVars, status, budget, restored>>

OnPex(a, m) ==
  /\ Receive(a, m, {"Pex"})
  /\ out' = Dial(m.addrs)
  /\ UNCHANGED <<pieceVars, assigned, uploadVars, status, budget, restored>>

\* seeders and leechers may hold an address the registry does not: it is told
\* to the others, and gets no message itself.
TickPex ==
  LET addrs == seeders \cup leechers
  IN  /\ Idle
      /\ out' = UNION {Reply(a, "ut_pex", [type |-> "Pex", addrs |-> addrs]) :
                         a \in addrs \cap DOMAIN peers}
      /\ UNCHANGED <<pieceVars, registryVars, assigned, uploadVars, status, budget, restored>>

-----------------------------------------------------------------------------
\* The scheduler

TickBlock ==
  /\ Idle
  /\ budget' = PlanBudget
  /\ out' = {}
  /\ UNCHANGED <<pieceVars, registryVars, assigned, uploadVars, status, restored>>

\* One request of plan(), which ends when no slot or no servable block is left.
PlanPick ==
  \E b \in NextBlocks : \E a \in byPiece[b.piece] :
    /\ Pick(b, a)
    /\ out' = {Interested(a), Send(a, Request(b))}
    /\ UNCHANGED <<uploadVars, restored>>

-----------------------------------------------------------------------------
\* Start-up: the pieces found on disk, fed back one after the other.

LocalPiece(data) ==
  /\ restored < NumPieces
  /\ Len(data) <= NumBlocks(restored)
  /\ ReceivePrefix(restored, data)
  /\ restored' = restored + 1
  /\ out' = {}
  /\ UNCHANGED <<registryVars, assigned, uploadVars, status, budget>>

UploadRanges == {m.range : m \in {n \in Messages : n.type = "Request"}}

Init ==
  /\ PiecesInit
  /\ RegistryInit
  /\ AssignmentsInit
  /\ UploadsInit
  /\ status = "Active"
  /\ budget = 0
  /\ restored = 0
  /\ out = {}

MessageReceived(a, m) ==
  \/ RejectMessage(a, m)
  \/ OnAvailability(a, m)
  \/ OnAllowedFast(a, m)
  \/ OnChoke(a, m)
  \/ OnUnchoke(a, m)
  \/ OnInterested(a, m)
  \/ OnRejectRequest(a, m)
  \/ OnQuiet(a, m)
  \/ OnPiece(a, m)
  \/ OnRequest(a, m)
  \/ OnCancel(a, m)
  \/ OnMetadataRequest(a, m)
  \/ OnPex(a, m)

Next ==
  \/ \E data \in LocalContents : LocalPiece(data)
  \/ \E c \in Connections : PeerConnected(c)
  \/ \E a \in Addr : PeerDisconnected(a)
  \/ \E addrs \in Discoveries : PeersDiscovered(addrs)
  \/ \E a \in Addr, m \in Messages : MessageReceived(a, m)
  \/ \E r \in UploadRanges, id \in 0 .. MaxReads - 1 : UploadReadCompleted(id, r)
  \/ \E s \in Statuses : SetStatus(s)
  \/ TickBlock
  \/ TickPex
  \/ PlanPick

Spec == Init /\ [][Next]_vars

=============================================================================
