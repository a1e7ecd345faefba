---------------------------- MODULE SwarmProperties ----------------------------
(***************************************************************************)
(* What Swarm has to guarantee.                                            *)
(***************************************************************************)
EXTENDS Swarm

CONSTANT Honest  \* the peers assumed to answer every request, for liveness

\* Every variable has its type (the fields of Swarm and of its three parts).
TypeOK ==
  /\ PiecesOK
  /\ RegistryOK
  /\ AssignmentsOK
  /\ UploadsOK
  /\ status \in SwarmStatus
  /\ budget \in Nat
  /\ restored \in 0 .. NumPieces

-----------------------------------------------------------------------------
\* Connections

\* Two registered addresses never belong to the same remote peer: whatever
\* connections come up, cross or are replaced, on_connected keeps one per id.
OneConnectionPerPeerId ==
  \A a, b \in DOMAIN peers : peers[a].id = peers[b].id => a = b

\* Nothing about an address survives its disconnection: availability and the
\* two peer classes speak of registered peers only, so no request, exchange
\* message or final DisconnectPeer goes to a peer that has left.
OnlyPeersAreKnown ==
  seeders \cup leechers \cup UNION {byPiece[p] : p \in PieceIndex} \subseteq DOMAIN peers

\* The classes kept beside the availability map agree with it: a classified
\* peer is a seeder exactly when it announced every piece, however it did.
ClassesMatchAvailability ==
  /\ seeders \cap leechers = {}
  /\ \A a \in seeders \cup leechers :
        a \in seeders <=> \A p \in Piece : a \in byPiece[p]

-----------------------------------------------------------------------------
\* Downloads

\* A request is only in flight for a block of the torrent, at a connected peer
\* that still lets us download it: a choke, a disconnection or a reconnection
\* of the address leaves no request behind that would never be answered.
RequestsCanBeAnswered ==
  \A x \in assigned :
    /\ x.block \in AllBlocks
    /\ x.addr \in DOMAIN peers
    /\ CanServe(x.addr, x.block.piece)

\* No peer is ever asked for more than MAX_IN_FLIGHT_PER_PEER blocks at once,
\* whichever of the two ways of being servable let it be picked.
InFlightBounded == \A a \in Addr : Cardinality(InFlight(a)) <= MaxInFlightPerPeer

\* The received counter, which alone decides when a piece is hashed, counts the
\* received blocks; and no piece sits with all its blocks and no verdict.
NoPieceStuck ==
  \A p \in NeededPieces :
    /\ pieces[p].received = Cardinality({i \in BlockIndices(p) : pieces[p].blocks[i] # "Missing"})
    /\ pieces[p].received < NumBlocks(p)

\* We announce exactly what we can serve.
BitfieldIsExact == bitfield = {p \in Piece : IsComplete(p)}

\* With the block of this message, piece p is full and not what it should be.
MakesWrong(p, m) ==
  LET blocks == [pieces[p].blocks EXCEPT ![BlockIndex(m.range)] = m.data]
  IN  /\ m.range.piece = p
      /\ \A i \in BlockIndices(p) : blocks[i] # "Missing"
      /\ \E i \in BlockIndices(p) : blocks[i] = "bad"

\* Only a hash mismatch resets a piece (piece_manager.rs lines 129-131): a
\* received block is forgotten only by the arrival of the block that makes its
\* piece full and wrong, and a complete piece never becomes partial again.
OnlyMismatchForgets ==
  [][\A p \in Piece :
       /\ IsComplete(p) => IsComplete(p)'
       /\ ~IsComplete(p) /\ ~IsComplete(p)' =>
            \A i \in BlockIndices(p) :
              pieces[p].blocks[i] # "Missing" /\ pieces'[p].blocks[i] = "Missing"
                => \E a \in Addr, m \in Messages : OnPiece(a, m) /\ MakesWrong(p, m)]_vars

\* A piece is handed to the disk and announced in the very step that completes
\* it, never twice and never without being complete; Completed, which makes
\* SwarmIO flush, comes with the last of them and only then.
StoredWhenComplete ==
  [][restored = NumPieces =>
       /\ \A p \in Piece :
            LET completed == ~IsComplete(p) /\ IsComplete(p)'
            IN  /\ (WritePiece(p) \in out') <=> completed
                /\ (Broadcast(Have(p)) \in out') <=> completed
       /\ (DownloadCompleted \in out') <=> (~AllComplete /\ AllComplete')]_vars

\* A peer that unchoked us, has a free slot and a block we lack and have not
\* asked it for.
IdleServer ==
  \E a \in Unchoked, b \in WantedBlocks :
    FreeSlots(a) > 0 /\ a \in byPiece[b.piece] /\ ~IsHolder(b, a)

\* No request is in flight at a choking peer that allowed the piece (BEP 6).
HoldersUnchoked == \A x \in assigned : x.addr \in Unchoked

\* While no choked peer holds blocks by Allowed Fast, the cap of plan() on the
\* holders of a block loses nothing ("A block can't usefully have more holders
\* than there are unchoked peers to serve it", swarm.rs lines 630-631): when the
\* periodic plan() would send nothing, no willing peer is idle.
TickFindsWork ==
  Idle /\ Downloads /\ HoldersUnchoked /\ PlanBudget = 0 => ~IdleServer

\* One call of plan() hands out all it can: the budget computed on entry does
\* not run out while a servable block and a free slot are left.  A request to a
\* choked peer by Allowed Fast would use up a slot that was not counted for it.
PlanExhausts == [][PlanPick /\ HoldersUnchoked' /\ budget' = 0 => PlanBudget' = 0]_vars

\* The peer holds every piece and lets us download.
Serves(a) == Downloads /\ a \in Unchoked /\ \A p \in Piece : a \in byPiece[p]

-----------------------------------------------------------------------------
\* Uploads

\* Somebody connected waits for every pending read, the piece is complete and
\* uploads are on, and no two reads share an id: a read is never kept for peers
\* that left or after the user stopped uploading, and its answer cannot be
\* taken for that of another.
PendingReadsAreWanted ==
  \A r \in DOMAIN pending :
    /\ pending[r].peers # {}
    /\ pending[r].peers \subseteq DOMAIN peers
    /\ ValidUploadRange(r)
    /\ Uploads
    /\ pending[r].id < nextReadId
    /\ \A s \in DOMAIN pending : pending[r].id = pending[s].id => r = s

\* The upload queue never holds more than MAX_PENDING_UPLOADS waiting peers,
\* shared reads counted once per peer.
UploadsBounded == Cardinality(Waiting) <= MaxPendingUploads

\* SwarmIO keeps a task per read until it ends or is cancelled: a read that is
\* no longer pending either was just answered or is cancelled in that step.
NoLeakedRead ==
  [][\A r \in DOMAIN pending :
       \/ r \in DOMAIN pending' /\ pending'[r].id = pending[r].id
       \/ CancelUploadRead(pending[r].id) \in out'
       \/ UploadReadCompleted(pending[r].id, r)]_vars

\* The <<range, address>> pairs the last step sent a Piece for.
PiecesSent ==
  {<<o.message.range, o.addr>> :
     o \in {x \in out : x.kind = "SendToPeer" /\ x.message.type = "Piece"}}

\* The upload side is the abstract upload service: every Piece sent answers one
\* accepted request that its sender has not cancelled, while uploads are on.
Service == INSTANCE UploadService WITH
  Client    <- Addr,
  Item      <- UploadRanges,
  MaxQueued <- MaxPendingUploads,
  open      <- Uploads,
  waiting   <- Waiting,
  served    <- PiecesSent

ImplementsUploadService == Service!ServiceSpec

-----------------------------------------------------------------------------
\* Fairness

\* SwarmIO's select! polls its branches in random order, so a branch that is
\* ready again and again is taken: the block timer is (strong fairness, since
\* no branch is polled during a step), so are the reads the store has answered,
\* and so are the events of an honest peer, which sends every block asked of it.
AnswersRequests(a) ==
  \A b \in AllBlocks :
    SF_vars(IsHolder(b, a) /\ OnPiece(a, [type |-> "Piece", range |-> b, data |-> "good"]))

ReadAnswered(r) ==
  \E id \in 0 .. MaxReads - 1 : IsCurrentRead(id, r) /\ UploadReadCompleted(id, r)

FairSpec ==
  /\ Spec
  /\ WF_vars(\E data \in LocalContents : LocalPiece(data))
  /\ WF_vars(PlanPick)
  /\ SF_vars(TickBlock)
  /\ \A a \in Honest : AnswersRequests(a)
  /\ \A r \in UploadRanges : SF_vars(ReadAnswered(r))

\* With a peer that holds every piece and, from some time on, stays connected
\* and lets us download, and answers what it is asked, the download completes,
\* whatever the other peers do short of sending wrong data: no silent, choking
\* or refusing peer can keep a block for itself.
DownloadCompletes == \A a \in Honest : <>[]Serves(a) => <>AllComplete

\* No upload request is kept waiting for ever: it is served, or the peer gives
\* up, or uploads are switched off.
WaitsEnd == \A w \in UploadRanges \X Addr : w \in Waiting ~> w \notin Waiting

=============================================================================
