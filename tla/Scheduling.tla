------------------------------ MODULE Scheduling ------------------------------
(***************************************************************************)
(* What plan() reads (domain/swarm.rs): who can be asked for what, which   *)
(* blocks are wanted, and the order in which they are considered.          *)
(***************************************************************************)
EXTENDS PieceManager, PeerRegistry, BlockAssignments

VARIABLE status  \* Swarm::status

SwarmStatus == {"Active", "Stopped", "DownloadOnly", "UploadOnly"}

Downloads == status \in {"Active", "DownloadOnly"}
Uploads   == status \in {"Active", "UploadOnly"}

\* Mutant of OpenSlots: one request per peer and call.
OpenPeers == Unchoked

\* budget(): one slot for every request that could still be sent to a peer that
\* unchoked us.
OpenSlots ==
  {slot \in Unchoked \X (1 .. MaxInFlightPerPeer) : slot[2] <= FreeSlots(slot[1])}

\* Mutants of CanAsk: a block is never asked of a second peer; a peer that may
\* serve the piece is asked although its slots are taken.
CanAskOnce(block, a) ==
  /\ a \in byPiece[block.piece]
  /\ CanServe(a, block.piece)
  /\ FreeSlots(a) > 0
  /\ HolderCount(block) = 0

CanAskWithoutSlot(block, a) ==
  /\ a \in byPiece[block.piece]
  /\ CanServe(a, block.piece)
  /\ ~IsHolder(block, a)

\* The filter of pick_peer.
CanAsk(block, a) ==
  /\ a \in byPiece[block.piece]
  /\ CanServe(a, block.piece)
  /\ FreeSlots(a) > 0
  /\ ~IsHolder(block, a)

WantedBlocks == UNION {UnreceivedBlocks(p) : p \in NeededPieces}

MaxDepth == Cardinality(Unchoked)

\* The wanted blocks the loop can still send a request for.
Plannable ==
  {b \in WantedBlocks : HolderCount(b) <= MaxDepth /\ \E a \in Addr : CanAsk(b, a)}

\* Partial, then suggested, then rare pieces; then file order (the sort is
\* stable and blocks are listed in order).
BlockKey(b) == <<IF IsPartial(b.piece) THEN 0 ELSE 1,
                 IF IsSuggested(b.piece) THEN 0 ELSE 1,
                 Rarity(b.piece), b.piece, b.offset>>

Less(s, t) ==
  \E i \in DOMAIN s : s[i] < t[i] /\ \A j \in 1 .. i - 1 : s[j] = t[j]

=============================================================================
