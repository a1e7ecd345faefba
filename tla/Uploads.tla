-------------------------------- MODULE Uploads --------------------------------
(***************************************************************************)
(* The uploads waiting for a disk read (pending_reads of domain/swarm.rs): *)
(* peers that ask for the same range while it is being read share the      *)
(* read.                                                                   *)
(***************************************************************************)
EXTENDS Message, Maps, FiniteSets

CONSTANT MaxPendingUploads  \* MAX_PENDING_UPLOADS, 32 in the program

ASSUME UploadsAssumption == MaxPendingUploads \in Nat

VARIABLES
  pending,    \* Swarm::pending_reads: range -> PendingRead
  nextReadId  \* Swarm::next_upload_read_id

uploadVars == <<pending, nextReadId>>

PendingRead == [id : Nat, peers : SUBSET Addr]

UploadsInit == pending = EmptyMap /\ nextReadId = 0

UploadsOK ==
  /\ DOMAIN pending \subseteq BlockRange
  /\ \A r \in DOMAIN pending : pending[r] \in PendingRead
  /\ nextReadId \in Nat

\* Who waits for what.
Waiting == {w \in (DOMAIN pending) \X Addr : w[2] \in pending[w[1]].peers}

\* The reads nobody waits for once these addresses are gone.
Orphaned(addrs) == {r \in DOMAIN pending : pending[r].peers \subseteq addrs}

\* Mutant of CancelUploadsOf: the reads of a replaced connection are forgotten.
CancelNoUploadsOf(addrs) == UNCHANGED uploadVars

\* cancel_peer_uploads
CancelUploadsOf(addrs) ==
  /\ pending' = [r \in DOMAIN pending \ Orphaned(addrs) |->
                   [pending[r] EXCEPT !.peers = @ \ addrs]]
  /\ UNCHANGED nextReadId

\* cancel_upload, which reports whether the read itself is cancelled.
CancelsRead(a, range) ==
  range \in DOMAIN pending /\ pending[range].peers \subseteq {a}

CancelUpload(a, range) ==
  /\ pending' = IF CancelsRead(a, range) THEN Remove(pending, {range})
                ELSE IF range \in DOMAIN pending
                     THEN [pending EXCEPT ![range].peers = @ \ {a}]
                     ELSE pending
  /\ UNCHANGED nextReadId

\* Mutant of ShareRead: the second request renews the id of the read.
ShareRenewedRead(a, range) ==
  /\ pending' = [pending EXCEPT ![range] = [id |-> nextReadId, peers |-> @.peers \cup {a}]]
  /\ UNCHANGED nextReadId

ShareRead(a, range) ==
  /\ pending' = [pending EXCEPT ![range].peers = @ \cup {a}]
  /\ UNCHANGED nextReadId

\* Mutant of StartRead: the id is used again.
StartReadSameId(a, range) ==
  /\ pending' = Insert(pending, range, [id |-> nextReadId, peers |-> {a}])
  /\ nextReadId' = 1

StartRead(a, range) ==
  /\ pending' = Insert(pending, range, [id |-> nextReadId, peers |-> {a}])
  /\ nextReadId' = nextReadId + 1

\* The read that is waited for, and not a cancelled one of the same range.
IsCurrentRead(id, range) == range \in DOMAIN pending /\ pending[range].id = id

=============================================================================
