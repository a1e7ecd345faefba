------------------------- MODULE DiskStorageProperties -------------------------
(***************************************************************************)
(* What the swarm relies on when it announces, serves and completes pieces *)
(* that it has handed to DiskStorage.                                      *)
(***************************************************************************)
EXTENDS DiskStorage

\* The bytes of the range are at their places.
Right(p) ==
  \A f \in File : \A pos \in Part(f, p * PieceLength, PieceSize(p)) :
     files[f][pos - Offset[f] + 1] = pos

\* A piece is uploaded as soon as its write was accepted.  Unless a write has
\* failed, whoever reads it gets its bytes, in whatever files they are and
\* whether they were there before or are still in the queue.
ReadsSeeWrites ==
  reply.kind = "Read" /\ reply.ok /\ broken = {} =>
    reply.data = Bytes(Start(reply.range), reply.range.len)

\* The flush that ends a download succeeds only if every piece ever accepted is
\* in its files, also if a write failed without anybody being told.
FlushMeansStored ==
  reply.kind = "Flush" /\ reply.ok => \A p \in stored : Right(p)

\* No write of a piece, also one that fails halfway through its files, touches a
\* piece that is in place.
StoredStays == [][\A p \in Piece : Right(p) => Right(p)']_diskVars

-----------------------------------------------------------------------------

\* The worker goes on while it has commands, as long as the program runs; a channel lets its senders in in
\* the order they came, and a task whose channel closed is woken.
FairDiskSpec ==
  /\ DiskSpec
  /\ WF_diskVars(Worker)
  /\ \A c \in 0 .. MaxCalls - 1 :
       /\ SF_diskVars(c \in DOMAIN calls /\ Send(c))
       /\ WF_diskVars(c \in DOMAIN calls /\ Fail(c))

\* Nobody waits for the storage for ever, also when its worker has died with
\* commands in the queue.
CallsReturn == \A c \in 0 .. MaxCalls - 1 : c \in DOMAIN calls ~> c \notin DOMAIN calls

\* A write is accepted before it is made; it is made in the end, whatever reads
\* are called for, aborted or fail meanwhile, unless a write fails or the owner
\* returns: then nothing waits for the queue to be drained
\* (docs/architecture_review.md line 55).
AcceptedIsWritten == \A p \in Piece : p \in stored ~> Right(p) \/ broken # {} \/ ~serving

=============================================================================
