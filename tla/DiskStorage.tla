------------------------------ MODULE DiskStorage ------------------------------
(***************************************************************************)
(* The files of a torrent (adapters/disk_storage.rs).  One worker owns     *)
(* them; whoever holds the port PieceStore sends it commands through a     *)
(* bounded queue.  A write returns once it is queued, a read or a flush    *)
(* once the worker has answered.  A byte is represented by its position in *)
(* the torrent, so that a byte at the wrong place can be told.             *)
(*                                                                         *)
(* tokio's File hands a write to another thread and tells of its failure   *)
(* at the next write or flush of that file, and not to a read in between.  *)
(***************************************************************************)
EXTENDS Torrent, Maps, Sequences, FiniteSets

CONSTANTS
  FileLengths,      \* the lengths of the files, in the order of the metainfo
  CommandCapacity,  \* COMMAND_CAPACITY, 8 in the program
  ReadRanges,       \* what may be read
  MaxCalls          \* bound: calls made in a behaviour

VARIABLES
  files,     \* the bytes of each file
  broken,    \* files a write to which has failed
  queue,     \* the commands on their way to the worker
  working,   \* the worker has not returned
  calls,     \* the calls that have not returned, by number
  nextCall,  \* the number of the next call
  serving,   \* the owner of the storage has not returned
  stored,    \* the pieces on disk or accepted for it
  reply      \* the call that returned in the last step, and its result

diskVars == <<files, broken, queue, working, calls, nextCall, serving, stored, reply>>

File == DOMAIN FileLengths

\* OutputFile::offset
Offset[f \in File] == IF f = 1 THEN 0 ELSE Offset[f - 1] + FileLengths[f - 1]

ASSUME DiskAssumption ==
  /\ FileLengths \in Seq(Nat) /\ FileLengths # <<>>
  /\ Offset[Len(FileLengths)] + FileLengths[Len(FileLengths)] = TotalSize
  /\ CommandCapacity \in Nat \ {0}
  /\ ReadRanges \subseteq BlockRange
  /\ MaxCalls \in Nat

Unwritten == -1
NoReply   == [kind |-> "None"]
NoRange   == [piece |-> 0, offset |-> 0, len |-> 0]

\* The bytes of the torrent from one position on.
Bytes(start, len) == [i \in 1 .. len |-> start + i - 1]

Start(range) == range.piece * PieceLength + range.offset

WholePiece(p) == [piece |-> p, offset |-> 0, len |-> PieceSize(p)]

\* storage_offset finds an offset for the range.
ValidRange(range) ==
  /\ range.piece \in Piece
  /\ range.len > 0
  /\ range.offset + range.len <= PieceLength
  /\ Start(range) + range.len <= TotalSize

-----------------------------------------------------------------------------
\* The layout

\* The positions of the range that lie in file f.
Part(f, start, len) ==
  (start .. start + len - 1) \cap (Offset[f] .. Offset[f] + FileLengths[f] - 1)

Touched(start, len) == {f \in File : Part(f, start, len) # {}}

\* Mutant of Written: write_at does not seek.
WrittenAtFront(f, start, data, limit) ==
  LET part == {pos \in Part(f, start, Len(data)) : pos < limit}
  IN  [k \in 1 .. FileLengths[f] |->
         IF k <= Cardinality(part) THEN data[k] ELSE files[f][k]]

\* Mutant of Written: each file gets the beginning of the data.
WrittenUnsliced(f, start, data, limit) ==
  [k \in 1 .. FileLengths[f] |->
     LET pos == Offset[f] + k - 1
     IN  IF pos \in Part(f, start, Len(data)) /\ pos < limit
         THEN data[1 + (IF start > Offset[f] THEN k - (start - Offset[f]) - 1 ELSE k - 1)]
         ELSE files[f][k]]

\* File f after the bytes of data that belong there, up to the limit where the
\* write stopped, have been written.
Written(f, start, data, limit) ==
  [k \in 1 .. FileLengths[f] |->
     LET pos == Offset[f] + k - 1
     IN  IF pos \in Part(f, start, Len(data)) /\ pos < limit
         THEN data[pos - start + 1]
         ELSE files[f][k]]

\* read_from: what file f has of the range.
FilePart(f, start, len) ==
  LET part == Part(f, start, len)
      from == IF start > Offset[f] THEN start - Offset[f] ELSE 0
  IN  SubSeq(files[f], from + 1, from + Cardinality(part))

\* read_from_files
ReadFiles(start, len) ==
  LET upTo[f \in 0 .. Len(FileLengths)] ==
        IF f = 0 THEN <<>> ELSE upTo[f - 1] \o FilePart(f, start, len)
  IN  upTo[Len(FileLengths)]

-----------------------------------------------------------------------------
\* The callers

\* The owner awaits a write or a flush: it does nothing else meanwhile.
Blocked == \E c \in DOMAIN calls : calls[c].kind # "Read"

Serving == serving /\ ~Blocked

Call(kind, range) ==
  /\ Serving
  /\ nextCall < MaxCalls
  /\ calls' = Insert(calls, nextCall, [kind |-> kind, range |-> range, sent |-> FALSE])
  /\ nextCall' = nextCall + 1
  /\ reply' = NoReply
  /\ UNCHANGED <<files, broken, queue, working, serving, stored>>

\* A piece is written once, when it has been verified.
Write(p) == p \in Piece \ stored /\ Call("Write", WholePiece(p))

\* The swarm uploads from pieces it has only.
Read(range) == range.piece \in stored /\ ValidRange(range) /\ Call("Read", range)

Flush == Call("Flush", NoRange)

Answer(call, ok) == [kind |-> call.kind, range |-> call.range, ok |-> ok]

\* storage_offset fails.
RefuseRead(range) ==
  /\ Serving
  /\ ~ValidRange(range)
  /\ reply' = [kind |-> "Read", range |-> range, ok |-> FALSE]
  /\ UNCHANGED <<files, broken, queue, working, calls, nextCall, serving, stored>>

\* The task that awaits the read is aborted.
CancelRead(c) ==
  /\ Serving
  /\ calls' = Remove(calls, {c})
  /\ reply' = NoReply
  /\ UNCHANGED <<files, broken, queue, working, nextCall, serving, stored>>

\* SwarmIO returns: the tasks that read are aborted, and the storage dropped.
Quit ==
  /\ calls' = EmptyMap
  /\ serving' = FALSE

Leave ==
  /\ Serving
  /\ Quit
  /\ reply' = NoReply
  /\ UNCHANGED <<files, broken, queue, working, nextCall, stored>>

\* cmd_tx.send, which waits while the queue is full.  A write returns with it.
Send(c) ==
  /\ working
  /\ ~calls[c].sent
  /\ Len(queue) < CommandCapacity
  /\ queue' = Append(queue, [id |-> c, kind |-> calls[c].kind, range |-> calls[c].range])
  /\ IF calls[c].kind = "Write"
     THEN /\ calls' = Remove(calls, {c})
          /\ stored' = stored \cup {calls[c].range.piece}
          /\ reply' = Answer(calls[c], TRUE)
     ELSE /\ calls' = [calls EXCEPT ![c].sent = TRUE]
          /\ reply' = NoReply
          /\ UNCHANGED stored
  /\ UNCHANGED <<files, broken, working, nextCall, serving>>

\* The worker is gone: the command cannot be sent, or went with the queue and
\* its reply with it.  The owner returns the error of a write or a flush.
Fail(c) ==
  /\ IF calls[c].sent THEN \A i \in DOMAIN queue : queue[i].id # c ELSE ~working
  /\ reply' = Answer(calls[c], FALSE)
  /\ IF calls[c].kind = "Read"
     THEN calls' = Remove(calls, {c}) /\ UNCHANGED serving
     ELSE Quit
  /\ UNCHANGED <<files, broken, queue, working, nextCall, stored>>

-----------------------------------------------------------------------------
\* The worker

Taking(kind) == working /\ queue # <<>> /\ Head(queue).kind = kind

Continue == queue' = Tail(queue) /\ UNCHANGED working

\* Mutant of Die: the queue outlives the worker.
DieQuietly == working' = FALSE /\ UNCHANGED queue

\* The worker returns, and the queue goes with its receiver.
Die == working' = FALSE /\ queue' = <<>>

\* What a write leaves when it stops at the given position in each file.
WriteFiles(start, data, limit) ==
  files' = [f \in File |-> IF f \in DOMAIN limit THEN Written(f, start, data, limit[f])
                                                 ELSE files[f]]

\* The files whose part is not complete.
Short(start, len, limit) == {f \in DOMAIN limit : \E pos \in Part(f, start, len) : pos >= limit[f]}

\* write_to_files, file by file.  One whose last write failed says so and takes
\* nothing.  A failure shows at once (told) and ends the worker before the next
\* file, or is left for later.
PerformWrite(limit, told) ==
  LET range == Head(queue).range
      start == Start(range)
      short == Short(start, range.len, limit)
      until == {f \in DOMAIN limit : told = {} \/ \A g \in told : f <= g}
  IN  /\ told \subseteq short
      /\ broken \cap until \subseteq told
      /\ \A f \in DOMAIN limit : f \in broken \/ f \notin until => limit[f] = start
      /\ WriteFiles(start, Bytes(start, range.len), limit)
      /\ broken' = broken \cup (short \cap until)
      /\ IF told = {} THEN Continue ELSE Die

TakeWrite ==
  /\ Taking("Write")
  /\ LET range   == Head(queue).range
         touched == Touched(Start(range), range.len)
     IN  \E limit \in [touched -> Start(range) .. Start(range) + range.len] :
           \E told \in {{}} \cup {{f} : f \in touched} : PerformWrite(limit, told)
  /\ reply' = NoReply
  /\ UNCHANGED <<calls, nextCall, serving, stored>>

\* The files are read, which may fail and ends nothing.
AnswerRead ==
  /\ Taking("Read")
  /\ LET command == Head(queue)
     IN  /\ command.id \in DOMAIN calls
         /\ calls' = Remove(calls, {command.id})
         /\ \/ reply' = Answer(command, FALSE)
            \/ reply' = [kind |-> "Read", range |-> command.range, ok |-> TRUE,
                         data |-> ReadFiles(Start(command.range), command.range.len)]
  /\ Continue
  /\ UNCHANGED <<files, broken, nextCall, serving, stored>>

\* Mutant of SkipRead: a return in place of the continue.
SkipReadAndReturn ==
  /\ Taking("Read")
  /\ Head(queue).id \notin DOMAIN calls
  /\ reply' = NoReply
  /\ Die
  /\ UNCHANGED <<files, broken, calls, nextCall, serving, stored>>

\* Nobody waits for it any more.
SkipRead ==
  /\ Taking("Read")
  /\ Head(queue).id \notin DOMAIN calls
  /\ reply' = NoReply
  /\ Continue
  /\ UNCHANGED <<files, broken, calls, nextCall, serving, stored>>

\* Mutant of Flushed: only the first file is flushed.
FlushedFirst == 1 \notin broken

\* flush_files: each file tells whether its last write failed.
Flushed == broken = {}

AnswerFlush ==
  /\ Taking("Flush")
  /\ reply' = Answer(Head(queue), Flushed)
  /\ IF Flushed
     THEN Continue /\ calls' = Remove(calls, {Head(queue).id}) /\ UNCHANGED serving
     ELSE Die /\ Quit
  /\ UNCHANGED <<files, broken, nextCall, stored>>

\* All senders are gone.
End ==
  /\ working /\ ~serving /\ queue = <<>>
  /\ working' = FALSE
  /\ reply' = NoReply
  /\ UNCHANGED <<files, broken, queue, calls, nextCall, serving, stored>>

\* The program ends once the owner has returned (main.rs lines 76-79): nobody
\* waits for the worker, and what is queued is lost.
Exit ==
  /\ working /\ ~serving
  /\ Die
  /\ reply' = NoReply
  /\ UNCHANGED <<files, broken, calls, nextCall, serving, stored>>

Worker == TakeWrite \/ AnswerRead \/ SkipRead \/ AnswerFlush \/ End

\* The files as they were found, with some pieces in place.
DiskInit ==
  /\ \E found \in SUBSET Piece :
       /\ stored = found
       /\ files = [f \in File |-> [k \in 1 .. FileLengths[f] |->
            IF (Offset[f] + k - 1) \div PieceLength \in found THEN Offset[f] + k - 1
                                                              ELSE Unwritten]]
  /\ broken = {}
  /\ queue = <<>>
  /\ working = TRUE
  /\ calls = EmptyMap
  /\ nextCall = 0
  /\ serving = TRUE
  /\ reply = NoReply

DiskNext ==
  \/ \E p \in Piece : Write(p)
  \/ \E range \in ReadRanges : Read(range) \/ RefuseRead(range)
  \/ Flush
  \/ \E c \in DOMAIN calls : CancelRead(c) \/ Send(c) \/ Fail(c)
  \/ Leave
  \/ Worker
  \/ Exit

DiskSpec == DiskInit /\ [][DiskNext]_diskVars

=============================================================================
