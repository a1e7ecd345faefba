----------------------------- MODULE SwarmIOProofs -----------------------------
(***************************************************************************)
(* What SwarmIO guarantees, for every torrent geometry, every set of       *)
(* addresses and connections, any number of tasks and every bound.  The    *)
(* swarm's half is taken from SwarmProofs and the tasks' half from         *)
(* SessionProofs; what is shown here is that the outputs still to be       *)
(* performed keep the two in agreement.                                    *)
(***************************************************************************)
EXTENDS SwarmIOProperties, SwarmProofs, SessionProofs

-----------------------------------------------------------------------------
\* What a step of the swarm asks for

\* Reads are started and cancelled by requests, cancellations, the status, and
\* the departure of connections only.
LEMMA ReadOutputs ==
  ASSUME Next, NEW o \in out', o.kind \in {"ReadForUpload", "CancelUploadRead"}
  PROVE  \/ \E c \in Connections : AcceptConnection(c)
         \/ \E a \in Addr : PeerDisconnected(a)
         \/ \E a \in Addr, m \in Messages : OnRequest(a, m)
         \/ \E a \in Addr, m \in Messages : OnCancel(a, m)
         \/ \E s \in Statuses : SetStatus(s)
<1> USE DEF Send, Bare, DisconnectPeer, ConnectPeer, Dial, Reply,
            Interested, Broadcast, WritePiece, DownloadCompleted, Request, PieceData
<1>1. ASSUME NEW data \in LocalContents, LocalPiece(data) PROVE FALSE
  BY <1>1 DEF LocalPiece
<1>2. ASSUME NEW c \in Connections, RejectConnection(c) PROVE FALSE
  BY <1>2 DEF RejectConnection
<1>3. ASSUME NEW addrs \in Discoveries, PeersDiscovered(addrs) PROVE FALSE
  BY <1>3 DEF PeersDiscovered
<1>4. ASSUME NEW a \in Addr, NEW m \in Messages, MessageReceived(a, m)
      PROVE  OnRequest(a, m) \/ OnCancel(a, m)
  <2>1. ~OnPiece(a, m)
    BY DEF OnPiece, Announce
  <2>2. ~OnMetadataRequest(a, m) /\ ~OnPex(a, m)
    BY DEF OnMetadataRequest, OnPex
  <2>3. /\ ~RejectMessage(a, m) /\ ~OnAvailability(a, m) /\ ~OnAllowedFast(a, m)
        /\ ~OnChoke(a, m) /\ ~OnUnchoke(a, m) /\ ~OnInterested(a, m)
        /\ ~OnRejectRequest(a, m) /\ ~OnQuiet(a, m)
    BY DEF RejectMessage, OnAvailability, OnAllowedFast, OnChoke, OnUnchoke, OnInterested,
         OnRejectRequest, OnQuiet
  <2> QED
    BY <1>4, <2>1, <2>2, <2>3 DEF MessageReceived
<1>5. ASSUME NEW r \in UploadRanges, NEW id \in 0 .. MaxReads - 1, UploadReadCompleted(id, r)
      PROVE  FALSE
  BY <1>5 DEF UploadReadCompleted
<1>6. ASSUME TickBlock \/ PlanPick PROVE FALSE
  BY <1>6 DEF TickBlock, PlanPick
<1>7. ASSUME TickPex PROVE FALSE
  BY <1>7 DEF TickPex
<1> QED
  BY <1>1, <1>2, <1>3, <1>4, <1>5, <1>6, <1>7 DEF Next, PeerConnected

\* A read that is asked for is the only output of its step, is pending under a
\* new id, and is not followed by plan().
LEMMA ReadStarted ==
  ASSUME TypeInv, Next, NEW o \in out', o.kind = "ReadForUpload"
  PROVE  /\ out' = {ReadForUpload(nextReadId, o.range)} /\ o.id = nextReadId
         /\ nextReadId < MaxReads /\ nextReadId' = nextReadId + 1
         /\ budget' = 0
         /\ o.range \notin DOMAIN pending
         /\ DOMAIN pending' = DOMAIN pending \cup {o.range}
         /\ pending'[o.range].id = nextReadId
         /\ \A r \in DOMAIN pending : pending'[r] = pending[r]
<1> USE DEF Send, Bare, DisconnectPeer, Interested, CancelUploadRead, Cancelled
<1>1. ASSUME NEW c \in Connections, AcceptConnection(c) PROVE FALSE
  BY <1>1 DEF AcceptConnection
<1>2. ASSUME NEW a \in Addr, PeerDisconnected(a) PROVE FALSE
  BY <1>2 DEF PeerDisconnected
<1>3. ASSUME NEW a \in Addr, NEW m \in Messages, OnCancel(a, m) PROVE FALSE
  BY <1>3 DEF OnCancel
<1>4. ASSUME NEW s \in Statuses, SetStatus(s) PROVE FALSE
  BY <1>4 DEF SetStatus
<1>5. PICK a \in Addr, m \in Messages : OnRequest(a, m)
  BY <1>1, <1>2, <1>3, <1>4, ReadOutputs
<1>6. /\ m.range \notin DOMAIN pending /\ nextReadId < MaxReads /\ StartRead(a, m.range)
      /\ out' = {ReadForUpload(nextReadId, m.range)} /\ budget' = budget /\ budget = 0
  BY <1>5 DEF OnRequest, Receive, Idle
<1>7. o.range = m.range /\ o.id = nextReadId
  BY <1>6 DEF ReadForUpload
<1> QED
  BY <1>6, <1>7 DEF StartRead, Insert

\* Without one, what is pending was pending before, under the same id.
LEMMA NoReadStarted ==
  ASSUME TypeInv, Next, \A o \in out' : o.kind # "ReadForUpload"
  PROVE  /\ nextReadId' = nextReadId
         /\ DOMAIN pending' \subseteq DOMAIN pending
         /\ \A r \in DOMAIN pending' : pending'[r].id = pending[r].id
<1>1. UploadsOK
  BY DEF TypeInv, TypeOK
<1>2. ASSUME NEW old, CancelUploadsOf(old)
      PROVE  /\ nextReadId' = nextReadId
             /\ DOMAIN pending' \subseteq DOMAIN pending
             /\ \A r \in DOMAIN pending' : pending'[r].id = pending[r].id
  BY <1>1, <1>2 DEF CancelUploadsOf, UploadsOK, PendingRead
<1>3. ASSUME NEW a \in Addr, NEW m \in Messages, OnRequest(a, m)
      PROVE  UNCHANGED uploadVars \/ (m.range \in DOMAIN pending /\ ShareRead(a, m.range))
  <2>1. ReadForUpload(nextReadId, m.range).kind = "ReadForUpload"
    BY DEF ReadForUpload
  <2>2. out' # {ReadForUpload(nextReadId, m.range)}
    BY <2>1
  <2> QED
    BY <1>3, <2>2 DEF OnRequest
<1>4. ASSUME NEW a \in Addr, NEW m \in Messages, OnCancel(a, m)
      PROVE  /\ nextReadId' = nextReadId
             /\ DOMAIN pending' \subseteq DOMAIN pending
             /\ \A r \in DOMAIN pending' : pending'[r].id = pending[r].id
  <2>1. CancelUpload(a, m.range)
    BY <1>4 DEF OnCancel
  <2>2. DOMAIN pending' \subseteq DOMAIN pending /\ nextReadId' = nextReadId
    BY <2>1 DEF CancelUpload, Remove
  <2>3. ASSUME NEW r \in DOMAIN pending' PROVE pending'[r].id = pending[r].id
    BY <1>1, <2>1, <2>2, <2>3 DEF CancelUpload, Remove, UploadsOK, PendingRead
  <2> QED
    BY <2>2, <2>3
<1>5. ASSUME NEW a, NEW r \in DOMAIN pending, ShareRead(a, r)
      PROVE  /\ nextReadId' = nextReadId
             /\ DOMAIN pending' \subseteq DOMAIN pending
             /\ \A s \in DOMAIN pending' : pending'[s].id = pending[s].id
  BY <1>1, <1>5 DEF ShareRead, UploadsOK, PendingRead
<1>6. ASSUME NEW r \in UploadRanges, NEW id \in 0 .. MaxReads - 1, UploadReadCompleted(id, r)
      PROVE  /\ nextReadId' = nextReadId
             /\ DOMAIN pending' \subseteq DOMAIN pending
             /\ \A s \in DOMAIN pending' : pending'[s].id = pending[s].id
  BY <1>6 DEF UploadReadCompleted, Remove
<1>7. ASSUME NEW s \in Statuses, SetStatus(s)
      PROVE  /\ nextReadId' = nextReadId
             /\ DOMAIN pending' \subseteq DOMAIN pending
             /\ \A r \in DOMAIN pending' : pending'[r].id = pending[r].id
  BY <1>7 DEF SetStatus, EmptyMap
<1> QED
  BY <1>2, <1>3, <1>4, <1>5, <1>6, <1>7, UploadFootprint
     DEF AcceptConnection, PeerDisconnected, uploadVars

\* A read that is cancelled was pending and is not any more.
LEMMA ReadCancelled ==
  ASSUME TypeInv, Next, NEW o \in out', o.kind = "CancelUploadRead"
  PROVE  \E r \in DOMAIN pending : pending[r].id = o.id /\ r \notin DOMAIN pending'
<1> USE DEF Send, Bare, DisconnectPeer, Interested, CancelUploadRead, Cancelled
<1>1. ASSUME NEW old, o \in Cancelled(Orphaned(old)), CancelUploadsOf(old)
      PROVE  \E r \in DOMAIN pending : pending[r].id = o.id /\ r \notin DOMAIN pending'
  BY <1>1 DEF CancelUploadsOf, Orphaned
<1>2. ASSUME NEW c \in Connections, AcceptConnection(c)
      PROVE  o \in Cancelled(Orphaned(Replaced(c))) /\ CancelUploadsOf(Replaced(c))
  BY <1>2 DEF AcceptConnection
<1>3. ASSUME NEW a \in Addr, PeerDisconnected(a)
      PROVE  o \in Cancelled(Orphaned({a})) /\ CancelUploadsOf({a})
  BY <1>3 DEF PeerDisconnected
<1>4. ASSUME NEW a \in Addr, NEW m \in Messages, OnRequest(a, m) PROVE FALSE
  BY <1>4 DEF OnRequest, ReadForUpload
<1>5. ASSUME NEW a \in Addr, NEW m \in Messages, OnCancel(a, m)
      PROVE  \E r \in DOMAIN pending : pending[r].id = o.id /\ r \notin DOMAIN pending'
  BY <1>5 DEF OnCancel, CancelsRead, CancelUpload, Remove
<1>6. ASSUME NEW s \in Statuses, SetStatus(s)
      PROVE  \E r \in DOMAIN pending : pending[r].id = o.id /\ r \notin DOMAIN pending'
  BY <1>6 DEF SetStatus, EmptyMap
<1> QED
  BY <1>1, <1>2, <1>3, <1>4, <1>5, <1>6, ReadOutputs

\* Peers are only sent to, disconnected and dialled at addresses.
Addressed(o) == o.kind \in {"SendToPeer", "DisconnectPeer", "ConnectPeer"} => o.addr \in Addr

\* The swarm addresses its outputs to peers it knows of.
LEMMA OutputAddresses ==
  ASSUME TypeInv, Next, NEW o \in out'
  PROVE  Addressed(o)
<1> USE DEF Send, Bare, DisconnectPeer, ConnectPeer, CancelUploadRead, Cancelled, Dial, Reply,
            Interested, Broadcast, WritePiece, DownloadCompleted, ReadForUpload, Request, PieceData,
            Addressed
<1>1. RegistryOK /\ RegistryOK'
  BY RegistryOKStep DEF TypeInv, TypeOK
<1>2. /\ DOMAIN peers \subseteq Addr /\ seeders' \subseteq Addr /\ seeders \cup leechers \subseteq Addr
      /\ \A p \in PieceIndex : byPiece[p] \subseteq Addr
  BY <1>1 DEF RegistryOK
<1>3. ASSUME NEW c \in Connections
      PROVE  c.addr \in Addr /\ (HasConnection(c.id) => byId[c.id].addr \in Addr)
  BY <1>1, SwarmAssumption DEF Connection, RegistryOK, HasConnection, ActiveConnection
<1>4. ASSUME NEW data \in LocalContents, LocalPiece(data) PROVE FALSE
  BY <1>4 DEF LocalPiece
<1>5. ASSUME NEW c \in Connections, PeerConnected(c) PROVE Addressed(o)
  BY <1>3, <1>5 DEF PeerConnected, RejectConnection, AcceptConnection, Replaced
<1>6. ASSUME NEW a \in Addr, PeerDisconnected(a) PROVE Addressed(o)
  BY <1>6 DEF PeerDisconnected
<1>7. ASSUME NEW addrs \in Discoveries, PeersDiscovered(addrs) PROVE Addressed(o)
  BY <1>7, SwarmAssumption DEF PeersDiscovered
<1>8. ASSUME NEW a \in Addr, NEW m \in Messages, MessageReceived(a, m) PROVE Addressed(o)
  <2>1. CASE OnPiece(a, m)
    BY <1>2, <2>1 DEF OnPiece, Announce
  <2>2. CASE OnRequest(a, m) \/ OnCancel(a, m)
    BY <2>2 DEF OnRequest, OnCancel
  <2>3. CASE \/ RejectMessage(a, m) \/ OnAvailability(a, m) \/ OnAllowedFast(a, m)
             \/ OnChoke(a, m) \/ OnUnchoke(a, m) \/ OnInterested(a, m)
             \/ OnRejectRequest(a, m) \/ OnQuiet(a, m) \/ OnMetadataRequest(a, m)
    BY <2>3 DEF RejectMessage, OnAvailability, OnAllowedFast, OnChoke, OnUnchoke,
         OnInterested, OnRejectRequest, OnQuiet, OnMetadataRequest
  <2>4. CASE OnPex(a, m)
    <3>1. m.type = "Pex" /\ o \in Dial(m.addrs)
      BY <2>4 DEF OnPex, Receive
    <3>2. m.addrs \subseteq Addr
      BY <3>1, SwarmAssumption DEF Message, Plain, Indexed, Ranged
    <3> QED
      BY <3>1, <3>2
  <2> QED
    BY <1>8, <2>1, <2>2, <2>3, <2>4 DEF MessageReceived
<1>9. ASSUME NEW r \in UploadRanges, NEW id \in 0 .. MaxReads - 1, UploadReadCompleted(id, r)
      PROVE  Addressed(o)
  BY <1>2, <1>9 DEF UploadReadCompleted
<1>10. ASSUME NEW s \in Statuses, SetStatus(s) PROVE Addressed(o)
  BY <1>10 DEF SetStatus
<1>11. CASE TickBlock \/ TickPex
  BY <1>2, <1>11 DEF TickBlock, TickPex
<1>12. CASE PlanPick
  <2>1. PICK b \in NextBlocks : \E a \in byPiece[b.piece] : out' = {Interested(a), Send(a, Request(b))}
    BY <1>12 DEF PlanPick
  <2>2. b.piece \in PieceIndex
    <3>1. b \in WantedBlocks
      BY <2>1 DEF NextBlocks, Plannable
    <3> QED
      BY <3>1, WantedAreBlocks, PiecesAreIndices DEF AllBlocks
  <2> QED
    BY <1>2, <2>1, <2>2
<1> QED
  BY <1>4, <1>5, <1>6, <1>7, <1>8, <1>9, <1>10, <1>11, <1>12 DEF Next

-----------------------------------------------------------------------------
\* The swarm's half

\* What SwarmProofs shows of the swarm, as far as it is needed here.
SwarmInv == TypeInv /\ RequestsCanBeAnswered /\ ReadsInv /\ PendingInv

\* The invariant of the swarm, from the theorems about it, holds at the start.
LEMMA SwarmInvInit == Init => SwarmInv
<1> SUFFICES ASSUME Init PROVE SwarmInv
  OBVIOUS
<1>1. DOMAIN pending = {} /\ assigned = {}
  BY DEF Init, UploadsInit, EmptyMap, AssignmentsInit
<1> QED
  BY <1>1, TypeInvInit, FS_EmptySet
     DEF SwarmInv, RequestsCanBeAnswered, ReadsInv, PendingReadsAreWanted, PendingInv

\* Every step of the swarm keeps it.
LEMMA SwarmInvStep == SwarmInv /\ [Next]_vars => SwarmInv'
BY TypeInvStep, RequestsStep, ReadsStep, PendingInvStep DEF SwarmInv

\* None of it is about the outputs.
LEMMA SwarmInvNoStep == SwarmInv /\ NoStep => SwarmInv'
<1> SUFFICES ASSUME SwarmInv, NoStep PROVE SwarmInv'
  OBVIOUS
<1> USE DEF NoStep, pieceVars, registryVars, uploadVars
<1>1. TypeInv'
  BY DEF SwarmInv, TypeInv, TypeOK, PiecesOK, RegistryOK, AssignmentsOK, UploadsOK, BlocksAssigned
<1>2. RequestsCanBeAnswered'
  BY DEF SwarmInv, RequestsCanBeAnswered, CanServe, Known
<1>3. ReadsInv'
  BY DEF SwarmInv, ReadsInv, PendingReadsAreWanted, ValidUploadRange, IsComplete, Uploads
<1>4. PendingInv'
  BY DEF SwarmInv, PendingInv
<1> QED
  BY <1>1, <1>2, <1>3, <1>4 DEF SwarmInv

-----------------------------------------------------------------------------
\* Outputs on their way

Outputs == todo \cup nested
OutputsOK == \A o \in Outputs : Addressed(o)

\* Performing an output takes no other away.
LEMMA PerformedKeeps ==
  ASSUME NEW o \in ToPerform, NEW more, Performed(o, more)
  PROVE  /\ o \in Outputs
         /\ (Outputs \ {o}) \cup more \subseteq Outputs'
         /\ Outputs' \subseteq Outputs \cup more
BY DEF Performed, ToPerform, Outputs

\* The tasks and links of the program.
SwarmTasks == TaskInv(Addr, Connections, Messages)

\* Every read that runs has an id the swarm gave out, and no two have the same.
ReadsOK ==
  /\ nextReadId <= MaxReads
  /\ reads \subseteq [id : 0 .. nextReadId - 1, range : UploadRanges]
  /\ \A t, u \in reads : t.id = u.id => t = u

\* What an event brings is what the swarm may be told.
LEMMA TakenEvent ==
  ASSUME SwarmTasks, events # <<>>
  PROVE  /\ Head(events) = events[1] /\ 1 \in DOMAIN events
         /\ events[1].addr \in Addr
         /\ events[1].kind = "Connected" =>
              events[1].link \in Connections /\ events[1].link.addr = events[1].addr
         /\ events[1].kind = "Message" => events[1].message \in Messages
<1>1. events \in Seq(Event(Addr, Connections, Messages))
  BY DEF SwarmTasks, TaskInv, TasksOK
<1>2. 1 \in DOMAIN events /\ events[1] \in Event(Addr, Connections, Messages)
  <2>1. Len(events) \in Nat \ {0} /\ DOMAIN events = 1 .. Len(events)
    BY <1>1, EmptySeq
  <2> QED
    BY <1>1, <2>1
<1> QED
  BY <1>1, <1>2 DEF Event, SwarmTasks, TaskInv, TasksOK

\* The state of the swarm, without the outputs of its last step.
swarmState == <<pieceVars, registryVars, assigned, uploadVars, status, budget, restored>>

\* Each input and each output performed is a step of the swarm, or none.
LEMMA SwarmPart ==
  ASSUME SwarmInv, SwarmTasks, OutputsOK, ReadsOK, IONext
  PROVE  Next \/ NoStep \/ UNCHANGED ioVars
<1>1. CASE Restore \/ Discover \/ Command \/ Tick \/ Plan
  BY <1>1 DEF Restore, Discover, Command, Tick, Plan, Next
<1>2. CASE \/ \E c \in Connections : AcceptInbound(c)
           \/ Return
           \/ \E s \in DOMAIN sessions : Task(s)
  BY <1>2 DEF AcceptInbound, Return, Task
<1>3. CASE TakeEvent
  BY <1>3, TakenEvent DEF TakeEvent, TakeConnected, TakeDisconnected, TakeMessage, Next
<1>4. ASSUME NEW t \in reads, JoinRead(t) PROVE Next \/ NoStep
  <2>1. t.id \in 0 .. nextReadId - 1 /\ t.range \in UploadRanges
    BY DEF ReadsOK
  <2>2. t.id \in 0 .. MaxReads - 1
    BY <2>1, SwarmAssumption DEF ReadsOK, SwarmInv, TypeInv, TypeOK, UploadsOK
  <2> QED
    BY <1>4, <2>1, <2>2 DEF JoinRead, Next
<1>5. ASSUME NEW o \in ToPerform, HandleOutput(o) PROVE Next \/ NoStep
  <2>1. ASSUME DisconnectAfter(o), o.kind \in {"DisconnectPeer", "SendToPeer"} PROVE Next
    <3>1. o.addr \in Addr
      BY <2>1 DEF OutputsOK, Outputs, ToPerform, Addressed
    <3> QED
      BY <2>1, <3>1 DEF DisconnectAfter, Next
  <2> QED
    BY <1>5, <2>1 DEF HandleOutput, Connect, Disconnect, SendToPeer, SendFails, BroadcastAll, Read,
                      CancelRead, Store, Performing
<1>6. CASE Over
  BY <1>6 DEF Over
<1> QED
  BY <1>1, <1>2, <1>3, <1>4, <1>5, <1>6 DEF IONext

\* So the swarm's half stays as it is alone.
LEMMA SwarmInvIO ==
  ASSUME SwarmInv, SwarmTasks, OutputsOK, ReadsOK, IONext
  PROVE  SwarmInv'
BY SwarmPart, SwarmInvStep, SwarmInvNoStep DEF ioVars

-----------------------------------------------------------------------------
\* Addresses of outputs

\* What is performed was asked for by a step, or is to be disconnected because
\* a broadcast did not reach it.
LEMMA OutputsFrom ==
  ASSUME IONext
  PROVE  Outputs' \subseteq Outputs \cup out' \cup {DisconnectPeer(a) : a \in DOMAIN peerCmds}
<1>1. CASE Restore \/ (\E c \in Connections : AcceptInbound(c)) \/ (\E s \in DOMAIN sessions : Task(s)) \/ Over
  BY <1>1 DEF Restore, AcceptInbound, Task, Over, ioVars, outputVars, Outputs
<1>2. CASE Discover \/ Command \/ Tick \/ TakeEvent
  BY <1>2 DEF Discover, Command, Tick, TakeEvent, Perform, Outputs
<1>3. CASE \E t \in reads : JoinRead(t)
  BY <1>3 DEF JoinRead, Perform, outputVars, Outputs
<1>4. CASE Plan
  BY <1>4 DEF Plan, Outputs
<1>5. CASE Return
  BY <1>5 DEF Return, Outputs
<1>6. ASSUME NEW o \in ToPerform, HandleOutput(o)
      PROVE  Outputs' \subseteq Outputs \cup out' \cup {DisconnectPeer(a) : a \in DOMAIN peerCmds}
  <2>1. \E more : Performed(o, more) /\ more \subseteq out' \cup {DisconnectPeer(a) : a \in DOMAIN peerCmds}
    <3>1. CASE BroadcastAll(o)
      BY <3>1 DEF BroadcastAll
    <3> QED
      BY <1>6, <3>1 DEF HandleOutput, Connect, Disconnect, SendToPeer, SendFails, DisconnectAfter,
                        Read, CancelRead, Store
  <2> QED
    BY <2>1, PerformedKeeps
<1> QED
  BY <1>1, <1>2, <1>3, <1>4, <1>5, <1>6 DEF IONext

\* No step makes outputs wait that may not wait together.
LEMMA OutputsOKStep ==
  ASSUME SwarmInv, SwarmTasks, OutputsOK, ReadsOK, IONext
  PROVE  OutputsOK'
<1>1. CASE UNCHANGED ioVars
  BY <1>1 DEF OutputsOK, Outputs, ioVars, outputVars
<1>2. CASE Next \/ NoStep
  <2>1. \A o \in out' : Addressed(o)
    BY <1>2, OutputAddresses DEF NoStep, SwarmInv
  <2>2. \A a \in DOMAIN peerCmds : Addressed(DisconnectPeer(a))
    BY DEF SwarmTasks, TaskInv, TasksOK, Addressed, DisconnectPeer
  <2>3. \A o \in Outputs' : Addressed(o)
    BY <2>1, <2>2, OutputsFrom DEF OutputsOK
  <2> QED
    BY <2>3 DEF OutputsOK, Addressed
<1> QED
  BY <1>1, <1>2, SwarmPart

-----------------------------------------------------------------------------
\* The tasks' half

\* What outputs are performed for.
LEMMA PerformingRuns ==
  ASSUME NEW o, NEW kinds, Performing(o, kinds)
  PROVE  running /\ budget = 0 /\ o \in ToPerform /\ o \in Outputs /\ o.kind \in kinds
BY DEF Performing, Idle, ToPerform, Outputs

\* A task is spawned for an address that has none, and is not live yet.
Spawned ==
  \E a \in Addr : \E task \in PeerTask(Addr, Connections) :
    /\ task.addr = a /\ LinkFits(task) /\ task.phase # "Live"
    /\ Launch(a, task)
    /\ a \notin DOMAIN peerCmds

\* An inbound connection is dropped or becomes a new task.
LEMMA AcceptSpawns ==
  ASSUME NEW c \in Connections, AcceptInbound(c)
  PROVE  UNCHANGED taskVars \/ Spawned
<1>1. Inbound(c) \in PeerTask(Addr, Connections) /\ c.addr \in Addr
  BY SwarmAssumption DEF Inbound, PeerTask, Phase, Connection
<1>2. Inbound(c).addr = c.addr /\ LinkFits(Inbound(c)) /\ Inbound(c).phase # "Live"
  BY DEF Inbound, LinkFits
<1> QED
  BY <1>1, <1>2 DEF AcceptInbound, Spawn, Spawned

\* So is one the swarm asked for.
LEMMA ConnectSpawns ==
  ASSUME OutputsOK, NEW o, Connect(o)
  PROVE  UNCHANGED taskVars \/ Spawned
<1>1. o.addr \in Addr
  BY PerformingRuns DEF Connect, OutputsOK, Addressed
<1>2. /\ Outbound(o.addr) \in PeerTask(Addr, Connections)
      /\ Outbound(o.addr).addr = o.addr /\ LinkFits(Outbound(o.addr)) /\ Outbound(o.addr).phase # "Live"
  BY <1>1 DEF Outbound, PeerTask, LinkFits
<1> QED
  BY <1>1, <1>2 DEF Connect, Spawn, Spawned

\* The messages a step may receive are messages.
LEMMA TaskSteps ==
  ASSUME NEW s, Task(s)
  PROVE  SessionStep(s, Connections, Messages)
BY DEF Task, SessionStep, Receivable

\* Each step of the composition does to the tasks what SessionProofs is about.
LEMMA SwarmTasksStep ==
  ASSUME SwarmTasks, OutputsOK, IONext
  PROVE  SwarmTasks'
<1>1. ASSUME UNCHANGED <<sessions, nextSession, peerCmds, events, running>> PROVE SwarmTasks'
  BY <1>1, TaskInvUnchanged DEF SwarmTasks
<1>2. ASSUME UNCHANGED taskVars \/ Spawned, running, UNCHANGED <<events, running>> PROVE SwarmTasks'
  BY <1>1, <1>2, LaunchStep DEF SwarmTasks, Spawned, taskVars
<1>3. CASE \/ Restore \/ Discover \/ Command \/ Tick \/ Plan \/ Over
           \/ \E t \in reads : JoinRead(t)
  BY <1>1, <1>3 DEF Restore, Discover, Command, Tick, Plan, Over, JoinRead, ioVars, sessionVars, taskVars
<1>4. ASSUME NEW c \in Connections, AcceptInbound(c) PROVE SwarmTasks'
  BY <1>2, <1>4, AcceptSpawns DEF AcceptInbound, Selecting
<1>5. CASE TakeEvent
  <2>1. events # <<>> /\ events' = Tail(events) /\ UNCHANGED <<sessions, nextSession, running>>
    BY <1>5 DEF TakeEvent, TakeConnected, TakeDisconnected, TakeMessage, Forget, taskVars
  <2>2. IF events[1].kind = "Disconnected" THEN Forget(events[1].addr) ELSE UNCHANGED peerCmds
    BY <1>5, <2>1, TakenEvent DEF TakeEvent, TakeConnected, TakeDisconnected, TakeMessage, taskVars
  <2> QED
    BY <2>1, <2>2, TakeStep DEF SwarmTasks
<1>6. ASSUME NEW o \in ToPerform, HandleOutput(o) PROVE SwarmTasks'
  <2>1. CASE Connect(o)
    BY <1>2, <2>1, ConnectSpawns DEF Connect, Performing
  <2>2. CASE Disconnect(o) \/ SendFails(o)
    BY <2>2, DropStep DEF Disconnect, SendFails, DisconnectAfter, SwarmTasks
  <2>3. CASE SendToPeer(o) \/ BroadcastAll(o) \/ Read(o) \/ CancelRead(o) \/ Store(o)
    BY <1>1, <2>3 DEF SendToPeer, BroadcastAll, Read, CancelRead, Store, sessionVars, taskVars
  <2> QED
    BY <1>6, <2>1, <2>2, <2>3 DEF HandleOutput
<1>7. CASE Return
  BY <1>7, ReturnStep DEF Return, SwarmTasks
<1>8. ASSUME NEW s \in DOMAIN sessions, Task(s) PROVE SwarmTasks'
  BY <1>8, TaskSteps, TaskInvStep DEF SwarmTasks
<1> QED
  BY <1>3, <1>4, <1>5, <1>6, <1>7, <1>8 DEF IONext

-----------------------------------------------------------------------------
\* Peers and their tasks

\* Something is about to be sent to the address, or it is about to be disconnected.
ToDisconnect(a) == \E o \in Outputs : o.kind = "DisconnectPeer" /\ o.addr = a
ToSend(a)       == \E o \in Outputs : o.kind = "SendToPeer" /\ o.addr = a

\* A peer without a channel is one that the swarm will be told to be gone.
PeersHaveChannels ==
  running => \A a \in DOMAIN peers : a \in DOMAIN peerCmds \/ ToSend(a) \/ ToDisconnect(a)

ConnectedAt(i, a) == events[i].kind = "Connected" /\ events[i].addr = a

\* The latest connection of the address on its way to the swarm is that of task s.
LastConnected(a, s) ==
  \E i \in DOMAIN events :
    /\ ConnectedAt(i, a) /\ events[i].link = sessions[s].link
    /\ \A j \in DOMAIN events : j > i => ~ConnectedAt(j, a)

\* The swarm knows the address as the peer of task s, and will go on to.
KnownAs(a, s) ==
  /\ \A i \in DOMAIN events : ~ConnectedAt(i, a)
  /\ a \in DOMAIN peers /\ peers[a].id = sessions[s].link.id

\* No other task has the same address.
Alone(s) == \A t \in DOMAIN sessions : sessions[t].addr = sessions[s].addr => t = s

\* The live task of a channel is known to the swarm, or will be, or is to be
\* disconnected; unless there is another task of its address, or an end of one
\* on its way, whose events the swarm cannot tell from those of this one.
LivePeersKnown ==
  \A a \in DOMAIN peerCmds, s \in DOMAIN sessions :
    peerCmds[a] = s /\ sessions[s].phase = "Live" /\ Alone(s) /\ ~EndReported(a)
      => LastConnected(a, s) \/ KnownAs(a, s) \/ ToDisconnect(a)

\* A step that leaves the peers and the tasks alone, and loses no output but what
\* a channel took.
Calm ==
  /\ UNCHANGED <<peers, sessions, peerCmds, events, running>>
  /\ running => \A o \in Outputs :
       \/ o.kind \notin {"SendToPeer", "DisconnectPeer"}
       \/ o \in Outputs'
       \/ o.kind = "SendToPeer" /\ o.addr \in DOMAIN peerCmds

\* The loop has nothing to perform when it takes an input.
LEMMA SelectingIsEmpty == Selecting => running /\ Outputs = {} /\ budget = 0 /\ nested = {}
BY DEF Selecting, Outputs, Idle

\* The ways in which a step of SwarmIO can touch peers, their tasks and their events.
LEMMA CalmSteps ==
  ASSUME OutputsOK, IONext
  PROVE  \/ Calm
         \/ Spawned /\ UNCHANGED <<peers, events, running>> /\ running
              /\ \A o \in Outputs : o.kind = "ConnectPeer" \/ o \in Outputs'
         \/ TakeEvent
         \/ \E o \in ToPerform : o.kind \in {"SendToPeer", "DisconnectPeer"} /\ DisconnectAfter(o)
         \/ ~running'
         \/ \E s \in DOMAIN sessions : Task(s)
<1> USE DEF Calm
<1>1. CASE Restore
  BY <1>1 DEF Restore, LocalPiece, sessionVars, taskVars, registryVars, outputVars, Outputs
<1>2. CASE Discover \/ Command \/ Tick
  BY <1>2, SelectingIsEmpty DEF Discover, PeersDiscovered, Command, SetStatus, Tick, TickBlock, TickPex,
       sessionVars, taskVars, registryVars
<1>3. ASSUME NEW c \in Connections, AcceptInbound(c)
      PROVE  Calm \/ (Spawned /\ UNCHANGED <<peers, events, running>> /\ running /\ Outputs = {})
  BY <1>3, AcceptSpawns, SelectingIsEmpty DEF AcceptInbound, NoStep, registryVars, taskVars
<1>4. ASSUME NEW t \in reads, JoinRead(t) PROVE Calm
  BY <1>4, SelectingIsEmpty DEF JoinRead, UploadReadCompleted, NoStep, registryVars, sessionVars, taskVars
<1>5. CASE Plan
  BY <1>5 DEF Plan, PlanPick, Pick, registryVars, sessionVars, taskVars, Outputs
<1>6. ASSUME NEW o \in ToPerform, HandleOutput(o),
             ~(o.kind \in {"SendToPeer", "DisconnectPeer"} /\ DisconnectAfter(o))
      PROVE  Calm \/ (Spawned /\ UNCHANGED <<peers, events, running>> /\ running
                        /\ \A p \in Outputs : p.kind = "ConnectPeer" \/ p \in Outputs')
  <2>1. CASE Connect(o)
    <3>1. UNCHANGED taskVars \/ Spawned
      BY <2>1, ConnectSpawns
    <3>2. \A p \in Outputs : p = o \/ p \in Outputs'
      BY <2>1, PerformedKeeps DEF Connect
    <3>3. o.kind = "ConnectPeer" /\ running /\ UNCHANGED <<peers, events, running>>
      BY <2>1 DEF Connect, Performing, NoStep, registryVars
    <3> QED
      BY <3>1, <3>2, <3>3 DEF taskVars
  <2>2. CASE SendToPeer(o)
    <3>1. UNCHANGED <<peers, sessions, peerCmds, events, running>>
      BY <2>2 DEF SendToPeer, NoStep, registryVars, sessionVars, taskVars
    <3>2. o.kind = "SendToPeer" /\ o.addr \in DOMAIN peerCmds /\ \A p \in Outputs : p = o \/ p \in Outputs'
      BY <2>2, PerformedKeeps DEF SendToPeer, Performing, Reaches
    <3> QED
      BY <3>1, <3>2
  <2>3. CASE BroadcastAll(o)
    <3>1. UNCHANGED <<peers, sessions, peerCmds, events, running>> /\ o.kind = "Broadcast"
      BY <2>3 DEF BroadcastAll, Performing, NoStep, registryVars, sessionVars, taskVars
    <3>2. \A p \in Outputs : p = o \/ p \in Outputs'
      BY <2>3, PerformedKeeps DEF BroadcastAll
    <3> QED
      BY <3>1, <3>2
  <2>4. CASE Read(o) \/ CancelRead(o) \/ Store(o)
    <3>1. UNCHANGED <<peers, sessions, peerCmds, events, running>>
          /\ o.kind \notin {"SendToPeer", "DisconnectPeer"}
      BY <2>4 DEF Read, CancelRead, Store, Performing, NoStep, registryVars, sessionVars, taskVars
    <3>2. \A p \in Outputs : p = o \/ p \in Outputs'
      BY <2>4, PerformedKeeps DEF Read, CancelRead, Store
    <3> QED
      BY <3>1, <3>2
  <2> QED
    BY <1>6, <2>1, <2>2, <2>3, <2>4 DEF HandleOutput, Disconnect, SendFails, Performing
<1>7. CASE Return
  BY <1>7 DEF Return
<1>8. CASE Over
  BY <1>8 DEF Over, ioVars, vars, registryVars, sessionVars, taskVars
<1> QED
  BY <1>1, <1>2, <1>3, <1>4, <1>5, <1>6, <1>7, <1>8 DEF IONext

\* A message changes neither which peers there are nor who they are.
LEMMA MessageKeepsPeers ==
  ASSUME RegistryOK, NEW a \in Addr, NEW m \in Messages, MessageReceived(a, m)
  PROVE  DOMAIN peers' = DOMAIN peers /\ \A b \in DOMAIN peers : peers'[b].id = peers[b].id
<1>1. CASE Apply(a, m)
  <2>1. a \in DOMAIN peers /\ peers' = [peers EXCEPT ![a] = PeerStateAfter(peers[a], m)]
    BY <1>1 DEF Apply, Known
  <2>2. PeerStateAfter(peers[a], m).id = peers[a].id
    BY <2>1, PeerStateStep DEF RegistryOK
  <2> QED
    BY <2>1, <2>2
<1>2. CASE UNCHANGED peers
  BY <1>2
<1> QED
  BY <1>1, <1>2 DEF MessageReceived, RejectMessage, Receive, OnAvailability, OnAllowedFast, OnChoke,
     OnUnchoke, OnInterested, OnRejectRequest, OnQuiet, OnPiece, OnRequest, OnCancel,
     OnMetadataRequest, OnPex, registryVars

\* A peer that has left is not known, and nothing else about peers changes.
LEMMA DisconnectedKeeps ==
  ASSUME NEW a, PeerDisconnected(a)
  PROVE  DOMAIN peers' = DOMAIN peers \ {a} /\ \A b \in DOMAIN peers' : peers'[b] = peers[b]
BY DEF PeerDisconnected, Disconnected, PeersWithout, Remove

\* A connection that wins is known at its address; the one it replaces is told so.
LEMMA AcceptedKeeps ==
  ASSUME NEW c, AcceptConnection(c)
  PROVE  /\ DOMAIN peers' \subseteq DOMAIN peers \cup {c.addr}
         /\ c.addr \in DOMAIN peers' /\ peers'[c.addr].id = c.id
         /\ \E o \in out' : o.kind = "SendToPeer" /\ o.addr = c.addr
         /\ \A b \in DOMAIN peers :
              \/ b \in DOMAIN peers' /\ (b = c.addr \/ peers'[b] = peers[b])
              \/ \E o \in out' : o.kind = "DisconnectPeer" /\ o.addr = b
<1>1. peers' = Insert(PeersWithout(Replaced(c)), c.addr, NewPeer(c))
  BY DEF AcceptConnection, ConnectedAfterDisconnecting
<1>2. /\ DOMAIN peers' = (DOMAIN peers \ Replaced(c)) \cup {c.addr}
      /\ peers'[c.addr] = NewPeer(c)
      /\ \A b \in DOMAIN peers \ Replaced(c) : b # c.addr => peers'[b] = peers[b]
  BY <1>1 DEF Insert, PeersWithout, Remove
<1>3. Interested(c.addr) \in out' /\ \A b \in Replaced(c) : DisconnectPeer(b) \in out'
  BY DEF AcceptConnection
<1>4. Interested(c.addr).kind = "SendToPeer" /\ Interested(c.addr).addr = c.addr
  BY DEF Interested, Send
<1>5. \A b : DisconnectPeer(b).kind = "DisconnectPeer" /\ DisconnectPeer(b).addr = b
  BY DEF DisconnectPeer
<1>6. NewPeer(c).id = c.id
  BY DEF NewPeer
<1> QED
  BY <1>2, <1>3, <1>4, <1>5, <1>6

\* What the loop does with an event.
LEMMA TakenInput ==
  ASSUME SwarmTasks, TakeEvent
  PROVE  /\ Selecting /\ running' = running /\ events # <<>> /\ events' = Tail(events)
         /\ Outputs' = out' /\ UNCHANGED <<sessions, nextSession>>
         /\ \/ /\ events[1].kind = "Connected" /\ events[1].link \in Connections
               /\ events[1].link.addr = events[1].addr
               /\ PeerConnected(events[1].link) /\ UNCHANGED peerCmds
            \/ /\ events[1].kind = "Disconnected"
               /\ Forget(events[1].addr) /\ PeerDisconnected(events[1].addr)
            \/ /\ events[1].kind = "Message"
               /\ events[1].addr \in Addr /\ events[1].message \in Messages
               /\ MessageReceived(events[1].addr, events[1].message) /\ UNCHANGED peerCmds
<1>1. /\ Selecting /\ running' = running /\ events # <<>> /\ events' = Tail(events)
      /\ UNCHANGED <<sessions, nextSession>>
  BY DEF TakeEvent, TakeConnected, TakeDisconnected, TakeMessage, Forget, taskVars
<1>2. Outputs' = out'
  BY <1>1, SelectingIsEmpty DEF TakeEvent, Perform, Outputs
<1> QED
  BY <1>1, <1>2, TakenEvent DEF TakeEvent, TakeConnected, TakeDisconnected, TakeMessage, taskVars

\* A peer that is registered has a channel, or an output is left that finds out.
LEMMA ChannelsStep ==
  ASSUME SwarmInv, SwarmTasks, OutputsOK, PeersHaveChannels, IONext
  PROVE  PeersHaveChannels'
<1> SUFFICES ASSUME running', NEW a \in DOMAIN peers'
             PROVE  a \in DOMAIN peerCmds' \/ ToSend(a)' \/ ToDisconnect(a)'
  BY DEF PeersHaveChannels
<1>1. CASE Calm
  <2>1. running /\ a \in DOMAIN peers /\ peerCmds' = peerCmds
    BY <1>1 DEF Calm
  <2> QED
    BY <1>1, <2>1 DEF Calm, PeersHaveChannels, ToSend, ToDisconnect
<1>2. CASE /\ Spawned /\ UNCHANGED <<peers, events, running>> /\ running
           /\ \A o \in Outputs : o.kind = "ConnectPeer" \/ o \in Outputs'
  <2>1. DOMAIN peerCmds \subseteq DOMAIN peerCmds'
    BY <1>2 DEF Spawned, Launch, Insert
  <2> QED
    BY <1>2, <2>1 DEF PeersHaveChannels, ToSend, ToDisconnect
<1>3. CASE TakeEvent
  <2> DEFINE e == events[1]
  <2>1. /\ running /\ Outputs' = out'
        /\ DOMAIN peers \subseteq DOMAIN peerCmds
    BY <1>3, TakenInput, SelectingIsEmpty DEF PeersHaveChannels, ToSend, ToDisconnect
  <2>2. CASE RejectConnection(e.link) /\ UNCHANGED peerCmds
    BY <2>1, <2>2 DEF RejectConnection, registryVars
  <2>3. CASE AcceptConnection(e.link) /\ UNCHANGED peerCmds
    BY <2>1, <2>3, AcceptedKeeps DEF ToSend
  <2>4. CASE Forget(e.addr) /\ PeerDisconnected(e.addr)
    <3>1. DOMAIN peerCmds' = DOMAIN peerCmds \ {e.addr}
      BY <2>4 DEF Forget, Remove
    <3> QED
      BY <2>1, <2>4, <3>1, DisconnectedKeeps
  <2>5. CASE /\ e.addr \in Addr /\ e.message \in Messages
             /\ MessageReceived(e.addr, e.message) /\ UNCHANGED peerCmds
    BY <2>1, <2>5, MessageKeepsPeers DEF SwarmInv, TypeInv, TypeOK
  <2> QED
    BY <1>3, <2>2, <2>3, <2>4, <2>5, TakenInput DEF PeerConnected
<1>4. ASSUME NEW o \in ToPerform, DisconnectAfter(o)
      PROVE  a \in DOMAIN peerCmds' \/ ToSend(a)' \/ ToDisconnect(a)'
  <2>1. a \in DOMAIN peers /\ a # o.addr /\ running
    BY <1>4, DisconnectedKeeps DEF DisconnectAfter
  <2>2. DOMAIN peerCmds' = DOMAIN peerCmds \ {o.addr}
    BY <1>4 DEF DisconnectAfter, Drop, Remove
  <2>3. \A p \in Outputs : p = o \/ p \in Outputs'
    BY <1>4, PerformedKeeps DEF DisconnectAfter
  <2> QED
    BY <2>1, <2>2, <2>3 DEF PeersHaveChannels, ToSend, ToDisconnect
<1>5. ASSUME NEW s \in DOMAIN sessions, Task(s)
      PROVE  a \in DOMAIN peerCmds' \/ ToSend(a)' \/ ToDisconnect(a)'
  <2>1. UNCHANGED <<peers, todo, nested>>
    BY <1>5 DEF Task, NoStep, registryVars, outputVars
  <2>2. peerCmds' = peerCmds /\ running' = running
    BY <1>5, TaskSteps, TaskFootprint DEF SwarmTasks, TaskInv
  <2> QED
    BY <2>1, <2>2 DEF PeersHaveChannels, ToSend, ToDisconnect, Outputs
<1> QED
  BY <1>1, <1>2, <1>3, <1>4, <1>5, CalmSteps

\* What a task does keeps its session known: the first thing a new session does
\* is to report itself.
LEMMA LivePeersTask ==
  ASSUME SwarmTasks, LivePeersKnown, NEW t \in DOMAIN sessions, Task(t)
  PROVE  LivePeersKnown'
<1> SUFFICES ASSUME NEW a \in DOMAIN peerCmds', NEW s \in DOMAIN sessions', peerCmds'[a] = s,
                    sessions'[s].phase = "Live", Alone(s)', ~EndReported(a)'
             PROVE  LastConnected(a, s)' \/ KnownAs(a, s)' \/ ToDisconnect(a)'
  BY DEF LivePeersKnown
<1>1. /\ SessionStep(t, Connections, Messages) /\ TasksOK(Addr, Connections, Messages)
      /\ events \in Seq(Event(Addr, Connections, Messages))
  BY TaskSteps DEF SwarmTasks, TaskInv, TasksOK
<1>2. peerCmds' = peerCmds /\ a \in DOMAIN peerCmds /\ running
  BY <1>1, TaskFootprint DEF TasksOK
<1>3. UNCHANGED <<peers, todo, nested>>
  BY DEF Task, NoStep, registryVars, outputVars
<1>4. ~EndReported(a)
  BY <1>1, EndIsKept
<1>5. s \in DOMAIN sessions /\ sessions[s].addr = a
  BY <1>1, <1>2, <1>4, TaskFootprint DEF Remove, SwarmTasks, TaskInv, ChannelsLead
<1>6. ToDisconnect(a) => ToDisconnect(a)'
  BY <1>3 DEF ToDisconnect, Outputs
<1>7. \A u \in DOMAIN sessions' : u \in DOMAIN sessions /\ sessions'[u].addr = sessions[u].addr
  BY <1>1, TaskFootprint DEF Remove
\* The task whose session is new reports it.
<1>8. CASE t = s /\ events' = Append(events, ConnectedEvent(s, sessions[s].link))
           /\ sessions[s].link.addr = a /\ sessions'[s].link = sessions[s].link
  <2>1. /\ ConnectedEvent(s, sessions[s].link).kind = "Connected"
        /\ ConnectedEvent(s, sessions[s].link).addr = a
        /\ ConnectedEvent(s, sessions[s].link).link = sessions'[s].link
    BY <1>8 DEF ConnectedEvent
  <2>2. /\ Len(events) + 1 \in DOMAIN events'
        /\ events'[Len(events) + 1] = ConnectedEvent(s, sessions[s].link)
        /\ \A j \in DOMAIN events' : ~(j > Len(events) + 1)
    BY <1>1, <1>8, AppendEvent
  <2> QED
    BY <2>1, <2>2 DEF LastConnected, ConnectedAt
\* Otherwise its session is not new, and nobody else reports one at its address.
<1>9. ASSUME Alone(s), sessions'[s] = sessions[s],
             \/ UNCHANGED events
             \/ \E e : events' = Append(events, e) /\ (e.kind = "Connected" => e.addr # a)
      PROVE  LastConnected(a, s)' \/ KnownAs(a, s)' \/ ToDisconnect(a)'
  <2>1. LastConnected(a, s) \/ KnownAs(a, s) \/ ToDisconnect(a)
    BY <1>2, <1>4, <1>5, <1>9 DEF LivePeersKnown
  <2>2. CASE UNCHANGED events
    BY <1>3, <1>6, <1>9, <2>1, <2>2 DEF LastConnected, KnownAs, ConnectedAt
  <2>3. ASSUME NEW e, events' = Append(events, e), e.kind = "Connected" => e.addr # a
        PROVE  LastConnected(a, s)' \/ KnownAs(a, s)' \/ ToDisconnect(a)'
    <3>1. /\ \A i \in DOMAIN events : i \in DOMAIN events' /\ events'[i] = events[i]
          /\ \A i \in DOMAIN events' : i \in DOMAIN events \/ events'[i] = e
      BY <1>1, <2>3, AppendEvent
    <3>2. \A i \in DOMAIN events' : ConnectedAt(i, a)' => i \in DOMAIN events /\ ConnectedAt(i, a)
      BY <2>3, <3>1 DEF ConnectedAt
    <3>3. ASSUME LastConnected(a, s) PROVE LastConnected(a, s)'
      <4>1. PICK i \in DOMAIN events :
              /\ ConnectedAt(i, a) /\ events[i].link = sessions[s].link
              /\ \A j \in DOMAIN events : j > i => ~ConnectedAt(j, a)
        BY <3>3 DEF LastConnected
      <4>2. i \in DOMAIN events' /\ ConnectedAt(i, a)' /\ events'[i].link = sessions'[s].link
        BY <1>9, <3>1, <4>1 DEF ConnectedAt
      <4>3. \A j \in DOMAIN events' : j > i => ~ConnectedAt(j, a)'
        BY <3>2, <4>1
      <4> QED
        BY <4>2, <4>3 DEF LastConnected
    <3>4. KnownAs(a, s) => KnownAs(a, s)'
      BY <1>3, <1>9, <3>2 DEF KnownAs
    <3> QED
      BY <1>6, <2>1, <3>3, <3>4
  <2> QED
    BY <1>9, <2>2, <2>3
<1>10. ASSUME DOMAIN sessions' = DOMAIN sessions \/ sessions[t].addr # a
       PROVE  Alone(s)
  <2>1. \A u \in DOMAIN sessions : sessions[u].addr = a => u \in DOMAIN sessions'
    BY <1>1, <1>2, <1>10, TaskStays
  <2> QED
    BY <1>5, <1>7, <2>1 DEF Alone
<1>11. CASE UNCHANGED events /\ DOMAIN sessions' = DOMAIN sessions
            /\ \A u \in DOMAIN sessions : sessions'[u].phase = "Live" => sessions'[u] = sessions[u]
  BY <1>5, <1>9, <1>10, <1>11
<1>12. CASE /\ events' = Append(events, ConnectedEvent(t, sessions[t].link))
            /\ sessions[t].link.addr = sessions[t].addr
            /\ DOMAIN sessions' = DOMAIN sessions
            /\ \A u \in DOMAIN sessions : u # t => sessions'[u] = sessions[u]
            /\ sessions'[t].link = sessions[t].link
  <2>1. CASE t = s
    <3>1. /\ events' = Append(events, ConnectedEvent(s, sessions[s].link))
          /\ sessions[s].link.addr = a /\ sessions'[s].link = sessions[s].link
      BY <1>5, <1>12, <2>1
    <3> QED
      BY <1>8, <2>1, <3>1
  <2>2. CASE t # s
    <3>1. Alone(s) /\ sessions'[s] = sessions[s]
      BY <1>5, <1>10, <1>12, <2>2
    <3>2. sessions[t].addr # a
      BY <1>5, <2>2, <3>1 DEF Alone
    <3>3. ConnectedEvent(t, sessions[t].link).addr = sessions[t].addr
      BY <1>12 DEF ConnectedEvent
    <3> QED
      BY <1>9, <1>12, <3>1, <3>2, <3>3
  <2> QED
    BY <2>1, <2>2
<1>13. CASE (\E m \in Messages : events' = Append(events, MessageEvent(t, m))) /\ UNCHANGED sessions
  <2>1. \A m : MessageEvent(t, m).kind # "Connected"
    BY DEF MessageEvent
  <2> QED
    BY <1>9, <1>10, <1>13, <2>1
<1>14. CASE sessions' = Remove(sessions, {t}) /\ events' = Append(events, DisconnectedEvent(t))
  <2>1. /\ DisconnectedEvent(t).kind = "Disconnected" /\ DisconnectedEvent(t).addr = sessions[t].addr
    BY DEF DisconnectedEvent
  <2>2. Len(events) + 1 \in DOMAIN events' /\ events'[Len(events) + 1] = DisconnectedEvent(t)
    BY <1>1, <1>14, AppendEvent
  <2>3. sessions[t].addr # a
    BY <2>1, <2>2 DEF EndReported
  <2>4. sessions'[s] = sessions[s]
    BY <1>14 DEF Remove
  <2> QED
    BY <1>9, <1>10, <1>14, <2>1, <2>3, <2>4
<1> QED
  BY <1>1, <1>2, <1>11, <1>12, <1>13, <1>14, TaskFootprint

\* An event taken: the connection that was on its way is registered or rejected,
\* and whoever it replaces is to be disconnected.
LEMMA LivePeersTaken ==
  ASSUME SwarmInv, SwarmTasks, LivePeersKnown, TakeEvent
  PROVE  LivePeersKnown'
<1> DEFINE e == events[1]
<1> SUFFICES ASSUME NEW a \in DOMAIN peerCmds', NEW s \in DOMAIN sessions', peerCmds'[a] = s,
                    sessions'[s].phase = "Live", Alone(s)', ~EndReported(a)'
             PROVE  LastConnected(a, s)' \/ KnownAs(a, s)' \/ ToDisconnect(a)'
  BY DEF LivePeersKnown
<1>1. /\ events # <<>> /\ events' = Tail(events) /\ Outputs' = out' /\ Outputs = {}
      /\ UNCHANGED sessions
  BY TakenInput, SelectingIsEmpty
<1>2. /\ a \in DOMAIN peerCmds /\ peerCmds[a] = s
      /\ e.kind = "Disconnected" => e.addr # a
  BY TakenInput DEF Forget, Remove
<1>3. events \in Seq(Event(Addr, Connections, Messages))
  BY DEF SwarmTasks, TaskInv, TasksOK
<1>4. ~EndReported(a)
  BY <1>1, <1>2, <1>3, EndStaysReported
<1>5. Alone(s)
  BY <1>1 DEF Alone
<1>6. LastConnected(a, s) \/ KnownAs(a, s)
  BY <1>1, <1>2, <1>4, <1>5 DEF LivePeersKnown, ToDisconnect
<1>7. /\ 1 \in DOMAIN events
      /\ \A i \in DOMAIN events' : i + 1 \in DOMAIN events /\ events'[i] = events[i + 1]
      /\ \A i \in DOMAIN events : i # 1 => i - 1 \in DOMAIN events' /\ events'[i - 1] = events[i]
      /\ \A i \in DOMAIN events : i \in Nat \ {0}
      /\ \A i \in DOMAIN events' : i \in Nat \ {0}
  BY <1>1, <1>3, TakeFirst
\* A later connection of the address stays the last on its way.
<1>8. ASSUME NEW i \in DOMAIN events, i # 1, ConnectedAt(i, a), events[i].link = sessions[s].link,
             \A j \in DOMAIN events : j > i => ~ConnectedAt(j, a)
      PROVE  LastConnected(a, s)'
  <2>1. /\ i - 1 \in DOMAIN events' /\ events'[i - 1] = events[i]
        /\ ConnectedAt(i - 1, a)' /\ events'[i - 1].link = sessions'[s].link
    BY <1>1, <1>7, <1>8 DEF ConnectedAt
  <2>2. ASSUME NEW j \in DOMAIN events', j > i - 1 PROVE ~ConnectedAt(j, a)'
    <3>1. j + 1 \in DOMAIN events /\ events'[j] = events[j + 1] /\ j + 1 > i
      BY <1>7, <2>2
    <3> QED
      BY <1>8, <3>1 DEF ConnectedAt
  <2> QED
    BY <2>1, <2>2 DEF LastConnected
\* The first event is the last connection of the address on its way.
<1>9. ASSUME ConnectedAt(1, a), e.link = sessions[s].link,
             \A j \in DOMAIN events : j > 1 => ~ConnectedAt(j, a)
      PROVE  KnownAs(a, s)' \/ ToDisconnect(a)'
  <2>1. PeerConnected(e.link) /\ e.link.addr = a
    BY <1>9, TakenInput DEF ConnectedAt
  <2>2. CASE RejectConnection(e.link)
    <3>1. DisconnectPeer(a) \in out'
      BY <2>1, <2>2 DEF RejectConnection
    <3>2. DisconnectPeer(a).kind = "DisconnectPeer" /\ DisconnectPeer(a).addr = a
      BY DEF DisconnectPeer
    <3> QED
      BY <1>1, <3>1, <3>2 DEF ToDisconnect
  <2>3. CASE AcceptConnection(e.link)
    <3>1. a \in DOMAIN peers' /\ peers'[a].id = e.link.id
      BY <2>1, <2>3, AcceptedKeeps
    <3>2. \A i \in DOMAIN events' : ~ConnectedAt(i, a)'
      <4>1. \A i \in DOMAIN events' : i + 1 \in DOMAIN events /\ i + 1 > 1 /\ events'[i] = events[i + 1]
        BY <1>7
      <4> QED
        BY <1>9, <4>1 DEF ConnectedAt
    <3> QED
      BY <1>1, <1>9, <3>1, <3>2 DEF KnownAs
  <2> QED
    BY <2>1, <2>2, <2>3 DEF PeerConnected
<1>10. CASE LastConnected(a, s)
  BY <1>8, <1>9, <1>10, <1>7 DEF LastConnected
\* A known peer stays known, or is to be disconnected.
<1>11. CASE KnownAs(a, s)
  <2>1. \A i \in DOMAIN events' : ~ConnectedAt(i, a)'
    BY <1>7, <1>11 DEF KnownAs, ConnectedAt
  <2>2. ~ConnectedAt(1, a)
    BY <1>7, <1>11 DEF KnownAs
  <2>3. ASSUME a \in DOMAIN peers', peers'[a].id = peers[a].id PROVE KnownAs(a, s)'
    BY <1>1, <1>11, <2>1, <2>3 DEF KnownAs
  <2>4. CASE RejectConnection(e.link)
    BY <1>11, <2>3, <2>4 DEF RejectConnection, registryVars, KnownAs
  <2>5. CASE AcceptConnection(e.link) /\ e.link.addr # a
    <3>1. \/ a \in DOMAIN peers' /\ peers'[a] = peers[a]
          \/ \E o \in out' : o.kind = "DisconnectPeer" /\ o.addr = a
      BY <1>11, <2>5, AcceptedKeeps DEF KnownAs
    <3> QED
      BY <1>1, <2>3, <3>1 DEF ToDisconnect
  <2>6. CASE PeerDisconnected(e.addr) /\ e.kind = "Disconnected"
    BY <1>2, <1>11, <2>3, <2>6, DisconnectedKeeps DEF KnownAs
  <2>7. CASE e.addr \in Addr /\ e.message \in Messages /\ MessageReceived(e.addr, e.message)
    BY <1>11, <2>3, <2>7, MessageKeepsPeers DEF KnownAs, SwarmInv, TypeInv, TypeOK
  <2>8. e.kind = "Connected" /\ e.link.addr = e.addr => e.link.addr # a
    BY <2>2 DEF ConnectedAt
  <2> QED
    BY <2>4, <2>5, <2>6, <2>7, <2>8, TakenInput DEF PeerConnected
<1> QED
  BY <1>6, <1>10, <1>11

\* Every step keeps live sessions known.
LEMMA LivePeersStep ==
  ASSUME SwarmInv, SwarmTasks, OutputsOK, LivePeersKnown, IONext
  PROVE  LivePeersKnown'
<1>1. ASSUME NEW a \in DOMAIN peerCmds, NEW s \in DOMAIN sessions, peerCmds[a] = s,
             sessions[s].phase = "Live", Alone(s), ~EndReported(a),
             UNCHANGED events, sessions'[s] = sessions[s],
             a \in DOMAIN peers => a \in DOMAIN peers' /\ peers'[a] = peers[a],
             ToDisconnect(a) => ToDisconnect(a)'
      PROVE  LastConnected(a, s)' \/ KnownAs(a, s)' \/ ToDisconnect(a)'
  <2>1. LastConnected(a, s) \/ KnownAs(a, s) \/ ToDisconnect(a)
    BY <1>1 DEF LivePeersKnown
  <2> QED
    BY <1>1, <2>1 DEF LastConnected, KnownAs, ConnectedAt
<1>2. CASE ~running'
  BY <1>2, SwarmTasksStep DEF SwarmTasks, TaskInv, TasksOK, LivePeersKnown
<1>3. CASE running' /\ Calm
  <2>1. \A a : ToDisconnect(a) => ToDisconnect(a)'
    BY <1>3 DEF Calm, ToDisconnect
  <2>2. UNCHANGED <<peers, sessions, peerCmds, events>>
    BY <1>3 DEF Calm
  <2>3. \A s : Alone(s)' => Alone(s)
    BY <2>2 DEF Alone
  <2>4. \A a : EndReported(a) => EndReported(a)'
    BY <2>2 DEF EndReported
  <2> QED
    BY <1>1, <2>1, <2>2, <2>3, <2>4 DEF LivePeersKnown
<1>4. CASE /\ Spawned /\ UNCHANGED <<peers, events, running>>
           /\ \A o \in Outputs : o.kind = "ConnectPeer" \/ o \in Outputs'
  <2>1. PICK b \in Addr, task \in PeerTask(Addr, Connections) :
          task.addr = b /\ task.phase # "Live" /\ Launch(b, task) /\ b \notin DOMAIN peerCmds
    BY <1>4 DEF Spawned
  <2>2. DOMAIN sessions \subseteq 0 .. nextSession - 1 /\ nextSession \in Nat
    BY DEF SwarmTasks, TaskInv, TasksOK
  <2>3. /\ DOMAIN sessions' = DOMAIN sessions \cup {nextSession} /\ sessions'[nextSession] = task
        /\ \A s \in DOMAIN sessions : s # nextSession /\ sessions'[s] = sessions[s]
        /\ DOMAIN peerCmds' = DOMAIN peerCmds \cup {b} /\ peerCmds'[b] = nextSession
        /\ \A a \in DOMAIN peerCmds : peerCmds'[a] = peerCmds[a]
    BY <2>1, <2>2 DEF Launch, Insert
  <2>4. \A a : ToDisconnect(a) => ToDisconnect(a)'
    BY <1>4 DEF ToDisconnect
  <2>5. \A s \in DOMAIN sessions : Alone(s)' => Alone(s)
    BY <2>3 DEF Alone
  <2>6. \A a : EndReported(a) => EndReported(a)'
    BY <1>4 DEF EndReported
  <2> SUFFICES ASSUME NEW a \in DOMAIN peerCmds', NEW s \in DOMAIN sessions', peerCmds'[a] = s,
                      sessions'[s].phase = "Live", Alone(s)', ~EndReported(a)'
               PROVE  LastConnected(a, s)' \/ KnownAs(a, s)' \/ ToDisconnect(a)'
    BY DEF LivePeersKnown
  <2>7. s \in DOMAIN sessions /\ sessions'[s] = sessions[s]
    BY <2>1, <2>3
  <2>8. a \in DOMAIN peerCmds /\ peerCmds[a] = s
    BY <2>3, <2>7
  <2> QED
    BY <1>1, <1>4, <2>4, <2>5, <2>6, <2>7, <2>8
<1>5. ASSUME NEW o \in ToPerform, DisconnectAfter(o), o.kind \in {"SendToPeer", "DisconnectPeer"}
      PROVE  LivePeersKnown'
  <2>1. /\ DOMAIN peerCmds' = DOMAIN peerCmds \ {o.addr} /\ UNCHANGED <<sessions, events>>
        /\ \A a \in DOMAIN peerCmds' : peerCmds'[a] = peerCmds[a]
    BY <1>5 DEF DisconnectAfter, Drop, Remove
  <2>2. \A p \in Outputs : p = o \/ p \in Outputs'
    BY <1>5, PerformedKeeps DEF DisconnectAfter
  <2>3. \A a : a # o.addr /\ ToDisconnect(a) => ToDisconnect(a)'
    BY <2>2 DEF ToDisconnect
  <2>4. DOMAIN peers' = DOMAIN peers \ {o.addr} /\ \A a \in DOMAIN peers' : peers'[a] = peers[a]
    BY <1>5, DisconnectedKeeps DEF DisconnectAfter
  <2>5. /\ \A s : Alone(s)' => Alone(s)
        /\ \A a : EndReported(a) => EndReported(a)'
    BY <2>1 DEF Alone, EndReported
  <2> SUFFICES ASSUME NEW a \in DOMAIN peerCmds', NEW s \in DOMAIN sessions', peerCmds'[a] = s,
                      sessions'[s].phase = "Live", Alone(s)', ~EndReported(a)'
               PROVE  LastConnected(a, s)' \/ KnownAs(a, s)' \/ ToDisconnect(a)'
    BY DEF LivePeersKnown
  <2> QED
    BY <1>1, <2>1, <2>3, <2>4, <2>5
<1>6. CASE TakeEvent
  BY <1>6, LivePeersTaken
<1>7. CASE \E s \in DOMAIN sessions : Task(s)
  BY <1>7, LivePeersTask
<1> QED
  BY <1>2, <1>3, <1>4, <1>5, <1>6, <1>7, CalmSteps

-----------------------------------------------------------------------------
\* Reads for uploads

\* Every pending upload has its read, and its handle, or is about to.
PendingHaveReads ==
  \A r \in DOMAIN pending :
    \/ [id |-> pending[r].id, range |-> r] \in reads /\ pending[r].id \in readHandles
    \/ ReadForUpload(pending[r].id, r) \in todo

\* The read of a handle is waited for, or about to be cancelled.
HandlesWanted ==
  \A h \in readHandles :
    (\E r \in DOMAIN pending : pending[r].id = h) \/ CancelUploadRead(h) \in Outputs

\* A read to be started is all that is left of its step, and nothing has happened
\* to its upload since.
StartsAlone ==
  \A o \in Outputs : o.kind = "ReadForUpload" =>
    /\ todo = {o} /\ nested = {} /\ budget = 0
    /\ o.range \in DOMAIN pending /\ pending[o.range].id = o.id
    /\ \A t \in reads : t.id # o.id

\* A read to be cancelled is not waited for.
CancelsUnwanted ==
  \A o \in Outputs : o.kind = "CancelUploadRead" => \A r \in DOMAIN pending : pending[r].id # o.id

ReadsHeld == running => PendingHaveReads /\ HandlesWanted /\ StartsAlone /\ CancelsUnwanted

\* Every message leaves the reads alone, asks for them or gives them up.
LEMMA MessageNoAnswer ==
  ASSUME NEW a \in Addr, NEW m \in Messages, MessageReceived(a, m)
  PROVE  NoAnswer
<1>1. ASSUME ~OnRequest(a, m), ~OnCancel(a, m) PROVE UNCHANGED uploadVars
  BY <1>1 DEF MessageReceived, RejectMessage, OnAvailability, OnAllowedFast, OnChoke, OnUnchoke,
     OnInterested, OnRejectRequest, OnQuiet, OnPiece, OnMetadataRequest, OnPex
<1> QED
  BY <1>1 DEF NoAnswer

\* How a step changes what the reads depend on.
LEMMA ReadSteps ==
  ASSUME SwarmTasks, OutputsOK, IONext
  PROVE  \/ UNCHANGED <<uploadVars, readVars, outputVars, budget, running>>
         \/ /\ Selecting /\ Next /\ NoAnswer /\ todo' = out' /\ nested' = {}
            /\ UNCHANGED readVars
         \/ \E t \in reads : JoinRead(t)
         \/ Plan
         \/ \E o \in ToPerform : \E more :
              /\ o.kind \notin {"ReadForUpload", "CancelUploadRead"}
              /\ running /\ budget = 0 /\ budget' = 0
              /\ Performed(o, more) /\ UNCHANGED readVars
              /\ \/ UNCHANGED uploadVars /\ \A p \in more : p.kind = "DisconnectPeer"
                 \/ PeerDisconnected(o.addr) /\ more = out' /\ o.addr \in Addr
         \/ \E o \in ToPerform : Read(o) \/ CancelRead(o)
         \/ ~running' /\ reads' \subseteq reads
<1>1. CASE Restore
  BY <1>1 DEF Restore, LocalPiece, sessionVars
<1>2. CASE Discover \/ Command \/ Tick
  BY <1>2, SelectingIsEmpty
     DEF Discover, PeersDiscovered, Command, Tick, TickBlock, TickPex, Perform, Next, NoAnswer
<1>3. CASE (\E c \in Connections : AcceptInbound(c)) \/ (\E s \in DOMAIN sessions : Task(s))
  <2>1. UNCHANGED <<uploadVars, readVars, outputVars, budget>>
    BY <1>3 DEF AcceptInbound, Task, NoStep
  <2>2. running' = running
    BY <1>3, TaskSteps, TaskFootprint DEF AcceptInbound, SwarmTasks, TaskInv
  <2> QED
    BY <2>1, <2>2
<1>4. CASE TakeEvent
  <2>1. Selecting /\ todo' = out' /\ nested' = {} /\ UNCHANGED readVars
    BY <1>4, SelectingIsEmpty DEF TakeEvent, Perform
  <2>2. Next
    BY <1>4, TakenEvent DEF TakeEvent, TakeConnected, TakeDisconnected, TakeMessage, Next
  <2>3. NoAnswer
    <3>1. ASSUME PeerConnected(events[1].link), events[1].link \in Connections PROVE NoAnswer
      BY <3>1 DEF PeerConnected, RejectConnection, NoAnswer
    <3>2. ASSUME PeerDisconnected(events[1].addr), events[1].addr \in Addr PROVE NoAnswer
      BY <3>2 DEF NoAnswer
    <3>3. events # <<>>
      BY <1>4 DEF TakeEvent
    <3> QED
      BY <1>4, <3>1, <3>2, <3>3, TakenInput, TakenEvent, MessageNoAnswer
  <2> QED
    BY <2>1, <2>2, <2>3
<1>5. ASSUME NEW o \in ToPerform, HandleOutput(o), ~Read(o), ~CancelRead(o)
      PROVE  \E more :
               /\ o.kind \notin {"ReadForUpload", "CancelUploadRead"}
               /\ running /\ budget = 0 /\ budget' = 0
               /\ Performed(o, more) /\ UNCHANGED readVars
               /\ \/ UNCHANGED uploadVars /\ \A p \in more : p.kind = "DisconnectPeer"
                  \/ PeerDisconnected(o.addr) /\ more = out' /\ o.addr \in Addr
  <2>1. CASE Connect(o) \/ SendToPeer(o) \/ Store(o)
    <3>1. /\ o.kind \notin {"ReadForUpload", "CancelUploadRead"}
          /\ running /\ budget = 0 /\ budget' = 0
          /\ Performed(o, {}) /\ UNCHANGED readVars /\ UNCHANGED uploadVars
      BY <2>1 DEF Connect, SendToPeer, Store, Performing, Idle, NoStep
    <3> QED
      BY <3>1
  <2>2. CASE BroadcastAll(o)
    <3>1. /\ o.kind = "Broadcast" /\ running /\ budget = 0 /\ budget' = 0
          /\ UNCHANGED readVars /\ UNCHANGED uploadVars
      BY <2>2 DEF BroadcastAll, Performing, Idle, NoStep
    <3>2. PICK failed \in SUBSET DOMAIN peerCmds : Performed(o, {DisconnectPeer(a) : a \in failed})
      BY <2>2 DEF BroadcastAll
    <3>3. \A p \in {DisconnectPeer(a) : a \in failed} : p.kind = "DisconnectPeer"
      BY DEF DisconnectPeer
    <3> QED
      BY <3>1, <3>2, <3>3
  <2>3. CASE Disconnect(o) \/ SendFails(o)
    <3>1. /\ o.kind \in {"DisconnectPeer", "SendToPeer"} /\ running /\ DisconnectAfter(o)
      BY <2>3 DEF Disconnect, SendFails, Performing
    <3>2. /\ budget = 0 /\ budget' = 0 /\ Performed(o, out') /\ UNCHANGED readVars
          /\ PeerDisconnected(o.addr)
      BY <3>1 DEF DisconnectAfter, PeerDisconnected, Idle
    <3>3. o.addr \in Addr
      BY <3>1 DEF OutputsOK, Outputs, ToPerform, Addressed
    <3> QED
      BY <3>1, <3>2, <3>3
  <2> QED
    BY <1>5, <2>1, <2>2, <2>3 DEF HandleOutput
<1>6. CASE Return
  BY <1>6 DEF Return
<1>7. CASE Over
  BY <1>7 DEF Over, ioVars, vars, sessionVars
<1> QED
  BY <1>1, <1>2, <1>3, <1>4, <1>5, <1>6, <1>7 DEF IONext

\* A read that is cancelled is not waited for afterwards, by anyone.
LEMMA CancelledGone ==
  ASSUME SwarmInv, Next, NEW o \in out', o.kind = "CancelUploadRead"
  PROVE  \A r \in DOMAIN pending' : pending'[r].id # o.id
<1>1. PICK c \in DOMAIN pending : pending[c].id = o.id /\ c \notin DOMAIN pending'
  BY ReadCancelled DEF SwarmInv
<1>2. \A p \in out' : p.kind # "ReadForUpload"
  <2> SUFFICES ASSUME NEW p \in out', p.kind = "ReadForUpload" PROVE FALSE
    OBVIOUS
  <2>1. out' = {ReadForUpload(nextReadId, p.range)}
    BY ReadStarted DEF SwarmInv
  <2> QED
    BY <2>1 DEF ReadForUpload
<1>3. DOMAIN pending' \subseteq DOMAIN pending /\ \A r \in DOMAIN pending' : pending'[r].id = pending[r].id
  BY <1>2, NoReadStarted DEF SwarmInv
<1>4. \A r \in DOMAIN pending : pending[r].id = pending[c].id => r = c
  BY DEF SwarmInv, ReadsInv, PendingReadsAreWanted
<1> QED
  BY <1>1, <1>3, <1>4

\* An input that is no answer of the disk, taken while the loop waits.
LEMMA ReadsHeldInput ==
  ASSUME SwarmInv, ReadsOK, ReadsHeld, Selecting, Next, NoAnswer,
         todo' = out', nested' = {}, UNCHANGED readVars
  PROVE  ReadsHeld'
<1>1. /\ PendingHaveReads /\ HandlesWanted /\ Outputs = {} /\ todo = {}
      /\ Outputs' = out'
  BY SelectingIsEmpty DEF ReadsHeld, Outputs
<1>2. reads' = reads /\ readHandles' = readHandles
  BY DEF readVars
<1>3. \A r \in DOMAIN pending :
        [id |-> pending[r].id, range |-> r] \in reads /\ pending[r].id \in readHandles
  BY <1>1 DEF PendingHaveReads
<1>4. CancelsUnwanted'
  BY <1>1, CancelledGone DEF CancelsUnwanted
<1>5. HandlesWanted'
  <2> SUFFICES ASSUME NEW h \in readHandles
               PROVE  (\E r \in DOMAIN pending' : pending'[r].id = h) \/ CancelUploadRead(h) \in out'
    BY <1>1, <1>2 DEF HandlesWanted
  <2>1. PICK r \in DOMAIN pending : pending[r].id = h
    BY <1>1 DEF HandlesWanted
  <2> QED
    BY <2>1, ReadKept DEF SwarmInv
<1>6. ASSUME NEW o \in out', o.kind = "ReadForUpload"
      PROVE  /\ ReadForUpload(nextReadId, o.range) = o /\ out' = {o} /\ o.id = nextReadId
             /\ budget' = 0 /\ o.range \in DOMAIN pending' /\ pending'[o.range].id = o.id
             /\ DOMAIN pending' = DOMAIN pending \cup {o.range}
             /\ \A r \in DOMAIN pending : pending'[r] = pending[r]
  BY <1>6, ReadStarted DEF SwarmInv
<1>7. StartsAlone'
  <2> SUFFICES ASSUME NEW o \in out', o.kind = "ReadForUpload"
               PROVE  /\ todo' = {o} /\ nested' = {} /\ budget' = 0
                      /\ o.range \in DOMAIN pending' /\ pending'[o.range].id = o.id
                      /\ \A t \in reads' : t.id # o.id
    BY <1>1 DEF StartsAlone
  <2>1. \A t \in reads : t.id \in 0 .. nextReadId - 1
    BY DEF ReadsOK
  <2>2. nextReadId \in Nat
    BY DEF SwarmInv, TypeInv, TypeOK, UploadsOK
  <2>3. \A t \in reads : t.id # nextReadId
    BY <2>1, <2>2
  <2>4. \A t \in reads' : t.id # o.id
    BY <1>2, <1>6, <2>3
  <2> QED
    BY <1>6, <2>4
<1>8. PendingHaveReads'
  <2> SUFFICES ASSUME NEW r \in DOMAIN pending'
               PROVE  \/ [id |-> pending'[r].id, range |-> r] \in reads /\ pending'[r].id \in readHandles
                      \/ ReadForUpload(pending'[r].id, r) \in out'
    BY <1>2 DEF PendingHaveReads
  <2>1. CASE \E o \in out' : o.kind = "ReadForUpload"
    <3>1. PICK o \in out' : o.kind = "ReadForUpload"
      BY <2>1
    <3>2. /\ ReadForUpload(nextReadId, o.range) = o /\ o.id = nextReadId
          /\ pending'[o.range].id = o.id
          /\ r \in DOMAIN pending \/ r = o.range
          /\ r \in DOMAIN pending => pending'[r] = pending[r]
      BY <1>6, <3>1
    <3>3. CASE r = o.range
      BY <3>1, <3>2, <3>3
    <3>4. CASE r \in DOMAIN pending
      BY <1>3, <3>2, <3>4
    <3> QED
      BY <3>2, <3>3, <3>4
  <2>2. CASE \A o \in out' : o.kind # "ReadForUpload"
    <3>1. r \in DOMAIN pending /\ pending'[r].id = pending[r].id
      BY <2>2, NoReadStarted DEF SwarmInv
    <3> QED
      BY <1>3, <3>1
  <2> QED
    BY <2>1, <2>2
<1> QED
  BY <1>4, <1>5, <1>7, <1>8 DEF ReadsHeld

\* A read that is joined with its handle is the one its upload waits for.
LEMMA ReadsHeldJoin ==
  ASSUME SwarmInv, ReadsOK, ReadsHeld, NEW t \in reads, JoinRead(t)
  PROVE  ReadsHeld'
<1>1. /\ PendingHaveReads /\ HandlesWanted /\ Outputs = {} /\ todo = {} /\ nested = {} /\ budget = 0
  BY SelectingIsEmpty DEF ReadsHeld, JoinRead, Outputs
<1>2. \A r \in DOMAIN pending :
        [id |-> pending[r].id, range |-> r] \in reads /\ pending[r].id \in readHandles
  BY <1>1 DEF PendingHaveReads
<1>3. \A h \in readHandles : \E r \in DOMAIN pending : pending[r].id = h
  BY <1>1 DEF HandlesWanted
<1>4. ASSUME NEW r \in DOMAIN pending, pending[r].id = t.id PROVE r = t.range
  <2>1. [id |-> pending[r].id, range |-> r] = t
    BY <1>2, <1>4 DEF ReadsOK
  <2> QED
    BY <2>1
<1>5. reads' = reads \ {t} /\ readHandles' = readHandles \ {t.id}
  BY DEF JoinRead
\* Then all that is left is what the others wait for.
<1>6. ASSUME \A r \in DOMAIN pending' : r \in DOMAIN pending /\ pending'[r] = pending[r],
             \A r \in DOMAIN pending : (r \in DOMAIN pending') <=> (pending[r].id # t.id),
             \A o \in Outputs' : o.kind \notin {"ReadForUpload", "CancelUploadRead"}
      PROVE  ReadsHeld'
  <2>1. PendingHaveReads'
    <3>1. ASSUME NEW r \in DOMAIN pending'
          PROVE  [id |-> pending'[r].id, range |-> r] \in reads' /\ pending'[r].id \in readHandles'
      <4>1. pending'[r] = pending[r] /\ pending[r].id # t.id /\ r \in DOMAIN pending
        BY <1>6
      <4>2. [id |-> pending[r].id, range |-> r] # t
        BY <4>1
      <4> QED
        BY <1>2, <1>5, <4>1, <4>2
    <3> QED
      BY <3>1 DEF PendingHaveReads
  <2>2. HandlesWanted'
    BY <1>3, <1>5, <1>6 DEF HandlesWanted
  <2>3. StartsAlone' /\ CancelsUnwanted'
    BY <1>6 DEF StartsAlone, CancelsUnwanted
  <2> QED
    BY <2>1, <2>2, <2>3 DEF ReadsHeld
<1>7. CASE t.id \in readHandles
  <2>1. t.range \in DOMAIN pending /\ pending[t.range].id = t.id
    BY <1>3, <1>4, <1>7
  <2>2. UploadReadCompleted(t.id, t.range) /\ Outputs' = out'
    BY <1>1, <1>7 DEF JoinRead, Perform, Outputs
  <2>3. /\ pending' = Remove(pending, {t.range})
        /\ out' \subseteq {Send(a, PieceData(t.range)) : a \in pending[t.range].peers \cap DOMAIN peers}
    BY <2>1, <2>2 DEF UploadReadCompleted, IsCurrentRead
  <2>4. \A o \in Outputs' : o.kind = "SendToPeer"
    BY <2>2, <2>3 DEF Send
  <2>5. /\ \A r \in DOMAIN pending' : r \in DOMAIN pending /\ pending'[r] = pending[r]
        /\ \A r \in DOMAIN pending : (r \in DOMAIN pending') <=> (pending[r].id # t.id)
    BY <1>4, <2>1, <2>3 DEF Remove
  <2> QED
    BY <1>6, <2>4, <2>5
<1>8. CASE t.id \notin readHandles
  <2>1. NoStep /\ UNCHANGED outputVars
    BY <1>8 DEF JoinRead
  <2>2. pending' = pending /\ Outputs' = {}
    BY <1>1, <2>1 DEF NoStep, uploadVars, outputVars, Outputs
  <2> QED
    BY <1>2, <1>6, <1>8, <2>2
<1> QED
  BY <1>7, <1>8

\* plan() is no step in which a read waits to be started.
LEMMA ReadsHeldPlan ==
  ASSUME SwarmInv, ReadsHeld, Plan
  PROVE  ReadsHeld'
<1>1. /\ budget > 0 /\ running' = running
      /\ todo' = todo \cup out' /\ UNCHANGED <<uploadVars, readVars, nested>>
      /\ \A o \in out' : o.kind = "SendToPeer"
  BY DEF Plan, sessionVars, PlanPick, Pick, Interested, Send
<1>2. CASE running
  <2>1. \A o \in Outputs : o.kind # "ReadForUpload"
    BY <1>1, <1>2 DEF ReadsHeld, StartsAlone
  <2>2. Outputs \subseteq Outputs' /\ Outputs' \subseteq Outputs \cup out' /\ todo \subseteq todo'
    BY <1>1 DEF Outputs
  <2>3. pending' = pending /\ reads' = reads /\ readHandles' = readHandles
    BY <1>1 DEF uploadVars, readVars
  <2>4. StartsAlone'
    BY <1>1, <2>1, <2>2 DEF StartsAlone
  <2>5. CancelsUnwanted'
    BY <1>1, <1>2, <2>2, <2>3 DEF ReadsHeld, CancelsUnwanted
  <2>6. PendingHaveReads' /\ HandlesWanted'
    BY <1>2, <2>2, <2>3 DEF ReadsHeld, PendingHaveReads, HandlesWanted
  <2> QED
    BY <2>4, <2>5, <2>6 DEF ReadsHeld
<1>3. CASE ~running
  BY <1>1, <1>3 DEF ReadsHeld
<1> QED
  BY <1>2, <1>3

\* The other outputs keep the reads: a disconnection gives some up, and then
\* they are to be cancelled.
LEMMA ReadsHeldOutput ==
  ASSUME SwarmInv, ReadsHeld, running, budget = 0, budget' = 0,
         NEW o \in ToPerform, o.kind \notin {"ReadForUpload", "CancelUploadRead"},
         NEW more, Performed(o, more), UNCHANGED readVars,
         \/ UNCHANGED uploadVars /\ \A p \in more : p.kind = "DisconnectPeer"
         \/ PeerDisconnected(o.addr) /\ more = out' /\ o.addr \in Addr
  PROVE  ReadsHeld'
<1>1. /\ o \in Outputs /\ (Outputs \ {o}) \cup more \subseteq Outputs'
      /\ Outputs' \subseteq Outputs \cup more
  BY PerformedKeeps
<1>2. PendingHaveReads /\ HandlesWanted /\ StartsAlone /\ CancelsUnwanted
  BY DEF ReadsHeld
<1>3. \A p \in Outputs : p.kind # "ReadForUpload"
  <2> SUFFICES ASSUME NEW p \in Outputs, p.kind = "ReadForUpload" PROVE FALSE
    OBVIOUS
  <2>1. todo = {p} /\ nested = {}
    BY <1>2 DEF StartsAlone
  <2> QED
    BY <2>1 DEF ToPerform
<1>4. \A r \in DOMAIN pending :
        [id |-> pending[r].id, range |-> r] \in reads /\ pending[r].id \in readHandles
  <2>1. \A id, r : ReadForUpload(id, r) \notin todo
    BY <1>3 DEF ReadForUpload, Outputs
  <2> QED
    BY <1>2, <2>1 DEF PendingHaveReads
<1>5. reads' = reads /\ readHandles' = readHandles
  BY DEF readVars
<1>6. ASSUME DOMAIN pending' \subseteq DOMAIN pending,
             \A r \in DOMAIN pending' : pending'[r].id = pending[r].id,
             \A r \in DOMAIN pending :
               r \in DOMAIN pending' \/ CancelUploadRead(pending[r].id) \in more,
             \A p \in more : p.kind # "ReadForUpload",
             \A p \in more : p.kind = "CancelUploadRead" =>
               \A r \in DOMAIN pending' : pending'[r].id # p.id
      PROVE  ReadsHeld'
  <2>1. PendingHaveReads'
    BY <1>4, <1>5, <1>6 DEF PendingHaveReads
  <2>2. HandlesWanted'
    <3>1. ASSUME NEW h \in readHandles
          PROVE  (\E r \in DOMAIN pending' : pending'[r].id = h) \/ CancelUploadRead(h) \in Outputs'
      <4>1. CASE CancelUploadRead(h) \in Outputs
        <5>1. CancelUploadRead(h) # o
          BY DEF CancelUploadRead
        <5> QED
          BY <1>1, <4>1, <5>1
      <4>2. ASSUME NEW r \in DOMAIN pending, pending[r].id = h
            PROVE  (\E q \in DOMAIN pending' : pending'[q].id = h) \/ CancelUploadRead(h) \in Outputs'
        BY <1>1, <1>6, <4>2
      <4> QED
        BY <1>2, <4>1, <4>2 DEF HandlesWanted
    <3> QED
      BY <1>5, <3>1 DEF HandlesWanted
  <2>3. StartsAlone'
    BY <1>1, <1>3, <1>6 DEF StartsAlone
  <2>4. CancelsUnwanted'
    <3>1. ASSUME NEW p \in Outputs', p.kind = "CancelUploadRead", NEW r \in DOMAIN pending'
          PROVE  pending'[r].id # p.id
      BY <1>1, <1>2, <1>6, <3>1 DEF CancelsUnwanted
    <3> QED
      BY <3>1 DEF CancelsUnwanted
  <2> QED
    BY <2>1, <2>2, <2>3, <2>4 DEF ReadsHeld
<1>7. CASE UNCHANGED uploadVars /\ \A p \in more : p.kind = "DisconnectPeer"
  BY <1>6, <1>7 DEF uploadVars
<1>8. CASE PeerDisconnected(o.addr) /\ more = out' /\ o.addr \in Addr
  <2>1. Next /\ NoAnswer
    BY <1>8 DEF Next, NoAnswer
  <2>2. \A p \in out' : p.kind # "ReadForUpload"
    BY <1>8 DEF PeerDisconnected, Cancelled, CancelUploadRead
  <2>3. /\ DOMAIN pending' \subseteq DOMAIN pending
        /\ \A r \in DOMAIN pending' : pending'[r].id = pending[r].id
    BY <2>1, <2>2, NoReadStarted DEF SwarmInv
  <2>4. \A r \in DOMAIN pending : r \in DOMAIN pending' \/ CancelUploadRead(pending[r].id) \in out'
    BY <2>1, ReadKept DEF SwarmInv
  <2>5. \A p \in out' : p.kind = "CancelUploadRead" => \A r \in DOMAIN pending' : pending'[r].id # p.id
    BY <2>1, CancelledGone
  <2> QED
    BY <1>6, <1>8, <2>2, <2>3, <2>4, <2>5
<1> QED
  BY <1>7, <1>8

\* A read is started for the upload that asked for it, and for no other.
LEMMA ReadsHeldRead ==
  ASSUME SwarmInv, ReadsHeld, NEW o \in ToPerform, Read(o)
  PROVE  ReadsHeld'
<1>1. /\ running /\ o.kind = "ReadForUpload" /\ o \in Outputs
      /\ reads' = reads \cup {[id |-> o.id, range |-> o.range]}
      /\ readHandles' = readHandles \cup {o.id}
      /\ Performed(o, {}) /\ pending' = pending
  BY PerformingRuns DEF Read, NoStep, uploadVars
<1>2. PendingHaveReads /\ HandlesWanted /\ StartsAlone /\ CancelsUnwanted
  BY <1>1 DEF ReadsHeld
<1>3. todo = {o} /\ nested = {} /\ o.range \in DOMAIN pending /\ pending[o.range].id = o.id
  BY <1>1, <1>2 DEF StartsAlone
<1>4. Outputs' = {} /\ \A p \in Outputs : p.kind # "CancelUploadRead"
  BY <1>1, <1>3 DEF Performed, Outputs
<1>5. PendingHaveReads'
  <2>1. ASSUME NEW r \in DOMAIN pending
        PROVE  [id |-> pending[r].id, range |-> r] \in reads' /\ pending[r].id \in readHandles'
    <3>1. CASE ReadForUpload(pending[r].id, r) \in todo
      <4>1. pending[r].id = o.id /\ r = o.range
        BY <1>3, <3>1 DEF ReadForUpload
      <4> QED
        BY <1>1, <4>1
    <3>2. CASE [id |-> pending[r].id, range |-> r] \in reads /\ pending[r].id \in readHandles
      BY <1>1, <3>2
    <3> QED
      BY <1>2, <3>1, <3>2 DEF PendingHaveReads
  <2> QED
    BY <1>1, <2>1 DEF PendingHaveReads
<1>6. HandlesWanted'
  <2>1. ASSUME NEW h \in readHandles' PROVE \E r \in DOMAIN pending : pending[r].id = h
    <3>1. CancelUploadRead(h) \notin Outputs
      BY <1>4 DEF CancelUploadRead
    <3> QED
      BY <1>1, <1>2, <1>3, <2>1, <3>1 DEF HandlesWanted
  <2> QED
    BY <1>1, <2>1 DEF HandlesWanted
<1>7. StartsAlone' /\ CancelsUnwanted'
  BY <1>4 DEF StartsAlone, CancelsUnwanted
<1> QED
  BY <1>5, <1>6, <1>7 DEF ReadsHeld

\* The handle of a read nobody waits for goes.
LEMMA ReadsHeldCancel ==
  ASSUME SwarmInv, ReadsHeld, NEW o \in ToPerform, CancelRead(o)
  PROVE  ReadsHeld'
<1>1. /\ running /\ o.kind = "CancelUploadRead" /\ o \in Outputs
      /\ reads' = reads /\ readHandles' = readHandles \ {o.id}
      /\ Performed(o, {}) /\ pending' = pending
  BY PerformingRuns DEF CancelRead, NoStep, uploadVars
<1>2. PendingHaveReads /\ HandlesWanted /\ StartsAlone /\ CancelsUnwanted
  BY <1>1 DEF ReadsHeld
<1>3. Outputs \ {o} \subseteq Outputs' /\ Outputs' \subseteq Outputs
  BY <1>1, PerformedKeeps
<1>4. \A p \in Outputs : p.kind # "ReadForUpload"
  <2> SUFFICES ASSUME NEW p \in Outputs, p.kind = "ReadForUpload" PROVE FALSE
    OBVIOUS
  <2>1. todo = {p} /\ nested = {}
    BY <1>2 DEF StartsAlone
  <2> QED
    BY <1>1, <2>1 DEF ToPerform
<1>5. \A r \in DOMAIN pending : pending[r].id # o.id
  BY <1>1, <1>2 DEF CancelsUnwanted
<1>6. PendingHaveReads'
  <2>1. \A id, r : ReadForUpload(id, r) \notin todo
    BY <1>4 DEF ReadForUpload, Outputs
  <2>2. \A r \in DOMAIN pending :
          [id |-> pending[r].id, range |-> r] \in reads' /\ pending[r].id \in readHandles'
    BY <1>1, <1>2, <1>5, <2>1 DEF PendingHaveReads
  <2> QED
    BY <1>1, <2>2 DEF PendingHaveReads
<1>7. HandlesWanted'
  <2>1. ASSUME NEW h \in readHandles, h # o.id
        PROVE  (\E r \in DOMAIN pending : pending[r].id = h) \/ CancelUploadRead(h) \in Outputs'
    <3>1. CancelUploadRead(h) # o
      BY <2>1 DEF CancelUploadRead
    <3> QED
      BY <1>2, <1>3, <2>1, <3>1 DEF HandlesWanted
  <2> QED
    BY <1>1, <2>1 DEF HandlesWanted
<1>8. StartsAlone'
  BY <1>3, <1>4 DEF StartsAlone
<1>9. CancelsUnwanted'
  BY <1>1, <1>2, <1>3 DEF CancelsUnwanted
<1> QED
  BY <1>6, <1>7, <1>8, <1>9 DEF ReadsHeld

\* Every step keeps handles and pending reads together, up to the outputs that wait.
LEMMA ReadsHeldStep ==
  ASSUME SwarmInv, SwarmTasks, OutputsOK, ReadsOK, ReadsHeld, IONext
  PROVE  ReadsHeld'
<1>1. CASE UNCHANGED <<uploadVars, readVars, outputVars, budget, running>>
  BY <1>1 DEF uploadVars, readVars, outputVars, ReadsHeld, PendingHaveReads, HandlesWanted,
              StartsAlone, CancelsUnwanted, Outputs
<1>2. CASE \E t \in reads : JoinRead(t)
  BY <1>2, ReadsHeldJoin
<1>3. CASE \E o \in ToPerform : Read(o) \/ CancelRead(o)
  BY <1>3, ReadsHeldRead, ReadsHeldCancel
<1>4. CASE ~running'
  BY <1>4 DEF ReadsHeld
<1> QED
  BY <1>1, <1>2, <1>3, <1>4, ReadSteps, ReadsHeldInput, ReadsHeldPlan, ReadsHeldOutput

\* Ids are given out one by one, and started reads have those of their uploads.
LEMMA ReadsOKStep ==
  ASSUME SwarmInv, SwarmTasks, OutputsOK, ReadsOK, ReadsHeld, IONext
  PROVE  ReadsOK'
<1>1. nextReadId' >= nextReadId /\ nextReadId' <= MaxReads
  <2>1. nextReadId \in Nat /\ nextReadId <= MaxReads /\ MaxReads \in Nat
    BY SwarmAssumption DEF ReadsOK, SwarmInv, TypeInv, TypeOK, UploadsOK
  <2>2. CASE UNCHANGED nextReadId
    BY <2>1, <2>2
  <2>3. CASE Next
    <3>1. CASE \A o \in out' : o.kind # "ReadForUpload"
      BY <2>2, <2>3, <3>1, NoReadStarted DEF SwarmInv
    <3>2. ASSUME NEW o \in out', o.kind = "ReadForUpload"
          PROVE  nextReadId' >= nextReadId /\ nextReadId' <= MaxReads
      <4>1. nextReadId < MaxReads /\ nextReadId' = nextReadId + 1
        BY <2>3, <3>2, ReadStarted DEF SwarmInv
      <4> QED
        BY <2>1, <4>1
    <3> QED
      BY <3>1, <3>2
  <2> QED
    BY <2>2, <2>3, SwarmPart DEF NoStep, ioVars, vars, uploadVars
<1>2. ASSUME reads' \subseteq reads PROVE ReadsOK'
  <2>1. nextReadId \in Nat /\ nextReadId' \in Nat
    BY SwarmInvIO DEF SwarmInv, TypeInv, TypeOK, UploadsOK
  <2>2. \A i \in 0 .. nextReadId - 1 : i \in 0 .. nextReadId' - 1
    <3>1. \A m, n \in Nat : n >= m => \A i \in 0 .. m - 1 : i \in 0 .. n - 1
      OBVIOUS
    <3> QED
      BY <1>1, <2>1, <3>1
  <2>3. reads' \subseteq [id : 0 .. nextReadId' - 1, range : UploadRanges]
    BY <1>2, <2>2 DEF ReadsOK
  <2> QED
    BY <1>1, <1>2, <2>3 DEF ReadsOK
<1>3. ASSUME NEW o \in ToPerform, Read(o) PROVE ReadsOK'
  <2>1. running /\ o.kind = "ReadForUpload" /\ o \in Outputs
    BY <1>3, PerformingRuns DEF Read
  <2>2. /\ o.range \in DOMAIN pending /\ pending[o.range].id = o.id
        /\ \A t \in reads : t.id # o.id
    BY <2>1 DEF ReadsHeld, StartsAlone
  <2>3. o.range \in UploadRanges /\ o.id \in Nat /\ o.id < nextReadId /\ nextReadId \in Nat
    BY <2>2 DEF SwarmInv, PendingInv, ReadsInv, PendingReadsAreWanted, TypeInv, TypeOK, UploadsOK, PendingRead
  <2>4. reads' = reads \cup {[id |-> o.id, range |-> o.range]} /\ nextReadId' = nextReadId
    BY <1>3 DEF Read, NoStep, uploadVars
  <2> QED
    BY <2>2, <2>3, <2>4 DEF ReadsOK
<1>4. CASE ~\E o \in ToPerform : Read(o)
  <2>1. \A t \in reads : JoinRead(t) => reads' \subseteq reads
    BY DEF JoinRead
  <2>2. \A o \in ToPerform : CancelRead(o) => reads' = reads
    BY DEF CancelRead
  <2>3. Plan => reads' = reads
    BY DEF Plan, readVars
  <2>4. UNCHANGED readVars => reads' = reads
    BY DEF readVars
  <2>5. reads' \subseteq reads
    BY <1>4, <2>1, <2>2, <2>3, <2>4, ReadSteps
  <2> QED
    BY <1>2, <2>5
<1> QED
  BY <1>3, <1>4

-----------------------------------------------------------------------------
\* The inductive invariant of the composition: the swarm's half, the tasks' half,
\* and the outputs on their way between them.

IOInv ==
  /\ SwarmInv /\ SwarmTasks /\ OutputsOK /\ ReadsOK
  /\ PeersHaveChannels
  /\ LivePeersKnown
  /\ ReadsHeld

\* At the start there are no peers, tasks, reads or outputs that could disagree.
LEMMA IOInvInit == IOInit => IOInv
<1> SUFFICES ASSUME IOInit PROVE IOInv
  OBVIOUS
<1>1. SwarmInv /\ SwarmTasks
  BY SwarmInvInit, TaskInvInit DEF IOInit, SwarmTasks
<1>2. /\ DOMAIN peers = {} /\ DOMAIN pending = {} /\ nextReadId = 0
      /\ DOMAIN peerCmds = {} /\ Outputs = {} /\ reads = {} /\ readHandles = {}
  BY DEF IOInit, Init, RegistryInit, UploadsInit, SessionsInit, EmptyMap, Outputs
<1>3. OutputsOK /\ ReadsOK
  BY <1>2, SwarmAssumption DEF OutputsOK, ReadsOK
<1>4. PeersHaveChannels /\ LivePeersKnown
  BY <1>2 DEF PeersHaveChannels, LivePeersKnown
<1>5. ReadsHeld
  BY <1>2 DEF ReadsHeld, PendingHaveReads, HandlesWanted, StartsAlone, CancelsUnwanted
<1> QED
  BY <1>1, <1>3, <1>4, <1>5 DEF IOInv

\* Every step of SwarmIO and of its tasks keeps its invariant.
LEMMA IOInvStep == IOInv /\ [IONext]_ioVars => IOInv'
<1>1. ASSUME IOInv, IONext PROVE IOInv'
  <2>1. SwarmInv' /\ SwarmTasks' /\ OutputsOK' /\ ReadsOK'
    BY <1>1, SwarmInvIO, SwarmTasksStep, OutputsOKStep, ReadsOKStep DEF IOInv
  <2>2. PeersHaveChannels' /\ LivePeersKnown'
    BY <1>1, ChannelsStep, LivePeersStep DEF IOInv
  <2>3. ReadsHeld'
    BY <1>1, ReadsHeldStep DEF IOInv
  <2> QED
    BY <2>1, <2>2, <2>3 DEF IOInv
<1>2. ASSUME IOInv, UNCHANGED ioVars PROVE IOInv'
  <2> USE <1>2 DEF ioVars
  <2>1. SwarmInv'
    BY SwarmInvStep DEF IOInv
  <2>2. SwarmTasks'
    BY TaskInvUnchanged DEF IOInv, SwarmTasks, sessionVars, taskVars
  <2>3. OutputsOK' /\ ReadsOK'
    BY DEF IOInv, OutputsOK, Outputs, outputVars, ReadsOK, readVars, vars, uploadVars
  <2>4. PeersHaveChannels'
    BY DEF IOInv, PeersHaveChannels, ToSend, ToDisconnect, Outputs, outputVars,
           vars, registryVars, sessionVars, taskVars
  <2>5. LivePeersKnown'
    BY DEF IOInv, LivePeersKnown, LastConnected, KnownAs, ConnectedAt, Alone, EndReported,
           ToDisconnect, Outputs, outputVars, vars, registryVars, sessionVars, taskVars
  <2>6. ReadsHeld'
    BY DEF IOInv, ReadsHeld, PendingHaveReads, HandlesWanted, StartsAlone, CancelsUnwanted,
           Outputs, outputVars, readVars, vars, uploadVars, sessionVars
  <2> QED
    BY <2>1, <2>2, <2>3, <2>4, <2>5, <2>6 DEF IOInv
<1> QED
  BY <1>1, <1>2

\* The invariant holds throughout.
LEMMA IOInvariant == IOSpec => []IOInv
BY IOInvInit, IOInvStep, PTL DEF IOSpec

-----------------------------------------------------------------------------

\* Whenever the loop waits, every registered peer and every peer asked for a block
\* has a channel (peer_connected and handle_output of adapters/swarm_io.rs).
THEOREM ChannelsAreHeld == IOSpec => []ChannelsHeld
<1>1. IOInv => ChannelsHeld
  <2> SUFFICES ASSUME IOInv, Selecting
               PROVE  DOMAIN peers \cup {x.addr : x \in assigned} \subseteq DOMAIN peerCmds
    BY DEF ChannelsHeld
  <2>1. DOMAIN peers \subseteq DOMAIN peerCmds
    BY SelectingIsEmpty DEF IOInv, PeersHaveChannels, ToSend, ToDisconnect
  <2>2. {x.addr : x \in assigned} \subseteq DOMAIN peers
    BY DEF IOInv, SwarmInv, RequestsCanBeAnswered
  <2> QED
    BY <2>1, <2>2
<1> QED
  BY <1>1, IOInvariant, PTL

\* Whenever the loop waits, the reads with a handle are exactly those of the
\* pending uploads (read_for_upload, cancel_upload_read and the branch of
\* join_next in adapters/swarm_io.rs).
THEOREM ReadsMatch == IOSpec => []ReadsMatchPending
<1>1. IOInv => ReadsMatchPending
  <2> SUFFICES ASSUME IOInv, Selecting
               PROVE  /\ readHandles = {pending[r].id : r \in DOMAIN pending}
                      /\ \A r \in DOMAIN pending : [id |-> pending[r].id, range |-> r] \in reads
    BY DEF ReadsMatchPending
  <2>1. PendingHaveReads /\ HandlesWanted /\ Outputs = {} /\ todo = {}
    BY SelectingIsEmpty DEF IOInv, ReadsHeld, Outputs
  <2>2. \A r \in DOMAIN pending :
          [id |-> pending[r].id, range |-> r] \in reads /\ pending[r].id \in readHandles
    BY <2>1 DEF PendingHaveReads
  <2>3. \A h \in readHandles : \E r \in DOMAIN pending : pending[r].id = h
    BY <2>1 DEF HandlesWanted
  <2> QED
    BY <2>2, <2>3
<1> QED
  BY <1>1, IOInvariant, PTL

\* Once every event is handled and no task is about to end, the swarm's peers and
\* the peer tasks agree (the whole of adapters/swarm_io.rs and adapters/peer_io.rs).
THEOREM TasksAgree == IOSpec => []SwarmAndTasksAgree
<1>1. IOInv => SwarmAndTasksAgree
  <2> SUFFICES ASSUME IOInv, Quiet
               PROVE  /\ DOMAIN peers \subseteq DOMAIN peerCmds
                      /\ \A a \in DOMAIN peerCmds :
                           /\ Reaches(a)
                           /\ sessions[peerCmds[a]].phase = "Live" =>
                                a \in DOMAIN peers /\ peers[a].id = sessions[peerCmds[a]].link.id
    BY DEF SwarmAndTasksAgree
  <2>1. /\ Selecting /\ running /\ Outputs = {} /\ events = <<>>
        /\ \A s \in DOMAIN sessions : HasCommands(s)
    BY SelectingIsEmpty DEF Quiet
  <2>2. \A i \in DOMAIN events : FALSE
    BY <2>1
  <2>3. DOMAIN peers \subseteq DOMAIN peerCmds
    BY <2>1 DEF IOInv, PeersHaveChannels, ToSend, ToDisconnect
  <2>4. ASSUME NEW a \in DOMAIN peerCmds
        PROVE  /\ Reaches(a)
               /\ sessions[peerCmds[a]].phase = "Live" =>
                    a \in DOMAIN peers /\ peers[a].id = sessions[peerCmds[a]].link.id
    <3> DEFINE s == peerCmds[a]
    <3>1. ~EndReported(a)
      BY <2>2 DEF EndReported
    <3>2. s \in DOMAIN sessions /\ sessions[s].addr = a
      BY <3>1 DEF IOInv, SwarmTasks, TaskInv, ChannelsLead
    <3>3. Alone(s)
      BY <2>1, <3>2 DEF Alone, HasCommands
    <3>4. ~LastConnected(a, s) /\ ~ToDisconnect(a)
      BY <2>1, <2>2 DEF LastConnected, ToDisconnect
    <3>5. sessions[s].phase = "Live" => KnownAs(a, s)
      BY <3>1, <3>2, <3>3, <3>4 DEF IOInv, LivePeersKnown
    <3> QED
      BY <3>2, <3>5 DEF Reaches, KnownAs
  <2> QED
    BY <2>3, <2>4
<1> QED
  BY <1>1, IOInvariant, PTL

-----------------------------------------------------------------------------
\* Nothing the loop does makes the swarm do what it would not do alone: hiding the
\* outputs, each step of SwarmIO::run is one step of Swarm, or leaves the swarm as
\* it is (adapters/swarm_io.rs and domain/swarm.rs).  So what is shown of every
\* step of the swarm holds in the loop too.
THEOREM SwarmInside == IOSpec => Init /\ [][Next]_swarmState
<1>1. IOInit => Init
  BY DEF IOInit
<1>2. IOInv /\ [IONext]_ioVars => [Next]_swarmState
  <2> SUFFICES ASSUME IOInv, IONext, ~Next PROVE UNCHANGED swarmState
    BY DEF ioVars, vars, swarmState, pieceVars, registryVars, uploadVars
  <2>1. NoStep \/ UNCHANGED ioVars
    BY SwarmPart DEF IOInv
  <2> QED
    BY <2>1 DEF NoStep, ioVars, vars, swarmState
<1> QED
  BY <1>1, <1>2, IOInvariant, PTL DEF IOSpec

=============================================================================
