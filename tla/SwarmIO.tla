-------------------------------- MODULE SwarmIO --------------------------------
(***************************************************************************)
(* The loop that runs a swarm (adapters/swarm_io.rs): it takes one input   *)
(* at a time, lets Swarm::step handle it, and performs the outputs one by  *)
(* one, while the peer tasks go on.  Swarm and Sessions composed: the two  *)
(* halves meet only through the inputs taken and the outputs performed.    *)
(***************************************************************************)
EXTENDS Swarm, Sessions

VARIABLES
  todo,        \* outputs of the last input's step that are still to be performed
  nested,      \* outputs that performing one of them gave rise to
  reads,       \* SwarmIO::reads: the disk reads that have not been joined
  readHandles  \* SwarmIO::read_handles: ids of the reads that are wanted

outputVars == <<todo, nested>>
readVars == <<reads, readHandles>>
ioVars   == <<vars, sessionVars, outputVars, readVars>>

\* The swarm makes no step, and there are no outputs of one.
NoStep ==
  /\ out' = {}
  /\ UNCHANGED <<pieceVars, registryVars, assigned, uploadVars, status, budget, restored>>

\* The loop waits in its select!.
Selecting == running /\ Idle /\ todo = {} /\ nested = {}

\* The outputs of a step are performed next.  Bound: no step asks for more
\* tasks than MaxSessions leaves.
Perform ==
  /\ todo' = out'
  /\ UNCHANGED nested
  /\ nextSession + Cardinality({o \in out' : o.kind = "ConnectPeer"}) <= MaxSessions

-----------------------------------------------------------------------------
\* Inputs: the branches of the select!

Restore ==
  /\ running
  /\ \E data \in LocalContents : LocalPiece(data)
  /\ UNCHANGED <<sessionVars, outputVars, readVars>>

Discover ==
  /\ Selecting
  /\ \E addrs \in Discoveries : PeersDiscovered(addrs)
  /\ Perform
  /\ UNCHANGED <<sessionVars, readVars>>

Command ==
  /\ Selecting
  /\ \E s \in Statuses : SetStatus(s)
  /\ Perform
  /\ UNCHANGED <<sessionVars, readVars>>

Tick ==
  /\ Selecting
  /\ TickBlock \/ TickPex
  /\ Perform
  /\ UNCHANGED <<sessionVars, readVars>>

\* accept_inbound: a task, and no step of the swarm.
AcceptInbound(c) ==
  /\ Selecting
  /\ c.direction = "Inbound"
  /\ nextSession < MaxSessions
  /\ Spawn(c.addr, Inbound(c))
  /\ NoStep
  /\ UNCHANGED <<events, running, outputVars, readVars>>

TakeConnected(e) == e.kind = "Connected" /\ PeerConnected(e.link) /\ UNCHANGED taskVars

TakeDisconnected(e) ==
  e.kind = "Disconnected" /\ Forget(e.addr) /\ PeerDisconnected(e.addr)

TakeMessage(e) ==
  e.kind = "Message" /\ MessageReceived(e.addr, e.message) /\ UNCHANGED taskVars

TakeEvent ==
  /\ Selecting
  /\ events # <<>>
  /\ LET e == Head(events) IN TakeConnected(e) \/ TakeDisconnected(e) \/ TakeMessage(e)
  /\ events' = Tail(events)
  /\ Perform
  /\ UNCHANGED <<running, readVars>>

\* join_next: a read without a handle was cancelled, and its result is dropped.
JoinRead(t) ==
  /\ Selecting
  /\ reads' = reads \ {t}
  /\ readHandles' = readHandles \ {t.id}
  /\ IF t.id \in readHandles
     THEN UploadReadCompleted(t.id, t.range) /\ Perform
     ELSE NoStep /\ UNCHANGED outputVars
  /\ UNCHANGED sessionVars

\* plan() at the end of the step: its requests are outputs of that step.
Plan ==
  /\ PlanPick
  /\ todo' = todo \cup out'
  /\ UNCHANGED <<sessionVars, nested, readVars>>

-----------------------------------------------------------------------------
\* Outputs: handle_output

\* The order in which the code lists the outputs of a step.
Rank(o) ==
  CASE o.kind = "Broadcast"        -> 1
    [] o.kind = "WritePiece"       -> 2
    [] o.kind = "Completed"        -> 3
    [] o.kind = "CancelUploadRead" -> 4
    [] o.kind = "DisconnectPeer"   -> 5
    [] OTHER                       -> 6

\* What the stack of handle_output holds comes before the rest of the step's.
ToPerform == IF nested = {} THEN todo ELSE nested

Performing(o, kinds) ==
  /\ running /\ Idle
  /\ o \in ToPerform
  /\ o.kind \in kinds
  /\ \A p \in ToPerform : Rank(o) <= Rank(p)

\* The output is done with, and gives rise to more.
Performed(o, more) ==
  /\ todo' = IF nested = {} THEN todo \ {o} ELSE todo
  /\ nested' = (nested \ {o}) \cup more

Connect(o) ==
  /\ Performing(o, {"ConnectPeer"})
  /\ Spawn(o.addr, Outbound(o.addr))
  /\ Performed(o, {})
  /\ NoStep
  /\ UNCHANGED <<events, running, readVars>>

\* Mutant of DisconnectAfter: the swarm is not told.
DisconnectSilently(o) ==
  /\ Drop(o.addr)
  /\ NoStep
  /\ Performed(o, {})
  /\ UNCHANGED <<events, running, readVars>>

\* The channel is closed, the task told to stop and the swarm told of it, all
\* at once; what that step asks for comes next.
DisconnectAfter(o) ==
  /\ Drop(o.addr)
  /\ PeerDisconnected(o.addr)
  /\ Performed(o, out')
  /\ UNCHANGED <<events, running, readVars>>

Disconnect(o) == Performing(o, {"DisconnectPeer"}) /\ DisconnectAfter(o)

\* There is a task to receive what is sent to the address.
Reaches(a) == a \in DOMAIN peerCmds /\ peerCmds[a] \in DOMAIN sessions

SendToPeer(o) ==
  /\ Performing(o, {"SendToPeer"})
  /\ Reaches(o.addr)
  /\ Performed(o, {})
  /\ NoStep
  /\ UNCHANGED <<sessionVars, readVars>>

\* No task, or one that does not take its messages for 20 seconds.
SendFails(o) == Performing(o, {"SendToPeer"}) /\ DisconnectAfter(o)

\* Sent to every task, in a session or not; those it does not reach are
\* disconnected.
BroadcastAll(o) ==
  /\ Performing(o, {"Broadcast"})
  /\ \E failed \in SUBSET DOMAIN peerCmds :
       /\ \A a \in DOMAIN peerCmds \ failed : Reaches(a)
       /\ Performed(o, {DisconnectPeer(a) : a \in failed})
  /\ NoStep
  /\ UNCHANGED <<sessionVars, readVars>>

Read(o) ==
  /\ Performing(o, {"ReadForUpload"})
  /\ reads' = reads \cup {[id |-> o.id, range |-> o.range]}
  /\ readHandles' = readHandles \cup {o.id}
  /\ Performed(o, {})
  /\ NoStep
  /\ UNCHANGED <<sessionVars>>

\* Mutant of CancelRead: the task is aborted but its handle stays.
CancelReadKeepsHandle(o) ==
  /\ Performing(o, {"CancelUploadRead"})
  /\ Performed(o, {})
  /\ NoStep
  /\ UNCHANGED <<sessionVars, readVars>>

CancelRead(o) ==
  /\ Performing(o, {"CancelUploadRead"})
  /\ readHandles' = readHandles \ {o.id}
  /\ Performed(o, {})
  /\ NoStep
  /\ UNCHANGED <<sessionVars, reads>>

Store(o) ==
  /\ Performing(o, {"WritePiece", "Completed"})
  /\ Performed(o, {})
  /\ NoStep
  /\ UNCHANGED <<sessionVars, readVars>>

HandleOutput(o) ==
  \/ Connect(o)
  \/ Disconnect(o)
  \/ SendToPeer(o)
  \/ SendFails(o)
  \/ BroadcastAll(o)
  \/ Read(o)
  \/ CancelRead(o)
  \/ Store(o)

\* run() returns: the user or the trackers are gone, or the store failed.  The
\* reads are aborted, and the ends of the channels go with SwarmIO.
Return ==
  /\ running
  /\ Selecting \/ \E o \in ToPerform : Performing(o, {"WritePiece", "Completed"})
  /\ running' = FALSE
  /\ peerCmds' = EmptyMap
  /\ peerCancels' = EmptyMap
  /\ events' = <<>>
  /\ todo' = {}
  /\ nested' = {}
  /\ reads' = {}
  /\ readHandles' = {}
  /\ NoStep
  /\ UNCHANGED <<sessions, nextSession>>

-----------------------------------------------------------------------------

\* Bound: no more requests on their way to the swarm than MaxReads leaves.
Receivable ==
  {m \in Messages :
     m.type = "Request" =>
       nextReadId + Cardinality({i \in DOMAIN events : events[i].kind = "Message"}) < MaxReads}

Task(s) == SessionStep(s, Connections, Receivable) /\ NoStep /\ UNCHANGED <<outputVars, readVars>>

\* Nothing is left.
Over == ~running /\ sessions = EmptyMap /\ UNCHANGED ioVars

IOInit ==
  /\ Init
  /\ SessionsInit
  /\ todo = {}
  /\ nested = {}
  /\ reads = {}
  /\ readHandles = {}

IONext ==
  \/ Restore
  \/ Discover
  \/ Command
  \/ Tick
  \/ \E c \in Connections : AcceptInbound(c)
  \/ TakeEvent
  \/ \E t \in reads : JoinRead(t)
  \/ Plan
  \/ \E o \in ToPerform : HandleOutput(o)
  \/ Return
  \/ \E s \in DOMAIN sessions : Task(s)
  \/ Over

IOSpec == IOInit /\ [][IONext]_ioVars

=============================================================================
