------------------------------- MODULE Sessions -------------------------------
(***************************************************************************)
(* The peer tasks (adapters/peer_io.rs) and what SwarmIO holds of them.    *)
(* An outbound task connects, runs a session, and connects again when the  *)
(* session breaks; an inbound one runs a single session.  Both report to   *)
(* SwarmIO through one channel of events, in which a task is known by its  *)
(* address only.  Tasks are numbered here; the program has no such number. *)
(* SwarmIO and MetadataIO both run such tasks.                             *)
(***************************************************************************)
EXTENDS Maps, Integers, Sequences

CONSTANTS
  MaxSessions,  \* bound: tasks spawned in a behaviour
  MaxEvents     \* capacity of the channel of events, 1024 in the program

ASSUME SessionsAssumption == MaxSessions \in Nat /\ MaxEvents \in Nat \ {0}

VARIABLES
  sessions,     \* the tasks that run, by number
  nextSession,  \* the number of the next task
  peerCmds,     \* SwarmIO::peer_cmds: address -> task that has the receiver
  peerCancels,  \* TcpPeerConnector::peer_cancels: address -> task to cancel
  events,       \* the channel of events
  running       \* SwarmIO::run has not returned: its channel ends exist

taskVars    == <<sessions, nextSession, peerCmds, peerCancels>>
sessionVars == <<taskVars, events, running>>

Phase == {"Connecting",  \* connect_with_retry
          "Starting",    \* handshake done, run_session about to report it
          "Live",        \* reading and writing messages
          "Ended"}       \* run is over, Disconnected is to be reported

SessionsInit ==
  /\ sessions = EmptyMap
  /\ nextSession = 0
  /\ peerCmds = EmptyMap
  /\ peerCancels = EmptyMap
  /\ events = <<>>
  /\ running = TRUE

ConnectedEvent(s, c)  == [kind |-> "Connected", session |-> s, addr |-> c.addr, link |-> c]
DisconnectedEvent(s)  == [kind |-> "Disconnected", session |-> s, addr |-> sessions[s].addr]
MessageEvent(s, m)    == [kind |-> "Message", session |-> s, addr |-> sessions[s].addr, message |-> m]

\* evt_tx.send, which waits while the channel is full.
Report(e) == running /\ Len(events) < MaxEvents /\ events' = Append(events, e)

\* The task's sender was used or dropped: dropped too when another one takes
\* its place in peer_cancels.
IsCancelled(s) ==
  ~(sessions[s].addr \in DOMAIN peerCancels /\ peerCancels[sessions[s].addr] = s)

\* SwarmIO still holds the sending end of the task's command channel.
HasCommands(s) == sessions[s].addr \in DOMAIN peerCmds /\ peerCmds[sessions[s].addr] = s

MoveTo(s, phase) ==
  /\ sessions' = [sessions EXCEPT ![s].phase = phase]
  /\ UNCHANGED <<nextSession, peerCmds, peerCancels>>

-----------------------------------------------------------------------------
\* What SwarmIO does to tasks

\* TcpPeerConnector::connect and accept, with a new channel of commands.  What
\* was in peer_cmds and peer_cancels for the address is overwritten, that is,
\* dropped.
Launch(a, task) ==
  /\ sessions' = Insert(sessions, nextSession, task)
  /\ nextSession' = nextSession + 1
  /\ peerCmds' = Insert(peerCmds, a, nextSession)
  /\ peerCancels' = Insert(peerCancels, a, nextSession)

\* SwarmIO's spawn_peer and accept_inbound: not if the address has a task.
Spawn(a, task) == IF a \in DOMAIN peerCmds THEN UNCHANGED taskVars ELSE Launch(a, task)

Outbound(a) == [addr |-> a, direction |-> "Outbound", phase |-> "Connecting"]
Inbound(c)  == [addr |-> c.addr, direction |-> "Inbound", phase |-> "Starting", link |-> c]

\* Output::DisconnectPeer: the channel goes and the task is told to stop.
Drop(a) ==
  /\ peerCmds' = Remove(peerCmds, {a})
  /\ peerCancels' = Remove(peerCancels, {a})
  /\ UNCHANGED <<sessions, nextSession>>

\* Mutant of Forget: the channel of a task that ended is kept.
ForgetNothing(a) == UNCHANGED taskVars

\* PeerEvent::Disconnected: the channel of that address goes.
Forget(a) ==
  /\ peerCmds' = Remove(peerCmds, {a})
  /\ UNCHANGED <<sessions, nextSession, peerCancels>>

-----------------------------------------------------------------------------
\* What tasks do

\* connect succeeds: TCP connection and handshake with the remote of link c.
Establish(s, c) ==
  /\ sessions[s].phase = "Connecting"
  /\ c.addr = sessions[s].addr
  /\ c.direction = "Outbound"
  /\ sessions' = [sessions EXCEPT ![s] =
       [addr |-> c.addr, direction |-> "Outbound", phase |-> "Starting", link |-> c]]
  /\ UNCHANGED <<nextSession, peerCmds, peerCancels, events, running>>

\* MAX_ATTEMPTS connections failed in a row.
GiveUp(s) ==
  /\ sessions[s].phase = "Connecting"
  /\ MoveTo(s, "Ended")
  /\ UNCHANGED <<events, running>>

\* run_session reports the connection.  A cancellation that comes while the
\* task is being polled is seen only afterwards, hence no guard against it.
Start(s) ==
  /\ sessions[s].phase = "Starting"
  /\ Report(ConnectedEvent(s, sessions[s].link))
  /\ MoveTo(s, "Live")
  /\ UNCHANGED running

ReceiveMessage(s, m) ==
  /\ sessions[s].phase = "Live"
  /\ Report(MessageEvent(s, m))
  /\ UNCHANGED <<taskVars, running>>

\* SessionExit::Reconnect: the connection breaks or is silent for too long.  An
\* outbound task connects again and reports nothing of it.
Break(s) ==
  /\ sessions[s].phase \in {"Starting", "Live"}
  /\ MoveTo(s, IF sessions[s].direction = "Outbound" THEN "Connecting" ELSE "Ended")
  /\ UNCHANGED <<events, running>>

\* Mutant of Stop: the task looks at its cancellation only.
StopIfCancelled(s) ==
  /\ sessions[s].phase # "Ended"
  /\ IsCancelled(s)
  /\ MoveTo(s, "Ended")
  /\ UNCHANGED <<events, running>>

\* Mutant of Stop: the task looks at its command channel only.
StopIfUnheld(s) ==
  /\ sessions[s].phase = "Live"
  /\ ~HasCommands(s)
  /\ MoveTo(s, "Ended")
  /\ UNCHANGED <<events, running>>

\* SessionExit::Stop, and Error::Cancelled while connecting.  A task that is not
\* in a session does not look at its command channel.
Stop(s) ==
  /\ sessions[s].phase # "Ended"
  /\ IsCancelled(s) \/ (sessions[s].phase = "Live" /\ ~HasCommands(s))
  /\ MoveTo(s, "Ended")
  /\ UNCHANGED <<events, running>>

\* The task reports its end, once, to a SwarmIO that still listens, and is gone.
Finish(s) ==
  /\ sessions[s].phase = "Ended"
  /\ Report(DisconnectedEvent(s)) \/ (~running /\ UNCHANGED events)
  /\ sessions' = Remove(sessions, {s})
  /\ UNCHANGED <<nextSession, peerCmds, peerCancels, running>>

SessionStep(s, connections, messages) ==
  \/ \E c \in connections : Establish(s, c)
  \/ GiveUp(s)
  \/ Start(s)
  \/ \E m \in messages : ReceiveMessage(s, m)
  \/ Break(s)
  \/ Stop(s)
  \/ Finish(s)

=============================================================================
