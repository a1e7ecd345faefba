--------------------------- MODULE SwarmIOProperties ---------------------------
(***************************************************************************)
(* What SwarmIO has to guarantee: that the swarm's view of its peers is    *)
(* that of the tasks, up to the events that are on their way.              *)
(***************************************************************************)
EXTENDS SwarmIO

\* The loop waits, no event is on its way, and no task is about to end: each is
\* the one SwarmIO would send to.
Quiet == Selecting /\ events = <<>> /\ \A s \in DOMAIN sessions : HasCommands(s)

\* Once the dust has settled, whatever connections came up, crossed, broke, were
\* replaced, timed out or came back at an address still in use: every peer the
\* swarm counts on has a task, no channel leads to a task that is gone, and a
\* session that is up is one the swarm knows, as the peer it really is.
SwarmAndTasksAgree ==
  Quiet =>
    /\ DOMAIN peers \subseteq DOMAIN peerCmds
    /\ \A a \in DOMAIN peerCmds :
         /\ Reaches(a)
         /\ LET task == sessions[peerCmds[a]]
            IN  task.phase = "Live" => a \in DOMAIN peers /\ peers[a].id = task.link.id

\* Even before that, whenever the loop waits, a registered peer has a channel,
\* and so has a peer that a request is in flight at, also when a send failed in
\* the middle of the requests of plan(): what the swarm sends next can be sent or
\* fails at once, and the end of the task will be reported.
ChannelsHeld ==
  Selecting => DOMAIN peers \cup {x.addr : x \in assigned} \subseteq DOMAIN peerCmds

\* The swarm waits for exactly the reads that run: every pending upload has its
\* read, and a read nobody waits for has lost its handle.
ReadsMatchPending ==
  Selecting =>
    /\ readHandles = {pending[r].id : r \in DOMAIN pending}
    /\ \A r \in DOMAIN pending : [id |-> pending[r].id, range |-> r] \in reads

\* A new connection that loses is closed "sans remplacer le peer actif ni
\* reinitialiser ses assignments" (docs/plan_peer_listener.md line 102): what is
\* disconnected is not the address of the connection that wins.
RejectionSparesActive ==
  [][TakeEvent =>
       LET e == Head(events)
       IN  e.kind = "Connected" /\ Loses(e.link) => byId[e.link.id].addr # e.addr]_ioVars

-----------------------------------------------------------------------------
\* Fairness

\* A step of a task that leaves the loop alone.
OfTask(s, step) ==
  s \in DOMAIN sessions /\ step /\ NoStep /\ UNCHANGED <<outputVars, readVars>>

\* What a task does until it is in a session: an attempt to connect ends, by success
\* or after MAX_ATTEMPTS, and the first message is written or fails (CONNECT_TIMEOUT).
\* Nothing says which of the two: a remote may accept and reset every time.
Onward(s) ==
  \/ GiveUp(s)
  \/ \E c \in Connections : Establish(s, c)
  \/ Start(s)
  \/ sessions[s].phase = "Starting" /\ Break(s)

\* The loop goes on with what it has begun, every branch of its select! that is ready
\* again and again is polled, tasks run, a task polled again and again sees that it is
\* to stop, and the channel of events serves its senders in order.
IOFairSpec ==
  /\ IOSpec
  /\ WF_ioVars(Restore \/ Plan \/ \E o \in ToPerform : HandleOutput(o))
  /\ SF_ioVars(TakeEvent)
  /\ \A s \in 0 .. MaxSessions - 1 :
       /\ WF_ioVars(OfTask(s, Onward(s)))
       /\ SF_ioVars(OfTask(s, Stop(s) \/ Finish(s)))

\* A task that was disconnected, whose cancel handle was overwritten, or whose
\* SwarmIO returned, also in the middle of the outputs of a step, ends: in
\* whatever phase it was, and whatever its remote does.  Since it stays cancelled
\* until it is gone, that is: again and again there is none.
StoppedTasksEnd == []<>(\A s \in DOMAIN sessions : ~IsCancelled(s))

\* A task that lost its channel of commands only, to the late end of its
\* predecessor at the address, ends as well, unless its remote accepts its
\* connections for ever and resets each before it is a session: outside of one
\* a task does not look at that channel (peer_io.rs lines 195-200, 327-329).
InPhase(s, phase) == s \in DOMAIN sessions /\ sessions[s].phase = phase
LetIn(s)          == []<>InPhase(s, "Starting") => []<>InPhase(s, "Live")
LostTasksEnd ==
  \A s \in 0 .. MaxSessions - 1 :
    LetIn(s) => []<>(s \in DOMAIN sessions => HasCommands(s))

=============================================================================
