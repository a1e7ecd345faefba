----------------------------- MODULE SessionProofs -----------------------------
(***************************************************************************)
(* What holds of the peer tasks and their events in every program that     *)
(* runs them, for any addresses, links and messages, and any number of     *)
(* tasks.  SwarmIOProofs and MetadataProofs rest on it.                     *)
(***************************************************************************)
EXTENDS Sessions, SequenceTheorems, TLAPS

Event(addrs, links, messages) ==
       [kind : {"Connected"}, session : Nat, addr : addrs, link : links]
  \cup [kind : {"Disconnected"}, session : Nat, addr : addrs]
  \cup [kind : {"Message"}, session : Nat, addr : addrs, message : messages]

\* A task that has not been connected yet has no link.
PeerTask(addrs, links) ==
       [addr : addrs, direction : {"Inbound", "Outbound"}, phase : {"Connecting", "Ended"}]
  \cup [addr : addrs, direction : {"Inbound", "Outbound"}, phase : Phase, link : links]

\* A link of the task leads to its address.
LinkFits(task) == task.phase = "Starting" => task.link.addr = task.addr

TasksOK(addrs, links, messages) ==
  /\ nextSession \in Nat
  /\ DOMAIN sessions \subseteq 0 .. nextSession - 1
  /\ \A s \in DOMAIN sessions : sessions[s] \in PeerTask(addrs, links) /\ LinkFits(sessions[s])
  /\ events \in Seq(Event(addrs, links, messages))
  /\ \A i \in DOMAIN events : events[i].kind = "Connected" => events[i].link.addr = events[i].addr
  /\ DOMAIN peerCmds \subseteq addrs
  /\ ~running => DOMAIN peerCmds = {} /\ events = <<>>

\* The end of a task of this address is on its way.
EndReported(a) == \E i \in DOMAIN events : events[i].kind = "Disconnected" /\ events[i].addr = a

\* A channel leads to a task of its address, or the end of one is on its way.
ChannelsLead ==
  \A a \in DOMAIN peerCmds :
    \/ peerCmds[a] \in DOMAIN sessions /\ sessions[peerCmds[a]].addr = a
    \/ EndReported(a)

\* An event comes from an address that has a task, or whose end comes after it.
HasTask(a) == \E s \in DOMAIN sessions : sessions[s].addr = a
EndsAfter(i) ==
  \E j \in DOMAIN events :
    j > i /\ events[j].kind = "Disconnected" /\ events[j].addr = events[i].addr
EventsOfTasks ==
  \A i \in DOMAIN events :
    events[i].kind # "Disconnected" => HasTask(events[i].addr) \/ EndsAfter(i)

-----------------------------------------------------------------------------
\* Sequences of events

\* The events after one more has come.
LEMMA AppendEvent ==
  ASSUME NEW E, events \in Seq(E), NEW e, events' = Append(events, e)
  PROVE  /\ Len(events) \in Nat
         /\ DOMAIN events = 1 .. Len(events)
         /\ DOMAIN events' = 1 .. Len(events) + 1
         /\ \A i \in DOMAIN events : i \in DOMAIN events' /\ events'[i] = events[i]
         /\ events'[Len(events) + 1] = e
         /\ Len(events) + 1 \in DOMAIN events'
         /\ \A i \in DOMAIN events' : i \in DOMAIN events \/ i = Len(events) + 1
         /\ e \in E => events' \in Seq(E)
<1>1. events \in Seq(E \cup {e}) /\ e \in E \cup {e}
  OBVIOUS
<1>2. events' \in Seq(E \cup {e}) /\ Len(events') = Len(events) + 1
  BY <1>1
<1>3. Len(events) \in Nat /\ DOMAIN events = 1 .. Len(events) /\ DOMAIN events' = 1 .. Len(events) + 1
  BY <1>1, <1>2
<1>4. \A i \in 1 .. Len(events) + 1 :
        events'[i] = IF i <= Len(events) THEN events[i] ELSE e
  BY <1>1
<1>5. e \in E => events' \in Seq(E)
  OBVIOUS
<1> QED
  BY <1>3, <1>4, <1>5

\* The events after the first has been taken.
LEMMA TakeFirst ==
  ASSUME NEW E, events \in Seq(E), events # <<>>, events' = Tail(events)
  PROVE  /\ 1 \in DOMAIN events /\ Head(events) = events[1]
         /\ events[1] \in E
         /\ events' \in Seq(E)
         /\ Len(events) \in Nat \ {0}
         /\ DOMAIN events = 1 .. Len(events)
         /\ DOMAIN events' = 1 .. Len(events) - 1
         /\ \A i \in DOMAIN events' : i + 1 \in DOMAIN events /\ events'[i] = events[i + 1]
         /\ \A i \in DOMAIN events : i # 1 => i - 1 \in DOMAIN events' /\ events'[i - 1] = events[i]
<1>1. Len(events) \in Nat \ {0} /\ DOMAIN events = 1 .. Len(events)
  BY EmptySeq
<1>2. events' \in Seq(E) /\ Len(events') = Len(events) - 1
  BY <1>1, HeadTailProperties
<1>3. DOMAIN events' = 1 .. Len(events) - 1 /\ \A i \in 1 .. Len(events) - 1 : events'[i] = events[i + 1]
  BY <1>1, <1>2, HeadTailProperties
<1> QED
  BY <1>1, <1>2, <1>3

-----------------------------------------------------------------------------
\* What tasks do

\* A step of a task is silent, or one of three events: it never touches the
\* channels, never changes its address, and is live only after its Connected.
LEMMA TaskFootprint ==
  ASSUME NEW A, NEW L, NEW M, TasksOK(A, L, M), NEW s \in DOMAIN sessions, SessionStep(s, L, M)
  PROVE  /\ UNCHANGED <<nextSession, peerCmds, peerCancels, running>>
         /\ \/ /\ UNCHANGED events
               /\ DOMAIN sessions' = DOMAIN sessions
               /\ \A t \in DOMAIN sessions :
                    /\ sessions'[t] \in PeerTask(A, L)
                    /\ LinkFits(sessions'[t])
                    /\ sessions'[t].addr = sessions[t].addr
                    /\ sessions'[t].phase = "Live" => sessions'[t] = sessions[t]
            \/ /\ running
               /\ events' = Append(events, ConnectedEvent(s, sessions[s].link))
               /\ ConnectedEvent(s, sessions[s].link) \in Event(A, L, M)
               /\ sessions[s].link.addr = sessions[s].addr
               /\ DOMAIN sessions' = DOMAIN sessions
               /\ \A t \in DOMAIN sessions : t # s => sessions'[t] = sessions[t]
               /\ sessions'[s] \in PeerTask(A, L)
               /\ LinkFits(sessions'[s])
               /\ sessions'[s].addr = sessions[s].addr
               /\ sessions'[s].link = sessions[s].link
            \/ /\ running
               /\ \E m \in M : /\ events' = Append(events, MessageEvent(s, m))
                                /\ MessageEvent(s, m) \in Event(A, L, M)
               /\ UNCHANGED sessions
            \/ /\ sessions' = Remove(sessions, {s})
               /\ \/ /\ running
                     /\ events' = Append(events, DisconnectedEvent(s))
                     /\ DisconnectedEvent(s) \in Event(A, L, M)
                  \/ ~running /\ UNCHANGED events
<1>1. s \in Nat /\ sessions[s] \in PeerTask(A, L) /\ LinkFits(sessions[s])
  BY DEF TasksOK
<1>2. sessions[s].phase \in {"Starting", "Live"} => sessions[s].link \in L
  BY <1>1 DEF PeerTask
<1>3. \A t \in DOMAIN sessions : sessions[t] \in PeerTask(A, L) /\ LinkFits(sessions[t])
  BY DEF TasksOK
<1>4. CASE \E c \in L : Establish(s, c)
  <2>1. PICK c \in L : Establish(s, c)
    BY <1>4
  <2> DEFINE task == [addr |-> c.addr, direction |-> "Outbound", phase |-> "Starting", link |-> c]
  <2>2. task \in PeerTask(A, L) /\ LinkFits(task) /\ task.addr = sessions[s].addr /\ task.phase # "Live"
    BY <1>1, <2>1 DEF Establish, PeerTask, LinkFits, Phase
  <2>3. sessions' = [sessions EXCEPT ![s] = task]
    BY <2>1 DEF Establish
  <2> HIDE DEF task
  <2>4. \A t \in DOMAIN sessions : sessions'[t] = IF t = s THEN task ELSE sessions[t]
    BY <2>3
  <2> QED
    BY <1>3, <2>1, <2>2, <2>3, <2>4 DEF Establish
<1>5. ASSUME NEW phase \in Phase, MoveTo(s, phase), sessions[s].phase = "Starting" => phase # "Starting",
             sessions[s].phase \in {"Starting", "Live"} \/ phase \in {"Connecting", "Ended"}
      PROVE  /\ UNCHANGED <<nextSession, peerCmds, peerCancels>>
             /\ DOMAIN sessions' = DOMAIN sessions
             /\ \A t \in DOMAIN sessions : t # s => sessions'[t] = sessions[t]
             /\ sessions'[s] \in PeerTask(A, L)
             /\ sessions'[s].addr = sessions[s].addr
             /\ sessions'[s].phase = phase
             /\ sessions[s].phase \in {"Starting", "Live"} => sessions'[s].link = sessions[s].link
  <2> DEFINE task == [sessions[s] EXCEPT !.phase = phase]
  <2>1. /\ task \in PeerTask(A, L) /\ task.addr = sessions[s].addr /\ task.phase = phase
        /\ sessions[s].phase \in {"Starting", "Live"} => task.link = sessions[s].link
    BY <1>1, <1>5 DEF PeerTask, Phase
  <2>2. sessions' = [sessions EXCEPT ![s] = task] /\ UNCHANGED <<nextSession, peerCmds, peerCancels>>
    BY <1>5 DEF MoveTo
  <2> HIDE DEF task
  <2>3. DOMAIN sessions' = DOMAIN sessions
        /\ \A t \in DOMAIN sessions : sessions'[t] = IF t = s THEN task ELSE sessions[t]
    BY <2>2
  <2> QED
    BY <2>1, <2>2, <2>3
<1>6. CASE GiveUp(s) \/ Break(s) \/ Stop(s)
  <2>1. PICK phase \in {"Connecting", "Ended"} : MoveTo(s, phase) /\ UNCHANGED <<events, running>>
    BY <1>6 DEF GiveUp, Break, Stop
  <2>2. phase \in Phase /\ phase # "Starting" /\ phase # "Live"
    BY <2>1 DEF Phase
  <2> QED
    BY <1>3, <1>5, <2>1, <2>2 DEF LinkFits
<1>7. CASE Start(s)
  <2>1. MoveTo(s, "Live") /\ sessions[s].phase = "Starting" /\ running /\ UNCHANGED running
        /\ events' = Append(events, ConnectedEvent(s, sessions[s].link))
    BY <1>7 DEF Start, Report
  <2>2. sessions[s].link.addr = sessions[s].addr /\ sessions[s].addr \in A
    BY <1>1, <2>1 DEF LinkFits, PeerTask
  <2>3. ConnectedEvent(s, sessions[s].link) \in Event(A, L, M)
    BY <1>1, <1>2, <2>1, <2>2 DEF ConnectedEvent, Event
  <2>4. "Live" \in Phase
    BY DEF Phase
  <2> QED
    BY <1>5, <2>1, <2>2, <2>3, <2>4 DEF LinkFits
<1>8. CASE \E m \in M : ReceiveMessage(s, m)
  BY <1>1, <1>8 DEF ReceiveMessage, Report, MessageEvent, Event, PeerTask, taskVars
<1>9. CASE Finish(s)
  BY <1>1, <1>9 DEF Finish, Report, DisconnectedEvent, Event, PeerTask
<1> QED
  BY <1>4, <1>6, <1>7, <1>8, <1>9 DEF SessionStep

\* A task keeps its address until it is gone, and reports that it goes.
LEMMA TaskStays ==
  ASSUME NEW A, NEW L, NEW M, TasksOK(A, L, M), NEW s \in DOMAIN sessions, SessionStep(s, L, M),
         NEW t \in DOMAIN sessions
  PROVE  \/ t \in DOMAIN sessions' /\ sessions'[t].addr = sessions[t].addr
         \/ t = s /\ running /\ events' = Append(events, DisconnectedEvent(s))
         \/ ~running
<1>1. CASE DOMAIN sessions' = DOMAIN sessions /\ sessions'[t].addr = sessions[t].addr
  BY <1>1
<1>2. CASE sessions' = Remove(sessions, {s})
  <2>1. t # s => t \in DOMAIN sessions' /\ sessions'[t] = sessions[t]
    BY <1>2 DEF Remove
  <2> QED
    BY <1>2, <2>1, TaskFootprint
<1> QED
  BY <1>1, <1>2, TaskFootprint

\* Tasks stay well typed.
LEMMA TasksOKStep ==
  ASSUME NEW A, NEW L, NEW M, TasksOK(A, L, M), NEW s \in DOMAIN sessions, SessionStep(s, L, M)
  PROVE  TasksOK(A, L, M)'
<1>1. events \in Seq(Event(A, L, M))
  BY DEF TasksOK
<1>2. UNCHANGED <<nextSession, peerCmds, running>>
  BY TaskFootprint
<1>3. /\ DOMAIN sessions' \subseteq DOMAIN sessions
      /\ \A t \in DOMAIN sessions' : sessions'[t] \in PeerTask(A, L) /\ LinkFits(sessions'[t])
  <2>1. \A t \in DOMAIN sessions : sessions[t] \in PeerTask(A, L) /\ LinkFits(sessions[t])
    BY Zenon DEF TasksOK
  <2>2. CASE /\ DOMAIN sessions' = DOMAIN sessions
             /\ \A t \in DOMAIN sessions : sessions'[t] \in PeerTask(A, L) /\ LinkFits(sessions'[t])
    BY <2>2, Zenon
  <2>3. CASE /\ DOMAIN sessions' = DOMAIN sessions
             /\ \A t \in DOMAIN sessions : t # s => sessions'[t] = sessions[t]
             /\ sessions'[s] \in PeerTask(A, L) /\ LinkFits(sessions'[s])
    BY <2>1, <2>3, Zenon
  <2>4. CASE UNCHANGED sessions
    BY <2>1, <2>4, Zenon
  <2>5. CASE sessions' = Remove(sessions, {s})
    <3>1. /\ DOMAIN sessions' = DOMAIN sessions \ {s}
          /\ \A t \in DOMAIN sessions \ {s} : sessions'[t] = sessions[t]
      BY <2>5, Zenon DEF Remove
    <3> QED
      BY <2>1, <3>1, Zenon
  <2>6. \/ /\ DOMAIN sessions' = DOMAIN sessions
           /\ \A t \in DOMAIN sessions : sessions'[t] \in PeerTask(A, L) /\ LinkFits(sessions'[t])
        \/ /\ DOMAIN sessions' = DOMAIN sessions
           /\ \A t \in DOMAIN sessions : t # s => sessions'[t] = sessions[t]
           /\ sessions'[s] \in PeerTask(A, L) /\ LinkFits(sessions'[s])
        \/ UNCHANGED sessions
        \/ sessions' = Remove(sessions, {s})
    BY TaskFootprint, Zenon
  <2> QED
    BY <2>2, <2>3, <2>4, <2>5, <2>6, Zenon
<1>4. CASE UNCHANGED events
  BY <1>2, <1>3, <1>4 DEF TasksOK
<1>5. ASSUME NEW e \in Event(A, L, M), events' = Append(events, e), running,
             e.kind = "Connected" => e.link.addr = e.addr
      PROVE  TasksOK(A, L, M)'
  <2>1. events' \in Seq(Event(A, L, M))
    BY <1>1, <1>5
  <2>2. \A i \in DOMAIN events' : events'[i].kind = "Connected" => events'[i].link.addr = events'[i].addr
    BY <1>1, <1>5, AppendEvent DEF TasksOK
  <2> QED
    BY <1>2, <1>3, <1>5, <2>1, <2>2 DEF TasksOK
<1>6. /\ ConnectedEvent(s, sessions[s].link).addr = ConnectedEvent(s, sessions[s].link).link.addr
      /\ \A m \in M : MessageEvent(s, m).kind # "Connected"
      /\ DisconnectedEvent(s).kind # "Connected"
  BY DEF ConnectedEvent, MessageEvent, DisconnectedEvent
<1>7. \/ UNCHANGED events
      \/ \E e \in Event(A, L, M) :
           events' = Append(events, e) /\ running /\ (e.kind = "Connected" => e.link.addr = e.addr)
  BY <1>6, TaskFootprint
<1> QED
  BY <1>4, <1>5, <1>7

\* The end of a task that is on its way stays so when events are added.
LEMMA EndIsKept ==
  ASSUME NEW A, NEW L, NEW M, TasksOK(A, L, M), NEW s \in DOMAIN sessions, SessionStep(s, L, M),
         NEW a, EndReported(a)
  PROVE  EndReported(a)'
<1>1. events \in Seq(Event(A, L, M))
  BY DEF TasksOK
<1>2. PICK i \in DOMAIN events : events[i].kind = "Disconnected" /\ events[i].addr = a
  BY DEF EndReported
<1>3. CASE UNCHANGED events
  BY <1>2, <1>3 DEF EndReported
<1>4. ASSUME NEW e, events' = Append(events, e)
      PROVE  EndReported(a)'
  BY <1>1, <1>2, <1>4, AppendEvent DEF EndReported
<1> QED
  BY <1>3, <1>4, TaskFootprint

\* A task that goes reports its end.
LEMMA TaskOrEnd ==
  ASSUME NEW A, NEW L, NEW M, TasksOK(A, L, M), NEW s \in DOMAIN sessions, SessionStep(s, L, M),
         running, NEW a, NEW t \in DOMAIN sessions, sessions[t].addr = a
  PROVE  (t \in DOMAIN sessions' /\ sessions'[t].addr = a) \/ EndReported(a)'
<1>1. CASE t = s /\ events' = Append(events, DisconnectedEvent(s))
  <2>1. DisconnectedEvent(s).kind = "Disconnected" /\ DisconnectedEvent(s).addr = a
    BY <1>1 DEF DisconnectedEvent
  <2>2. events \in Seq(Event(A, L, M))
    BY DEF TasksOK
  <2>3. Len(events) + 1 \in DOMAIN events' /\ events'[Len(events) + 1] = DisconnectedEvent(s)
    BY <1>1, <2>2, AppendEvent
  <2> QED
    BY <2>1, <2>3 DEF EndReported
<1> QED
  BY <1>1, TaskStays

\* An address that has a task, or whose end is on its way.
Attended(a) == HasTask(a) \/ EndReported(a)

\* An address that has a task, or the end of one on its way, keeps it when a task steps.
LEMMA AttendedStep ==
  ASSUME NEW A, NEW L, NEW M, TasksOK(A, L, M), NEW s \in DOMAIN sessions, SessionStep(s, L, M),
         running, NEW a, Attended(a)
  PROVE  Attended(a)'
<1>1. ASSUME HasTask(a) PROVE Attended(a)'
  <2>1. PICK t \in DOMAIN sessions : sessions[t].addr = a
    BY <1>1 DEF HasTask
  <2>2. (t \in DOMAIN sessions' /\ sessions'[t].addr = a) \/ EndReported(a)'
    BY <2>1, TaskOrEnd
  <2> QED
    BY <2>2 DEF HasTask, Attended
<1>2. ASSUME EndReported(a) PROVE Attended(a)'
  BY <1>2, EndIsKept DEF Attended
<1> QED
  BY <1>1, <1>2 DEF Attended

\* A task that ends reports it before its channel is forgotten.
LEMMA ChannelsLeadStep ==
  ASSUME NEW A, NEW L, NEW M, TasksOK(A, L, M), ChannelsLead,
         NEW s \in DOMAIN sessions, SessionStep(s, L, M)
  PROVE  ChannelsLead'
<1> SUFFICES ASSUME NEW a \in DOMAIN peerCmds'
             PROVE  \/ peerCmds'[a] \in DOMAIN sessions' /\ sessions'[peerCmds'[a]].addr = a
                    \/ EndReported(a)'
  BY DEF ChannelsLead
<1>2. peerCmds' = peerCmds /\ a \in DOMAIN peerCmds
  BY TaskFootprint
<1>3. CASE EndReported(a)
  BY <1>3, EndIsKept
<1>4. CASE peerCmds[a] \in DOMAIN sessions /\ sessions[peerCmds[a]].addr = a
  <2>1. CASE running
    BY <1>2, <1>4, <2>1, TaskOrEnd
  <2>2. CASE ~running
    BY <1>2, <2>2 DEF TasksOK
  <2> QED
    BY <2>1, <2>2
<1> QED
  BY <1>2, <1>3, <1>4 DEF ChannelsLead

\* An event is followed by the end of its task when the task goes.
LEMMA EventsOfTasksStep ==
  ASSUME NEW A, NEW L, NEW M, TasksOK(A, L, M), EventsOfTasks,
         NEW s \in DOMAIN sessions, SessionStep(s, L, M)
  PROVE  EventsOfTasks'
<1> SUFFICES ASSUME NEW i \in DOMAIN events', events'[i].kind # "Disconnected"
             PROVE  HasTask(events[i].addr)' \/ EndsAfter(i)'
  BY DEF EventsOfTasks
<1>1. events \in Seq(Event(A, L, M)) /\ (~running => events = <<>>)
  BY DEF TasksOK
<1>2. CASE ~running
  <2>1. running' = FALSE \/ ~running'
    BY <1>2, TaskFootprint
  <2>2. events' = <<>>
    BY <1>2, <2>1, TasksOKStep DEF TasksOK
  <2> QED
    BY <2>2
<1>3. CASE running /\ i \in DOMAIN events /\ events'[i] = events[i]
  <2>1. CASE HasTask(events[i].addr)
    <3>1. PICK t \in DOMAIN sessions : sessions[t].addr = events[i].addr
      BY <2>1 DEF HasTask
    <3>2. CASE t \in DOMAIN sessions' /\ sessions'[t].addr = sessions[t].addr
      BY <1>3, <3>1, <3>2 DEF HasTask
    <3>3. CASE t = s /\ events' = Append(events, DisconnectedEvent(s))
      <4>1. DisconnectedEvent(s).kind = "Disconnected" /\ DisconnectedEvent(s).addr = events[i].addr
        BY <3>1, <3>3 DEF DisconnectedEvent
      <4>2. Len(events) + 1 \in DOMAIN events' /\ events'[Len(events) + 1] = DisconnectedEvent(s)
            /\ i < Len(events) + 1
        BY <1>1, <1>3, <3>3, AppendEvent
      <4> QED
        BY <1>3, <4>1, <4>2 DEF EndsAfter
    <3> QED
      BY <1>3, <3>2, <3>3, TaskStays
  <2>2. CASE EndsAfter(i)
    <3>1. PICK j \in DOMAIN events : j > i /\ events[j].kind = "Disconnected" /\ events[j].addr = events[i].addr
      BY <2>2 DEF EndsAfter
    <3>2. CASE UNCHANGED events
      BY <1>3, <3>1, <3>2 DEF EndsAfter
    <3>3. ASSUME NEW e, events' = Append(events, e)
          PROVE  EndsAfter(i)'
      <4>1. j \in DOMAIN events' /\ events'[j] = events[j]
        BY <1>1, <3>1, <3>3, AppendEvent
      <4> QED
        BY <1>3, <3>1, <4>1 DEF EndsAfter
    <3> QED
      BY <3>2, <3>3, TaskFootprint
  <2> QED
    BY <1>3, <2>1, <2>2 DEF EventsOfTasks
<1>4. CASE UNCHANGED events
  BY <1>2, <1>3, <1>4
<1>5. ASSUME NEW e, events' = Append(events, e), running,
             e.kind # "Disconnected" => e.addr = sessions[s].addr /\ DOMAIN sessions' = DOMAIN sessions
                                        /\ sessions'[s].addr = sessions[s].addr
      PROVE  HasTask(events[i].addr)' \/ EndsAfter(i)'
  <2>1. (i \in DOMAIN events /\ events'[i] = events[i]) \/ (i = Len(events) + 1 /\ events'[i] = e)
    BY <1>1, <1>5, AppendEvent
  <2>2. CASE events'[i] = e
    BY <1>5, <2>2 DEF HasTask
  <2> QED
    BY <1>3, <1>5, <2>1, <2>2
<1>6. /\ ConnectedEvent(s, sessions[s].link).addr = sessions[s].link.addr
      /\ \A m \in M : MessageEvent(s, m).addr = sessions[s].addr
      /\ DisconnectedEvent(s).kind = "Disconnected"
  BY DEF ConnectedEvent, MessageEvent, DisconnectedEvent
<1>7. CASE running /\ events' = Append(events, DisconnectedEvent(s))
  BY <1>5, <1>6, <1>7
<1>8. CASE /\ running /\ events' = Append(events, ConnectedEvent(s, sessions[s].link))
           /\ sessions[s].link.addr = sessions[s].addr
           /\ DOMAIN sessions' = DOMAIN sessions /\ sessions'[s].addr = sessions[s].addr
  BY <1>5, <1>6, <1>8
<1>9. CASE running /\ UNCHANGED sessions /\ \E m \in M : events' = Append(events, MessageEvent(s, m))
  BY <1>5, <1>6, <1>9
<1> QED
  BY <1>2, <1>4, <1>7, <1>8, <1>9, TaskFootprint

-----------------------------------------------------------------------------
\* The three together: an invariant of every loop that runs tasks.
TaskInv(addrs, links, messages) ==
  TasksOK(addrs, links, messages) /\ ChannelsLead /\ EventsOfTasks

\* There are no tasks at the start.
LEMMA TaskInvInit ==
  ASSUME NEW A, NEW L, NEW M, SessionsInit
  PROVE  TaskInv(A, L, M)
BY DEF SessionsInit, EmptyMap, TaskInv, TasksOK, ChannelsLead, EventsOfTasks

\* TaskInv speaks of the tasks, their channels and their events only.
LEMMA TaskInvUnchanged ==
  ASSUME NEW A, NEW L, NEW M, TaskInv(A, L, M), UNCHANGED <<sessions, nextSession, peerCmds, events, running>>
  PROVE  TaskInv(A, L, M)'
BY DEF TaskInv, TasksOK, ChannelsLead, EndReported, EventsOfTasks, HasTask, EndsAfter

\* A step of a task keeps the tasks, links and events well-formed.
LEMMA TaskInvStep ==
  ASSUME NEW A, NEW L, NEW M, TaskInv(A, L, M), NEW s \in DOMAIN sessions, SessionStep(s, L, M)
  PROVE  TaskInv(A, L, M)'
BY TasksOKStep, ChannelsLeadStep, EventsOfTasksStep DEF TaskInv

\* A new task of an address takes the place of the one before, if any.
LEMMA LaunchStep ==
  ASSUME NEW A, NEW L, NEW M, TaskInv(A, L, M), running,
         NEW a \in A, NEW task \in PeerTask(A, L), task.addr = a, LinkFits(task),
         Launch(a, task), UNCHANGED <<events, running>>
  PROVE  TaskInv(A, L, M)'
<1>1. nextSession \in Nat /\ DOMAIN sessions \subseteq 0 .. nextSession - 1
  BY DEF TaskInv, TasksOK
<1>2. /\ DOMAIN sessions' = DOMAIN sessions \cup {nextSession}
      /\ sessions'[nextSession] = task
      /\ \A s \in DOMAIN sessions : sessions'[s] = sessions[s]
  BY <1>1 DEF Launch, Insert
<1>3. /\ DOMAIN peerCmds' = DOMAIN peerCmds \cup {a}
      /\ peerCmds'[a] = nextSession
      /\ \A b \in DOMAIN peerCmds : b # a => peerCmds'[b] = peerCmds[b]
  BY DEF Launch, Insert
<1>4. TasksOK(A, L, M)'
  <2>1. nextSession' \in Nat /\ DOMAIN sessions' \subseteq 0 .. nextSession' - 1
    BY <1>1, <1>2 DEF Launch
  <2>2. \A s \in DOMAIN sessions' : sessions'[s] \in PeerTask(A, L) /\ LinkFits(sessions'[s])
    BY <1>2 DEF TaskInv, TasksOK
  <2> QED
    BY <1>3, <2>1, <2>2 DEF TaskInv, TasksOK
<1>5. ChannelsLead'
  <2> SUFFICES ASSUME NEW b \in DOMAIN peerCmds'
               PROVE  \/ peerCmds'[b] \in DOMAIN sessions' /\ sessions'[peerCmds'[b]].addr = b
                      \/ EndReported(b)'
    BY DEF ChannelsLead
  <2>1. CASE b = a
    BY <1>2, <1>3, <2>1
  <2>2. CASE b # a
    BY <1>2, <1>3, <2>2 DEF TaskInv, ChannelsLead, EndReported
  <2> QED
    BY <2>1, <2>2
<1>6. EventsOfTasks'
  <2>1. \A b : HasTask(b) => HasTask(b)'
    BY <1>2 DEF HasTask
  <2> QED
    BY <2>1 DEF TaskInv, EventsOfTasks, EndsAfter
<1> QED
  BY <1>4, <1>5, <1>6 DEF TaskInv

\* A channel is closed.
LEMMA DropStep ==
  ASSUME NEW A, NEW L, NEW M, TaskInv(A, L, M), NEW a, Drop(a), UNCHANGED <<events, running>>
  PROVE  TaskInv(A, L, M)'
<1>1. /\ DOMAIN peerCmds' = DOMAIN peerCmds \ {a} /\ UNCHANGED <<sessions, nextSession>>
      /\ \A b \in DOMAIN peerCmds' : peerCmds'[b] = peerCmds[b]
  BY DEF Drop, Remove
<1>2. TasksOK(A, L, M)'
  BY <1>1 DEF TaskInv, TasksOK
<1>3. ChannelsLead'
  BY <1>1 DEF TaskInv, ChannelsLead, EndReported
<1>4. EventsOfTasks'
  BY <1>1 DEF TaskInv, EventsOfTasks, EndsAfter, HasTask
<1> QED
  BY <1>2, <1>3, <1>4 DEF TaskInv

\* After an event has been taken, the end of another address is still on its way.
LEMMA EndStaysReported ==
  ASSUME NEW E, events \in Seq(E), events # <<>>, events' = Tail(events),
         NEW a, EndReported(a), events[1].kind = "Disconnected" => events[1].addr # a
  PROVE  EndReported(a)'
<1>1. PICK i \in DOMAIN events : events[i].kind = "Disconnected" /\ events[i].addr = a
  BY DEF EndReported
<1>2. i - 1 \in DOMAIN events' /\ events'[i - 1] = events[i]
  BY <1>1, TakeFirst
<1> QED
  BY <1>1, <1>2 DEF EndReported

\* What an event is about has a task, or will be told to have none.
LEMMA TakenIsAttended ==
  ASSUME NEW A, NEW L, NEW M, TaskInv(A, L, M), events # <<>>, events' = Tail(events),
         UNCHANGED sessions, events[1].kind # "Disconnected", NEW a, events[1].addr = a
  PROVE  Attended(a)'
<1>1. events \in Seq(Event(A, L, M)) /\ 1 \in DOMAIN events
  <2>1. events \in Seq(Event(A, L, M))
    BY DEF TaskInv, TasksOK
  <2> QED
    BY <2>1, TakeFirst
<1>2. CASE HasTask(a)
  BY <1>2 DEF HasTask, Attended
<1>3. CASE EndsAfter(1)
  <2>1. EndReported(a)
    BY <1>3 DEF EndsAfter, EndReported
  <2> QED
    BY <1>1, <2>1, EndStaysReported DEF Attended
<1> QED
  BY <1>1, <1>2, <1>3 DEF TaskInv, EventsOfTasks

\* The loop takes an event; with the end of a task it forgets the channel of
\* that address, and otherwise none.
LEMMA TakeStep ==
  ASSUME NEW A, NEW L, NEW M, TaskInv(A, L, M),
         events # <<>>, events' = Tail(events),
         UNCHANGED <<sessions, nextSession, running>>,
         IF events[1].kind = "Disconnected" THEN Forget(events[1].addr) ELSE UNCHANGED peerCmds
  PROVE  TaskInv(A, L, M)'
<1>1. events \in Seq(Event(A, L, M)) /\ running
  BY DEF TaskInv, TasksOK
<1>2. /\ DOMAIN peerCmds' \subseteq DOMAIN peerCmds
      /\ \A b \in DOMAIN peerCmds' : /\ peerCmds'[b] = peerCmds[b]
                                     /\ events[1].kind = "Disconnected" => events[1].addr # b
  <2>1. CASE events[1].kind = "Disconnected"
    BY <2>1 DEF Forget, Remove
  <2>2. CASE events[1].kind # "Disconnected"
    BY <2>2
  <2> QED
    BY <2>1, <2>2
<1>3. TasksOK(A, L, M)'
  <2>1. events' \in Seq(Event(A, L, M))
    BY <1>1, TakeFirst
  <2>2. \A i \in DOMAIN events' : events'[i].kind = "Connected" => events'[i].link.addr = events'[i].addr
    BY <1>1, TakeFirst DEF TaskInv, TasksOK
  <2> QED
    BY <1>1, <1>2, <2>1, <2>2 DEF TaskInv, TasksOK
<1>4. ChannelsLead'
  <2> SUFFICES ASSUME NEW b \in DOMAIN peerCmds'
               PROVE  \/ peerCmds'[b] \in DOMAIN sessions' /\ sessions'[peerCmds'[b]].addr = b
                      \/ EndReported(b)'
    BY DEF ChannelsLead
  <2>1. EndReported(b) => EndReported(b)'
    BY <1>1, <1>2, EndStaysReported
  <2> QED
    BY <1>2, <2>1 DEF TaskInv, ChannelsLead
<1>5. EventsOfTasks'
  <2> SUFFICES ASSUME NEW i \in DOMAIN events', events'[i].kind # "Disconnected"
               PROVE  HasTask(events[i].addr)' \/ EndsAfter(i)'
    BY DEF EventsOfTasks
  <2>1. i + 1 \in DOMAIN events /\ events'[i] = events[i + 1]
    BY <1>1, TakeFirst
  <2>2. CASE HasTask(events[i + 1].addr)
    BY <2>1, <2>2 DEF HasTask
  <2>3. CASE EndsAfter(i + 1)
    <3>1. PICK j \in DOMAIN events :
            j > i + 1 /\ events[j].kind = "Disconnected" /\ events[j].addr = events[i + 1].addr
      BY <2>3 DEF EndsAfter
    <3>2. i \in Nat /\ i >= 1 /\ j \in Nat
      BY <1>1, <3>1, TakeFirst
    <3>3. j - 1 \in DOMAIN events' /\ events'[j - 1] = events[j]
      BY <1>1, <3>1, <3>2, TakeFirst
    <3>4. /\ j - 1 > i /\ events'[j - 1].kind = "Disconnected"
          /\ events'[j - 1].addr = events'[i].addr
      BY <2>1, <3>1, <3>2, <3>3
    <3> QED
      BY <3>3, <3>4 DEF EndsAfter
  <2> QED
    BY <2>1, <2>2, <2>3 DEF TaskInv, EventsOfTasks
<1> QED
  BY <1>3, <1>4, <1>5 DEF TaskInv

\* The loop returns: its ends of the channels go.
LEMMA ReturnStep ==
  ASSUME NEW A, NEW L, NEW M, TaskInv(A, L, M),
         running' = FALSE, peerCmds' = EmptyMap, events' = <<>>, UNCHANGED <<sessions, nextSession>>
  PROVE  TaskInv(A, L, M)'
<1>1. DOMAIN peerCmds' = {} /\ DOMAIN events' = {} /\ events' \in Seq(Event(A, L, M))
  BY DEF EmptyMap
<1> QED
  BY <1>1 DEF TaskInv, TasksOK, ChannelsLead, EventsOfTasks

=============================================================================
