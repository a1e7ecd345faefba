----------------------------- MODULE BootstrapProofs -----------------------------
(***************************************************************************)
(* What the two tasks guarantee that get a download going: the fetching of *)
(* metadata, for every set of peers and messages, every size, and any      *)
(* number of tasks; and the tracker task it gets addresses from, for all   *)
(* waiting times, answers and capacities.                                  *)
(***************************************************************************)
EXTENDS FetchProperties, TrackerProperties, SessionProofs

-----------------------------------------------------------------------------
\* The fetcher

\* The size is taken together with the first peer: without one, nobody is known.
\* Otherwise the peers known already would have to be asked when the size comes.
FetchInv == MissingIsAsked /\ (totalSize = NoSize => DOMAIN metaPeers = {})

\* Every input of Metadata keeps the missing pieces asked for.
LEMMA MessageStep ==
  ASSUME FetchInv, NEW a, NEW m \in PeerMessages, OnMessage(a, m)
  PROVE  FetchInv'
<1>1. CASE IgnoreMessage(a, m)
  BY <1>1 DEF IgnoreMessage, NoRequest, FetchInv, MissingIsAsked, Missing
<1>2. CASE OnExtensionHandshake(a, m)
  <2>1. m.size # NoSize /\ totalSize' # NoSize
    BY <1>2, MetadataAssumption DEF OnExtensionHandshake, TakeSize, NoSize
  <2>2. DOMAIN metaPeers' = DOMAIN metaPeers \cup {a}
    BY <1>2 DEF OnExtensionHandshake, Insert
  <2>3. asked' = asked \cup {<<r.addr, r.piece>> :
                   r \in {q \in RequestMissingFrom({a}, info', metaPeers') : q.piece \in Missing'}}
    BY <1>2 DEF OnExtensionHandshake, Ask, Missing
  <2>4. ASSUME NEW p \in Missing' PROVE <<a, p>> \in asked'
    <3>1. RequestFor(metaPeers', a, p) \in RequestMissingFrom({a}, info', metaPeers')
      BY DEF RequestMissingFrom, Missing
    <3>2. RequestFor(metaPeers', a, p).addr = a /\ RequestFor(metaPeers', a, p).piece = p
      BY DEF RequestFor
    <3> QED
      BY <2>3, <3>1, <3>2
  <2>5. ASSUME NEW b \in DOMAIN metaPeers, NEW p \in Missing' PROVE <<b, p>> \in asked'
    <3>1. totalSize # NoSize
      BY DEF FetchInv
    <3>2. info' = info
      BY <1>2, <3>1 DEF OnExtensionHandshake, TakeSize
    <3> QED
      BY <2>3, <3>2 DEF FetchInv, MissingIsAsked, Missing
  <2> QED
    BY <2>1, <2>2, <2>4, <2>5 DEF FetchInv, MissingIsAsked
<1>3. CASE OnData(a, m)
  <2>1. UNCHANGED <<totalSize, metaPeers>> /\ m.data # "missing"
    BY <1>3, MetadataAssumption DEF OnData
  <2>2. CASE OnPiece(m)
    <3>1. Missing' = Missing \ {m.piece}
      BY <2>1, <2>2 DEF OnPiece, Missing, MissingOf, Store
    <3>2. asked' = {x \in asked : x[2] # m.piece}
      BY <2>2 DEF OnPiece
    <3>3. ASSUME NEW b \in DOMAIN metaPeers, NEW p \in Missing' PROVE <<b, p>> \in asked'
      BY <3>1, <3>2 DEF FetchInv, MissingIsAsked
    <3> QED
      BY <2>1, <3>3 DEF FetchInv, MissingIsAsked
  <2>3. CASE OnFinalPiece(a, m) /\ HashMatches(Store(m))
    <3>1. Missing' = {}
      BY <2>3 DEF OnFinalPiece, HashMatches, Missing, MissingOf
    <3> QED
      BY <2>1, <3>1 DEF FetchInv, MissingIsAsked
  <2>4. CASE OnFinalPiece(a, m) /\ ~HashMatches(Store(m))
    <3>1. /\ requests' = RequestMissingFrom(DOMAIN metaPeers, info', metaPeers)
          /\ asked' = {<<r.addr, r.piece>> : r \in requests'}
      BY <2>4 DEF OnFinalPiece
    <3>2. ASSUME NEW b \in DOMAIN metaPeers, NEW p \in Missing' PROVE <<b, p>> \in asked'
      <4>1. RequestFor(metaPeers, b, p) \in requests'
        BY <3>1 DEF RequestMissingFrom, Missing
      <4>2. RequestFor(metaPeers, b, p).addr = b /\ RequestFor(metaPeers, b, p).piece = p
        BY DEF RequestFor
      <4> QED
        BY <3>1, <4>1, <4>2
    <3> QED
      BY <2>1, <3>2 DEF FetchInv, MissingIsAsked
  <2> QED
    BY <1>3, <2>2, <2>3, <2>4 DEF OnData
<1>4. CASE OnReject(a, m)
  <2>1. UNCHANGED <<totalSize, info, metaPeers>> /\ asked \subseteq asked'
    BY <1>4 DEF OnReject, NoRequest, Ask
  <2> QED
    BY <2>1 DEF FetchInv, MissingIsAsked, Missing
<1> QED
  BY <1>1, <1>2, <1>3, <1>4 DEF OnMessage

\* A peer that is lost takes its own requests with it, and no others.
LEMMA LoseStep ==
  ASSUME FetchInv, NEW a, LosePeer(a)
  PROVE  FetchInv'
<1>1. DOMAIN metaPeers' = DOMAIN metaPeers \ {a} /\ UNCHANGED <<totalSize, info>>
  BY DEF LosePeer, Remove
<1>2. asked' = {x \in asked : x[1] # a}
  BY DEF LosePeer
<1>3. ASSUME NEW b \in DOMAIN metaPeers', NEW p \in Missing' PROVE <<b, p>> \in asked'
  BY <1>1, <1>2 DEF FetchInv, MissingIsAsked, Missing
<1> QED
  BY <1>1, <1>3 DEF FetchInv, MissingIsAsked

-----------------------------------------------------------------------------
\* The tasks

\* The addresses that are ever dialled.
Dialled == MagnetPeers \cup UNION Discoveries

\* What SessionProofs shows of tasks, for these; and a peer the fetcher knows has
\* a task, or its end is on its way.
PeersAttended == running => \A a \in DOMAIN metaPeers : Attended(a)
FetchTaskInv ==
  /\ dials \subseteq Dialled
  /\ TaskInv(Dialled, Remotes, PeerMessages)
  /\ PeersAttended

\* What FetchInv depends on.
fetchInvVars == <<totalSize, info, metaPeers, asked>>

\* FetchInv speaks of the state of the fetcher only.
LEMMA FetchInvUnchanged ==
  ASSUME FetchInv, UNCHANGED fetchInvVars
  PROVE  FetchInv'
BY DEF FetchInv, MissingIsAsked, Missing, fetchInvVars

\* The tasks and the remote peers add events, and nothing else that matters.
LEMMA TaskStep ==
  ASSUME FetchInv, FetchTaskInv, NEW s \in DOMAIN sessions, Task(s)
  PROVE  FetchInv' /\ FetchTaskInv'
<1>1. UNCHANGED fetchInvVars /\ UNCHANGED dials
  BY DEF Task, Receive, Lose, Leave, Other, metadataVars, loopVars, fetchInvVars
<1>2. SessionStep(s, Remotes, PeerMessages)
  BY DEF Task, Receive, Lose, Leave, Other, SessionStep
<1>3. TasksOK(Dialled, Remotes, PeerMessages)
  BY DEF FetchTaskInv, TaskInv
<1>4. TaskInv(Dialled, Remotes, PeerMessages)'
  BY <1>2, TaskInvStep DEF FetchTaskInv
<1>5. running' = running
  BY <1>2, <1>3, TaskFootprint
<1>6. PeersAttended'
  BY <1>1, <1>2, <1>3, <1>5, AttendedStep DEF PeersAttended, FetchTaskInv, fetchInvVars
<1> QED
  BY <1>1, <1>4, <1>6, FetchInvUnchanged DEF FetchTaskInv, Dialled

\* A known peer is one that sent a message, or was known before.
LEMMA KnownSpoke ==
  ASSUME NEW a, NEW m, OnMessage(a, m)
  PROVE  DOMAIN metaPeers' \subseteq DOMAIN metaPeers \cup {a}
BY DEF OnMessage, IgnoreMessage, OnExtensionHandshake, OnData, OnReject, Insert

\* An event of a task, handled by the fetcher, keeps both invariants.
LEMMA TakeEventStep ==
  ASSUME FetchInv, FetchTaskInv, TakeEvent
  PROVE  FetchInv' /\ FetchTaskInv'
<1> DEFINE e == events[1]
<1>1. /\ running /\ running' = running /\ UNCHANGED <<dials, sessions, nextSession>>
      /\ events # <<>> /\ events' = Tail(events)
  BY DEF TakeEvent, Waiting, loopVars, Forget, taskVars
<1>2. events \in Seq(Event(Dialled, Remotes, PeerMessages))
  BY DEF FetchTaskInv, TaskInv, TasksOK
<1>3. e \in Event(Dialled, Remotes, PeerMessages) /\ Head(events) = e
  BY <1>1, <1>2, TakeFirst
<1>4. \/ e.kind = "Connected" /\ UNCHANGED <<metadataVars, taskVars>>
      \/ e.kind = "Disconnected" /\ Forget(e.addr) /\ LosePeer(e.addr)
      \/ e.kind = "Message" /\ OnMessage(e.addr, e.message) /\ UNCHANGED taskVars
  BY <1>3 DEF TakeEvent
<1>5. e.kind = "Message" => e.message \in PeerMessages
  BY <1>3 DEF Event
<1>6. TaskInv(Dialled, Remotes, PeerMessages)'
  <2>1. IF e.kind = "Disconnected" THEN Forget(e.addr) ELSE UNCHANGED peerCmds
    BY <1>4 DEF taskVars
  <2> QED
    BY <1>1, <2>1, TakeStep DEF FetchTaskInv
<1>7. ASSUME NEW a, Attended(a), e.kind = "Disconnected" => e.addr # a
      PROVE  Attended(a)'
  BY <1>1, <1>2, <1>7, EndStaysReported DEF Attended, HasTask
<1>8. CASE e.kind = "Connected" /\ UNCHANGED <<metadataVars, taskVars>>
  <2>1. FetchInv'
    BY <1>8, FetchInvUnchanged DEF metadataVars, fetchInvVars
  <2>2. PeersAttended'
    BY <1>1, <1>7, <1>8 DEF metadataVars, PeersAttended, FetchTaskInv
  <2> QED
    BY <1>1, <1>6, <2>1, <2>2 DEF FetchTaskInv, Dialled
<1>9. CASE e.kind = "Disconnected" /\ LosePeer(e.addr)
  <2>1. FetchInv'
    BY <1>9, LoseStep
  <2>2. DOMAIN metaPeers' = DOMAIN metaPeers \ {e.addr}
    BY <1>9 DEF LosePeer, Remove
  <2>3. PeersAttended'
    BY <1>1, <1>7, <2>2 DEF PeersAttended, FetchTaskInv
  <2> QED
    BY <1>1, <1>6, <2>1, <2>3 DEF FetchTaskInv, Dialled
<1>10. CASE e.kind = "Message" /\ OnMessage(e.addr, e.message)
  <2>1. FetchInv'
    BY <1>5, <1>10, MessageStep
  <2>2. DOMAIN metaPeers' \subseteq DOMAIN metaPeers \cup {e.addr}
    BY <1>10, KnownSpoke
  <2>3. ASSUME NEW a, a = e.addr PROVE Attended(a)'
    BY <1>1, <1>10, <2>3, TakenIsAttended DEF FetchTaskInv
  <2>4. PeersAttended'
    BY <1>1, <1>7, <1>10, <2>2, <2>3 DEF PeersAttended, FetchTaskInv
  <2> QED
    BY <1>1, <1>6, <2>1, <2>4 DEF FetchTaskInv, Dialled
<1> QED
  BY <1>4, <1>8, <1>9, <1>10

\* So does every other turn of the loop of the fetch.
LEMMA LoopStep ==
  ASSUME FetchInv, FetchTaskInv, Loop
  PROVE  FetchInv' /\ FetchTaskInv'
<1>1. CASE TakeAddresses \/ Perform
  <2>1. UNCHANGED <<fetchInvVars, sessionVars>> /\ dials' \subseteq Dialled
    BY <1>1 DEF TakeAddresses, Perform, metadataVars, fetchInvVars, FetchTaskInv, Dialled
  <2>2. TaskInv(Dialled, Remotes, PeerMessages)'
    BY <2>1, TaskInvUnchanged DEF FetchTaskInv, sessionVars, taskVars
  <2>3. PeersAttended'
    BY <2>1 DEF FetchTaskInv, PeersAttended, Attended, HasTask, EndReported,
                sessionVars, taskVars, fetchInvVars
  <2> QED
    BY <2>1, <2>2, <2>3, FetchInvUnchanged DEF FetchTaskInv, Dialled
<1>2. CASE TakeEvent
  BY <1>2, TakeEventStep
<1>3. ASSUME NEW a \in dials, Dial(a)
      PROVE  FetchInv' /\ FetchTaskInv'
  <2>1. UNCHANGED <<fetchInvVars, events, running>> /\ running /\ dials' \subseteq dials /\ a \in Dialled
    BY <1>3 DEF Dial, metadataVars, fetchInvVars, FetchTaskInv
  <2>2. \/ UNCHANGED taskVars
        \/ Launch(a, Outbound(a))
    BY <1>3 DEF Dial
  <2>3. CASE UNCHANGED taskVars
    <3>1. TaskInv(Dialled, Remotes, PeerMessages)'
      BY <2>1, <2>3, TaskInvUnchanged DEF FetchTaskInv, taskVars
    <3>2. PeersAttended'
      BY <2>1, <2>3 DEF FetchTaskInv, PeersAttended, Attended, HasTask, EndReported, taskVars, fetchInvVars
    <3> QED
      BY <2>1, <3>1, <3>2, FetchInvUnchanged DEF FetchTaskInv, Dialled
  <2>4. CASE Launch(a, Outbound(a))
    <3>1. /\ Outbound(a) \in PeerTask(Dialled, Remotes)
          /\ Outbound(a).addr = a /\ LinkFits(Outbound(a))
      BY <2>1 DEF Outbound, PeerTask, LinkFits
    <3>2. TaskInv(Dialled, Remotes, PeerMessages)'
      BY <2>1, <2>4, <3>1, LaunchStep DEF FetchTaskInv
    <3>3. \A s \in DOMAIN sessions : s \in DOMAIN sessions' /\ sessions'[s] = sessions[s]
      BY <2>4 DEF Launch, Insert, FetchTaskInv, TaskInv, TasksOK
    <3>4. PeersAttended'
      BY <2>1, <3>3 DEF FetchTaskInv, PeersAttended, Attended, HasTask, EndReported, fetchInvVars
    <3> QED
      BY <2>1, <3>2, <3>4, FetchInvUnchanged DEF FetchTaskInv, Dialled
  <2> QED
    BY <2>2, <2>3, <2>4
<1>4. CASE Return
  <2>1. UNCHANGED <<fetchInvVars, dials>> /\ ~running'
    BY <1>4 DEF Return, metadataVars, loopVars, fetchInvVars
  <2>2. TaskInv(Dialled, Remotes, PeerMessages)'
    BY <1>4, ReturnStep DEF Return, FetchTaskInv
  <2> QED
    BY <2>1, <2>2, FetchInvUnchanged DEF FetchTaskInv, PeersAttended, Dialled
<1> QED
  BY <1>1, <1>2, <1>3, <1>4 DEF Loop

\* The state of the fetcher, without the requests of its last step.
fetcherState == <<totalSize, info, metaPeers, fetched, asked>>

\* An event is one input of the fetcher, or none of its business.
LEMMA TakenIsInput ==
  ASSUME FetchTaskInv, TakeEvent
  PROVE  ~fetched /\ (MetadataNext \/ UNCHANGED metadataVars)
<1> DEFINE e == events[1]
<1>1. events # <<>> /\ ~fetched
  BY DEF TakeEvent, Waiting
<1>2. events \in Seq(Event(Dialled, Remotes, PeerMessages))
  BY DEF FetchTaskInv, TaskInv, TasksOK
<1>3. e \in Event(Dialled, Remotes, PeerMessages) /\ Head(events) = e
  BY <1>1, <1>2, TakeFirst
<1>4. e.addr \in Addr /\ (e.kind = "Message" => e.message \in PeerMessages)
  BY <1>3, FetchAssumption DEF Event, Dialled
<1>5. \/ UNCHANGED metadataVars
      \/ LosePeer(e.addr)
      \/ e.kind = "Message" /\ OnMessage(e.addr, e.message)
  BY <1>3 DEF TakeEvent
<1> QED
  BY <1>1, <1>4, <1>5 DEF MetadataNext

\* Both invariants are kept by every step.
LEMMA FetchInvariant == FetchSpec => [](FetchInv /\ FetchTaskInv)
<1>1. FetchInit => FetchInv /\ FetchTaskInv
  <2> SUFFICES ASSUME FetchInit PROVE FetchInv /\ FetchTaskInv
    OBVIOUS
  <2>1. DOMAIN metaPeers = {}
    BY DEF FetchInit, MetadataInit, EmptyMap
  <2>2. TaskInv(Dialled, Remotes, PeerMessages)
    BY TaskInvInit DEF FetchInit
  <2> QED
    BY <2>1, <2>2 DEF FetchInit, FetchInv, MissingIsAsked, FetchTaskInv, PeersAttended, Dialled
<1>2. FetchInv /\ FetchTaskInv /\ [FetchNext]_fetchVars => FetchInv' /\ FetchTaskInv'
  <2> SUFFICES ASSUME FetchInv, FetchTaskInv, [FetchNext]_fetchVars PROVE FetchInv' /\ FetchTaskInv'
    OBVIOUS
  <2>1. CASE UNCHANGED fetchVars \/ Over
    <3>1. UNCHANGED <<fetchInvVars, sessionVars, dials>>
      BY <2>1 DEF Over, fetchVars, metadataVars, loopVars, fetchInvVars
    <3>2. TaskInv(Dialled, Remotes, PeerMessages)'
      BY <3>1, TaskInvUnchanged DEF FetchTaskInv, sessionVars, taskVars
    <3>3. PeersAttended'
      BY <3>1 DEF FetchTaskInv, PeersAttended, Attended, HasTask, EndReported,
                  sessionVars, taskVars, fetchInvVars
    <3> QED
      BY <3>1, <3>2, <3>3, FetchInvUnchanged DEF FetchTaskInv, Dialled
  <2> QED
    BY <2>1, LoopStep, TaskStep DEF FetchNext
<1> QED
  BY <1>1, <1>2, PTL DEF FetchSpec

\* However many peers and tasks there are, whatever the peers send, and in
\* whatever order events arrive, the fetcher (domain/metadata.rs) has asked each
\* peer it knows for each piece it still waits for.
THEOREM FetcherAsks == FetchSpec => []MissingIsAsked
<1>1. FetchInv => MissingIsAsked
  BY DEF FetchInv
<1> QED
  BY <1>1, FetchInvariant, PTL

\* Whenever the loop of MetadataIO waits and no event is left, each peer the
\* fetcher counts on has a task, and each channel leads to a task: also after an
\* address was dialled again while its first task was on its way out.
THEOREM FetcherAgrees == FetchSpec => []FetcherAndTasksAgree
<1>1. FetchTaskInv => FetcherAndTasksAgree
  <2> SUFFICES ASSUME FetchTaskInv, Settled
               PROVE  /\ DOMAIN metaPeers \subseteq DOMAIN peerCmds
                      /\ \A a \in DOMAIN peerCmds : peerCmds[a] \in DOMAIN sessions
    BY DEF FetcherAndTasksAgree
  <2>1. running /\ events = <<>> /\ \A s \in DOMAIN sessions : HasCommands(s)
    BY DEF Settled, Waiting
  <2>2. \A a : ~EndReported(a)
    BY <2>1 DEF EndReported
  <2>3. \A a \in DOMAIN metaPeers : a \in DOMAIN peerCmds
    BY <2>1, <2>2 DEF FetchTaskInv, PeersAttended, Attended, HasTask, HasCommands
  <2>4. \A a \in DOMAIN peerCmds : peerCmds[a] \in DOMAIN sessions
    BY <2>2 DEF FetchTaskInv, TaskInv, ChannelsLead
  <2> QED
    BY <2>3, <2>4
<1> QED
  BY <1>1, FetchInvariant, PTL

\* The fetcher does in the loop what it does alone: but for the requests, which the
\* loop takes from it, each step of MetadataIO::run is one input of Metadata that
\* is not done, or leaves it as it is (adapters/metadata_io.rs).
THEOREM FetcherInside == FetchSpec => MetadataInit /\ [][~fetched /\ MetadataNext]_fetcherState
<1>1. FetchInit => MetadataInit
  BY DEF FetchInit
<1>2. FetchTaskInv /\ [FetchNext]_fetchVars => [~fetched /\ MetadataNext]_fetcherState
  <2> SUFFICES ASSUME FetchTaskInv, [FetchNext]_fetchVars PROVE [~fetched /\ MetadataNext]_fetcherState
    OBVIOUS
  <2>1. CASE TakeEvent
    BY <2>1, TakenIsInput DEF fetcherState, metadataVars
  <2>2. CASE Loop /\ ~TakeEvent
    BY <2>2 DEF Loop, TakeAddresses, Dial, Perform, Return, fetcherState, metadataVars
  <2>3. ASSUME NEW s \in DOMAIN sessions, Task(s) PROVE UNCHANGED fetcherState
    BY <2>3 DEF Task, Receive, Lose, Leave, Other, fetcherState, metadataVars
  <2>4. CASE UNCHANGED fetchVars \/ Over
    BY <2>4 DEF Over, fetchVars, fetcherState, metadataVars
  <2> QED
    BY <2>1, <2>2, <2>3, <2>4 DEF FetchNext
<1> QED
  BY <1>1, <1>2, FetchInvariant, PTL DEF FetchSpec

-----------------------------------------------------------------------------
\* The tracker task

TrackerInv == backoff \in Nat /\ interval \in Nat /\ WaitsBounded

\* At the start no wait has grown.
LEMMA TrackerInitInv ==
  ASSUME TrackerInit
  PROVE  TrackerInv
BY TrackerAssumption
   DEF TrackerInit, TrackerInv, WaitsBounded

\* A failure keeps the waits in their bounds.
LEMMA FailWaits ==
  ASSUME TrackerInv, Fail
  PROVE  TrackerInv'
<1>1. /\ interval' = backoff /\ backoff \in InitialBackoff .. MaxBackoff
      /\ backoff' = Lower(2 * backoff, MaxBackoff)
      /\ UNCHANGED accepted
  BY DEF Fail, TrackerInv, WaitsBounded
<1>2. backoff' \in InitialBackoff .. MaxBackoff /\ backoff' \in Nat
  BY <1>1, TrackerAssumption DEF Lower
<1>3. interval' \in Lower(InitialBackoff, MinInterval) .. Higher(MaxBackoff, MaxInterval)
  BY <1>1, TrackerAssumption DEF Lower, Higher
<1>4. interval' \in Nat /\ interval' # 0
  BY <1>1, TrackerAssumption
<1> QED
  BY <1>1, <1>2, <1>3, <1>4 DEF TrackerInv, WaitsBounded

\* So does an answer, whatever interval in the range of u32 it asks for.
LEMMA SucceedWaits ==
  ASSUME TrackerInv, NEW wanted \in 0 .. MaxInterval, NEW addrs, Succeed(wanted, addrs)
  PROVE  TrackerInv'
<1>1. /\ interval' = Higher(wanted, MinInterval) /\ backoff' = InitialBackoff
  BY DEF Succeed
<1>2. backoff' \in InitialBackoff .. MaxBackoff /\ backoff' \in Nat
  BY <1>1, TrackerAssumption
<1>3. interval' \in Lower(InitialBackoff, MinInterval) .. Higher(MaxBackoff, MaxInterval)
  BY <1>1, TrackerAssumption DEF Lower, Higher
<1>4. interval' \in Nat /\ interval' # 0
  BY <1>1, TrackerAssumption DEF Higher
<1> QED
  BY <1>1, <1>2, <1>3, <1>4 DEF TrackerInv, WaitsBounded

\* A step changes the waits or leaves them alone.
LEMMA TrackerStep ==
  ASSUME TrackerInv, [TrackerNext]_trackerVars
  PROVE  TrackerInv'
<1> DEFINE Same == UNCHANGED <<backoff, interval, accepted>>
<1>1. CASE Fail
  BY <1>1, FailWaits
<1>2. ASSUME NEW r \in Replies, HttpAnswer(r) PROVE TrackerInv'
  <2>1. CASE HttpParses(r) /\ Succeed(r.interval, Addresses(r))
    <3>1. r.interval \in 0 .. MaxInterval
      BY <2>1 DEF HttpParses
    <3> QED
      BY <2>1, <3>1, SucceedWaits
  <2> QED
    BY <1>2, <2>1, FailWaits DEF HttpAnswer
<1>3. ASSUME NEW d \in Datagrams, UdpAnswer(d) PROVE TrackerInv'
  <2>1. CASE Succeed(d.interval, Addresses(d))
    <3>1. d.interval \in 0 .. MaxInterval
      BY TrackerAssumption
    <3> QED
      BY <2>1, <3>1, SucceedWaits
  <2> QED
    BY <1>3, <2>1, FailWaits DEF UdpAnswer
<1>4. CASE Same
  BY <1>4 DEF TrackerInv, WaitsBounded
<1>5. \/ Fail \/ Same
      \/ \E r \in Replies : HttpAnswer(r)
      \/ \E d \in Datagrams : UdpAnswer(d)
  BY DEF TrackerNext, Announce, HttpTimeout, UdpError, UdpConnected, PassOn, Take, Publish,
         Hangup, TrackerOver, trackerVars
<1> QED
  BY <1>1, <1>2, <1>3, <1>4, <1>5

\* TrackerIO (adapters/tracker_io.rs) never asks a tracker again too soon, nor
\* lets it wait for longer than it may, whatever answers and failures come.
THEOREM TrackerWaits == TrackerSpec => []WaitsBounded
<1>1. TrackerInit => TrackerInv
  BY TrackerInitInv
<1>2. TrackerInv /\ [TrackerNext]_trackerVars => TrackerInv'
  BY TrackerStep
<1>3. TrackerInv => WaitsBounded
  BY DEF TrackerInv
<1> QED
  BY <1>1, <1>2, <1>3, PTL DEF TrackerSpec

=============================================================================
