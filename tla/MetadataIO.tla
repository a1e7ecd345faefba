------------------------------- MODULE MetadataIO -------------------------------
(***************************************************************************)
(* Fetching the metadata of a magnet link (adapters/metadata_io.rs): the   *)
(* loop dials every address it hears of, asks the peers for the pieces of  *)
(* the info dictionary, and returns with it.  Metadata and Sessions        *)
(* composed; what a step of Metadata asks for is performed output by       *)
(* output, while the tasks go on.                                          *)
(***************************************************************************)
EXTENDS Metadata, Sessions

CONSTANTS
  MagnetPeers,   \* the peer addresses of the magnet link
  Discoveries,   \* sets of addresses that trackers name
  Remotes,       \* remote peers that can be reached: links, see Establish
  Honest,        \* addresses of peers that have the dictionary and answer
  UtMetadata     \* address -> the id its peer gives to ut_metadata

ASSUME FetchAssumption ==
  MagnetPeers \subseteq Addr /\ Discoveries \subseteq SUBSET Addr /\ DOMAIN UtMetadata = Addr

\* UT_METADATA_EXT_ID: the id this program gives to ut_metadata, and states in
\* its extension handshake.
UtMetadataExtId == 1

VARIABLES
  dials,    \* outputs still to be performed: the addresses to connect to
  owed,     \* session -> the pieces its peer was asked for and has not sent
  greeted,  \* sessions whose peer is honest and has greeted
  spoilt    \* history: a peer sent a wrong size or piece, or a request to an
            \* honest peer did not fit in its channel

loopVars == <<dials, owed, greeted, spoilt>>
fetchVars == <<metadataVars, sessionVars, loopVars>>

-----------------------------------------------------------------------------
\* The loop

\* Nothing of the last step is left to do, and run() has not returned.
Waiting == running /\ dials = {} /\ requests = {} /\ ~fetched

\* Input::PeersDiscovered, from the channel of addresses.  It is never closed:
\* fetch_metadata keeps a sender.
TakeAddresses ==
  /\ Waiting
  /\ \E addrs \in Discoveries : dials' = addrs
  /\ UNCHANGED <<metadataVars, sessionVars, owed, greeted, spoilt>>

TakeEvent ==
  /\ Waiting
  /\ events # <<>>
  /\ LET e == Head(events)
     IN  \/ e.kind = "Connected" /\ UNCHANGED <<metadataVars, taskVars>>
         \/ e.kind = "Disconnected" /\ Forget(e.addr) /\ LosePeer(e.addr)
         \/ e.kind = "Message" /\ OnMessage(e.addr, e.message) /\ UNCHANGED taskVars
  /\ events' = Tail(events)
  /\ UNCHANGED <<running, loopVars>>

\* Output::ConnectPeer, spawn_peer.  An address that has a task gets another
\* one.  Bound: MaxSessions tasks, and further addresses are passed over.
Dial(a) ==
  /\ running /\ a \in dials
  /\ dials' = dials \ {a}
  /\ IF nextSession < MaxSessions
     THEN /\ Launch(a, Outbound(a))
          /\ owed' = Insert(owed, nextSession, {})
     ELSE UNCHANGED <<taskVars, owed>>
  /\ UNCHANGED <<metadataVars, events, running, greeted, spoilt>>

\* There is a task to receive what is sent to the address.
Reaches(a) == a \in DOMAIN peerCmds /\ peerCmds[a] \in DOMAIN sessions

\* Output::SendToPeer for each request: try_send, which awaits nothing.  It is
\* lost when there is no task, or its channel has no room; how full the channel
\* is, is not modelled.
Perform ==
  /\ running /\ requests # {}
  /\ requests' = {}
  /\ LET reaching == {r \in requests : Reaches(r.addr)}
     IN  \E full \in SUBSET reaching :
           /\ owed' = [s \in DOMAIN owed |-> owed[s] \cup
                {r.piece : r \in {q \in reaching \ full : peerCmds[q.addr] = s}}]
           /\ spoilt' = (spoilt \/ \E r \in full : r.addr \in Honest)
  /\ UNCHANGED <<totalSize, info, metaPeers, fetched, asked, sessionVars, dials, greeted>>

\* Output::Done: run() returns, MetadataIO is dropped, and with it its ends of
\* all channels.
Return ==
  /\ running /\ fetched
  /\ running' = FALSE
  /\ peerCmds' = EmptyMap
  /\ peerCancels' = EmptyMap
  /\ events' = <<>>
  /\ UNCHANGED <<metadataVars, sessions, nextSession, loopVars>>

Loop ==
  \/ TakeAddresses
  \/ TakeEvent
  \/ \E a \in dials : Dial(a)
  \/ Perform
  \/ Return

-----------------------------------------------------------------------------
\* The peer tasks and the remote peers

\* An honest peer greets once per connection, stating its id for ut_metadata, and
\* answers what it was asked for, under the id that we stated (as this program
\* does itself, swarm.rs lines 557-573).  Any other sends whatever it likes.
MaySend(s, m) ==
  sessions[s].addr \in Honest =>
    CASE m.type = "Handshake" -> /\ m.size = InfoSize /\ m.ext = UtMetadata[sessions[s].addr]
                                 /\ s \notin greeted
      [] m.type = "Data"      -> m.ext = UtMetadataExtId /\ m.piece \in owed[s] /\ m.data = "good"
      [] OTHER                -> FALSE

Receive(s, m) ==
  /\ m \in PeerMessages /\ MaySend(s, m)
  /\ ReceiveMessage(s, m)
  /\ owed' = IF m.type = "Data" THEN [owed EXCEPT ![s] = @ \ {m.piece}] ELSE owed
  /\ greeted' = IF m.type = "Handshake" /\ sessions[s].addr \in Honest THEN greeted \cup {s}
                                                                         ELSE greeted
  /\ spoilt' = \/ spoilt
               \/ m.type = "Handshake" /\ m.size # InfoSize
               \/ m.type = "Data" /\ m.data = "bad"
  /\ UNCHANGED <<metadataVars, dials>>

\* The remote of the next connection knows nothing of this one.
Lose(s) ==
  /\ Break(s)
  /\ owed' = [owed EXCEPT ![s] = {}]
  /\ greeted' = greeted \ {s}
  /\ UNCHANGED <<metadataVars, dials, spoilt>>

\* What was in the channel goes with the task.
Leave(s) ==
  /\ Finish(s)
  /\ owed' = Remove(owed, {s})
  /\ greeted' = greeted \ {s}
  /\ UNCHANGED <<metadataVars, dials, spoilt>>

Other(s) ==
  /\ Start(s) \/ Stop(s) \/ GiveUp(s) \/ \E c \in Remotes : Establish(s, c)
  /\ UNCHANGED <<metadataVars, loopVars>>

Task(s) ==
  \/ \E m \in PeerMessages : Receive(s, m)
  \/ Lose(s)
  \/ Leave(s)
  \/ Other(s)

-----------------------------------------------------------------------------
FetchInit ==
  /\ MetadataInit
  /\ SessionsInit
  /\ dials = MagnetPeers
  /\ owed = EmptyMap
  /\ greeted = {}
  /\ spoilt = FALSE

\* Nothing is left.
Over == ~running /\ sessions = EmptyMap /\ UNCHANGED fetchVars

FetchNext ==
  \/ Loop
  \/ \E s \in DOMAIN sessions : Task(s)
  \/ Over

FetchSpec == FetchInit /\ [][FetchNext]_fetchVars

=============================================================================
