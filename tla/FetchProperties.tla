---------------------------- MODULE FetchProperties ----------------------------
(***************************************************************************)
(* What the fetching of metadata has to guarantee.                        *)
(***************************************************************************)
EXTENDS MetadataIO, FiniteSets

\* Whatever peers come, go, send wrong pieces or refuse, the fetcher never waits
\* for a piece that it has not asked of each peer it knows, after the pieces
\* were last thrown away.
MissingIsAsked == \A a \in DOMAIN metaPeers, p \in Missing : <<a, p>> \in asked

\* The loop waits, no event is on its way, and no task is about to end.
Settled == Waiting /\ events = <<>> /\ \A s \in DOMAIN sessions : HasCommands(s)

\* Once the dust has settled, also when an address with a task was dialled once
\* more: a peer the fetcher counts on has a task it can be asked through, and
\* no channel leads to a task that is gone.
FetcherAndTasksAgree ==
  Settled =>
    /\ DOMAIN metaPeers \subseteq DOMAIN peerCmds
    /\ \A a \in DOMAIN peerCmds : peerCmds[a] \in DOMAIN sessions

-----------------------------------------------------------------------------
\* Fairness

\* The loop is polled when an input is ready again and again, and performs its
\* outputs.  An honest peer greets, and answers for every piece it is asked for.
Answers(s, type, p) ==
  /\ sessions[s].addr \in Honest
  /\ \E m \in PeerMessages : m.type = type /\ (type = "Data" => m.piece = p) /\ Receive(s, m)

FetchFairSpec ==
  /\ FetchSpec
  /\ WF_fetchVars((\E a \in dials : Dial(a)) \/ Perform \/ Return)
  /\ SF_fetchVars(TakeEvent)
  /\ \A s \in 0 .. MaxSessions - 1 :
       /\ SF_fetchVars(s \in DOMAIN sessions /\ Answers(s, "Handshake", 0))
       /\ \A p \in 0 .. PieceCount(InfoSize) - 1 :
            SF_fetchVars(s \in DOMAIN sessions /\ Answers(s, "Data", p))

\* One peer that has the dictionary and stays connected is enough, however often
\* others refuse, repeat themselves, stay silent or leave, and also when the same
\* address is dialled again: unless a wrong size or piece was sent, or a request
\* was lost, the fetch ends.  The peer must give ut_metadata the id we give it:
\* what comes is looked at only under the peer's own id (metadata.rs line 72),
\* but is sent under ours.
Connected(s) ==
  sessions[s].phase = "Live" /\ sessions[s].addr \in Honest /\ HasCommands(s)
Serves == \E s \in DOMAIN sessions :
            Connected(s) /\ UtMetadata[sessions[s].addr] = UtMetadataExtId
FetchCompletes == <>[]Serves => <>(fetched \/ spoilt)

=============================================================================
