------------------------------- MODULE TrackerIO -------------------------------
(***************************************************************************)
(* The task that announces to one tracker and passes on the peers it names *)
(* (adapters/tracker_io.rs), beside the session statistics it reads and    *)
(* the channel of addresses it fills.  Waiting times are seconds; that     *)
(* time passes is not modelled, only which wait was chosen.                *)
(***************************************************************************)
EXTENDS Integers, Sequences

CONSTANTS
  InitialBackoff,  \* TrackerIO::INITIAL_BACKOFF, 15 s
  MaxBackoff,      \* TrackerIO::MAX_BACKOFF, 3600 s
  MinInterval,     \* the shortest interval a tracker may ask for, 60 s
  MaxInterval,     \* largest interval a response can hold, u32::MAX
  Replies,         \* answers of HTTP trackers, see HttpParses
  Datagrams,       \* answers of UDP trackers, see UdpParses
  MaxFound         \* capacity of the channel of addresses, 128

ASSUME TrackerAssumption ==
  /\ InitialBackoff \in Nat \ {0}
  /\ MaxBackoff \in Nat /\ MaxBackoff >= InitialBackoff
  /\ MinInterval \in Nat \ {0}
  /\ MaxInterval \in Nat /\ MaxInterval >= MinInterval
  /\ MaxFound \in Nat \ {0}
  /\ \A r \in Replies : r.interval \in Int
  /\ \A d \in Datagrams : d.interval \in 0 .. MaxInterval

VARIABLES
  transport,  \* of the tracker's URL: "http" or "udp"
  phase,      \* where the task is in its loop
  event,      \* the event of the next announce
  backoff,    \* the wait after the next failure
  interval,   \* the wait before the next announce
  response,   \* the addresses of the response that is being passed on
  accepted,   \* history: events the tracker has accepted
  stats,      \* the shared SessionStats: may we upload, and is anything left
  found,      \* the channel of addresses
  listening   \* its receiver exists

trackerVars == <<transport, phase, event, backoff, interval, response, accepted, stats, found, listening>>

AnnounceEvent == {"Started", "Completed", "Stopped"}
Stats == [upload : BOOLEAN, left : {0, 1}]

TrackerPhase ==
  {"Sleeping",    \* tokio::time::sleep(interval)
   "Asking",      \* HTTP: the request is sent; UDP: the connect request is
   "Announcing",  \* UDP: the announce request is sent
   "Sending",     \* tx.send of the addresses
   "Over"}

Lower(a, b)  == IF a < b THEN a ELSE b
Higher(a, b) == IF a > b THEN a ELSE b

TrackerInit ==
  /\ transport \in {"http", "udp"}
  /\ phase = "Sleeping"
  /\ event = "Started"
  /\ backoff = InitialBackoff
  /\ interval = 0
  /\ response = {}
  /\ accepted = {}
  /\ stats \in Stats
  /\ found = <<>>
  /\ listening = TRUE

-----------------------------------------------------------------------------
\* What each answer is taken for

\* HttpTransport::parse_response: not a bencoded dictionary, a failure reason,
\* no interval or one beyond u32, or peers that are neither a list of addresses
\* nor a string of them are errors.
HttpParses(r) ==
  /\ r.bencoded /\ ~r.failure
  /\ r.interval \in 0 .. MaxInterval
  /\ r.peers # "malformed"

\* The addresses of a response that parses.
Addresses(r) == r.addrs

\* parse_connect_response and parse_announce_response: a datagram that is long
\* enough, of the right action and of this transaction.
UdpParses(d, action, length) == d.length >= length /\ d.action = action /\ d.sameTransaction

-----------------------------------------------------------------------------
\* The loop

\* Mutant of NextEvent: the two conditions in the other order.
NextEventSwapped ==
  CASE ~stats.upload                  -> "Stopped"
    [] stats.upload /\ stats.left = 0 -> "Completed"
    [] OTHER                          -> event

\* What the event of an announce is: Stopped while uploading is off, Completed
\* once nothing is left.  Nothing ever takes it back.
NextEvent ==
  CASE stats.left = 0                    -> "Completed"
    [] stats.left # 0 /\ ~stats.upload   -> "Stopped"
    [] OTHER                             -> event

\* The wait is over: the statistics are read and the request is sent.
Announce ==
  /\ phase = "Sleeping"
  /\ event' = NextEvent
  /\ phase' = "Asking"
  /\ UNCHANGED <<transport, backoff, interval, response, accepted, stats, found, listening>>

\* Mutant of Succeed: the interval of the tracker is taken as it is.
SucceedAtOnce(wanted, addrs) ==
  /\ accepted' = accepted \cup {event}
  /\ backoff' = InitialBackoff
  /\ interval' = wanted
  /\ response' = addrs
  /\ phase' = "Sending"
  /\ UNCHANGED <<transport, event, stats, found, listening>>

\* The tracker answered with addresses, to be passed on.
Succeed(wanted, addrs) ==
  /\ accepted' = accepted \cup {event}
  /\ backoff' = InitialBackoff
  /\ interval' = Higher(wanted, MinInterval)
  /\ response' = addrs
  /\ phase' = "Sending"
  /\ UNCHANGED <<transport, event, stats, found, listening>>

\* Any error: the next announce waits for backoff, and the one after twice as
\* long.
Fail ==
  /\ interval' = backoff
  /\ backoff' = Lower(2 * backoff, MaxBackoff)
  /\ phase' = "Sleeping"
  /\ UNCHANGED <<transport, event, response, accepted, stats, found, listening>>

HttpAnswer(r) ==
  /\ transport = "http" /\ phase = "Asking"
  /\ IF HttpParses(r) THEN Succeed(r.interval, Addresses(r)) ELSE Fail

\* No answer within the client's timeout of 10 s, or no connection.
HttpTimeout == transport = "http" /\ phase = "Asking" /\ Fail

\* The tracker's name does not resolve, or the socket fails.
UdpError == transport = "udp" /\ phase \in {"Asking", "Announcing"} /\ Fail

\* The datagrams of both exchanges.  There is no timeout: one that is lost is
\* waited for for ever, so no fairness is assumed of these two.
UdpConnected(d) ==
  /\ transport = "udp" /\ phase = "Asking"
  /\ IF UdpParses(d, "connect", 16)
     THEN /\ phase' = "Announcing"
          /\ UNCHANGED <<transport, event, backoff, interval, response, accepted, stats, found, listening>>
     ELSE Fail

UdpAnswer(d) ==
  /\ transport = "udp" /\ phase = "Announcing"
  /\ IF UdpParses(d, "announce", 20) /\ d.peers # "malformed"
     THEN Succeed(d.interval, Addresses(d))
     ELSE Fail

\* tx.send, which waits while the channel is full; the task ends when nobody
\* listens any more.
PassOn ==
  /\ phase = "Sending"
  /\ IF listening
     THEN /\ Len(found) < MaxFound
          /\ found' = Append(found, response)
          /\ phase' = "Sleeping"
     ELSE phase' = "Over" /\ UNCHANGED found
  /\ response' = {}
  /\ UNCHANGED <<transport, event, backoff, interval, accepted, stats, listening>>

-----------------------------------------------------------------------------
\* The owner of the other end, SwarmIO or MetadataIO

Take ==
  /\ found # <<>>
  /\ found' = Tail(found)
  /\ UNCHANGED <<transport, phase, event, backoff, interval, response, accepted, stats, listening>>

\* SwarmIO publishes the statistics of the swarm: the user may stop and resume
\* uploads, and what is left never grows.
Publish ==
  /\ listening
  /\ \E now \in Stats : now.left <= stats.left /\ now # stats /\ stats' = now
  /\ UNCHANGED <<transport, phase, event, backoff, interval, response, accepted, found, listening>>

\* Its run() returns.
Hangup ==
  /\ listening
  /\ listening' = FALSE
  /\ found' = <<>>
  /\ UNCHANGED <<transport, phase, event, backoff, interval, response, accepted, stats>>

TrackerOver == phase = "Over" /\ UNCHANGED trackerVars

TrackerNext ==
  \/ Announce
  \/ \E r \in Replies : HttpAnswer(r)
  \/ HttpTimeout
  \/ UdpError
  \/ \E d \in Datagrams : UdpConnected(d) \/ UdpAnswer(d)
  \/ PassOn
  \/ Take
  \/ Publish
  \/ Hangup
  \/ TrackerOver

TrackerSpec == TrackerInit /\ [][TrackerNext]_trackerVars

=============================================================================
