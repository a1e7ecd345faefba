------------------------------- MODULE MCTracker -------------------------------
(***************************************************************************)
(* An instance of TrackerIO for TLC.                                       *)
(***************************************************************************)
EXTENDS TrackerProperties

CONSTANTS a1, a2

\* A response that parses, asking for no wait at all, and three that do not.
Reply(bencoded, failure, seconds, peers, addrs) ==
  [bencoded |-> bencoded, failure |-> failure, interval |-> seconds, peers |-> peers, addrs |-> addrs]
HttpReplies ==
  {Reply(TRUE, FALSE, 0, "compact", {a1, a2}), Reply(TRUE, FALSE, 90, "list", {}),
   Reply(TRUE, FALSE, -1, "compact", {a1}), Reply(TRUE, TRUE, 90, "compact", {}),
   Reply(FALSE, FALSE, 90, "compact", {})}

\* The two answers, and one that belongs to another request.
Datagram(action, same) ==
  [action |-> action, length |-> 20, sameTransaction |-> same, interval |-> 90,
   peers |-> "compact", addrs |-> {a1}]
UdpReplies == {Datagram("connect", TRUE), Datagram("announce", TRUE), Datagram("announce", FALSE)}

=============================================================================
