-------------------------------- MODULE MCFetch --------------------------------
(***************************************************************************)
(* An instance of MetadataIO for TLC.                                      *)
(***************************************************************************)
EXTENDS FetchProperties

CONSTANTS a1, a2

\* The dictionary has two pieces.  Peers agree on the size, or state one that
\* makes for no piece; a wrong piece arrives first or last.  a1 gives ut_metadata
\* the id 1, as this program does; a2 states that id or another one.
Handshake(e, n) == [type |-> "Handshake", ext |-> e, size |-> n]
Handshakes == {Handshake(1, 0), Handshake(1, 3), Handshake(3, 3)}
Data(p, d) == [type |-> "Data", ext |-> 1, piece |-> p, data |-> d]
Pieces     == {Data(0, "good"), Data(1, "good"), Data(1, "bad")}
Refusals   == {[type |-> "Reject", ext |-> 1, piece |-> 1]}
Chatter    == Handshakes \cup Pieces \cup Refusals

Link(a, i) == [addr |-> a, id |-> i, direction |-> "Outbound", fast |-> FALSE]
Reachable  == {Link(a1, 1), Link(a2, 2)}

OnePeer == {a1}
Tracked == {{a1, a2}}
Ids     == [a \in Addr |-> IF a = a1 THEN 1 ELSE 3]

=============================================================================
