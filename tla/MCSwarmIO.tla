------------------------------- MODULE MCSwarmIO -------------------------------
(***************************************************************************)
(* Instances of SwarmIO for TLC.                                           *)
(***************************************************************************)
EXTENDS SwarmIOProperties

CONSTANTS a1, a2

Link(a, i, d) == [addr |-> a, id |-> i, direction |-> d, fast |-> FALSE]

NoMessage == {}
NoFile    == {<<>>}
NoStatus  == {}
Seeded    == {<<"good">>}
Pausing   == {"Active", "DownloadOnly"}

-----------------------------------------------------------------------------
\* a1 is dialled, and the remote there may come back with another id; the first
\* of them may also dial in, from a2.  They have the only block of the torrent, or
\* else ask for it, and ask no more, while uploads go off and on.
Crossing == {Link(a1, 1, "Outbound"), Link(a1, 3, "Outbound"), Link(a2, 1, "Inbound")}
Tracker  == {{a1}}
LastBlock == {[type |-> "Unchoke"], [type |-> "Bitfield", pieces |-> {0}]}
               \cup {[type |-> "Piece", range |-> b, data |-> "good"] : b \in AllBlocks}
Requests ==
  {[type |-> t, range |-> [piece |-> 0, offset |-> 0, len |-> 1]] : t \in {"Request", "Cancel"}}
Messaging == LastBlock \cup Requests
MaybeFile == NoFile \cup Seeded

-----------------------------------------------------------------------------
\* a1 is dialled, also while its old task has not ended, and has the only block.
Dialled == {Link(a1, 1, "Outbound")}

=============================================================================
