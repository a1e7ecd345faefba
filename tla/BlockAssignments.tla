--------------------------- MODULE BlockAssignments ---------------------------
(***************************************************************************)
(* The requests in flight: which block was asked of which peer and has not *)
(* been answered, refused or abandoned (domain/swarm/block_assignment.rs). *)
(* by_peer is kept as the set of its (block, address) pairs; the instants  *)
(* it also stores are never read.                                          *)
(***************************************************************************)
EXTENDS Message, FiniteSets

CONSTANT MaxInFlightPerPeer  \* MAX_IN_FLIGHT_PER_PEER, 32 in the program

ASSUME AssignmentAssumption == MaxInFlightPerPeer \in Nat

VARIABLE assigned

Assignment == [block : BlockRange, addr : Addr]

AssignmentsInit == assigned = {}

AssignmentsOK == assigned \subseteq Assignment

InFlight(a) == {x \in assigned : x.addr = a}

IsHolder(range, a) == [block |-> range, addr |-> a] \in assigned

HolderCount(range) == Cardinality({x \in assigned : x.block = range})

Assign(range, a)   == assigned' = assigned \cup {[block |-> range, addr |-> a]}
Unassign(range, a) == assigned' = assigned \ {[block |-> range, addr |-> a]}

ReleasePeers(addrs) == assigned' = {x \in assigned : x.addr \notin addrs}

\* usize::saturating_sub
FreeSlots(a) ==
  LET busy == Cardinality(InFlight(a))
  IN  IF busy < MaxInFlightPerPeer THEN MaxInFlightPerPeer - busy ELSE 0

=============================================================================
