------------------------------- MODULE MCPlanLoop -------------------------------
(***************************************************************************)
(* PlanLoop from every small state: two peers that choke or not, with or   *)
(* without a piece they allow while choking and one they suggest, any      *)
(* availability, any blocks here already and any requests in flight that   *)
(* the swarm could have sent.                                              *)
(***************************************************************************)
EXTENDS PlanLoop

CONSTANTS a1, a2

PeerChoices ==
  [id : {1}, choking : BOOLEAN, fast : {TRUE},
   allowedFast : {{}, {0}}, suggested : {{}, {1}}, extensions : {{}}]

\* A peer that never suggests: one peer's suggestions are enough.
Unsuggesting == {s \in PeerChoices : s.suggested = {}}

PieceStates(p) ==
  {Complete} \cup
  {[state |-> "Partial", blocks |-> bs,
    received |-> Cardinality({i \in BlockIndices(p) : bs[i] # "Missing"})] :
     bs \in {f \in [BlockIndices(p) -> {"Missing", "good"}] : \E i \in BlockIndices(p) : f[i] = "Missing"}}

InitStates ==
  /\ status \in {"Active", "UploadOnly"}
  /\ byId = EmptyMap
  /\ seeders = {} /\ leechers = {}
  /\ \E s1 \in PeerChoices, s2 \in Unsuggesting :
       peers = [a \in Addr |-> IF a = a1 THEN s1 ELSE s2]
  /\ byPiece \in [PieceIndex -> SUBSET Addr]
  /\ \E s0 \in PieceStates(0), s1 \in PieceStates(1) :
       pieces = [p \in Piece |-> IF p = 0 THEN s0 ELSE s1]
  /\ bitfield = {p \in Piece : IsComplete(p)}
  /\ assigned \in SUBSET {x \in [block : AllBlocks, addr : Addr] : CanServe(x.addr, x.block.piece)}
  /\ \A a \in Addr : Cardinality(InFlight(a)) <= MaxInFlightPerPeer
  /\ Call

LoopSpec == InitStates /\ [][LoopNext]_<<swarmVars, loopVars>> /\ WF_<<swarmVars, loopVars>>(LoopNext)

=============================================================================
