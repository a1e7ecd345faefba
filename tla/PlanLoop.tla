-------------------------------- MODULE PlanLoop --------------------------------
(***************************************************************************)
(* Swarm::plan as written (domain/swarm.rs lines 604-668): sweeps over the *)
(* replication depths, at each depth one pass over the sorted blocks, with *)
(* a copy of the holder counts kept up to date by hand.  One call, from    *)
(* any state of the swarm that SwarmOK admits.                             *)
(***************************************************************************)
EXTENDS Scheduling

Seqs == INSTANCE SequencesExt

VARIABLES
  holders,      \* the local map of plan(), block -> number of holders
  blocks,       \* the local list of plan()
  left,         \* the local budget of plan()
  replication,  \* depth of the running pass
  at,           \* index in blocks of the next block of the pass
  progressed,   \* whether the running sweep sent a request
  returned      \* plan() has returned

swarmVars == <<pieceVars, registryVars, assigned, status>>
loopVars  == <<holders, blocks, left, replication, at, progressed, returned>>

\* What holds of the swarm whenever it calls plan().
SwarmOK ==
  /\ PiecesOK
  /\ RegistryOK
  /\ assigned \subseteq [block : AllBlocks, addr : Addr]
  /\ IsFiniteSet(assigned)

\* The block list after its sort by the policy.
Sorted(list) ==
  \A i, j \in DOMAIN list : i < j => Less(BlockKey(list[i]), BlockKey(list[j]))

\* Mutant of Call: the blocks are not sorted.
CallUnsorted ==
  /\ holders = [b \in AllBlocks |-> HolderCount(b)]
  /\ blocks \in Seqs!SetToSeqs(WantedBlocks)
  /\ left = Cardinality(OpenSlots)
  /\ replication = 0
  /\ at = 1
  /\ progressed = FALSE
  /\ returned = (~Downloads \/ Cardinality(OpenSlots) = 0)

\* One call of plan() in the swarm state of the current state.
Call ==
  /\ holders = [b \in AllBlocks |-> HolderCount(b)]
  /\ blocks \in Seqs!SetToSeqs(WantedBlocks) /\ Sorted(blocks)
  /\ left = Cardinality(OpenSlots)
  /\ replication = 0
  /\ at = 1
  /\ progressed = FALSE
  /\ returned = (~Downloads \/ Cardinality(OpenSlots) = 0)

InPass == ~returned /\ left > 0 /\ replication <= MaxDepth /\ at <= Len(blocks)

\* Mutant of OneMore: the entry is overwritten, not incremented.
FirstHolder(b) == [holders EXCEPT ![b] = 1]

\* holders.entry(block).or_insert(0) += 1
OneMore(b) == [holders EXCEPT ![b] = @ + 1]

\* The block is at the depth of the pass and somebody can be asked for it.
Ask(a) ==
  /\ InPass
  /\ holders[blocks[at]] = replication
  /\ CanAsk(blocks[at], a)
  /\ Assign(blocks[at], a)
  /\ left' = left - 1
  /\ progressed' = TRUE
  /\ holders' = OneMore(blocks[at])
  /\ at' = at + 1
  /\ UNCHANGED <<pieceVars, registryVars, status, blocks, replication, returned>>

Skip ==
  /\ InPass
  /\ holders[blocks[at]] # replication \/ \A a \in Addr : ~CanAsk(blocks[at], a)
  /\ at' = at + 1
  /\ UNCHANGED <<swarmVars, holders, blocks, left, replication, progressed, returned>>

\* The pass is over, or broken off for want of budget: on to the next depth.
NextDepth ==
  /\ ~returned
  /\ left > 0
  /\ replication <= MaxDepth
  /\ at > Len(blocks)
  /\ replication' = replication + 1
  /\ at' = 1
  /\ UNCHANGED <<swarmVars, holders, blocks, left, progressed, returned>>

\* Mutant of SweepAgain: progress of an earlier sweep counts for ever.
SweepForEver == replication' = 0 /\ at' = 1 /\ UNCHANGED <<progressed, returned>>

SweepAgain == replication' = 0 /\ at' = 1 /\ progressed' = FALSE /\ UNCHANGED returned

\* The depths are swept: again if that made progress, else plan() returns.
EndSweep ==
  /\ ~returned
  /\ left = 0 \/ replication > MaxDepth
  /\ IF left > 0 /\ progressed
     THEN SweepAgain
     ELSE returned' = TRUE /\ UNCHANGED <<replication, at, progressed>>
  /\ UNCHANGED <<swarmVars, holders, blocks, left>>

LoopNext == (\E a \in Addr : Ask(a)) \/ Skip \/ NextDepth \/ EndSweep

CallSpec == SwarmOK /\ Call /\ [][LoopNext]_<<swarmVars, loopVars>>

-----------------------------------------------------------------------------
\* Properties

\* The rule of Planner holds of every request: nothing servable comes before it,
\* at any depth, although the loop never looks back within a sweep; and the loop
\* does not return while the rule has a request left.
Rule == INSTANCE Planner WITH
  budget <- IF ~returned /\ Plannable # {} THEN left ELSE 0

ImplementsPlanner == Rule!PlanSpec

\* The copied counts are those of the assignments, after every request.
HoldersInStep == \A b \in AllBlocks : holders[b] = HolderCount(b)

\* plan() returns: the sweeps end, whatever the peers hold.
Returns == <>returned

=============================================================================
