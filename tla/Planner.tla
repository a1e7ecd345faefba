-------------------------------- MODULE Planner --------------------------------
(***************************************************************************)
(* The scheduling policy of Swarm::plan as a rule for its next request:    *)
(* among the blocks somebody can be asked for, the one with the fewest     *)
(* holders, then the first by BlockKey.  PlanLoop has the nested loops of  *)
(* the code and implements this rule: a request only takes slots and adds  *)
(* holders, so a block found unservable stays so until plan() returns.     *)
(***************************************************************************)
EXTENDS Scheduling

\* How many requests the running plan() may still send; 0 outside plan(), and
\* as soon as it can send no more.
VARIABLE budget

plannerVars == <<pieceVars, registryVars, assigned, status, budget>>

Precedes(b, c) == Less(<<HolderCount(b)>> \o BlockKey(b), <<HolderCount(c)>> \o BlockKey(c))

NextBlocks == {b \in Plannable : \A c \in Plannable : ~Precedes(c, b)}

\* The budget plan() starts with.
PlanBudget == IF Downloads /\ Plannable # {} THEN Cardinality(OpenSlots) ELSE 0

\* Mutant of Pick: the loop does not stop when the budget is used up.
PickOverBudget(b, a) ==
  /\ b \in NextBlocks
  /\ CanAsk(b, a)
  /\ Assign(b, a)
  /\ UNCHANGED <<pieceVars, registryVars, status>>
  /\ budget' = budget - 1

\* send_request for one block, to any of the peers that can be asked.
Pick(b, a) ==
  /\ budget > 0
  /\ b \in NextBlocks
  /\ CanAsk(b, a)
  /\ Assign(b, a)
  /\ UNCHANGED <<pieceVars, registryVars, status>>
  /\ budget' = IF Plannable' # {} THEN budget - 1 ELSE 0

\* One whole call of plan().
PlanSpec ==
  /\ budget = PlanBudget
  /\ [][\E b \in WantedBlocks, a \in Addr : Pick(b, a)]_plannerVars

=============================================================================
