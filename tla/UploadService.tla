----------------------------- MODULE UploadService -----------------------------
(***************************************************************************)
(* What the upload side of a swarm promises, without reads, ids or sharing *)
(* (abstract specification; Swarm implements it).  A peer that asks for a  *)
(* range waits for it until it is served, withdraws, leaves, or the user   *)
(* stops uploads; data goes to peers that wait for it and to no one else,  *)
(* once per wait; and the queue is bounded.                                *)
(***************************************************************************)
EXTENDS FiniteSets, Naturals

CONSTANTS
  Client,    \* who may ask
  Item,      \* what may be asked for
  MaxQueued  \* waits accepted at the same time

VARIABLES
  open,     \* uploads are on
  waiting,  \* the <<item, client>> pairs that wait
  served    \* the pairs served by the last step

serviceVars == <<open, waiting, served>>

Wait == Item \X Client

ServiceInit == open = TRUE /\ waiting = {} /\ served = {}

\* Saturated or closed: a new wait is refused, and that is no step.
Ask(w) ==
  /\ open
  /\ Cardinality(waiting) < MaxQueued
  /\ waiting' = waiting \cup {w}
  /\ served' = {}
  /\ UNCHANGED open

\* Withdrawn by the client, or all the waits of clients that leave.
GiveUp(waits) ==
  /\ waiting' = waiting \ waits
  /\ served' = {}
  /\ UNCHANGED open

\* Everybody who waits for the item gets it.
Serve(item) ==
  /\ open
  /\ served' = {w \in waiting : w[1] = item}
  /\ waiting' = waiting \ served'
  /\ UNCHANGED open

Switch(on) ==
  /\ open' = on
  /\ waiting' = IF on THEN waiting ELSE {}
  /\ served' = {}

ServiceNext ==
  \/ \E w \in Wait : Ask(w)
  \/ \E w \in Wait : GiveUp({w})
  \/ \E c \in Client : GiveUp({w \in waiting : w[2] = c})
  \/ GiveUp({})
  \/ \E item \in Item : Serve(item)
  \/ \E on \in BOOLEAN : Switch(on)

ServiceSpec == ServiceInit /\ [][ServiceNext]_serviceVars

=============================================================================
