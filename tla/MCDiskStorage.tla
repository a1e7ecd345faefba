----------------------------- MODULE MCDiskStorage -----------------------------
(***************************************************************************)
(* An instance of DiskStorage for TLC.                                     *)
(***************************************************************************)
EXTENDS DiskStorageProperties

\* The first piece lies in two files and the empty one between them, the second
\* in the last file, the rest of it.
Files == <<1, 0, 2>>

\* A piece, a part of one, and a range beyond the end.
Ranges ==
  {[piece |-> 0, offset |-> 0, len |-> 2], [piece |-> 1, offset |-> 0, len |-> 1],
   [piece |-> 1, offset |-> 1, len |-> 1]}

=============================================================================
