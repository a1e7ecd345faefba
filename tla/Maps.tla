-------------------------------- MODULE Maps --------------------------------
(***************************************************************************)
(* std::collections::HashMap as the swarm uses it: a function whose domain *)
(* is the set of present keys.                                             *)
(***************************************************************************)

\* HashMap::new
EmptyMap == [x \in {} |-> x]

\* HashMap::insert: the old value of a present key is overwritten.
Insert(map, key, value) ==
  [x \in DOMAIN map \cup {key} |-> IF x = key THEN value ELSE map[x]]

\* HashMap::remove of every key in keys; an absent key is ignored.
Remove(map, keys) == [x \in DOMAIN map \ keys |-> map[x]]

=============================================================================
