-------------------------------- MODULE Maps --------------------------------
(***************************************************************************)
(* Partial functions, which play the program's dictionaries: a key is set  *)
(* and popped.                                                             *)
(***************************************************************************)
Put(f, k, v) == [x \in DOMAIN f \cup {k} |-> IF x = k THEN v ELSE f[x]]

Pop(f, k) == [x \in DOMAIN f \ {k} |-> f[x]]

IsMap(f, S, T) == f \in [DOMAIN f -> T] /\ DOMAIN f \subseteq S

EmptyMap == [x \in {} |-> {}]
=============================================================================
