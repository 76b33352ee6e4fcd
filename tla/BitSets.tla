------------------------------ MODULE BitSets -------------------------------
(***************************************************************************)
(* What the analyses take a bit_vector for: a set of indices.  changed is  *)
(* what bit_vector_add_all and bit_vector_kill_and_add return, by which    *)
(* the liveness iteration decides to go on.                                *)
(***************************************************************************)
CONSTANTS Vectors, Indices

VARIABLES sets, changed

AbsInit == sets = [v \in Vectors |-> {}] /\ changed = FALSE

Become(v, s) == sets' = [sets EXCEPT ![v] = s]

Cleared(v)     == Become(v, {}) /\ UNCHANGED changed
Added(v, i)    == Become(v, sets[v] \cup {i}) /\ UNCHANGED changed
Removed(v, i)  == Become(v, sets[v] \ {i}) /\ UNCHANGED changed
Intersected(v, w) == Become(v, sets[v] \cap sets[w]) /\ UNCHANGED changed
Grown(v, s)    == Become(v, sets[v] \cup s) /\ changed' = ~(s \subseteq sets[v])

AbsNext == \E v \in Vectors :
  \/ Cleared(v)
  \/ \E i \in Indices : Added(v, i) \/ Removed(v, i)
  \/ \E w \in Vectors : Intersected(v, w) \/ Grown(v, sets[w])
  \/ \E kill, gen \in Vectors : Grown(v, sets[gen] \ sets[kill])

AbsSpec == AbsInit /\ [][AbsNext]_<<sets, changed>>
=============================================================================
