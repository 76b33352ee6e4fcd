------------------------------ MODULE UseSets ------------------------------
(***************************************************************************)
(* What the compiler passes may rely on in the intermediate language:      *)
(* every definition has the SET of the input values that use it, a value   *)
(* is in at most one of the sets, and the passes add, take out, move and   *)
(* merge uses.  (src/src/codegen/il_value.c, il_core.c, graph/graph.c)     *)
(***************************************************************************)
CONSTANTS Definitions, Values

VARIABLE uses

Unused(v) == \A d \in Definitions : v \notin uses[d]

AbsInit == uses = [d \in Definitions |-> {}]

Use(v, d) == /\ Unused(v)
             /\ uses' = [uses EXCEPT ![d] = @ \cup {v}]

Unuse(v, d) == /\ v \in uses[d]
               /\ uses' = [uses EXCEPT ![d] = @ \ {v}]

(* All uses of d become uses of e.                                         *)
Merge(d, e) == /\ d # e
               /\ uses' = [uses EXCEPT ![d] = {}, ![e] = @ \cup uses[d]]

(* A conversion c of d is put in front of the user v: c uses d through a   *)
(* new value n, and v uses c.                                              *)
Convert(v, n, d, c) ==
  /\ Unused(n) /\ uses[c] = {} /\ c # d
  /\ uses' = [uses EXCEPT ![d] = (@ \ {v}) \cup {n}, ![c] = {v}]

(* ... or a box b and an unbox c, one after the other.                     *)
ConvertTwice(v, n, m, d, b, c) ==
  /\ Unused(n) /\ Unused(m) /\ n # m
  /\ uses[b] = {} /\ uses[c] = {} /\ b # c /\ d \notin {b, c}
  /\ uses' = [uses EXCEPT ![d] = (@ \ {v}) \cup {n}, ![b] = {m}, ![c] = {v}]

AbsNext ==
  \/ \E v \in Values, d \in Definitions : Use(v, d) \/ Unuse(v, d)
  \/ \E d, e \in Definitions : Merge(d, e)
  \/ \E d, c \in Definitions : \E v \in uses[d], n \in Values : Convert(v, n, d, c)
  \/ \E d, b, c \in Definitions : \E v \in uses[d], n, m \in Values : ConvertTwice(v, n, m, d, b, c)

AbsSpec == AbsInit /\ [][AbsNext]_uses
=============================================================================
