------------------------------ MODULE LiveSets ------------------------------
(***************************************************************************)
(* What a caller of liveness_analyze (src/src/codegen/ra_liveness.c) may   *)
(* rely on: given the successors, the upward exposed variables and the     *)
(* killed variables of every block, ONE step delivers the least live_in    *)
(* and live_out that contain the upward exposed variables and let a        *)
(* variable flow backwards over every edge unless the block kills it.      *)
(***************************************************************************)
CONSTANTS Blocks,   \* the blocks, named by their postorder numbers
          Vars      \* the variables (or SSA temporaries) that are tracked

Sets == [Blocks -> SUBSET Vars]

(* X admits backward flow when it contains what every block exposes and    *)
(* what lives at the entry of a successor and is not killed by the block.  *)
AdmitsFlow(X, sc, gn, kl) ==
  \A b \in Blocks : /\ gn[b] \subseteq X[b]
                    /\ \A s \in sc[b] : X[s] \ kl[b] \subseteq X[b]

OutOf(X, sc) == [b \in Blocks |-> UNION {X[s] : s \in sc[b]}]

(* The live_in sets: the pointwise smallest that admit backward flow.      *)
IsLiveIn(X, sc, gn, kl) ==
  /\ X \in Sets
  /\ AdmitsFlow(X, sc, gn, kl)
  /\ \A Y \in Sets : AdmitsFlow(Y, sc, gn, kl) => \A b \in Blocks : X[b] \subseteq Y[b]

(***************************************************************************)
(* The promise as a specification: the graph is given, the initial sets    *)
(* are chosen by the callback, and then the answer appears at once.        *)
(***************************************************************************)
VARIABLES succ, gen, kill,   \* the problem
          phase,             \* "start", "busy" or "done"
          answer             \* <<live_in, live_out>> once delivered, else <<>>

absVars == <<succ, gen, kill, phase, answer>>

AbsInit == /\ succ \in [Blocks -> SUBSET Blocks]
           /\ gen = [b \in Blocks |-> {}]
           /\ kill = [b \in Blocks |-> {}]
           /\ phase = "start"
           /\ answer = <<>>

Pose == /\ phase = "start"
        /\ phase' = "busy"
        /\ gen' \in Sets /\ kill' \in Sets
        /\ UNCHANGED <<succ, answer>>

Deliver == /\ phase = "busy"
           /\ phase' = "done"
           /\ \E X \in Sets : /\ IsLiveIn(X, succ, gen, kill)
                              /\ answer' = <<X, OutOf(X, succ)>>
           /\ UNCHANGED <<succ, gen, kill>>

AbsNext == Pose \/ Deliver

AbsSpec == AbsInit /\ [][AbsNext]_absVars
=============================================================================
