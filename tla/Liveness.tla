------------------------------ MODULE Liveness ------------------------------
(***************************************************************************)
(* liveness_analyze of src/src/codegen/ra_liveness.c: the backward data    *)
(* flow iteration shared by the variable liveness that feeds phi insertion *)
(* (ra_var_liveness.c) and the SSA liveness that feeds the register        *)
(* allocator (ra_ssa_liveness.c).                                          *)
(*                                                                         *)
(* Blocks are their indices in the postorder buffer; a bit vector is the   *)
(* set of its one bits (the words behind it are module BitVector).         *)
(* compute_initial_sets is a callback: any initial sets may come out of    *)
(* it.  One action is one iteration of the inner loop, lines 36-41.        *)
(***************************************************************************)
EXTENDS Naturals, FiniteSets

CONSTANTS BlockCount,      \* analysis->postorder->size
          Vars,            \* 0 .. var_count - 1
          MaxSuccessors    \* bound on instr_successor_count(block->last)

ASSUME BlockCountAssumption == BlockCount \in Nat

Blocks == 0 .. BlockCount - 1
Sets == [Blocks -> SUBSET Vars]
NoSets == [b \in Blocks |-> {}]

VARIABLES succ,      \* the blocks instr_successor_at returns for block->last
          gen,       \* live_in as the callback left it (history)
          kill, liveIn, liveOut,
          next,      \* the loop index i
          changed,   \* the flag of the do-while loop
          phase      \* "start", "sweep", "done"

vars == <<succ, gen, kill, liveIn, liveOut, next, changed, phase>>

SuccessorSets == {S \in SUBSET Blocks : Cardinality(S) <= MaxSuccessors}

Init == /\ succ \in [Blocks -> SuccessorSets]
        /\ gen = NoSets /\ kill = NoSets
        /\ liveIn = NoSets /\ liveOut = NoSets
        /\ next = 0 /\ changed = FALSE
        /\ phase = "start"

-----------------------------------------------------------------------------
(* Plausible slips in the code below, each used to test a property.        *)
KillAndAddIgnoresKill(vec, kl, gn) == vec \cup gn
VisitGrownFlagsLastOnly ==
  /\ phase = "sweep" /\ next < BlockCount
  /\ LET out == liveOut[next] \cup UNION {liveIn[s] : s \in succ[next]}
         in  == liveIn[next] \cup (out \ kill[next])
     IN  /\ out # liveOut[next]
         /\ liveOut' = [liveOut EXCEPT ![next] = out]
         /\ liveIn' = [liveIn EXCEPT ![next] = in]
         /\ changed' = (in # liveIn[next])
  /\ next' = next + 1
  /\ UNCHANGED <<succ, gen, kill, phase>>
SweepAgainKeepsIndex ==
  /\ phase = "sweep" /\ next = BlockCount /\ changed
  /\ changed' = FALSE
  /\ UNCHANGED <<succ, gen, kill, liveIn, liveOut, next, phase>>
SweepAgainKeepsChanged ==
  /\ phase = "sweep" /\ next = BlockCount /\ changed
  /\ next' = 0
  /\ UNCHANGED <<succ, gen, kill, liveIn, liveOut, changed, phase>>
ReturnAfterOneSweep ==
  /\ phase = "sweep" /\ next = BlockCount
  /\ phase' = "done"
  /\ UNCHANGED <<succ, gen, kill, liveIn, liveOut, next, changed>>
-----------------------------------------------------------------------------

(* bit_vector_add_all and bit_vector_kill_and_add on the sets they hold.   *)
AddAll(vec, from) == vec \cup from
KillAndAdd(vec, kl, gn) == vec \cup (gn \ kl)

(* liveness_update_live_out: the new live_out of b, from the live_in of    *)
(* its successors as they are at this moment.                              *)
UpdatedLiveOut(b) == AddAll(liveOut[b], UNION {liveIn[s] : s \in succ[b]})

(* liveness_update_live_in: the new live_in of b for a given live_out.     *)
UpdatedLiveIn(b, out) == KillAndAdd(liveIn[b], kill[b], out)

(* liveness_analyze: empty vectors, then the callback, then the sweeps.    *)
ComputeInitialSets ==
  /\ phase = "start"
  /\ phase' = "sweep"
  /\ gen' \in Sets /\ kill' \in Sets
  /\ liveIn' = gen'
  /\ UNCHANGED <<succ, liveOut, next, changed>>

(* Line 38 short-circuits: live_in is recomputed only when live_out grew.  *)
VisitStable ==
  /\ phase = "sweep" /\ next < BlockCount
  /\ UpdatedLiveOut(next) = liveOut[next]
  /\ next' = next + 1
  /\ UNCHANGED <<succ, gen, kill, liveIn, liveOut, changed, phase>>

(* ... and the sweep counts as changed only when live_in grew with it.     *)
VisitGrown ==
  /\ phase = "sweep" /\ next < BlockCount
  /\ LET out == UpdatedLiveOut(next)
         in  == UpdatedLiveIn(next, out)
     IN  /\ out # liveOut[next]
         /\ liveOut' = [liveOut EXCEPT ![next] = out]
         /\ liveIn' = [liveIn EXCEPT ![next] = in]
         /\ changed' = (changed \/ in # liveIn[next])
  /\ next' = next + 1
  /\ UNCHANGED <<succ, gen, kill, phase>>

(* do { changed = FALSE; ... } while(changed)                              *)
SweepAgain ==
  /\ phase = "sweep" /\ next = BlockCount /\ changed
  /\ next' = 0 /\ changed' = FALSE
  /\ UNCHANGED <<succ, gen, kill, liveIn, liveOut, phase>>

Return ==
  /\ phase = "sweep" /\ next = BlockCount /\ ~changed
  /\ phase' = "done"
  /\ UNCHANGED <<succ, gen, kill, liveIn, liveOut, next, changed>>

Next == ComputeInitialSets \/ VisitStable \/ VisitGrown \/ SweepAgain \/ Return

Spec == Init /\ [][Next]_vars

(* The analysis runs on one thread and nothing preempts it.                *)
FairSpec == Spec /\ WF_vars(Next)

-----------------------------------------------------------------------------
(* Every variable keeps its type.                                          *)
TypeOK == /\ succ \in [Blocks -> SUBSET Blocks]
          /\ gen \in Sets /\ kill \in Sets
          /\ liveIn \in Sets /\ liveOut \in Sets
          /\ next \in 0 .. BlockCount
          /\ changed \in BOOLEAN
          /\ phase \in {"start", "sweep", "done"}

(* What makes the short circuit of line 38 correct: although live_in is    *)
(* skipped whenever live_out did not grow, it is at every moment what the  *)
(* transfer function makes of the current live_out.                        *)
LiveInFollowsLiveOut ==
  \A b \in Blocks : liveIn[b] = gen[b] \cup (liveOut[b] \ kill[b])

(* What makes `changed` a correct stopping test: while it is FALSE, every  *)
(* block already visited in this sweep still covers its successors.        *)
UnchangedSweepIsSettled ==
  phase # "start" /\ ~changed =>
    \A b \in 0 .. next - 1 : \A s \in succ[b] : liveIn[s] \subseteq liveOut[b]

(* When liveness_analyze returns, the data flow equations hold exactly.    *)
EquationsHold ==
  phase = "done" =>
    \A b \in Blocks :
      /\ liveOut[b] = UNION {liveIn[s] : s \in succ[b]}
      /\ liveIn[b] = gen[b] \cup (liveOut[b] \ kill[b])

(* There is a path from b to a block that exposes v, along which no block  *)
(* before the last kills v: what liveness means, independently of sets.    *)
LiveOnPath(v, b) ==
  \E n \in 1 .. BlockCount : \E p \in [1 .. n -> Blocks] :
    /\ p[1] = b /\ v \in gen[p[n]]
    /\ \A k \in 1 .. n - 1 : p[k + 1] \in succ[p[k]] /\ v \notin kill[p[k]]

(* No variable is ever reported live that is not: at every moment, also    *)
(* between two sweeps, each bit of live_in is witnessed by a path.  When   *)
(* the analysis returns no live variable is missing either: the register   *)
(* allocator would give its register away while it is still needed.        *)
LiveIffOnPath ==
  \A b \in Blocks, v \in Vars :
    /\ v \in liveIn[b] => LiveOnPath(v, b)
    /\ phase = "done" /\ LiveOnPath(v, b) => v \in liveIn[b]

(* liveness_analyze returns for every graph, also for one with loops.      *)
Termination == <>(phase = "done")

-----------------------------------------------------------------------------
(* The iteration implements the one-step promise of LiveSets.              *)
Abs == INSTANCE LiveSets WITH
         phase <- IF phase = "sweep" THEN "busy" ELSE phase,
         answer <- IF phase = "done" THEN <<liveIn, liveOut>> ELSE <<>>

(* Seen from outside, liveness_analyze delivers in one step the least      *)
(* solution of the data flow problem its callback posed.                   *)
ImplementsLiveSets == Abs!AbsSpec

(* The inductive invariant behind the proofs: next to the named parts,     *)
(* live_out holds nothing its successors do not hold, and live_in holds    *)
(* nothing that some admissible assignment leaves out.                     *)
LiveOutFromSuccessors ==
  \A b \in Blocks : liveOut[b] \subseteq UNION {liveIn[s] : s \in succ[b]}

BelowEveryAdmissible ==
  \A Y \in Sets : Abs!AdmitsFlow(Y, succ, gen, kill) =>
                    \A b \in Blocks : liveIn[b] \subseteq Y[b]

NothingBeforeStart ==
  phase = "start" => /\ gen = NoSets /\ kill = NoSets /\ liveIn = NoSets
                     /\ liveOut = NoSets /\ next = 0 /\ changed = FALSE

DoneOnlyWhenSettled == phase = "done" => next = BlockCount /\ ~changed

(* The fixpoint iteration is sound at every intermediate point: what it    *)
(* has found so far is forced, and what it has not is still to be visited. *)
IterationInv == /\ TypeOK
                /\ NothingBeforeStart
                /\ DoneOnlyWhenSettled
                /\ LiveInFollowsLiveOut
                /\ UnchangedSweepIsSettled
                /\ LiveOutFromSuccessors
                /\ BelowEveryAdmissible
=============================================================================
