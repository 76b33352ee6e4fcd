--------------------------- MODULE LivenessProofs ---------------------------
(***************************************************************************)
(* For every number of blocks, every set of variables and every graph:     *)
(* liveness_analyze solves its equations, its answer is the least one, and *)
(* the iteration implements LiveSets.                                      *)
(***************************************************************************)
EXTENDS Liveness, TLAPS, FiniteSetTheorems

(* A visited block is a block of the graph.                                *)
LEMMA NextIsBlock ==
  ASSUME TypeOK, next < BlockCount
  PROVE  next \in Blocks
BY BlockCountAssumption DEF TypeOK, Blocks

(* The loop index may start at zero.                                       *)
LEMMA ZeroIsIndex == 0 \in 0 .. BlockCount
BY BlockCountAssumption

(* The types of the two updated vectors.                                   *)
LEMMA UpdateTypes ==
  ASSUME TypeOK, NEW b \in Blocks
  PROVE  /\ UpdatedLiveOut(b) \in SUBSET Vars
         /\ \A out \in SUBSET Vars : UpdatedLiveIn(b, out) \in SUBSET Vars
BY DEF TypeOK, Sets, UpdatedLiveOut, UpdatedLiveIn, AddAll, KillAndAdd

(* Every step preserves the types.                                         *)
LEMMA TypeStep == TypeOK /\ [Next]_vars => TypeOK'
<1> SUFFICES ASSUME TypeOK, [Next]_vars PROVE TypeOK'
  OBVIOUS
<1>1. CASE ComputeInitialSets
  BY <1>1 DEF ComputeInitialSets, TypeOK
<1>2. CASE VisitStable
  BY <1>2, BlockCountAssumption DEF VisitStable, TypeOK
<1>3. CASE VisitGrown
  <2> DEFINE out == UpdatedLiveOut(next)
             in == UpdatedLiveIn(next, out)
  <2>1. next \in Blocks
    BY <1>3, NextIsBlock DEF VisitGrown
  <2>2. out \in SUBSET Vars /\ in \in SUBSET Vars
    BY <2>1, UpdateTypes
  <2>3. liveOut' \in Sets /\ liveIn' \in Sets
    BY <1>3, <2>2 DEF VisitGrown, TypeOK, Sets
  <2>4. next' \in 0 .. BlockCount /\ changed' \in BOOLEAN
    BY <1>3, BlockCountAssumption DEF VisitGrown, TypeOK
  <2>5. QED
    BY <1>3, <2>3, <2>4 DEF VisitGrown, TypeOK
<1>4. CASE SweepAgain
  BY <1>4, ZeroIsIndex DEF SweepAgain, TypeOK
<1>5. CASE Return
  BY <1>5 DEF Return, TypeOK
<1>6. CASE UNCHANGED vars
  BY <1>6 DEF vars, TypeOK
<1>7. QED
  BY <1>1, <1>2, <1>3, <1>4, <1>5, <1>6 DEF Next

(* The initial values have their types.                                    *)
LEMMA TypeInit == Init => TypeOK
<1> SUFFICES ASSUME Init PROVE TypeOK
  OBVIOUS
<1>1. succ \in [Blocks -> SUBSET Blocks]
  BY DEF Init, SuccessorSets
<1>2. NoSets \in Sets
  BY DEF NoSets, Sets
<1>3. QED
  BY <1>1, <1>2, ZeroIsIndex DEF Init, TypeOK

(* Every reachable state of the analysis has its type.                     *)
THEOREM TypeCorrect == Spec => []TypeOK
BY TypeInit, TypeStep, PTL DEF Spec

-----------------------------------------------------------------------------
(* Where a visit finds new bits: everything it puts into a block comes     *)
(* from a successor's live_in, and the block's sets only grow.             *)
LEMMA GrownVisit ==
  ASSUME IterationInv, VisitGrown
  PROVE  /\ next \in Blocks
         /\ \A b \in Blocks \ {next} : liveIn'[b] = liveIn[b] /\ liveOut'[b] = liveOut[b]
         /\ liveOut'[next] = liveOut[next] \cup UNION {liveIn[s] : s \in succ[next]}
         /\ liveIn'[next] = liveIn[next] \cup (liveOut'[next] \ kill[next])
         /\ \A b \in Blocks : liveIn[b] \subseteq liveIn'[b]
<1>1. next \in Blocks
  BY NextIsBlock DEF VisitGrown, IterationInv
<1>2. /\ \A b \in Blocks \ {next} : liveIn'[b] = liveIn[b] /\ liveOut'[b] = liveOut[b]
      /\ liveOut'[next] = UpdatedLiveOut(next)
      /\ liveIn'[next] = UpdatedLiveIn(next, liveOut'[next])
  BY <1>1 DEF VisitGrown, IterationInv, TypeOK, Sets
<1>3. QED
  BY <1>1, <1>2 DEF UpdatedLiveOut, UpdatedLiveIn, AddAll, KillAndAdd

(* live_in keeps following live_out.                                       *)
LEMMA FollowsStep ==
  ASSUME IterationInv, [Next]_vars
  PROVE  LiveInFollowsLiveOut'
<1>1. CASE ComputeInitialSets
  <2>1. \A b \in Blocks : liveOut'[b] = {}
    BY <1>1 DEF ComputeInitialSets, IterationInv, NothingBeforeStart, NoSets
  <2>2. QED
    BY <1>1, <2>1 DEF ComputeInitialSets, LiveInFollowsLiveOut
<1>2. CASE VisitGrown
  <2> SUFFICES ASSUME NEW b \in Blocks
               PROVE  liveIn'[b] = gen[b] \cup (liveOut'[b] \ kill[b])
    BY <1>2 DEF VisitGrown, LiveInFollowsLiveOut
  <2>1. liveIn[b] = gen[b] \cup (liveOut[b] \ kill[b])
    BY DEF IterationInv, LiveInFollowsLiveOut
  <2>2. CASE b = next
    BY <1>2, <2>1, <2>2, GrownVisit
  <2>3. CASE b # next
    BY <1>2, <2>1, <2>3, GrownVisit
  <2>4. QED
    BY <2>2, <2>3
<1>3. CASE VisitStable \/ SweepAgain \/ Return \/ UNCHANGED vars
  BY <1>3 DEF VisitStable, SweepAgain, Return, vars, IterationInv, LiveInFollowsLiveOut
<1>4. QED
  BY <1>1, <1>2, <1>3 DEF Next

(* A sweep that changed nothing so far has settled what it visited.        *)
LEMMA SettledStep ==
  ASSUME IterationInv, [Next]_vars
  PROVE  UnchangedSweepIsSettled'
<1> USE DEF UnchangedSweepIsSettled
<1>1. CASE ComputeInitialSets \/ SweepAgain
  <2>1. next' = 0
    BY <1>1 DEF ComputeInitialSets, SweepAgain, IterationInv, NothingBeforeStart
  <2>2. 0 .. next' - 1 = {}
    BY <2>1
  <2>3. QED
    BY <2>2
<1>2. CASE VisitStable
  <2> SUFFICES ASSUME ~changed, NEW b \in 0 .. next, NEW s \in succ[b]
               PROVE  liveIn[s] \subseteq liveOut[b]
    <3>1. next' - 1 = next
      BY <1>2 DEF VisitStable, IterationInv, TypeOK
    <3>2. QED
      BY <1>2, <3>1 DEF VisitStable
  <2>1. CASE b = next
    BY <1>2, <2>1 DEF VisitStable, UpdatedLiveOut, AddAll
  <2>2. CASE b # next
    <3>1. b \in 0 .. next - 1
      BY <2>2 DEF IterationInv, TypeOK
    <3>2. QED
      BY <1>2, <3>1 DEF VisitStable, IterationInv
  <2>3. QED
    BY <2>1, <2>2
<1>3. CASE VisitGrown
  <2> SUFFICES ASSUME ~changed', NEW b \in 0 .. next, NEW s \in succ[b]
               PROVE  liveIn'[s] \subseteq liveOut'[b]
    <3>1. next' - 1 = next
      BY <1>3 DEF VisitGrown, IterationInv, TypeOK
    <3>2. QED
      BY <1>3, <3>1 DEF VisitGrown
  <2>1. ~changed /\ UpdatedLiveIn(next, UpdatedLiveOut(next)) = liveIn[next]
    BY <1>3 DEF VisitGrown
  <2>2. liveIn' = liveIn
    BY <1>3, <2>1, GrownVisit DEF VisitGrown, IterationInv, TypeOK, Sets
  <2>3. CASE b = next
    BY <1>3, <2>2, <2>3, GrownVisit
  <2>4. CASE b # next
    <3>1. b \in 0 .. next - 1 /\ b \in Blocks
      BY <2>4, BlockCountAssumption DEF IterationInv, TypeOK, Blocks
    <3>2. liveIn[s] \subseteq liveOut[b]
      BY <1>3, <2>1, <3>1 DEF VisitGrown, IterationInv
    <3>3. QED
      BY <1>3, <2>2, <2>4, <3>1, <3>2, GrownVisit
  <2>5. QED
    BY <2>3, <2>4
<1>4. CASE Return \/ UNCHANGED vars
  BY <1>4 DEF Return, vars, IterationInv
<1>5. QED
  BY <1>1, <1>2, <1>3, <1>4 DEF Next

(* live_out only ever repeats what successors hold.                        *)
LEMMA FromSuccessorsStep ==
  ASSUME IterationInv, [Next]_vars
  PROVE  LiveOutFromSuccessors'
<1>1. CASE ComputeInitialSets
  BY <1>1 DEF ComputeInitialSets, IterationInv, NothingBeforeStart, NoSets,
              LiveOutFromSuccessors
<1>2. CASE VisitGrown
  <2> SUFFICES ASSUME NEW b \in Blocks, NEW v \in liveOut'[b]
               PROVE  \E s \in succ[b] : v \in liveIn'[s]
    BY <1>2 DEF VisitGrown, LiveOutFromSuccessors
  <2>1. \E s \in succ[b] : v \in liveIn[s]
    <3>1. liveOut[b] \subseteq UNION {liveIn[s] : s \in succ[b]}
      BY DEF IterationInv, LiveOutFromSuccessors
    <3>2. CASE b = next
      BY <1>2, <3>1, <3>2, GrownVisit
    <3>3. CASE b # next
      BY <1>2, <3>1, <3>3, GrownVisit
    <3>4. QED
      BY <3>2, <3>3
  <2>2. succ[b] \subseteq Blocks
    BY DEF IterationInv, TypeOK
  <2>3. QED
    BY <1>2, <2>1, <2>2, GrownVisit
<1>3. CASE VisitStable \/ SweepAgain \/ Return \/ UNCHANGED vars
  BY <1>3 DEF VisitStable, SweepAgain, Return, vars, IterationInv, LiveOutFromSuccessors
<1>4. QED
  BY <1>1, <1>2, <1>3 DEF Next

(* The iteration never leaves the least solution.                          *)
LEMMA BelowStep ==
  ASSUME IterationInv, [Next]_vars
  PROVE  BelowEveryAdmissible'
<1> USE DEF BelowEveryAdmissible, Abs!AdmitsFlow
<1>1. CASE ComputeInitialSets
  BY <1>1 DEF ComputeInitialSets
<1>2. CASE VisitGrown
  <2> SUFFICES ASSUME NEW Y \in Sets, Abs!AdmitsFlow(Y, succ, gen, kill), NEW b \in Blocks
               PROVE  liveIn'[b] \subseteq Y[b]
    BY <1>2 DEF VisitGrown
  <2>1. \A c \in Blocks : liveIn[c] \subseteq Y[c]
    BY DEF IterationInv
  <2>2. CASE b # next
    BY <1>2, <2>1, <2>2, GrownVisit
  <2>3. CASE b = next
    <3> SUFFICES ASSUME NEW v \in liveOut'[next], v \notin kill[next]
                 PROVE  v \in Y[next]
      BY <1>2, <2>1, <2>3, GrownVisit
    <3>1. PICK s \in succ[next] : v \in liveIn[s]
      BY <1>2, GrownVisit DEF IterationInv, LiveOutFromSuccessors
    <3>2. s \in Blocks
      BY <1>2, <3>1, GrownVisit DEF IterationInv, TypeOK
    <3>3. v \in Y[s] \ kill[next]
      BY <2>1, <3>1, <3>2
    <3>4. QED
      BY <1>2, <3>1, <3>3, GrownVisit
  <2>4. QED
    BY <2>2, <2>3
<1>3. CASE VisitStable \/ SweepAgain \/ Return \/ UNCHANGED vars
  BY <1>3 DEF VisitStable, SweepAgain, Return, vars, IterationInv
<1>4. QED
  BY <1>1, <1>2, <1>3 DEF Next

(* The bookkeeping conjuncts.                                              *)
LEMMA PhaseStep ==
  ASSUME IterationInv, [Next]_vars
  PROVE  NothingBeforeStart' /\ DoneOnlyWhenSettled'
BY DEF IterationInv, NothingBeforeStart, DoneOnlyWhenSettled, Next, vars,
       ComputeInitialSets, VisitStable, VisitGrown, SweepAgain, Return

(* Initially nothing has been computed.                                    *)
LEMMA IterationInit == Init => IterationInv
<1> SUFFICES ASSUME Init PROVE IterationInv
  OBVIOUS
<1>1. TypeOK
  BY TypeInit
<1>2. NothingBeforeStart /\ DoneOnlyWhenSettled /\ UnchangedSweepIsSettled
  BY DEF Init, NothingBeforeStart, DoneOnlyWhenSettled, UnchangedSweepIsSettled
<1>3. LiveInFollowsLiveOut /\ LiveOutFromSuccessors /\ BelowEveryAdmissible
  BY DEF Init, NoSets, LiveInFollowsLiveOut, LiveOutFromSuccessors, BelowEveryAdmissible
<1>4. QED
  BY <1>1, <1>2, <1>3 DEF IterationInv

(* The iteration is sound at every point: see IterationInv in Liveness.    *)
THEOREM IterationCorrect == Spec => []IterationInv
<1>1. IterationInv /\ [Next]_vars => IterationInv'
  BY TypeStep, PhaseStep, FollowsStep, SettledStep, FromSuccessorsStep, BelowStep
     DEF IterationInv
<1>2. QED
  BY IterationInit, <1>1, PTL DEF Spec

(* The short circuit of ra_liveness.c:38 never leaves live_in behind.      *)
THEOREM LiveInAlwaysFollows == Spec => []LiveInFollowsLiveOut
<1>1. IterationInv => LiveInFollowsLiveOut
  BY DEF IterationInv
<1>2. QED
  BY <1>1, IterationCorrect, PTL

(* When a sweep ends without a change, the equations hold.                 *)
LEMMA SettledSolves ==
  ASSUME IterationInv, phase # "start", next = BlockCount, ~changed, NEW b \in Blocks
  PROVE  /\ liveOut[b] = UNION {liveIn[s] : s \in succ[b]}
         /\ liveIn[b] = gen[b] \cup (liveOut[b] \ kill[b])
<1>1. \A s \in succ[b] : liveIn[s] \subseteq liveOut[b]
  BY DEF IterationInv, UnchangedSweepIsSettled, Blocks
<1>2. liveOut[b] \subseteq UNION {liveIn[s] : s \in succ[b]}
  BY DEF IterationInv, LiveOutFromSuccessors
<1>3. QED
  BY <1>1, <1>2 DEF IterationInv, LiveInFollowsLiveOut

LEMMA SettledEquations == IterationInv => EquationsHold
BY SettledSolves DEF EquationsHold, IterationInv, DoneOnlyWhenSettled

(* liveness_analyze returns a solution of its data flow equations, on      *)
(* every graph and for every outcome of the callback.                      *)
THEOREM AnalysisSolvesEquations == Spec => []EquationsHold
BY SettledEquations, IterationCorrect, PTL

(* ... and that solution is the least.                                     *)
LEMMA SettledIsLeast ==
  ASSUME IterationInv, phase # "start", next = BlockCount, ~changed
  PROVE  /\ Abs!IsLiveIn(liveIn, succ, gen, kill)
         /\ liveOut = Abs!OutOf(liveIn, succ)
<1>1. Abs!AdmitsFlow(liveIn, succ, gen, kill)
  BY SettledSolves DEF Abs!AdmitsFlow
<1>2. liveIn \in Abs!Sets /\ Abs!Sets = Sets
  BY DEF IterationInv, TypeOK, Sets, Abs!Sets
<1>3. liveOut = Abs!OutOf(liveIn, succ)
  BY SettledSolves DEF Abs!OutOf, IterationInv, TypeOK, Sets
<1>4. QED
  BY <1>1, <1>2, <1>3 DEF Abs!IsLiveIn, IterationInv, BelowEveryAdmissible

-----------------------------------------------------------------------------
(* Initial states map to initial states.                                   *)
LEMMA RefinesInit == Init => Abs!AbsInit
BY DEF Init, Abs!AbsInit, SuccessorSets, NoSets

(* The callback is the abstract Pose step.                                 *)
LEMMA RefinesPose == ComputeInitialSets => Abs!Pose
BY DEF ComputeInitialSets, Abs!Pose, Sets, Abs!Sets

(* Visits and repeated sweeps are invisible from outside.                  *)
LEMMA RefinesStutter ==
  VisitStable \/ VisitGrown \/ SweepAgain \/ UNCHANGED vars => UNCHANGED Abs!absVars
BY DEF VisitStable, VisitGrown, SweepAgain, vars, Abs!absVars

(* Returning delivers the least solution.                                  *)
LEMMA RefinesDeliver ==
  ASSUME IterationInv, Return
  PROVE  Abs!Deliver
<1>1. /\ Abs!IsLiveIn(liveIn, succ, gen, kill)
      /\ liveOut = Abs!OutOf(liveIn, succ)
  BY SettledIsLeast DEF Return
<1>2. liveIn \in Abs!Sets
  BY <1>1 DEF Abs!IsLiveIn
<1>3. QED
  BY <1>1, <1>2 DEF Return, Abs!Deliver

(* The worklist-free sweeps of liveness_analyze implement the one-step     *)
(* promise of LiveSets: the answer is the least solution, delivered once.  *)
THEOREM Refinement == Spec => ImplementsLiveSets
<1>1. IterationInv /\ [Next]_vars => [Abs!AbsNext]_(Abs!absVars)
  BY RefinesPose, RefinesStutter, RefinesDeliver DEF Next, Abs!AbsNext
<1>2. QED
  BY <1>1, RefinesInit, IterationCorrect, PTL DEF Spec, ImplementsLiveSets, Abs!AbsSpec

-----------------------------------------------------------------------------
(* Facts about numbers that the paths need: a set of them has a least one, *)
(* and no more than N fit below N.                                         *)
LEMMA LeastNatural ==
  ASSUME NEW S \in SUBSET Nat, S # {}
  PROVE  \E m \in S : \A k \in S : m <= k
<1> DEFINE R == OpToRel(<, Nat)
<1>1. IsWellFoundedOn(R, Nat)
  BY NatLessThanWellFounded
<1> HIDE DEF R
<1>2. PICK m \in S : \A k \in S : ~(<<k, m>> \in R)
  BY <1>1, WFMin
<1>3. \A k \in Nat : k < m => <<k, m>> \in R
  BY DEF R, OpToRel
<1>4. \A k \in S : ~(k < m)
  BY <1>2, <1>3
<1>5. \A k \in S : m <= k
  BY <1>4
<1>6. QED
  BY <1>5

LEMMA NoMoreThanBlocks ==
  ASSUME NEW n \in Nat, NEW p \in [1 .. n -> Blocks],
         \A i, j \in 1 .. n : p[i] = p[j] => i = j
  PROVE  n <= BlockCount
<1>1. IsFiniteSet(1 .. n) /\ Cardinality(1 .. n) = n
  BY FS_Interval
<1>2. IsFiniteSet(Blocks) /\ Cardinality(Blocks) = BlockCount
  BY FS_Interval, BlockCountAssumption DEF Blocks
<1>3. ASSUME BlockCount < n PROVE FALSE
  BY <1>1, <1>2, <1>3, FS_PigeonHole
<1>4. QED
  BY <1>3, BlockCountAssumption

(* A path from b to a block that exposes v, that passes no killing block.  *)
IsLivePath(p, n, v, b) ==
  /\ p[1] = b /\ v \in gen[p[n]]
  /\ \A k \in 1 .. n - 1 : p[k + 1] \in succ[p[k]] /\ v \notin kill[p[k]]

(* The variables that live on a path from b which meets no block twice.    *)
OnSimplePath(b) ==
  {v \in Vars : \E n \in 1 .. BlockCount : \E p \in [1 .. n -> Blocks] :
                  IsLivePath(p, n, v, b) /\ \A i, j \in 1 .. n : p[i] = p[j] => i = j}

(* Such a path can be continued backwards over every edge that does not    *)
(* kill: in front of the path, or by cutting off a loop through the block. *)
LEMMA SimplePathExtends ==
  ASSUME TypeOK, NEW b \in Blocks, NEW s \in succ[b],
         NEW v \in OnSimplePath(s), v \notin kill[b]
  PROVE  v \in OnSimplePath(b)
<1>0. PICK n \in 1 .. BlockCount : \E p \in [1 .. n -> Blocks] :
        IsLivePath(p, n, v, s) /\ \A i, j \in 1 .. n : p[i] = p[j] => i = j
  BY DEF OnSimplePath
<1>1. PICK p \in [1 .. n -> Blocks] :
        IsLivePath(p, n, v, s) /\ \A i, j \in 1 .. n : p[i] = p[j] => i = j
  BY <1>0
<1>2. v \in Vars /\ n \in Nat \ {0} /\ n <= BlockCount /\ BlockCount \in Nat
  BY BlockCountAssumption DEF OnSimplePath
<1>3. CASE \E j \in 1 .. n : p[j] = b
  <2>1. PICK j \in 1 .. n : p[j] = b
    BY <1>3
  <2> DEFINE m == n - j + 1
             q == [i \in 1 .. m |-> p[i + j - 1]]
  <2>2. m \in 1 .. BlockCount /\ j \in Nat \ {0} /\ j <= n
    BY <1>2, <2>1
  <2>3. \A i \in 1 .. m : i + j - 1 \in 1 .. n
    BY <1>2, <2>2
  <2>4. q \in [1 .. m -> Blocks]
    BY <2>3
  <2>5. IsLivePath(q, m, v, b)
    <3>1. q[1] = b
      BY <1>2, <2>1, <2>2
    <3>2. q[m] = p[n]
      BY <1>2, <2>2
    <3>3. ASSUME NEW k \in 1 .. m - 1 PROVE q[k + 1] \in succ[q[k]] /\ v \notin kill[q[k]]
      <4>1. k \in 1 .. m /\ k + 1 \in 1 .. m /\ k + j - 1 \in 1 .. n - 1
            /\ (k + 1) + j - 1 = (k + j - 1) + 1
        BY <1>2, <2>2
      <4>2. q[k] = p[k + j - 1] /\ q[k + 1] = p[(k + j - 1) + 1]
        BY <4>1
      <4>3. QED
        BY <1>1, <4>1, <4>2 DEF IsLivePath
    <3>4. QED
      BY <1>1, <3>1, <3>2, <3>3 DEF IsLivePath
  <2>6. \A i, k \in 1 .. m : q[i] = q[k] => i = k
    <3> SUFFICES ASSUME NEW i \in 1 .. m, NEW k \in 1 .. m, q[i] = q[k] PROVE i = k
      OBVIOUS
    <3>1. p[i + j - 1] = p[k + j - 1] /\ i + j - 1 \in 1 .. n /\ k + j - 1 \in 1 .. n
      BY <2>3
    <3>2. i + j - 1 = k + j - 1
      BY <1>1, <3>1
    <3>3. QED
      BY <2>2, <3>2
  <2> HIDE DEF m, q
  <2>7. QED
    BY <1>2, <2>2, <2>4, <2>5, <2>6 DEF OnSimplePath
<1>4. CASE ~ \E j \in 1 .. n : p[j] = b
  <2> DEFINE m == n + 1
             q == [i \in 1 .. m |-> IF i = 1 THEN b ELSE p[i - 1]]
  <2>1. \A i \in 1 .. m : i # 1 => i - 1 \in 1 .. n
    BY <1>2
  <2>2. q \in [1 .. m -> Blocks] /\ m \in Nat
    BY <1>2, <2>1
  <2>3. q[1] = b /\ \A i \in 2 .. m : q[i] = p[i - 1] /\ i - 1 \in 1 .. n
    BY <1>2
  <2>4. IsLivePath(q, m, v, b)
    <3>1. q[m] = p[n]
      BY <1>2, <2>3
    <3>2. ASSUME NEW k \in 1 .. m - 1 PROVE q[k + 1] \in succ[q[k]] /\ v \notin kill[q[k]]
      <4>1. CASE k = 1
        <5>1. q[k] = b /\ q[k + 1] = p[1]
          BY <1>2, <2>3, <4>1
        <5>2. p[1] = s
          BY <1>1 DEF IsLivePath
        <5>3. QED
          BY <5>1, <5>2
      <4>2. CASE k # 1
        <5>1. k \in 2 .. m /\ k + 1 \in 2 .. m /\ k - 1 \in 1 .. n - 1 /\ (k - 1) + 1 = k
              /\ (k + 1) - 1 = k
          BY <1>2, <4>2
        <5>2. q[k] = p[k - 1] /\ q[k + 1] = p[(k - 1) + 1]
          BY <2>3, <5>1
        <5>3. p[(k - 1) + 1] \in succ[p[k - 1]] /\ v \notin kill[p[k - 1]]
          BY <1>1, <5>1 DEF IsLivePath
        <5>4. QED
          BY <5>2, <5>3
      <4>3. QED
        BY <4>1, <4>2
    <3>3. QED
      BY <1>1, <2>3, <3>1, <3>2 DEF IsLivePath
  <2>5. \A i, k \in 1 .. m : q[i] = q[k] => i = k
    <3> SUFFICES ASSUME NEW i \in 1 .. m, NEW k \in 1 .. m, q[i] = q[k] PROVE i = k
      OBVIOUS
    <3>1. \A x \in 2 .. m : q[x] # b
      BY <1>4, <2>3
    <3>2. CASE i = 1 \/ k = 1
      <4> HIDE DEF q
      <4>1. q[1] = b /\ q[i] = q[k]
        BY <2>3
      <4>2. i \in 2 .. m \/ i = 1
        BY <1>2
      <4>3. k \in 2 .. m \/ k = 1
        BY <1>2
      <4> HIDE DEF m
      <4>4. QED
        BY <3>1, <3>2, <4>1, <4>2, <4>3
    <3>3. CASE i # 1 /\ k # 1
      <4>1. i \in 2 .. m /\ k \in 2 .. m
        BY <1>2, <3>3
      <4>2. p[i - 1] = p[k - 1] /\ i - 1 \in 1 .. n /\ k - 1 \in 1 .. n
        BY <2>3, <4>1
      <4>3. i - 1 = k - 1
        BY <1>1, <4>2
      <4>4. QED
        BY <4>1, <4>3
    <3>4. QED
      BY <3>2, <3>3
  <2> HIDE DEF q
  <2>6. m \in 1 .. BlockCount
    <3>1. m <= BlockCount
      <4>1. q \in [1 .. m -> Blocks] /\ m \in Nat
        BY <2>2
      <4>2. \A i, k \in 1 .. m : q[i] = q[k] => i = k
        BY <2>5
      <4> HIDE DEF m
      <4>3. QED
        BY <4>1, <4>2, NoMoreThanBlocks
    <3>2. QED
      BY <1>2, <3>1
  <2> HIDE DEF m
  <2>7. QED
    BY <1>2, <2>2, <2>4, <2>5, <2>6 DEF OnSimplePath
<1>5. QED
  BY <1>3, <1>4

(* So the simple paths admit flow, and live_in stays below them.           *)
LEMMA LiveInIsOnPath ==
  ASSUME IterationInv, NEW b \in Blocks, NEW v \in liveIn[b]
  PROVE  LiveOnPath(v, b)
<1> DEFINE Y == [c \in Blocks |-> OnSimplePath(c)]
<1>1. TypeOK
  BY DEF IterationInv
<1>2. Y \in Sets
  BY DEF Sets, OnSimplePath
<1>3. ASSUME NEW c \in Blocks PROVE gen[c] \subseteq Y[c]
  <2> SUFFICES ASSUME NEW w \in gen[c] PROVE w \in OnSimplePath(c)
    BY <1>3
  <2> DEFINE p == [i \in 1 .. 1 |-> c]
  <2>1. w \in Vars /\ 1 \in 1 .. BlockCount
    BY <1>1, BlockCountAssumption DEF TypeOK, Sets, Blocks
  <2>2. p \in [1 .. 1 -> Blocks] /\ p[1] = c
    OBVIOUS
  <2>3. \A i, j \in 1 .. 1 : p[i] = p[j] => i = j
    OBVIOUS
  <2> HIDE DEF p
  <2>4. IsLivePath(p, 1, w, c)
    BY <2>2 DEF IsLivePath
  <2>5. QED
    BY <2>1, <2>2, <2>3, <2>4 DEF OnSimplePath
<1>4. ASSUME NEW c \in Blocks, NEW s \in succ[c] PROVE Y[s] \ kill[c] \subseteq Y[c]
  <2>1. s \in Blocks
    BY <1>1, <1>4 DEF TypeOK
  <2>2. \A w \in OnSimplePath(s) : w \notin kill[c] => w \in OnSimplePath(c)
    BY <1>1, <1>4, SimplePathExtends
  <2>3. QED
    BY <2>1, <2>2
<1>5. Abs!AdmitsFlow(Y, succ, gen, kill)
  BY <1>3, <1>4 DEF Abs!AdmitsFlow
<1>6. v \in Y[b]
  BY <1>2, <1>5 DEF IterationInv, BelowEveryAdmissible
<1>7. \E n \in 1 .. BlockCount : \E p \in [1 .. n -> Blocks] : IsLivePath(p, n, v, b)
  BY <1>6 DEF OnSimplePath
<1>8. QED
  BY <1>7 DEF LiveOnPath, IsLivePath

(* When the sweeps have settled, liveness has come back along every path:  *)
(* the last block of a path where it is missing could not be one.          *)
LEMMA PathIsLiveIn ==
  ASSUME IterationInv, phase = "done", NEW b \in Blocks, NEW v \in Vars, LiveOnPath(v, b)
  PROVE  v \in liveIn[b]
<1>1. /\ \A c \in Blocks : liveOut[c] = UNION {liveIn[s] : s \in succ[c]}
      /\ \A c \in Blocks : liveIn[c] = gen[c] \cup (liveOut[c] \ kill[c])
  BY SettledEquations DEF EquationsHold
<1>0. PICK n \in 1 .. BlockCount : \E p \in [1 .. n -> Blocks] : IsLivePath(p, n, v, b)
  BY DEF LiveOnPath, IsLivePath
<1>2. PICK p \in [1 .. n -> Blocks] : IsLivePath(p, n, v, b)
  BY <1>0
<1>3. n \in Nat \ {0}
  BY BlockCountAssumption
<1> DEFINE missing == {k \in 1 .. n : v \notin liveIn[p[k]]}
           fromEnd == {n - k : k \in missing}
<1>4. ASSUME missing # {} PROVE FALSE
  <2>1. fromEnd \in SUBSET Nat /\ fromEnd # {}
    BY <1>3, <1>4
  <2>2. PICK e \in fromEnd : \A x \in fromEnd : e <= x
    BY <2>1, LeastNatural
  <2>3. PICK k \in missing : e = n - k
    BY <2>2
  <2>4. k \in 1 .. n /\ p[k] \in Blocks /\ v \notin liveIn[p[k]]
    BY <2>3
  <2>5. k # n
    <3>1. v \in gen[p[n]]
      BY <1>2 DEF IsLivePath
    <3>2. QED
      BY <1>1, <2>4, <3>1
  <2>6. k + 1 \in 1 .. n /\ k \in 1 .. n - 1 /\ n - (k + 1) < n - k
    BY <1>3, <2>4, <2>5
  <2>7. k + 1 \notin missing
    <3> SUFFICES ASSUME k + 1 \in missing PROVE FALSE
      OBVIOUS
    <3>1. n - (k + 1) \in fromEnd
      OBVIOUS
    <3>2. n - k <= n - (k + 1)
      BY <2>2, <2>3, <3>1
    <3>3. QED
      BY <1>3, <2>4, <2>6, <3>2
  <2>8. v \in liveIn[p[k + 1]] /\ p[k + 1] \in succ[p[k]] /\ v \notin kill[p[k]]
    BY <1>2, <2>6, <2>7 DEF IsLivePath
  <2>9. QED
    BY <1>1, <2>4, <2>8
<1>5. 1 \in 1 .. n /\ 1 \notin missing /\ p[1] = b
  BY <1>2, <1>3, <1>4 DEF IsLivePath
<1>6. QED
  BY <1>5

(* A variable is reported live at the entry of a block only if a path      *)
(* leads from there to a use before any new definition, and when the       *)
(* analysis returns, exactly then.                                         *)
THEOREM LivenessIsExact == Spec => []LiveIffOnPath
<1>1. IterationInv => LiveIffOnPath
  BY LiveInIsOnPath, PathIsLiveIn DEF LiveIffOnPath
<1>2. QED
  BY <1>1, IterationCorrect, PTL
=============================================================================
