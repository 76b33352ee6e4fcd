----------------------------- MODULE LiveSplit -----------------------------
(***************************************************************************)
(* What the register allocator may rely on when it builds and splits the   *)
(* live ranges of one virtual register: the positions at which the         *)
(* register lives are shared out, each to exactly one range.  One range    *)
(* grows while it is built; after that a range is only ever cut into       *)
(* ranges that follow one another.                                         *)
(***************************************************************************)
EXTENDS Integers, FiniteSets

VARIABLE pieces       \* the sets of positions that the ranges cover

Precedes(S, T) == \A p \in S, q \in T : p < q

AbsInit == pieces = {}

Gone == pieces \ pieces'
Came == pieces' \ pieces

(* As long as there is one range, it may only grow.                        *)
Grow(gone, came) == /\ pieces = gone /\ Cardinality(gone) <= 1 /\ Cardinality(came) = 1
                    /\ UNION gone \subseteq UNION came

(* A range is cut in two, or in three when it is spilled in the middle.    *)
Cut(gone, came) == /\ Cardinality(gone) = 1 /\ Cardinality(came) \in {2, 3}
                   /\ UNION came = UNION gone /\ {} \notin came
                   /\ \A T, U \in came : T = U \/ Precedes(T, U) \/ Precedes(U, T)

Share == LET gone == Gone
             came == Came
         IN  Cut(gone, came) \/ Grow(gone, came)

AbsSpec == AbsInit /\ [][Share]_pieces
=============================================================================
