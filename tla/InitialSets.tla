----------------------------- MODULE InitialSets ----------------------------
(***************************************************************************)
(* The callbacks with which the two liveness analyses start, for functions *)
(* of an entry and one block: ssa_liveness_compute_initial_sets (src/src/  *)
(* codegen/ra_ssa_liveness.c) for the register allocator, over SSA         *)
(* indices, and var_analysis_compute_initial_sets (ra_var_liveness.c) for  *)
(* renaming, over the bits of variables.  BitVector says how a vector      *)
(* holds such a set.                                                       *)
(***************************************************************************)
EXTENDS Il

NoSets == [kill |-> {}, liveIn |-> {}]
IndicesOf(g, definitions) == {g.code[d].ssa : d \in definitions}

(* One instruction on the way back to the start of the block.  Every one   *)
(* is a definition, the return too: they are all made with defn_init.  A   *)
(* value without an index is not entered; the inputs are entered after the *)
(* definition is taken out.                                                *)
SetsBefore(g, i, sets) ==
  LET own    == {g.code[i].ssa} \ {NoIndex}
      inputs == IndicesOf(g, ToSet(g.code[i].inputs))
  IN  [kill |-> sets.kill \cup own, liveIn |-> (sets.liveIn \ own) \cup inputs]

-----------------------------------------------------------------------------
(* A plausible slip, used to test a property: the block walked forwards.   *)
SetsFromTheFront(g) == FoldLeft(LAMBDA sets, i : SetsBefore(g, i, sets), NoSets, g.chain)
-----------------------------------------------------------------------------
TargetSets(g) == FoldRight(LAMBDA i, sets : SetsBefore(g, i, sets), g.chain, NoSets)

(* The entry has no instructions; its initial definitions are its own.     *)
EntrySets(g) == [kill |-> IndicesOf(g, ToSet(g.pool)), liveIn |-> {}]

-----------------------------------------------------------------------------
(* The analysis of variables.  Instead of entering the bit of a load in    *)
(* the set of the block, the code pushes it on the buffer of all sets,     *)
(* whose size it takes for the number of variables: at first that of the   *)
(* blocks.  So nothing is ever live into a block, killed and live out of   *)
(* it, or in need of a phi.  The marks of stores are read nowhere.         *)
BlockCount == 2
NoVariables == [kill |-> {}, liveIn |-> {}, size |-> BlockCount, loaded |-> {}, last |-> {}]

VariablesBefore(g, i, sets) ==
  LET bit == g.code[i].data.bit
  IN  CASE g.code[i].tag = "load" /\ bit < sets.size ->
             [sets EXCEPT !.size = @ + 1, !.loaded = @ \cup {bit},
                          !.last = IF bit \in sets.loaded THEN @ ELSE @ \cup {i}]
        [] g.code[i].tag = "store" /\ bit < sets.size ->
             [sets EXCEPT !.kill = @ \cup {bit}, !.liveIn = @ \ {bit}]
        [] OTHER -> sets

VariableSets(g) == FoldRight(LAMBDA i, sets : VariablesBefore(g, i, sets), g.chain, NoVariables)
=============================================================================
