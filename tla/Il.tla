--------------------------------- MODULE Il ---------------------------------
(***************************************************************************)
(* The intermediate language between the passes: the instructions of a     *)
(* function, the order they are linked in, the definitions of its entry    *)
(* and the uses of every definition (src/include/mun/codegen/il_core.h,    *)
(* src/src/codegen/il_core.c, il_defs.c and graph/graph.h).  The function  *)
(* has one block, as every function of the builder has.                    *)
(*                                                                         *)
(* A graph is a record.  code holds every instruction ever made, and an    *)
(* instruction is named by its place there; chain is the linked list of    *)
(* the block; pool is initial_definitions; ssa is current_ssa_temp_index.  *)
(* An il_value is named by the instruction it belongs to and its index,    *)
(* and inputs holds what its defn points at.  The links between the values *)
(* in a list of uses are UseList's; here a list of uses is a sequence.     *)
(***************************************************************************)
EXTENDS Integers, SequencesExt

NoIndex == -1

Instr(tag, inputs, data) ==
  [tag |-> tag, inputs |-> inputs, data |-> data,
   temp |-> NoIndex, ssa |-> NoIndex, uses |-> <<>>]

Constant(value)     == Instr("constant", <<>>, value)
BinaryOp(op, l, r)  == Instr("binary", <<l, r>>, op)
LoadLocal(local)    == Instr("load", <<>>, local)
StoreLocal(local, v) == Instr("store", <<v>>, local)
Return(v)           == Instr("return", <<v>>, "none")
Box(v)              == Instr("box", <<v>>, "none")
Unbox(v)            == Instr("unbox", <<v>>, "none")

New(g) == Len(g.code) + 1        \* the next instruction to be allocated
InputCount(g, i) == Len(g.code[i].inputs)

-----------------------------------------------------------------------------
(* What an instruction makes of its value, and what it wants of an input.  *)
(* Only a binary operation and an unbox yield an unboxed number; only a    *)
(* binary operation and a box want one.                                    *)
Representation(instr) ==
  IF instr.tag \in {"binary", "unbox"} THEN "unboxed" ELSE "tagged"
InputRepresentation(instr) ==
  IF instr.tag \in {"binary", "box"} THEN "unboxed" ELSE "tagged"

-----------------------------------------------------------------------------
(* graph_get_constant makes a definition of the graph entry each time it   *)
(* is asked; it takes one index, every other definition takes two.         *)
GetConstant(g, value) ==
  [g EXCEPT !.code = Append(@, [Constant(value) EXCEPT !.ssa = g.ssa]),
            !.pool = Append(@, New(g)),
            !.ssa = @ + 1]

AllocSsaIndex(g, d) == [g EXCEPT !.code[d].ssa = g.ssa, !.ssa = @ + 2]

(* defn_add_input_use, and taking a value out of the list it is in.        *)
AddUse(g, d, use)    == [g EXCEPT !.code[d].uses = <<use>> \o @]
RemoveUse(g, d, use) == [g EXCEPT !.code[d].uses = Remove(@, use)]

(* instr_remove_from_graph: unlinked, its inputs are used no more.         *)
RemoveFromGraph(g, i) ==
  LET unused == FoldLeftDomain(LAMBDA h, k : RemoveUse(h, h.code[i].inputs[k], <<i, k>>),
                               g, g.code[i].inputs)
  IN  [unused EXCEPT !.chain = Remove(@, i)]

(* insert_before with a value: the new instruction takes an index, its     *)
(* inputs become uses, and it is linked in front of i.                     *)
InsertBefore(g, instr, i) ==
  LET n     == New(g)
      made  == AllocSsaIndex([g EXCEPT !.code = Append(@, instr)], n)
      place == CHOOSE p \in DOMAIN g.chain : g.chain[p] = i
  IN  AddUse([made EXCEPT !.chain = InsertAt(@, place, n)], instr.inputs[1], <<n, 1>>)

(* value_bind_to.                                                          *)
BindTo(g, use, d) ==
  LET old == g.code[use[1]].inputs[use[2]]
  IN  AddUse([RemoveUse(g, old, use) EXCEPT !.code[use[1]].inputs[use[2]] = d], d, use)

(* it->next, or NoIndex at the end of the block.                           *)
After(g, i) ==
  LET place == CHOOSE p \in DOMAIN g.chain : g.chain[p] = i
  IN  IF place = Len(g.chain) THEN NoIndex ELSE g.chain[place + 1]
First(g) == IF g.chain = <<>> THEN NoIndex ELSE g.chain[1]
=============================================================================
