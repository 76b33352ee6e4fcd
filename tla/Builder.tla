------------------------------ MODULE Builder -------------------------------
(***************************************************************************)
(* src/src/graph/graph_builder.c: two visitors, one for effects and one    *)
(* for values, turn a syntax tree into a fragment of linked instructions,  *)
(* numbering the temporaries as the stack slots they would be.             *)
(*                                                                         *)
(* A visitor is a record.  list is the fragment from entry to exit; open   *)
(* says that exit is not NULL; value is what a value visitor returns.      *)
(* code and temps belong to the graph_builder all visitors share.          *)
(*                                                                         *)
(* The trees are those the visitors accept: a value is asked of a literal, *)
(* a load, a store or an operation, never of a return or a sequence.       *)
(***************************************************************************)
EXTENDS Il

NewVisitor == [code |-> <<>>, temps |-> 0, list |-> <<>>, open |-> TRUE, value |-> NoIndex]

-----------------------------------------------------------------------------
(* A plausible slip in the code below, used to test a property.            *)
BindKeepsTemps(w, instr) ==
  LET n == New(w)
  IN  [w EXCEPT !.code = Append(@, [instr EXCEPT !.temp = w.temps]),
                !.temps = @ + 1, !.list = Append(@, n), !.value = n]
-----------------------------------------------------------------------------

Fresh(w) == [w EXCEPT !.list = <<>>, !.open = TRUE, !.value = NoIndex]

Emitted(w, instr, temps) ==
  [w EXCEPT !.code = Append(@, instr), !.temps = temps, !.list = Append(@, New(w))]

(* evis_add_instruction and evis_do: the operands leave the stack.         *)
Do(w, instr) == Emitted(w, instr, w.temps - Len(instr.inputs))

(* evis_bind: the operands leave the stack and the value takes a slot.     *)
Bind(w, instr) ==
  LET slot == w.temps - Len(instr.inputs)
  IN  [Emitted(w, [instr EXCEPT !.temp = slot], slot + 1) EXCEPT !.value = New(w)]

(* evis_append.                                                            *)
Joined(w, sub) ==
  [sub EXCEPT !.list = w.list \o @, !.open = IF sub.list = <<>> THEN w.open ELSE @,
              !.value = w.value]

(* return_definition of the two visitors: as an effect a constant vanishes.*)
Returned(w, instr, asValue) ==
  IF asValue THEN Bind(w, instr)
  ELSE IF instr.tag = "constant" THEN w
  ELSE Do(w, instr)

(* build_load_local: a local with a value of its own is that constant.     *)
BuildLoadLocal(local) ==
  IF local.value = "none" THEN LoadLocal(local) ELSE Constant(local.value)

RECURSIVE Visit(_, _, _), VisitNodes(_, _)

VisitValue(w, node) == Visit(Fresh(w), node, TRUE)

VisitNodes(w, nodes) ==
  IF nodes = <<>> \/ ~w.open THEN w
  ELSE VisitNodes(Joined(w, Visit(Fresh(w), Head(nodes), FALSE)), Tail(nodes))

VisitReturn(w, node) ==
  LET v == VisitValue(w, node.value)
  IN  [Do(Joined(w, v), Return(v.value)) EXCEPT !.open = FALSE]

VisitBinaryOp(w, node, asValue) ==
  LET l == VisitValue(w, node.left)
      r == VisitValue(Joined(w, l), node.right)
  IN  Returned(Joined(Joined(w, l), r), BinaryOp(node.op, l.value, r.value), asValue)

VisitStoreLocal(w, node, asValue) ==
  LET v == VisitValue(w, node.value)
  IN  Returned(Joined(w, v), StoreLocal(node.local, v.value), asValue)

(* visit_ast.                                                              *)
Visit(w, node, asValue) ==
  CASE node.type = "literal"  -> Returned(w, Constant(node.value), asValue)
    [] node.type = "sequence" -> VisitNodes(w, node.nodes)
    [] node.type = "return"   -> VisitReturn(w, node)
    [] node.type = "binary"   -> VisitBinaryOp(w, node, asValue)
    [] node.type = "store"    -> VisitStoreLocal(w, node, asValue)
    [] node.type = "load"     -> IF asValue THEN Returned(w, BuildLoadLocal(node.local), TRUE) ELSE w

(* graph_build.                                                            *)
Build(ast) ==
  LET w == Visit(NewVisitor, ast, FALSE)
  IN  [code |-> w.code, chain |-> w.list, pool |-> <<>>, ssa |-> 0]
=============================================================================
