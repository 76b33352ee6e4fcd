------------------------------ MODULE ConstProp -----------------------------
(***************************************************************************)
(* Constant propagation, src/src/graph/visitors/constant_propagation.c:    *)
(* a worklist of blocks and one of definitions, both emptied from their    *)
(* ends, blocks first.  A step takes an entry off a worklist or visits one *)
(* instruction it led to.  A folded number is the term that computes it.   *)
(* An operation on a constant that is no number ends the program.          *)
(***************************************************************************)
EXTENDS Il

CONSTANT Numbers       \* the literals that are numbers; the others are nil, booleans, tables ...

VARIABLES graph,
          known,       \* constant_value of every definition, or Unknown
          blocks,      \* block_worklist
          defs,        \* worklist
          visiting,    \* the instructions that the entry taken last leads to
          reachable

propagateVars == <<graph, known, blocks, defs, visiting, reachable>>

Unknown == <<"unknown">>
Literal(value) == <<"literal", value>>
NoConstant == {Unknown, Literal("nil")}

-----------------------------------------------------------------------------
(* Plausible slips in the code below, each used to test a property.        *)
FoldsWithOneConstant(instr) ==
  \E k \in DOMAIN instr.inputs : known[instr.inputs[k]] \notin NoConstant
LastIsLeft == defs' = defs
-----------------------------------------------------------------------------

PropagateStarts ==
  /\ known' = [d \in DOMAIN graph.code |-> Unknown]
  /\ blocks' = <<"entry">>
  /\ defs' = <<>> /\ visiting' = <<>> /\ reachable' = {}
  /\ UNCHANGED graph

(* cp_visit_graph_entry: its definitions are visited, its successor is     *)
(* worked on next.                                                         *)
TakeEntry ==
  /\ visiting = <<>> /\ blocks # <<>> /\ Last(blocks) = "entry"
  /\ visiting' = graph.pool
  /\ blocks' = IF "target" \in reachable THEN Front(blocks) ELSE Append(Front(blocks), "target")
  /\ reachable' = reachable \cup {"target"}
  /\ UNCHANGED <<graph, known, defs>>

(* cp_visit_target_entry: the instructions of the block.                   *)
TakeTarget ==
  /\ visiting = <<>> /\ blocks # <<>> /\ Last(blocks) = "target"
  /\ visiting' = graph.chain
  /\ blocks' = Front(blocks)
  /\ UNCHANGED <<graph, known, defs, reachable>>

(* def_worklist_del_last.                                                  *)
LastTaken == defs' = Front(defs)

(* No block is left: the users of the last definition.                     *)
TakeDefinition ==
  /\ visiting = <<>> /\ blocks = <<>> /\ defs # <<>>
  /\ LET uses == graph.code[Last(defs)].uses
     IN  visiting' = [p \in DOMAIN uses |-> uses[p][1]]
  /\ LastTaken
  /\ UNCHANGED <<graph, known, blocks, reachable>>

-----------------------------------------------------------------------------
(* def_worklist_contains: a bit per ssa index.                             *)
InWorklist(d) == \E p \in DOMAIN defs : graph.code[defs[p]].ssa = graph.code[d].ssa

(* set_value, with def_worklist_add.                                       *)
SetValue(d, value) ==
  /\ known' = [known EXCEPT ![d] = value]
  /\ defs' = IF graph.code[d].uses = <<>> \/ InWorklist(d) THEN defs ELSE Append(defs, d)

(* is_constant of both operands.                                           *)
Folds(instr) == \A k \in DOMAIN instr.inputs : known[instr.inputs[k]] \notin NoConstant

Visit(Effect(_, _)) ==
  /\ visiting # <<>>
  /\ Effect(Head(visiting), graph.code[Head(visiting)])
  /\ visiting' = Tail(visiting)
  /\ UNCHANGED <<graph, blocks, reachable>>

(* cp_visit_constant.                                                      *)
VisitConstant ==
  Visit(LAMBDA i, instr : instr.tag = "constant" /\ SetValue(i, Literal(instr.data)))

(* TYPE_GUARD, for both operands; what is folded is a number.              *)
IsNumber(value) == value[1] = "literal" => value[2] \in Numbers
AreNumbers(instr) == \A k \in DOMAIN instr.inputs : IsNumber(known[instr.inputs[k]])

(* cp_visit_binary_op; its guards call abort.                              *)
VisitBinaryOp ==
  Visit(LAMBDA i, instr :
    /\ instr.tag = "binary" /\ (Folds(instr) => AreNumbers(instr))
    /\ IF Folds(instr)
       THEN SetValue(i, <<instr.data, known[instr.inputs[1]], known[instr.inputs[2]]>>)
       ELSE UNCHANGED <<known, defs>>)

VisitAborts ==
  /\ visiting # <<>>
  /\ LET instr == graph.code[Head(visiting)]
     IN  instr.tag = "binary" /\ Folds(instr) /\ ~AreNumbers(instr)

(* cp_visit_return does nothing, and conversions accept no visitor.        *)
VisitOther ==
  Visit(LAMBDA i, instr : instr.tag \in {"return", "box", "unbox"} /\ UNCHANGED <<known, defs>>)

PropagateNext ==
  \/ TakeEntry \/ TakeTarget \/ TakeDefinition
  \/ VisitConstant \/ VisitBinaryOp \/ VisitOther
=============================================================================
