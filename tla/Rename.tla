------------------------------- MODULE Rename -------------------------------
(***************************************************************************)
(* SSA renaming, graph_rename and graph_rename_recursive in src/src/graph/ *)
(* graph.c, for the graphs of the builder: an entry and one block without  *)
(* joins.  The environment is a stack of definitions that is pushed and    *)
(* popped as the machine would its operands; every input is pointed at     *)
(* what the stack holds, whatever the builder pointed it at.  Constants    *)
(* move to the entry, stores and loads vanish.                             *)
(*                                                                         *)
(* The slots of the variables are the first words of the buffer that the   *)
(* stack is kept in: they are written, but the size stays 0, and what is   *)
(* pushed goes over them.  The buffer of the block is made for 0 words; a  *)
(* heap whose smallest piece has three gives room for three variables, and *)
(* keeps them when the buffer grows.                                       *)
(***************************************************************************)
EXTENDS InitialSets

CONSTANT StackLocals    \* graph_variable_count

VARIABLES graph, env, at,
          lastLoads     \* the loads that are marked is_last

renameVars == <<graph, env, at, lastLoads>>

-----------------------------------------------------------------------------
(* A plausible slip in the code below, used to test a property.            *)
ReachingInOrderPopped(instr) == [k \in DOMAIN instr.inputs |-> env.data[env.size - k + 1]]
-----------------------------------------------------------------------------

(* The three nulls of graph_rename and of its two blocks.                  *)
NullsMade(g) == GetConstant(GetConstant(GetConstant(g, "nil"), "nil"), "nil")
BlocksNull(g) == g.pool[3]

(* The variable analysis, which finds no variable live into the block, so  *)
(* that every slot starts as the block's null.                             *)
RenameBegins(built) ==
  /\ graph = NullsMade(built)
  /\ env = [data |-> [v \in 1 .. StackLocals |-> BlocksNull(NullsMade(built))], size |-> 0]
  /\ at = First(graph)
  /\ lastLoads = VariableSets(built).last

(* The definitions that reach the inputs: the last one is popped first.    *)
Reaching(instr) == [k \in DOMAIN instr.inputs |-> env.data[env.size - Len(instr.inputs) + k]]

(* The inputs of i are pointed at what reaches them and join its uses.     *)
InputsRenamed(i) ==
  LET reaching == Reaching(graph.code[i])
      pointed  == [graph EXCEPT !.code[i].inputs = reaching]
  IN  FoldRightDomain(LAMBDA k, g : AddUse(g, reaching[k], <<i, k>>), reaching, pointed)

Popped(i) == [env EXCEPT !.size = @ - InputCount(graph, i)]

(* buffer_add: the word behind the last, whatever it holds.                *)
Pushed(i, stack, d) ==
  IF graph.code[i].temp < 0 THEN stack
  ELSE [data |-> SubSeq(stack.data, 1, stack.size) \o <<d>>
                   \o SubSeq(stack.data, stack.size + 2, Len(stack.data)),
        size |-> stack.size + 1]

(* A store is its input, and is taken out.                                 *)
AfterStore(g, i, popped) ==
  [graph |-> RemoveFromGraph(g, i), env |-> Pushed(i, popped, g.code[i].inputs[1])]

(* A load is what is in the slot, which the last load of a variable leaves *)
(* empty.                                                                  *)
AfterLoad(g, i, popped) ==
  LET slot == g.code[i].data.bit + 1
      left == IF i \in lastLoads THEN [popped EXCEPT !.data[slot] = BlocksNull(g)] ELSE popped
  IN  [graph |-> RemoveFromGraph(g, i), env |-> Pushed(i, left, popped.data[slot])]

(* A constant is taken out in favour of one of the entry.                  *)
AfterConstant(g, i, popped) ==
  [graph |-> RemoveFromGraph(GetConstant(g, g.code[i].data), i), env |-> Pushed(i, popped, New(g))]

(* Whatever else leaves a value stays, and gets an index.                  *)
AfterOther(g, i, popped) ==
  [graph |-> IF g.code[i].temp >= 0 THEN AllocSsaIndex(g, i) ELSE g,
   env |-> Pushed(i, popped, i)]

RenameStep(tags, AfterIt(_, _, _)) ==
  /\ at # NoIndex
  /\ graph.code[at].tag \in tags
  /\ LET next == AfterIt(InputsRenamed(at), at, Popped(at))
     IN  graph' = next.graph /\ env' = next.env
  /\ at' = After(graph, at)
  /\ UNCHANGED lastLoads

RenameStore    == RenameStep({"store"}, AfterStore)
RenameLoad     == RenameStep({"load"}, AfterLoad)
RenameConstant == RenameStep({"constant"}, AfterConstant)
RenameOther    == RenameStep({"binary", "return"}, AfterOther)

RenameNext == RenameStore \/ RenameLoad \/ RenameConstant \/ RenameOther
=============================================================================
