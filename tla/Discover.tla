------------------------------ MODULE Discover ------------------------------
(***************************************************************************)
(* graph_discover_blocks (src/src/graph/graph.c:341-395) and the block     *)
(* operations it calls (src/src/codegen/il_entries.c): the depth first     *)
(* search that numbers the blocks, and that cp_transform runs once more.   *)
(*                                                                         *)
(* Heap fields that malloc leaves uninitialised start with any value.  The *)
(* DFS stack holds POINTERS to C locals: the first entry points to         *)
(* init_state, every later one to the one variable new_state declared in   *)
(* the loop body, which each iteration reuses.                             *)
(***************************************************************************)
EXTENDS Integers, Sequences, FiniteSets

CONSTANTS GraphEntry, TargetEntry,  \* the two blocks graph_build makes
          Joins,                    \* blocks made by join_entry_new
          NoBlock,                  \* the NULL pointer
          Garbage,                  \* what malloc'ed numbers may hold
          MaxRuns                   \* bound on the calls; the pipeline makes 2

Blocks == {GraphEntry, TargetEntry} \cup Joins
Pointer == Blocks \cup {NoBlock}

ASSUME DiscoverAssumption ==
  /\ GraphEntry # TargetEntry /\ GraphEntry \notin Joins /\ TargetEntry \notin Joins
  /\ NoBlock \notin Blocks
  /\ Garbage \subseteq Int /\ MaxRuns \in Nat

VARIABLES successor,      \* the successor of each block's last instruction, if any
          preorderNum, postorderNum,
          slots,          \* predecessors[0], predecessors[1] and the word after them
          preorder, postorder, reversePostorder, parent,
          stack,          \* block_stack: "init" and "new" are the two C locals
          cell,           \* what the two locals hold
          runs, searching

orders == <<preorder, postorder, reversePostorder, parent>>
vars == <<successor, preorderNum, postorderNum, slots, orders, stack, cell, runs, searching>>

TraversalState == [block : Pointer, next : -1 .. 0]

(* The constructors allow: graph_entry_new(func, target) and goto_new(join).*)
(* Blocks that do not end in a goto have no successor.                     *)
Graphs == {s \in [Blocks -> Pointer] :
             /\ s[GraphEntry] = TargetEntry
             /\ \A b \in Blocks \ {GraphEntry} : s[b] \in Joins \cup {NoBlock}}

(* The third word of a join is its phis pointer, the other words are the   *)
(* predecessors; a target entry has the one predecessor field.             *)
NoSlots == [i \in 0 .. 2 |-> NoBlock]

Init == /\ successor \in Graphs
        /\ preorderNum \in [Blocks -> Garbage]
        /\ postorderNum = preorderNum          \* any garbage would do
        /\ slots = [b \in Blocks |-> NoSlots]
        /\ preorder = <<>> /\ postorder = <<>>
        /\ reversePostorder = <<>> /\ parent = <<>>
        /\ stack = <<>>
        /\ cell = [c \in {"init", "new"} |-> [block |-> NoBlock, next |-> -1]]
        /\ runs = 0 /\ searching = FALSE

-----------------------------------------------------------------------------
(* Plausible slips in the code below, each used to test a property.        *)
IsMarkedTrustsNumber(b) == preorderNum[b] \in 0 .. Len(preorder) - 1
BeginKeepsPreorder ==
  /\ ~searching /\ runs < MaxRuns
  /\ searching' = TRUE
  /\ preorder' = Append(preorder, GraphEntry) /\ parent' = <<-1>>
  /\ postorder' = <<>> /\ reversePostorder' = <<>>
  /\ preorderNum' = [preorderNum EXCEPT ![GraphEntry] = Len(preorder)]
  /\ cell' = [cell EXCEPT !["init"] = [block |-> GraphEntry, next |-> 0]]
  /\ stack' = <<"init">>
  /\ UNCHANGED <<successor, postorderNum, slots, runs>>
LeaveNumbersTooLate ==
  /\ searching /\ stack # <<>> /\ cell[stack[Len(stack)]].next < 0
  /\ stack' = SubSeq(stack, 1, Len(stack) - 1)
  /\ postorder' = Append(postorder, cell[stack[Len(stack)]].block)
  /\ postorderNum' = [postorderNum EXCEPT
                        ![cell[stack[Len(stack)]].block] = Len(postorder')]
  /\ UNCHANGED <<successor, preorderNum, slots, preorder, reversePostorder, parent,
                 cell, runs, searching>>
AdvancedStandsStill == cell
-----------------------------------------------------------------------------
(* instr_successor_count(b->last) *)
SuccessorCount(b) == IF successor[b] = NoBlock THEN 0 ELSE 1

(* is_marked: the number in the block is only believed when the preorder   *)
(* buffer agrees.                                                          *)
IsMarked(b) == /\ preorderNum[b] >= 0
               /\ preorderNum[b] < Len(preorder)
               /\ preorder[preorderNum[b] + 1] = b

(* join_clear_predecessors; target_clear_predecessors has one slot.        *)
Cleared(row) == [row EXCEPT ![0] = NoBlock, ![1] = NoBlock]

(* join_add_predecessor: the index the loop stops at.  The loop looks for  *)
(* pred itself and not for a free slot.                                    *)
JoinIndex(row, pred) ==
  IF row[0] = pred THEN 0 ELSE IF row[1] = pred THEN 1 ELSE 2

Added(b, row, pred) ==
  IF b \in Joins THEN [row EXCEPT ![JoinIndex(row, pred)] = pred]
                 ELSE [row EXCEPT ![0] = pred]

(* The four buffers are cleared, the graph entry is discovered without a   *)
(* predecessor and its traversal state is pushed.                          *)
Begin ==
  /\ ~searching /\ runs < MaxRuns
  /\ searching' = TRUE
  /\ preorder' = <<GraphEntry>> /\ parent' = <<-1>>
  /\ postorder' = <<>> /\ reversePostorder' = <<>>
  /\ preorderNum' = [preorderNum EXCEPT ![GraphEntry] = 0]
  /\ cell' = [cell EXCEPT !["init"] =
                [block |-> GraphEntry, next |-> SuccessorCount(GraphEntry) - 1]]
  /\ stack' = <<"init">>
  /\ UNCHANGED <<successor, postorderNum, slots, runs>>

Top == stack[Len(stack)]
State == cell[Top]

(* state_next_successor: the pointed-to counter goes down.                 *)
Advanced == [cell EXCEPT ![Top] = [block |-> State.block, next |-> State.next - 1]]

(* The parent of a new block is the number of the block it is found from.  *)
ParentNumber(predecessor) == preorderNum[predecessor]

(* block_discover_blocks on a block seen before: one more predecessor.     *)
MeetMarked ==
  /\ searching /\ stack # <<>> /\ State.next >= 0
  /\ LET b == successor[State.block]
     IN  /\ IsMarked(b)
         /\ slots' = [slots EXCEPT ![b] = Added(b, @, State.block)]
  /\ cell' = Advanced
  /\ UNCHANGED <<successor, preorderNum, postorderNum, orders, stack, runs, searching>>

(* block_discover_blocks on a new block; then new_state is filled in and   *)
(* its address pushed.                                                     *)
DiscoverBlock ==
  /\ searching /\ stack # <<>> /\ State.next >= 0
  /\ LET b == successor[State.block]
     IN  /\ ~IsMarked(b)
         /\ slots' = [slots EXCEPT ![b] = Added(b, Cleared(@), State.block)]
         /\ parent' = Append(parent, ParentNumber(State.block))
         /\ preorderNum' = [preorderNum EXCEPT ![b] = Len(preorder)]
         /\ preorder' = Append(preorder, b)
         /\ cell' = [Advanced EXCEPT !["new"] =
                       [block |-> b, next |-> SuccessorCount(b) - 1]]
  /\ stack' = Append(stack, "new")
  /\ UNCHANGED <<successor, postorderNum, postorder, reversePostorder, runs, searching>>

(* A state without successors left is popped and its block numbered.       *)
Leave ==
  /\ searching /\ stack # <<>> /\ State.next < 0
  /\ stack' = SubSeq(stack, 1, Len(stack) - 1)
  /\ postorderNum' = [postorderNum EXCEPT ![State.block] = Len(postorder)]
  /\ postorder' = Append(postorder, State.block)
  /\ UNCHANGED <<successor, preorderNum, slots, preorder, reversePostorder, parent,
                 cell, runs, searching>>

Finish ==
  /\ searching /\ stack = <<>>
  /\ searching' = FALSE /\ runs' = runs + 1
  /\ reversePostorder' = [i \in 1 .. Len(postorder) |-> postorder[Len(postorder) - i + 1]]
  /\ UNCHANGED <<successor, preorderNum, postorderNum, slots, preorder, postorder,
                 parent, stack, cell>>

Next == Begin \/ MeetMarked \/ DiscoverBlock \/ Leave \/ Finish

Spec == Init /\ [][Next]_vars

(* One thread, not preempted; the pipeline does call the function.         *)
FairSpec == Spec /\ WF_vars(Next)

-----------------------------------------------------------------------------
Discovered == {preorder[i] : i \in DOMAIN preorder}
Answered == ~searching /\ runs > 0

(* Every variable keeps its type.                                          *)
TypeOK == /\ successor \in [Blocks -> Pointer]
          /\ preorderNum \in [Blocks -> Int] /\ postorderNum \in [Blocks -> Int]
          /\ slots \in [Blocks -> [0 .. 2 -> Pointer]]
          /\ preorder \in Seq(Blocks) /\ postorder \in Seq(Blocks)
          /\ reversePostorder \in Seq(Blocks) /\ parent \in Seq(Int)
          /\ stack \in Seq({"init", "new"})
          /\ cell \in [{"init", "new"} -> TraversalState]
          /\ runs \in Nat /\ searching \in BOOLEAN

(* The mark is exact although block_entry_init never sets preorder_num     *)
(* and a second run finds the numbers of the first one: a block counts as  *)
(* marked exactly when this run has discovered it.                         *)
MarkIsExact == \A b \in Blocks : IsMarked(b) <=> b \in Discovered

(* No block is listed twice, and each one is numbered with its position.   *)
PreorderNumbersBlocks ==
  \A i \in DOMAIN preorder : preorderNum[preorder[i]] = i - 1

(* What the graph passes rely on: when the search returns, preorder holds  *)
(* exactly the blocks reachable from the entry.                            *)
IsClosed(S) == GraphEntry \in S /\ \A b \in S : successor[b] # NoBlock => successor[b] \in S
Reachable == {b \in Blocks : \A S \in SUBSET Blocks : IsClosed(S) => b \in S}
PreorderIsReachable == Answered => Discovered = Reachable

(* With the two blocks graph_build makes, init_state and new_state do not  *)
(* collide: postorder lists each block once, where its number says, after  *)
(* its successor.                                                          *)
PostorderOfBuiltGraphs ==
  Answered /\ Len(preorder) <= 2 =>
    /\ \A b \in Discovered : /\ postorderNum[b] + 1 \in DOMAIN postorder
                             /\ postorder[postorderNum[b] + 1] = b
    /\ \A b \in Discovered : successor[b] # NoBlock /\ successor[b] # b =>
                               postorderNum[successor[b]] < postorderNum[b]
    /\ reversePostorder[1] = GraphEntry

(* cp_transform runs the search again: the numbers that dominators, bit    *)
(* vectors and worklists were indexed by must come out the same.           *)
RerunKeepsNumbers ==
  [][runs > 0 => \A b \in Reachable : preorderNum'[b] = preorderNum[b]]_vars

(* The search returns on every graph, with or without a loop.              *)
Termination == <>[](runs = MaxRuns /\ ~searching)

(* The inductive invariant behind the proofs.                              *)
(* The stack is init_state below any number of pointers to new_state, and  *)
(* only the top can still have a successor to visit.                       *)
StackShape ==
  /\ \A i \in DOMAIN stack : stack[i] = IF i = 1 THEN "init" ELSE "new"
  /\ stack # <<>> => cell["init"].block = GraphEntry
  /\ Len(stack) > 1 => cell["init"].next = -1
  /\ \A i \in DOMAIN stack : cell[stack[i]].block \in Discovered
  /\ \A i \in DOMAIN stack : cell[stack[i]].next >= 0 =>
                               successor[cell[stack[i]].block] # NoBlock
  /\ ~searching => stack = <<>>

(* A found block whose successor is not found yet is on top, waiting.      *)
OnlyTopIsPending ==
  \A b \in Discovered :
    successor[b] # NoBlock /\ successor[b] \notin Discovered =>
      stack # <<>> /\ State.block = b /\ State.next >= 0

EntryIsFound == searching \/ runs > 0 => GraphEntry \in Discovered

OnlyReachableIsFound ==
  \A S \in SUBSET Blocks : IsClosed(S) => Discovered \subseteq S

SearchInv == /\ TypeOK
             /\ successor \in Graphs
             /\ PreorderNumbersBlocks
             /\ StackShape
             /\ OnlyTopIsPending
             /\ EntryIsFound
             /\ OnlyReachableIsFound

(* The search walks one chain: each found block but the last is followed   *)
(* by its successor, and only the last one's successor is still to visit.  *)
Chained ==
  /\ preorder # <<>> => preorder[1] = GraphEntry
  /\ \A i \in DOMAIN preorder :
       i < Len(preorder) => successor[preorder[i]] = preorder[i + 1]
  /\ stack # <<>> /\ State.next >= 0 => State.block = preorder[Len(preorder)]

(* The numbers one run leaves behind and the next one meets: they tell the *)
(* blocks apart, and go up by one along the chain until it turns back.     *)
NumbersSettled ==
  runs > 0 =>
    /\ preorderNum[GraphEntry] = 0
    /\ \A b \in Reachable : preorderNum[b] >= 0
    /\ \A b, c \in Reachable : preorderNum[b] = preorderNum[c] => b = c
    /\ \A b \in Reachable : successor[b] # NoBlock =>
         preorderNum[successor[b]] <= preorderNum[b] + 1

RerunInv == SearchInv /\ Chained /\ NumbersSettled

(* The stages of a search that finds no more than the two blocks graph_build*)
(* makes: as long as it has found one, and when it has found both.         *)
Both == preorder = <<GraphEntry, TargetEntry>>
OneFound == /\ searching /\ preorder = <<GraphEntry>> /\ stack = <<"init">>
            /\ cell["init"] = [block |-> GraphEntry, next |-> 0] /\ postorder = <<>>
BothFound == /\ searching /\ Both /\ stack = <<"init", "new">> /\ postorder = <<>>
             /\ cell["init"] = [block |-> GraphEntry, next |-> -1]
             /\ cell["new"] = [block |-> TargetEntry, next |-> SuccessorCount(TargetEntry) - 1]
TargetLeft == /\ searching /\ Both /\ stack = <<"init">> /\ postorder = <<TargetEntry>>
              /\ cell["init"] = [block |-> GraphEntry, next |-> -1]
              /\ successor[TargetEntry] = NoBlock /\ postorderNum[TargetEntry] = 0
BothLeft == /\ Both /\ stack = <<>> /\ postorder = <<TargetEntry, GraphEntry>>
            /\ successor[TargetEntry] = NoBlock
            /\ postorderNum[TargetEntry] = 0 /\ postorderNum[GraphEntry] = 1
            /\ ~searching => reversePostorder = <<GraphEntry, TargetEntry>>

StagesOfBuiltGraphs ==
  (searching \/ runs > 0) /\ Len(preorder) <= 2 => OneFound \/ BothFound \/ TargetLeft \/ BothLeft

(* il_entries.h:97 declares the word after predecessors[1] to be the phis  *)
(* of the join, and il_defs.h:106 iterates it as a buffer of phi_instr*.   *)
PhisFieldHoldsNoBlock == \A j \in Joins : slots[j][2] = NoBlock

(* graph.c:363 calls the stack one of block_traversal_states: each pending *)
(* block has its own.                                                      *)
OneStatePerStackEntry ==
  \A i, j \in DOMAIN stack : i # j => cell[stack[i]].block # cell[stack[j]].block
=============================================================================
