--------------------------- MODULE DiscoverProofs ---------------------------
(***************************************************************************)
(* For any number of joins, any graph the constructors allow, any garbage  *)
(* in the heap and any number of runs: marks are exact, the preorder lists *)
(* exactly the blocks that can be reached, another run keeps the numbers,  *)
(* the dominators computed from what it leaves are the dominators, and the *)
(* postorder is right on the graphs the builder makes.                     *)
(***************************************************************************)
EXTENDS Dominators, TLAPS, FiniteSetTheorems, WellFoundedInduction

(* With an injective numbering of the buffer, the mark test is exact.      *)
LEMMA MarkLemma ==
  ASSUME TypeOK, PreorderNumbersBlocks
  PROVE  MarkIsExact
<1> SUFFICES ASSUME NEW b \in Blocks PROVE IsMarked(b) <=> b \in Discovered
  BY DEF MarkIsExact
<1>1. ASSUME IsMarked(b) PROVE b \in Discovered
  <2>1. preorderNum[b] + 1 \in DOMAIN preorder
    BY <1>1 DEF IsMarked, TypeOK
  <2>2. QED
    BY <1>1, <2>1 DEF IsMarked, Discovered
<1>2. ASSUME b \in Discovered PROVE IsMarked(b)
  <2>1. PICK i \in DOMAIN preorder : preorder[i] = b
    BY <1>2 DEF Discovered
  <2>2. preorderNum[b] = i - 1
    BY <2>1 DEF PreorderNumbersBlocks
  <2>3. i \in 1 .. Len(preorder)
    BY <2>1 DEF TypeOK
  <2>4. QED
    BY <2>1, <2>2, <2>3, SMTT(30) DEF IsMarked, TypeOK
<1>3. QED
  BY <1>1, <1>2

(* The block on top of the stack is a found block, its successor a block.  *)
LEMMA TopLemma ==
  ASSUME SearchInv, stack # <<>>
  PROVE  /\ Len(stack) \in Nat \ {0} /\ Len(stack) \in DOMAIN stack
         /\ Top \in {"init", "new"}
         /\ State \in TraversalState
         /\ State.block \in Blocks /\ State.block \in Discovered
         /\ State.next \in Int
         /\ State.next >= 0 => successor[State.block] \in Blocks
<1>1. Len(stack) \in Nat \ {0} /\ Len(stack) \in DOMAIN stack
  BY DEF SearchInv, TypeOK
<1>2. Top \in {"init", "new"}
  BY <1>1 DEF SearchInv, TypeOK, Top
<1>3. State \in TraversalState
  BY <1>2 DEF SearchInv, TypeOK, State
<1>4. State.block \in Discovered
  BY <1>1 DEF SearchInv, StackShape, State, Top
<1>5. State.block \in Blocks
  BY <1>4 DEF SearchInv, TypeOK, Discovered
<1>6. State.next >= 0 => successor[State.block] # NoBlock
  BY <1>1 DEF SearchInv, StackShape, State, Top
<1>7. successor[State.block] \in Pointer
  BY <1>5 DEF SearchInv, TypeOK
<1>8. State.next \in Int
  BY <1>3 DEF TraversalState
<1>9. QED
  BY <1>1, <1>2, <1>3, <1>4, <1>5, <1>6, <1>7, <1>8 DEF Pointer

(* Taking a successor changes the top state's counter only.                *)
LEMMA AdvancedLemma ==
  ASSUME SearchInv, stack # <<>>, State.next >= 0
  PROVE  /\ Advanced \in [{"init", "new"} -> TraversalState]
         /\ Advanced[Top] = [block |-> State.block, next |-> -1]
         /\ \A c \in {"init", "new"} \ {Top} : Advanced[c] = cell[c]
<1>1. State.next = 0
  BY TopLemma DEF TraversalState
<1>2. [block |-> State.block, next |-> -1] \in TraversalState
  BY TopLemma DEF TraversalState, Pointer
<1>3. cell \in [{"init", "new"} -> TraversalState] /\ Top \in {"init", "new"}
  BY TopLemma DEF SearchInv, TypeOK
<1>4. QED
  BY <1>1, <1>2, <1>3 DEF Advanced

(* Adding a predecessor writes a block into one of the three words.        *)
LEMMA AddedType ==
  ASSUME NEW b \in Blocks, NEW row \in [0 .. 2 -> Pointer], NEW pred \in Blocks
  PROVE  /\ Added(b, row, pred) \in [0 .. 2 -> Pointer]
         /\ Added(b, Cleared(row), pred) \in [0 .. 2 -> Pointer]
BY DEF Added, Cleared, JoinIndex, Pointer

(* Every step preserves the types.                                         *)
LEMMA TypeStep ==
  ASSUME SearchInv, [Next]_vars
  PROVE  TypeOK'
<1> USE DEF SearchInv, TypeOK
<1>1. CASE Begin
  <2>1. GraphEntry \in Blocks
    BY DEF Blocks
  <2>2. SuccessorCount(GraphEntry) - 1 \in -1 .. 0
    BY DEF SuccessorCount
  <2>3. cell' \in [{"init", "new"} -> TraversalState]
    BY <1>1, <2>1, <2>2 DEF Begin, TraversalState, Pointer
  <2>4. preorder' \in Seq(Blocks) /\ parent' \in Seq(Int) /\ postorder' \in Seq(Blocks)
        /\ reversePostorder' \in Seq(Blocks) /\ stack' \in Seq({"init", "new"})
    BY <1>1, <2>1 DEF Begin
  <2>5. preorderNum' \in [Blocks -> Int]
    BY <1>1, <2>1 DEF Begin
  <2>6. searching' \in BOOLEAN
    BY <1>1 DEF Begin
  <2>7. QED
    BY <1>1, <2>3, <2>4, <2>5, <2>6 DEF Begin
<1>2. CASE MeetMarked
  <2>1. slots' \in [Blocks -> [0 .. 2 -> Pointer]]
    BY <1>2, TopLemma, AddedType DEF MeetMarked
  <2>2. cell' \in [{"init", "new"} -> TraversalState]
    BY <1>2, AdvancedLemma DEF MeetMarked
  <2>3. QED
    BY <1>2, <2>1, <2>2 DEF MeetMarked, orders
<1>3. CASE DiscoverBlock
  <2> DEFINE b == successor[State.block]
  <2>1. b \in Blocks /\ State.block \in Blocks
    BY <1>3, TopLemma DEF DiscoverBlock
  <2>2. slots' \in [Blocks -> [0 .. 2 -> Pointer]]
    BY <1>3, <2>1, AddedType DEF DiscoverBlock
  <2>3. cell' \in [{"init", "new"} -> TraversalState]
    <3>1. [block |-> b, next |-> SuccessorCount(b) - 1] \in TraversalState
      BY <2>1 DEF TraversalState, SuccessorCount, Pointer
    <3>2. Advanced \in [{"init", "new"} -> TraversalState]
      BY <1>3, AdvancedLemma DEF DiscoverBlock
    <3>3. QED
      BY <1>3, <3>1, <3>2 DEF DiscoverBlock
  <2>4. preorder' \in Seq(Blocks) /\ parent' \in Seq(Int) /\ stack' \in Seq({"init", "new"})
    BY <1>3, <2>1 DEF DiscoverBlock, ParentNumber
  <2>5. preorderNum' \in [Blocks -> Int]
    BY <1>3, <2>1 DEF DiscoverBlock
  <2>6. QED
    BY <1>3, <2>2, <2>3, <2>4, <2>5 DEF DiscoverBlock
<1>4. CASE Leave
  <2>1. State.block \in Blocks
    BY <1>4, TopLemma DEF Leave
  <2>2. postorder' \in Seq(Blocks) /\ stack' \in Seq({"init", "new"})
    BY <1>4, <2>1, TopLemma DEF Leave
  <2>3. postorderNum' \in [Blocks -> Int]
    BY <1>4, <2>1 DEF Leave
  <2>4. QED
    BY <1>4, <2>2, <2>3 DEF Leave
<1>5. CASE Finish
  <2>1. reversePostorder' \in Seq(Blocks)
    BY <1>5 DEF Finish
  <2>2. searching' \in BOOLEAN
    BY <1>5 DEF Finish
  <2>3. runs' \in Nat
    BY <1>5 DEF Finish
  <2>4. QED
    BY <1>5, <2>1, <2>2, <2>3 DEF Finish
<1>6. CASE UNCHANGED vars
  BY <1>6 DEF vars, orders
<1>7. QED
  BY <1>1, <1>2, <1>3, <1>4, <1>5, <1>6 DEF Next

-----------------------------------------------------------------------------
(* What a DiscoverBlock step does to the buffers.                          *)
LEMMA DiscoverLemma ==
  ASSUME SearchInv, DiscoverBlock, NEW b, b = successor[State.block]
  PROVE  /\ stack # <<>> /\ State.next >= 0
         /\ b \in Blocks /\ b \notin Discovered
         /\ preorder' = Append(preorder, b)
         /\ Discovered' = Discovered \cup {b}
         /\ preorderNum' = [preorderNum EXCEPT ![b] = Len(preorder)]
         /\ cell'["new"] = [block |-> b, next |-> SuccessorCount(b) - 1]
         /\ cell'["init"] = Advanced["init"]
         /\ stack' = Append(stack, "new")
<1>1. stack # <<>> /\ State.next >= 0 /\ ~IsMarked(b)
  BY DEF DiscoverBlock
<1>2. b \in Blocks
  BY <1>1, TopLemma
<1>3. b \notin Discovered
  BY <1>1, <1>2, MarkLemma DEF SearchInv, MarkIsExact
<1>4. preorder' = Append(preorder, b) /\ preorder \in Seq(Blocks)
  BY DEF DiscoverBlock, SearchInv, TypeOK
<1>5. Discovered' = Discovered \cup {b}
  BY <1>2, <1>4 DEF Discovered
<1>6. cell'["new"] = [block |-> b, next |-> SuccessorCount(b) - 1]
      /\ cell'["init"] = Advanced["init"]
  BY <1>1, AdvancedLemma DEF DiscoverBlock
<1>7. QED
  BY <1>1, <1>2, <1>3, <1>4, <1>5, <1>6 DEF DiscoverBlock

(* Positions and numbers keep agreeing.                                    *)
LEMMA NumbersStep ==
  ASSUME SearchInv, [Next]_vars
  PROVE  PreorderNumbersBlocks'
<1>1. CASE Begin
  <2>1. preorder' = <<GraphEntry>> /\ preorderNum'[GraphEntry] = 0
    BY <1>1 DEF Begin, SearchInv, TypeOK, Blocks
  <2>2. QED
    BY <2>1 DEF PreorderNumbersBlocks
<1>2. CASE DiscoverBlock
  <2> DEFINE b == successor[State.block]
  <2>1. preorder \in Seq(Blocks) /\ preorderNum \in [Blocks -> Int]
    BY DEF SearchInv, TypeOK
  <2>2. /\ b \in Blocks /\ b \notin Discovered
        /\ preorder' = Append(preorder, b)
        /\ preorderNum' = [preorderNum EXCEPT ![b] = Len(preorder)]
    BY <1>2, DiscoverLemma
  <2> SUFFICES ASSUME NEW i \in DOMAIN preorder'
               PROVE  preorderNum'[preorder'[i]] = i - 1
    BY DEF PreorderNumbersBlocks
  <2>3. CASE i = Len(preorder) + 1
    BY <2>1, <2>2, <2>3
  <2>4. CASE i # Len(preorder) + 1
    <3>1. i \in DOMAIN preorder /\ preorder'[i] = preorder[i] /\ preorder[i] \in Blocks
      BY <2>1, <2>2, <2>4
    <3>2. preorder[i] # b
      BY <2>2, <3>1 DEF Discovered
    <3>3. preorderNum[preorder[i]] = i - 1
      BY <3>1 DEF SearchInv, PreorderNumbersBlocks
    <3>4. QED
      BY <2>1, <2>2, <3>1, <3>2, <3>3
  <2>5. QED
    BY <2>3, <2>4
<1>3. CASE MeetMarked \/ Leave \/ Finish \/ UNCHANGED vars
  BY <1>3 DEF MeetMarked, Leave, Finish, vars, orders, SearchInv, PreorderNumbersBlocks
<1>4. QED
  BY <1>1, <1>2, <1>3 DEF Next

(* The stack keeps its shape.                                              *)
LEMMA ShapeStep ==
  ASSUME SearchInv, [Next]_vars
  PROVE  StackShape'
<1>1. CASE Begin
  <2>1. /\ stack' = <<"init">> /\ preorder' = <<GraphEntry>> /\ searching'
        /\ successor' = successor
    BY <1>1 DEF Begin
  <2>2. cell'["init"].block = GraphEntry
    BY <1>1 DEF Begin, SearchInv, TypeOK
  <2>3. successor[GraphEntry] # NoBlock
    BY DiscoverAssumption DEF SearchInv, Graphs, Blocks
  <2>4. GraphEntry \in Discovered'
    BY <2>1 DEF Discovered
  <2>5. DOMAIN stack' = {1} /\ stack'[1] = "init" /\ Len(stack') = 1 /\ stack' # <<>>
    BY <2>1
  <2>6. QED
    BY <2>1, <2>2, <2>3, <2>4, <2>5 DEF StackShape
<1>2. CASE MeetMarked
  <2>1. /\ stack # <<>> /\ State.next >= 0 /\ cell' = Advanced
        /\ UNCHANGED <<stack, preorder, successor, searching>>
    BY <1>2 DEF MeetMarked, orders
  <2>2. \A c \in {"init", "new"} : /\ cell'[c].block = cell[c].block
                                   /\ cell'[c].next = cell[c].next \/ cell'[c].next = -1
    BY <2>1, AdvancedLemma, TopLemma DEF State
  <2>3. StackShape /\ stack \in Seq({"init", "new"})
    BY DEF SearchInv, TypeOK
  <2>4. \A i \in DOMAIN stack : stack[i] \in {"init", "new"}
    BY <2>3
  <2>5. Discovered' = Discovered
    BY <2>1 DEF Discovered
  <2>6. ~searching' => stack' = <<>>
    BY <2>1, <2>3 DEF StackShape
  <2>7. Len(stack') > 1 => cell'["init"].next = -1
    BY <2>1, <2>2, <2>3 DEF StackShape
  <2>8. \A i \in DOMAIN stack : cell'[stack[i]].next >= 0 => cell[stack[i]].next >= 0
    BY <2>2, <2>4
  <2>9. QED
    BY <2>1, <2>2, <2>3, <2>4, <2>5, <2>6, <2>7, <2>8 DEF StackShape
<1>3. CASE DiscoverBlock
  <2> DEFINE b == successor[State.block]
  <2>1. /\ stack # <<>> /\ State.next >= 0 /\ stack' = Append(stack, "new")
        /\ Discovered' = Discovered \cup {b} /\ b \in Blocks
        /\ cell'["new"] = [block |-> b, next |-> SuccessorCount(b) - 1]
        /\ cell'["init"] = Advanced["init"]
    BY <1>3, DiscoverLemma
  <2>2. StackShape /\ stack \in Seq({"init", "new"})
    BY DEF SearchInv, TypeOK
  <2>3. cell["init"].block = GraphEntry /\ cell'["init"].block = GraphEntry
    BY <2>1, <2>2, AdvancedLemma DEF StackShape, State
  <2>4. cell'["init"].next = -1
    <3>1. CASE Len(stack) > 1
      BY <2>1, <2>2, <3>1, AdvancedLemma DEF StackShape
    <3>2. CASE Len(stack) = 1
      <4>1. Len(stack) \in Nat \ {0} /\ Len(stack) \in DOMAIN stack
        BY <2>1, TopLemma
      <4>3. stack[Len(stack)] = IF Len(stack) = 1 THEN "init" ELSE "new"
        BY <2>2, <4>1 DEF StackShape
      <4>4. Top = "init"
        BY <3>2, <4>3 DEF Top
      <4>5. QED
        BY <2>1, <4>4, AdvancedLemma
    <3>3. Len(stack) \in Nat \ {0}
      BY <2>1, TopLemma
    <3>4. QED
      BY <3>1, <3>2, <3>3
  <2>5. \A i \in DOMAIN stack' : stack'[i] = IF i = 1 THEN "init" ELSE "new"
    <3>1. DOMAIN stack' = 1 .. Len(stack) + 1 /\ Len(stack) \in Nat \ {0}
      BY <2>1, <2>2, TopLemma
    <3>2. QED
      BY <2>1, <2>2, <3>1 DEF StackShape
  <2>6. cell'["new"].block \in Discovered' /\ cell'["init"].block \in Discovered'
    <3>1. GraphEntry \in Discovered
      BY <2>1, <2>2, <2>3, TopLemma DEF StackShape
    <3>2. QED
      BY <2>1, <2>3, <3>1
  <2>7. successor' = successor /\ searching' = searching /\ searching
    BY <1>3 DEF DiscoverBlock
  <2>8. cell'["new"].next >= 0 => successor[b] # NoBlock
    BY <2>1 DEF SuccessorCount
  <2>9. QED
    BY <2>1, <2>3, <2>4, <2>5, <2>6, <2>7, <2>8 DEF StackShape
<1>4. CASE Leave
  <2>1. /\ stack # <<>> /\ stack' = SubSeq(stack, 1, Len(stack) - 1)
        /\ UNCHANGED <<preorder, successor, searching, cell>> /\ searching
    BY <1>4 DEF Leave
  <2>2. StackShape /\ stack \in Seq({"init", "new"})
    BY DEF SearchInv, TypeOK
  <2>3. /\ DOMAIN stack' \subseteq DOMAIN stack
        /\ \A i \in DOMAIN stack' : stack'[i] = stack[i]
        /\ Len(stack') > 1 => Len(stack) > 1
    BY <2>1, <2>2, TopLemma
  <2>4. Discovered' = Discovered
    BY <2>1 DEF Discovered
  <2>5. QED
    BY <2>1, <2>2, <2>3, <2>4 DEF StackShape
<1>5. CASE Finish \/ UNCHANGED vars
  BY <1>5 DEF Finish, vars, orders, SearchInv, StackShape, Discovered
<1>6. QED
  BY <1>1, <1>2, <1>3, <1>4, <1>5 DEF Next

(* A block whose successor is still missing can only be the one on top.    *)
LEMMA PendingStep ==
  ASSUME SearchInv, [Next]_vars
  PROVE  OnlyTopIsPending'
<1> SUFFICES ASSUME NEW c \in Discovered', successor[c] # NoBlock,
                    successor[c] \notin Discovered'
             PROVE  (stack # <<>> /\ State.block = c /\ State.next >= 0)'
  <2>1. successor' = successor
    BY DEF Next, Begin, MeetMarked, DiscoverBlock, Leave, Finish, vars
  <2>2. QED
    BY <2>1 DEF OnlyTopIsPending
<1>1. CASE Begin
  <2>1. /\ preorder' = <<GraphEntry>> /\ stack' = <<"init">>
        /\ cell'["init"] = [block |-> GraphEntry, next |-> SuccessorCount(GraphEntry) - 1]
    BY <1>1 DEF Begin, SearchInv, TypeOK
  <2>2. c = GraphEntry
    BY <2>1 DEF Discovered
  <2>3. State' = cell'["init"]
    BY <2>1 DEF State, Top
  <2>4. QED
    BY <2>1, <2>2, <2>3 DEF SuccessorCount
<1>2. CASE MeetMarked
  <2>1. Discovered' = Discovered /\ stack # <<>> /\ State.next >= 0
        /\ IsMarked(successor[State.block])
    BY <1>2 DEF MeetMarked, orders, Discovered
  <2>2. State.block = c
    BY <2>1 DEF SearchInv, OnlyTopIsPending
  <2>3. successor[c] \in Discovered
    <3>1. successor[c] \in Blocks
      BY <2>1, <2>2, TopLemma
    <3>2. QED
      BY <2>1, <2>2, <3>1, MarkLemma DEF SearchInv, MarkIsExact
  <2>4. QED
    BY <2>1, <2>3
<1>3. CASE DiscoverBlock
  <2> DEFINE b == successor[State.block]
  <2>1. /\ stack # <<>> /\ Discovered' = Discovered \cup {b} /\ stack' = Append(stack, "new")
        /\ cell'["new"] = [block |-> b, next |-> SuccessorCount(b) - 1]
    BY <1>3, DiscoverLemma
  <2>2. c = b
    <3>1. ASSUME c \in Discovered PROVE FALSE
      <4>1. State.block = c
        BY <2>1, <3>1 DEF SearchInv, OnlyTopIsPending
      <4>2. QED
        BY <2>1, <4>1
    <3>2. QED
      BY <2>1, <3>1
  <2>3. stack \in Seq({"init", "new"})
    BY DEF SearchInv, TypeOK
  <2>4. State' = cell'["new"] /\ stack' # <<>>
    <3>1. stack'[Len(stack')] = "new" /\ stack' # <<>>
      BY <2>1, <2>3
    <3>2. QED
      BY <3>1 DEF State, Top
  <2>5. QED
    BY <2>1, <2>2, <2>4 DEF SuccessorCount
<1>4. CASE Leave
  <2>1. Discovered' = Discovered /\ ~(State.next >= 0)
    <3>1. State.next < 0 /\ preorder' = preorder /\ stack # <<>>
      BY <1>4 DEF Leave
    <3>2. State.next \in Int
      BY <3>1, TopLemma
    <3>3. QED
      BY <3>1, <3>2 DEF Discovered
  <2>2. QED
    BY <2>1 DEF SearchInv, OnlyTopIsPending
<1>5. CASE Finish
  <2>1. Discovered' = Discovered /\ stack = <<>>
    BY <1>5 DEF Finish, Discovered
  <2>2. QED
    BY <2>1 DEF SearchInv, OnlyTopIsPending
<1>6. CASE UNCHANGED vars
  BY <1>6 DEF vars, orders, SearchInv, OnlyTopIsPending, Discovered, State, Top
<1>7. QED
  BY <1>1, <1>2, <1>3, <1>4, <1>5, <1>6 DEF Next

(* The entry stays found, and nothing beyond its reach is.                 *)
LEMMA FoundStep ==
  ASSUME SearchInv, [Next]_vars
  PROVE  EntryIsFound' /\ OnlyReachableIsFound'
<1>0. successor' = successor
  BY DEF Next, Begin, MeetMarked, DiscoverBlock, Leave, Finish, vars
<1>1. CASE Begin
  <2>1. Discovered' = {GraphEntry}
    BY <1>1 DEF Begin, Discovered
  <2>2. QED
    BY <1>0, <2>1 DEF EntryIsFound, OnlyReachableIsFound, IsClosed
<1>2. CASE DiscoverBlock
  <2> DEFINE b == successor[State.block]
  <2>1. Discovered' = Discovered \cup {b} /\ stack # <<>> /\ State.next >= 0
    BY <1>2, DiscoverLemma
  <2>2. State.block \in Discovered /\ b \in Blocks
    BY <2>1, TopLemma
  <2>3. b # NoBlock
    BY <2>2, DiscoverAssumption
  <2>4. OnlyReachableIsFound'
    <3> SUFFICES ASSUME NEW S \in SUBSET Blocks, IsClosed(S)
                 PROVE  Discovered \cup {b} \subseteq S
      BY <1>0, <2>1 DEF OnlyReachableIsFound, IsClosed
    <3>1. Discovered \subseteq S
      BY DEF SearchInv, OnlyReachableIsFound
    <3>2. QED
      BY <2>2, <2>3, <3>1 DEF IsClosed
  <2>5. EntryIsFound'
    BY <1>2, <2>1 DEF DiscoverBlock, SearchInv, EntryIsFound
  <2>6. QED
    BY <2>4, <2>5
<1>3. CASE MeetMarked \/ Leave \/ Finish \/ UNCHANGED vars
  <2>1. Discovered' = Discovered
    BY <1>3 DEF MeetMarked, Leave, Finish, vars, orders, Discovered
  <2>2. GraphEntry \in Discovered \/ (~searching' /\ ~(runs' > 0))
    BY <1>3 DEF MeetMarked, Leave, Finish, vars, SearchInv, EntryIsFound
  <2>3. QED
    BY <1>0, <2>1, <2>2 DEF SearchInv, EntryIsFound, OnlyReachableIsFound, IsClosed
<1>4. QED
  BY <1>1, <1>2, <1>3 DEF Next

(* Initially nothing is found, whatever the heap holds.                    *)
LEMMA SearchInit == Init => SearchInv
<1> SUFFICES ASSUME Init PROVE SearchInv
  OBVIOUS
<1>1. Discovered = {}
  BY DEF Init, Discovered
<1>2. TypeOK
  <2>1. successor \in [Blocks -> Pointer]
    BY DEF Init, Graphs
  <2>2. preorderNum \in [Blocks -> Int] /\ postorderNum \in [Blocks -> Int]
    BY DiscoverAssumption DEF Init
  <2>3. slots \in [Blocks -> [0 .. 2 -> Pointer]]
    BY DEF Init, NoSlots, Pointer
  <2>4. cell \in [{"init", "new"} -> TraversalState]
    BY DEF Init, TraversalState, Pointer
  <2>5. runs \in Nat
    BY DEF Init
  <2>6. searching \in BOOLEAN
    BY DEF Init
  <2>7. /\ preorder \in Seq(Blocks) /\ postorder \in Seq(Blocks)
        /\ reversePostorder \in Seq(Blocks) /\ parent \in Seq(Int)
        /\ stack \in Seq({"init", "new"})
    BY DEF Init
  <2>8. QED
    BY <2>1, <2>2, <2>3, <2>4, <2>5, <2>6, <2>7 DEF TypeOK
<1>3. PreorderNumbersBlocks /\ StackShape /\ successor \in Graphs
  BY DEF Init, PreorderNumbersBlocks, StackShape
<1>4. OnlyTopIsPending /\ OnlyReachableIsFound
  BY <1>1 DEF OnlyTopIsPending, OnlyReachableIsFound
<1>5. EntryIsFound
  BY DEF Init, EntryIsFound
<1>6. QED
  BY <1>2, <1>3, <1>4, <1>5 DEF SearchInv

(* The search invariant holds throughout, for every heap and graph.        *)
THEOREM SearchCorrect == Spec => []SearchInv
<1>1. SearchInv /\ [Next]_vars => SearchInv'
  <2> SUFFICES ASSUME SearchInv, [Next]_vars PROVE SearchInv'
    OBVIOUS
  <2>1. successor' = successor
    BY DEF Next, Begin, MeetMarked, DiscoverBlock, Leave, Finish, vars
  <2>2. (successor \in Graphs)'
    BY <2>1 DEF SearchInv, Graphs
  <2>3. QED
    BY <2>2, TypeStep, NumbersStep, ShapeStep, PendingStep, FoundStep DEF SearchInv
<1>2. QED
  BY SearchInit, <1>1, PTL DEF Spec

(* is_marked answers whether this run has found the block, although the    *)
(* number it tests is never initialised and survives from earlier runs.    *)
THEOREM MarksAreExact == Spec => []MarkIsExact
<1>1. SearchInv => MarkIsExact
  BY MarkLemma DEF SearchInv
<1>2. QED
  BY <1>1, SearchCorrect, PTL

(* When the search returns, preorder lists exactly the reachable blocks.   *)
THEOREM PreorderIsExact == Spec => []PreorderIsReachable
<1>1. SearchInv => PreorderIsReachable
  <2> SUFFICES ASSUME SearchInv, Answered PROVE Discovered = Reachable
    BY DEF PreorderIsReachable
  <2>1. stack = <<>> /\ GraphEntry \in Discovered
    BY DEF SearchInv, StackShape, EntryIsFound, Answered
  <2>2. Discovered \subseteq Blocks
    BY DEF SearchInv, TypeOK, Discovered
  <2>3. IsClosed(Discovered)
    BY <2>1 DEF SearchInv, OnlyTopIsPending, IsClosed
  <2>4. QED
    BY <2>2, <2>3 DEF Reachable, SearchInv, OnlyReachableIsFound
<1>2. QED
  BY <1>1, SearchCorrect, PTL

-----------------------------------------------------------------------------
(* The blocks that can be reached: the entry is one, and the successor of  *)
(* one is another; no step changes which they are.                         *)
LEMMA ReachableLemma ==
  ASSUME SearchInv
  PROVE  /\ GraphEntry \in Reachable /\ Reachable \subseteq Blocks
         /\ \A b \in Reachable : successor[b] # NoBlock => successor[b] \in Reachable
         /\ Discovered \subseteq Reachable
<1>1. \A b \in Blocks : successor[b] # NoBlock => successor[b] \in Blocks
  BY DEF SearchInv, TypeOK, Pointer
<1>2. Discovered \subseteq Blocks
  BY DEF SearchInv, TypeOK, Discovered
<1>3. QED
  BY <1>1, <1>2 DEF Reachable, IsClosed, Blocks, SearchInv, OnlyReachableIsFound

LEMMA ReachableStays ==
  ASSUME [Next]_vars
  PROVE  successor' = successor /\ Reachable' = Reachable
<1>1. successor' = successor
  BY DEF Next, Begin, MeetMarked, DiscoverBlock, Leave, Finish, vars
<1>2. QED
  BY <1>1 DEF Reachable, IsClosed

(* The blocks found make up one chain.                                     *)
LEMMA ChainedStep ==
  ASSUME SearchInv, Chained, [Next]_vars
  PROVE  Chained'
<1>types. preorder \in Seq(Blocks) /\ stack \in Seq({"init", "new"}) /\ successor' = successor
  BY ReachableStays DEF SearchInv, TypeOK
<1>1. CASE Begin
  <2>1. /\ preorder' = <<GraphEntry>> /\ stack' = <<"init">>
        /\ cell'["init"].block = GraphEntry
    BY <1>1 DEF Begin, SearchInv, TypeOK
  <2>2. State'.block = GraphEntry /\ preorder'[Len(preorder')] = GraphEntry
    BY <2>1 DEF State, Top
  <2>3. preorder'[1] = GraphEntry /\ \A i \in DOMAIN preorder' : ~(i < Len(preorder'))
    BY <2>1
  <2>4. QED
    BY <2>2, <2>3 DEF Chained
<1>2. CASE MeetMarked
  <2>1. stack # <<>> /\ State.next >= 0 /\ cell' = Advanced /\ stack' = stack /\ preorder' = preorder
    BY <1>2 DEF MeetMarked, orders
  <2>2. State'.next = -1
    BY <2>1, AdvancedLemma DEF State, Top
  <2>3. QED
    BY <1>types, <2>1, <2>2 DEF Chained
<1>3. CASE DiscoverBlock
  <2> DEFINE b == successor[State.block]
             n == Len(preorder)
  <2>1. /\ stack # <<>> /\ State.next >= 0 /\ b \in Blocks
        /\ preorder' = Append(preorder, b) /\ stack' = Append(stack, "new")
        /\ cell'["new"] = [block |-> b, next |-> SuccessorCount(b) - 1]
    BY <1>3, DiscoverLemma
  <2>2. State.block = preorder[n] /\ n \in Nat \ {0}
    <3>1. State.block \in Discovered
      BY <2>1, TopLemma
    <3>2. QED
      BY <1>types, <2>1, <3>1 DEF Chained, Discovered
  <2>3. Len(preorder') = n + 1 /\ preorder'[n + 1] = b /\ \A i \in 1 .. n : preorder'[i] = preorder[i]
    BY <1>types, <2>1
  <2>4. State'.block = b
    <3>1. stack'[Len(stack')] = "new"
      BY <1>types, <2>1
    <3>2. QED
      BY <2>1, <3>1 DEF State, Top
  <2>5. ASSUME NEW i \in DOMAIN preorder', i < Len(preorder')
        PROVE  successor[preorder'[i]] = preorder'[i + 1]
    <3>1. i \in 1 .. n
      BY <1>types, <2>1, <2>2, <2>5
    <3>2. CASE i = n
      BY <2>2, <2>3, <3>1, <3>2
    <3>3. CASE i # n
      BY <1>types, <2>2, <2>3, <3>1, <3>3 DEF Chained
    <3>4. QED
      BY <3>2, <3>3
  <2>6. preorder'[1] = GraphEntry
    BY <1>types, <2>2, <2>3 DEF Chained
  <2>7. QED
    BY <1>types, <2>3, <2>4, <2>5, <2>6 DEF Chained
<1>4. CASE Leave
  <2>1. /\ stack # <<>> /\ State.next < 0 /\ stack' = SubSeq(stack, 1, Len(stack) - 1)
        /\ cell' = cell /\ preorder' = preorder
    BY <1>4 DEF Leave
  <2>2. ASSUME stack' # <<>> PROVE State'.next < 0
    <3>1. /\ Len(stack') = Len(stack) - 1 /\ Len(stack') \in Nat \ {0}
          /\ stack'[Len(stack')] = stack[Len(stack) - 1]
          /\ Len(stack) - 1 \in DOMAIN stack /\ Len(stack) \in DOMAIN stack
      BY <1>types, <2>1, <2>2
    <3>2. /\ stack[Len(stack) - 1] = IF Len(stack) - 1 = 1 THEN "init" ELSE "new"
          /\ stack[Len(stack)] = "new" /\ cell["init"].next = -1
      BY <3>1 DEF SearchInv, StackShape
    <3>3. State' = cell[stack[Len(stack) - 1]]
      BY <2>1, <3>1 DEF State, Top
    <3>4. CASE Len(stack) - 1 = 1
      BY <3>2, <3>3, <3>4
    <3>5. CASE Len(stack) - 1 # 1
      BY <2>1, <3>2, <3>3, <3>5 DEF State, Top
    <3>6. QED
      BY <3>4, <3>5
  <2>3. stack' # <<>> => ~(State'.next >= 0)
    <3>1. stack' # <<>> => State' \in TraversalState
      <4>1. stack' \in Seq({"init", "new"})
        BY <1>types, <2>1, TopLemma
      <4>2. stack' # <<>> => Len(stack') \in DOMAIN stack'
        BY <4>1
      <4>3. QED
        BY <2>1, <4>1, <4>2 DEF SearchInv, TypeOK, State, Top
    <3>2. QED
      BY <2>2, <3>1 DEF TraversalState
  <2>4. QED
    BY <1>types, <2>1, <2>3 DEF Chained
<1>5. CASE Finish
  BY <1>5, <1>types DEF Finish, Chained
<1>6. CASE UNCHANGED vars
  BY <1>6 DEF vars, orders, Chained, State, Top
<1>7. QED
  BY <1>1, <1>2, <1>3, <1>4, <1>5, <1>6 DEF Next

(* A rerun finds the blocks along the chain that the settled numbers count.*)
LEMMA RerunStep ==
  ASSUME SearchInv, Chained, NumbersSettled, [Next]_vars, runs > 0, NEW c \in Reachable
  PROVE  preorderNum'[c] = preorderNum[c]
<1>types. preorder \in Seq(Blocks) /\ preorderNum \in [Blocks -> Int] /\ c \in Blocks
  BY ReachableLemma DEF SearchInv, TypeOK
<1>1. CASE Begin
  BY <1>1, <1>types, ReachableLemma DEF Begin, NumbersSettled
<1>2. CASE DiscoverBlock
  <2> DEFINE a == State.block
             b == successor[a]
             n == Len(preorder)
  <2>1. /\ stack # <<>> /\ State.next >= 0 /\ b \in Blocks /\ b \notin Discovered
        /\ preorderNum' = [preorderNum EXCEPT ![b] = n]
    BY <1>2, DiscoverLemma
  <2>2. a \in Discovered /\ a \in Reachable /\ b \in Reachable
    <3>1. a \in Discovered
      BY <2>1, TopLemma
    <3>2. b # NoBlock
      BY <2>1, DiscoverAssumption
    <3>3. QED
      BY <3>1, <3>2, ReachableLemma
  <2>3. n \in Nat \ {0} /\ a = preorder[n]
    BY <1>types, <2>1, <2>2 DEF Chained, Discovered
  <2>4. preorderNum[a] = n - 1
    BY <1>types, <2>3 DEF SearchInv, PreorderNumbersBlocks
  <2>5. preorderNum[b] \in 0 .. n
    <3>1. b # NoBlock
      BY <2>1, DiscoverAssumption
    <3>2. preorderNum[b] >= 0 /\ preorderNum[b] <= preorderNum[a] + 1
      BY <2>2, <3>1 DEF NumbersSettled
    <3>3. QED
      BY <1>types, <2>1, <2>3, <2>4, <3>2
  <2>6. ASSUME preorderNum[b] < n PROVE FALSE
    <3> DEFINE i == preorderNum[b] + 1
    <3>1. i \in DOMAIN preorder /\ i - 1 = preorderNum[b]
      BY <1>types, <2>3, <2>5, <2>6
    <3>2. preorder[i] \in Discovered /\ preorderNum[preorder[i]] = preorderNum[b]
      BY <3>1 DEF Discovered, SearchInv, PreorderNumbersBlocks
    <3>3. preorder[i] = b
      BY <2>2, <3>2, ReachableLemma DEF NumbersSettled
    <3>4. QED
      BY <2>1, <3>2, <3>3
  <2>7. preorderNum[b] = n
    BY <2>3, <2>5, <2>6
  <2>8. QED
    BY <1>types, <2>1, <2>7
<1>3. CASE MeetMarked \/ Leave \/ Finish \/ UNCHANGED vars
  BY <1>3 DEF MeetMarked, Leave, Finish, vars
<1>4. QED
  BY <1>1, <1>2, <1>3 DEF Next

(* The first run settles the numbers, the later ones keep them.            *)
LEMMA SettledStep ==
  ASSUME SearchInv, Chained, NumbersSettled, [Next]_vars
  PROVE  NumbersSettled'
<1>0. Reachable' = Reachable /\ successor' = successor
  BY ReachableStays
<1>1. CASE runs > 0
  <2>1. \A c \in Reachable : preorderNum'[c] = preorderNum[c]
    BY <1>1, RerunStep
  <2>2. QED
    BY <1>0, <1>1, <2>1, ReachableLemma DEF NumbersSettled
<1>2. CASE ~(runs > 0) /\ Finish
  <2>1. stack = <<>> /\ searching /\ preorderNum' = preorderNum
    BY <1>2 DEF Finish
  <2>2. Discovered = Reachable
    <3>1. IsClosed(Discovered)
      BY <2>1 DEF SearchInv, OnlyTopIsPending, EntryIsFound, IsClosed
    <3>2. QED
      BY <3>1, ReachableLemma DEF Reachable
  <2>3. preorder \in Seq(Blocks)
    BY DEF SearchInv, TypeOK
  <2>4. ASSUME NEW b \in Reachable
        PROVE  \E i \in DOMAIN preorder : preorder[i] = b /\ preorderNum[b] = i - 1
    <3>1. PICK i \in DOMAIN preorder : preorder[i] = b
      BY <2>2 DEF Discovered
    <3>2. QED
      BY <3>1 DEF SearchInv, PreorderNumbersBlocks
  <2>5. preorderNum[GraphEntry] = 0
    <3>1. preorder # <<>>
      BY <2>3, <2>4, ReachableLemma
    <3>2. 1 \in DOMAIN preorder /\ preorder[1] = GraphEntry
      BY <2>3, <3>1 DEF Chained
    <3>3. QED
      BY <3>2 DEF SearchInv, PreorderNumbersBlocks
  <2>6. \A b \in Reachable : preorderNum[b] >= 0
    BY <2>3, <2>4
  <2>7. \A b, c \in Reachable : preorderNum[b] = preorderNum[c] => b = c
    <3> SUFFICES ASSUME NEW b \in Reachable, NEW c \in Reachable, preorderNum[b] = preorderNum[c]
                 PROVE  b = c
      OBVIOUS
    <3>1. PICK i \in DOMAIN preorder : preorder[i] = b /\ preorderNum[b] = i - 1
      BY <2>4
    <3>2. PICK j \in DOMAIN preorder : preorder[j] = c /\ preorderNum[c] = j - 1
      BY <2>4
    <3>3. i = j
      <4>1. i \in Int /\ j \in Int
        BY <2>3
      <4>2. i - 1 = j - 1
        BY <3>1, <3>2
      <4>3. QED
        BY <4>1, <4>2
    <3>4. QED
      BY <3>1, <3>2, <3>3
  <2>8. ASSUME NEW b \in Reachable, successor[b] # NoBlock
        PROVE  preorderNum[successor[b]] <= preorderNum[b] + 1
    <3>1. PICK i \in DOMAIN preorder : preorder[i] = b /\ preorderNum[b] = i - 1
      BY <2>4
    <3>2. successor[b] \in Reachable
      BY <2>8, ReachableLemma
    <3>3. PICK j \in DOMAIN preorder : preorder[j] = successor[b] /\ preorderNum[successor[b]] = j - 1
      BY <2>4, <3>2
    <3>4. CASE i < Len(preorder)
      <4>1. preorder[i + 1] = successor[b] /\ i + 1 \in DOMAIN preorder
        BY <2>3, <3>1, <3>4 DEF Chained
      <4>2. preorderNum[successor[b]] = (i + 1) - 1
        BY <4>1 DEF SearchInv, PreorderNumbersBlocks
      <4>3. QED
        BY <2>3, <3>1, <4>2
    <3>5. CASE ~(i < Len(preorder))
      BY <2>3, <3>1, <3>3, <3>5
    <3>6. QED
      BY <3>4, <3>5
  <2>9. QED
    BY <1>0, <2>1, <2>5, <2>6, <2>7, <2>8 DEF NumbersSettled
<1>3. CASE ~(runs > 0) /\ ~Finish
  <2>1. runs' = runs
    BY <1>3 DEF Next, Begin, MeetMarked, DiscoverBlock, Leave, vars
  <2>2. QED
    BY <1>3, <2>1 DEF NumbersSettled
<1>4. QED
  BY <1>1, <1>2, <1>3

(* The numbers that dominators, bit vectors and worklists are indexed by   *)
(* come out the same when cp_transform runs the search again.              *)
THEOREM RerunsKeepNumbers == Spec => RerunKeepsNumbers
<1>1. Init => Chained /\ NumbersSettled
  BY DEF Init, Chained, NumbersSettled
<1>2. SearchInv /\ Chained /\ NumbersSettled /\ [Next]_vars => (Chained /\ NumbersSettled)'
  BY ChainedStep, SettledStep
<1>3. SearchInv /\ Chained /\ NumbersSettled /\ [Next]_vars
        => [runs > 0 => \A b \in Reachable : preorderNum'[b] = preorderNum[b]]_vars
  BY RerunStep
<1>4. QED
  BY <1>1, <1>2, <1>3, SearchCorrect, PTL DEF Spec, RerunKeepsNumbers

-----------------------------------------------------------------------------
(* A sequence is known by its length and its elements.                     *)
LEMMA OneLong ==
  ASSUME NEW T, NEW s \in Seq(T), Len(s) = 1, NEW a, s[1] = a
  PROVE  s = <<a>>
<1>1. s = [i \in 1 .. 1 |-> s[i]]
  OBVIOUS
<1>2. <<a>> = [i \in 1 .. 1 |-> a]
  OBVIOUS
<1>3. QED
  BY <1>1, <1>2

LEMMA TwoLong ==
  ASSUME NEW T, NEW s \in Seq(T), Len(s) = 2, NEW a, NEW b, s[1] = a, s[2] = b
  PROVE  s = <<a, b>>
<1>1. s = [i \in 1 .. 2 |-> s[i]]
  OBVIOUS
<1>2. <<a, b>> = [i \in 1 .. 2 |-> IF i = 1 THEN a ELSE b]
  OBVIOUS
<1>3. \A i \in 1 .. 2 : s[i] = IF i = 1 THEN a ELSE b
  <2>1. \A i \in 1 .. 2 : i = 1 \/ i = 2
    OBVIOUS
  <2>2. QED
    BY <2>1
<1>4. [i \in 1 .. 2 |-> s[i]] = [i \in 1 .. 2 |-> IF i = 1 THEN a ELSE b]
  BY <1>3
<1>5. QED
  BY <1>1, <1>2, <1>4

LEMMA AppendSecond ==
  ASSUME NEW a, NEW b
  PROVE  Append(<<a>>, b) = <<a, b>>
<1> DEFINE T == {a, b}
           s == Append(<<a>>, b)
<1>1. <<a>> \in Seq(T) /\ b \in T
  OBVIOUS
<1>2. s \in Seq(T) /\ Len(s) = 2 /\ s[1] = a /\ s[2] = b
  BY <1>1
<1>3. s = <<a, b>>
  <2> HIDE DEF s, T
  <2>1. QED
    BY <1>2, TwoLong
<1>4. QED
  BY <1>3

LEMMA SecondDropped ==
  ASSUME NEW a, NEW b
  PROVE  SubSeq(<<a, b>>, 1, 1) = <<a>>
<1> DEFINE T == {a, b}
           s == SubSeq(<<a, b>>, 1, 1)
<1>1. <<a, b>> \in Seq(T)
  OBVIOUS
<1>2. s \in Seq(T)
  BY <1>1
<1>3. Len(s) = 1
  BY <1>1
<1>4. s[1] = a
  <2>1. s[1] = <<a, b>>[1 + 1 - 1]
    BY <1>1, <1>3
  <2>2. QED
    BY <2>1
<1>5. QED
  BY <1>2, <1>3, <1>4, OneLong

(* The search over the two blocks that graph_build makes goes through its  *)
(* four stages: entry found, target found, target left, entry left.        *)
LEMMA StagesStep ==
  ASSUME SearchInv, StagesOfBuiltGraphs, [Next]_vars
  PROVE  StagesOfBuiltGraphs'
<1>types. /\ successor' = successor /\ preorder \in Seq(Blocks)
          /\ successor[GraphEntry] = TargetEntry /\ successor[TargetEntry] \in Joins \cup {NoBlock}
          /\ GraphEntry \in Blocks /\ TargetEntry \in Blocks /\ NoBlock \notin Blocks
          /\ GraphEntry # TargetEntry /\ GraphEntry \notin Joins /\ TargetEntry \notin Joins
          /\ cell \in [{"init", "new"} -> TraversalState] /\ postorderNum \in [Blocks -> Int]
  BY ReachableStays, DiscoverAssumption DEF SearchInv, TypeOK, Graphs, Blocks
<1>1. CASE Begin
  <2>1. SuccessorCount(GraphEntry) = 1
    BY <1>types DEF SuccessorCount
  <2>2. OneFound'
    BY <1>1, <1>types, <2>1 DEF Begin, OneFound
  <2>3. QED
    BY <2>2 DEF StagesOfBuiltGraphs
<1>2. CASE MeetMarked
  <2>1. /\ stack # <<>> /\ State.next >= 0 /\ searching /\ IsMarked(successor[State.block])
        /\ UNCHANGED <<preorder, stack, searching, runs>>
    BY <1>2 DEF MeetMarked, orders
  <2>2. successor[State.block] \in Discovered
    BY <2>1, MarkLemma, TopLemma DEF SearchInv, MarkIsExact
  <2>3. ~OneFound
    <3> SUFFICES ASSUME OneFound PROVE FALSE
      OBVIOUS
    <3>1. State.block = GraphEntry
      BY DEF OneFound, State, Top
    <3>2. Discovered = {GraphEntry}
      BY DEF OneFound, Discovered
    <3>3. QED
      BY <1>types, <2>2, <3>1, <3>2
  <2>4. ~BothFound
    <3> SUFFICES ASSUME BothFound PROVE FALSE
      OBVIOUS
    <3>1. State.block = TargetEntry
      BY DEF BothFound, State, Top
    <3>2. Discovered = {GraphEntry, TargetEntry}
      BY DEF BothFound, Both, Discovered
    <3>3. successor[TargetEntry] \in Blocks
      BY <2>1, <3>1, TopLemma
    <3>4. QED
      BY <1>types, <2>2, <3>1, <3>2, <3>3
  <2>5. ~TargetLeft /\ ~BothLeft
    BY <2>1 DEF TargetLeft, BothLeft, State, Top
  <2>6. QED
    BY <2>1, <2>3, <2>4, <2>5 DEF StagesOfBuiltGraphs
<1>3. CASE DiscoverBlock
  <2> DEFINE b == successor[State.block]
  <2>1. /\ stack # <<>> /\ State.next >= 0 /\ b \in Blocks /\ b \notin Discovered
        /\ preorder' = Append(preorder, b) /\ stack' = Append(stack, "new") /\ searching
        /\ cell'["new"] = [block |-> b, next |-> SuccessorCount(b) - 1]
        /\ cell'["init"] = Advanced["init"]
        /\ postorder' = postorder /\ searching' = searching
    BY <1>3, DiscoverLemma DEF DiscoverBlock
  <2> SUFFICES ASSUME Len(preorder') <= 2 PROVE BothFound'
    BY DEF StagesOfBuiltGraphs
  <2>2. Len(preorder) <= 1
    BY <1>types, <2>1
  <2>3. OneFound
    <3>1. ~Both
      BY <2>2, SMTT(30) DEF Both
    <3>2. Len(preorder) <= 2
      BY <1>types, <2>2
    <3>3. QED
      BY <2>1, <3>1, <3>2 DEF StagesOfBuiltGraphs, BothFound, TargetLeft, BothLeft
  <2>4. Top = "init" /\ State.block = GraphEntry
    BY <2>3 DEF OneFound, State, Top
  <2>5. cell'["init"] = [block |-> GraphEntry, next |-> -1]
    BY <2>1, <2>4, AdvancedLemma
  <2>6. b = TargetEntry
    BY <1>types, <2>4
  <2>7. preorder' = <<GraphEntry, TargetEntry>> /\ stack' = <<"init", "new">>
    <3>1. preorder = <<GraphEntry>> /\ stack = <<"init">>
      BY <2>3 DEF OneFound
    <3>2. Append(preorder, TargetEntry) = <<GraphEntry, TargetEntry>>
      BY <1>types, <3>1, AppendSecond
    <3>3. Append(stack, "new") = <<"init", "new">>
      BY <3>1, AppendSecond
    <3>4. QED
      BY <2>1, <2>6, <3>2, <3>3
  <2>8. cell'["new"] = [block |-> TargetEntry, next |-> SuccessorCount(TargetEntry)' - 1]
    BY <1>types, <2>1, <2>6 DEF SuccessorCount
  <2>9. QED
    BY <2>1, <2>3, <2>5, <2>7, <2>8 DEF OneFound, BothFound, Both
<1>4. CASE Leave
  <2>1. /\ stack # <<>> /\ State.next < 0 /\ stack' = SubSeq(stack, 1, Len(stack) - 1)
        /\ postorderNum' = [postorderNum EXCEPT ![State.block] = Len(postorder)]
        /\ postorder' = Append(postorder, State.block)
        /\ UNCHANGED <<preorder, cell, searching, runs>> /\ searching
    BY <1>4 DEF Leave
  <2> SUFFICES ASSUME Len(preorder) <= 2 PROVE TargetLeft' \/ BothLeft'
    BY <2>1 DEF StagesOfBuiltGraphs
  <2>2. ~OneFound /\ ~BothLeft
    BY <2>1 DEF OneFound, BothLeft, State, Top
  <2>3. CASE BothFound
    <3>1. State.block = TargetEntry /\ State.next = SuccessorCount(TargetEntry) - 1
      BY <2>3 DEF BothFound, State, Top
    <3>2. successor[TargetEntry] = NoBlock
      BY <2>1, <3>1 DEF SuccessorCount
    <3>3. postorder' = <<TargetEntry>> /\ stack' = <<"init">> /\ postorderNum'[TargetEntry] = 0
      <4>1. Len(stack) - 1 = 1 /\ SubSeq(stack, 1, 1) = <<"init">>
        BY <2>3, SecondDropped DEF BothFound
      <4>2. Append(postorder, TargetEntry) = <<TargetEntry>> /\ Len(postorder) = 0
        BY <2>3 DEF BothFound
      <4>3. QED
        BY <1>types, <2>1, <3>1, <4>1, <4>2
    <3>4. QED
      BY <1>types, <2>1, <2>3, <3>2, <3>3 DEF BothFound, TargetLeft, Both
  <2>4. CASE TargetLeft
    <3>1. State.block = GraphEntry
      BY <2>4 DEF TargetLeft, State, Top
    <3>2. /\ postorder' = <<TargetEntry, GraphEntry>> /\ stack' = <<>>
          /\ postorderNum'[TargetEntry] = 0 /\ postorderNum'[GraphEntry] = 1
      <4>1. Len(stack) - 1 = 0 /\ SubSeq(stack, 1, 0) = <<>>
        BY <2>4 DEF TargetLeft
      <4>2. postorder = <<TargetEntry>> /\ Len(postorder) = 1 /\ postorderNum[TargetEntry] = 0
        BY <2>4 DEF TargetLeft
      <4>3. Append(postorder, GraphEntry) = <<TargetEntry, GraphEntry>>
        BY <1>types, <4>2, AppendSecond
      <4>4. QED
        BY <1>types, <2>1, <3>1, <4>1, <4>2, <4>3
    <3>3. QED
      BY <1>types, <2>1, <2>4, <3>2 DEF TargetLeft, BothLeft, Both
  <2>5. QED
    BY <2>1, <2>2, <2>3, <2>4 DEF StagesOfBuiltGraphs
<1>5. CASE Finish
  <2>1. /\ searching /\ stack = <<>> /\ ~searching'
        /\ reversePostorder' = [i \in 1 .. Len(postorder) |-> postorder[Len(postorder) - i + 1]]
        /\ UNCHANGED <<successor, postorderNum, preorder, postorder, stack>>
    BY <1>5 DEF Finish
  <2> SUFFICES ASSUME Len(preorder) <= 2 PROVE BothLeft'
    BY <2>1 DEF StagesOfBuiltGraphs
  <2>2. BothLeft
    BY <2>1 DEF StagesOfBuiltGraphs, OneFound, BothFound, TargetLeft
  <2>3. reversePostorder' = <<GraphEntry, TargetEntry>>
    BY <2>1, <2>2 DEF BothLeft
  <2>4. QED
    BY <2>1, <2>2, <2>3 DEF BothLeft, Both
<1>6. CASE UNCHANGED vars
  BY <1>6 DEF vars, orders, StagesOfBuiltGraphs, OneFound, BothFound, TargetLeft, BothLeft, Both,
              SuccessorCount
<1>7. QED
  BY <1>1, <1>2, <1>3, <1>4, <1>5, <1>6 DEF Next

(* On the graphs that graph_build makes the two C locals that the stack    *)
(* points to do not collide, and postorder is one.                         *)
THEOREM PostorderCorrect == Spec => []PostorderOfBuiltGraphs
<1>1. Init => StagesOfBuiltGraphs
  BY DEF Init, StagesOfBuiltGraphs
<1>2. SearchInv /\ StagesOfBuiltGraphs /\ [Next]_vars => StagesOfBuiltGraphs'
  BY StagesStep
<1>3. SearchInv /\ StagesOfBuiltGraphs => PostorderOfBuiltGraphs
  <2> SUFFICES ASSUME SearchInv, StagesOfBuiltGraphs, Answered, Len(preorder) <= 2
               PROVE  PostorderOfBuiltGraphs
    BY DEF PostorderOfBuiltGraphs
  <2>1. BothLeft /\ reversePostorder = <<GraphEntry, TargetEntry>>
    BY DEF Answered, StagesOfBuiltGraphs, OneFound, BothFound, TargetLeft, BothLeft
  <2>2. Discovered = {GraphEntry, TargetEntry}
    BY <2>1 DEF BothLeft, Both, Discovered
  <2>3. successor[GraphEntry] = TargetEntry /\ TargetEntry # NoBlock /\ TargetEntry # GraphEntry
    BY DiscoverAssumption DEF SearchInv, Graphs, Blocks
  <2>4. DOMAIN postorder = {1, 2} /\ postorder[1] = TargetEntry /\ postorder[2] = GraphEntry
    BY <2>1 DEF BothLeft
  <2>5. QED
    BY <2>1, <2>2, <2>3, <2>4 DEF PostorderOfBuiltGraphs, BothLeft
<1>4. QED
  BY <1>1, <1>2, <1>3, SearchCorrect, PTL DEF Spec

-----------------------------------------------------------------------------
(* What the dominators are computed from.  A block found anew comes behind *)
(* the last one found, and is recorded as the predecessor of a join only   *)
(* in the word behind the two that are counted.                            *)
LEMMA JoinsCountNone ==
  ASSUME NEW row \in [0 .. 2 -> Pointer], NEW b \in Joins, NEW pred \in Blocks,
         row[0] = NoBlock, row[1] = NoBlock
  PROVE  Added(b, row, pred)[0] = NoBlock /\ Added(b, row, pred)[1] = NoBlock
<1>1. pred # NoBlock
  BY DiscoverAssumption
<1>2. Added(b, row, pred) = [row EXCEPT ![2] = pred]
  BY <1>1 DEF Added, JoinIndex
<1>3. QED
  BY <1>2

LEMMA RowsStep ==
  ASSUME SearchInv, TablesOfChain, MeetMarked \/ DiscoverBlock, NEW b, b = successor[State.block]
  PROVE  /\ b \in Blocks
         /\ \A c \in Blocks \ {b} : slots'[c] = slots[c]
         /\ b \in Joins => slots'[b][0] = NoBlock /\ slots'[b][1] = NoBlock
         /\ b \in Blocks \ Joins => slots'[b][0] = State.block
<1>1. stack # <<>> /\ State.next >= 0
  BY DEF MeetMarked, DiscoverBlock
<1>2. b \in Blocks /\ State.block \in Blocks
  BY <1>1, TopLemma
<1>3. slots \in [Blocks -> [0 .. 2 -> Pointer]] /\ slots[b] \in [0 .. 2 -> Pointer]
  BY <1>2 DEF SearchInv, TypeOK
<1>4. PICK row \in [0 .. 2 -> Pointer] :
        /\ slots' = [slots EXCEPT ![b] = Added(b, row, State.block)]
        /\ b \in Joins => row[0] = NoBlock /\ row[1] = NoBlock
  <2>1. CASE MeetMarked
    <3>1. slots' = [slots EXCEPT ![b] = Added(b, slots[b], State.block)]
      BY <2>1, <1>3 DEF MeetMarked
    <3>2. QED
      BY <1>3, <3>1 DEF TablesOfChain
  <2>2. CASE DiscoverBlock
    <3>1. slots' = [slots EXCEPT ![b] = Added(b, Cleared(slots[b]), State.block)]
      BY <2>2, <1>3 DEF DiscoverBlock
    <3>2. /\ Cleared(slots[b]) \in [0 .. 2 -> Pointer]
          /\ Cleared(slots[b])[0] = NoBlock /\ Cleared(slots[b])[1] = NoBlock
      BY <1>3 DEF Cleared, Pointer
    <3>3. QED
      BY <3>1, <3>2
  <2>3. QED
    BY <2>1, <2>2
<1>5. slots'[b] = Added(b, row, State.block) /\ \A c \in Blocks \ {b} : slots'[c] = slots[c]
  BY <1>2, <1>3, <1>4
<1>6. b \in Joins => slots'[b][0] = NoBlock /\ slots'[b][1] = NoBlock
  BY <1>2, <1>4, <1>5, JoinsCountNone
<1>7. ASSUME b \in Blocks \ Joins PROVE slots'[b][0] = State.block
  <2>1. slots'[b] = [row EXCEPT ![0] = State.block]
    BY <1>5, <1>7 DEF Added
  <2>2. row \in [0 .. 2 -> Pointer] /\ 0 \in 0 .. 2
    OBVIOUS
  <2>3. QED
    BY <2>1, <2>2
<1>8. QED
  BY <1>2, <1>5, <1>6, <1>7

LEMMA TablesStep ==
  ASSUME SearchInv, Chained, TablesOfChain, [Next]_vars
  PROVE  TablesOfChain'
<1>types. /\ preorder \in Seq(Blocks) /\ parent \in Seq(Int) /\ preorderNum \in [Blocks -> Int]
          /\ Joins \subseteq Blocks /\ TargetEntry \in Blocks \ Joins
          /\ successor' = successor
  BY ReachableStays, DiscoverAssumption DEF SearchInv, TypeOK, Blocks
<1>1. CASE Begin
  <2>1. parent' = <<-1>> /\ preorder' = <<GraphEntry>> /\ slots' = slots
    BY <1>1 DEF Begin
  <2>2. TargetEntry \notin Discovered'
    BY <2>1, DiscoverAssumption DEF Discovered
  <2>3. QED
    BY <2>1, <2>2 DEF TablesOfChain
<1>2. ASSUME MeetMarked \/ DiscoverBlock
      PROVE  /\ \A j \in Joins : slots'[j][0] = NoBlock /\ slots'[j][1] = NoBlock
             /\ TargetEntry \in Discovered' => slots'[TargetEntry][0] = GraphEntry
  <2> DEFINE a == State.block
             b == successor[a]
  <2>1. /\ b \in Blocks /\ \A c \in Blocks \ {b} : slots'[c] = slots[c]
        /\ b \in Joins => slots'[b][0] = NoBlock /\ slots'[b][1] = NoBlock
        /\ b \in Blocks \ Joins => slots'[b][0] = a
    BY <1>2, RowsStep
  <2>2. a \in Blocks
    BY <1>2, TopLemma DEF MeetMarked, DiscoverBlock
  <2> HIDE DEF a
  <2>3. b = TargetEntry => a = GraphEntry
    BY <1>types, <2>2, DiscoverAssumption DEF SearchInv, Graphs, Blocks
  <2>4. Discovered' \subseteq Discovered \cup {b}
    BY <1>2, DiscoverLemma DEF MeetMarked, orders, Discovered, a
  <2>5. \A j \in Joins : slots'[j][0] = NoBlock /\ slots'[j][1] = NoBlock
    BY <1>types, <2>1 DEF TablesOfChain
  <2>6. TargetEntry \in Discovered' => slots'[TargetEntry][0] = GraphEntry
    <3>1. CASE b = TargetEntry
      BY <1>types, <2>1, <2>3, <3>1
    <3>2. CASE b # TargetEntry
      BY <1>types, <2>1, <2>4, <3>2 DEF TablesOfChain
    <3>3. QED
      BY <3>1, <3>2
  <2>7. QED
    BY <2>5, <2>6
<1>3. CASE MeetMarked
  <2>1. parent' = parent /\ preorder' = preorder
    BY <1>3 DEF MeetMarked, orders
  <2>2. QED
    BY <1>2, <1>3, <2>1 DEF TablesOfChain
<1>4. CASE DiscoverBlock
  <2> DEFINE n == Len(preorder)
  <2>1. /\ parent' = Append(parent, preorderNum[State.block])
        /\ preorder' = Append(preorder, successor[State.block])
    BY <1>4 DEF DiscoverBlock, ParentNumber
  <2>2. stack # <<>> /\ State.next >= 0
    BY <1>4 DEF DiscoverBlock
  <2>3. n \in Nat \ {0} /\ State.block = preorder[n]
    BY <1>types, <2>2, TopLemma DEF Chained, Discovered
  <2>4. preorderNum[State.block] = n - 1
    BY <1>types, <2>3 DEF SearchInv, PreorderNumbersBlocks
  <2>5. Len(parent) = n
    BY DEF TablesOfChain
  <2>6. parent' = Append(parent, n - 1)
    BY <2>1, <2>4
  <2>7. successor[State.block] \in Blocks
    BY <2>2, TopLemma
  <2>8. Len(preorder') = n + 1 /\ Len(parent') = n + 1 /\ DOMAIN parent' = 1 .. n + 1
    BY <1>types, <2>1, <2>3, <2>5, <2>6, <2>7
  <2>9. ASSUME NEW i \in DOMAIN parent' PROVE parent'[i] = i - 2
    <3>1. CASE i = n + 1
      BY <1>types, <2>3, <2>5, <2>6, <3>1
    <3>2. CASE i # n + 1
      <4>1. i \in DOMAIN parent /\ parent'[i] = parent[i]
        BY <1>types, <2>3, <2>5, <2>6, <2>8, <3>2
      <4>2. QED
        BY <4>1 DEF TablesOfChain
    <3>3. QED
      BY <3>1, <3>2
  <2>10. QED
    BY <1>2, <1>4, <2>8, <2>9 DEF TablesOfChain
<1>5. CASE Leave \/ Finish \/ UNCHANGED vars
  BY <1>5 DEF Leave, Finish, vars, orders, TablesOfChain, Discovered
<1>6. QED
  BY <1>1, <1>3, <1>4, <1>5 DEF Next

(* On a chain each block is dominated at once by the one before it.        *)
LEMMA FoundBlocks ==
  ASSUME SearchInv, Chained, Answered
  PROVE  /\ preorder \in Seq(Blocks) /\ Len(preorder) \in Nat \ {0}
         /\ preorder[1] = GraphEntry /\ Discovered = Reachable
         /\ \A i \in 1 .. Len(preorder) : preorder[i] \in Blocks /\ preorder[i] \in Reachable
         /\ \A i \in 1 .. Len(preorder) : preorderNum[preorder[i]] = i - 1
         /\ \A i, j \in 1 .. Len(preorder) : preorder[i] = preorder[j] => i = j
<1>1. preorder \in Seq(Blocks) /\ DOMAIN preorder = 1 .. Len(preorder)
  BY DEF SearchInv, TypeOK
<1>2. stack = <<>> /\ GraphEntry \in Discovered
  BY DEF SearchInv, StackShape, EntryIsFound, Answered
<1>3. IsClosed(Discovered)
  BY <1>2 DEF SearchInv, OnlyTopIsPending, IsClosed
<1>4. Discovered = Reachable
  BY <1>3, ReachableLemma DEF Reachable
<1>5. preorder # <<>> /\ Len(preorder) \in Nat \ {0}
  BY <1>1, <1>2 DEF Discovered
<1>6. \A i \in 1 .. Len(preorder) : preorderNum[preorder[i]] = i - 1
  BY <1>1 DEF SearchInv, PreorderNumbersBlocks
<1>7. \A i, j \in 1 .. Len(preorder) : preorder[i] = preorder[j] => i = j
  <2> SUFFICES ASSUME NEW i \in 1 .. Len(preorder), NEW j \in 1 .. Len(preorder),
                      preorder[i] = preorder[j]
               PROVE  i = j
    OBVIOUS
  <2>1. i - 1 = j - 1 /\ i \in Int /\ j \in Int
    BY <1>5, <1>6
  <2>2. QED
    BY <2>1
<1>8. \A i \in 1 .. Len(preorder) : preorder[i] \in Blocks /\ preorder[i] \in Reachable
  BY <1>1, <1>4 DEF Discovered
<1>9. QED
  BY <1>1, <1>4, <1>5, <1>6, <1>7, <1>8 DEF Chained

LEMMA DominatorOnChain ==
  ASSUME SearchInv, Chained, Answered, NEW n \in Nat \ {0}, n < Len(preorder)
  PROVE  IsImmediateDominator(preorder[n], preorder[n + 1])
<1> DEFINE d == preorder[n]
           b == preorder[n + 1]
           L == Len(preorder)
<1>1. /\ L \in Nat \ {0} /\ preorder[1] = GraphEntry
      /\ \A i \in 1 .. L : preorder[i] \in Blocks /\ preorder[i] \in Reachable
      /\ \A i, j \in 1 .. L : preorder[i] = preorder[j] => i = j
  BY FoundBlocks
<1>2. \A i \in 1 .. L - 1 : successor[preorder[i]] = preorder[i + 1]
  <2>1. DOMAIN preorder = 1 .. L
    BY FoundBlocks
  <2>2. QED
    BY <1>1, <2>1 DEF Chained
<1>3. \A c \in Blocks : successor[c] \in Blocks \cup {NoBlock}
  BY DEF SearchInv, TypeOK, Pointer
<1>4. n \in 1 .. L /\ n + 1 \in 1 .. L /\ n \in 1 .. L - 1
  BY <1>1
<1>5. /\ d \in Blocks /\ b \in Blocks /\ d \in Reachable /\ b \in Reachable /\ d # b
      /\ successor[d] = b
  <2>1. n # n + 1
    OBVIOUS
  <2>2. QED
    BY <1>1, <1>2, <1>4, <2>1
<1>6. b \notin ReachableWithout(d)
  <2> DEFINE S == {preorder[i] : i \in 1 .. n - 1}
  <2>1. S \in SUBSET (Blocks \ {d}) /\ b \notin S
    <3>1. \A i \in 1 .. n - 1 : i \in 1 .. L /\ i # n /\ i # n + 1
      BY <1>1, <1>4
    <3>2. QED
      BY <1>1, <1>4, <3>1
  <2>2. GraphEntry = d \/ GraphEntry \in S
    <3>1. CASE n = 1
      BY <1>1, <3>1
    <3>2. CASE n # 1
      BY <1>1, <3>2
    <3>3. QED
      BY <3>1, <3>2
  <2>3. ASSUME NEW c \in S, successor[c] \notin {NoBlock, d} PROVE successor[c] \in S
    <3>1. PICK i \in 1 .. n - 1 : c = preorder[i]
      OBVIOUS
    <3>2. i \in 1 .. L - 1 /\ successor[c] = preorder[i + 1] /\ i + 1 \in 1 .. n
      BY <1>1, <1>2, <1>4, <3>1
    <3>3. i + 1 # n
      BY <2>3, <3>2
    <3>4. i + 1 \in 1 .. n - 1
      BY <3>2, <3>3
    <3>5. QED
      BY <3>2, <3>4
  <2>4. QED
    BY <2>1, <2>2, <2>3 DEF ReachableWithout
<1>7. ASSUME NEW c \in Blocks \ {b}, Dominates(c, b) PROVE Dominates(c, d)
  <2>1. ASSUME d \in ReachableWithout(c) PROVE FALSE
    <3>1. d # c
      <4> DEFINE T == Blocks \ {c}
      <4>1. /\ T \in SUBSET (Blocks \ {c}) /\ (GraphEntry = c \/ GraphEntry \in T)
            /\ \A x \in T : successor[x] \notin {NoBlock, c} => successor[x] \in T
        BY <1>3 DEF Blocks
      <4>2. d \in T
        BY <2>1, <4>1 DEF ReachableWithout
      <4>3. QED
        BY <4>2
    <3>2. ASSUME NEW S \in SUBSET (Blocks \ {c}), GraphEntry = c \/ GraphEntry \in S,
                 \A x \in S : successor[x] \notin {NoBlock, c} => successor[x] \in S
          PROVE  b \in S
      <4>1. d \in S
        BY <2>1, <3>2 DEF ReachableWithout
      <4>2. b \notin {NoBlock, c}
        BY <1>5, <1>7, DiscoverAssumption
      <4>3. QED
        BY <1>5, <3>2, <4>1, <4>2
    <3>3. b \in ReachableWithout(c)
      BY <1>5, <3>2 DEF ReachableWithout
    <3>4. QED
      BY <1>7, <3>3 DEF Dominates
  <2>2. QED
    BY <1>5, <2>1 DEF Dominates
<1>8. QED
  BY <1>5, <1>6, <1>7 DEF IsImmediateDominator, Dominates

(* What compute_dominators makes of a chain: the target alone has a        *)
(* predecessor that counts, so no path is ever compressed, and climbing    *)
(* from the parent ends at once.                                           *)
LEMMA PredecessorsOnChain ==
  ASSUME SearchInv, Chained, TablesOfChain, Answered, NEW n \in Nat \ {0}, n < Len(preorder)
  PROVE  /\ n = 1 => Predecessors(n) = [i \in 1 .. 1 |-> 0]
         /\ n # 1 => Predecessors(n) = [i \in 1 .. 0 |-> 0]
<1> DEFINE b == preorder[n + 1]
<1>1. /\ preorder \in Seq(Blocks) /\ Len(preorder) \in Nat \ {0} /\ preorder[1] = GraphEntry
      /\ \A i \in 1 .. Len(preorder) : preorder[i] \in Blocks /\ preorder[i] \in Reachable
      /\ \A i \in 1 .. Len(preorder) : preorderNum[preorder[i]] = i - 1
      /\ \A i, j \in 1 .. Len(preorder) : preorder[i] = preorder[j] => i = j
  BY FoundBlocks
<1>2. 1 \in 1 .. Len(preorder) /\ n + 1 \in 1 .. Len(preorder) /\ 2 \in 1 .. Len(preorder)
  BY <1>1
<1>3. b \in Blocks /\ b # GraphEntry /\ preorderNum[GraphEntry] = 0
  <2>1. n + 1 # 1
    OBVIOUS
  <2>2. QED
    BY <1>1, <1>2, <2>1
<1>4. preorder[2] = TargetEntry
  <2>1. 1 \in DOMAIN preorder /\ 1 < Len(preorder)
    BY <1>1, <1>2
  <2>2. successor[preorder[1]] = preorder[2]
    BY <2>1 DEF Chained
  <2>3. QED
    BY <1>1, <2>2 DEF SearchInv, Graphs
<1>5. ASSUME n = 1 PROVE Predecessors(n) = [i \in 1 .. 1 |-> 0]
  <2>1. b = TargetEntry /\ b \notin Joins
    BY <1>4, <1>5, DiscoverAssumption
  <2>2. slots[b][0] = GraphEntry
    <3>1. TargetEntry \in Discovered
      BY <1>1, <1>2, <1>4 DEF Discovered
    <3>2. QED
      BY <2>1, <3>1 DEF TablesOfChain
  <2>3. {i \in Places(b) : slots[b][i] # NoBlock} = {0}
    BY <2>1, <2>2, DiscoverAssumption DEF Places, Blocks
  <2>4. PredecessorCount(b) = 1
    BY <1>3, <2>3, FS_Singleton DEF PredecessorCount
  <2>5. Predecessors(n) = [i \in 1 .. 1 |-> preorderNum[slots[b][i - 1]]]
    BY <2>4 DEF Predecessors
  <2>6. \A i \in 1 .. 1 : preorderNum[slots[b][i - 1]] = 0
    BY <1>3, <2>2
  <2>7. QED
    BY <2>5, <2>6
<1>6. ASSUME n # 1 PROVE Predecessors(n) = [i \in 1 .. 0 |-> 0]
  <2>1. b # TargetEntry
    <3>1. n + 1 # 2
      BY <1>6
    <3>2. QED
      BY <1>1, <1>2, <1>4, <3>1
  <2>2. b \in Joins
    BY <1>3, <2>1 DEF Blocks
  <2>3. {i \in Places(b) : slots[b][i] # NoBlock} = {}
    BY <2>2 DEF Places, TablesOfChain
  <2>4. PredecessorCount(b) = 0
    BY <1>3, <2>3, FS_EmptySet DEF PredecessorCount
  <2>5. Predecessors(n) = [i \in 1 .. 0 |-> preorderNum[slots[b][i - 1]]]
    BY <2>4 DEF Predecessors
  <2>6. \A i \in 1 .. 0 : FALSE
    OBVIOUS
  <2>7. QED
    BY <2>5, <2>6
<1>7. QED
  BY <1>5, <1>6

Start == [parent |-> [n \in Numbers |-> parent[n + 1]],
          semi |-> [n \in Numbers |-> n], label |-> [n \in Numbers |-> n]]
OneIsUnderTheEntry == [n \in Numbers |-> IF n = 1 THEN 0 ELSE n]
AllLabelled == [parent |-> Start.parent, semi |-> OneIsUnderTheEntry, label |-> OneIsUnderTheEntry]

LEMMA LabelledOne ==
  ASSUME 1 \in Numbers, 0 \in Numbers, Predecessors(1) = [i \in 1 .. 1 |-> 0]
  PROVE  Labelled(Start, 1) = AllLabelled
<1> DEFINE over == CHOOSE over : over = [i \in 0 .. Len(Predecessors(1)) |->
                     IF i = 0 THEN Start ELSE Semidominator(over[i - 1], 1, Predecessors(1)[i])]
           g == [i \in 0 .. 1 |-> IF i = 0 THEN Start ELSE Semidominator(Start, 1, 0)]
<1>1. Len(Predecessors(1)) = 1 /\ Predecessors(1)[1] = 0
  <2>1. Predecessors(1) = <<0>>
    OBVIOUS
  <2>2. QED
    BY <2>1
<1>2. g = [i \in 0 .. Len(Predecessors(1)) |->
             IF i = 0 THEN Start ELSE Semidominator(g[i - 1], 1, Predecessors(1)[i])]
  <2>1. \A i \in 0 .. 1 : g[i] = IF i = 0 THEN Start ELSE Semidominator(g[i - 1], 1, Predecessors(1)[i])
    <3>1. g[0] = Start /\ g[1] = Semidominator(g[0], 1, Predecessors(1)[1])
      BY <1>1
    <3>2. \A i \in 0 .. 1 : i = 0 \/ i = 1
      OBVIOUS
    <3> HIDE DEF g
    <3>3. QED
      BY <3>1, <3>2
  <2>2. g = [i \in 0 .. 1 |-> g[i]]
    OBVIOUS
  <2> HIDE DEF g
  <2>3. QED
    BY <1>1, <2>1, <2>2
<1> HIDE DEF g
<1>3. over = [i \in 0 .. Len(Predecessors(1)) |->
                IF i = 0 THEN Start ELSE Semidominator(over[i - 1], 1, Predecessors(1)[i])]
  BY <1>2
<1>4. Labelled(Start, 1) = [over[1] EXCEPT !.label[1] = over[1].semi[1]]
  BY <1>1 DEF Labelled
<1> HIDE DEF over
<1>5. over[1] = Semidominator(Start, 1, 0)
  <2>1. over[0] = Start /\ over[1] = Semidominator(over[0], 1, 0)
    BY <1>1, <1>3
  <2>2. QED
    BY <2>1
<1>6. Semidominator(Start, 1, 0) = [Start EXCEPT !.semi[1] = minimum(Start.semi[1], Start.semi[0])]
  BY DEF Semidominator
<1>7. minimum(Start.semi[1], Start.semi[0]) = 0
  BY DEF Start, minimum
<1>8. Semidominator(Start, 1, 0) = [parent |-> Start.parent, semi |-> OneIsUnderTheEntry, label |-> Start.label]
  BY <1>6, <1>7 DEF Start, OneIsUnderTheEntry
<1>9. QED
  BY <1>4, <1>5, <1>8 DEF Start, OneIsUnderTheEntry, AllLabelled

LEMMA LabelledOther ==
  ASSUME NEW n \in Numbers, Predecessors(n) = [i \in 1 .. 0 |-> 0]
  PROVE  Labelled(Start, n) = Start
<1> DEFINE over == CHOOSE over : over = [i \in 0 .. Len(Predecessors(n)) |->
                     IF i = 0 THEN Start ELSE Semidominator(over[i - 1], n, Predecessors(n)[i])]
           g == [i \in 0 .. 0 |-> Start]
<1>1. Len(Predecessors(n)) = 0
  <2>1. Predecessors(n) = <<>>
    OBVIOUS
  <2>2. QED
    BY <2>1
<1>2. g = [i \in 0 .. Len(Predecessors(n)) |->
             IF i = 0 THEN Start ELSE Semidominator(g[i - 1], n, Predecessors(n)[i])]
  BY <1>1
<1> HIDE DEF g
<1>3. over = [i \in 0 .. Len(Predecessors(n)) |->
                IF i = 0 THEN Start ELSE Semidominator(over[i - 1], n, Predecessors(n)[i])]
  BY <1>2
<1>4. Labelled(Start, n) = [over[0] EXCEPT !.label[n] = over[0].semi[n]]
  BY <1>1 DEF Labelled
<1> HIDE DEF over
<1>5. over[0] = Start
  BY <1>1, <1>3
<1>6. QED
  BY <1>4, <1>5 DEF Start

(* The least element of a set of natural numbers.                          *)
LEMMA LeastOf ==
  ASSUME NEW S \in SUBSET Nat, S # {}
  PROVE  \E m \in S : \A k \in S : m <= k
<1> DEFINE R == OpToRel(<, Nat)
<1>1. IsWellFoundedOn(R, Nat)
  BY NatLessThanWellFounded
<1> HIDE DEF R
<1>2. PICK m \in S : \A k \in S : ~(<<k, m>> \in R)
  BY <1>1, WFMin
<1>3. \A k \in Nat : k < m => <<k, m>> \in R
  BY DEF R, OpToRel
<1>4. \A k \in S : ~(k < m)
  BY <1>2, <1>3
<1>5. \A k \in S : m <= k
  BY <1>4
<1>6. QED
  BY <1>5

LEMMA AllAreLabelled ==
  ASSUME SearchInv, Chained, TablesOfChain, Answered, Len(preorder) > 1,
         NEW labelled,
         labelled = CHOOSE f : f = [n \in 1 .. Len(parent) |->
                                      IF n = Len(parent) THEN Start ELSE Labelled(f[n + 1], n)]
  PROVE  labelled[1] = AllLabelled
<1> DEFINE L == Len(parent)
           g == [n \in 1 .. L |-> IF n = 1 THEN AllLabelled ELSE Start]
<1>1. L = Len(preorder) /\ L \in Nat /\ L > 1 /\ Numbers = 0 .. L - 1
  BY FoundBlocks DEF TablesOfChain, Numbers
<1> HIDE DEF L
<1>2. Labelled(Start, 1) = AllLabelled
  BY <1>1, PredecessorsOnChain, LabelledOne
<1>3. ASSUME NEW n \in 2 .. L - 1 PROVE Labelled(Start, n) = Start
  <2>1. n \in Nat \ {0} /\ n < Len(preorder) /\ n # 1 /\ n \in Numbers
    BY <1>1
  <2>2. QED
    BY <2>1, PredecessorsOnChain, LabelledOther
<1>4. g = [n \in 1 .. L |-> IF n = L THEN Start ELSE Labelled(g[n + 1], n)]
  <2>1. ASSUME NEW n \in 1 .. L PROVE g[n] = IF n = L THEN Start ELSE Labelled(g[n + 1], n)
    <3>1. CASE n = L
      BY <1>1, <3>1
    <3>2. CASE n # L
      <4>1. g[n + 1] = Start
        BY <1>1, <3>2
      <4>2. n = 1 \/ n \in 2 .. L - 1
        BY <1>1, <3>2
      <4>3. QED
        BY <1>1, <1>2, <1>3, <3>2, <4>1, <4>2
    <3>3. QED
      BY <3>1, <3>2
  <2>2. g = [n \in 1 .. L |-> g[n]]
    OBVIOUS
  <2> HIDE DEF g
  <2>3. QED
    BY <2>1, <2>2
<1> HIDE DEF g
<1> DEFINE f == labelled
<1>5. f = [n \in 1 .. L |-> IF n = L THEN Start ELSE Labelled(f[n + 1], n)]
  BY <1>4 DEF L
<1> HIDE DEF f
<1>6. \A n \in 2 .. L : f[n] = Start
  <2> DEFINE Bad == {k \in 0 .. L - 2 : f[L - k] # Start}
  <2>1. SUFFICES ASSUME Bad # {} PROVE FALSE
    <3>1. \A n \in 2 .. L : L - n \in 0 .. L - 2 /\ L - (L - n) = n
      BY <1>1
    <3>2. QED
      BY <3>1
  <2>2. PICK k \in Bad : \A j \in Bad : k <= j
    <3>1. Bad \in SUBSET Nat
      BY <1>1
    <3>2. QED
      BY <2>1, <3>1, LeastOf
  <2>3. k \in 0 .. L - 2 /\ f[L - k] # Start
    OBVIOUS
  <2>4. k # 0
    BY <1>1, <1>5, <2>3
  <2>5. k - 1 \in 0 .. L - 2 /\ ~(k <= k - 1) /\ L - (k - 1) = L - k + 1 /\ L - k \in 2 .. L - 1
    BY <1>1, <2>3, <2>4
  <2>6. f[L - k + 1] = Start
    BY <2>2, <2>5
  <2>7. L - k \in 1 .. L /\ L - k # L
    BY <1>1, <2>5
  <2>8. f[L - k] = Labelled(f[L - k + 1], L - k)
    BY <1>5, <2>7
  <2>9. QED
    BY <1>3, <2>3, <2>5, <2>6, <2>8
<1>7. f[1] = Labelled(f[2], 1) /\ f[2] = Start
  <2>1. 1 \in 1 .. L /\ 1 # L /\ 1 + 1 = 2 /\ 2 \in 2 .. L
    BY <1>1
  <2>2. f[1] = Labelled(f[1 + 1], 1)
    BY <1>5, <2>1
  <2>3. QED
    BY <1>6, <2>1, <2>2
<1>8. QED
  BY <1>2, <1>7 DEF f

LEMMA ClimbEndsAtOnce ==
  ASSUME SearchInv, TablesOfChain, Numbers = 0 .. Len(parent) - 1, Len(parent) \in Nat \ {0},
         NEW n \in Numbers, n # 0
  PROVE  Climbed(AllLabelled, n) = AllLabelled
<1> DEFINE up == AllLabelled.parent
           s == AllLabelled.semi[n]
           from == CHOOSE from : from = [d \in Numbers |-> IF d > s THEN from[up[d]] ELSE d]
           g == [d \in Numbers |-> IF d > s THEN s ELSE d]
<1>1. up = [m \in Numbers |-> m - 1]
  <2>1. \A m \in Numbers : parent[m + 1] = m - 1
    <3>1. DOMAIN parent = 1 .. Len(parent)
      BY DEF SearchInv, TypeOK
    <3>2. \A m \in Numbers : m + 1 \in DOMAIN parent
      BY <3>1
    <3>3. QED
      BY <3>2 DEF TablesOfChain
  <2>2. QED
    BY <2>1 DEF AllLabelled, Start
<1>2. s = IF n = 1 THEN 0 ELSE n
  BY DEF AllLabelled, OneIsUnderTheEntry
<1> HIDE DEF up, s
<1>3. s \in Nat /\ n \in Nat /\ s \in Numbers
  BY <1>2
<1>4. g = [d \in Numbers |-> IF d > s THEN g[up[d]] ELSE d]
  <2>1. ASSUME NEW d \in Numbers PROVE g[d] = IF d > s THEN g[up[d]] ELSE d
    <3>1. CASE d > s
      <4>1. d - 1 \in Numbers /\ d - 1 >= s /\ d \in Int
        BY <1>3, <3>1
      <4>2. up[d] = d - 1
        BY <1>1
      <4>3. g[d - 1] = s
        BY <1>3, <4>1
      <4>4. QED
        BY <3>1, <4>2, <4>3
    <3>2. CASE ~(d > s)
      BY <3>2
    <3>3. QED
      BY <3>1, <3>2
  <2>2. g = [d \in Numbers |-> g[d]]
    OBVIOUS
  <2> HIDE DEF g
  <2>3. QED
    BY <2>1, <2>2
<1> HIDE DEF g
<1>5. from = [d \in Numbers |-> IF d > s THEN from[up[d]] ELSE d]
  BY <1>4
<1>6. Climbed(AllLabelled, n) = [AllLabelled EXCEPT !.parent[n] = from[up[n]]]
  BY DEF Climbed, up, s
<1> HIDE DEF from
<1>7. from[up[n]] = up[n]
  <2>1. up[n] = n - 1 /\ n - 1 \in Numbers /\ ~(n - 1 > s)
    BY <1>1, <1>2, <1>3
  <2>2. QED
    BY <1>5, <2>1
<1>8. [up EXCEPT ![n] = up[n]] = up
  BY <1>1
<1>9. QED
  BY <1>6, <1>7, <1>8 DEF AllLabelled, up

LEMMA ComputedOnChain ==
  ASSUME SearchInv, Chained, TablesOfChain, Answered, NEW n \in Numbers, n # 0
  PROVE  compute_dominators[n] = n - 1
<1> DEFINE L == Len(parent)
           labelled == CHOOSE f : f = [m \in 1 .. Len(parent) |->
                         IF m = Len(parent) THEN Start ELSE Labelled(f[m + 1], m)]
           climbed == CHOOSE f : f = [m \in Numbers |->
                         IF m = 0 THEN labelled[1] ELSE Climbed(f[m - 1], m)]
           g == [m \in Numbers |-> AllLabelled]
<1>1. /\ L = Len(preorder) /\ L \in Nat \ {0} /\ Numbers = 0 .. L - 1 /\ L > 1
      /\ \A i \in 1 .. L : parent[i] = i - 2
  <2>1. L = Len(preorder) /\ L \in Nat \ {0} /\ Numbers = 0 .. L - 1 /\ L > 1
    BY FoundBlocks DEF TablesOfChain, Numbers
  <2>2. DOMAIN parent = 1 .. L
    BY DEF SearchInv, TypeOK
  <2>3. QED
    BY <2>1, <2>2 DEF TablesOfChain
<1>2. compute_dominators = climbed[L - 1].parent
  BY DEF compute_dominators, Start
<1>3. labelled[1] = AllLabelled
  BY <1>1, AllAreLabelled
<1> HIDE DEF labelled
<1>4. \A m \in Numbers : m # 0 => Climbed(AllLabelled, m) = AllLabelled
  BY <1>1, ClimbEndsAtOnce
<1>5. g = [m \in Numbers |-> IF m = 0 THEN labelled[1] ELSE Climbed(g[m - 1], m)]
  <2>1. \A m \in Numbers : m # 0 => m - 1 \in Numbers
    BY <1>1
  <2>2. \A m \in Numbers : g[m] = IF m = 0 THEN labelled[1] ELSE Climbed(g[m - 1], m)
    BY <1>3, <1>4, <2>1
  <2>3. g = [m \in Numbers |-> g[m]]
    OBVIOUS
  <2> HIDE DEF g
  <2>4. QED
    BY <2>2, <2>3
<1> HIDE DEF g
<1> DEFINE f == climbed
<1>6. f = [m \in Numbers |-> IF m = 0 THEN labelled[1] ELSE Climbed(f[m - 1], m)]
  BY <1>5
<1> HIDE DEF f
<1>7. \A m \in Numbers : f[m] = AllLabelled
  <2> DEFINE Bad == {m \in Numbers : f[m] # AllLabelled}
  <2>1. SUFFICES ASSUME Bad # {} PROVE FALSE
    OBVIOUS
  <2>2. PICK k \in Bad : \A j \in Bad : k <= j
    <3>1. Bad \in SUBSET Nat
      BY <1>1
    <3>2. QED
      BY <2>1, <3>1, LeastOf
  <2>3. k \in Numbers /\ f[k] # AllLabelled
    OBVIOUS
  <2>4. k # 0
    BY <1>3, <1>6, <2>3
  <2>5. k - 1 \in Numbers /\ ~(k <= k - 1)
    BY <1>1, <2>3, <2>4
  <2>6. f[k - 1] = AllLabelled
    BY <2>2, <2>5
  <2>7. f[k] = Climbed(f[k - 1], k)
    BY <1>6, <2>3, <2>4
  <2>8. QED
    BY <1>4, <2>3, <2>4, <2>6, <2>7
<1>8. compute_dominators = AllLabelled.parent
  BY <1>1, <1>2, <1>7 DEF f
<1>9. AllLabelled.parent[n] = parent[n + 1]
  BY DEF AllLabelled, Start
<1>10. parent[n + 1] = n - 1
  BY <1>1
<1>11. QED
  BY <1>8, <1>9, <1>10

(* After the search, what compute_dominators returns are the immediate     *)
(* dominators, whatever the blocks held before.                            *)
THEOREM DominatorsAreRight == Spec => []DominatorsAreExact
<1>1. Init => Chained /\ TablesOfChain
  <2> SUFFICES ASSUME Init PROVE Chained /\ TablesOfChain
    OBVIOUS
  <2>1. Chained
    BY DEF Init, Chained
  <2>2. \A j \in Joins : slots[j] = NoSlots
    BY DEF Init, Blocks
  <2>3. parent = <<>> /\ preorder = <<>>
    BY DEF Init
  <2>4. \A j \in Joins : slots[j][0] = NoBlock /\ slots[j][1] = NoBlock
    BY <2>2 DEF NoSlots
  <2>5. TargetEntry \notin Discovered
    BY <2>3 DEF Discovered
  <2>6. Len(parent) = Len(preorder) /\ \A i \in DOMAIN parent : parent[i] = i - 2
    BY <2>3
  <2>7. QED
    BY <2>1, <2>4, <2>5, <2>6 DEF TablesOfChain
<1>2. SearchInv /\ Chained /\ TablesOfChain /\ [Next]_vars => (Chained /\ TablesOfChain)'
  BY ChainedStep, TablesStep
<1>3. SearchInv /\ Chained /\ TablesOfChain => DominatorsAreExact
  <2> SUFFICES ASSUME SearchInv, Chained, TablesOfChain, Answered, NEW n \in Numbers \ {0}
               PROVE  IsImmediateDominator(preorder[compute_dominators[n] + 1], preorder[n + 1])
    BY DEF DominatorsAreExact
  <2>1. compute_dominators[n] = n - 1
    BY ComputedOnChain
  <2>2. n \in Nat \ {0} /\ n < Len(preorder)
    BY FoundBlocks DEF TablesOfChain, Numbers
  <2>3. n - 1 + 1 = n
    BY <2>2
  <2>4. QED
    BY <2>1, <2>2, <2>3, DominatorOnChain
<1>4. QED
  BY <1>1, <1>2, <1>3, SearchCorrect, PTL DEF Spec
=============================================================================
