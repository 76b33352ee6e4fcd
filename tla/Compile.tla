------------------------------- MODULE Compile ------------------------------
(***************************************************************************)
(* The passes between a syntax tree and machine code, one after the other  *)
(* on one graph, as src/src/main.c runs them: the graph is built and       *)
(* renamed, the representations are selected, constants are propagated,    *)
(* registers are allocated and the code is emitted.                        *)
(* Selection and propagation are separate calls.  main.c selects first,    *)
(* and then every operation has unboxes for operands, which no visitor     *)
(* knows; a caller may as well propagate first, and constants fold.        *)
(***************************************************************************)
EXTENDS Builder, InitialSets

CONSTANTS Asts,         \* the bodies that are compiled
          StackLocals,  \* how many variables their functions have
          Numbers,      \* the literals in them that are numbers
          Addresses     \* of the objects their literals are

ASSUME StackLocalsAssumption == StackLocals \in 0 .. 3
ASSUME NumbersAssumption == Numbers \subseteq DOMAIN Addresses \ {"nil"}
ASSUME AddressesAssumption ==
  /\ \A value \in DOMAIN Addresses : Addresses[value] \in Int
  /\ IsInjective(Addresses)

VARIABLES built,                             \* history: the graph of the builder
          propagateFirst,                    \* the order its caller takes
          pass, graph,
          env, at, lastLoads,                \* renaming
          initial, it,                       \* selection of representations
          known, blocks, defs, visiting, reachable,    \* constant propagation
          todo, uses, slots, moves, done, machine      \* allocation and emission

allocVars == <<todo, uses, slots, moves, done, machine>>
renameVars == <<env, at, lastLoads>>
vars == <<built, propagateFirst, pass, graph, renameVars, initial, it,
          known, blocks, defs, visiting, reachable, allocVars>>

R == INSTANCE Rename
S == INSTANCE Representations
P == INSTANCE ConstProp
A == INSTANCE Allocator
Cpu == INSTANCE Processor

Init ==
  /\ built \in {Build(ast) : ast \in Asts}
  /\ propagateFirst \in BOOLEAN
  /\ pass = "rename"
  /\ R!RenameBegins(built)
  /\ initial = 0 /\ it = NoIndex
  /\ known = <<>> /\ blocks = <<>>
  /\ defs = <<>> /\ visiting = <<>> /\ reachable = {}
  /\ todo = <<>> /\ uses = <<>> /\ slots = <<>> /\ moves = <<>>
  /\ done = 0 /\ machine = <<>>

-----------------------------------------------------------------------------
propagateVars == <<known, blocks, defs, visiting, reachable>>

RenamePass ==
  /\ pass = "rename" /\ R!RenameNext
  /\ UNCHANGED <<built, propagateFirst, pass, initial, it, propagateVars, allocVars>>
SelectPass ==
  /\ pass = "select" /\ S!SelectNext
  /\ UNCHANGED <<built, propagateFirst, pass, renameVars, propagateVars, allocVars>>
PropagatePass ==
  /\ pass = "propagate" /\ P!PropagateNext
  /\ UNCHANGED <<built, propagateFirst, pass, renameVars, initial, it, allocVars>>
AllocatePass ==
  /\ pass = "allocate" /\ A!AllocateNext
  /\ UNCHANGED <<built, propagateFirst, pass, renameVars, initial, it, propagateVars>>
EmitPass ==
  /\ pass = "emit" /\ A!EmitReturn
  /\ UNCHANGED <<built, propagateFirst, pass, renameVars, initial, it, propagateVars>>

(* One pass returns and the next is called.                                *)
StartSelect ==
  /\ pass' = "select"
  /\ S!SelectStarts
  /\ UNCHANGED <<built, propagateFirst, renameVars, propagateVars, allocVars>>
StartPropagate ==
  /\ pass' = "propagate"
  /\ P!PropagateStarts
  /\ UNCHANGED <<built, propagateFirst, renameVars, initial, it, allocVars>>
StartAllocate ==
  /\ pass' = "allocate"
  /\ A!AllocateStarts
  /\ UNCHANGED <<built, propagateFirst, renameVars, initial, it, propagateVars>>

RenameReturns ==
  /\ pass = "rename" /\ at = NoIndex
  /\ IF propagateFirst THEN StartPropagate ELSE StartSelect
SelectReturns ==
  /\ pass = "select" /\ initial = Len(graph.pool) /\ it = NoIndex
  /\ IF propagateFirst THEN StartAllocate ELSE StartPropagate
PropagateReturns ==
  /\ pass = "propagate" /\ blocks = <<>> /\ defs = <<>> /\ visiting = <<>>
  /\ IF propagateFirst THEN StartSelect ELSE StartAllocate
(* An operand that is no number: the compiler calls abort.                 *)
PropagateAborts ==
  /\ pass = "propagate" /\ P!VisitAborts
  /\ pass' = "aborted"
  /\ UNCHANGED <<built, propagateFirst, graph, renameVars, initial, it, propagateVars, allocVars>>
AllocateReturns ==
  /\ pass = "allocate" /\ A!AllocateEnds
  /\ pass' = "emit"
  /\ A!EmitStarts
  /\ UNCHANGED <<built, propagateFirst, renameVars, initial, it, propagateVars>>
(* What follows a read of what is not there is not followed.               *)
AllocateIsLost ==
  /\ pass = "allocate" /\ A!AllocateIsUndefined
  /\ pass' = "undefined"
  /\ UNCHANGED <<built, propagateFirst, graph, renameVars, initial, it, propagateVars, allocVars>>
EmitReturns ==
  /\ pass = "emit" /\ A!EmitEnds
  /\ pass' = "done"
  /\ UNCHANGED <<built, propagateFirst, graph, renameVars, initial, it, propagateVars, allocVars>>

Next == \/ RenamePass \/ RenameReturns
        \/ SelectPass \/ SelectReturns
        \/ PropagatePass \/ PropagateReturns \/ PropagateAborts
        \/ AllocatePass \/ AllocateReturns \/ AllocateIsLost
        \/ EmitPass \/ EmitReturns

Spec == Init /\ [][Next]_vars

(* The compiler runs on until it returns.                                  *)
FairSpec == Spec /\ WF_vars(Next)

-----------------------------------------------------------------------------
Ids == DOMAIN graph.code
Linked == ToSet(graph.chain)
Renamed == {i \in Linked : pass = "rename" /\ at # NoIndex =>
              \A p, q \in DOMAIN graph.chain :
                graph.chain[p] = i /\ graph.chain[q] = at => p < q}

InstrTypeOK(instr) ==
  /\ instr.tag \in {"constant", "binary", "load", "store", "return", "box", "unbox"}
  /\ \A k \in DOMAIN instr.inputs : instr.inputs[k] \in Ids
  /\ instr.temp \in Int /\ instr.ssa \in Int

Loads == {i \in ToSet(built.chain) : built.code[i].tag = "load"}

Allocating == pass \in {"allocate", "emit", "done", "undefined"}

(* Every instruction is one the passes can make, and every variable of a   *)
(* pass is what it iterates over.                                          *)
TypeOK == /\ propagateFirst \in BOOLEAN
          /\ pass \in {"rename", "select", "propagate", "allocate", "emit", "done", "undefined", "aborted"}
          /\ ToSet(todo) \subseteq Linked /\ done \in 0 .. Len(graph.pool)
          /\ \A i \in Ids : InstrTypeOK(graph.code[i])
          /\ Linked \cup ToSet(graph.pool) \cup ToSet(env.data) \cup ToSet(defs) \cup ToSet(visiting)
                \subseteq Ids
          /\ {at, it} \subseteq Ids \cup {NoIndex}
          /\ initial \in 0 .. Len(graph.pool)
          /\ DOMAIN known \subseteq Ids
          /\ reachable \subseteq {"target"}

(* The list of uses of a definition holds exactly the inputs that point at *)
(* it, each once.  Without loads nothing yields a value twice.             *)
UsesAreInputs ==
  \A d \in Ids :
    /\ ToSet(graph.code[d].uses) = {<<i, k>> \in Renamed \X {1, 2} :
         k <= InputCount(graph, i) /\ graph.code[i].inputs[k] = d}
    /\ IsInjective(graph.code[d].uses)
    /\ Loads = {} => Len(graph.code[d].uses) <= 1

(* No two definitions share an index, and all indices are below the count  *)
(* the allocator dimensions its tables with.                               *)
IndicesApart ==
  \A d \in Ids : graph.code[d].ssa # NoIndex =>
    /\ graph.code[d].ssa \in 0 .. graph.ssa - 1
    /\ \A e \in Ids : graph.code[e].ssa = graph.code[d].ssa => e = d

(* The temporary the builder gave a value is its place in the environment, *)
(* and the stack always holds what is popped.                              *)
TempIsDepth ==
  pass = "rename" /\ at # NoIndex =>
    LET depth == env.size - InputCount(graph, at)
    IN  depth >= 0 /\ graph.code[at].temp \in {NoIndex, depth}

(* What the passes rely on between their steps.                            *)
CompileInv == TypeOK /\ UsesAreInputs /\ IndicesApart /\ TempIsDepth

-----------------------------------------------------------------------------
(* The definition a value of the builder comes to be: a store is what it   *)
(* stores.                                                                 *)
Meant == LET f[d \in DOMAIN built.code] ==
               IF built.code[d].tag = "store" THEN f[built.code[d].inputs[1]] ELSE d
         IN  f

(* What becomes of it when variables are loaded, up to three of them: they *)
(* share their words with the temporaries.  A load that is marked as the   *)
(* last one of its variable empties the word, in favour of a null; the     *)
(* third variable escapes the mark as long as no load of the other two     *)
(* comes later.                                                            *)
Places == DOMAIN built.chain
At(p) == built.code[built.chain[p]]
IsLoad(p, word) == At(p).tag = "load" /\ At(p).data.bit = word
IsNoticed(p, word) ==
  IsLoad(p, word) /\ (word < 2 \/ \E q \in Places : q > p /\ (IsLoad(q, 0) \/ IsLoad(q, 1)))
Empties(p, word) ==
  IsNoticed(p, word) /\ \A q \in Places : q > p => ~IsNoticed(q, word)

(* What a word holds when the p-th instruction is reached: what was left   *)
(* there last, NoIndex for a null.                                         *)
LastOf(p, word) ==
  Max({q \in Places : q < p /\ (At(q).temp = word \/ Empties(q, word))} \cup {0})
Holds ==
  LET held[p \in Places, word \in 0 .. Len(built.chain)] ==
        LET q == LastOf(p, word)
        IN  CASE q = 0 \/ At(q).temp # word -> NoIndex
              [] At(q).tag = "load"  -> held[q, At(q).data.bit]
              [] At(q).tag = "store" -> held[q, built.code[At(q).inputs[1]].temp]
              [] OTHER -> built.chain[q]
  IN  held

(* The operand that instruction i of the builder has as its k-th input.    *)
Operand(i, k) ==
  Holds[CHOOSE p \in Places : built.chain[p] = i, built.code[built.code[i].inputs[k]].temp]

Behind(d) == IF graph.code[d].tag \in {"box", "unbox"} THEN graph.code[d].inputs[1] ELSE d

SameValue(d, e) ==
  IF e = NoIndex THEN d = R!BlocksNull(graph)
  ELSE IF built.code[e].tag = "constant"
  THEN d \in ToSet(graph.pool) /\ graph.code[d].data = built.code[e].data
  ELSE d = e

(* Renaming forgets what the builder pointed an input at and takes what    *)
(* the stack holds; selection puts conversions in between.  All the same,  *)
(* every instruction computes with the values the syntax tree gave it, as  *)
(* long as no variable is loaded, and else with what the words hold that   *)
(* variables and temporaries share.                                        *)
InputsAreMeant ==
  \A i \in Renamed \cap DOMAIN built.code : \A k \in DOMAIN graph.code[i].inputs :
    /\ SameValue(Behind(graph.code[i].inputs[k]), Operand(i, k))
    /\ Loads = {} => SameValue(Behind(graph.code[i].inputs[k]), Meant[built.code[i].inputs[k]])

(* Uses of one value that want it in another representation, the latest    *)
(* one first.                                                              *)
Wants(i, k) ==
  InputRepresentation(graph.code[i]) # Representation(graph.code[Behind(graph.code[i].inputs[k])])
IsBefore(i, k, j, l) ==
  \/ i = j /\ l < k
  \/ \E p, q \in DOMAIN graph.chain : p < q /\ graph.chain[p] = i /\ graph.chain[q] = j
IsLatest(i, k) ==
  \A j \in Linked : \A l \in DOMAIN graph.code[j].inputs :
    Behind(graph.code[j].inputs[l]) = Behind(graph.code[i].inputs[k]) /\ Wants(j, l) => ~IsBefore(i, k, j, l)

(* Once representations are selected, a user is handed the one it wants,   *)
(* unless a later user of the same value wants it too: the loop over the   *)
(* uses leaves the list with the first one it converts.  Without loads no  *)
(* value has a second user.                                                *)
RepresentationsAgree ==
  Allocating \/ (pass = "propagate" /\ ~propagateFirst) =>
    \A i \in Linked : \A k \in DOMAIN graph.code[i].inputs :
      /\ Wants(i, k) => ((Behind(graph.code[i].inputs[k]) # graph.code[i].inputs[k]) <=> IsLatest(i, k))
      /\ Loads = {} \/ ~Wants(i, k) => Representation(graph.code[graph.code[i].inputs[k]]) = InputRepresentation(graph.code[i])

(* What an operation of the tree computes, unless an operand is nil or is  *)
(* hidden behind a conversion; with an operand that is no number, nothing. *)
IsHidden(i, k) == ~propagateFirst /\ Behind(graph.code[i].inputs[k]) # graph.code[i].inputs[k]
NoValue == <<"none">>
Value == LET f[d \in DOMAIN built.code \cup {NoIndex}] ==
               IF d = NoIndex THEN P!Unknown
               ELSE IF built.code[d].tag # "binary" THEN P!Literal(built.code[d].data)
               ELSE LET l == f[Operand(d, 1)]
                        r == f[Operand(d, 2)]
                    IN  IF IsHidden(d, 1) \/ IsHidden(d, 2) \/ {l, r} \cap {P!Unknown, P!Literal("nil"), NoValue} # {}
                        THEN P!Unknown
                        ELSE IF P!IsNumber(l) /\ P!IsNumber(r) THEN <<built.code[d].data, l, r>>
                        ELSE NoValue
         IN  f

(* Once the worklists are empty, every operation on numbers is folded to   *)
(* the value its operands give it, and no other operation is; behind a     *)
(* conversion none is.  The compiler aborts exactly when some operation is *)
(* on constants of which one is no number, whatever was folded before.     *)
FoldsAreRight ==
  /\ Allocating \/ (pass = "select" /\ propagateFirst) =>
       \A i \in Linked : graph.code[i].tag = "binary" => known[i] = Value[i] /\ Value[i] # NoValue
  /\ pass = "aborted" => \E i \in Linked : graph.code[i].tag = "binary" /\ Value[i] = NoValue

(* What the allocator starts its liveness from: live into the block is     *)
(* exactly what its instructions read of the entry, so that the function   *)
(* needs nothing from outside and no conversion is read before it is made. *)
LiveInComesFromEntry ==
  Allocating =>
    LET read == {d \in ToSet(graph.pool) : \E i \in Linked : d \in ToSet(graph.code[i].inputs)}
    IN  /\ TargetSets(graph).liveIn = IndicesOf(graph, read)
        /\ TargetSets(graph).liveIn \subseteq EntrySets(graph).kill
        /\ TargetSets(graph).kill \cap EntrySets(graph).kill = {}

(* A body that only returns a constant, whatever stores and loads it went  *)
(* through, becomes the code that returns this object: its address is      *)
(* moved to the register of results, in front of the return and once.      *)
(* With an operation in the body the allocator loses its way, and only     *)
(* then.                                                                   *)
CodeReturnsMeant ==
  LET returned == CHOOSE i \in Linked : graph.code[i].tag = "return"
      operand  == Operand(returned, 1)
      object   == IF operand = NoIndex THEN "nil" ELSE built.code[operand].data
  IN  /\ pass = "done" =>
           Cpu!Listing(machine) =
             <<Cpu!Instr("mov", Cpu!Reg(A!RAX), Cpu!Imm(Addresses[object])),
               Cpu!Instr("ret", Cpu!None, Cpu!None)>>
      /\ pass \in {"done", "undefined"} =>
           (pass = "undefined") = (\E i \in Linked : graph.code[i].tag = "binary")

(* The worklists run empty, every list that grows is walked to its end,    *)
(* and each body comes to its code, to an abort, or to where the allocator *)
(* is lost.                                                                *)
CompileEnds == <>(pass \in {"done", "undefined", "aborted"})
=============================================================================
