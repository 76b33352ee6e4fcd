------------------------------ MODULE Allocator -----------------------------
(***************************************************************************)
(* The register allocator and the emission of code, src/src/codegen/       *)
(* ra_allocator.c, x64/il_codegen.c and the end of src/src/main.c, for the *)
(* graphs of the builder: an entry and one block that ends in a return.    *)
(* The instructions are numbered and processed backwards, the definitions  *)
(* of the entry hand their constants to whoever uses them, and the block   *)
(* is emitted forwards.                                                    *)
(*                                                                         *)
(* A slot is a location that is written later, <<i, k>> for input k of     *)
(* instruction i and <<0, m>> for the source of the m-th move.  Of a live  *)
(* range the positions and slots of its uses are kept; LiveRange has its   *)
(* intervals, which nothing here reads: every instruction is a definition, *)
(* so that the allocator leaves its output alone and its work list stays   *)
(* empty until a range is split.                                           *)
(***************************************************************************)
EXTENDS Il, X64

CONSTANT Addresses      \* of the objects that constants stand for

VARIABLES graph,
          todo,         \* the instructions still to process, or to emit
          uses, slots, moves,
          done,         \* how many definitions of the entry are processed
          machine       \* the bytes that are emitted

allocVars == <<todo, uses, slots, moves, done, machine>>

-----------------------------------------------------------------------------
(* Locations.                                                              *)
Location(kind, of) == [kind |-> kind, of |-> of]
AnyLocation == Location("any", 0)

(* make_location_summary: where an instruction wants its inputs.           *)
return_make_loc_summary    == Location("register", RAX)
binary_op_make_loc_summary == Location("requires fpu register", 0)
box_make_loc_summary       == Location("requires fpu register", 0)
unbox_make_loc_summary     == Location("requires register", 0)
InputLocation(instr) ==
  CASE instr.tag = "return" -> return_make_loc_summary
    [] instr.tag = "binary" -> binary_op_make_loc_summary
    [] instr.tag = "box"    -> box_make_loc_summary
    [] instr.tag = "unbox"  -> unbox_make_loc_summary

IsUnallocated(loc) == loc.kind \in {"any", "requires register", "requires fpu register"}
IsBeneficial(loc) == loc # AnyLocation

(* number_instructions.  The list of instructions by position gets the     *)
(* block's info behind every instruction, but not behind the blocks, so    *)
(* that from the first instruction on the two are apart.  The list of      *)
(* infos has one entry for each of the two blocks.                         *)
EntryBlock == -2
TargetBlock == -3
BlockInfo == -4
Instructions == <<EntryBlock, TargetBlock>> \o FlattenSeq([n \in DOMAIN graph.chain |-> <<graph.chain[n], BlockInfo>>])
InstructionAt(pos) == Instructions[(pos \div 2) + 1]

LifetimePos(i) == 2 + 2 * (CHOOSE n \in DOMAIN graph.chain : graph.chain[n] = i)
IndexOf(d) == graph.code[d].ssa

Behind(i) == IF i = TargetBlock THEN First(graph) ELSE After(graph, i)

-----------------------------------------------------------------------------
(* A plausible slip in the code below, used to test a property.            *)
BehindItself(i) == InstructionAt(LifetimePos(i))
-----------------------------------------------------------------------------
(* The liveness analysis asks every instruction for its locations.         *)
AllocateStarts ==
  /\ todo' = graph.chain
  /\ slots' = [s \in {<<i, k>> \in ToSet(graph.chain) \X {1, 2} : k <= InputCount(graph, i)} |->
                 InputLocation(graph.code[s[1]])]
  /\ uses' = [v \in 0 .. graph.ssa - 1 |-> {}]
  /\ moves' = <<>> /\ done' = 0 /\ machine' = <<>>
  /\ UNCHANGED graph

(* add_move_at, one position in front of the instruction: the move comes   *)
(* behind whatever the list has there.                                     *)
MoveIsBehind(i) == InstructionAt(LifetimePos(i) - 1)

FixedInput ==
  /\ todo # <<>> /\ graph.code[Last(todo)].tag = "return"
  /\ LET i == Last(todo)
         input == graph.code[i].inputs[1]
         slot == <<0, Len(moves) + 1>>
     IN  /\ MoveIsBehind(i) # BlockInfo
         /\ moves' = Append(moves, [before |-> Behind(MoveIsBehind(i)), dest |-> slots[<<i, 1>>]])
         /\ slots' = slot :> AnyLocation @@ slots
         /\ uses' = [uses EXCEPT ![IndexOf(input)] = @ \cup {<<LifetimePos(i) - 1, slot>>}]
  /\ todo' = Front(todo)
  /\ UNCHANGED <<graph, done, machine>>

(* No output is the same as the first input: its policy is cut off, so all *)
(* inputs are processed here.                                              *)
UnallocatedInputs ==
  /\ todo # <<>> /\ IsUnallocated(InputLocation(graph.code[Last(todo)]))
  /\ LET i == Last(todo)
         inputs == graph.code[i].inputs
     IN  uses' = [v \in DOMAIN uses |->
                    uses[v] \cup {<<LifetimePos(i) + 1, <<i, k>>>> : k \in {j \in DOMAIN inputs : IndexOf(inputs[j]) = v}}]
  /\ todo' = Front(todo)
  /\ UNCHANGED <<graph, slots, moves, done, machine>>

(* process_initial_definition and convert_all_uses.                        *)
BeneficialUses(d) ==
  {use \in uses[IndexOf(d)] : IsUnallocated(slots[use[2]]) /\ IsBeneficial(slots[use[2]])}

InitialDefinition ==
  /\ todo = <<>> /\ done < Len(graph.pool)
  /\ LET d == graph.pool[done + 1]
         used == {use[2] : use \in uses[IndexOf(d)]}
     IN  /\ BeneficialUses(d) = {}
         /\ slots' = [s \in DOMAIN slots |-> IF s \in used THEN Location("constant", d) ELSE slots[s]]
  /\ done' = done + 1
  /\ UNCHANGED <<graph, todo, uses, moves, machine>>

AllocateNext == FixedInput \/ UnallocatedInputs \/ InitialDefinition
AllocateEnds == todo = <<>> /\ done = Len(graph.pool)

(* The info of the block is followed as if it were an instruction, or a    *)
(* range is split at a use, whose position is beyond the list of infos.    *)
AllocateIsUndefined ==
  \/ /\ todo # <<>> /\ graph.code[Last(todo)].tag = "return"
     /\ MoveIsBehind(Last(todo)) = BlockInfo
  \/ /\ todo = <<>> /\ done < Len(graph.pool)
     /\ \E use \in BeneficialUses(graph.pool[done + 1]) : use[1] \div 2 >= Cardinality({EntryBlock, TargetBlock})

-----------------------------------------------------------------------------
EmitStarts == todo' = graph.chain /\ UNCHANGED <<graph, uses, slots, moves, done, machine>>

(* The moves main.c knows are those from a constant.                       *)
EmittedMove(m) ==
  LET src == slots[<<0, m>>]
  IN  IF src.kind = "constant"
      THEN asm_movq_ri(moves[m].dest.of, Addresses[graph.code[src.of].data])
      ELSE <<>>
EmittedMoves(i) ==
  FlattenSeq([m \in DOMAIN moves |-> IF moves[m].before = i THEN EmittedMove(m) ELSE <<>>])

(* A return is the only instruction that gets here.                        *)
EmitReturn ==
  /\ todo # <<>> /\ graph.code[Head(todo)].tag = "return"
  /\ machine' = machine \o EmittedMoves(Head(todo)) \o asm_ret
  /\ todo' = Tail(todo)
  /\ UNCHANGED <<graph, uses, slots, moves, done>>

EmitEnds == todo = <<>>
=============================================================================
