------------------------------- MODULE Location -------------------------------
(***************************************************************************)
(* Locations: where a value is, or may be, packed into one machine word    *)
(* (src/src/location.c, src/include/mun/location.h, bitfield.h).  The      *)
(* emitter fills in the locations of an instruction, the allocator reads   *)
(* and rewrites them.  A bit field is given by the weight of its lowest    *)
(* bit and the number of its values.  The field of the stack index, which  *)
(* takes what the kind and the base register leave of the word, has        *)
(* StackIndices values.                                                    *)
(*                                                                         *)
(* kStackIndexBias is 1 << 54 computed in int, which the language leaves   *)
(* undefined: Biases are the outcomes (0 when the compiler folds it, a     *)
(* small power of two when the machine shifts, a negative number when the  *)
(* shift saturates).                                                       *)
(***************************************************************************)
EXTENDS Integers, FiniteSets

CONSTANTS StackIndices,  \* 2 ^ 55 in the program
          Registers,     \* register numbers, cpu and fpu
          Slots,         \* stack slots that are handed out, some negative
          Objects,       \* addresses of constants
          Biases

Kinds == 16              \* 2 ^ kBitsForKind
BaseRegs == 32           \* 2 ^ kBitsForBaseReg
Payloads == BaseRegs * StackIndices
Words == Kinds * Payloads
FPREG == 5

(* malloc returns multiples of 16, so an address leaves the kind bits free.*)
(* Frames are far smaller than half of what the field of a slot can tell   *)
(* apart.                                                                  *)
ASSUME LocationAssumption ==
  /\ StackIndices \in Nat \ {0}
  /\ Registers \subseteq 0 .. 15 /\ FPREG \in Registers
  /\ Slots \subseteq Int /\ Biases \subseteq Int
  /\ \A slot \in Slots : -StackIndices <= 2 * slot /\ 2 * slot < StackIndices
  /\ \A o \in Objects : o \in 0 .. Words - 1 /\ o % 16 = 0

VARIABLES bias,      \* what kStackIndexBias is in this build
          word,      \* the locations: one input and the output of an instruction
          meant      \* history: what they were last set to
vars == <<bias, word, meant>>

Cells == {"input", "output"}
kinds == [invalid |-> 0, constant |-> 1, unallocated |-> 3, stack_slot |-> 4,
          double_stack_slot |-> 7, register |-> 8, fpu_register |-> 12]
policies == [any |-> 1, prefers_register |-> 2, requires_register |-> 4,
             requires_fpu_register |-> 8, same_as_first_input |-> 16]

(* What a location can be set to: a kind and its data.                     *)
Meanings == ({"invalid"} \X {0}) \cup ({"constant"} \X Objects)
            \cup ({"unallocated"} \X DOMAIN policies)
            \cup ({"stack_slot"} \X (Registers \X Slots))
            \cup ({"double_stack_slot"} \X ({FPREG} \X Slots))
            \cup ({"register", "fpu_register"} \X Registers)

-----------------------------------------------------------------------------
(* Plausible slips in the code below, each used to test a property.        *)
AllocatedMasksWithKind(kind, payload) == kinds[kind] + Kinds * (payload % 16)
-----------------------------------------------------------------------------
(* bit_field_decode; its argument is a word and its result masked.         *)
Decode(weight, values, w) == (w \div weight) % values

(* loc_get_kind, loc_get_payload, loc_get_policy                           *)
Kind(w) == Decode(1, Kinds, w)
Payload(w) == Decode(Kinds, Payloads, w)
Policy(w) == Decode(1, 8, Payload(w))

(* loc_get_stack_slot and loc_get_constant                                 *)
StackSlot(w) == Decode(BaseRegs, StackIndices, Payload(w)) - bias
Constant(w) == w - (w % 4)

(* allocated() and unallocated(): bit_field_encode does not mask, but what *)
(* does not fit in the word is shifted out.                                *)
Allocated(kind, payload) == (kinds[kind] + Kinds * payload) % Words

(* encode_stack_index and the two fields of a stack slot's payload         *)
StackPayload(base, slot) == base + BaseRegs * (bias + slot)

(* loc_init and its variants, loc_hint_pr, loc_hint_rr, loc_hint_rx        *)
WordOf(m) ==
  CASE m[1] = "invalid" -> 0
    [] m[1] = "constant" -> m[2] + kinds.constant
    [] m[1] = "unallocated" -> Allocated("unallocated", policies[m[2]])
    [] m[1] \in {"stack_slot", "double_stack_slot"} -> Allocated(m[1], StackPayload(m[2][1], m[2][2]))
    [] OTHER -> Allocated(m[1], m[2])

(* loc_summary_make: the inputs require a register, the output is given.   *)
Init == /\ bias \in Biases
        /\ \E m \in Meanings :
             meant = [input |-> <<"unallocated", "requires_register">>, output |-> m]
        /\ word = [c \in Cells |-> WordOf(meant[c])]

Set(c, m) == /\ word' = [word EXCEPT ![c] = WordOf(m)]
             /\ meant' = [meant EXCEPT ![c] = m]
             /\ UNCHANGED bias

(* The allocator copies locations as plain words: the output an operand is *)
(* used from is stored into the slot of the use.                           *)
TakeOutput == /\ word' = [word EXCEPT !.input = word.output]
              /\ meant' = [meant EXCEPT !.input = meant.output]
              /\ UNCHANGED bias

Next == TakeOutput \/ \E c \in Cells, m \in Meanings : Set(c, m)

Spec == Init /\ [][Next]_vars

-----------------------------------------------------------------------------
(* Every variable keeps its type.                                          *)
TypeOK == /\ bias \in Biases
          /\ word \in [Cells -> 0 .. Words - 1]
          /\ meant \in [Cells -> Meanings]

(* Whatever the build made of the bias, what a location was set to can be  *)
(* read back: its kind and its data, and a stack slot up to the width of   *)
(* its field.                                                              *)
ReadsBack ==
  \A c \in Cells :
    LET w == word[c]
        m == meant[c]
    IN  /\ Kind(w) = kinds[m[1]]
        /\ (w % 4 = kinds.constant) = (m[1] = "constant")
        /\ m[1] = "constant" => Constant(w) = m[2]
        /\ m[1] \in {"register", "fpu_register"} => Payload(w) = m[2]
        /\ m[1] \in {"stack_slot", "double_stack_slot"} =>
             (StackSlot(w) - m[2][2]) % StackIndices = 0

(* The allocator compares locations as words: two are equal exactly when   *)
(* they mean the same, so a slot with a bias gone wrong is still its own.  *)
WordsMeanOne ==
  TypeOK /\ ReadsBack /\ (word["input"] = word["output"] <=> meant["input"] = meant["output"])

(* location.h:93 has loc_hint_rx "hint requires fpu register": an operand  *)
(* of which the code generator asks for an fpu register says so when       *)
(* ra_range.c:34 and ra_allocator.c:489 ask for its policy.                *)
FpuHintIsRead ==
  \A c \in Cells : meant[c] = <<"unallocated", "requires_fpu_register">> =>
                     Policy(word[c]) = policies.requires_fpu_register
=============================================================================
