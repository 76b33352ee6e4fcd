------------------------------ MODULE Assembler ------------------------------
(***************************************************************************)
(* The assembler as its callers use it, src/src/asm/x64.c,                 *)
(* src/include/mun/asm/core.h: a buffer that only grows, and labels that   *)
(* jumps may use before they are bound.                                    *)
(*                                                                         *)
(* A label counts from 8 on: 0 is unused, p + 8 is linked at the field at  *)
(* p, -p - 8 is bound to p.  The fields of the jumps to an unbound label   *)
(* are chained, each holding the link before it.                           *)
(*                                                                         *)
(* The encoders are those of X64, the bytes are read back by Processor.    *)
(***************************************************************************)
EXTENDS X64, Processor, FiniteSetsExt

CONSTANTS Registers, FpuRegisters,
          Bases, Displacements, Scales,
          Garbage,                   \* what the memory of an operand may hold before
          Immediates,
          Labels, NoLabel, Conditions,
          Fills,                     \* how many returns a run of them has
          MaxCalls

ASSUME RegistersAssumption == Registers \cup FpuRegisters \cup Bases \subseteq 0 .. 15
(* An asm_imm has 64 bits.                                                 *)
ASSUME OperandsAssumption ==
  /\ \A n \in Displacements \cup Immediates : n \in Int /\ FitsInt32(Upper(n))
  /\ Scales \subseteq Nat
ASSUME GarbageAssumption == Garbage \subseteq SUBSET (0 .. 7)
ASSUME BoundsAssumption == MaxCalls \in Nat /\ Fills \subseteq Nat /\ Conditions \subseteq 0 .. 15 /\ NoLabel \notin Labels

VARIABLES code,       \* the bytes from contents to cursor
          label,      \* pos of every label
          listing,    \* history: what was asked for, and where it was put
          negative,   \* the lower half of the buffer's address, as an int, is negative
          lost        \* a store went to an address that is not the buffer's

vars == <<code, label, listing, negative, lost>>

kWordSize == 8
asm_buff_size == Len(code)

-----------------------------------------------------------------------------
(* Plausible slips in the code below, each used to test a property.        *)
DistanceFromTheField(bound, pos) == bound - pos
BothHalvesOfTheField(pos) == pos + 1 .. pos + 8
BoundAsAPosition(pos) == -pos
FieldOfAWord(l, from, size) == Int64(-label[l] - kWordSize - from - size)

-----------------------------------------------------------------------------
(* The instructions without a label: the bytes, the instructions that were *)
(* asked for, and whether the bytes are known not to be those.             *)
Call(bytes, asks, wrong) == [bytes |-> bytes, asks |-> asks, wrong |-> wrong]
One(bytes, op, dst, src, wrong) == Call(bytes, <<Instr(op, dst, src)>>, wrong)

AtBase(b, d) == Mem(b, NoRegister, 0, d)

OfRegisters(d, s) ==
  {One(asm_movq_rr(d, s), "mov", Reg(d), Reg(s), FALSE), One(asm_addq_rr(d, s), "add", Reg(d), Reg(s), FALSE),
   One(asm_subq_rr(d, s), "sub", Reg(d), Reg(s), FALSE), One(asm_mulq_rr(d, s), "mul", Reg(d), Reg(s), FALSE),
   One(asm_cmpq_rr(d, s), "cmp", Reg(d), Reg(s), FALSE), One(asm_testq_rr(d, s), "test", Reg(s), Reg(d), FALSE)}

OfRegister(r) ==
  {One(asm_push_r(r), "push", Reg(r), None, FALSE), One(asm_pop_r(r), "pop", Reg(r), None, FALSE),
   One(asm_call_r(r), "call", Reg(r), None, FALSE), One(asm_jmp_r(r), "jmp", Reg(r), None, FALSE)}

OfFpuRegisters(d, s) ==
  {One(asm_addsd_rr(d, s), "addsd", Xmm(d), Xmm(s), FALSE), One(asm_subsd_rr(d, s), "subsd", Xmm(d), Xmm(s), FALSE),
   One(asm_mulsd_rr(d, s), "mulsd", Xmm(d), Xmm(s), FALSE), One(asm_divsd_rr(d, s), "divsd", Xmm(d), Xmm(s), FALSE)}

(* An address takes its displacement as an int: of a wider one, the lower  *)
(* half is left.                                                           *)
IsCut(at) == ~FitsInt32(at.disp)

OfAddress(a, at, r) ==
  {One(asm_movq_ra(r, a), "mov", Reg(r), at, IsCut(at)), One(asm_movq_ar(a, r), "mov", at, Reg(r), IsCut(at)),
   One(asm_addq_ra(r, a), "add", Reg(r), at, IsCut(at)), One(asm_addq_ar(a, r), "add", at, Reg(r), IsCut(at)),
   One(asm_subq_ra(r, a), "sub", Reg(r), at, IsCut(at)), One(asm_subq_ar(a, r), "sub", at, Reg(r), IsCut(at)),
   One(asm_call_a(a), "call", at, None, IsCut(at)), One(asm_jmp_a(a), "jmp", at, None, IsCut(at)),
   One(asm_push_a(a), "push", at, None, IsCut(at)), One(asm_pop_a(a), "pop", at, None, IsCut(at))}

(* A move of a double at an address has no rex byte when it needs one.     *)
OfFpuAddress(a, at, f) ==
  LET wrong == f > 7 \/ at.base > 7 \/ IsCut(at)
  IN  {One(asm_movsd_ra(f, a), "movsd", Xmm(f), at, wrong), One(asm_movsd_ar(a, f), "movsd", at, Xmm(f), wrong)}

(* A scaled address is right when what its memory held makes up for the    *)
(* bit that is not set and disturbs nothing else.                          *)
ScaledIsRight(garbage, index, scale) ==
  /\ index # RSP
  /\ scale < 4
  /\ (REX_X \in garbage) = (index > 7)
  /\ garbage \cap {REX_R, 4, 5, 7} = {}

OfScaled(g, i, s, n) ==
  LET at == Mem(NoRegister, i, s, n)
  IN  {One(asm_movq_ra(RAX, asm_addr_init_scaled(g, i, s, n)), "mov", Reg(RAX), at,
           ~ScaledIsRight(g, i, s) \/ IsCut(at))}

(* Every immediate but the bytes of push goes through the scratch          *)
(* register, which must not be the one it is to be combined with.          *)
OfImmediate(r, i) ==
  {One(asm_movq_ri(r, i), "mov", Reg(r), Imm(i), FALSE), One(asm_addq_ri(r, i), "add", Reg(r), Imm(i), r = TMP),
   One(asm_subq_ri(r, i), "sub", Reg(r), Imm(i), r = TMP), One(asm_mulq_ri(r, i), "mul", Reg(r), Imm(i), r = TMP),
   One(asm_cmpq_ri(r, i), "cmp", Reg(r), Imm(i), r = TMP), One(asm_push_i(i), "push", Imm(i), None, FALSE)}

OfImmediateAddress(a, at, i) ==
  LET wrong == at.base = TMP \/ IsCut(at)
  IN  {One(asm_movq_ai(a, i), "mov", at, Imm(i), wrong), One(asm_addq_ai(a, i), "add", at, Imm(i), wrong),
       One(asm_subq_ai(a, i), "sub", at, Imm(i), wrong)}

OfFrame(i) ==
  {Call(asm_leave_frame, <<Instr("mov", Reg(RSP), Reg(RBP)), Instr("pop", Reg(RBP), None)>>, FALSE),
   Call(asm_enter_frame(i),
        <<Instr("push", Reg(RBP), None), Instr("mov", Reg(RBP), Reg(RSP))>>
          \o (IF i = 0 THEN <<>> ELSE <<Instr("sub", Reg(RSP), Imm(i))>>), FALSE)}

ReturnCall == One(asm_ret, "ret", None, None, FALSE)

(* On registers, on addresses, on immediates, of frames.                   *)
RegisterCalls ==
  (UNION {OfRegisters(d, s) \cup OfRegister(d) : d \in Registers, s \in Registers})
    \cup (UNION {OfFpuRegisters(d, s) : d \in FpuRegisters, s \in FpuRegisters})

OnAddress(a, at) ==
  (UNION {OfAddress(a, at, r) : r \in Registers})
    \cup (UNION {OfFpuAddress(a, at, f) : f \in FpuRegisters})
    \cup (UNION {OfImmediateAddress(a, at, i) : i \in Immediates})
AddressCalls == UNION {OnAddress(asm_addr_init(b, n), AtBase(b, n)) : b \in Bases, n \in Displacements}

ScaledCalls == UNION {OfScaled(g, i, s, n) : g \in Garbage, i \in Registers, s \in Scales, n \in Displacements}
ImmediateCalls == UNION {OfImmediate(r, i) \cup OfFrame(i) : r \in Registers, i \in Immediates}

Calls == RegisterCalls \cup AddressCalls \cup ScaledCalls \cup ImmediateCalls \cup {ReturnCall}

-----------------------------------------------------------------------------
(* Labels.                                                                 *)
asm_label_is_bound(l) == label[l] < 0
asm_label_is_linked(l) == label[l] > 0
asm_label_pos(l) == -label[l] - kWordSize
LinkPos(pos) == pos - kWordSize
link_to(pos) == pos + kWordSize
bind_to(pos) == -pos - kWordSize

Entry(asks, wrong, how) ==
  [at |-> asm_buff_size, asks |-> asks, wrong |-> wrong, to |-> NoLabel, how |-> how, link |-> 0]
JumpEntry(op, cond, l, how) ==
  [at |-> asm_buff_size, asks |-> <<op, cond>>, wrong |-> FALSE, to |-> l, how |-> how, link |-> label[l]]
EndOf(k) == IF k = Len(listing) THEN asm_buff_size ELSE listing[k + 1].at

(* One of the many calls without a label is tried alone.  The longer       *)
(* listings are made of returns and jumps.                                 *)
Alone == listing # <<>> /\ listing[1].how = "plain"
More == ~lost /\ ~Alone /\ Len(listing) < MaxCalls

Init ==
  /\ code = <<>>
  /\ label = [l \in Labels |-> 0]
  /\ listing = <<>>
  /\ negative \in BOOLEAN
  /\ lost = FALSE

Emit(call) ==
  /\ More /\ \A l \in Labels : label[l] = 0
  /\ code' = code \o call.bytes
  /\ listing' = Append(listing, Entry(call.asks, call.wrong, "plain"))
  /\ UNCHANGED <<label, negative, lost>>

(* n calls of asm_ret.                                                     *)
Fill(n) ==
  /\ More
  /\ code' = code \o [i \in 1 .. n |-> asm_ret[1]]
  /\ listing' = Append(listing, Entry(<<>>, FALSE, "fill"))
  /\ UNCHANGED <<label, negative, lost>>

emit_label(l, from, size) == Int32(asm_label_pos(l) - from - size)

(* The field of a linked jump takes the 8 bytes of a label for the 4 of a  *)
(* displacement.                                                           *)
emit_label_link(op, cond, l, opcode) ==
  /\ code' = code \o opcode \o Int64(label[l])
  /\ label' = [label EXCEPT ![l] = link_to(asm_buff_size + Len(opcode))]
  /\ listing' = Append(listing, JumpEntry(op, cond, l, "linked"))

EmitBound(op, cond, l, how, bytes) ==
  /\ code' = code \o bytes
  /\ listing' = Append(listing, JumpEntry(op, cond, l, how))
  /\ UNCHANGED label

(* The offset is taken after the opcode and then from the opcode.          *)
asm_call_l(l) ==
  /\ More
  /\ \/ /\ asm_label_is_bound(l)
        /\ EmitBound("call", None, l, "bound",
                     <<232>> \o emit_label(l, asm_buff_size + 1, 5))
     \/ /\ ~asm_label_is_bound(l)
        /\ emit_label_link("call", None, l, <<232>>)
  /\ UNCHANGED <<negative, lost>>

FromShort(off) == off - 2

asm_jmp_l(l, near) ==
  /\ More
  /\ LET off == asm_label_pos(l) - asm_buff_size
     IN  \/ /\ asm_label_is_bound(l) /\ is8(FromShort(off))
            /\ EmitBound("jmp", None, l, "short", <<235, TruncatedToByte(FromShort(off))>>)
         \/ /\ asm_label_is_bound(l) /\ ~is8(FromShort(off))
            /\ EmitBound("jmp", None, l, "long", <<233>> \o Int64(off - 5))
         \/ /\ ~asm_label_is_bound(l) /\ near
            /\ EmitBound("jmp", None, l, "near", <<>>)
         \/ /\ ~asm_label_is_bound(l) /\ ~near
            /\ emit_label_link("jmp", None, l, <<233>>)
  /\ UNCHANGED <<negative, lost>>

(* The opcode of a short conditional jump is taken from the offset.        *)
asm_j(cond, l, near) ==
  /\ More
  /\ LET off == asm_label_pos(l) - asm_buff_size
     IN  \/ /\ asm_label_is_bound(l) /\ is8(FromShort(off))
            /\ EmitBound("j", Imm(cond), l, "short",
                         <<TruncatedToByte(off - cond), TruncatedToByte(FromShort(off))>>)
         \/ /\ asm_label_is_bound(l) /\ ~is8(FromShort(off))
            /\ EmitBound("j", Imm(cond), l, "long", <<15, 128 + cond>> \o Int64(off - 6))
         \/ /\ ~asm_label_is_bound(l) /\ near
            /\ EmitBound("j", Imm(cond), l, "near", <<>>)
         \/ /\ ~asm_label_is_bound(l) /\ ~near
            /\ emit_label_link("j", Imm(cond), l, <<15, 128 + cond>>)
  /\ UNCHANGED <<negative, lost>>

Distance(bound, pos) == bound - (pos + 4)

Stored(pos) == pos + 1 .. pos + 4

Patched(pos) ==
  [i \in DOMAIN code |->
     IF i \in Stored(pos) THEN ByteOf(Distance(asm_buff_size, pos), (i - pos - 1) % 4) ELSE code[i]]

(* A label is bound once.  Its links are to be followed, but the next one  *)
(* is read as the address of the field instead of what the field holds:    *)
(* negative, it ends the chain at once; positive, it is followed out of    *)
(* the buffer.                                                             *)
asm_bind(l) ==
  /\ ~lost /\ ~Alone /\ ~asm_label_is_bound(l)
  /\ code' = IF asm_label_is_linked(l) THEN Patched(LinkPos(label[l])) ELSE code
  /\ lost' = (asm_label_is_linked(l) /\ ~negative)
  /\ label' = IF lost' THEN label ELSE [label EXCEPT ![l] = bind_to(asm_buff_size)]
  /\ UNCHANGED <<listing, negative>>

Next ==
  \/ listing = <<>> /\ \E c \in Calls : Emit(c)
  \/ \E n \in Fills : Fill(n)
  \/ \E l \in Labels : asm_call_l(l) \/ asm_bind(l)
  \/ \E l \in Labels, near \in BOOLEAN : asm_jmp_l(l, near)
  \/ \E l \in Labels, near \in BOOLEAN, cond \in Conditions : asm_j(cond, l, near)

Spec == Init /\ [][Next]_vars

-----------------------------------------------------------------------------
(* The listing's entries lie one after the other; a linked label is linked *)
(* at the field of the last jump to it, a bound one inside the code.       *)
AssemblerInv ==
  /\ code \in Seq(0 .. 255) /\ negative \in BOOLEAN /\ lost \in BOOLEAN
  /\ \A k \in DOMAIN listing : listing[k].at <= EndOf(k)
  /\ \A l \in Labels :
       LET links == {k \in DOMAIN listing : listing[k].to = l /\ listing[k].how = "linked"}
       IN  /\ asm_label_is_linked(l) => links # {} /\ LinkPos(label[l]) = EndOf(Max(links)) - kWordSize
           /\ asm_label_is_bound(l) => asm_label_pos(l) \in 0 .. asm_buff_size
           /\ label[l] = 0 => links = {}

(* A processor reads in the bytes of a call what the call asks for, the    *)
(* detour over the scratch register included, except where the bytes are   *)
(* known to be wrong; and there it never does.                             *)
EncodingsAreExact ==
  \A k \in DOMAIN listing :
    listing[k].how = "plain" =>
      LET bytes == SubSeq(code, listing[k].at + 1, EndOf(k))
      IN  (Fused(Listing(bytes), TMP) = listing[k].asks) <=> ~listing[k].wrong

(* The jumps that cannot reach their label: a call to a bound one, a short *)
(* conditional jump whose offset does not happen to make up its opcode, a  *)
(* near jump ahead, and of the jumps to a label ahead all but the last,    *)
(* whose displacements are still the links of the chain.                   *)
IsEmitted(k) == listing[k].to \in Labels /\ EndOf(k) > listing[k].at
Lands(k) ==
  LET e == listing[k]
  IN  /\ IsEmitted(k)
      /\ Read(code, e.at + 1).ins = Instr(e.asks[1], e.asks[2], Imm(asm_label_pos(e.to) + 1))

IsLastLink(k) == \A i \in DOMAIN listing : listing[i].to = listing[k].to /\ listing[i].how = "linked" => i <= k
Misses(k) ==
  LET e == listing[k]
      pos == asm_label_pos(e.to)
  IN  \/ e.how \in {"bound", "near"}
      \/ e.how = "short" /\ e.asks[1] = "j" /\ (pos - e.at - e.asks[2].n) % 256 # 112 + e.asks[2].n
      \/ e.how = "linked" /\ ~IsLastLink(k) /\ EndOf(k) - 4 + e.link # pos

(* Once its label is bound every other jump goes there, on its condition.  *)
JumpsLandExactly ==
  \A k \in DOMAIN listing :
    LET e == listing[k]
    IN  e.to \in Labels /\ ~lost /\ asm_label_is_bound(e.to) =>
          Lands(k) <=> ~Misses(k)

(* Where execution goes on after a call or a conditional jump, the next    *)
(* instruction of the listing begins, unless the field of the jump was     *)
(* emitted with the 8 bytes of a word.                                     *)
FallsThroughExactly ==
  \A k \in DOMAIN listing :
    LET e == listing[k]
        read == Read(code, e.at + 1)
    IN  IsEmitted(k) /\ e.asks[1] \in {"call", "j"} /\ read.ins.op = e.asks[1] =>
          (read.end = EndOf(k) + 1) <=> e.how \in {"bound", "short"}

(* Emitted code stays as it is, but for the displacement of the last jump  *)
(* to a label that is being bound.                                         *)
CodeIsOnlyPatched ==
  [][\A i \in DOMAIN code :
       code[i] # code'[i] =>
         \E l \in Labels : /\ asm_label_is_linked(l)
                           /\ label'[l] # label[l] \/ lost'
                           /\ i - 1 \in LinkPos(label[l]) .. LinkPos(label[l]) + 3]_vars
=============================================================================
