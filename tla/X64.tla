-------------------------------- MODULE X64 ---------------------------------
(***************************************************************************)
(* The encoders of the x86-64 assembler, src/src/asm/x64.c and             *)
(* src/include/mun/asm/x64.h: each gives the bytes it emits.               *)
(*                                                                         *)
(* A register is its number.  A rex byte under construction is the set of  *)
(* its bits.  An operand is its rex bits and its bytes (the length is      *)
(* theirs).  Immediates and displacements are asm_imm, signed numbers of   *)
(* 64 bits.                                                                *)
(***************************************************************************)
EXTENDS Integers, Sequences

RAX == 0
RSP == 4
RBP == 5
R11 == 11
R12 == 12
TMP == R11

REX_B == 0
REX_X == 1
REX_R == 2
REX_W == 3
REX_PREFIX == 6

IntMin == -2147483647 - 1
FitsInt32(n) == IntMin <= n /\ n <= -(IntMin + 1)

-----------------------------------------------------------------------------
(* Bytes and widths.                                                       *)
TruncatedToByte(n) == n % 256
Weight(bits, bit, weight) == IF bit \in bits THEN weight ELSE 0
BitsAsByte(bits) ==
  Weight(bits, 0, 1) + Weight(bits, 1, 2) + Weight(bits, 2, 4) + Weight(bits, 3, 8)
    + Weight(bits, 4, 16) + Weight(bits, 5, 32) + Weight(bits, 6, 64) + Weight(bits, 7, 128)
ByteOfWord(n, i) ==
  CASE i = 0 -> n % 256
    [] i = 1 -> (n \div 256) % 256
    [] i = 2 -> (n \div 65536) % 256
    [] OTHER -> (n \div 16777216) % 256
Upper(n) == (n \div 65536) \div 65536
ByteOf(n, i) == IF i < 4 THEN ByteOfWord(n, i) ELSE ByteOfWord(Upper(n), i - 4)
(* Int32 drops the upper half.                                             *)
Int32(n) == [i \in 1 .. 4 |-> ByteOf(n, i - 1)]
Int64(n) == [i \in 1 .. 8 |-> ByteOf(n, i - 1)]
If(bit, condition) == IF condition THEN {bit} ELSE {}

(* Negation in a 32-bit int.  is32 shifts 1 into the sign of one, so that  *)
(* its limit and the negation of it are both the least int.                *)
Negated32(n) == IF n = IntMin THEN IntMin ELSE -n
is32(imm) == LET limit == IntMin IN Negated32(limit) <= imm /\ imm < limit
is8(imm) == LET limit == 128 IN -limit <= imm /\ imm < limit

(* Plausible slips in the code below, each used to test a property.        *)
AddressMayHaveNoDisp(base, disp) == disp = 0

-----------------------------------------------------------------------------
(* Operands.                                                               *)
set_mod_rm(rex, mod, rm) ==
  [rex |-> rex \cup If(REX_B, rm > 7 /\ ~(rm = R12 /\ mod # 3)),
   encoding |-> <<64 * mod + (rm % 8)>>]

(* An index beyond 7 sets REX_W where it was to set REX_X.                 *)
set_sib(oper, scale, index, base) ==
  [rex |-> oper.rex \cup If(REX_B, base > 7) \cup If(REX_W, index > 7),
   encoding |-> Append(oper.encoding, TruncatedToByte(64 * scale + 8 * (index % 8) + (base % 8)))]

set_disp8(oper, disp) == [oper EXCEPT !.encoding = Append(@, TruncatedToByte(disp))]
set_disp32(oper, disp) == [oper EXCEPT !.encoding = @ \o Int32(disp)]

NeedsNoDisp(base, disp) == disp = 0 /\ base % 8 # RBP

asm_addr_init(base, disp) ==
  LET withSib(oper) == IF base % 8 = RSP THEN set_sib(oper, 0, RSP, base) ELSE oper
      start(mod) == withSib(set_mod_rm({}, mod, base))
  IN  CASE NeedsNoDisp(base, disp)                 -> start(0)
        [] ~NeedsNoDisp(base, disp) /\ is8(disp)   -> set_disp8(start(1), disp)
        [] OTHER                                   -> set_disp32(start(2), disp)

(* The register is the index: there is no base.  The rex byte is whatever  *)
(* the memory of the operand held.                                         *)
asm_addr_init_scaled(garbage, base, scale, disp) ==
  set_disp32(set_sib(set_mod_rm(garbage, 0, RSP), scale, base, RBP), disp)

asm_oper_init(reg) == set_mod_rm({}, 3, reg)

is_register(oper, reg) ==
  /\ (reg > 7) = (oper.rex = {REX_B})
  /\ oper.encoding[1] \div 8 = 24
  /\ oper.encoding[1] % 8 = reg

-----------------------------------------------------------------------------
(* Parts of an instruction.                                                *)
RexByte(rex) == IF rex = {} THEN <<>> ELSE <<BitsAsByte(rex \cup {REX_PREFIX})>>

emit_register_rex(reg, rex) == RexByte(rex \cup If(REX_B, reg > 7))
emit_operand_rex(rm, oper, rex) == RexByte(rex \cup If(REX_R, rm > 7) \cup oper.rex)

emit_operand(rm, oper) == <<TruncatedToByte(oper.encoding[1] + 8 * rm)>> \o Tail(oper.encoding)

emit_immediate(imm) == IF is32(imm) THEN Int32(imm) ELSE Int64(imm)

emit_complex(rm, oper, imm) ==
  CASE is8(imm) -> <<131>> \o emit_operand(rm, oper) \o <<TruncatedToByte(imm)>>
    [] ~is8(imm) /\ is_register(oper, RAX) -> <<5 + 8 * rm>> \o emit_immediate(imm)
    [] OTHER -> <<129>> \o emit_operand(rm, oper) \o emit_immediate(imm)

(* The three prefixes of SSE2 instructions.  The one of an address leaves  *)
(* the bits that make a rex byte one out.                                  *)
emit_rex_rb_xx(reg, base) == RexByte(If(REX_R, reg > 7) \cup If(REX_B, base > 7))
emit_rex_rb_ra(reg, oper) ==
  LET rex == If(REX_R, reg > 7) \cup oper.rex IN IF rex = {} THEN <<>> ELSE <<BitsAsByte(rex)>>

emit_xmm_register_operand(rm, xmm) == emit_operand(rm, set_mod_rm({}, 3, xmm))

(* An instruction with a register, or the extension of its opcode, and an  *)
(* operand.                                                                *)
WithOperand(rex, opcode, reg, oper) ==
  emit_operand_rex(reg, oper, rex) \o opcode \o emit_operand(reg % 8, oper)
Quad(opcode, reg, oper) == WithOperand({REX_W}, opcode, reg, oper)
Sse(opcode, dst, src) ==
  <<242>> \o emit_rex_rb_xx(dst, src) \o <<15, opcode>> \o emit_xmm_register_operand(dst % 8, src)

-----------------------------------------------------------------------------
(* The instructions.                                                       *)
asm_movq_rr(dst, src) == Quad(<<137>>, src, asm_oper_init(dst))
asm_movq_ra(dst, src) == Quad(<<139>>, dst, src)
asm_movq_ar(dst, src) == Quad(<<137>>, src, dst)
asm_movq_ri(dst, src) ==
  (IF is32(src) THEN Quad(<<199>>, 0, asm_oper_init(dst))
                ELSE emit_register_rex(dst, {REX_W}) \o <<184 + (dst % 8)>>)
  \o emit_immediate(src)
asm_movq_ai(dst, src) ==
  IF is32(src) THEN Quad(<<199>>, 0, dst) \o emit_immediate(src)
               ELSE asm_movq_ri(TMP, src) \o asm_movq_ar(dst, TMP)

asm_addq_rr(dst, src) == Quad(<<3>>, dst, asm_oper_init(src))
asm_addq_ra(dst, src) == Quad(<<3>>, dst, src)
asm_addq_ar(dst, src) == Quad(<<1>>, src, dst)
asm_addq_ri(dst, src) ==
  IF is32(src) THEN emit_register_rex(dst, {REX_W}) \o emit_complex(0, asm_oper_init(dst), src)
               ELSE asm_movq_ri(TMP, src) \o asm_addq_rr(dst, TMP)
asm_addq_ai(dst, src) ==
  IF is32(src) THEN emit_operand_rex(0, dst, {REX_W}) \o emit_complex(0, dst, src)
               ELSE asm_movq_ri(TMP, src) \o asm_addq_ar(dst, TMP)

asm_subq_rr(dst, src) == Quad(<<43>>, dst, asm_oper_init(src))
asm_subq_ra(dst, src) == Quad(<<43>>, dst, src)
asm_subq_ar(dst, src) == Quad(<<41>>, src, dst)
asm_subq_ri(dst, src) ==
  IF is32(src) THEN emit_register_rex(dst, {REX_W}) \o emit_complex(5, asm_oper_init(dst), src)
               ELSE asm_movq_ri(TMP, src) \o asm_subq_rr(dst, TMP)
asm_subq_ai(dst, src) ==
  IF is32(src) THEN emit_operand_rex(0, dst, {REX_W}) \o emit_complex(5, dst, src)
               ELSE asm_movq_ri(TMP, src) \o asm_subq_ar(dst, TMP)

asm_mulq_rr(dst, src) == Quad(<<15, 175>>, dst, asm_oper_init(src))
asm_mulq_ri(dst, src) ==
  IF is32(src) THEN Quad(<<105>>, dst, asm_oper_init(dst)) \o emit_immediate(src)
               ELSE asm_movq_ri(TMP, src) \o asm_mulq_rr(dst, TMP)

asm_testq_rr(r1, r2) == Quad(<<133>>, r1, asm_oper_init(r2))
asm_cmpq_rr(r1, r2) == Quad(<<59>>, r1, asm_oper_init(r2))
asm_cmpq_ri(r1, i1) ==
  IF is32(i1) THEN emit_register_rex(r1, {REX_W}) \o emit_complex(7, asm_oper_init(r1), i1)
              ELSE asm_movq_ri(TMP, i1) \o asm_cmpq_rr(r1, TMP)

asm_movsd_ra(dst, src) == <<242>> \o emit_rex_rb_ra(dst, src) \o <<15, 16>> \o emit_operand(dst % 8, src)
asm_movsd_ar(dst, src) == <<242>> \o emit_rex_rb_ra(src, dst) \o <<15, 17>> \o emit_operand(src % 8, dst)
asm_addsd_rr(dst, src) == Sse(88, dst, src)
asm_mulsd_rr(dst, src) == Sse(89, dst, src)
asm_subsd_rr(dst, src) == Sse(92, dst, src)
asm_divsd_rr(dst, src) == Sse(94, dst, src)

asm_call_r(src) == WithOperand({}, <<255>>, 2, asm_oper_init(src))
asm_call_a(src) == WithOperand({}, <<255>>, 2, src)
asm_jmp_r(dst) == WithOperand({}, <<255>>, 4, asm_oper_init(dst))
asm_jmp_a(dst) == WithOperand({}, <<255>>, 4, dst)
asm_push_a(src) == WithOperand({}, <<255>>, 6, src)
asm_pop_a(dst) == WithOperand({}, <<143>>, 0, dst)
asm_push_r(src) == emit_register_rex(src, {}) \o <<80 + (src % 8)>>
asm_pop_r(dst) == emit_register_rex(dst, {}) \o <<88 + (dst % 8)>>
asm_push_i(src) ==
  CASE is8(src) -> <<106, TruncatedToByte(src)>>
    [] ~is8(src) /\ is32(src) -> <<104>> \o emit_immediate(src)
    [] OTHER -> asm_movq_ri(TMP, src) \o asm_push_r(TMP)
asm_ret == <<195>>

asm_enter_frame(size) ==
  asm_push_r(RBP) \o asm_movq_rr(RBP, RSP) \o (IF size # 0 THEN asm_subq_ri(RSP, size) ELSE <<>>)
asm_leave_frame == asm_movq_rr(RSP, RBP) \o asm_pop_r(RBP)
=============================================================================
