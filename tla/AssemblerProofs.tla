-------------------------- MODULE AssemblerProofs --------------------------
(***************************************************************************)
(* For any registers, operands, labels and sequences of calls: the entries *)
(* of the listing follow each other and a linked label leads to the last   *)
(* jump that links to it; only the displacement of a jump is ever patched; *)
(* a jump that is decoded where one was emitted ends where its field does, *)
(* and, in code whose length fits an int, goes to its label, except        *)
(* exactly the jumps that Misses names.                                    *)
(*                                                                         *)
(* The bytes of every other call read back as what the call asks for,      *)
(* except exactly where the call is known to be wrong.  IsReadAs is the    *)
(* middle of that proof: bytes that are read as one instruction wherever   *)
(* they stand.  The encoders are shown to emit such bytes, Listing to list *)
(* them one after the other, and Fused to undo the detour over the scratch *)
(* register.                                                               *)
(***************************************************************************)
EXTENDS Assembler, TLAPS, WellFoundedInduction, SequenceTheorems

-----------------------------------------------------------------------------
(* What the encoders give are bytes.                                       *)
Byte == 0 .. 255
Bytes == Seq(Byte)
Encodes(oper) ==
  /\ oper = [rex |-> oper.rex, encoding |-> oper.encoding]
  /\ oper.encoding \in Bytes /\ oper.encoding # <<>>

LEMMA Truncated ==
  ASSUME NEW n \in Int
  PROVE  TruncatedToByte(n) \in Byte
BY DEF TruncatedToByte, Byte

LEMMA BitsAreAByte ==
  ASSUME NEW bits
  PROVE  BitsAsByte(bits) \in Byte
<1> DEFINE low == Weight(bits, 0, 1) + Weight(bits, 1, 2) + Weight(bits, 2, 4) + Weight(bits, 3, 8)
<1>1. low \in 0 .. 15
  BY DEF Weight
<1> DEFINE high == low + Weight(bits, 4, 16) + Weight(bits, 5, 32) + Weight(bits, 6, 64)
                       + Weight(bits, 7, 128)
<1> HIDE DEF low
<1>2. high \in 0 .. 255
  BY <1>1 DEF Weight
<1>3. BitsAsByte(bits) = high
  BY DEF BitsAsByte, high, low
<1>4. QED
  BY <1>2, <1>3 DEF Byte

LEMMA SequenceOf ==
  ASSUME NEW S, NEW m \in Nat, NEW f \in [1 .. m -> S]
  PROVE  f \in Seq(S) /\ Len(f) = m
<1>1. f \in Seq(S)
  OBVIOUS
<1>2. QED
  BY <1>1

LEMMA BytesOfNumbers ==
  ASSUME NEW n \in Int
  PROVE  /\ \A i \in Nat : ByteOf(n, i) \in Byte
         /\ Int32(n) \in Bytes /\ Len(Int32(n)) = 4 /\ Int64(n) \in Bytes /\ Len(Int64(n)) = 8
<1>1. ASSUME NEW i \in Nat PROVE ByteOf(n, i) \in Byte
  <2>1. ASSUME NEW m \in Int, NEW j PROVE ByteOfWord(m, j) \in Byte
    <3>1. /\ m % 256 \in Byte /\ (m \div 256) % 256 \in Byte
          /\ (m \div 65536) % 256 \in Byte /\ (m \div 16777216) % 256 \in Byte
      BY DEF Byte
    <3>2. QED
      BY <3>1 DEF ByteOfWord
  <2>2. Upper(n) \in Int
    BY DEF Upper
  <2>3. QED
    BY <2>1, <2>2 DEF ByteOf
<1>2. Int32(n) \in [1 .. 4 -> Byte] /\ Int64(n) \in [1 .. 8 -> Byte]
  BY <1>1 DEF Int32, Int64
<1>3. Int32(n) \in Bytes /\ Len(Int32(n)) = 4
  BY ZenonT(60), <1>2, SequenceOf DEF Bytes
<1>4. Int64(n) \in Bytes /\ Len(Int64(n)) = 8
  BY ZenonT(60), <1>2, SequenceOf DEF Bytes
<1>5. QED
  BY <1>1, <1>3, <1>4

LEMMA Joined ==
  ASSUME NEW a \in Bytes, NEW b \in Bytes
  PROVE  a \o b \in Bytes
BY DEF Bytes

LEMMA SingleByte ==
  ASSUME NEW b \in Byte
  PROVE  <<b>> \in Bytes
BY DEF Bytes

LEMMA ModRm ==
  ASSUME NEW rex, NEW mod \in 0 .. 3, NEW rm \in 0 .. 15
  PROVE  Encodes(set_mod_rm(rex, mod, rm))
<1>1. 64 * mod + (rm % 8) \in Byte
  BY DEF Byte
<1>2. QED
  BY <1>1 DEF Encodes, set_mod_rm, Bytes

LEMMA Sib ==
  ASSUME NEW oper, Encodes(oper), NEW scale \in Nat, NEW index \in 0 .. 15, NEW base \in 0 .. 15
  PROVE  Encodes(set_sib(oper, scale, index, base))
<1> DEFINE sib == TruncatedToByte(64 * scale + 8 * (index % 8) + (base % 8))
           rex == oper.rex \cup If(REX_B, base > 7) \cup If(REX_W, index > 7)
           encoding == Append(oper.encoding, sib)
<1>1. sib \in Byte
  BY Truncated
<1>2. set_sib(oper, scale, index, base) = [rex |-> rex, encoding |-> encoding]
  BY DEF set_sib
<1> HIDE DEF sib, rex
<1>3. encoding \in Bytes /\ encoding # <<>>
  BY <1>1 DEF Encodes, Bytes
<1> HIDE DEF encoding
<1>4. QED
  BY <1>2, <1>3 DEF Encodes

LEMMA Displaced ==
  ASSUME NEW oper, Encodes(oper), NEW disp \in Int
  PROVE  Encodes(set_disp8(oper, disp)) /\ Encodes(set_disp32(oper, disp))
<1> DEFINE encoding == oper.encoding
<1>1. encoding \in Bytes /\ encoding # <<>> /\ oper = [rex |-> oper.rex, encoding |-> encoding]
  BY DEF Encodes
<1> HIDE DEF encoding
<1>2. set_disp8(oper, disp) = [rex |-> oper.rex, encoding |-> Append(encoding, TruncatedToByte(disp))]
  BY <1>1 DEF set_disp8
<1>3. set_disp32(oper, disp) = [rex |-> oper.rex, encoding |-> encoding \o Int32(disp)]
  <2> DEFINE longer == encoding \o Int32(disp)
  <2>1. set_disp32(oper, disp) = [oper EXCEPT !.encoding = longer]
    BY DEF set_disp32, encoding
  <2> HIDE DEF longer
  <2>2. set_disp32(oper, disp) = [rex |-> oper.rex, encoding |-> longer]
    BY <1>1, <2>1
  <2>3. QED
    BY <2>2 DEF longer
<1>4. TruncatedToByte(disp) \in Byte /\ Int32(disp) \in Bytes
  BY Truncated, BytesOfNumbers
<1>5. Append(encoding, TruncatedToByte(disp)) \in Bytes /\ Append(encoding, TruncatedToByte(disp)) # <<>>
  BY <1>1, <1>4 DEF Bytes
<1>6. encoding \o Int32(disp) \in Bytes /\ encoding \o Int32(disp) # <<>>
  <2>1. encoding \in Seq(Byte) /\ Int32(disp) \in Seq(Byte) /\ Len(encoding) > 0
    BY <1>1, <1>4 DEF Bytes
  <2>2. QED
    BY <2>1 DEF Bytes
<1>7. QED
  BY <1>2, <1>3, <1>5, <1>6 DEF Encodes

LEMMA Addresses ==
  ASSUME NEW base \in 0 .. 15, NEW disp \in Int
  PROVE  Encodes(asm_addr_init(base, disp)) /\ Encodes(asm_oper_init(base))
<1> DEFINE withSib(oper) == IF base % 8 = RSP THEN set_sib(oper, 0, RSP, base) ELSE oper
           start(mod) == withSib(set_mod_rm({}, mod, base))
<1>1. ASSUME NEW mod \in 0 .. 3 PROVE Encodes(start(mod))
  <2>1. Encodes(set_mod_rm({}, mod, base))
    BY ModRm
  <2>2. RSP \in 0 .. 15 /\ 0 \in Nat
    BY DEF RSP
  <2>3. QED
    BY <2>1, <2>2, Sib
<1>2. Encodes(start(0)) /\ Encodes(start(1)) /\ Encodes(start(2))
  <2>1. 0 \in 0 .. 3 /\ 1 \in 0 .. 3 /\ 2 \in 0 .. 3
    OBVIOUS
  <2> HIDE DEF start
  <2>2. QED
    BY <1>1, <2>1
<1>3. asm_addr_init(base, disp) =
        CASE NeedsNoDisp(base, disp)                 -> start(0)
          [] ~NeedsNoDisp(base, disp) /\ is8(disp)   -> set_disp8(start(1), disp)
          [] OTHER                                   -> set_disp32(start(2), disp)
  BY DEF asm_addr_init
<1> HIDE DEF start
<1>4. Encodes(set_disp8(start(1), disp)) /\ Encodes(set_disp32(start(2), disp))
  BY <1>2, Displaced
<1>5. Encodes(asm_addr_init(base, disp))
  <2>1. CASE NeedsNoDisp(base, disp)
    BY <1>2, <1>3, <2>1
  <2>2. CASE ~NeedsNoDisp(base, disp) /\ is8(disp)
    BY <1>3, <1>4, <2>2
  <2>3. CASE ~NeedsNoDisp(base, disp) /\ ~is8(disp)
    BY <1>3, <1>4, <2>3
  <2>4. QED
    BY <2>1, <2>2, <2>3
<1>6. Encodes(asm_oper_init(base))
  BY ModRm DEF asm_oper_init
<1>7. QED
  BY <1>5, <1>6

LEMMA ScaledAddresses ==
  ASSUME NEW garbage, NEW index \in 0 .. 15, NEW scale \in Nat, NEW disp \in Int
  PROVE  Encodes(asm_addr_init_scaled(garbage, index, scale, disp))
<1>1. RSP \in 0 .. 15 /\ RBP \in 0 .. 15 /\ 0 \in 0 .. 3
  BY DEF RSP, RBP
<1>2. Encodes(set_mod_rm(garbage, 0, RSP))
  BY <1>1, ModRm
<1>3. Encodes(set_sib(set_mod_rm(garbage, 0, RSP), scale, index, RBP))
  BY <1>1, <1>2, Sib
<1>4. QED
  BY <1>3, Displaced DEF asm_addr_init_scaled

(* The parts of an instruction.                                            *)
LEMMA RexBytes ==
  ASSUME NEW reg, NEW rex, NEW oper, NEW base
  PROVE  /\ RexByte(rex) \in Bytes /\ emit_register_rex(reg, rex) \in Bytes
         /\ emit_operand_rex(reg, oper, rex) \in Bytes
         /\ emit_rex_rb_xx(reg, base) \in Bytes /\ emit_rex_rb_ra(reg, oper) \in Bytes
<1>1. <<>> \in Bytes /\ \A bits : <<BitsAsByte(bits)>> \in Bytes
  BY BitsAreAByte, SingleByte DEF Bytes
<1>2. \A bits : RexByte(bits) \in Bytes
  BY <1>1 DEF RexByte
<1>3. QED
  BY <1>1, <1>2 DEF emit_register_rex, emit_operand_rex, emit_rex_rb_xx, emit_rex_rb_ra

LEMMA OperandBytes ==
  ASSUME NEW rm \in Int, NEW oper, Encodes(oper)
  PROVE  emit_operand(rm, oper) \in Bytes
<1> DEFINE encoding == oper.encoding
<1>1. encoding \in Bytes /\ encoding # <<>>
  BY DEF Encodes
<1> HIDE DEF encoding
<1>2. encoding[1] \in Byte /\ Tail(encoding) \in Bytes
  BY <1>1 DEF Bytes
<1>3. TruncatedToByte(encoding[1] + 8 * rm) \in Byte
  BY <1>2, Truncated DEF Byte
<1>4. QED
  BY <1>2, <1>3, SingleByte, Joined DEF emit_operand, encoding

LEMMA ImmediateBytes ==
  ASSUME NEW imm \in Int
  PROVE  emit_immediate(imm) \in Bytes
BY BytesOfNumbers DEF emit_immediate

LEMMA ComplexBytes ==
  ASSUME NEW rm \in 0 .. 7, NEW oper, Encodes(oper), NEW imm \in Int
  PROVE  emit_complex(rm, oper, imm) \in Bytes
<1>1. /\ emit_operand(rm, oper) \in Bytes /\ emit_immediate(imm) \in Bytes
      /\ <<TruncatedToByte(imm)>> \in Bytes
  BY OperandBytes, ImmediateBytes, Truncated, SingleByte
<1>2. <<131>> \in Bytes /\ <<129>> \in Bytes /\ <<5 + 8 * rm>> \in Bytes
  <2>1. 131 \in Byte /\ 129 \in Byte /\ 5 + 8 * rm \in Byte
    BY DEF Byte
  <2>2. QED
    BY <2>1, SingleByte
<1>3. /\ <<131>> \o emit_operand(rm, oper) \o <<TruncatedToByte(imm)>> \in Bytes
      /\ <<5 + 8 * rm>> \o emit_immediate(imm) \in Bytes
      /\ <<129>> \o emit_operand(rm, oper) \o emit_immediate(imm) \in Bytes
  BY <1>1, <1>2, Joined
<1>4. QED
  BY <1>3 DEF emit_complex

LEMMA InstructionBytes ==
  ASSUME NEW rex, NEW opcode \in Bytes, NEW reg \in Int, NEW oper, Encodes(oper)
  PROVE  WithOperand(rex, opcode, reg, oper) \in Bytes
<1>1. emit_operand_rex(reg, oper, rex) \in Bytes /\ emit_operand(reg % 8, oper) \in Bytes
  BY RexBytes, OperandBytes
<1>2. QED
  BY <1>1, Joined DEF WithOperand

LEMMA SseBytes ==
  ASSUME NEW opcode \in Byte, NEW dst \in 0 .. 15, NEW src \in 0 .. 15
  PROVE  Sse(opcode, dst, src) \in Bytes
<1>1. <<242>> \in Bytes /\ <<15, opcode>> \in Bytes
  BY DEF Bytes, Byte
<1>2. emit_rex_rb_xx(dst, src) \in Bytes
  BY RexBytes
<1>3. emit_xmm_register_operand(dst % 8, src) \in Bytes
  <2>1. Encodes(set_mod_rm({}, 3, src)) /\ dst % 8 \in Int
    BY ModRm
  <2>2. QED
    BY <2>1, OperandBytes DEF emit_xmm_register_operand
<1>4. QED
  BY <1>1, <1>2, <1>3, Joined DEF Sse

LEMMA Opcodes ==
  /\ <<1>> \in Bytes /\ <<3>> \in Bytes /\ <<41>> \in Bytes /\ <<43>> \in Bytes /\ <<59>> \in Bytes
  /\ <<104>> \in Bytes /\ <<105>> \in Bytes /\ <<133>> \in Bytes /\ <<137>> \in Bytes
  /\ <<139>> \in Bytes /\ <<143>> \in Bytes /\ <<195>> \in Bytes /\ <<199>> \in Bytes
  /\ <<232>> \in Bytes /\ <<233>> \in Bytes /\ <<242>> \in Bytes /\ <<255>> \in Bytes
  /\ <<15, 16>> \in Bytes /\ <<15, 17>> \in Bytes /\ <<15, 175>> \in Bytes
BY DEF Bytes, Byte

LEMMA ScratchIsARegister == TMP \in 0 .. 15 /\ RAX \in 0 .. 15 /\ RSP \in 0 .. 15 /\ RBP \in 0 .. 15
BY DEF TMP, R11, RAX, RSP, RBP

(* The instructions.                                                       *)
LEMMA RegisterBytes ==
  ASSUME NEW d \in 0 .. 15, NEW s \in 0 .. 15
  PROVE  /\ asm_movq_rr(d, s) \in Bytes /\ asm_addq_rr(d, s) \in Bytes /\ asm_subq_rr(d, s) \in Bytes
         /\ asm_mulq_rr(d, s) \in Bytes /\ asm_cmpq_rr(d, s) \in Bytes /\ asm_testq_rr(d, s) \in Bytes
<1>1. Encodes(asm_oper_init(d)) /\ Encodes(asm_oper_init(s))
  <2>1. 0 \in Int
    OBVIOUS
  <2>2. QED
    BY <2>1, Addresses
<1>2. \A opcode \in Bytes : /\ Quad(opcode, s, asm_oper_init(d)) \in Bytes
                            /\ Quad(opcode, d, asm_oper_init(s)) \in Bytes
  BY <1>1, InstructionBytes DEF Quad
<1>3. QED
  BY <1>2, Opcodes DEF asm_movq_rr, asm_addq_rr, asm_subq_rr, asm_mulq_rr, asm_cmpq_rr, asm_testq_rr

LEMMA SingleBytes ==
  ASSUME NEW r \in 0 .. 15
  PROVE  /\ asm_push_r(r) \in Bytes /\ asm_pop_r(r) \in Bytes
         /\ asm_call_r(r) \in Bytes /\ asm_jmp_r(r) \in Bytes
<1>1. Encodes(asm_oper_init(r))
  <2>1. 0 \in Int
    OBVIOUS
  <2>2. QED
    BY <2>1, Addresses
<1>2. asm_call_r(r) \in Bytes /\ asm_jmp_r(r) \in Bytes
  BY <1>1, Opcodes, InstructionBytes DEF asm_call_r, asm_jmp_r
<1>3. <<80 + (r % 8)>> \in Bytes /\ <<88 + (r % 8)>> \in Bytes
  <2>1. 80 + (r % 8) \in Byte /\ 88 + (r % 8) \in Byte
    BY DEF Byte
  <2>2. QED
    BY <2>1, SingleByte
<1>4. emit_register_rex(r, {}) \in Bytes
  BY RexBytes
<1>5. QED
  BY <1>2, <1>3, <1>4, Joined DEF asm_push_r, asm_pop_r

LEMMA AddressBytes ==
  ASSUME NEW r \in 0 .. 15, NEW a, Encodes(a)
  PROVE  /\ asm_movq_ra(r, a) \in Bytes /\ asm_movq_ar(a, r) \in Bytes
         /\ asm_addq_ra(r, a) \in Bytes /\ asm_addq_ar(a, r) \in Bytes
         /\ asm_subq_ra(r, a) \in Bytes /\ asm_subq_ar(a, r) \in Bytes
         /\ asm_call_a(a) \in Bytes /\ asm_jmp_a(a) \in Bytes
         /\ asm_push_a(a) \in Bytes /\ asm_pop_a(a) \in Bytes
         /\ asm_movsd_ra(r, a) \in Bytes /\ asm_movsd_ar(a, r) \in Bytes
<1>1. \A opcode \in Bytes : Quad(opcode, r, a) \in Bytes
  BY InstructionBytes DEF Quad
<1>2. /\ asm_movq_ra(r, a) \in Bytes /\ asm_movq_ar(a, r) \in Bytes
      /\ asm_addq_ra(r, a) \in Bytes /\ asm_addq_ar(a, r) \in Bytes
      /\ asm_subq_ra(r, a) \in Bytes /\ asm_subq_ar(a, r) \in Bytes
  BY <1>1, Opcodes DEF asm_movq_ra, asm_movq_ar, asm_addq_ra, asm_addq_ar, asm_subq_ra, asm_subq_ar
<1>3. /\ asm_call_a(a) \in Bytes /\ asm_jmp_a(a) \in Bytes
      /\ asm_push_a(a) \in Bytes /\ asm_pop_a(a) \in Bytes
  BY InstructionBytes, Opcodes DEF asm_call_a, asm_jmp_a, asm_push_a, asm_pop_a
<1>4. emit_rex_rb_ra(r, a) \in Bytes /\ emit_operand(r % 8, a) \in Bytes
  BY RexBytes, OperandBytes
<1>5. asm_movsd_ra(r, a) \in Bytes /\ asm_movsd_ar(a, r) \in Bytes
  BY <1>4, Opcodes, Joined DEF asm_movsd_ra, asm_movsd_ar
<1>6. QED
  BY <1>2, <1>3, <1>5

LEMMA LoadBytes ==
  ASSUME NEW r \in 0 .. 15, NEW i \in Int
  PROVE  asm_movq_ri(r, i) \in Bytes
<1>1. Encodes(asm_oper_init(r)) /\ emit_immediate(i) \in Bytes /\ emit_register_rex(r, {REX_W}) \in Bytes
  BY Addresses, ImmediateBytes, RexBytes
<1>2. <<184 + (r % 8)>> \in Bytes
  <2>1. 184 + (r % 8) \in Byte
    BY DEF Byte
  <2>2. QED
    BY <2>1, SingleByte
<1>3. Quad(<<199>>, 0, asm_oper_init(r)) \in Bytes
  <2>1. 0 \in Int
    OBVIOUS
  <2>2. QED
    BY <1>1, <2>1, InstructionBytes, Opcodes DEF Quad
<1>4. emit_register_rex(r, {REX_W}) \o <<184 + (r % 8)>> \in Bytes
  BY <1>1, <1>2, Joined
<1>5. QED
  BY <1>1, <1>3, <1>4, Joined DEF asm_movq_ri

LEMMA ImmediateRegisterBytes ==
  ASSUME NEW r \in 0 .. 15, NEW i \in Int
  PROVE  /\ asm_addq_ri(r, i) \in Bytes /\ asm_subq_ri(r, i) \in Bytes /\ asm_mulq_ri(r, i) \in Bytes
         /\ asm_cmpq_ri(r, i) \in Bytes /\ asm_push_i(i) \in Bytes
<1>1. Encodes(asm_oper_init(r)) /\ emit_immediate(i) \in Bytes /\ emit_register_rex(r, {REX_W}) \in Bytes
  BY Addresses, ImmediateBytes, RexBytes
<1>2. asm_movq_ri(TMP, i) \in Bytes
  BY ScratchIsARegister, LoadBytes
<1>3. /\ asm_addq_rr(r, TMP) \in Bytes /\ asm_subq_rr(r, TMP) \in Bytes /\ asm_mulq_rr(r, TMP) \in Bytes
      /\ asm_cmpq_rr(r, TMP) \in Bytes /\ asm_push_r(TMP) \in Bytes
  BY ScratchIsARegister, RegisterBytes, SingleBytes
<1>4. /\ emit_complex(0, asm_oper_init(r), i) \in Bytes
      /\ emit_complex(5, asm_oper_init(r), i) \in Bytes
      /\ emit_complex(7, asm_oper_init(r), i) \in Bytes
  <2>1. 0 \in 0 .. 7 /\ 5 \in 0 .. 7 /\ 7 \in 0 .. 7
    OBVIOUS
  <2>2. QED
    BY <1>1, <2>1, ComplexBytes
<1>5. asm_addq_ri(r, i) \in Bytes /\ asm_subq_ri(r, i) \in Bytes /\ asm_cmpq_ri(r, i) \in Bytes
  BY <1>1, <1>2, <1>3, <1>4, Joined DEF asm_addq_ri, asm_subq_ri, asm_cmpq_ri
<1>6. asm_mulq_ri(r, i) \in Bytes
  <2>1. Quad(<<105>>, r, asm_oper_init(r)) \in Bytes
    BY <1>1, InstructionBytes, Opcodes DEF Quad
  <2>2. QED
    BY <1>1, <1>2, <1>3, <2>1, Joined DEF asm_mulq_ri
<1>7. asm_push_i(i) \in Bytes
  <2>1. <<106, TruncatedToByte(i)>> \in Bytes
    BY Truncated DEF Bytes, Byte
  <2>2. <<104>> \o emit_immediate(i) \in Bytes
    BY <1>1, Opcodes, Joined
  <2>3. asm_movq_ri(TMP, i) \o asm_push_r(TMP) \in Bytes
    BY <1>2, <1>3, Joined
  <2>4. QED
    BY <2>1, <2>2, <2>3 DEF asm_push_i
<1>8. QED
  BY <1>5, <1>6, <1>7

LEMMA ImmediateAddressBytes ==
  ASSUME NEW a, Encodes(a), NEW i \in Int
  PROVE  /\ asm_movq_ai(a, i) \in Bytes /\ asm_addq_ai(a, i) \in Bytes /\ asm_subq_ai(a, i) \in Bytes
<1>1. emit_immediate(i) \in Bytes /\ emit_operand_rex(0, a, {REX_W}) \in Bytes
  BY ImmediateBytes, RexBytes
<1>2. asm_movq_ri(TMP, i) \in Bytes
  BY ScratchIsARegister, LoadBytes
<1>3. asm_movq_ar(a, TMP) \in Bytes /\ asm_addq_ar(a, TMP) \in Bytes /\ asm_subq_ar(a, TMP) \in Bytes
  BY ScratchIsARegister, AddressBytes
<1>4. emit_complex(0, a, i) \in Bytes /\ emit_complex(5, a, i) \in Bytes
  <2>1. 0 \in 0 .. 7 /\ 5 \in 0 .. 7
    OBVIOUS
  <2>2. QED
    BY <2>1, ComplexBytes
<1>5. Quad(<<199>>, 0, a) \in Bytes
  <2>1. 0 \in Int
    OBVIOUS
  <2>2. QED
    BY <2>1, InstructionBytes, Opcodes DEF Quad
<1>6. QED
  BY <1>1, <1>2, <1>3, <1>4, <1>5, Joined DEF asm_movq_ai, asm_addq_ai, asm_subq_ai

LEMMA FrameBytes ==
  ASSUME NEW i \in Int
  PROVE  asm_enter_frame(i) \in Bytes /\ asm_leave_frame \in Bytes /\ asm_ret \in Bytes
<1>1. /\ asm_push_r(RBP) \in Bytes /\ asm_pop_r(RBP) \in Bytes
      /\ asm_movq_rr(RBP, RSP) \in Bytes /\ asm_movq_rr(RSP, RBP) \in Bytes
  BY ScratchIsARegister, SingleBytes, RegisterBytes
<1>2. asm_subq_ri(RSP, i) \in Bytes
  BY ScratchIsARegister, ImmediateRegisterBytes
<1>3. asm_push_r(RBP) \o asm_movq_rr(RBP, RSP) \in Bytes
  BY <1>1, Joined
<1>4. asm_enter_frame(i) \in Bytes
  <2>1. <<>> \in Bytes
    BY DEF Bytes
  <2>2. QED
    BY <1>2, <1>3, <2>1, Joined DEF asm_enter_frame
<1>5. QED
  BY <1>1, <1>4, Opcodes, Joined DEF asm_leave_frame, asm_ret

-----------------------------------------------------------------------------
(* So every call emits bytes.                                              *)
IsCall(c) == c.bytes \in Bytes

LEMMA CallsOfOne ==
  ASSUME NEW bytes \in Bytes, NEW op, NEW dst, NEW src, NEW wrong, NEW asks
  PROVE  IsCall(One(bytes, op, dst, src, wrong)) /\ IsCall(Call(bytes, asks, wrong))
BY DEF IsCall, One, Call

LEMMA ConstantsAre ==
  /\ Registers \subseteq 0 .. 15 /\ FpuRegisters \subseteq 0 .. 15 /\ Bases \subseteq 0 .. 15
  /\ Displacements \subseteq Int /\ Immediates \subseteq Int /\ Scales \subseteq Nat
BY RegistersAssumption, OperandsAssumption

LEMMA CallsOfRegisters ==
  ASSUME NEW d \in 0 .. 15, NEW s \in 0 .. 15
  PROVE  /\ \A c \in OfRegisters(d, s) : IsCall(c)
         /\ \A c \in OfRegister(d) : IsCall(c)
         /\ \A c \in OfFpuRegisters(d, s) : IsCall(c)
<1>1. \A c \in OfRegisters(d, s) : IsCall(c)
  BY RegisterBytes, CallsOfOne DEF OfRegisters
<1>2. \A c \in OfRegister(d) : IsCall(c)
  BY SingleBytes, CallsOfOne DEF OfRegister
<1>3. \A c \in OfFpuRegisters(d, s) : IsCall(c)
  <2>1. 88 \in Byte /\ 89 \in Byte /\ 92 \in Byte /\ 94 \in Byte
    BY DEF Byte
  <2>2. /\ asm_addsd_rr(d, s) \in Bytes /\ asm_subsd_rr(d, s) \in Bytes
        /\ asm_mulsd_rr(d, s) \in Bytes /\ asm_divsd_rr(d, s) \in Bytes
    BY <2>1, SseBytes DEF asm_addsd_rr, asm_subsd_rr, asm_mulsd_rr, asm_divsd_rr
  <2>3. QED
    BY <2>2, CallsOfOne DEF OfFpuRegisters
<1>4. QED
  BY <1>1, <1>2, <1>3

LEMMA CallsOfAddresses ==
  ASSUME NEW a, Encodes(a), NEW at, NEW r \in 0 .. 15, NEW i \in Int
  PROVE  /\ \A c \in OfAddress(a, at, r) : IsCall(c)
         /\ \A c \in OfFpuAddress(a, at, r) : IsCall(c)
         /\ \A c \in OfImmediateAddress(a, at, i) : IsCall(c)
<1>1. \A c \in OfAddress(a, at, r) : IsCall(c)
  BY AddressBytes, CallsOfOne DEF OfAddress
<1>2. \A c \in OfFpuAddress(a, at, r) : IsCall(c)
  BY AddressBytes, CallsOfOne DEF OfFpuAddress
<1>3. \A c \in OfImmediateAddress(a, at, i) : IsCall(c)
  BY ImmediateAddressBytes, CallsOfOne DEF OfImmediateAddress
<1>4. QED
  BY <1>1, <1>2, <1>3

LEMMA CallsOfOthers ==
  ASSUME NEW i \in Int, NEW r \in 0 .. 15, NEW g, NEW s \in Nat
  PROVE  /\ \A c \in OfScaled(g, r, s, i) : IsCall(c)
         /\ \A c \in OfImmediate(r, i) : IsCall(c)
         /\ \A c \in OfFrame(i) : IsCall(c)
         /\ IsCall(ReturnCall)
<1>1. \A c \in OfScaled(g, r, s, i) : IsCall(c)
  <2> DEFINE a == asm_addr_init_scaled(g, r, s, i)
             bytes == asm_movq_ra(RAX, a)
  <2>1. Encodes(a)
    BY ScaledAddresses
  <2> HIDE DEF a
  <2>2. bytes \in Bytes
    BY <2>1, ScratchIsARegister, AddressBytes
  <2> HIDE DEF bytes
  <2> DEFINE at == Mem(NoRegister, r, s, i)
             wrong == ~ScaledIsRight(g, r, s) \/ IsCut(at)
  <2>3. IsCall(One(bytes, "mov", Reg(RAX), at, wrong))
    BY <2>2, CallsOfOne
  <2>4. OfScaled(g, r, s, i) = {One(bytes, "mov", Reg(RAX), at, wrong)}
    BY Zenon DEF OfScaled, bytes, a
  <2>5. QED
    BY <2>3, <2>4
<1>2. \A c \in OfImmediate(r, i) : IsCall(c)
  <2>1. asm_movq_ri(r, i) \in Bytes
    BY LoadBytes
  <2> DEFINE detour == r = TMP
  <2>2. OfImmediate(r, i) =
          {One(asm_movq_ri(r, i), "mov", Reg(r), Imm(i), FALSE), One(asm_addq_ri(r, i), "add", Reg(r), Imm(i), detour),
           One(asm_subq_ri(r, i), "sub", Reg(r), Imm(i), detour), One(asm_mulq_ri(r, i), "mul", Reg(r), Imm(i), detour),
           One(asm_cmpq_ri(r, i), "cmp", Reg(r), Imm(i), detour), One(asm_push_i(i), "push", Imm(i), None, FALSE)}
    BY Zenon DEF OfImmediate
  <2> HIDE DEF detour
  <2>3. QED
    BY <2>1, <2>2, ImmediateRegisterBytes, CallsOfOne
<1>3. \A c \in OfFrame(i) : IsCall(c)
  BY FrameBytes, CallsOfOne DEF OfFrame
<1>4. IsCall(ReturnCall)
  BY FrameBytes, CallsOfOne DEF ReturnCall
<1>5. QED
  BY <1>1, <1>2, <1>3, <1>4

LEMMA CallsAreBytes ==
  ASSUME NEW c \in Calls
  PROVE  c.bytes \in Bytes
<1>1. CASE c \in RegisterCalls
  <2>1. CASE \E d \in Registers, s \in Registers : c \in OfRegisters(d, s) \cup OfRegister(d)
    BY <2>1, ConstantsAre, CallsOfRegisters DEF IsCall
  <2>2. CASE \E d \in FpuRegisters, s \in FpuRegisters : c \in OfFpuRegisters(d, s)
    BY <2>2, ConstantsAre, CallsOfRegisters DEF IsCall
  <2>3. QED
    BY <1>1, <2>1, <2>2 DEF RegisterCalls
<1>2. CASE c \in AddressCalls
  <2>1. PICK b \in Bases, n \in Displacements : c \in OnAddress(asm_addr_init(b, n), AtBase(b, n))
    BY <1>2 DEF AddressCalls
  <2> DEFINE a == asm_addr_init(b, n)
             at == AtBase(b, n)
  <2>2. Encodes(a)
    <3>1. b \in 0 .. 15 /\ n \in Int
      BY ConstantsAre
    <3>2. QED
      BY <3>1, Addresses
  <2>3. c \in OnAddress(a, at)
    BY <2>1
  <2> HIDE DEF a, at
  <2>4. \/ \E r \in Registers : c \in OfAddress(a, at, r)
        \/ \E f \in FpuRegisters : c \in OfFpuAddress(a, at, f)
        \/ \E i \in Immediates : c \in OfImmediateAddress(a, at, i)
    BY <2>3 DEF OnAddress
  <2>5. 0 \in 0 .. 15 /\ 0 \in Int
    OBVIOUS
  <2>6. CASE \E r \in Registers : c \in OfAddress(a, at, r)
    BY <2>2, <2>5, <2>6, ConstantsAre, CallsOfAddresses DEF IsCall
  <2>7. CASE \E f \in FpuRegisters : c \in OfFpuAddress(a, at, f)
    BY <2>2, <2>5, <2>7, ConstantsAre, CallsOfAddresses DEF IsCall
  <2>8. CASE \E i \in Immediates : c \in OfImmediateAddress(a, at, i)
    BY <2>2, <2>5, <2>8, ConstantsAre, CallsOfAddresses DEF IsCall
  <2>9. QED
    BY <2>4, <2>6, <2>7, <2>8
<1>3. CASE c \in ScaledCalls
  <2>1. PICK g \in Garbage, i \in Registers, s \in Scales, n \in Displacements : c \in OfScaled(g, i, s, n)
    BY <1>3 DEF ScaledCalls
  <2>2. i \in 0 .. 15 /\ s \in Nat /\ n \in Int
    BY ConstantsAre
  <2>3. QED
    BY <2>1, <2>2, CallsOfOthers DEF IsCall
<1>4. CASE c \in ImmediateCalls
  <2>1. PICK r \in Registers, i \in Immediates : c \in OfImmediate(r, i) \/ c \in OfFrame(i)
    BY <1>4 DEF ImmediateCalls
  <2>2. r \in 0 .. 15 /\ i \in Int /\ 0 \in Nat
    BY ConstantsAre
  <2>3. QED
    BY <2>1, <2>2, CallsOfOthers DEF IsCall
<1>5. CASE c = ReturnCall
  <2>1. 0 \in Int /\ 0 \in 0 .. 15 /\ 0 \in Nat
    OBVIOUS
  <2>2. QED
    BY <1>5, <2>1, CallsOfOthers DEF IsCall
<1>6. QED
  BY <1>1, <1>2, <1>3, <1>4, <1>5 DEF Calls
-----------------------------------------------------------------------------
(* What the processor reads where a jump begins.                           *)
LEMMA Narrow == ~RexW(64)
BY DEF RexW

(* A first byte that is neither the prefix of SSE2 nor a rex byte is the   *)
(* opcode.                                                                 *)
LEMMA ReadOpcode ==
  ASSUME NEW c \in Bytes, NEW i \in 1 .. Len(c), c[i] # 242, c[i] \notin 64 .. 79
  PROVE  /\ At(c, i) = c[i] /\ c[i] \in Byte
         /\ \E m : Read(c, i) = ReadGeneral(c, i, 64, m)
<1>1. At(c, i) = c[i] /\ c[i] \in Byte
  BY DEF At, Bytes
<1>2. Read(c, i) = ReadGeneral(c, i, 64, Operand(c, IF c[i] = 15 THEN i + 2 ELSE i + 1, 64))
  BY <1>1 DEF Read, IsRex
<1>3. QED
  BY <1>1, <1>2

LEMMA OneOperands ==
  ASSUME NEW opcode, NEW ext, <<opcode, ext>> \in DOMAIN OneOperand
  PROVE  opcode \in {255, 143} /\ OneOperand[<<opcode, ext>>] # "j"
<1>1. <<opcode, ext>> \in {<<255, 2>>, <<255, 4>>, <<255, 6>>, <<143, 0>>}
  BY DEF OneOperand
<1>2. OneOperand[<<opcode, ext>>] = CASE ext = 2 -> "call" [] ext = 4 -> "jmp" [] ext = 6 -> "push" [] ext = 0 -> "pop"
  BY <1>1 DEF OneOperand
<1>3. QED
  BY <1>1, <1>2

LEMMA GeneralJumps ==
  ASSUME NEW c, NEW o \in Nat, NEW m, NEW opcode \in Byte, At(c, o) = opcode
  PROVE  /\ opcode = 232 => ReadGeneral(c, o, 64, m) = DecodedJump("call", None, Signed32(c, o + 1), o + 5)
         /\ opcode = 233 => ReadGeneral(c, o, 64, m) = DecodedJump("jmp", None, Signed32(c, o + 1), o + 5)
         /\ opcode = 235 => ReadGeneral(c, o, 64, m) = DecodedJump("jmp", None, Signed8(c, o + 1), o + 2)
         /\ opcode \in 112 .. 127 =>
              ReadGeneral(c, o, 64, m) = DecodedJump("j", Imm(opcode - 112), Signed8(c, o + 1), o + 2)
         /\ opcode = 15 /\ At(c, o + 1) \in 128 .. 143 =>
              ReadGeneral(c, o, 64, m) = DecodedJump("j", Imm(At(c, o + 1) - 128), Signed32(c, o + 2), o + 6)
<1>1. opcode \notin {255, 143} => <<opcode, m.ext>> \notin DOMAIN OneOperand
  BY OneOperands
<1>2. CASE opcode = 232
  BY <1>1, <1>2, Narrow DEF ReadGeneral
<1>3. CASE opcode = 233
  BY <1>1, <1>3, Narrow DEF ReadGeneral
<1>4. CASE opcode = 235
  BY <1>1, <1>4, Narrow DEF ReadGeneral
<1>5. CASE opcode \in 112 .. 127
  BY <1>1, <1>5, Narrow DEF ReadGeneral
<1>6. CASE opcode = 15
  BY <1>1, <1>6, Narrow DEF ReadGeneral
<1>7. QED
  BY <1>2, <1>3, <1>4, <1>5, <1>6

LEMMA GeneralOthers ==
  ASSUME NEW c, NEW o \in Nat, NEW m, NEW opcode \in Byte, At(c, o) = opcode,
         opcode # 15, opcode \notin 112 .. 127
  PROVE  ReadGeneral(c, o, 64, m).ins.op # "j"
<1> DEFINE read == ReadGeneral(c, o, 64, m)
<1>1. <<opcode, m.ext>> \in DOMAIN OneOperand => OneOperand[<<opcode, m.ext>>] # "j"
  BY OneOperands
<1>2. \/ <<opcode, m.ext>> \in DOMAIN OneOperand /\ read.ins.op = OneOperand[<<opcode, m.ext>>]
      \/ read.ins.op \in {"push", "pop", "ret", "call", "jmp", "unknown"}
  BY Narrow DEF ReadGeneral, DecodedJump, Decoded, Undecoded, Unknown, Instr
<1> HIDE DEF read
<1>3. read.ins.op # "j"
  BY <1>1, <1>2
<1>4. QED
  BY <1>3 DEF read

LEMMA ReadNear ==
  ASSUME NEW c \in Bytes, NEW i \in 1 .. Len(c), NEW opcode \in {232, 233, 235} \cup (112 .. 127), c[i] = opcode
  PROVE  /\ opcode = 232 => Read(c, i) = DecodedJump("call", None, Signed32(c, i + 1), i + 5)
         /\ opcode = 233 => Read(c, i) = DecodedJump("jmp", None, Signed32(c, i + 1), i + 5)
         /\ opcode = 235 => Read(c, i) = DecodedJump("jmp", None, Signed8(c, i + 1), i + 2)
         /\ opcode \in 112 .. 127 => Read(c, i) = DecodedJump("j", Imm(opcode - 112), Signed8(c, i + 1), i + 2)
<1>1. opcode # 242 /\ opcode \notin 64 .. 79 /\ i \in Nat
  BY DEF Bytes
<1>2. At(c, i) = opcode /\ opcode \in Byte /\ \E m : Read(c, i) = ReadGeneral(c, i, 64, m)
  BY SMTT(60), <1>1, ReadOpcode
<1>3. QED
  BY <1>1, <1>2, GeneralJumps

LEMMA ReadFar ==
  ASSUME NEW c \in Bytes, NEW i \in 1 .. Len(c) - 1, c[i] = 15, c[i + 1] \in 128 .. 143
  PROVE  Read(c, i) = DecodedJump("j", Imm(c[i + 1] - 128), Signed32(c, i + 2), i + 6)
<1>1. At(c, i) = 15 /\ At(c, i + 1) = c[i + 1] /\ 15 \in Byte /\ i \in 1 .. Len(c) /\ i \in Nat
  BY DEF At, Bytes, Byte
<1>2. c[i] # 242 /\ c[i] \notin 64 .. 79
  OBVIOUS
<1>3. PICK m : Read(c, i) = ReadGeneral(c, i, 64, m)
  BY SMTT(60), <1>1, <1>2, ReadOpcode
<1>4. QED
  BY <1>1, <1>3, GeneralJumps

(* What a short jump with a wrong opcode is read as, it is no jump on a    *)
(* condition.                                                              *)
LEMMA ReadWrong ==
  ASSUME NEW c \in Bytes, NEW i \in 1 .. Len(c) - 1, c[i] = 0 \/ c[i] > 127, c[i + 1] > 127
  PROVE  Read(c, i).ins.op # "j"
<1>1. /\ At(c, i) = c[i] /\ At(c, i + 1) = c[i + 1] /\ c[i] \in Byte /\ c[i + 1] \in Byte
      /\ i \in 1 .. Len(c) /\ i \in Nat
  BY DEF At, Bytes
<1>2. CASE c[i] = 242
  <2>1. At(c, i) = 242 /\ ~IsRex(At(c, i + 1)) /\ At(c, i + 1) # 15
    BY <1>1, <1>2 DEF IsRex
  <2>2. PICK m : Read(c, i) = ReadSse(c, -1, m)
    BY <2>1 DEF Read
  <2>3. ReadSse(c, -1, m) = Undecoded(c)
    BY DEF ReadSse, SseOperations
  <2>4. QED
    BY <2>2, <2>3 DEF Instr, Unknown, Undecoded
<1>3. CASE c[i] # 242
  <2>1. PICK first \in Byte : c[i] = first
    BY <1>1
  <2>2. first # 15 /\ first \notin 64 .. 79 /\ first \notin 112 .. 127
    BY <2>1 DEF Byte
  <2>3. PICK m : Read(c, i) = ReadGeneral(c, i, 64, m)
    BY SMTT(60), <1>1, <1>3, <2>1, <2>2, ReadOpcode
  <2>4. At(c, i) = first
    BY <1>1, <2>1
  <2>5. ReadGeneral(c, i, 64, m).ins.op # "j"
    BY <1>1, <2>2, <2>4, GeneralOthers
  <2>6. QED
    BY <2>3, <2>5
<1>4. QED
  BY <1>2, <1>3
(* The lower four bytes of a number, as they are read, are the number when *)
(* it has 32 bits; what they leave of a wider one is another number.       *)
IsWord(v) == v \in Int /\ -2147483648 <= v /\ v <= 2147483647
Signed(byte) == IF byte > 127 THEN byte - 256 ELSE byte
Carry(v) == IF ByteOf(v, 3) > 127 THEN 1 ELSE 0
Kept(v) == ByteOf(v, 0) + 256 * ByteOf(v, 1) + 65536 * ByteOf(v, 2) + 16777216 * Signed(ByteOf(v, 3))

LEMMA KeptIs ==
  ASSUME NEW v \in Int
  PROVE  v = Kept(v) + 65536 * (65536 * (Upper(v) + Carry(v))) /\ IsWord(Kept(v)) /\ Upper(v) \in Int /\ Carry(v) \in Int
<1> DEFINE q1 == v \div 256
           q2 == v \div 65536
           q3 == v \div 16777216
           u == q2 \div 65536
           top == q3 % 256
<1>1. q1 \in Int /\ 0 <= v - 256 * q1 /\ v - 256 * q1 <= 255
  BY SMT
<1>2. q2 \in Int /\ 0 <= v - 65536 * q2 /\ v - 65536 * q2 <= 65535
  BY SMT
<1>3. q3 \in Int /\ 0 <= v - 16777216 * q3 /\ v - 16777216 * q3 <= 16777215
  BY SMT
<1>4. ByteOf(v, 0) = v % 256 /\ ByteOf(v, 1) = q1 % 256 /\ ByteOf(v, 2) = q2 % 256 /\ ByteOf(v, 3) = top
  BY SMT DEF ByteOf, ByteOfWord
<1>5. Upper(v) = u
  BY DEF Upper
<1> HIDE DEF q1, q2, q3
<1>6. u \in Int /\ 0 <= q2 - 65536 * u /\ q2 - 65536 * u <= 65535
  BY <1>2, SMT
<1> HIDE DEF u
<1>7. v % 256 = v - 256 * q1
  BY <1>1, SMT
<1>8. q1 % 256 = q1 - 256 * q2
  BY <1>1, <1>2, SMT
<1>9. q2 % 256 = q2 - 256 * q3
  BY <1>2, <1>3, SMT
<1>10. top = q3 - 256 * u /\ 0 <= top /\ top <= 255
  BY <1>2, <1>3, <1>6, SMT
<1> HIDE DEF top
<1>11. ByteOf(v, 0) = v - 256 * q1 /\ ByteOf(v, 1) = q1 - 256 * q2 /\ ByteOf(v, 2) = q2 - 256 * q3 /\ ByteOf(v, 3) = q3 - 256 * u
  BY <1>4, <1>7, <1>8, <1>9, <1>10
<1>12. PICK b0 \in 0 .. 255, b1 \in 0 .. 255, b2 \in 0 .. 255, t \in 0 .. 255 :
         b0 = ByteOf(v, 0) /\ b1 = ByteOf(v, 1) /\ b2 = ByteOf(v, 2) /\ t = ByteOf(v, 3)
  <2>1. ByteOf(v, 0) \in 0 .. 255 /\ ByteOf(v, 1) \in 0 .. 255 /\ ByteOf(v, 2) \in 0 .. 255 /\ ByteOf(v, 3) \in 0 .. 255
    BY BytesOfNumbers DEF Byte
  <2>2. QED
    BY Zenon, <2>1
<1>w. PICK w \in Int : w = u
  BY <1>6
<1>13. v = b0 + 256 * b1 + 65536 * b2 + 16777216 * t + 65536 * (65536 * w)
  BY <1>1, <1>2, <1>3, <1>11, <1>12, <1>w, SMT
<1>14. Kept(v) = b0 + 256 * b1 + 65536 * b2 + 16777216 * Signed(t) /\ Carry(v) = IF t > 127 THEN 1 ELSE 0
  BY <1>12 DEF Kept, Carry
<1>15. Upper(v) = w
  BY <1>5, <1>w
<1>16. CASE t > 127
  <2>1. Kept(v) = b0 + 256 * b1 + 65536 * b2 + 16777216 * (t - 256) /\ Carry(v) = 1
    BY <1>14, <1>16 DEF Signed
  <2>2. PICK k \in Int : k = Kept(v) /\ k = b0 + 256 * b1 + 65536 * b2 + 16777216 * (t - 256)
    BY <2>1
  <2>3. v = k + 65536 * (65536 * (w + 1)) /\ -2147483648 <= k /\ k <= 2147483647
    BY <1>13, <1>16, <2>2
  <2>4. QED
    BY <1>15, <2>1, <2>2, <2>3 DEF IsWord
<1>17. CASE ~(t > 127)
  <2>1. Kept(v) = b0 + 256 * b1 + 65536 * b2 + 16777216 * t /\ Carry(v) = 0
    BY <1>14, <1>17 DEF Signed
  <2>2. PICK k \in Int : k = Kept(v) /\ k = b0 + 256 * b1 + 65536 * b2 + 16777216 * t
    BY <2>1
  <2>3. v = k + 65536 * (65536 * (w + 0)) /\ -2147483648 <= k /\ k <= 2147483647
    BY <1>13, <1>17, <2>2
  <2>4. QED
    BY <1>15, <2>1, <2>2, <2>3 DEF IsWord
<1>18. QED
  BY <1>16, <1>17

LEMMA KeptWhole ==
  ASSUME NEW v \in Int
  PROVE  Kept(v) = v <=> IsWord(v)
<1>1. PICK k \in Int, x \in Int : k = Kept(v) /\ x = Upper(v) + Carry(v) /\ v = k + 65536 * (65536 * x) /\ IsWord(k)
  BY KeptIs DEF IsWord
<1>2. IsWord(v) => x = 0
  BY <1>1 DEF IsWord
<1>3. QED
  BY <1>1, <1>2

-----------------------------------------------------------------------------
(* The inductive invariant.  What is asked of a jump, its opcode, and the  *)
(* field of four bytes at a place.                                         *)
IsCondition(asked) == \E c \in 0 .. 15 : asked = <<"j", Imm(c)>>
IsJump(asked) == asked = <<"call", None>> \/ asked = <<"jmp", None>> \/ IsCondition(asked)
OpcodeSize(asked) == IF asked[1] = "j" THEN 2 ELSE 1
HasOpcode(c, e) ==
  /\ e.asks = <<"call", None>> => c[e.at + 1] = 232
  /\ e.asks = <<"jmp", None>> => c[e.at + 1] = 233
  /\ IsCondition(e.asks) => c[e.at + 1] = 15 /\ c[e.at + 2] = 128 + e.asks[2].n
HasField(c, at, v) ==
  c[at + 1] = ByteOf(v, 0) /\ c[at + 2] = ByteOf(v, 1) /\ c[at + 3] = ByteOf(v, 2) /\ c[at + 4] = ByteOf(v, 3)

(* A jump to a label bound at pos, and one to a label that was not bound,  *)
(* whose field holds value.                                                *)
IsBackward(c, e, end, pos) ==
  /\ pos \in 0 .. e.at
  /\ e.how = "bound" =>
       /\ e.asks = <<"call", None>> /\ end = e.at + 5
       /\ HasOpcode(c, e) /\ HasField(c, e.at + 1, pos - e.at - 6)
  /\ e.how = "short" =>
       /\ end = e.at + 2 /\ e.at - pos <= 126
       /\ c[e.at + 2] = (pos - e.at - 2) % 256
       /\ \/ e.asks = <<"jmp", None>> /\ c[e.at + 1] = 235
          \/ IsCondition(e.asks) /\ c[e.at + 1] = (pos - e.at - e.asks[2].n) % 256
  /\ e.how = "long" =>
       /\ e.asks = <<"jmp", None>> \/ IsCondition(e.asks)
       /\ end = e.at + OpcodeSize(e.asks) + 8
       /\ HasOpcode(c, e)
       /\ HasField(c, e.at + OpcodeSize(e.asks), pos - e.at - OpcodeSize(e.asks) - 4)

IsForward(c, e, end, value) ==
  /\ IsJump(e.asks) /\ e.link \in 0 .. e.at
  /\ end = e.at + OpcodeSize(e.asks) + 8
  /\ HasOpcode(c, e) /\ HasField(c, end - 8, value)

Hows == {"plain", "fill", "bound", "short", "long", "near", "linked"}
Backward == {"bound", "short", "long"}
Asks == {call.asks : call \in Calls} \cup {<<>>, <<"call", None>>, <<"jmp", None>>}
          \cup {<<"j", Imm(c)>> : c \in Conditions}
Wrongs == {call.wrong : call \in Calls} \cup {FALSE}
Entries ==
  [at : Nat, asks : Asks, wrong : Wrongs,
   to : Labels \cup {NoLabel}, how : Hows, link : Int]

TypeOK ==
  /\ code \in Bytes /\ label \in [Labels -> Int] /\ listing \in Seq(Entries)
  /\ negative \in BOOLEAN /\ lost \in BOOLEAN

(* The entries lie in the order of the listing.                            *)
Laid ==
  \A k \in DOMAIN listing :
    listing[k].at <= asm_buff_size /\ \A i \in 1 .. k : listing[i].at <= listing[k].at

IsLink(k, l) == listing[k].to = l /\ listing[k].how = "linked"
LabelsPlaced ==
  \A l \in Labels :
    /\ label[l] > 0 => \E k \in DOMAIN listing :
                         IsLink(k, l) /\ IsLastLink(k) /\ label[l] = EndOf(k)
    /\ label[l] < 0 => asm_label_pos(l) \in 0 .. asm_buff_size
    /\ label[l] = 0 => \A k \in DOMAIN listing : ~IsLink(k, l)

(* What the field of a forward jump holds: the link before it, or, once    *)
(* the label is bound, in the last one the distance to it.                 *)
FieldValue(k) ==
  IF label[listing[k].to] < 0 /\ IsLastLink(k)
  THEN asm_label_pos(listing[k].to) - (EndOf(k) - 4) ELSE listing[k].link

JumpsPlaced ==
  \A k \in DOMAIN listing :
    LET e == listing[k]
    IN  /\ e.to \in Labels <=> e.how \in Backward \cup {"near", "linked"}
        /\ e.how \in Backward => label[e.to] < 0 /\ IsBackward(code, e, EndOf(k), asm_label_pos(e.to))
        /\ e.how = "near" => EndOf(k) = e.at /\ (e.asks = <<"jmp", None>> \/ IsCondition(e.asks))
        /\ e.how = "linked" => /\ label[e.to] # 0
                               /\ \E value \in Int : IsForward(code, e, EndOf(k), value)
                               /\ ~lost => IsForward(code, e, EndOf(k), FieldValue(k))

IInv == TypeOK /\ Laid /\ LabelsPlaced /\ JumpsPlaced
-----------------------------------------------------------------------------
(* Where the entries lie.                                                  *)
LEMMA EntriesLie ==
  ASSUME TypeOK, Laid, NEW k \in DOMAIN listing
  PROVE  /\ k \in 1 .. Len(listing) /\ Len(listing) \in Nat /\ Len(code) \in Nat
         /\ listing[k] \in Entries /\ listing[k].at \in Nat /\ listing[k].link \in Int
         /\ EndOf(k) \in Nat /\ listing[k].at <= EndOf(k) /\ EndOf(k) <= Len(code)
         /\ \A i \in DOMAIN listing : i < k => EndOf(i) <= listing[k].at
<1>1. /\ k \in 1 .. Len(listing) /\ Len(listing) \in Nat /\ Len(code) \in Nat
      /\ DOMAIN listing = 1 .. Len(listing)
  BY DEF TypeOK, Bytes
<1>2. \A i \in DOMAIN listing : listing[i] \in Entries /\ listing[i].at \in Nat /\ listing[i].link \in Int
  <2>1. \A i \in DOMAIN listing : listing[i] \in Entries
    BY DEF TypeOK
  <2>2. \A e \in Entries : e.at \in Nat /\ e.link \in Int
    BY DEF Entries
  <2>3. QED
    BY <2>1, <2>2
<1>3. \A i \in DOMAIN listing : listing[i].at <= Len(code) /\ \A j \in 1 .. i : listing[j].at <= listing[i].at
  BY DEF Laid, asm_buff_size
<1>4. EndOf(k) \in Nat /\ listing[k].at <= EndOf(k) /\ EndOf(k) <= Len(code)
  BY <1>1, <1>2, <1>3 DEF EndOf, asm_buff_size
<1>5. ASSUME NEW i \in DOMAIN listing, i < k
      PROVE  EndOf(i) <= listing[k].at
  <2>1. i + 1 \in 1 .. k /\ i # Len(listing)
    BY <1>1, <1>5
  <2>2. QED
    BY <1>3, <2>1 DEF EndOf
<1>6. QED
  BY <1>1, <1>2, <1>4, <1>5

(* A jump stays what it is while its bytes do.                             *)
LEMMA OpcodeStays ==
  ASSUME NEW c, NEW d, NEW e, e.at \in Nat, HasOpcode(c, e),
         d[e.at + 1] = c[e.at + 1], IsCondition(e.asks) => d[e.at + 2] = c[e.at + 2]
  PROVE  HasOpcode(d, e)
BY DEF HasOpcode

LEMMA SizesOfOpcodes ==
  ASSUME NEW asked, IsJump(asked)
  PROVE  /\ OpcodeSize(asked) \in {1, 2}
         /\ IsCondition(asked) <=> OpcodeSize(asked) = 2
         /\ asked = <<"call", None>> => OpcodeSize(asked) = 1 /\ ~IsCondition(asked)
         /\ asked = <<"jmp", None>> => OpcodeSize(asked) = 1 /\ ~IsCondition(asked)
BY DEF IsJump, IsCondition, OpcodeSize

LEMMA BackwardStays ==
  ASSUME NEW c, NEW d, NEW e, e.at \in Nat, e.how \in Backward, NEW end \in Nat, NEW pos,
         IsBackward(c, e, end, pos), \A i \in e.at + 1 .. end : d[i] = c[i]
  PROVE  IsBackward(d, e, end, pos)
<1>1. CASE e.how = "bound"
  <2>1. /\ e.asks = <<"call", None>> /\ end = e.at + 5 /\ HasOpcode(c, e) /\ HasField(c, e.at + 1, pos - e.at - 6)
        /\ pos \in 0 .. e.at
    BY <1>1 DEF IsBackward
  <2>2. /\ d[e.at + 1] = c[e.at + 1] /\ d[e.at + 2] = c[e.at + 2] /\ d[e.at + 3] = c[e.at + 3]
        /\ d[e.at + 4] = c[e.at + 4] /\ d[e.at + 5] = c[e.at + 5]
    BY <2>1
  <2>3. HasOpcode(d, e)
    BY <2>1, <2>2, OpcodeStays
  <2>4. HasField(d, e.at + 1, pos - e.at - 6)
    BY <2>1, <2>2 DEF HasField
  <2>5. QED
    BY <1>1, <2>1, <2>3, <2>4 DEF IsBackward
<1>2. CASE e.how = "short"
  <2>1. end = e.at + 2
    BY <1>2 DEF IsBackward
  <2>2. d[e.at + 1] = c[e.at + 1] /\ d[e.at + 2] = c[e.at + 2]
    BY <2>1
  <2>3. QED
    BY <1>2, <2>2 DEF IsBackward
<1>3. CASE e.how = "long"
  <2> DEFINE o == OpcodeSize(e.asks)
  <2>1. /\ e.asks = <<"jmp", None>> \/ IsCondition(e.asks)
        /\ end = e.at + o + 8 /\ HasOpcode(c, e) /\ HasField(c, e.at + o, pos - e.at - o - 4)
        /\ pos \in 0 .. e.at
    BY <1>3 DEF IsBackward
  <2>2. o \in {1, 2} /\ (IsCondition(e.asks) => o = 2)
    BY <2>1, SizesOfOpcodes DEF IsJump
  <2> HIDE DEF o
  <2>3. \A i \in 1 .. o + 4 : d[e.at + i] = c[e.at + i]
    BY <2>1, <2>2
  <2>4. d[e.at + 1] = c[e.at + 1] /\ (IsCondition(e.asks) => d[e.at + 2] = c[e.at + 2])
    BY <2>2, <2>3
  <2>5. HasOpcode(d, e)
    BY <2>1, <2>4, OpcodeStays
  <2>6. /\ d[e.at + o + 1] = c[e.at + o + 1] /\ d[e.at + o + 2] = c[e.at + o + 2]
        /\ d[e.at + o + 3] = c[e.at + o + 3] /\ d[e.at + o + 4] = c[e.at + o + 4]
    BY <2>1, <2>2
  <2>7. HasField(d, e.at + o, pos - e.at - o - 4)
    BY <2>1, <2>6 DEF HasField
  <2>8. QED
    BY <1>3, <2>1, <2>5, <2>7 DEF IsBackward, o
<1>4. QED
  BY <1>1, <1>2, <1>3 DEF Backward

(* The field of a forward jump may change alone.                           *)
LEMMA ForwardStays ==
  ASSUME NEW c, NEW d, NEW e, e.at \in Nat, NEW end \in Nat, NEW v, NEW w,
         IsForward(c, e, end, v), \A i \in e.at + 1 .. end - 8 : d[i] = c[i], HasField(d, end - 8, w)
  PROVE  IsForward(d, e, end, w)
<1> DEFINE o == OpcodeSize(e.asks)
<1>1. IsJump(e.asks) /\ end = e.at + o + 8 /\ HasOpcode(c, e)
  BY DEF IsForward
<1>2. o \in {1, 2} /\ (IsCondition(e.asks) => o = 2)
  BY <1>1, SizesOfOpcodes
<1> HIDE DEF o
<1>3. d[e.at + 1] = c[e.at + 1] /\ (IsCondition(e.asks) => d[e.at + 2] = c[e.at + 2])
  BY <1>1, <1>2
<1>4. HasOpcode(d, e)
  BY <1>1, <1>3, OpcodeStays
<1>5. QED
  BY <1>4 DEF IsForward

LEMMA FieldStays ==
  ASSUME NEW c, NEW d, NEW at \in Nat, NEW v, HasField(c, at, v), \A i \in at + 1 .. at + 4 : d[i] = c[i]
  PROVE  HasField(d, at, v)
<1>1. d[at + 1] = c[at + 1] /\ d[at + 2] = c[at + 2] /\ d[at + 3] = c[at + 3] /\ d[at + 4] = c[at + 4]
  OBVIOUS
<1>2. QED
  BY <1>1 DEF HasField

-----------------------------------------------------------------------------
(* What is appended leaves what there is.                                  *)
CodeStays == \A i \in DOMAIN code : code'[i] = code[i]

LEMMA Appended ==
  ASSUME IInv, lost' = lost, negative' = negative,
         NEW bytes \in Bytes, code' = code \o bytes,
         NEW e \in Entries, e.at = Len(code), listing' = Append(listing, e),
         e.to \in Labels <=> e.how \in Backward \cup {"near", "linked"},
         \/ e.how # "linked" /\ label' = label
         \/ /\ e.how = "linked" /\ label[e.to] >= 0 /\ Len(code') > 0
            /\ label' = [label EXCEPT ![e.to] = Len(code')],
         e.how \in Backward => label[e.to] < 0 /\ IsBackward(code', e, Len(code'), asm_label_pos(e.to)),
         e.how = "near" => bytes = <<>> /\ (e.asks = <<"jmp", None>> \/ IsCondition(e.asks)),
         e.how = "linked" => IsForward(code', e, Len(code'), e.link)
  PROVE  IInv' /\ CodeStays
<1>1. TypeOK /\ Laid /\ LabelsPlaced /\ JumpsPlaced
  BY DEF IInv
<1>16. PICK n \in Nat : n = Len(listing)
  BY <1>1 DEF TypeOK
<1>2. /\ n \in Nat /\ n = Len(listing) /\ Len(code) \in Nat /\ Len(bytes) \in Nat /\ DOMAIN listing = 1 .. n
      /\ code \in Bytes /\ listing \in Seq(Entries) /\ label \in [Labels -> Int]
  BY <1>1, <1>16 DEF TypeOK, Bytes
<1>3. /\ code' \in Bytes /\ Len(code') = Len(code) + Len(bytes)
      /\ \A i \in 1 .. Len(code) : code'[i] = code[i]
  BY <1>2 DEF Bytes
<1>4. /\ listing' \in Seq(Entries) /\ Len(listing') = n + 1 /\ DOMAIN listing' = 1 .. n + 1
      /\ listing'[n + 1] = e /\ \A k \in 1 .. n : listing'[k] = listing[k]
  BY <1>2
<1>5. label' \in [Labels -> Int]
  BY <1>2, <1>3
<1>6. TypeOK'
  BY <1>1, <1>3, <1>4, <1>5 DEF TypeOK
<1>7. /\ EndOf(n + 1)' = Len(code')
      /\ \A k \in 1 .. n : EndOf(k)' = EndOf(k)
  <2>1. EndOf(n + 1)' = Len(code')
    BY <1>4 DEF EndOf, asm_buff_size
  <2>2. ASSUME NEW k \in 1 .. n PROVE EndOf(k)' = EndOf(k)
    <3>1. EndOf(k)' = listing'[k + 1].at
      BY <1>2, <1>4 DEF EndOf
    <3>2. CASE k = n
      BY <1>2, <1>4, <3>1, <3>2 DEF EndOf, asm_buff_size
    <3>3. CASE k # n
      <4>1. k + 1 \in 1 .. n
        BY <1>2, <3>3
      <4>2. QED
        BY <1>2, <1>4, <3>1, <3>3, <4>1 DEF EndOf
    <3>4. QED
      BY <3>2, <3>3
  <2>3. QED
    BY <2>1, <2>2
<1>8. \A k \in 1 .. n : /\ listing[k].at \in Nat /\ listing[k].at <= Len(code)
                        /\ listing[k].at <= EndOf(k) /\ EndOf(k) <= Len(code) /\ EndOf(k) \in Nat
  <2>1. ASSUME NEW k \in 1 .. n
        PROVE  /\ listing[k].at \in Nat /\ listing[k].at <= Len(code)
               /\ listing[k].at <= EndOf(k) /\ EndOf(k) <= Len(code) /\ EndOf(k) \in Nat
    <3>1. k \in DOMAIN listing
      BY <1>2
    <3>2. /\ listing[k].at \in Nat /\ listing[k].at <= EndOf(k) /\ EndOf(k) <= Len(code) /\ EndOf(k) \in Nat
      BY <1>1, <3>1, EntriesLie
    <3>3. QED
      BY <1>2, <3>2
  <2>2. QED
    BY <2>1
<1>9. Laid'
  <2>1. ASSUME NEW k \in 1 .. n + 1
        PROVE  listing'[k].at <= Len(code') /\ \A i \in 1 .. k : listing'[i].at <= listing'[k].at
    <3>1. CASE k = n + 1
      BY <1>2, <1>3, <1>4, <1>8, <3>1
    <3>2. CASE k # n + 1
      <4>1. k \in 1 .. n /\ \A i \in 1 .. k : i \in 1 .. n
        BY <1>2, <3>2
      <4>2. \A i \in 1 .. k : listing[i].at <= listing[k].at
        BY <1>1, <1>2, <4>1 DEF Laid
      <4>3. QED
        BY <1>2, <1>3, <1>4, <1>8, <4>1, <4>2
    <3>3. QED
      BY <3>1, <3>2
  <2>2. QED
    BY <1>4, <2>1 DEF Laid, asm_buff_size
(* The links of another label are those there were.                        *)
<1>10. ASSUME NEW l \in Labels
       PROVE  /\ \A k \in 1 .. n : IsLink(k, l)' <=> IsLink(k, l)
              /\ IsLink(n + 1, l)' <=> e.to = l /\ e.how = "linked"
  BY <1>2, <1>4 DEF IsLink
<1>11. ASSUME NEW k \in 1 .. n, ~(e.to = listing[k].to /\ e.how = "linked")
       PROVE  IsLastLink(k)' <=> IsLastLink(k)
  <2>1. IsLastLink(k)' <=> \A i \in 1 .. n + 1 : listing'[i].to = listing[k].to /\ listing'[i].how = "linked" => i <= k
    BY <1>4 DEF IsLastLink
  <2>2. IsLastLink(k) <=> \A i \in 1 .. n : listing[i].to = listing[k].to /\ listing[i].how = "linked" => i <= k
    BY <1>2 DEF IsLastLink
  <2>3. \A i \in 1 .. n + 1 : i = n + 1 \/ i \in 1 .. n
    BY <1>2
  <2>4. QED
    BY <1>2, <1>4, <1>11, <2>1, <2>2, <2>3
<1>12. LabelsPlaced'
  <2>1. ASSUME NEW l \in Labels
        PROVE  /\ label'[l] > 0 => \E k \in 1 .. n + 1 : IsLink(k, l)' /\ IsLastLink(k)' /\ label'[l] = EndOf(k)'
               /\ label'[l] < 0 => -label'[l] - kWordSize \in 0 .. Len(code')
               /\ label'[l] = 0 => \A k \in 1 .. n + 1 : ~IsLink(k, l)'
    <3>1. CASE e.to = l /\ e.how = "linked"
      <4>1. label'[l] = Len(code') /\ label'[l] > 0
        BY <1>2, <3>1
      <4>2. IsLink(n + 1, l)' /\ IsLastLink(n + 1)'
        BY <1>2, <1>4, <1>10, <3>1 DEF IsLastLink
      <4>3. n + 1 \in 1 .. n + 1
        BY <1>2
      <4>4. QED
        BY <1>7, <4>1, <4>2, <4>3
    <3>2. CASE ~(e.to = l /\ e.how = "linked")
      <4>1. label'[l] = label[l] /\ label[l] \in Int
        BY <1>2, <3>2
      <4>2. \A k \in 1 .. n + 1 : IsLink(k, l)' => k \in 1 .. n /\ IsLink(k, l)
        <5>1. \A k \in 1 .. n + 1 : k = n + 1 \/ k \in 1 .. n
          BY <1>2
        <5>2. QED
          BY <1>10, <3>2, <5>1
      <4>3. label[l] > 0 => \E k \in 1 .. n + 1 : IsLink(k, l)' /\ IsLastLink(k)' /\ label'[l] = EndOf(k)'
        <5>1. SUFFICES ASSUME label[l] > 0
                       PROVE  \E k \in 1 .. n + 1 : IsLink(k, l)' /\ IsLastLink(k)' /\ label'[l] = EndOf(k)'
          OBVIOUS
        <5>2. PICK k \in 1 .. n : IsLink(k, l) /\ IsLastLink(k) /\ label[l] = EndOf(k)
          BY <1>1, <1>2, <5>1 DEF LabelsPlaced
        <5>3. listing[k].to = l /\ k \in 1 .. n + 1
          BY <1>2, <5>2 DEF IsLink
        <5>4. QED
          BY <1>7, <1>10, <1>11, <3>2, <4>1, <5>2, <5>3
      <4>4. label[l] < 0 => -label[l] - kWordSize \in 0 .. Len(code')
        <5>1. label[l] < 0 => -label[l] - kWordSize \in 0 .. Len(code)
          BY <1>1 DEF LabelsPlaced, asm_label_pos, asm_buff_size
        <5>2. QED
          BY <1>2, <1>3, <4>1, <5>1
      <4>5. label[l] = 0 => \A k \in 1 .. n : ~IsLink(k, l)
        BY <1>1, <1>2 DEF LabelsPlaced
      <4>6. QED
        BY <4>1, <4>2, <4>3, <4>4, <4>5
    <3>3. QED
      BY <3>1, <3>2
  <2>2. QED
    BY <1>4, <2>1 DEF LabelsPlaced, asm_label_pos, asm_buff_size
<1>13. ASSUME NEW k \in 1 .. n + 1
       PROVE  LET f == listing'[k]
              IN  /\ f.to \in Labels <=> f.how \in Backward \cup {"near", "linked"}
                  /\ f.how \in Backward =>
                       label'[f.to] < 0 /\ IsBackward(code', f, EndOf(k)', -label'[f.to] - kWordSize)
                  /\ f.how = "near" => EndOf(k)' = f.at /\ (f.asks = <<"jmp", None>> \/ IsCondition(f.asks))
                  /\ f.how = "linked" => /\ label'[f.to] # 0
                                         /\ \E value \in Int : IsForward(code', f, EndOf(k)', value)
                                         /\ ~lost' => IsForward(code', f, EndOf(k)', FieldValue(k)')
  <2>1. CASE k = n + 1
    <3>1. listing'[k] = e /\ EndOf(k)' = Len(code')
      BY <1>2, <1>4, <1>7, <2>1
    <3>2. e.how \in Backward =>
            label'[e.to] < 0 /\ IsBackward(code', e, EndOf(k)', -label'[e.to] - kWordSize)
      BY <3>1 DEF Backward, asm_label_pos
    <3>3. e.how = "near" => EndOf(k)' = e.at
      BY <1>2, <1>3, <3>1
    <3>4. ASSUME e.how = "linked"
          PROVE  /\ label'[e.to] # 0 /\ ~(label'[e.to] < 0)
                 /\ e.link \in Int /\ IsForward(code', e, EndOf(k)', e.link)
      <4>1. e.to \in Labels /\ label'[e.to] = Len(code') /\ Len(code') > 0 /\ Len(code') \in Nat
        BY <1>2, <1>3, <3>4
      <4>2. e.link \in Int
        BY DEF Entries
      <4>3. QED
        BY <3>1, <3>4, <4>1, <4>2
    <3>5. e.how = "linked" => FieldValue(k)' = e.link
      BY <3>1, <3>4 DEF FieldValue
    <3>6. QED
      BY <3>1, <3>2, <3>3, <3>4, <3>5
  <2>2. CASE k # n + 1
    <3> DEFINE f == listing[k]
    <3>1. k \in 1 .. n /\ k \in DOMAIN listing /\ listing'[k] = f /\ EndOf(k)' = EndOf(k)
      BY <1>2, <1>4, <1>7, <2>2
    <3>2. /\ f.to \in Labels <=> f.how \in Backward \cup {"near", "linked"}
          /\ f.how \in Backward => label[f.to] < 0 /\ IsBackward(code, f, EndOf(k), -label[f.to] - kWordSize)
          /\ f.how = "near" => EndOf(k) = f.at /\ (f.asks = <<"jmp", None>> \/ IsCondition(f.asks))
          /\ f.how = "linked" => /\ label[f.to] # 0
                                 /\ \E value \in Int : IsForward(code, f, EndOf(k), value)
                                 /\ ~lost => IsForward(code, f, EndOf(k), FieldValue(k))
      BY <1>1, <3>1 DEF JumpsPlaced, asm_label_pos
    <3>3. /\ f.at \in Nat /\ EndOf(k) \in Nat /\ \A i \in f.at + 1 .. EndOf(k) : code'[i] = code[i]
      BY <1>2, <1>3, <1>8, <3>1
    <3>4. f.how \in Backward =>
            label'[f.to] < 0 /\ IsBackward(code', f, EndOf(k), -label'[f.to] - kWordSize)
      <4>1. SUFFICES ASSUME f.how \in Backward
                     PROVE  label'[f.to] < 0 /\ IsBackward(code', f, EndOf(k), -label'[f.to] - kWordSize)
        OBVIOUS
      <4>2. f.to \in Labels /\ label[f.to] < 0 /\ label[f.to] \in Int
        BY <1>2, <3>2, <4>1
      <4>3. label'[f.to] = label[f.to]
        BY <1>2, <4>2
      <4>4. IsBackward(code', f, EndOf(k), -label[f.to] - kWordSize)
        <5> HIDE DEF f
        <5>1. IsBackward(code, f, EndOf(k), -label[f.to] - kWordSize)
          BY <3>2, <4>1
        <5>2. QED
          BY <3>3, <4>1, <5>1, BackwardStays
      <4>5. QED
        BY <4>2, <4>3, <4>4
    <3>5. ASSUME f.how = "linked"
          PROVE  /\ label'[f.to] # 0
                 /\ \E value \in Int : IsForward(code', f, EndOf(k), value)
                 /\ ~lost' => IsForward(code', f, EndOf(k), FieldValue(k)')
      <4>1. f.to \in Labels /\ label[f.to] # 0 /\ label[f.to] \in Int
        BY <1>2, <3>2, <3>5 DEF Backward
      <4>2. label'[f.to] # 0
        BY <1>2, <1>3, <4>1
      <4> HIDE DEF f
      <4>3. \A value : IsForward(code, f, EndOf(k), value) => IsForward(code', f, EndOf(k), value)
        <5>1. SUFFICES ASSUME NEW value, IsForward(code, f, EndOf(k), value)
                       PROVE  IsForward(code', f, EndOf(k), value)
          OBVIOUS
        <5>2. IsJump(f.asks) /\ EndOf(k) = f.at + OpcodeSize(f.asks) + 8 /\ HasField(code, EndOf(k) - 8, value)
          BY <5>1 DEF IsForward
        <5>3. OpcodeSize(f.asks) \in {1, 2}
          BY <5>2, SizesOfOpcodes
        <5>4. EndOf(k) - 8 \in Nat /\ EndOf(k) - 8 >= f.at
          BY <3>3, <5>2, <5>3
        <5>5. \A i \in EndOf(k) - 8 + 1 .. EndOf(k) - 8 + 4 : code'[i] = code[i]
          <6>1. \A i \in EndOf(k) - 8 + 1 .. EndOf(k) - 8 + 4 : i \in f.at + 1 .. EndOf(k)
            BY SMTT(60), <3>3, <5>4
          <6>2. QED
            BY <3>3, <6>1
        <5>6. HasField(code', EndOf(k) - 8, value)
          BY ZenonT(60), <5>2, <5>4, <5>5, FieldStays
        <5>7. \A i \in f.at + 1 .. EndOf(k) - 8 : code'[i] = code[i]
          <6>1. \A i \in f.at + 1 .. EndOf(k) - 8 : i \in f.at + 1 .. EndOf(k)
            BY <3>3, <5>4
          <6>2. QED
            BY <3>3, <6>1
        <5>8. QED
          BY <3>3, <5>1, <5>6, <5>7, ForwardStays
      <4>4. FieldValue(k)' = FieldValue(k)
        <5>1. CASE e.to = f.to /\ e.how = "linked"
          <6>1. ~(label[f.to] < 0) /\ ~(label'[f.to] < 0)
            BY <1>2, <1>3, <4>1, <5>1
          <6>2. QED
            BY <3>1, <6>1 DEF FieldValue, f
        <5>2. CASE ~(e.to = f.to /\ e.how = "linked")
          <6>1. label'[f.to] = label[f.to]
            BY <1>2, <4>1, <5>2
          <6>2. IsLastLink(k)' <=> IsLastLink(k)
            BY <1>11, <3>1, <5>2 DEF f
          <6>3. QED
            BY <3>1, <6>1, <6>2 DEF FieldValue, asm_label_pos, f
        <5>3. QED
          BY <5>1, <5>2
      <4>5. QED
        BY <3>2, <3>5, <4>2, <4>3, <4>4
    <3>6. QED
      BY <3>1, <3>2, <3>4, <3>5
  <2>3. QED
    BY <2>1, <2>2
<1>14. JumpsPlaced'
  BY <1>4, <1>13 DEF JumpsPlaced, asm_label_pos
<1>15. CodeStays
  BY <1>2, <1>3 DEF CodeStays, Bytes
<1>17. QED
  BY <1>6, <1>9, <1>12, <1>14, <1>15 DEF IInv

-----------------------------------------------------------------------------
(* The steps.  What the end of the code is after an opcode and its field.  *)
IsWordOf(w, v) == w = Int32(v) \/ w = Int64(v)

LEMMA Ending ==
  ASSUME NEW c \in Bytes, NEW op \in Bytes, Len(op) \in {1, 2}, NEW v \in Int, NEW w, IsWordOf(w, v)
  PROVE  LET d == c \o (op \o w)
         IN  /\ op \o w \in Bytes /\ Len(c) \in Nat
             /\ Len(d) = Len(c) + Len(op) + Len(w)
             /\ \A i \in 1 .. Len(op) : d[Len(c) + i] = op[i]
             /\ HasField(d, Len(c) + Len(op), v)
             /\ (c \o op) \o w = d
<1> DEFINE d == c \o (op \o w)
<1>20. w = Int32(v) \/ w = Int64(v)
  BY DEF IsWordOf
<1>1. w \in Bytes /\ Len(w) \in {4, 8}
  <2>1. Int32(v) \in Bytes /\ Len(Int32(v)) = 4 /\ Int64(v) \in Bytes /\ Len(Int64(v)) = 8
    BY BytesOfNumbers
  <2>2. QED
    BY <1>20, <2>1
<1>2. w[1] = ByteOf(v, 0) /\ w[2] = ByteOf(v, 1) /\ w[3] = ByteOf(v, 2) /\ w[4] = ByteOf(v, 3)
  BY <1>20 DEF Int32, Int64
<1> DEFINE tail == op \o w
<1>3. tail \in Bytes /\ d = c \o tail
  BY <1>1, Joined
<1>4. /\ Len(tail) = Len(op) + Len(w) /\ Len(c) \in Nat
      /\ \A i \in 1 .. Len(op) : tail[i] = op[i]
      /\ \A i \in 1 .. Len(w) : tail[Len(op) + i] = w[i]
  BY <1>1 DEF Bytes
<1>5. op \o w = tail
  OBVIOUS
<1>13. d = c \o (op \o w)
  OBVIOUS
<1>12. ASSUME NEW a \in {1, 2}, NEW b \in {4, 8}
       PROVE  /\ \A i \in 1 .. a : i \in 1 .. a + b
              /\ \A i \in 1 .. 4 : i \in 1 .. b /\ a + i \in 1 .. a + b
  OBVIOUS
<1> HIDE DEF tail, d
<1>6. /\ Len(d) = Len(c) + Len(tail)
      /\ \A i \in 1 .. Len(tail) : d[Len(c) + i] = tail[i]
  BY <1>3 DEF Bytes
<1>7. Len(d) = Len(c) + Len(op) + Len(w)
  BY <1>1, <1>4, <1>6
<1>8. \A i \in 1 .. Len(op) : d[Len(c) + i] = op[i]
  <2>1. \A i \in 1 .. Len(op) : i \in 1 .. Len(tail)
    BY <1>1, <1>4, <1>12
  <2>2. QED
    BY <1>4, <1>6, <2>1
<1>9. HasField(d, Len(c) + Len(op), v)
  <2>1. ASSUME NEW i \in 1 .. 4 PROVE d[Len(c) + Len(op) + i] = w[i]
    <3>1. i \in 1 .. Len(w) /\ Len(op) + i \in 1 .. Len(tail)
      BY <1>1, <1>4, <1>12
    <3>2. d[Len(c) + (Len(op) + i)] = w[i]
      BY <1>4, <1>6, <3>1
    <3>3. Len(c) \in Int /\ Len(op) \in Int /\ i \in Int
      BY <1>4
    <3>4. ASSUME NEW x \in Int, NEW y \in Int, NEW z \in Int PROVE x + (y + z) = x + y + z
      OBVIOUS
    <3>5. QED
      BY <3>2, <3>3, <3>4
  <2>2. 1 \in 1 .. 4 /\ 2 \in 1 .. 4 /\ 3 \in 1 .. 4 /\ 4 \in 1 .. 4
    OBVIOUS
  <2>3. /\ d[Len(c) + Len(op) + 1] = w[1] /\ d[Len(c) + Len(op) + 2] = w[2]
        /\ d[Len(c) + Len(op) + 3] = w[3] /\ d[Len(c) + Len(op) + 4] = w[4]
    BY <2>1, <2>2
  <2>4. QED
    BY <1>2, <2>3 DEF HasField
<1>10. (c \o op) \o w = d
  <2>1. c \in Seq(Byte) /\ op \in Seq(Byte) /\ w \in Seq(Byte)
    BY <1>1 DEF Bytes
  <2>2. (c \o op) \o w = c \o (op \o w)
    BY <2>1
  <2>3. QED
    BY <1>13, <2>2
<1>11. QED
  BY <1>3, <1>4, <1>5, <1>7, <1>8, <1>9, <1>10 DEF d

LEMMA ThreeLengths ==
  ASSUME NEW a \in Bytes, NEW b \in Bytes, NEW c \in Bytes
  PROVE  Len(a \o (b \o c)) = Len(a) + Len(b) + Len(c)
<1>1. Len(a) \in Nat /\ Len(b) \in Nat /\ Len(c) \in Nat
  BY DEF Bytes
<1>2. b \o c \in Bytes /\ Len(b \o c) = Len(b) + Len(c)
  BY DEF Bytes
<1>3. Len(a \o (b \o c)) = Len(a) + Len(b \o c)
  BY <1>2 DEF Bytes
<1>4. QED
  BY <1>1, <1>2, <1>3

IsEnding(d, c, op, v) ==
  /\ d = c \o (op \o Int64(v)) /\ op \o Int64(v) \in Bytes
  /\ Len(d) = Len(c) + Len(op) + 8
  /\ d[Len(c) + 1] = op[1]
  /\ Len(op) = 2 => d[Len(c) + 2] = op[2]
  /\ HasField(d, Len(c) + Len(op), v)

LEMMA LongEnding ==
  ASSUME NEW c \in Bytes, NEW op \in Bytes, Len(op) \in {1, 2}, NEW v \in Int
  PROVE  IsEnding((c \o op) \o Int64(v), c, op, v)
<1> DEFINE w == Int64(v)
<1>1. IsWordOf(w, v) /\ w \in Bytes /\ Len(w) = 8
  BY BytesOfNumbers DEF IsWordOf
<1> HIDE DEF w
<1>2. op \o w \in Bytes /\ (c \o op) \o w = c \o (op \o w)
  BY SMTT(60), <1>1, Ending
<1>8. w \in Bytes
  BY <1>1
<1>3. Len(c \o (op \o w)) = Len(c) + Len(op) + Len(w)
  BY <1>8, ThreeLengths
<1>4. HasField(c \o (op \o w), Len(c) + Len(op), v)
  BY <1>1, Ending
<1>5. \A i \in 1 .. Len(op) : (c \o (op \o w))[Len(c) + i] = op[i]
  BY <1>1, Ending
<1>6. 1 \in 1 .. Len(op) /\ (Len(op) = 2 => 2 \in 1 .. Len(op))
  OBVIOUS
<1>7. QED
  BY <1>1, <1>2, <1>3, <1>4, <1>5, <1>6 DEF w, IsEnding

IsCallEnding(d, c, op, v) ==
  /\ op \o Int32(v) \in Bytes /\ Len(op \o Int32(v)) = Len(op) + 4
  /\ Len(d) = Len(c) + Len(op) + 4
  /\ d[Len(c) + 1] = op[1]
  /\ HasField(d, Len(c) + Len(op), v)

LEMMA CallEnding ==
  ASSUME NEW c \in Bytes, NEW op \in Bytes, Len(op) \in {1, 2}, NEW v \in Int
  PROVE  IsCallEnding(c \o (op \o Int32(v)), c, op, v)
<1> DEFINE w == Int32(v)
<1>1. IsWordOf(w, v) /\ w \in Bytes /\ Len(w) = 4
  BY BytesOfNumbers DEF IsWordOf
<1> HIDE DEF w
<1>8. w \in Bytes
  BY <1>1
<1>2. op \o w \in Bytes
  BY <1>8, Joined
<1>3. Len(c \o (op \o w)) = Len(c) + Len(op) + Len(w)
  BY <1>8, ThreeLengths
<1>9. Len(op \o w) = Len(op) + Len(w)
  <2>1. op \in Seq(Byte) /\ w \in Seq(Byte)
    BY <1>8 DEF Bytes
  <2>2. QED
    BY <2>1
<1>4. HasField(c \o (op \o w), Len(c) + Len(op), v)
  BY <1>1, <1>8, Ending
<1>5. \A i \in 1 .. Len(op) : (c \o (op \o w))[Len(c) + i] = op[i]
  BY <1>1, <1>8, Ending
<1>6. 1 \in 1 .. Len(op)
  OBVIOUS
<1>7. QED
  BY <1>1, <1>2, <1>3, <1>4, <1>5, <1>6, <1>9 DEF w, IsCallEnding

LEMMA EntriesAre ==
  ASSUME NEW at \in Nat, NEW asks \in Asks, NEW wrong \in Wrongs, NEW to \in Labels \cup {NoLabel},
         NEW how \in Hows, NEW link \in Int
  PROVE  [at |-> at, asks |-> asks, wrong |-> wrong, to |-> to, how |-> how, link |-> link] \in Entries
BY DEF Entries

LEMMA JumpEntries ==
  ASSUME TypeOK, NEW op, NEW cond, <<op, cond>> \in Asks, NEW l \in Labels, NEW how \in Hows
  PROVE  /\ JumpEntry(op, cond, l, how) \in Entries
         /\ JumpEntry(op, cond, l, how) =
              [at |-> Len(code), asks |-> <<op, cond>>, wrong |-> FALSE, to |-> l, how |-> how, link |-> label[l]]
<1>1. JumpEntry(op, cond, l, how) =
        [at |-> Len(code), asks |-> <<op, cond>>, wrong |-> FALSE, to |-> l, how |-> how, link |-> label[l]]
  BY DEF JumpEntry, asm_buff_size
<1>2. Len(code) \in Nat /\ label[l] \in Int
  BY DEF TypeOK, Bytes
<1>3. FALSE \in Wrongs /\ l \in Labels \cup {NoLabel}
  BY DEF Wrongs
<1>4. QED
  BY <1>1, <1>2, <1>3, EntriesAre

LEMMA NoLabelIsNone == NoLabel \notin Labels /\ Conditions \subseteq 0 .. 15 /\ Fills \subseteq Nat
BY BoundsAssumption

(* What is asked of jumps.                                                 *)
LEMMA AskedJumps ==
  /\ <<"call", None>> \in Asks /\ <<"jmp", None>> \in Asks /\ \A cond \in Conditions : <<"j", Imm(cond)>> \in Asks
  /\ IsJump(<<"call", None>>) /\ OpcodeSize(<<"call", None>>) = 1 /\ ~IsCondition(<<"call", None>>)
  /\ IsJump(<<"jmp", None>>) /\ OpcodeSize(<<"jmp", None>>) = 1 /\ ~IsCondition(<<"jmp", None>>)
BY DEF Asks, IsJump, IsCondition, OpcodeSize

LEMMA AskedConditions ==
  ASSUME NEW cond \in 0 .. 15, NEW asked, asked = <<"j", Imm(cond)>>
  PROVE  IsJump(asked) /\ OpcodeSize(asked) = 2 /\ IsCondition(asked) /\ asked[2].n = cond
BY DEF IsJump, IsCondition, OpcodeSize, Imm

(* A label's position, and the one that is linked.                         *)
LEMMA LabelsLie ==
  ASSUME IInv, NEW l \in Labels
  PROVE  /\ label[l] \in Int /\ Len(code) \in Nat /\ code \in Bytes /\ DOMAIN label = Labels
         /\ label[l] < 0 => asm_label_pos(l) \in 0 .. Len(code)
         /\ label[l] >= 0 => label[l] \in 0 .. Len(code)
<1>1. TypeOK /\ Laid /\ LabelsPlaced
  BY DEF IInv
<1>2. label[l] \in Int /\ Len(code) \in Nat /\ code \in Bytes /\ DOMAIN label = Labels
  BY <1>1 DEF TypeOK, Bytes
<1>3. label[l] < 0 => asm_label_pos(l) \in 0 .. Len(code)
  BY <1>1 DEF LabelsPlaced, asm_buff_size
<1>4. ASSUME label[l] > 0 PROVE label[l] \in 0 .. Len(code)
  <2>1. PICK k \in DOMAIN listing : label[l] = EndOf(k)
    BY <1>1, <1>4 DEF LabelsPlaced
  <2>2. QED
    BY <1>1, <2>1, EntriesLie
<1>5. QED
  BY <1>2, <1>3, <1>4

IsOpcode(opcode, asked) ==
  /\ Len(opcode) = OpcodeSize(asked)
  /\ asked = <<"call", None>> => opcode[1] = 232
  /\ asked = <<"jmp", None>> => opcode[1] = 233
  /\ \A c \in 0 .. 15 : asked = <<"j", Imm(c)>> => opcode[1] = 15 /\ opcode[2] = 128 + c

(* A jump to a label that is not bound: the opcode, and the link as field. *)
LEMMA LinkedStep ==
  ASSUME IInv, NEW l \in Labels, ~asm_label_is_bound(l), NEW op, NEW cond, <<op, cond>> \in Asks,
         IsJump(<<op, cond>>), NEW opcode \in Bytes, IsOpcode(opcode, <<op, cond>>),
         emit_label_link(op, cond, l, opcode), UNCHANGED <<negative, lost>>
  PROVE  IInv' /\ CodeStays
<1> DEFINE e == JumpEntry(op, cond, l, "linked")
           asked == <<op, cond>>
           o == Len(opcode)
<1>1. TypeOK /\ label[l] \in 0 .. Len(code) /\ Len(code) \in Nat /\ code \in Bytes /\ label[l] \in Int
  BY LabelsLie DEF IInv, asm_label_is_bound
<1>2. e \in Entries /\ e = [at |-> Len(code), asks |-> asked, wrong |-> FALSE, to |-> l, how |-> "linked", link |-> label[l]]
  <2>1. "linked" \in Hows
    BY DEF Hows
  <2>2. /\ JumpEntry(op, cond, l, "linked") \in Entries
        /\ JumpEntry(op, cond, l, "linked") =
             [at |-> Len(code), asks |-> <<op, cond>>, wrong |-> FALSE, to |-> l, how |-> "linked", link |-> label[l]]
    BY <1>1, <2>1, JumpEntries
  <2>3. QED
    BY <2>2
<1>3. e.at = Len(code) /\ e.asks = asked /\ e.to = l /\ e.how = "linked" /\ e.link = label[l]
  BY <1>2
<1>4. /\ code' = (code \o opcode) \o Int64(label[l])
      /\ label' = [label EXCEPT ![l] = link_to(Len(code) + o)] /\ listing' = Append(listing, e)
      /\ lost' = lost /\ negative' = negative
  BY DEF emit_label_link, asm_buff_size
<1>5. o \in {1, 2} /\ o = OpcodeSize(asked)
  BY SizesOfOpcodes DEF IsOpcode
<1>6. Len(Int64(label[l])) = 8
  BY <1>1, BytesOfNumbers
<1> HIDE DEF e
<1>7. /\ opcode \o Int64(label[l]) \in Bytes /\ code' = code \o (opcode \o Int64(label[l]))
      /\ Len(code') = Len(code) + o + 8
      /\ code'[Len(code) + 1] = opcode[1]
      /\ o = 2 => code'[Len(code) + 2] = opcode[2]
      /\ HasField(code', Len(code) + o, label[l])
  <2>1. code \in Bytes /\ label[l] \in Int /\ Len(opcode) \in {1, 2}
    BY <1>1, <1>5
  <2>2. IsEnding((code \o opcode) \o Int64(label[l]), code, opcode, label[l])
    BY <2>1, LongEnding
  <2>3. IsEnding(code', code, opcode, label[l])
    BY <1>4, <2>2
  <2>4. QED
    BY <2>3 DEF IsEnding
<1>8. HasOpcode(code', e)
  <2>1. /\ asked = <<"call", None>> => opcode[1] = 232
        /\ asked = <<"jmp", None>> => opcode[1] = 233
    BY DEF IsOpcode
  <2>2. code'[e.at + 1] = opcode[1]
    BY <1>3, <1>7
  <2>3. ASSUME IsCondition(asked)
        PROVE  code'[e.at + 1] = 15 /\ code'[e.at + 2] = 128 + asked[2].n
    <3>1. PICK c \in 0 .. 15 : asked = <<"j", Imm(c)>>
      BY <2>3 DEF IsCondition
    <3>2. asked[2].n = c /\ OpcodeSize(asked) = 2
      <4> HIDE DEF asked
      <4>1. QED
        BY <3>1, AskedConditions
    <3>4. opcode[1] = 15 /\ opcode[2] = 128 + c
      BY <3>1 DEF IsOpcode
    <3>5. QED
      BY <1>3, <1>5, <1>7, <3>2, <3>4
  <2>4. QED
    BY <1>3, <2>1, <2>2, <2>3 DEF HasOpcode
<1>9. IsForward(code', e, Len(code'), e.link)
  <2>1. Len(code') = e.at + OpcodeSize(e.asks) + 8 /\ Len(code') - 8 = Len(code) + o
    BY <1>1, <1>3, <1>5, <1>7
  <2>2. QED
    BY <1>1, <1>3, <1>7, <1>8, <2>1 DEF IsForward
<1>10. label' = [label EXCEPT ![e.to] = Len(code')] /\ Len(code') > 0 /\ label[e.to] >= 0
  BY <1>1, <1>3, <1>4, <1>5, <1>7 DEF link_to, kWordSize
<1>11. QED
  BY <1>2, <1>3, <1>4, <1>7, <1>9, <1>10, Appended DEF Backward

(* A jump to a bound label, or one that is emitted as nothing.             *)
LEMMA BoundStep ==
  ASSUME IInv, NEW l \in Labels, NEW op, NEW cond, <<op, cond>> \in Asks, NEW how \in Hows, NEW bytes \in Bytes,
         EmitBound(op, cond, l, how, bytes), UNCHANGED <<negative, lost>>,
         NEW e, e = JumpEntry(op, cond, l, how),
         \/ how \in Backward /\ label[l] < 0 /\ IsBackward(code \o bytes, e, Len(code) + Len(bytes), asm_label_pos(l))
         \/ how = "near" /\ bytes = <<>> /\ (<<op, cond>> = <<"jmp", None>> \/ IsCondition(<<op, cond>>))
  PROVE  IInv' /\ CodeStays
<1>1. TypeOK /\ Len(code) \in Nat /\ code \in Bytes
  BY LabelsLie DEF IInv
<1>2. e \in Entries /\ e.at = Len(code) /\ e.asks = <<op, cond>> /\ e.to = l /\ e.how = how
  BY <1>1, JumpEntries
<1>3. /\ code' = code \o bytes /\ listing' = Append(listing, e) /\ label' = label
      /\ lost' = lost /\ negative' = negative
  BY DEF EmitBound
<1>4. Len(code') = Len(code) + Len(bytes)
  BY <1>1, <1>3 DEF Bytes
<1>5. how # "linked" /\ (how \in Backward => how # "near")
  BY DEF Backward
<1>6. QED
  BY <1>2, <1>3, <1>4, <1>5, Appended

LEMMA PlainEntries ==
  ASSUME IInv, NEW asks \in Asks, NEW wrong \in Wrongs, NEW how \in Hows, NEW e, e = Entry(asks, wrong, how)
  PROVE  e \in Entries /\ e.at = Len(code) /\ e.to = NoLabel /\ e.how = how
<1>1. e = [at |-> Len(code), asks |-> asks, wrong |-> wrong, to |-> NoLabel, how |-> how, link |-> 0]
  BY DEF Entry, asm_buff_size
<1>2. Len(code) \in Nat /\ NoLabel \in Labels \cup {NoLabel} /\ 0 \in Int
  BY DEF IInv, TypeOK, Bytes
<1>3. QED
  BY <1>1, <1>2, EntriesAre

LEMMA EmitStep ==
  ASSUME IInv, NEW call \in Calls, Emit(call)
  PROVE  IInv' /\ CodeStays
<1> DEFINE e == Entry(call.asks, call.wrong, "plain")
<1>1. e = Entry(call.asks, call.wrong, "plain")
  OBVIOUS
<1> HIDE DEF e
<1>2. call.asks \in Asks /\ call.wrong \in Wrongs
  BY DEF Asks, Wrongs
<1>3. "plain" \in Hows
  BY DEF Hows
<1>4. e \in Entries /\ e.at = Len(code) /\ e.to = NoLabel /\ e.how = "plain"
  BY <1>1, <1>2, <1>3, PlainEntries
<1>6. call.bytes \in Bytes
  BY CallsAreBytes
<1>7. /\ code' = code \o call.bytes /\ listing' = Append(listing, e) /\ label' = label
      /\ lost' = lost /\ negative' = negative
  BY <1>1 DEF Emit
<1>8. e.to \notin Labels /\ e.how \notin Backward /\ e.how # "near" /\ e.how # "linked"
  BY <1>4, NoLabelIsNone DEF Backward
<1>9. QED
  BY <1>4, <1>6, <1>7, <1>8, Appended

LEMMA FillStep ==
  ASSUME IInv, NEW n \in Fills, Fill(n)
  PROVE  IInv' /\ CodeStays
<1> DEFINE e == Entry(<<>>, FALSE, "fill")
           bytes == [i \in 1 .. n |-> asm_ret[1]]
<1>1. e = Entry(<<>>, FALSE, "fill")
  OBVIOUS
<1> HIDE DEF e
<1>2. <<>> \in Asks
  BY DEF Asks
<1>3. FALSE \in Wrongs
  BY DEF Wrongs
<1>10. "fill" \in Hows
  BY DEF Hows
<1>4. e \in Entries /\ e.at = Len(code) /\ e.to = NoLabel /\ e.how = "fill"
  <2>1. PICK none \in Asks, wrong \in Wrongs : none = <<>> /\ wrong = FALSE
    BY <1>2, <1>3
  <2>2. e = Entry(none, wrong, "fill")
    BY <1>1, <2>1
  <2>3. QED
    BY <1>10, <2>2, PlainEntries
<1>6. bytes \in Bytes
  <2>1. asm_ret[1] \in Byte
    BY DEF asm_ret, Byte
  <2>2. n \in Nat /\ bytes \in [1 .. n -> Byte]
    BY <2>1, NoLabelIsNone
  <2>3. QED
    BY <2>2, SequenceOf DEF Bytes
<1>7. /\ code' = code \o bytes /\ listing' = Append(listing, e) /\ label' = label
      /\ lost' = lost /\ negative' = negative
  BY <1>1 DEF Fill
<1> HIDE DEF bytes
<1>8. e.to \notin Labels /\ e.how \notin Backward /\ e.how # "near" /\ e.how # "linked"
  BY <1>4, NoLabelIsNone DEF Backward
<1>9. QED
  BY <1>4, <1>6, <1>7, <1>8, Appended

(* A call.                                                                 *)
LEMMA CallStep ==
  ASSUME IInv, NEW l \in Labels, asm_call_l(l)
  PROVE  IInv' /\ CodeStays
<1>1. /\ label[l] \in Int /\ Len(code) \in Nat /\ code \in Bytes
      /\ label[l] < 0 => asm_label_pos(l) \in 0 .. Len(code)
  BY LabelsLie
<1>2. lost' = lost /\ negative' = negative
  BY DEF asm_call_l
<1>3. CASE asm_label_is_bound(l) /\ EmitBound("call", None, l, "bound", <<232>> \o emit_label(l, asm_buff_size + 1, 5))
  <2>1. PICK v \in Int : v = asm_label_pos(l) - Len(code) - 6
    BY <1>1, <1>3 DEF asm_label_is_bound
  <2> DEFINE bytes == <<232>> \o Int32(v)
             e == JumpEntry("call", None, l, "bound")
             d == code \o bytes
  <2>2. label[l] < 0 /\ asm_label_pos(l) \in 0 .. Len(code)
    BY <1>1, <1>3 DEF asm_label_is_bound
  <2>3. emit_label(l, asm_buff_size + 1, 5) = Int32(v)
    <3>1. asm_label_pos(l) - (asm_buff_size + 1) - 5 = v
      BY <1>1, <2>1, <2>2 DEF asm_buff_size
    <3>2. QED
      BY <3>1 DEF emit_label
  <2>4. EmitBound("call", None, l, "bound", bytes)
    BY <1>3, <2>3
  <2>5. <<232>> \in Bytes /\ Len(<<232>>) = 1 /\ <<232>>[1] = 232
    BY Opcodes
  <2>6. IsCallEnding(d, code, <<232>>, v)
    BY <1>1, <2>5, CallEnding
  <2>7. /\ bytes \in Bytes /\ Len(d) = Len(code) + 5 /\ Len(bytes) = 5
        /\ d[Len(code) + 1] = 232 /\ HasField(d, Len(code) + 1, v)
    BY <1>1, <2>5, <2>6 DEF IsCallEnding
  <2>8. "bound" \in Hows /\ "bound" \in Backward
    BY DEF Hows, Backward
  <2>9. e.at = Len(code) /\ e.asks = <<"call", None>> /\ e.how = "bound"
    BY <2>8, AskedJumps, JumpEntries DEF IInv
  <2> HIDE DEF e, bytes, d
  <2>10. HasOpcode(d, e)
    BY <2>7, <2>9, AskedJumps DEF HasOpcode
  <2>11. IsBackward(d, e, Len(d), asm_label_pos(l))
    BY <1>1, <2>1, <2>2, <2>7, <2>9, <2>10 DEF IsBackward
  <2>12. IsBackward(code \o bytes, e, Len(code) + Len(bytes), asm_label_pos(l))
    BY <2>7, <2>11 DEF d
  <2>13. e = JumpEntry("call", None, l, "bound")
    BY DEF e
  <2>14. QED
    BY <1>2, <2>2, <2>4, <2>7, <2>8, <2>12, <2>13, AskedJumps, BoundStep
<1>4. CASE ~asm_label_is_bound(l) /\ emit_label_link("call", None, l, <<232>>)
  <2>1. IsOpcode(<<232>>, <<"call", None>>)
    BY AskedJumps DEF IsOpcode
  <2>2. QED
    BY <1>2, <1>4, <2>1, Opcodes, AskedJumps, LinkedStep
<1>5. QED
  BY <1>3, <1>4 DEF asm_call_l

(* A jump backward, short or long.                                         *)
LEMMA PairEnding ==
  ASSUME NEW c \in Bytes, NEW a \in Byte, NEW b \in Byte
  PROVE  /\ <<a, b>> \in Bytes /\ Len(<<a, b>>) = 2 /\ Len(c \o <<a, b>>) = Len(c) + 2
         /\ (c \o <<a, b>>)[Len(c) + 1] = a /\ (c \o <<a, b>>)[Len(c) + 2] = b
<1>1. <<a, b>> \in Bytes /\ Len(<<a, b>>) = 2 /\ Len(c) \in Nat
  BY DEF Bytes
<1>2. QED
  BY <1>1 DEF Bytes

LEMMA ShortStep ==
  ASSUME IInv, NEW l \in Labels, label[l] < 0, NEW op, NEW cond, <<op, cond>> \in Asks,
         NEW a \in Byte, NEW b, b = (asm_label_pos(l) - Len(code) - 2) % 256,
         Len(code) - asm_label_pos(l) <= 126,
         \/ <<op, cond>> = <<"jmp", None>> /\ a = 235
         \/ IsCondition(<<op, cond>>) /\ a = (asm_label_pos(l) - Len(code) - cond.n) % 256,
         EmitBound(op, cond, l, "short", <<a, b>>), lost' = lost, negative' = negative
  PROVE  IInv' /\ CodeStays
<1> DEFINE e == JumpEntry(op, cond, l, "short")
           bytes == <<a, b>>
           d == code \o bytes
<1>1. /\ label[l] \in Int /\ Len(code) \in Nat /\ code \in Bytes /\ asm_label_pos(l) \in 0 .. Len(code)
      /\ TypeOK
  BY LabelsLie DEF IInv
<1>2. PICK pos \in Nat : pos = asm_label_pos(l) /\ pos <= Len(code)
  BY <1>1
<1>3. b = (pos - Len(code) - 2) % 256 /\ b \in Byte
  <2>1. pos - Len(code) - 2 \in Int
    BY <1>1
  <2>2. \A x \in Int : x % 256 \in Byte
    BY DEF Byte
  <2>3. QED
    BY <1>2, <2>1, <2>2
<1>4. /\ bytes \in Bytes /\ Len(bytes) = 2 /\ Len(d) = Len(code) + 2
      /\ d[Len(code) + 1] = a /\ d[Len(code) + 2] = b
  <2>1. a \in Byte /\ b \in Byte
    BY <1>3
  <2>2. QED
    BY <1>1, <2>1, PairEnding
<1>12. EmitBound(op, cond, l, "short", bytes)
  OBVIOUS
<1>5. "short" \in Hows /\ "short" \in Backward
  BY DEF Hows, Backward
<1>6. e.at = Len(code) /\ e.asks = <<op, cond>> /\ e.how = "short"
  BY <1>1, <1>5, JumpEntries
<1>7. e = JumpEntry(op, cond, l, "short")
  OBVIOUS
<1> HIDE DEF e, bytes
<1>8. \/ e.asks = <<"jmp", None>> /\ d[e.at + 1] = 235
      \/ IsCondition(e.asks) /\ d[e.at + 1] = (pos - e.at - e.asks[2].n) % 256
  BY SMTT(60), <1>2, <1>4, <1>6
<1>9. IsBackward(d, e, Len(d), pos)
  <2> HIDE DEF d
  <2>1. pos \in 0 .. e.at /\ Len(d) = e.at + 2 /\ e.at - pos <= 126 /\ d[e.at + 2] = (pos - e.at - 2) % 256
    BY <1>1, <1>2, <1>3, <1>4, <1>6
  <2>2. QED
    BY <1>6, <1>8, <2>1 DEF IsBackward
<1>10. IsBackward(code \o bytes, e, Len(code) + Len(bytes), asm_label_pos(l))
  BY <1>2, <1>4, <1>9
<1>11. QED
  BY <1>4, <1>5, <1>7, <1>10, <1>12, BoundStep

LEMMA LongStep ==
  ASSUME IInv, NEW l \in Labels, label[l] < 0, NEW op, NEW cond, <<op, cond>> \in Asks,
         <<op, cond>> = <<"jmp", None>> \/ IsCondition(<<op, cond>>),
         NEW opcode \in Bytes, IsOpcode(opcode, <<op, cond>>),
         NEW v \in Int, v = asm_label_pos(l) - Len(code) - Len(opcode) - 4,
         EmitBound(op, cond, l, "long", opcode \o Int64(v)), lost' = lost, negative' = negative
  PROVE  IInv' /\ CodeStays
<1> DEFINE e == JumpEntry(op, cond, l, "long")
           bytes == opcode \o Int64(v)
           d == code \o bytes
<1>1. /\ label[l] \in Int /\ Len(code) \in Nat /\ code \in Bytes /\ asm_label_pos(l) \in 0 .. Len(code)
      /\ TypeOK
  BY LabelsLie DEF IInv
<1>2. PICK pos \in Nat : pos = asm_label_pos(l) /\ pos <= Len(code)
  BY <1>1
<1>3. /\ Len(opcode) \in {1, 2} /\ Len(opcode) = OpcodeSize(<<op, cond>>)
      /\ IsCondition(<<op, cond>>) <=> Len(opcode) = 2
  BY SizesOfOpcodes DEF IsOpcode, IsJump
<1>4. IsEnding((code \o opcode) \o Int64(v), code, opcode, v)
  BY <1>1, <1>3, LongEnding
<1>5. (code \o opcode) \o Int64(v) = d
  BY <1>4 DEF IsEnding
<1>6. IsEnding(d, code, opcode, v)
  BY <1>4, <1>5
<1>7. /\ bytes \in Bytes /\ Len(d) = Len(code) + Len(opcode) + 8
      /\ d[Len(code) + 1] = opcode[1]
      /\ Len(opcode) = 2 => d[Len(code) + 2] = opcode[2]
      /\ HasField(d, Len(code) + Len(opcode), v)
  BY <1>6 DEF IsEnding
<1>8. Len(d) = Len(code) + Len(bytes)
  BY <1>1, <1>7 DEF Bytes
<1>9. "long" \in Hows /\ "long" \in Backward
  BY DEF Hows, Backward
<1>10. e.at = Len(code) /\ e.asks = <<op, cond>> /\ e.how = "long"
  BY <1>1, <1>9, JumpEntries
<1>11. e = JumpEntry(op, cond, l, "long")
  OBVIOUS
<1>16. d = code \o bytes
  OBVIOUS
<1> HIDE DEF e, d
<1>12. HasOpcode(d, e)
  <2>1. ASSUME IsCondition(e.asks)
        PROVE  d[e.at + 1] = 15 /\ d[e.at + 2] = 128 + e.asks[2].n
    <3>1. PICK c \in 0 .. 15 : e.asks = <<"j", Imm(c)>>
      BY <2>1 DEF IsCondition
    <3>2. e.asks[2].n = c
      BY <3>1 DEF Imm
    <3>3. opcode[1] = 15 /\ opcode[2] = 128 + c
      <4>1. e.asks[1] = "j" /\ e.asks[1] # "call" /\ e.asks[1] # "jmp"
        BY <3>1
      <4>2. IsOpcode(opcode, e.asks)
        BY <1>10
      <4>3. QED
        BY <3>1, <3>2, <4>1, <4>2 DEF IsOpcode
    <3>4. QED
      BY <1>3, <1>7, <1>10, <2>1, <3>2, <3>3
  <2>2. /\ e.asks = <<"call", None>> => opcode[1] = 232
        /\ e.asks = <<"jmp", None>> => opcode[1] = 233
    BY <1>10 DEF IsOpcode
  <2>3. d[e.at + 1] = opcode[1]
    BY <1>7, <1>10
  <2>4. QED
    BY <2>1, <2>2, <2>3 DEF HasOpcode
<1>13. IsBackward(d, e, Len(d), pos)
  <2>1. pos \in 0 .. e.at /\ Len(d) = e.at + OpcodeSize(e.asks) + 8
    BY <1>1, <1>2, <1>3, <1>7, <1>10
  <2>2. HasField(d, e.at + OpcodeSize(e.asks), pos - e.at - OpcodeSize(e.asks) - 4)
    BY <1>2, <1>3, <1>7, <1>10
  <2>3. QED
    BY <1>10, <1>12, <2>1, <2>2 DEF IsBackward
<1>14. IsBackward(code \o bytes, e, Len(code) + Len(bytes), asm_label_pos(l))
  BY <1>2, <1>8, <1>13, <1>16
<1>15. QED
  BY <1>7, <1>9, <1>11, <1>14, BoundStep

LEMMA NearStep ==
  ASSUME IInv, NEW l \in Labels, NEW op, NEW cond, <<op, cond>> \in Asks,
         <<op, cond>> = <<"jmp", None>> \/ IsCondition(<<op, cond>>),
         EmitBound(op, cond, l, "near", <<>>), lost' = lost, negative' = negative
  PROVE  IInv' /\ CodeStays
<1> DEFINE e == JumpEntry(op, cond, l, "near")
           bytes == <<>>
<1>1. bytes \in Bytes /\ bytes = <<>>
  BY DEF Bytes
<1>2. "near" \in Hows
  BY DEF Hows
<1>3. e = JumpEntry(op, cond, l, "near") /\ EmitBound(op, cond, l, "near", bytes)
  OBVIOUS
<1> HIDE DEF e, bytes
<1>4. QED
  BY <1>1, <1>2, <1>3, BoundStep

LEMMA IsShort ==
  ASSUME NEW off \in Int
  PROVE  is8(FromShort(off)) => off >= -126 /\ off <= 129
BY DEF is8, FromShort

(* A jump.                                                                 *)
LEMMA JmpStep ==
  ASSUME IInv, NEW l \in Labels, NEW near \in BOOLEAN, asm_jmp_l(l, near)
  PROVE  IInv' /\ CodeStays
<1> DEFINE off == asm_label_pos(l) - asm_buff_size
<1>1. /\ label[l] \in Int /\ Len(code) \in Nat /\ code \in Bytes
      /\ label[l] < 0 => asm_label_pos(l) \in 0 .. Len(code)
  BY LabelsLie
<1>2. lost' = lost /\ negative' = negative
  BY DEF asm_jmp_l
<1>3. <<"jmp", None>> \in Asks
  BY AskedJumps
<1>4. off = asm_label_pos(l) - Len(code)
  BY DEF asm_buff_size
<1>5. \/ asm_label_is_bound(l) /\ is8(FromShort(off))
           /\ EmitBound("jmp", None, l, "short", <<235, TruncatedToByte(FromShort(off))>>)
      \/ asm_label_is_bound(l) /\ EmitBound("jmp", None, l, "long", <<233>> \o Int64(off - 5))
      \/ EmitBound("jmp", None, l, "near", <<>>)
      \/ ~asm_label_is_bound(l) /\ emit_label_link("jmp", None, l, <<233>>)
  BY DEF asm_jmp_l
<1>6. IsOpcode(<<233>>, <<"jmp", None>>)
  BY AskedJumps DEF IsOpcode
<1> HIDE DEF off
<1>7. CASE asm_label_is_bound(l) /\ is8(FromShort(off))
             /\ EmitBound("jmp", None, l, "short", <<235, TruncatedToByte(FromShort(off))>>)
  <2>1. label[l] < 0 /\ asm_label_pos(l) \in 0 .. Len(code)
    BY <1>1, <1>7 DEF asm_label_is_bound
  <2>2. off \in Int /\ Len(code) - asm_label_pos(l) <= 126
    BY <1>1, <1>4, <1>7, <2>1, IsShort
  <2>3. TruncatedToByte(FromShort(off)) = (asm_label_pos(l) - Len(code) - 2) % 256
    BY <1>4 DEF TruncatedToByte, FromShort
  <2>4. 235 \in Byte
    BY DEF Byte
  <2>5. QED
    BY <1>2, <1>3, <1>7, <2>1, <2>2, <2>3, <2>4, ShortStep
<1>8. CASE asm_label_is_bound(l) /\ EmitBound("jmp", None, l, "long", <<233>> \o Int64(off - 5))
  <2>1. label[l] < 0 /\ asm_label_pos(l) \in 0 .. Len(code)
    BY <1>1, <1>8 DEF asm_label_is_bound
  <2>2. PICK v \in Int : v = off - 5
    BY <1>1, <1>4, <2>1
  <2>3. Len(<<233>>) = 1
    OBVIOUS
  <2>4. v = asm_label_pos(l) - Len(code) - Len(<<233>>) - 4
    BY <1>1, <1>4, <2>1, <2>2, <2>3
  <2>5. EmitBound("jmp", None, l, "long", <<233>> \o Int64(v))
    BY <1>8, <2>2
  <2>6. PICK opcode \in Bytes : opcode = <<233>>
    BY Opcodes
  <2>7. /\ IsOpcode(opcode, <<"jmp", None>>) /\ v = asm_label_pos(l) - Len(code) - Len(opcode) - 4
        /\ EmitBound("jmp", None, l, "long", opcode \o Int64(v))
    BY <1>6, <2>4, <2>5, <2>6
  <2>8. QED
    BY <1>2, <1>3, <2>1, <2>7, LongStep
<1>9. CASE EmitBound("jmp", None, l, "near", <<>>)
  BY <1>2, <1>3, <1>9, NearStep
<1>10. CASE ~asm_label_is_bound(l) /\ emit_label_link("jmp", None, l, <<233>>)
  BY <1>2, <1>3, <1>6, <1>10, Opcodes, AskedJumps, LinkedStep
<1>11. QED
  BY <1>5, <1>7, <1>8, <1>9, <1>10

(* A conditional jump.                                                     *)
LEMMA ConditionStep ==
  ASSUME IInv, NEW l \in Labels, NEW near \in BOOLEAN, NEW cond \in Conditions, asm_j(cond, l, near)
  PROVE  IInv' /\ CodeStays
<1> DEFINE off == asm_label_pos(l) - asm_buff_size
           asked == <<"j", Imm(cond)>>
           opcode == <<15, 128 + cond>>
<1>1. /\ label[l] \in Int /\ Len(code) \in Nat /\ code \in Bytes
      /\ label[l] < 0 => asm_label_pos(l) \in 0 .. Len(code)
  BY LabelsLie
<1>2. lost' = lost /\ negative' = negative
  BY DEF asm_j
<1>3. asked \in Asks /\ cond \in 0 .. 15
  BY AskedJumps, NoLabelIsNone
<1>12. IsJump(asked) /\ OpcodeSize(asked) = 2 /\ IsCondition(asked) /\ Imm(cond).n = cond
  <2>1. Imm(cond).n = cond
    BY DEF Imm
  <2>2. QED
    BY <1>3, <2>1, AskedConditions
<1>4. off = asm_label_pos(l) - Len(code)
  BY DEF asm_buff_size
<1>5. \/ asm_label_is_bound(l) /\ is8(FromShort(off))
           /\ EmitBound("j", Imm(cond), l, "short", <<TruncatedToByte(off - cond), TruncatedToByte(FromShort(off))>>)
      \/ asm_label_is_bound(l) /\ EmitBound("j", Imm(cond), l, "long", opcode \o Int64(off - 6))
      \/ EmitBound("j", Imm(cond), l, "near", <<>>)
      \/ ~asm_label_is_bound(l) /\ emit_label_link("j", Imm(cond), l, opcode)
  BY DEF asm_j
<1>6. IsOpcode(opcode, asked) /\ opcode \in Bytes
  <2>1. Len(opcode) = 2 /\ opcode[1] = 15 /\ opcode[2] = 128 + cond
    OBVIOUS
  <2>2. 15 \in Byte /\ 128 + cond \in Byte
    BY <1>3 DEF Byte
  <2>3. opcode \in Bytes
    BY <2>2 DEF Bytes
  <2>4. \A c \in 0 .. 15 : asked = <<"j", Imm(c)>> => c = cond
    BY DEF Imm
  <2>5. asked # <<"call", None>> /\ asked # <<"jmp", None>>
    OBVIOUS
  <2>6. QED
    BY <1>12, <2>1, <2>3, <2>4, <2>5 DEF IsOpcode
<1> HIDE DEF off, opcode
<1>7. CASE asm_label_is_bound(l) /\ is8(FromShort(off))
             /\ EmitBound("j", Imm(cond), l, "short",
                          <<TruncatedToByte(off - cond), TruncatedToByte(FromShort(off))>>)
  <2>1. label[l] < 0 /\ asm_label_pos(l) \in 0 .. Len(code)
    BY <1>1, <1>7 DEF asm_label_is_bound
  <2>2. off \in Int /\ Len(code) - asm_label_pos(l) <= 126
    BY <1>1, <1>4, <1>7, <2>1, IsShort
  <2>3. TruncatedToByte(FromShort(off)) = (asm_label_pos(l) - Len(code) - 2) % 256
    BY <1>4 DEF TruncatedToByte, FromShort
  <2>4. PICK a \in Byte : a = TruncatedToByte(off - cond)
    BY <1>3, <2>2, Truncated
  <2>5. a = (asm_label_pos(l) - Len(code) - Imm(cond).n) % 256
    BY <1>4, <1>12, <2>4 DEF TruncatedToByte
  <2>6. EmitBound("j", Imm(cond), l, "short", <<a, TruncatedToByte(FromShort(off))>>)
    BY <1>7, <2>4
  <2>7. QED
    BY ZenonT(60), <1>2, <1>3, <1>12, <2>1, <2>2, <2>3, <2>5, <2>6, ShortStep
<1>8. CASE asm_label_is_bound(l) /\ EmitBound("j", Imm(cond), l, "long", opcode \o Int64(off - 6))
  <2>1. label[l] < 0 /\ asm_label_pos(l) \in 0 .. Len(code)
    BY <1>1, <1>8 DEF asm_label_is_bound
  <2>2. PICK v \in Int : v = off - 6
    BY <1>1, <1>4, <2>1
  <2>3. Len(opcode) = 2
    BY DEF opcode
  <2>4. v = asm_label_pos(l) - Len(code) - Len(opcode) - 4
    BY <1>1, <1>4, <2>1, <2>2, <2>3
  <2>5. EmitBound("j", Imm(cond), l, "long", opcode \o Int64(v))
    BY <1>8, <2>2
  <2>6. QED
    BY <1>2, <1>3, <1>6, <1>12, <2>1, <2>4, <2>5, LongStep
<1>9. CASE EmitBound("j", Imm(cond), l, "near", <<>>)
  BY <1>2, <1>3, <1>9, <1>12, NearStep
<1>10. CASE ~asm_label_is_bound(l) /\ emit_label_link("j", Imm(cond), l, opcode)
  BY <1>2, <1>3, <1>6, <1>10, <1>12, LinkedStep
<1>11. QED
  BY <1>5, <1>7, <1>8, <1>9, <1>10

LEMMA ForwardSame ==
  ASSUME NEW c, NEW d, NEW e, e.at \in Nat, NEW end \in Nat, NEW v,
         IsForward(c, e, end, v), \A i \in e.at + 1 .. end : d[i] = c[i]
  PROVE  IsForward(d, e, end, v)
<1>1. IsJump(e.asks) /\ end = e.at + OpcodeSize(e.asks) + 8 /\ HasField(c, end - 8, v)
  BY DEF IsForward
<1>2. OpcodeSize(e.asks) \in {1, 2}
  BY <1>1, SizesOfOpcodes
<1>3. end - 8 \in Nat /\ end - 8 >= e.at
  BY <1>1, <1>2
<1>4. \A i \in end - 8 + 1 .. end - 8 + 4 : d[i] = c[i]
  <2>1. \A i \in end - 8 + 1 .. end - 8 + 4 : i \in e.at + 1 .. end
    BY <1>3
  <2>2. QED
    BY <2>1
<1>5. HasField(d, end - 8, v)
  BY <1>1, <1>3, <1>4, FieldStays
<1>6. \A i \in e.at + 1 .. end - 8 : d[i] = c[i]
  <2>1. \A i \in e.at + 1 .. end - 8 : i \in e.at + 1 .. end
    BY <1>3
  <2>2. QED
    BY <2>1
<1>7. QED
  BY <1>5, <1>6, ForwardStays

(* Binding a label patches the field of the last jump to it.               *)
LEMMA PatchedCode ==
  ASSUME code \in Bytes, NEW p \in Nat, p + 8 <= Len(code)
  PROVE  /\ Patched(p) \in Bytes /\ Len(Patched(p)) = Len(code)
         /\ HasField(Patched(p), p, Len(code) - (p + 4))
         /\ \A i \in 1 .. Len(code) : i <= p \/ i > p + 4 => Patched(p)[i] = code[i]
<1>1. Len(code) \in Nat /\ DOMAIN code = 1 .. Len(code) /\ \A i \in 1 .. Len(code) : code[i] \in Byte
  BY DEF Bytes
<1>2. PICK n \in Nat : n = Len(code)
  BY <1>1
<1>3. PICK v \in Int : v = n - (p + 4)
  <2>1. n - (p + 4) \in Int
    OBVIOUS
  <2>2. QED
    BY <2>1
<1>4. Patched(p) = [i \in 1 .. n |-> IF i \in p + 1 .. p + 4 THEN ByteOf(v, (i - p - 1) % 4) ELSE code[i]]
  <2>1. Distance(asm_buff_size, p) = v /\ DOMAIN code = 1 .. n
    BY <1>1, <1>2, <1>3 DEF Distance, asm_buff_size
  <2>2. QED
    BY <2>1 DEF Patched, Stored
<1>5. \A i \in 1 .. n : (i - p - 1) % 4 \in Nat
  OBVIOUS
<1>6. \A j \in Nat : ByteOf(v, j) \in Byte
  BY BytesOfNumbers
<1>7. Patched(p) \in [1 .. n -> Byte]
  BY <1>1, <1>2, <1>4, <1>5, <1>6
<1>8. Patched(p) \in Bytes /\ Len(Patched(p)) = n
  BY <1>7, SequenceOf DEF Bytes
<1>9. HasField(Patched(p), p, v)
  <2>1. /\ p + 1 \in 1 .. n /\ p + 2 \in 1 .. n /\ p + 3 \in 1 .. n /\ p + 4 \in 1 .. n
        /\ p + 1 \in p + 1 .. p + 4 /\ p + 2 \in p + 1 .. p + 4
        /\ p + 3 \in p + 1 .. p + 4 /\ p + 4 \in p + 1 .. p + 4
    BY <1>2
  <2>2. /\ (p + 1 - p - 1) % 4 = 0 /\ (p + 2 - p - 1) % 4 = 1
        /\ (p + 3 - p - 1) % 4 = 2 /\ (p + 4 - p - 1) % 4 = 3
    OBVIOUS
  <2>3. /\ Patched(p)[p + 1] = ByteOf(v, (p + 1 - p - 1) % 4) /\ Patched(p)[p + 2] = ByteOf(v, (p + 2 - p - 1) % 4)
        /\ Patched(p)[p + 3] = ByteOf(v, (p + 3 - p - 1) % 4) /\ Patched(p)[p + 4] = ByteOf(v, (p + 4 - p - 1) % 4)
    BY <1>4, <2>1
  <2>4. QED
    BY <2>2, <2>3 DEF HasField
<1>10. \A i \in 1 .. n : i <= p \/ i > p + 4 => Patched(p)[i] = code[i]
  BY <1>4
<1>11. QED
  BY <1>2, <1>3, <1>8, <1>9, <1>10

(* The last link to a label is where the label says; no other entry has    *)
(* any of its bytes.                                                       *)
LEMMA LastLinkLies ==
  ASSUME IInv, ~lost, NEW l \in Labels, label[l] > 0
  PROVE  \E k \in DOMAIN listing :
           /\ IsLink(k, l) /\ IsLastLink(k) /\ label[l] = EndOf(k)
           /\ IsForward(code, listing[k], EndOf(k), listing[k].link)
           /\ listing[k].at \in Nat /\ listing[k].at + 1 <= EndOf(k) - 8 /\ EndOf(k) \in Nat /\ EndOf(k) <= Len(code)
           /\ EndOf(k) - 8 \in Nat
<1>1. TypeOK /\ Laid /\ LabelsPlaced /\ JumpsPlaced
  BY DEF IInv
<1>2. PICK k \in DOMAIN listing : IsLink(k, l) /\ IsLastLink(k) /\ label[l] = EndOf(k)
  BY <1>1 DEF LabelsPlaced
<1>3. listing[k].to = l /\ listing[k].how = "linked" /\ ~(label[l] < 0)
  BY <1>1, <1>2 DEF IsLink, TypeOK
<1>4. FieldValue(k) = listing[k].link
  BY <1>3 DEF FieldValue
<1>5. IsForward(code, listing[k], EndOf(k), listing[k].link)
  BY <1>1, <1>3, <1>4 DEF JumpsPlaced
<1>6. /\ EndOf(k) \in Nat /\ listing[k].at \in Nat /\ EndOf(k) <= Len(code) /\ Len(code) \in Nat
  BY <1>1, EntriesLie
<1>7. EndOf(k) = listing[k].at + OpcodeSize(listing[k].asks) + 8 /\ OpcodeSize(listing[k].asks) \in {1, 2}
  BY <1>5, SizesOfOpcodes DEF IsForward
<1>8. QED
  BY <1>2, <1>5, <1>6, <1>7

LEMMA BindStep ==
  ASSUME IInv, NEW l \in Labels, asm_bind(l)
  PROVE  IInv'
<1>1. TypeOK /\ Laid /\ LabelsPlaced /\ JumpsPlaced /\ ~lost
  BY DEF IInv, asm_bind
<1>2. /\ label[l] \in Int /\ label[l] >= 0 /\ Len(code) \in Nat /\ code \in Bytes
      /\ label \in [Labels -> Int]
  BY <1>1 DEF TypeOK, asm_bind, asm_label_is_bound, Bytes
<1>3. PICK n \in Nat : n = Len(code)
  BY <1>2
<1>4. /\ listing' = listing /\ negative' = negative
      /\ code' = IF label[l] > 0 THEN Patched(label[l] - 8) ELSE code
      /\ lost' \in BOOLEAN
      /\ lost' => label[l] > 0 /\ label' = label
      /\ ~lost' => label' = [label EXCEPT ![l] = -n - 8]
  BY <1>3 DEF asm_bind, asm_label_is_linked, LinkPos, kWordSize, bind_to, asm_buff_size
(* The bytes that change are those of the last link to the label.          *)
<1>5. /\ code' \in Bytes /\ Len(code') = n
      /\ label[l] = 0 => code' = code
      /\ label[l] > 0 =>
           \E k \in DOMAIN listing :
             /\ IsLink(k, l) /\ IsLastLink(k) /\ label[l] = EndOf(k)
             /\ IsForward(code, listing[k], EndOf(k), listing[k].link)
             /\ listing[k].at \in Nat /\ EndOf(k) \in Nat /\ EndOf(k) - 8 \in Nat
             /\ listing[k].at + 1 <= EndOf(k) - 8 /\ EndOf(k) <= n
             /\ HasField(code', EndOf(k) - 8, n - (EndOf(k) - 4))
             /\ \A i \in 1 .. n : i <= EndOf(k) - 8 \/ i > EndOf(k) - 4 => code'[i] = code[i]
  <2>1. CASE label[l] = 0
    BY <1>2, <1>3, <1>4, <2>1
  <2>2. CASE label[l] > 0
    <3>1. PICK k \in DOMAIN listing :
           /\ IsLink(k, l) /\ IsLastLink(k) /\ label[l] = EndOf(k)
           /\ IsForward(code, listing[k], EndOf(k), listing[k].link)
           /\ listing[k].at \in Nat /\ listing[k].at + 1 <= EndOf(k) - 8 /\ EndOf(k) \in Nat /\ EndOf(k) <= Len(code)
           /\ EndOf(k) - 8 \in Nat
      BY <1>1, <2>2, LastLinkLies
    <3>2. PICK p \in Nat : p = EndOf(k) - 8
      BY <3>1
    <3>3. p + 8 <= Len(code) /\ code' = Patched(p) /\ p + 4 = EndOf(k) - 4
      BY <1>2, <1>4, <2>2, <3>1, <3>2
    <3>4. /\ Patched(p) \in Bytes /\ Len(Patched(p)) = Len(code)
          /\ HasField(Patched(p), p, Len(code) - (p + 4))
          /\ \A i \in 1 .. Len(code) : i <= p \/ i > p + 4 => Patched(p)[i] = code[i]
      BY <1>2, <3>3, PatchedCode
    <3>5. HasField(code', EndOf(k) - 8, n - (EndOf(k) - 4))
      BY <1>3, <3>2, <3>3, <3>4
    <3>6. \A i \in 1 .. n : i <= EndOf(k) - 8 \/ i > EndOf(k) - 4 => code'[i] = code[i]
      BY <1>3, <3>2, <3>3, <3>4
    <3>7. QED
      BY <1>3, <2>2, <3>1, <3>3, <3>4, <3>5, <3>6
  <2>3. QED
    BY <1>2, <2>1, <2>2
<1>6. label' \in [Labels -> Int] /\ \A m \in Labels : m # l => label'[m] = label[m]
  BY <1>2, <1>4
<1>7. TypeOK'
  BY <1>1, <1>4, <1>5, <1>6 DEF TypeOK
<1>8. \A k \in DOMAIN listing :
        /\ EndOf(k)' = EndOf(k)
        /\ IsLastLink(k)' <=> IsLastLink(k)
        /\ \A m \in Labels : IsLink(k, m)' <=> IsLink(k, m)
  BY <1>3, <1>4, <1>5 DEF EndOf, IsLastLink, IsLink, asm_buff_size
<1>9. Laid'
  BY <1>1, <1>3, <1>4, <1>5 DEF Laid, asm_buff_size
<1>10. LabelsPlaced'
  <2>1. ASSUME NEW m \in Labels
        PROVE  /\ label'[m] > 0 => \E k \in DOMAIN listing : IsLink(k, m) /\ IsLastLink(k) /\ label'[m] = EndOf(k)
               /\ label'[m] < 0 => -label'[m] - 8 \in 0 .. n
               /\ label'[m] = 0 => \A k \in DOMAIN listing : ~IsLink(k, m)
    <3>1. CASE label'[m] = label[m]
      BY <1>1, <1>3, <3>1 DEF LabelsPlaced, asm_label_pos, asm_buff_size, kWordSize
    <3>2. CASE m = l /\ ~lost'
      <4>1. label'[m] = -n - 8
        BY <1>2, <1>4, <3>2
      <4>2. QED
        BY <4>1
    <3>3. QED
      BY <1>4, <1>6, <3>1, <3>2
  <2>2. QED
    BY <1>4, <1>5, <1>8, <2>1 DEF LabelsPlaced, asm_label_pos, asm_buff_size, kWordSize
(* Every other entry keeps its bytes.                                      *)
<1>11. ASSUME NEW k \in DOMAIN listing, ~(IsLink(k, l) /\ IsLastLink(k))
       PROVE  \A i \in listing[k].at + 1 .. EndOf(k) : code'[i] = code[i]
  <2>1. /\ listing[k].at \in Nat /\ EndOf(k) \in Nat /\ EndOf(k) <= n /\ k \in 1 .. Len(listing)
        /\ \A i \in DOMAIN listing : i < k => EndOf(i) <= listing[k].at
    BY <1>1, <1>3, EntriesLie
  <2>2. CASE label[l] = 0
    BY <1>5, <2>2
  <2>3. CASE label[l] > 0
    <3>1. PICK j \in DOMAIN listing :
             /\ IsLink(j, l) /\ IsLastLink(j)
             /\ listing[j].at \in Nat /\ EndOf(j) \in Nat /\ EndOf(j) - 8 \in Nat
             /\ listing[j].at + 1 <= EndOf(j) - 8
             /\ \A i \in 1 .. n : i <= EndOf(j) - 8 \/ i > EndOf(j) - 4 => code'[i] = code[i]
      BY <1>5, <2>3
    <3>2. j # k
      BY <1>11, <3>1
    <3>3. /\ \A i \in DOMAIN listing : i < j => EndOf(i) <= listing[j].at
          /\ j \in 1 .. Len(listing) /\ Len(listing) \in Nat
      BY <1>1, EntriesLie
    <3>4. CASE j < k
      <4>1. EndOf(j) <= listing[k].at
        BY <2>1, <3>4
      <4>2. \A i \in listing[k].at + 1 .. EndOf(k) : i \in 1 .. n /\ i > EndOf(j) - 4
        BY <2>1, <3>1, <4>1
      <4>3. QED
        BY <3>1, <4>2
    <3>5. CASE k < j
      <4>1. EndOf(k) <= listing[j].at
        BY <3>3, <3>5
      <4>2. \A i \in listing[k].at + 1 .. EndOf(k) : i \in 1 .. n /\ i <= EndOf(j) - 8
        BY SMTT(60), <2>1, <3>1, <4>1
      <4>3. QED
        BY <3>1, <4>2
    <3>6. QED
      BY <2>1, <3>2, <3>3, <3>4, <3>5
  <2>4. QED
    BY <1>2, <2>2, <2>3
<1>12. ASSUME NEW k \in DOMAIN listing
       PROVE  LET f == listing[k]
              IN  /\ f.to \in Labels <=> f.how \in Backward \cup {"near", "linked"}
                  /\ f.how \in Backward =>
                       label'[f.to] < 0 /\ IsBackward(code', f, EndOf(k), -label'[f.to] - 8)
                  /\ f.how = "near" => EndOf(k) = f.at /\ (f.asks = <<"jmp", None>> \/ IsCondition(f.asks))
                  /\ f.how = "linked" => /\ label'[f.to] # 0
                                         /\ \E value \in Int : IsForward(code', f, EndOf(k), value)
                                         /\ ~lost' => IsForward(code', f, EndOf(k), FieldValue(k)')
  <2> DEFINE f == listing[k]
  <2>1. /\ f.to \in Labels <=> f.how \in Backward \cup {"near", "linked"}
        /\ f.how \in Backward => label[f.to] < 0 /\ IsBackward(code, f, EndOf(k), -label[f.to] - 8)
        /\ f.how = "near" => EndOf(k) = f.at /\ (f.asks = <<"jmp", None>> \/ IsCondition(f.asks))
        /\ f.how = "linked" => label[f.to] # 0 /\ IsForward(code, f, EndOf(k), FieldValue(k))
    BY <1>1 DEF JumpsPlaced, asm_label_pos, kWordSize
  <2>2. f.at \in Nat /\ EndOf(k) \in Nat /\ f.link \in Int
    BY <1>1, EntriesLie
  <2>3. "linked" \notin Backward
    BY DEF Backward
  <2>4. IsLink(k, l) <=> f.to = l /\ f.how = "linked"
    BY DEF IsLink
  <2>10. FieldValue(k) = IF label[f.to] < 0 /\ IsLastLink(k) THEN -label[f.to] - 8 - (EndOf(k) - 4) ELSE f.link
    BY DEF FieldValue, asm_label_pos, kWordSize
  <2>11. FieldValue(k)' = IF label'[f.to] < 0 /\ IsLastLink(k) THEN -label'[f.to] - 8 - (EndOf(k) - 4) ELSE f.link
    <3>1. FieldValue(k)' = IF label'[f.to] < 0 /\ IsLastLink(k)' THEN -label'[f.to] - 8 - (EndOf(k)' - 4) ELSE f.link
      BY <1>4 DEF FieldValue, asm_label_pos, kWordSize
    <3>2. QED
      BY <1>8, <3>1
  <2> HIDE DEF f
  <2>5. ASSUME f.how \in Backward
        PROVE  label'[f.to] < 0 /\ IsBackward(code', f, EndOf(k), -label'[f.to] - 8)
    <3>1. f.to # l /\ label'[f.to] = label[f.to]
      BY <1>2, <1>6, <2>1, <2>5
    <3>2. \A i \in f.at + 1 .. EndOf(k) : code'[i] = code[i]
      BY <1>11, <2>3, <2>4, <2>5 DEF f
    <3>3. IsBackward(code, f, EndOf(k), -label[f.to] - 8)
      BY <2>1, <2>5
    <3>4. IsBackward(code', f, EndOf(k), -label[f.to] - 8)
      BY <2>2, <2>5, <3>2, <3>3, BackwardStays
    <3>5. QED
      BY <2>1, <2>5, <3>1, <3>4
  <2>6. ASSUME f.how = "linked"
        PROVE  /\ label'[f.to] # 0
               /\ \E value \in Int : IsForward(code', f, EndOf(k), value)
               /\ ~lost' => IsForward(code', f, EndOf(k), FieldValue(k)')
    <3>1. f.to \in Labels /\ label[f.to] # 0 /\ label[f.to] \in Int
      BY <1>2, <2>1, <2>6
    <3>2. label'[f.to] # 0 /\ label'[f.to] \in Int
      BY <1>2, <1>4, <1>6, <3>1
    <3>3. IsForward(code, f, EndOf(k), FieldValue(k)) /\ FieldValue(k) \in Int /\ FieldValue(k)' \in Int
      BY <2>1, <2>2, <2>6, <2>10, <2>11, <3>1, <3>2
    <3>4. CASE f.to = l /\ IsLastLink(k)
      <4>1. label[l] > 0
        BY <1>2, <3>1, <3>4
      <4>2. PICK j \in DOMAIN listing :
             /\ IsLink(j, l) /\ IsLastLink(j) /\ label[l] = EndOf(j)
             /\ IsForward(code, listing[j], EndOf(j), listing[j].link)
             /\ listing[j].at \in Nat /\ EndOf(j) \in Nat /\ EndOf(j) - 8 \in Nat
             /\ listing[j].at + 1 <= EndOf(j) - 8 /\ EndOf(j) <= n
             /\ HasField(code', EndOf(j) - 8, n - (EndOf(j) - 4))
             /\ \A i \in 1 .. n : i <= EndOf(j) - 8 \/ i > EndOf(j) - 4 => code'[i] = code[i]
        BY <1>5, <4>1
      <4>3. j = k
        <5>1. j <= k /\ k <= j
          BY <2>4, <2>6, <3>4, <4>2 DEF IsLastLink, IsLink, f
        <5>2. j \in 1 .. Len(listing) /\ k \in 1 .. Len(listing) /\ Len(listing) \in Nat
          BY <1>1, EntriesLie
        <5>3. QED
          BY <5>1, <5>2
      <4>4. \A i \in f.at + 1 .. EndOf(k) - 8 : code'[i] = code[i]
        <5>1. \A i \in f.at + 1 .. EndOf(k) - 8 : i \in 1 .. n /\ i <= EndOf(k) - 8
          BY <2>2, <4>2, <4>3
        <5>2. QED
          BY <4>2, <4>3, <5>1
      <4>5. IsForward(code', f, EndOf(k), n - (EndOf(k) - 4))
        <5>1. HasField(code', EndOf(k) - 8, n - (EndOf(k) - 4))
          BY <4>2, <4>3
        <5>2. QED
          BY <2>2, <3>3, <4>4, <5>1, ForwardStays
      <4>6. n - (EndOf(k) - 4) \in Int
        BY <2>2
      <4>7. ~lost' => FieldValue(k)' = n - (EndOf(k) - 4)
        <5>1. ~lost' => label'[l] = -n - 8
          BY <1>2, <1>4
        <5>2. QED
          BY <2>2, <2>11, <3>4, <5>1
      <4>8. QED
        BY <3>2, <4>5, <4>6, <4>7
    <3>5. CASE ~(f.to = l /\ IsLastLink(k))
      <4>1. \A i \in f.at + 1 .. EndOf(k) : code'[i] = code[i]
        BY <1>11, <2>4, <3>5 DEF f
      <4>2. IsForward(code', f, EndOf(k), FieldValue(k))
        BY <2>2, <3>3, <4>1, ForwardSame
      <4>3. FieldValue(k)' = FieldValue(k)
        <5>1. CASE f.to = l
          <6>1. ~IsLastLink(k)
            BY <3>5, <5>1
          <6>2. QED
            BY <2>10, <2>11, <6>1
        <5>2. CASE f.to # l
          BY <1>6, <2>10, <2>11, <3>1, <5>2
        <5>3. QED
          BY <5>1, <5>2
      <4>4. QED
        BY <3>2, <3>3, <4>2, <4>3
    <3>6. QED
      BY <3>4, <3>5
  <2>7. QED
    BY <2>1, <2>5, <2>6 DEF f
<1>13. JumpsPlaced'
  <2>1. ASSUME NEW k \in DOMAIN listing'
        PROVE  LET f == listing'[k]
               IN  /\ f.to \in Labels <=> f.how \in Backward \cup {"near", "linked"}
                   /\ f.how \in Backward =>
                        label'[f.to] < 0 /\ IsBackward(code', f, EndOf(k)', -label'[f.to] - 8)
                   /\ f.how = "near" => EndOf(k)' = f.at /\ (f.asks = <<"jmp", None>> \/ IsCondition(f.asks))
                   /\ f.how = "linked" => /\ label'[f.to] # 0
                                          /\ \E value \in Int : IsForward(code', f, EndOf(k)', value)
                                          /\ ~lost' => IsForward(code', f, EndOf(k)', FieldValue(k)')
    <3>1. k \in DOMAIN listing /\ listing'[k] = listing[k] /\ EndOf(k)' = EndOf(k)
      BY <1>4, <1>8
    <3>2. QED
      BY <1>12, <3>1
  <2>2. QED
    BY <2>1 DEF JumpsPlaced, asm_label_pos, kWordSize
<1>14. QED
  BY <1>7, <1>9, <1>10, <1>13 DEF IInv

-----------------------------------------------------------------------------
(* The invariant holds of the specification.                               *)
LEMMA InitIInv == Init => IInv
<1> SUFFICES ASSUME Init PROVE IInv
  OBVIOUS
<1>1. /\ code = <<>> /\ label = [l \in Labels |-> 0] /\ listing = <<>>
      /\ negative \in BOOLEAN /\ lost = FALSE
  BY DEF Init
<1>2. DOMAIN listing = {} /\ listing \in Seq(Entries) /\ code \in Bytes
  BY <1>1 DEF Bytes
<1>3. TypeOK
  <2>1. label \in [Labels -> Int]
    BY <1>1
  <2>2. lost \in BOOLEAN
    BY <1>1
  <2>3. QED
    BY <1>1, <1>2, <2>1, <2>2 DEF TypeOK
<1>4. Laid /\ JumpsPlaced
  BY <1>2 DEF Laid, JumpsPlaced
<1>5. LabelsPlaced
  BY <1>1, <1>2 DEF LabelsPlaced
<1>6. QED
  BY <1>3, <1>4, <1>5 DEF IInv

LEMMA StutterStep ==
  ASSUME IInv, UNCHANGED vars
  PROVE  IInv'
BY SMTT(60) DEF IInv, TypeOK, Laid, LabelsPlaced, JumpsPlaced, IsLink, IsLastLink, FieldValue, EndOf,
       asm_buff_size, asm_label_pos, vars

LEMMA NextIInv ==
  ASSUME IInv, [Next]_vars
  PROVE  IInv'
<1>1. CASE \E c \in Calls : Emit(c)
  BY <1>1, EmitStep
<1>2. CASE \E n \in Fills : Fill(n)
  BY <1>2, FillStep
<1>3. CASE \E l \in Labels : asm_call_l(l) \/ asm_bind(l)
  BY <1>3, CallStep, BindStep
<1>4. CASE \E l \in Labels, near \in BOOLEAN : asm_jmp_l(l, near)
  BY <1>4, JmpStep
<1>5. CASE \E l \in Labels, near \in BOOLEAN, cond \in Conditions : asm_j(cond, l, near)
  BY <1>5, ConditionStep
<1>6. CASE UNCHANGED vars
  BY <1>6, StutterStep
<1>7. QED
  BY <1>1, <1>2, <1>3, <1>4, <1>5, <1>6 DEF Next

LEMMA Invariant == Spec => []IInv
<1>1. IInv /\ [Next]_vars => IInv'
  BY NextIInv
<1>2. QED
  BY <1>1, InitIInv, PTL DEF Spec

(* The entries of the listing follow each other, and every label leads to  *)
(* the field of the last jump that links to it, or is bound in the code.   *)
THEOREM EntriesAndLabelsHold == Spec => []AssemblerInv
<1>1. IInv => AssemblerInv
  <2> SUFFICES ASSUME IInv PROVE AssemblerInv
    OBVIOUS
  <2>1. TypeOK /\ Laid /\ LabelsPlaced
    BY DEF IInv
  <2>2. code \in Seq(0 .. 255) /\ negative \in BOOLEAN /\ lost \in BOOLEAN
    BY <2>1 DEF TypeOK, Bytes, Byte
  <2>3. \A k \in DOMAIN listing : listing[k].at <= EndOf(k)
    BY <2>1, EntriesLie
  <2>4. ASSUME NEW l \in Labels, NEW links, links = {k \in DOMAIN listing : listing[k].to = l /\ listing[k].how = "linked"}
        PROVE  /\ asm_label_is_linked(l) => links # {} /\ LinkPos(label[l]) = EndOf(Max(links)) - kWordSize
               /\ asm_label_is_bound(l) => asm_label_pos(l) \in 0 .. asm_buff_size
               /\ label[l] = 0 => links = {}
    <3>1. ASSUME label[l] > 0
          PROVE  links # {} /\ LinkPos(label[l]) = EndOf(Max(links)) - kWordSize
      <4>1. PICK k \in DOMAIN listing : IsLink(k, l) /\ IsLastLink(k) /\ label[l] = EndOf(k)
        BY <2>1, <3>1 DEF LabelsPlaced
      <4>2. k \in links /\ \A i \in links : i <= k
        BY <2>4, <4>1 DEF IsLink, IsLastLink
      <4>3. links \subseteq Int /\ k \in Int
        BY <2>1, <2>4 DEF TypeOK
      <4>4. Max(links) = k
        <5>1. k \in links /\ \A i \in links : k >= i
          BY <4>2, <4>3
        <5>2. \A x \in links : (\A i \in links : x >= i) => x = k
          BY <4>2, <4>3
        <5>3. QED
          BY <5>1, <5>2 DEF Max
      <4>5. QED
        BY <4>1, <4>2, <4>4 DEF LinkPos
    <3>2. label[l] < 0 => asm_label_pos(l) \in 0 .. asm_buff_size
      BY <2>1 DEF LabelsPlaced
    <3>3. label[l] = 0 => links = {}
      BY <2>1, <2>4 DEF LabelsPlaced, IsLink
    <3>4. QED
      BY <3>1, <3>2, <3>3 DEF asm_label_is_linked, asm_label_is_bound
  <2>5. QED
    BY <2>2, <2>3, <2>4 DEF AssemblerInv
<1>2. QED
  BY <1>1, Invariant, PTL

(* Emitted code stays as it is, but for the displacement of the last jump  *)
(* to the label that asm_bind binds: whatever else is emitted, nothing     *)
(* before it is written again.                                             *)
THEOREM EmittedCodeStays == Spec => CodeIsOnlyPatched
<1> DEFINE Patches ==
             \A i \in DOMAIN code :
               code[i] # code'[i] =>
                 \E l \in Labels : /\ asm_label_is_linked(l)
                                   /\ label'[l] # label[l] \/ lost'
                                   /\ i - 1 \in LinkPos(label[l]) .. LinkPos(label[l]) + 3
<1>1. ASSUME IInv, Next PROVE Patches
  <2>1. CASE CodeStays
    BY <2>1 DEF CodeStays
  <2>2. ASSUME NEW l \in Labels, asm_bind(l) PROVE Patches
    <3>1. /\ ~lost /\ label[l] >= 0 /\ label[l] \in Int /\ code \in Bytes /\ Len(code) \in Nat
          /\ DOMAIN code = 1 .. Len(code) /\ label \in [Labels -> Int]
      BY <1>1, <2>2 DEF IInv, TypeOK, asm_bind, asm_label_is_bound, Bytes
    <3>2. /\ code' = IF label[l] > 0 THEN Patched(label[l] - 8) ELSE code
          /\ ~lost' => label' = [label EXCEPT ![l] = -Len(code) - 8]
      BY <2>2 DEF asm_bind, asm_label_is_linked, LinkPos, kWordSize, bind_to, asm_buff_size
    <3>3. CASE label[l] > 0
      <4>1. PICK p \in Nat : p = label[l] - 8 /\ p + 8 <= Len(code)
        <5>1. PICK k \in DOMAIN listing : label[l] = EndOf(k) /\ EndOf(k) \in Nat /\ EndOf(k) <= Len(code) /\ EndOf(k) - 8 \in Nat
          BY <1>1, <3>1, <3>3, LastLinkLies
        <5>2. QED
          BY <5>1
      <4>2. \A i \in DOMAIN code : code'[i] # code[i] => i - 1 \in p .. p + 3
        <5>1. \A i \in 1 .. Len(code) : i <= p \/ i > p + 4 => code'[i] = code[i]
          BY <3>1, <3>2, <3>3, <4>1, PatchedCode
        <5>2. QED
          BY <3>1, <5>1
      <4>3. label'[l] # label[l] \/ lost'
        BY <3>1, <3>2, <3>3
      <4>4. asm_label_is_linked(l) /\ LinkPos(label[l]) = p
        BY <3>3, <4>1 DEF asm_label_is_linked, LinkPos, kWordSize
      <4>5. QED
        BY <4>2, <4>3, <4>4
    <3>4. CASE label[l] = 0
      BY <3>1, <3>2, <3>4
    <3>5. QED
      BY <3>1, <3>3, <3>4
  <2>3. (\E l \in Labels : asm_bind(l)) \/ CodeStays
    BY <1>1, EmitStep, FillStep, CallStep, JmpStep, ConditionStep DEF Next
  <2>4. QED
    BY <2>1, <2>2, <2>3
<1>2. IInv /\ [Next]_vars => [Patches]_vars
  BY <1>1
<1>3. QED
  BY <1>2, Invariant, PTL DEF Spec, CodeIsOnlyPatched, Patches

-----------------------------------------------------------------------------
(* What the processor reads where a jump of the listing begins.            *)
LEMMA ReadJump ==
  ASSUME NEW c \in Bytes, NEW e, e.at \in Nat, IsJump(e.asks), HasOpcode(c, e),
         e.at + OpcodeSize(e.asks) + 4 <= Len(c)
  PROVE  Read(c, e.at + 1) = DecodedJump(e.asks[1], e.asks[2], Signed32(c, e.at + OpcodeSize(e.asks) + 1),
                                         e.at + OpcodeSize(e.asks) + 5)
<1>1. PICK at \in Nat : at = e.at
  OBVIOUS
<1>2. PICK o \in {1, 2} : o = OpcodeSize(e.asks)
  BY SizesOfOpcodes
<1>3. Len(c) \in Nat /\ at + o + 4 <= Len(c)
  BY <1>1, <1>2 DEF Bytes
<1>4. at + 1 \in 1 .. Len(c) /\ at + 1 \in 1 .. Len(c) - 1
  BY <1>3
<1>5. CASE e.asks = <<"call", None>>
  <2>1. o = 1 /\ c[at + 1] = 232
    BY <1>1, <1>2, <1>5, AskedJumps DEF HasOpcode
  <2>2. Read(c, at + 1) = DecodedJump("call", None, Signed32(c, at + 1 + 1), at + 1 + 5)
    BY <1>4, <2>1, ReadNear
  <2>3. at + 1 + 1 = at + o + 1 /\ at + 1 + 5 = at + o + 5
    BY <2>1
  <2>4. e.asks[1] = "call" /\ e.asks[2] = None
    BY <1>5
  <2>5. QED
    BY <1>1, <1>2, <2>2, <2>3, <2>4
<1>6. CASE e.asks = <<"jmp", None>>
  <2>1. o = 1 /\ c[at + 1] = 233
    BY <1>1, <1>2, <1>6, AskedJumps DEF HasOpcode
  <2>2. Read(c, at + 1) = DecodedJump("jmp", None, Signed32(c, at + 1 + 1), at + 1 + 5)
    BY <1>4, <2>1, ReadNear
  <2>3. at + 1 + 1 = at + o + 1 /\ at + 1 + 5 = at + o + 5
    BY <2>1
  <2>4. e.asks[1] = "jmp" /\ e.asks[2] = None
    BY <1>6
  <2>5. QED
    BY <1>1, <1>2, <2>2, <2>3, <2>4
<1>7. CASE IsCondition(e.asks)
  <2>1. PICK cond \in 0 .. 15 : e.asks = <<"j", Imm(cond)>>
    BY <1>7 DEF IsCondition
  <2>2. o = 2 /\ e.asks[2].n = cond
    BY <1>2, <2>1, AskedConditions
  <2>3. c[at + 1] = 15 /\ c[at + 2] = 128 + cond
    BY <1>1, <1>7, <2>2 DEF HasOpcode
  <2>4. at + 1 + 1 = at + 2 /\ 128 + cond \in 128 .. 143 /\ 128 + cond - 128 = cond
    OBVIOUS
  <2>5. Read(c, at + 1) = DecodedJump("j", Imm(c[at + 1 + 1] - 128), Signed32(c, at + 1 + 2), at + 1 + 6)
    <3>1. PICK i \in 1 .. Len(c) - 1 : i = at + 1
      BY <1>4
    <3>2. c[i] = 15 /\ c[i + 1] \in 128 .. 143
      <4>1. i + 1 = at + 2
        BY <3>1
      <4>2. c[i + 1] = 128 + cond /\ c[i] = 15
        BY <2>3, <3>1, <4>1
      <4>3. QED
        BY <2>4, <4>2
    <3>3. Read(c, i) = DecodedJump("j", Imm(c[i + 1] - 128), Signed32(c, i + 2), i + 6)
      BY <3>2, ReadFar
    <3>4. QED
      BY <3>1, <3>3
  <2>6. at + 1 + 2 = at + o + 1 /\ at + 1 + 6 = at + o + 5
    BY <2>2
  <2>7. e.asks[1] = "j" /\ e.asks[2] = Imm(cond)
    BY <2>1
  <2>8. c[at + 1 + 1] - 128 = cond
    BY SMTT(60), <2>3, <2>4
  <2>9. QED
    BY <1>1, <1>2, <2>5, <2>6, <2>7, <2>8
<1>8. QED
  BY <1>5, <1>6, <1>7 DEF IsJump

(* Where a short conditional jump is emitted, one whose opcode is not that *)
(* of one is not read as a conditional jump.                               *)
IsShortCondition(c, at, pos, cond) ==
  /\ at + 2 <= Len(c) /\ pos <= at /\ at - pos <= 126
  /\ c[at + 2] = (pos - at - 2) % 256 /\ c[at + 1] = (pos - at - cond) % 256

ShortIsRead(c, at) ==
  /\ c[at + 1] \in 112 .. 127 =>
       Read(c, at + 1) = DecodedJump("j", Imm(c[at + 1] - 112), Signed8(c, at + 2), at + 3)
  /\ c[at + 1] \notin 112 .. 127 => Read(c, at + 1).ins.op # "j"

LEMMA ReadShort ==
  ASSUME NEW c \in Bytes, NEW at \in Nat, NEW pos \in Nat, NEW cond \in 0 .. 15, IsShortCondition(c, at, pos, cond)
  PROVE  /\ ShortIsRead(c, at)
         /\ c[at + 2] = 256 + pos - at - 2
<1>9. /\ at + 2 <= Len(c) /\ pos <= at /\ at - pos <= 126
      /\ c[at + 2] = (pos - at - 2) % 256 /\ c[at + 1] = (pos - at - cond) % 256
  BY DEF IsShortCondition
<1>1. Len(c) \in Nat /\ at + 1 \in 1 .. Len(c) /\ at + 1 \in 1 .. Len(c) - 1
  BY <1>9 DEF Bytes
<1>2. PICK d \in 0 .. 126 : d = at - pos
  BY <1>9
<1>3. c[at + 2] = 254 - d
  <2>1. pos - at - 2 = -d - 2
    BY <1>2
  <2>2. (-d - 2) % 256 = 254 - d
    OBVIOUS
  <2>3. QED
    BY <1>9, <2>1, <2>2
<1>4. c[at + 2] > 127 /\ c[at + 2] = 256 + pos - at - 2
  BY <1>2, <1>3
<1>5. c[at + 1] = 0 \/ c[at + 1] > 111
  <2>1. pos - at - cond = -d - cond
    BY <1>2
  <2>2. (-d - cond) % 256 = 0 \/ (-d - cond) % 256 > 111
    OBVIOUS
  <2>3. QED
    BY <1>9, <2>1, <2>2
<1>6. ASSUME c[at + 1] \in 112 .. 127
      PROVE  Read(c, at + 1) = DecodedJump("j", Imm(c[at + 1] - 112), Signed8(c, at + 2), at + 3)
  <2>1. PICK b \in 112 .. 127 : c[at + 1] = b
    BY <1>6
  <2>2. b \in {232, 233, 235} \cup (112 .. 127)
    OBVIOUS
  <2>3. Read(c, at + 1) = DecodedJump("j", Imm(b - 112), Signed8(c, at + 1 + 1), at + 1 + 2)
    BY <1>1, <2>1, <2>2, ReadNear
  <2>4. at + 1 + 1 = at + 2 /\ at + 1 + 2 = at + 3
    OBVIOUS
  <2>5. QED
    BY <2>1, <2>3, <2>4
<1>7. ASSUME c[at + 1] \notin 112 .. 127
      PROVE  Read(c, at + 1).ins.op # "j"
  <2>1. c[at + 1] \in Byte
    BY <1>1 DEF Bytes
  <2>2. c[at + 1] = 0 \/ c[at + 1] > 127
    BY <1>5, <1>7, <2>1 DEF Byte
  <2>3. c[at + 1 + 1] > 127
    <3>1. at + 1 + 1 = at + 2
      OBVIOUS
    <3>2. QED
      BY <1>4, <3>1
  <2>4. QED
    BY <1>1, <2>2, <2>3, ReadWrong
<1>8. QED
  BY <1>4, <1>6, <1>7 DEF ShortIsRead

LEMMA JumpsRead ==
  ASSUME NEW op, NEW cond, NEW rel, NEW end
  PROVE  LET read == DecodedJump(op, cond, rel, end)
         IN  read.end = end /\ read.ins = Instr(op, cond, Imm(end + rel)) /\ read.ins.op = op
BY DEF DecodedJump, Decoded, Instr

LEMMA EmittedJumps ==
  ASSUME IInv, NEW k \in DOMAIN listing, NEW e, e = listing[k], e.to \in Labels, EndOf(k) > e.at
  PROVE  /\ e.at \in Nat /\ EndOf(k) \in Nat /\ EndOf(k) <= Len(code) /\ code \in Bytes /\ Len(code) \in Nat
         /\ e.how \in {"bound", "short", "long", "linked"}
         /\ e.how # "linked" => /\ e.how \in Backward /\ label[e.to] < 0 /\ label[e.to] \in Int
                                /\ IsBackward(code, e, EndOf(k), asm_label_pos(e.to))
         /\ e.how = "linked" => /\ \E value : IsForward(code, e, EndOf(k), value)
                                /\ ~lost => IsForward(code, e, EndOf(k), FieldValue(k))
<1>1. TypeOK /\ Laid /\ JumpsPlaced
  BY DEF IInv
<1>2. /\ e.at \in Nat /\ EndOf(k) \in Nat /\ EndOf(k) <= Len(code) /\ code \in Bytes /\ Len(code) \in Nat
  BY <1>1, EntriesLie DEF TypeOK
<1>3. /\ e.how \in Backward \cup {"near", "linked"}
      /\ e.how \in Backward => label[e.to] < 0 /\ IsBackward(code, e, EndOf(k), asm_label_pos(e.to))
      /\ e.how = "near" => EndOf(k) = e.at
      /\ e.how = "linked" => /\ \E value : IsForward(code, e, EndOf(k), value)
                             /\ ~lost => IsForward(code, e, EndOf(k), FieldValue(k))
  BY <1>1 DEF JumpsPlaced
<1>4. e.how # "near"
  BY <1>2, <1>3
<1>5. label[e.to] \in Int
  BY <1>1 DEF TypeOK
<1>6. QED
  BY <1>2, <1>3, <1>4, <1>5 DEF Backward

(* Where a processor goes on after a call or a conditional jump that it    *)
(* reads where one was emitted, the next entry of the listing begins when  *)
(* the jump was emitted with a field of 4 bytes, and never when with 8.    *)
THEOREM JumpsFallThroughAsEmitted == Spec => []FallsThroughExactly
<1>1. ASSUME IInv, NEW k \in DOMAIN listing, NEW e, e = listing[k], NEW read, read = Read(code, e.at + 1),
             e.to \in Labels, EndOf(k) > e.at, e.asks[1] \in {"call", "j"}, read.ins.op = e.asks[1]
      PROVE  (read.end = EndOf(k) + 1) <=> e.how \in {"bound", "short"}
  <2>1. /\ e.at \in Nat /\ EndOf(k) \in Nat /\ EndOf(k) <= Len(code) /\ code \in Bytes /\ Len(code) \in Nat
        /\ e.how \in {"bound", "short", "long", "linked"}
        /\ e.how # "linked" => /\ e.how \in Backward /\ label[e.to] < 0 /\ label[e.to] \in Int
                               /\ IsBackward(code, e, EndOf(k), asm_label_pos(e.to))
        /\ e.how = "linked" => \E value : IsForward(code, e, EndOf(k), value)
    BY <1>1, EmittedJumps
  <2>2. ASSUME NEW size \in {4, 8}, IsJump(e.asks), HasOpcode(code, e), EndOf(k) = e.at + OpcodeSize(e.asks) + size
        PROVE  read.end = EndOf(k) + 1 <=> size = 4
    <3>1. PICK o \in {1, 2} : o = OpcodeSize(e.asks)
      BY <2>2, SizesOfOpcodes
    <3>2. e.at + OpcodeSize(e.asks) + 4 <= Len(code)
      BY <2>1, <2>2, <3>1
    <3>3. read.end = e.at + OpcodeSize(e.asks) + 5
      <4>1. Read(code, e.at + 1) =
              DecodedJump(e.asks[1], e.asks[2], Signed32(code, e.at + OpcodeSize(e.asks) + 1),
                          e.at + OpcodeSize(e.asks) + 5)
        BY <2>1, <2>2, <3>2, ReadJump
      <4>2. QED
        BY <1>1, <4>1, JumpsRead
    <3>4. QED
      BY <2>1, <2>2, <3>1, <3>3
  <2>3. CASE e.how = "bound"
    <3>1. e.asks = <<"call", None>> /\ EndOf(k) = e.at + 5 /\ HasOpcode(code, e)
      BY <2>1, <2>3 DEF IsBackward
    <3>2. IsJump(e.asks) /\ EndOf(k) = e.at + OpcodeSize(e.asks) + 4
      BY <2>1, <3>1, AskedJumps
    <3>3. QED
      BY <2>2, <2>3, <3>1, <3>2
  <2>4. CASE e.how = "long"
    <3>1. IsJump(e.asks) /\ EndOf(k) = e.at + OpcodeSize(e.asks) + 8 /\ HasOpcode(code, e)
      BY <2>1, <2>4 DEF IsBackward, IsJump
    <3>2. QED
      BY <2>2, <2>4, <3>1
  <2>5. CASE e.how = "linked"
    <3>1. IsJump(e.asks) /\ EndOf(k) = e.at + OpcodeSize(e.asks) + 8 /\ HasOpcode(code, e)
      BY <2>1, <2>5 DEF IsForward
    <3>2. QED
      BY <2>2, <2>5, <3>1
  <2>6. CASE e.how = "short"
    <3>1. PICK pos \in Nat : pos = asm_label_pos(e.to) /\ pos <= e.at
      BY <2>1, <2>6 DEF IsBackward
    <3>2. /\ EndOf(k) = e.at + 2 /\ e.at - pos <= 126 /\ code[e.at + 2] = (pos - e.at - 2) % 256
          /\ \/ e.asks = <<"jmp", None>>
             \/ IsCondition(e.asks) /\ code[e.at + 1] = (pos - e.at - e.asks[2].n) % 256
      BY <2>1, <2>6, <3>1 DEF IsBackward
    <3>3. e.asks # <<"jmp", None>>
      BY <1>1
    <3>4. PICK cond \in 0 .. 15 : e.asks = <<"j", Imm(cond)>>
      BY <3>2, <3>3 DEF IsCondition
    <3>5. e.asks[1] = "j" /\ e.asks[2].n = cond
      BY <3>4 DEF Imm
    <3>6. PICK at \in Nat : at = e.at
      BY <2>1
    <3>7. code[at + 1] = (pos - at - cond) % 256 /\ code[at + 2] = (pos - at - 2) % 256 /\ at + 2 <= Len(code)
      BY <2>1, <3>2, <3>3, <3>5, <3>6
    <3>8. /\ code[at + 1] \in 112 .. 127 =>
               Read(code, at + 1) = DecodedJump("j", Imm(code[at + 1] - 112), Signed8(code, at + 2), at + 3)
          /\ code[at + 1] \notin 112 .. 127 => Read(code, at + 1).ins.op # "j"
      <4>1. pos <= at /\ at - pos <= 126
        BY <3>1, <3>2, <3>6
      <4>2. IsShortCondition(code, at, pos, cond)
        BY <3>7, <4>1 DEF IsShortCondition
      <4>3. PICK c \in Bytes : c = code
        BY <2>1
      <4>4. IsShortCondition(c, at, pos, cond)
        BY <4>2, <4>3
      <4>5. ShortIsRead(c, at)
        BY <4>4, ReadShort
      <4>6. QED
        BY <4>3, <4>5 DEF ShortIsRead
    <3>9. read.end = at + 3
      BY <1>1, <3>5, <3>6, <3>8, JumpsRead
    <3>10. QED
      BY <2>6, <3>2, <3>6, <3>9
  <2>7. QED
    BY <2>1, <2>3, <2>4, <2>5, <2>6
<1>2. IInv => FallsThroughExactly
  BY <1>1 DEF FallsThroughExactly, IsEmitted
<1>3. QED
  BY <1>2, Invariant, PTL

-----------------------------------------------------------------------------
(* Where a jump goes.                                                      *)
LEMMA FieldRead ==
  ASSUME NEW c \in Bytes, NEW at \in Nat, at + 4 <= Len(c), NEW v, IsWord(v), HasField(c, at, v)
  PROVE  Signed32(c, at + 1) = v
<1>0. Kept(v) = v
  BY KeptWhole DEF IsWord
<1>1. Len(c) \in Nat /\ DOMAIN c = 1 .. Len(c) /\ \A i \in 1 .. Len(c) : c[i] \in Byte
  BY DEF Bytes
<1>2. at + 1 \in DOMAIN c /\ at + 2 \in DOMAIN c /\ at + 3 \in DOMAIN c /\ at + 4 \in DOMAIN c
  BY <1>1
<1>3. at + 1 + 1 = at + 2 /\ at + 1 + 2 = at + 3 /\ at + 1 + 3 = at + 4
  OBVIOUS
<1>4. /\ At(c, at + 1) = ByteOf(v, 0) /\ At(c, at + 1 + 1) = ByteOf(v, 1)
      /\ At(c, at + 1 + 2) = ByteOf(v, 2) /\ At(c, at + 1 + 3) = ByteOf(v, 3)
  BY <1>2, <1>3 DEF At, HasField
<1>5. Signed8(c, at + 1 + 3) = Signed(ByteOf(v, 3))
  BY <1>4 DEF Signed8, Signed
<1>6. Signed32(c, at + 1) = Kept(v)
  BY <1>4, <1>5 DEF Signed32, Kept
<1>7. QED
  BY <1>0, <1>6

LEMMA SameTarget ==
  ASSUME NEW op, NEW cond, NEW x, NEW y
  PROVE  Instr(op, cond, Imm(x)) = Instr(op, cond, Imm(y)) <=> x = y
BY DEF Instr, Imm

(* The jump at offset `at` of the bytes c is decoded with the target pos.  *)
LandsOn(c, at, op, cond, pos) == Read(c, at + 1).ins = Instr(op, cond, Imm(pos + 1))

(* A jump with a field of four bytes lands on pos when the field is the    *)
(* distance from its end, and only then.                                   *)
LEMMA FieldLands ==
  ASSUME NEW c \in Bytes, NEW e, e.at \in Nat, IsJump(e.asks), HasOpcode(c, e),
         e.at + OpcodeSize(e.asks) + 4 <= Len(c), NEW v, IsWord(v), v \in Int,
         HasField(c, e.at + OpcodeSize(e.asks), v), NEW pos \in Int
  PROVE  LandsOn(c, e.at, e.asks[1], e.asks[2], pos) <=> v = pos - e.at - OpcodeSize(e.asks) - 4
<1>1. PICK at \in Nat : at = e.at
  OBVIOUS
<1>2. PICK o \in {1, 2} : o = OpcodeSize(e.asks)
  BY SizesOfOpcodes
<1>3. Read(c, e.at + 1) = DecodedJump(e.asks[1], e.asks[2], Signed32(c, at + o + 1), at + o + 5)
  BY <1>1, <1>2, ReadJump
<1>4. Signed32(c, at + o + 1) = v
  <2>1. PICK f \in Nat : f = at + o
    OBVIOUS
  <2>2. f + 4 <= Len(c) /\ HasField(c, f, v)
    BY <1>1, <1>2, <2>1
  <2>3. Signed32(c, f + 1) = v
    BY <2>2, FieldRead
  <2>4. QED
    BY <2>1, <2>3
<1>5. Read(c, e.at + 1).ins = Instr(e.asks[1], e.asks[2], Imm(at + o + 5 + v))
  BY <1>3, <1>4, JumpsRead
<1>6. Read(c, e.at + 1).ins = Instr(e.asks[1], e.asks[2], Imm(pos + 1)) <=> at + o + 5 + v = pos + 1
  BY <1>5, SameTarget
<1>7. at + o + 5 + v = pos + 1 <=> v = pos - at - o - 4
  OBVIOUS
<1>8. QED
  BY <1>1, <1>2, <1>6, <1>7 DEF LandsOn

(* A short jump.                                                           *)
LEMMA ShortLands ==
  ASSUME NEW c \in Bytes, NEW at \in Nat, NEW pos \in Nat, pos <= at, at - pos <= 126, at + 2 <= Len(c),
         c[at + 1] = 235, c[at + 2] = (pos - at - 2) % 256
  PROVE  LandsOn(c, at, "jmp", None, pos)
<1>1. PICK d \in 0 .. 126 : d = at - pos
  OBVIOUS
<1>2. c[at + 2] = 254 - d
  <2>1. pos - at - 2 = -d - 2
    BY <1>1
  <2>2. (-d - 2) % 256 = 254 - d
    OBVIOUS
  <2>3. QED
    BY <2>1, <2>2
<1>3. Len(c) \in Nat /\ at + 1 \in 1 .. Len(c) /\ at + 2 \in DOMAIN c
  BY DEF Bytes
<1>4. Signed8(c, at + 2) = pos - at - 2
  <2>1. At(c, at + 2) = 254 - d
    BY <1>2, <1>3 DEF At
  <2>2. 254 - d > 127 /\ 254 - d - 256 = pos - at - 2
    BY <1>1
  <2>3. QED
    BY <2>1, <2>2 DEF Signed8
<1>5. Read(c, at + 1) = DecodedJump("jmp", None, Signed8(c, at + 1 + 1), at + 1 + 2)
  BY <1>3, ReadNear
<1>6. at + 1 + 1 = at + 2 /\ at + 1 + 2 = at + 3 /\ at + 3 + (pos - at - 2) = pos + 1
  OBVIOUS
<1>7. Read(c, at + 1) = DecodedJump("jmp", None, pos - at - 2, at + 3)
  BY <1>4, <1>5, <1>6
<1>8. Read(c, at + 1).ins = Instr("jmp", None, Imm(at + 3 + (pos - at - 2)))
  BY <1>7, JumpsRead
<1>9. QED
  BY <1>6, <1>8 DEF LandsOn

(* The opcode of a short condition, the distance less the condition that  *)
(* emit_near_jcc stores, is the one of the condition: 112 + cond.          *)
ShortOpcodeIsRight(at, pos, cond) == (pos - at - cond) % 256 = 112 + cond

(* A short condition lands on pos when its opcode is the one of the        *)
(* condition, and only then.                                               *)
LEMMA ConditionLands ==
  ASSUME NEW c \in Bytes, NEW at \in Nat, NEW pos \in Nat, NEW cond \in 0 .. 15, IsShortCondition(c, at, pos, cond)
  PROVE  LandsOn(c, at, "j", Imm(cond), pos) <=> ShortOpcodeIsRight(at, pos, cond)
<1>1. /\ at + 2 <= Len(c) /\ pos <= at /\ at - pos <= 126
      /\ c[at + 2] = (pos - at - 2) % 256 /\ c[at + 1] = (pos - at - cond) % 256
  BY DEF IsShortCondition
<1>2. Len(c) \in Nat /\ at + 2 \in DOMAIN c
  BY <1>1 DEF Bytes
<1>3. c[at + 2] = 256 + pos - at - 2
  BY ReadShort
<1>4. Signed8(c, at + 2) = pos - at - 2
  <2>1. At(c, at + 2) = 256 + pos - at - 2
    BY <1>2, <1>3 DEF At
  <2>2. 256 + pos - at - 2 > 127 /\ 256 + pos - at - 2 - 256 = pos - at - 2
    BY <1>1
  <2>3. QED
    BY <2>1, <2>2 DEF Signed8
<1>5. CASE c[at + 1] \in 112 .. 127
  <2>1. PICK b \in 112 .. 127 : b = c[at + 1]
    BY <1>5
  <2>2. Read(c, at + 1) = DecodedJump("j", Imm(c[at + 1] - 112), Signed8(c, at + 2), at + 3)
    BY <1>5, ReadShort DEF ShortIsRead
  <2>3. Read(c, at + 1) = DecodedJump("j", Imm(b - 112), pos - at - 2, at + 3)
    BY <1>4, <2>1, <2>2
  <2>4. Read(c, at + 1).ins = Instr("j", Imm(b - 112), Imm(at + 3 + (pos - at - 2)))
    BY <2>3, JumpsRead
  <2>5. at + 3 + (pos - at - 2) = pos + 1
    OBVIOUS
  <2>6. Read(c, at + 1).ins = Instr("j", Imm(b - 112), Imm(pos + 1))
    BY <2>4, <2>5
  <2>7. Read(c, at + 1).ins = Instr("j", Imm(cond), Imm(pos + 1)) <=> b - 112 = cond
    BY <2>6 DEF Instr, Imm
  <2>8. b - 112 = cond <=> b = 112 + cond
    OBVIOUS
  <2>9. QED
    BY <1>1, <2>1, <2>7, <2>8 DEF LandsOn, ShortOpcodeIsRight
<1>6. CASE c[at + 1] \notin 112 .. 127
  <2>1. Read(c, at + 1).ins.op # "j"
    BY <1>6, ReadShort DEF ShortIsRead
  <2>2. Read(c, at + 1).ins # Instr("j", Imm(cond), Imm(pos + 1))
    BY <2>1 DEF Instr
  <2>3. 112 + cond \in 112 .. 127
    OBVIOUS
  <2>4. QED
    BY <1>1, <1>6, <2>2, <2>3 DEF LandsOn, ShortOpcodeIsRight
<1>7. QED
  BY <1>5, <1>6

(* While a signed word can hold every distance in the code: the buffer is  *)
(* no longer than the greatest int.                                        *)
Addressable == asm_buff_size <= 2147483647

LEMMA DistancesAreWords ==
  ASSUME Addressable, Len(code) \in Nat, NEW v \in Int, -Len(code) - 1 <= v, v <= Len(code)
  PROVE  IsWord(v)
BY SMT DEF Addressable, asm_buff_size, IsWord

(* Once its label is bound a jump goes there on its condition, except      *)
(* exactly those that Misses names: the call to a bound label, the short   *)
(* conditional jump whose opcode is not right by chance, the near jump     *)
(* ahead and every jump ahead but the last.  So asm_jmp_l and asm_j are    *)
(* right on every backward distance, and asm_bind patches the one field it *)
(* patches with the right distance.                                        *)
THEOREM JumpsLandInAddressableCode == Spec => [](Addressable => JumpsLandExactly)
<1>1. ASSUME IInv, Addressable, NEW k \in DOMAIN listing, NEW e, e = listing[k],
             e.to \in Labels, ~lost, label[e.to] < 0
      PROVE  Lands(k) <=> ~Misses(k)
  <2>1. TypeOK /\ Laid /\ JumpsPlaced
    BY <1>1 DEF IInv
  <2>2. /\ e.at \in Nat /\ EndOf(k) \in Nat /\ e.at <= EndOf(k) /\ EndOf(k) <= Len(code) /\ Len(code) \in Nat
        /\ e.link \in Int /\ code \in Bytes
    BY <1>1, <2>1, EntriesLie DEF TypeOK
  <2>3. PICK pos \in Nat : pos = asm_label_pos(e.to) /\ pos <= Len(code)
    BY <1>1, LabelsLie
  <2> DEFINE there == LandsOn(code, e.at, e.asks[1], e.asks[2], pos)
  <2>4. Lands(k) <=> EndOf(k) > e.at /\ there
    BY <1>1, <2>3 DEF Lands, IsEmitted, LandsOn
  <2>5. Misses(k) <=> \/ e.how \in {"bound", "near"}
                      \/ e.how = "short" /\ e.asks[1] = "j" /\ (pos - e.at - e.asks[2].n) % 256 # 112 + e.asks[2].n
                      \/ e.how = "linked" /\ ~IsLastLink(k) /\ EndOf(k) - 4 + e.link # pos
    BY <1>1, <2>3 DEF Misses
  <2>6. /\ e.how \in Backward \cup {"near", "linked"}
        /\ e.how \in Backward => IsBackward(code, e, EndOf(k), pos)
        /\ e.how = "near" => EndOf(k) = e.at
        /\ e.how = "linked" => IsForward(code, e, EndOf(k), FieldValue(k))
    BY <1>1, <2>1, <2>3 DEF JumpsPlaced
  <2> HIDE DEF there
  (* The jumps with a field. *)
  <2>7. ASSUME IsJump(e.asks), HasOpcode(code, e), NEW v \in Int, HasField(code, e.at + OpcodeSize(e.asks), v),
               EndOf(k) = e.at + OpcodeSize(e.asks) + 4 \/ EndOf(k) = e.at + OpcodeSize(e.asks) + 8,
               -Len(code) - 1 <= v, v <= Len(code)
        PROVE  EndOf(k) > e.at /\ (there <=> v = pos - e.at - OpcodeSize(e.asks) - 4)
    <3>1. OpcodeSize(e.asks) \in {1, 2}
      BY <2>7, SizesOfOpcodes
    <3>2. EndOf(k) > e.at /\ e.at + OpcodeSize(e.asks) + 4 <= Len(code)
      BY <2>2, <2>7, <3>1
    <3>3. IsWord(v)
      BY <1>1, <2>2, <2>7, DistancesAreWords
    <3>4. there <=> v = pos - e.at - OpcodeSize(e.asks) - 4
      <4>1. PICK c \in Bytes : c = code
        BY <2>2
      <4>2. /\ HasOpcode(c, e) /\ HasField(c, e.at + OpcodeSize(e.asks), v)
            /\ e.at + OpcodeSize(e.asks) + 4 <= Len(c) /\ e.at \in Nat /\ pos \in Int
        BY <2>2, <2>7, <3>2, <4>1
      <4>3. LandsOn(c, e.at, e.asks[1], e.asks[2], pos) <=> v = pos - e.at - OpcodeSize(e.asks) - 4
        BY SMTT(60), <2>7, <3>3, <4>2, FieldLands
      <4>4. QED
        BY <4>1, <4>3 DEF there
    <3>5. QED
      BY <3>2, <3>4
  <2>8. CASE e.how = "bound"
    <3>1. PICK v \in Int : v = pos - e.at - 6
      <4>1. pos - e.at - 6 \in Int
        BY <2>2
      <4>2. QED
        BY <4>1
    <3>2. /\ e.asks = <<"call", None>> /\ EndOf(k) = e.at + 5 /\ HasOpcode(code, e)
          /\ HasField(code, e.at + 1, v) /\ pos <= e.at
      BY <2>2, <2>6, <2>8, <3>1 DEF IsBackward, Backward
    <3>3. IsJump(e.asks) /\ OpcodeSize(e.asks) = 1
      BY <3>2, AskedJumps
    <3>4. /\ EndOf(k) = e.at + OpcodeSize(e.asks) + 4 /\ HasField(code, e.at + OpcodeSize(e.asks), v)
          /\ -Len(code) - 1 <= v /\ v <= Len(code)
      BY <2>2, <3>1, <3>2, <3>3
    <3>5. there <=> v = pos - e.at - OpcodeSize(e.asks) - 4
      BY <2>7, <3>2, <3>3, <3>4
    <3>6. v # pos - e.at - OpcodeSize(e.asks) - 4
      BY <2>2, <3>1, <3>3
    <3>7. QED
      BY <2>4, <2>5, <2>8, <3>5, <3>6
  <2>9. CASE e.how = "near"
    BY <2>2, <2>4, <2>5, <2>6, <2>9
  <2>10. CASE e.how = "long"
    <3>1. /\ IsJump(e.asks) /\ EndOf(k) = e.at + OpcodeSize(e.asks) + 8 /\ HasOpcode(code, e)
          /\ HasField(code, e.at + OpcodeSize(e.asks), pos - e.at - OpcodeSize(e.asks) - 4) /\ pos <= e.at
      BY <2>2, <2>6, <2>10 DEF IsBackward, Backward, IsJump
    <3>2. PICK o \in {1, 2} : o = OpcodeSize(e.asks)
      BY <3>1, SizesOfOpcodes
    <3>3. PICK v \in Int : v = pos - e.at - OpcodeSize(e.asks) - 4
      <4>1. pos - e.at - o - 4 \in Int
        BY <2>2
      <4>2. QED
        BY <3>2, <4>1
    <3>4. -Len(code) - 1 <= v /\ v <= Len(code) /\ HasField(code, e.at + OpcodeSize(e.asks), v)
      <4>1. e.at + o + 8 <= Len(code) /\ v = pos - e.at - o - 4
        BY <2>2, <3>1, <3>2, <3>3
      <4>2. -Len(code) - 1 <= v /\ v <= Len(code)
        BY SMTT(60), <2>2, <3>1, <4>1
      <4>3. QED
        BY <3>1, <3>3, <4>2
    <3>5. EndOf(k) > e.at /\ there
      BY <2>7, <3>1, <3>3, <3>4
    <3>6. QED
      BY <2>4, <2>5, <2>10, <3>5
  <2>11. CASE e.how = "linked"
    <3>1. /\ IsJump(e.asks) /\ EndOf(k) = e.at + OpcodeSize(e.asks) + 8 /\ HasOpcode(code, e)
          /\ HasField(code, EndOf(k) - 8, FieldValue(k)) /\ e.link \in 0 .. e.at
      BY <2>6, <2>11 DEF IsForward
    <3>2. PICK o \in {1, 2} : o = OpcodeSize(e.asks)
      BY <3>1, SizesOfOpcodes
    <3>3. FieldValue(k) = IF IsLastLink(k) THEN pos - (EndOf(k) - 4) ELSE e.link
      BY <1>1, <2>3 DEF FieldValue
    <3>4. PICK v \in Int : v = FieldValue(k)
      <4>1. pos - (EndOf(k) - 4) \in Int
        BY <2>2
      <4>2. QED
        BY <2>2, <3>3, <4>1
    <3>5. EndOf(k) - 8 = e.at + OpcodeSize(e.asks) /\ EndOf(k) - 4 = e.at + o + 4
      BY <2>2, <3>1, <3>2
    <3>6. HasField(code, e.at + OpcodeSize(e.asks), v)
      BY <3>1, <3>4, <3>5
    <3>7. -Len(code) - 1 <= v /\ v <= Len(code)
      <4>1. e.at + o + 8 <= Len(code) /\ EndOf(k) - 4 = e.at + o + 4
        BY <2>2, <3>1, <3>2, <3>5
      <4>2. v = pos - (e.at + o + 4) \/ v = e.link
        BY <3>3, <3>4, <4>1
      <4>3. CASE v = e.link
        BY SMTT(60), <2>2, <3>1, <3>2, <4>1, <4>3
      <4>4. CASE v = pos - (e.at + o + 4)
        <5>1. e.at + o + 4 \in Nat /\ e.at + o + 4 <= Len(code)
          BY <2>2, <4>1
        <5>2. QED
          BY SMTT(60), <2>2, <2>3, <4>4, <5>1
      <4>5. QED
        BY <4>2, <4>3, <4>4
    <3>8. EndOf(k) > e.at /\ (there <=> v = pos - e.at - o - 4)
      BY <2>7, <3>1, <3>2, <3>6, <3>7
    <3>9. CASE IsLastLink(k)
      <4>1. v = pos - e.at - o - 4
        BY <2>2, <3>3, <3>4, <3>5, <3>9
      <4>2. QED
        BY <2>4, <2>5, <2>11, <3>8, <3>9, <4>1
    <3>10. CASE ~IsLastLink(k)
      <4>1. v = pos - e.at - o - 4 <=> EndOf(k) - 4 + e.link = pos
        <5>1. v = e.link /\ EndOf(k) - 4 = e.at + o + 4
          BY <3>3, <3>4, <3>5, <3>10
        <5>2. v = pos - e.at - o - 4 <=> e.at + o + 4 + v = pos
          BY SMTT(60), <2>2
        <5>3. QED
          BY <5>1, <5>2
      <4>2. QED
        BY <2>4, <2>5, <2>11, <3>8, <3>10, <4>1
    <3>11. QED
      BY <3>9, <3>10
  <2>12. CASE e.how = "short"
    <3>1. /\ pos <= e.at /\ EndOf(k) = e.at + 2 /\ e.at - pos <= 126 /\ code[e.at + 2] = (pos - e.at - 2) % 256
          /\ \/ e.asks = <<"jmp", None>> /\ code[e.at + 1] = 235
             \/ IsCondition(e.asks) /\ code[e.at + 1] = (pos - e.at - e.asks[2].n) % 256
      BY <2>2, <2>6, <2>12 DEF IsBackward, Backward
    <3>2. PICK at \in Nat : at = e.at /\ pos <= at /\ at - pos <= 126 /\ at + 2 <= Len(code)
      BY <2>2, <3>1
    <3>3. PICK c \in Bytes : c = code
      BY <2>2
    <3>4. EndOf(k) > e.at
      BY <2>2, <3>1
    <3>5. CASE e.asks = <<"jmp", None>> /\ code[e.at + 1] = 235
      <4>1. c[at + 2] = (pos - at - 2) % 256 /\ c[at + 1] = 235 /\ at + 2 <= Len(c)
        BY <3>1, <3>2, <3>3, <3>5
      <4>2. LandsOn(c, at, "jmp", None, pos)
        BY <3>2, <4>1, ShortLands
      <4>3. e.asks[1] = "jmp" /\ e.asks[2] = None
        BY <3>5
      <4>4. there
        BY <3>2, <3>3, <4>2, <4>3 DEF there
      <4>5. QED
        BY <2>4, <2>5, <2>12, <3>4, <4>3, <4>4
    <3>6. CASE IsCondition(e.asks) /\ code[e.at + 1] = (pos - e.at - e.asks[2].n) % 256
      <4>1. PICK cond \in 0 .. 15 : e.asks = <<"j", Imm(cond)>>
        BY <3>6 DEF IsCondition
      <4>2. e.asks[1] = "j" /\ e.asks[2] = Imm(cond) /\ e.asks[2].n = cond
        BY <4>1 DEF Imm
      <4>3. IsShortCondition(c, at, pos, cond)
        BY <3>1, <3>2, <3>3, <3>6, <4>2 DEF IsShortCondition
      <4>4. LandsOn(c, at, "j", Imm(cond), pos) <=> ShortOpcodeIsRight(at, pos, cond)
        BY <4>3, ConditionLands
      <4>5. there <=> (pos - e.at - cond) % 256 = 112 + cond
        BY <3>2, <3>3, <4>2, <4>4 DEF there, ShortOpcodeIsRight
      <4>6. QED
        BY <2>4, <2>5, <2>12, <3>4, <4>2, <4>5
    <3>7. QED
      BY <3>1, <3>5, <3>6
  <2>13. QED
    BY <2>6, <2>8, <2>9, <2>10, <2>11, <2>12 DEF Backward
<1>2. IInv => (Addressable => JumpsLandExactly)
  BY <1>1 DEF JumpsLandExactly, asm_label_is_bound
<1>3. QED
  BY <1>2, Invariant, PTL

-----------------------------------------------------------------------------
(* What the processor reads in the bytes of a call.  Rex bytes: of the     *)
(* bits that are set, the lower four tell something, the upper four make   *)
(* the byte a rex byte.                                                    *)
RexOf(bits) == 64 + Weight(bits, 0, 1) + Weight(bits, 1, 2) + Weight(bits, 2, 4) + Weight(bits, 3, 8)

LEMMA RexBits ==
  ASSUME NEW bits
  PROVE  LET b == RexOf(bits)
         IN  /\ b \in 64 .. 79 /\ IsRex(b)
             /\ RexW(b) <=> REX_W \in bits
             /\ RexR(b) = IF REX_R \in bits THEN 8 ELSE 0
             /\ RexX(b) = IF REX_X \in bits THEN 8 ELSE 0
             /\ RexB(b) = IF REX_B \in bits THEN 8 ELSE 0
<1> DEFINE b0 == Weight(bits, 0, 1)
           b1 == Weight(bits, 1, 1)
           b2 == Weight(bits, 2, 1)
           b3 == Weight(bits, 3, 1)
           b == 64 + b0 + 2 * b1 + 4 * b2 + 8 * b3
<1>1. b0 \in 0 .. 1 /\ b1 \in 0 .. 1 /\ b2 \in 0 .. 1 /\ b3 \in 0 .. 1
  BY DEF Weight
<1>2. RexOf(bits) = b
  BY DEF RexOf, Weight
<1>3. /\ b0 = (IF REX_B \in bits THEN 1 ELSE 0) /\ b1 = (IF REX_X \in bits THEN 1 ELSE 0)
      /\ b2 = (IF REX_R \in bits THEN 1 ELSE 0) /\ b3 = (IF REX_W \in bits THEN 1 ELSE 0)
  BY DEF Weight, REX_B, REX_X, REX_R, REX_W
<1> HIDE DEF b0, b1, b2, b3
<1>4. /\ b \in 64 .. 79 /\ b % 2 = b0 /\ (b \div 2) % 2 = b1 /\ (b \div 4) % 2 = b2 /\ (b \div 8) % 2 = b3
  BY <1>1
<1> HIDE DEF b
<1>5. /\ IsRex(b) /\ (RexW(b) <=> b3 = 1)
      /\ RexR(b) = 8 * b2 /\ RexX(b) = 8 * b1 /\ RexB(b) = 8 * b0
  BY <1>4 DEF IsRex, RexW, RexR, RexX, RexB
<1>6. QED
  BY <1>2, <1>3, <1>4, <1>5

LEMMA RexIs ==
  ASSUME NEW bits, 4 \notin bits, 5 \notin bits, 7 \notin bits
  PROVE  BitsAsByte(bits \cup {REX_PREFIX}) = RexOf(bits)
<1> DEFINE all == bits \cup {REX_PREFIX}
<1>1. /\ Weight(all, 0, 1) = Weight(bits, 0, 1) /\ Weight(all, 1, 2) = Weight(bits, 1, 2)
      /\ Weight(all, 2, 4) = Weight(bits, 2, 4) /\ Weight(all, 3, 8) = Weight(bits, 3, 8)
      /\ Weight(all, 4, 16) = 0 /\ Weight(all, 5, 32) = 0 /\ Weight(all, 6, 64) = 64 /\ Weight(all, 7, 128) = 0
  BY DEF Weight, REX_PREFIX
<1>2. /\ Weight(bits, 0, 1) \in Int /\ Weight(bits, 1, 2) \in Int
      /\ Weight(bits, 2, 4) \in Int /\ Weight(bits, 3, 8) \in Int
  BY DEF Weight
<1>3. QED
  BY <1>1, <1>2 DEF BitsAsByte, RexOf

-----------------------------------------------------------------------------
(* The fields of modrm and sib bytes.                                      *)
Packed(high, middle, low) == 64 * high + 8 * middle + low

LEMMA PackedFields ==
  ASSUME NEW high \in 0 .. 3, NEW middle \in 0 .. 7, NEW low \in 0 .. 7
  PROVE  LET b == Packed(high, middle, low)
         IN  b \in Byte /\ b % 256 = b /\ b \div 64 = high /\ (b \div 8) % 8 = middle /\ b % 8 = low
<1> DEFINE b == Packed(high, middle, low)
<1>1. b \in 0 .. 255 /\ b = 64 * high + 8 * middle + low
  BY DEF Packed
<1> HIDE DEF b
<1>2. b % 256 = b /\ b \div 64 = high /\ b % 8 = low
  BY <1>1
<1>3. b \div 8 = 8 * high + middle
  BY <1>1
<1>4. (b \div 8) % 8 = middle
  BY <1>3
<1>5. QED
  BY <1>1, <1>2, <1>4 DEF b, Byte

(* A register, and an address without and with a sib byte.                 *)
ReadAs(reg, ext, end, rm) == [reg |-> reg, ext |-> ext, end |-> end, rm |-> rm]

Displacement(c, after, mod) ==
  IF mod = 1 THEN Signed8(c, after) ELSE IF mod = 2 THEN Signed32(c, after) ELSE 0
Size(mod) == IF mod = 1 THEN 1 ELSE IF mod = 2 THEN 4 ELSE 0

LEMMA RegisterRead ==
  ASSUME NEW c, NEW i \in Nat, NEW rex, NEW reg \in 0 .. 7, NEW rm \in 0 .. 7, At(c, i) = Packed(3, reg, rm)
  PROVE  Operand(c, i, rex) = ReadAs(reg + RexR(rex), reg, i + 1, Reg(rm + RexB(rex)))
<1> DEFINE b == Packed(3, reg, rm)
<1>1. b \div 64 = 3 /\ (b \div 8) % 8 = reg /\ b % 8 = rm
  BY PackedFields
<1> HIDE DEF b
<1>2. At(c, i) = b
  BY DEF b
<1>3. QED
  BY <1>1, <1>2 DEF Operand, ReadAs

LEMMA AddressRead ==
  ASSUME NEW c, NEW i \in Nat, NEW rex, NEW mod \in 0 .. 2, NEW reg \in 0 .. 7, NEW rm \in 0 .. 7,
         rm # 4, mod # 0 \/ rm # 5, At(c, i) = Packed(mod, reg, rm)
  PROVE  Operand(c, i, rex) =
           ReadAs(reg + RexR(rex), reg, i + 1 + Size(mod),
                  AtBase(rm + RexB(rex), Displacement(c, i + 1, mod)))
<1> DEFINE b == Packed(mod, reg, rm)
<1>1. b \div 64 = mod /\ (b \div 8) % 8 = reg /\ b % 8 = rm
  BY PackedFields
<1> HIDE DEF b
<1>2. At(c, i) = b
  BY DEF b
<1>3. QED
  BY <1>1, <1>2 DEF Operand, ReadAs, AtBase, Displacement, Size

LEMMA SibRead ==
  ASSUME NEW c, NEW i \in Nat, NEW rex, NEW mod \in 0 .. 2, NEW reg \in 0 .. 7,
         RexX(rex) = 0, At(c, i) = Packed(mod, reg, 4), At(c, i + 1) = Packed(0, 4, 4)
  PROVE  Operand(c, i, rex) =
           ReadAs(reg + RexR(rex), reg, i + 2 + Size(mod),
                  AtBase(4 + RexB(rex), Displacement(c, i + 2, mod)))
<1> DEFINE b == Packed(mod, reg, 4)
           s == Packed(0, 4, 4)
<1>1. b \div 64 = mod /\ (b \div 8) % 8 = reg /\ b % 8 = 4
  BY PackedFields
<1>2. s \div 64 = 0 /\ (s \div 8) % 8 = 4 /\ s % 8 = 4
  BY PackedFields
<1> HIDE DEF b, s
<1>3. At(c, i) = b /\ At(c, i + 1) = s
  BY DEF b, s
<1>4. QED
  BY <1>1, <1>2, <1>3 DEF Operand, ReadAs, AtBase, Displacement, Size

LEMMA ScaledRead ==
  ASSUME NEW c, NEW i \in Nat, NEW rex, NEW reg \in 0 .. 7, NEW scale \in 0 .. 3, NEW low \in 0 .. 7,
         NEW index \in Int, index = low + RexX(rex),
         At(c, i) = Packed(0, reg, 4), At(c, i + 1) = Packed(scale, low, 5)
  PROVE  Operand(c, i, rex) =
           ReadAs(reg + RexR(rex), reg, i + 6,
                  Mem(NoRegister, IF index # 4 THEN index ELSE NoRegister,
                      IF index # 4 THEN scale ELSE 0, Signed32(c, i + 2)))
<1> DEFINE b == Packed(0, reg, 4)
           s == Packed(scale, low, 5)
<1>1. b \div 64 = 0 /\ (b \div 8) % 8 = reg /\ b % 8 = 4
  BY PackedFields
<1>2. s \div 64 = scale /\ (s \div 8) % 8 = low /\ s % 8 = 5
  BY PackedFields
<1> HIDE DEF b, s
<1>3. At(c, i) = b /\ At(c, i + 1) = s
  BY DEF b, s
<1>4. QED
  BY <1>1, <1>2, <1>3 DEF Operand, ReadAs

-----------------------------------------------------------------------------
(* Bytes that stand in code behind a place.                                *)
StandsAt(c, at, w) == \A k \in 1 .. Len(w) : At(c, at + k) = w[k]

LEMMA LengthsAdd ==
  ASSUME NEW v \in Bytes, NEW w \in Bytes, NEW u, u = v \o w
  PROVE  u \in Bytes /\ Len(u) = Len(v) + Len(w) /\ Len(v) \in Nat /\ Len(w) \in Nat
BY DEF Bytes

LEMMA Concatenated ==
  ASSUME NEW v \in Bytes, NEW w \in Bytes
  PROVE  /\ v \o w \in Bytes /\ Len(v) \in Nat /\ Len(w) \in Nat /\ Len(v \o w) = Len(v) + Len(w)
         /\ \A k \in 1 .. Len(v) : (v \o w)[k] = v[k]
         /\ \A k \in 1 .. Len(w) : (v \o w)[Len(v) + k] = w[k]
BY DEF Bytes

LEMMA StandsApart ==
  ASSUME NEW c, NEW at \in Nat, NEW v \in Bytes, NEW w \in Bytes, StandsAt(c, at, v \o w)
  PROVE  StandsAt(c, at, v) /\ StandsAt(c, at + Len(v), w)
<1>1. /\ Len(v) \in Nat /\ Len(w) \in Nat /\ Len(v \o w) = Len(v) + Len(w)
      /\ \A k \in 1 .. Len(v) : (v \o w)[k] = v[k]
      /\ \A k \in 1 .. Len(w) : (v \o w)[Len(v) + k] = w[k]
  BY Concatenated
<1>2. \A k \in 1 .. Len(v) + Len(w) : At(c, at + k) = (v \o w)[k]
  BY <1>1 DEF StandsAt
<1>3. ASSUME NEW k \in 1 .. Len(v) PROVE At(c, at + k) = v[k]
  BY <1>1, <1>2
<1>4. ASSUME NEW k \in 1 .. Len(w) PROVE At(c, at + Len(v) + k) = w[k]
  <2>1. Len(v) + k \in 1 .. Len(v) + Len(w) /\ at + Len(v) + k = at + (Len(v) + k)
    BY <1>1
  <2>2. At(c, at + (Len(v) + k)) = (v \o w)[Len(v) + k]
    BY <1>2, <2>1
  <2>3. QED
    BY <1>1, <2>1, <2>2
<1>5. QED
  BY <1>3, <1>4 DEF StandsAt

(* Numbers of one byte and of four.                                        *)
LEMMA ShortRead ==
  ASSUME NEW c, NEW i, NEW v \in Int, is8(v), At(c, i) = v % 256
  PROVE  Signed8(c, i) = v
<1>1. -128 <= v /\ v < 128
  BY DEF is8
<1>2. v >= 0 => v % 256 = v
  BY <1>1
<1>3. v < 0 => v % 256 = v + 256
  BY <1>1
<1>4. QED
  BY <1>1, <1>2, <1>3 DEF Signed8

LEMMA BytesRead ==
  ASSUME NEW c, NEW at \in Nat, NEW v \in Int,
         At(c, at + 1) = ByteOf(v, 0), At(c, at + 2) = ByteOf(v, 1), At(c, at + 3) = ByteOf(v, 2), At(c, at + 4) = ByteOf(v, 3)
  PROVE  Signed32(c, at + 1) = Kept(v)
<1>1. at + 1 + 1 = at + 2 /\ at + 1 + 2 = at + 3 /\ at + 1 + 3 = at + 4
  OBVIOUS
<1>2. Signed8(c, at + 1 + 3) = Signed(ByteOf(v, 3))
  BY <1>1 DEF Signed8, Signed
<1>3. QED
  BY <1>1, <1>2 DEF Signed32, Kept

LEMMA WordRead ==
  ASSUME NEW c, NEW at \in Nat, NEW v \in Int, StandsAt(c, at, Int32(v))
  PROVE  Signed32(c, at + 1) = Kept(v)
<1>1. /\ Len(Int32(v)) = 4 /\ Int32(v)[1] = ByteOf(v, 0) /\ Int32(v)[2] = ByteOf(v, 1)
      /\ Int32(v)[3] = ByteOf(v, 2) /\ Int32(v)[4] = ByteOf(v, 3)
  BY BytesOfNumbers DEF Int32
<1>2. /\ At(c, at + 1) = ByteOf(v, 0) /\ At(c, at + 2) = ByteOf(v, 1)
      /\ At(c, at + 3) = ByteOf(v, 2) /\ At(c, at + 4) = ByteOf(v, 3)
  BY <1>1 DEF StandsAt
<1>3. QED
  BY <1>2, BytesRead

(* A number of eight bytes: its halves are numbers of four.                *)
IsLong(v) == v \in Int /\ IsWord(Upper(v))

LEMMA LongRead ==
  ASSUME NEW c, NEW at \in Nat, NEW v, IsLong(v), StandsAt(c, at, Int64(v))
  PROVE  Signed64(c, at + 1) = v
<1> DEFINE u == Upper(v)
<1>1. v \in Int /\ IsWord(u) /\ u \in Int /\ Kept(u) = u
  BY KeptWhole DEF IsLong, IsWord
<1> HIDE DEF u
<1>2. \A k \in 1 .. 8 : At(c, at + k) = ByteOf(v, k - 1)
  <2>1. Len(Int64(v)) = 8 /\ \A k \in 1 .. 8 : Int64(v)[k] = ByteOf(v, k - 1)
    BY <1>1, BytesOfNumbers DEF Int64
  <2>2. QED
    BY <2>1 DEF StandsAt
<1>3. /\ At(c, at + 1) = ByteOf(v, 0) /\ At(c, at + 2) = ByteOf(v, 1)
      /\ At(c, at + 3) = ByteOf(v, 2) /\ At(c, at + 4) = ByteOf(v, 3)
  <2>1. \A k \in 1 .. 4 : At(c, at + k) = ByteOf(v, k - 1)
    BY <1>2
  <2>2. 1 - 1 = 0 /\ 2 - 1 = 1 /\ 3 - 1 = 2 /\ 4 - 1 = 3
    OBVIOUS
  <2>3. QED
    BY <2>1, <2>2
<1>4. PICK b \in Nat : b = at + 4
  OBVIOUS
<1>5. /\ At(c, b + 1) = ByteOf(u, 0) /\ At(c, b + 2) = ByteOf(u, 1)
      /\ At(c, b + 3) = ByteOf(u, 2) /\ At(c, b + 4) = ByteOf(u, 3)
  <2>1. b + 1 = at + 5 /\ b + 2 = at + 6 /\ b + 3 = at + 7 /\ b + 4 = at + 8
    BY <1>4
  <2>2. At(c, at + 5) = ByteOf(v, 4) /\ At(c, at + 6) = ByteOf(v, 5) /\ At(c, at + 7) = ByteOf(v, 6) /\ At(c, at + 8) = ByteOf(v, 7)
    <3>1. 5 \in 1 .. 8 /\ 6 \in 1 .. 8 /\ 7 \in 1 .. 8 /\ 8 \in 1 .. 8 /\ 5 - 1 = 4 /\ 6 - 1 = 5 /\ 7 - 1 = 6 /\ 8 - 1 = 7
      OBVIOUS
    <3>2. QED
      BY <1>2, <3>1
  <2>3. ByteOf(v, 4) = ByteOf(u, 0) /\ ByteOf(v, 5) = ByteOf(u, 1) /\ ByteOf(v, 6) = ByteOf(u, 2) /\ ByteOf(v, 7) = ByteOf(u, 3)
    BY DEF ByteOf, u
  <2>4. QED
    BY <2>1, <2>2, <2>3
<1>6. Signed32(c, at + 1) = Kept(v)
  BY <1>1, <1>3, BytesRead
<1>7. Signed32(c, b + 1) = u
  BY <1>1, <1>5, BytesRead
<1>8. Signed64(c, at + 1) = Kept(v) + 65536 * (65536 * (u + Carry(v)))
  <2>1. at + 1 + 4 = b + 1 /\ at + 1 + 3 = at + 4
    BY <1>4
  <2>2. QED
    BY <1>3, <1>6, <1>7, <2>1 DEF Signed64, Carry
<1>9. QED
  BY <1>1, <1>8, KeptIs DEF u

-----------------------------------------------------------------------------
(* Operands, wherever they stand and whatever register they go with.       *)
IsReadBy(bits, oper) == (REX_B \in bits <=> REX_B \in oper.rex) /\ (REX_X \in bits <=> REX_X \in oper.rex)

IsOperand(oper, rm) ==
  /\ Encodes(oper)
  /\ \A c \in Bytes, at \in Nat, reg \in 0 .. 7, bits \in SUBSET Nat :
       IsReadBy(bits, oper) /\ StandsAt(c, at, emit_operand(reg, oper))
       => Operand(c, at + 1, RexOf(bits)) =
            ReadAs(reg + RexR(RexOf(bits)), reg, at + 1 + Len(oper.encoding), rm)

LEMMA EmittedOperand ==
  ASSUME NEW oper, Encodes(oper), NEW mod \in 0 .. 3, NEW rm \in 0 .. 7, oper.encoding[1] = Packed(mod, 0, rm),
         NEW reg \in 0 .. 7
  PROVE  /\ emit_operand(reg, oper) \in Bytes /\ Len(emit_operand(reg, oper)) = Len(oper.encoding)
         /\ emit_operand(reg, oper)[1] = Packed(mod, reg, rm)
         /\ \A k \in 2 .. Len(oper.encoding) : emit_operand(reg, oper)[k] = oper.encoding[k]
<1> DEFINE e == oper.encoding
<1>1. e \in Bytes /\ e # <<>>
  BY DEF Encodes
<1>2. TruncatedToByte(e[1] + 8 * reg) = Packed(mod, reg, rm)
  <2>1. e[1] + 8 * reg = Packed(mod, reg, rm)
    BY DEF Packed
  <2>2. Packed(mod, reg, rm) % 256 = Packed(mod, reg, rm)
    BY PackedFields
  <2>3. QED
    BY <2>1, <2>2 DEF TruncatedToByte
<1> DEFINE b == Packed(mod, reg, rm)
<1>3. emit_operand(reg, oper) = <<b>> \o Tail(e)
  BY <1>2 DEF emit_operand
<1>4. b \in Byte
  BY PackedFields
<1> HIDE DEF e, b
<1>5. /\ Tail(e) \in Bytes /\ Len(Tail(e)) = Len(e) - 1 /\ Len(e) \in Nat /\ Len(e) > 0
      /\ \A k \in 1 .. Len(e) - 1 : Tail(e)[k] = e[k + 1]
  BY <1>1 DEF Bytes
<1>6. <<b>> \in Bytes /\ Len(<<b>>) = 1 /\ <<b>>[1] = b
  BY <1>4 DEF Bytes
<1> DEFINE t == Tail(e)
           u == <<b>>
<1>7. u \o t \in Bytes /\ Len(u \o t) = 1 + Len(t) /\ (u \o t)[1] = u[1]
      /\ \A k \in 1 .. Len(t) : (u \o t)[1 + k] = t[k]
  <2>1. t \in Bytes /\ u \in Bytes /\ Len(u) = 1
    BY <1>5, <1>6
  <2> HIDE DEF t, u
  <2>2. QED
    <3>1. /\ u \o t \in Bytes /\ Len(u \o t) = Len(u) + Len(t)
          /\ \A k \in 1 .. Len(u) : (u \o t)[k] = u[k]
          /\ \A k \in 1 .. Len(t) : (u \o t)[Len(u) + k] = t[k]
      BY <2>1, Concatenated
    <3>2. 1 \in 1 .. Len(u)
      BY <2>1
    <3>3. QED
      BY <2>1, <3>1, <3>2
<1>8. ASSUME NEW k \in 2 .. Len(e) PROVE (u \o t)[k] = e[k]
  <2>1. k - 1 \in 1 .. Len(t) /\ 1 + (k - 1) = k /\ (k - 1) + 1 = k
    BY <1>5
  <2>2. (u \o t)[1 + (k - 1)] = t[k - 1] /\ t[k - 1] = e[(k - 1) + 1]
    BY <1>5, <1>7, <2>1
  <2>3. QED
    BY <2>1, <2>2
<1>9. Len(u \o t) = Len(e) /\ (u \o t)[1] = b
  BY <1>5, <1>6, <1>7
<1>10. QED
  BY <1>3, <1>7, <1>8, <1>9 DEF e, b

(* Where it stands.                                                        *)
HasModRm(oper, mod, rm) ==
  Encodes(oper) /\ mod \in 0 .. 3 /\ rm \in 0 .. 7 /\ oper.encoding[1] = Packed(mod, 0, rm)
StandsWith(c, at, oper, mod, reg, rm) ==
  /\ At(c, at + 1) = Packed(mod, reg, rm)
  /\ \A k \in 2 .. Len(oper.encoding) : At(c, at + k) = oper.encoding[k]

LEMMA OperandStands ==
  ASSUME NEW oper, NEW mod, NEW rm, HasModRm(oper, mod, rm),
         NEW reg \in 0 .. 7, NEW c, NEW at, StandsAt(c, at, emit_operand(reg, oper))
  PROVE  StandsWith(c, at, oper, mod, reg, rm)
<1>0. Encodes(oper) /\ mod \in 0 .. 3 /\ rm \in 0 .. 7 /\ oper.encoding[1] = Packed(mod, 0, rm)
  BY DEF HasModRm
<1>1. Len(oper.encoding) \in Nat /\ Len(oper.encoding) > 0
  BY <1>0 DEF Encodes, Bytes
<1>2. \A k \in 1 .. Len(oper.encoding) : At(c, at + k) = emit_operand(reg, oper)[k]
  BY <1>0, EmittedOperand DEF StandsAt
<1>3. 1 \in 1 .. Len(oper.encoding) /\ 2 .. Len(oper.encoding) \subseteq 1 .. Len(oper.encoding)
  BY <1>1
<1>4. /\ emit_operand(reg, oper)[1] = Packed(mod, reg, rm)
      /\ \A k \in 2 .. Len(oper.encoding) : emit_operand(reg, oper)[k] = oper.encoding[k]
  BY <1>0, EmittedOperand
<1>5. QED
  BY <1>2, <1>3, <1>4 DEF StandsWith

LEMMA RegisterOperand ==
  ASSUME NEW r \in 0 .. 15
  PROVE  IsOperand(asm_oper_init(r), Reg(r)) /\ asm_oper_init(r).rex = If(REX_B, r > 7)
<1> DEFINE oper == asm_oper_init(r)
<1>1. oper = [rex |-> If(REX_B, r > 7), encoding |-> <<192 + (r % 8)>>]
  BY DEF asm_oper_init, set_mod_rm
<1>2. Encodes(oper)
  <2>1. 0 \in Int
    OBVIOUS
  <2>2. QED
    BY <2>1, Addresses
<1> HIDE DEF oper
<1>3. r % 8 \in 0 .. 7 /\ r = (r % 8) + (IF r > 7 THEN 8 ELSE 0)
  OBVIOUS
<1>4. HasModRm(oper, 3, r % 8) /\ Len(oper.encoding) = 1
  BY <1>1, <1>2, <1>3 DEF Packed, HasModRm
<1>5. ASSUME NEW c \in Bytes, NEW at \in Nat, NEW reg \in 0 .. 7, NEW bits \in SUBSET Nat,
             IsReadBy(bits, oper), StandsAt(c, at, emit_operand(reg, oper))
      PROVE  Operand(c, at + 1, RexOf(bits)) =
               ReadAs(reg + RexR(RexOf(bits)), reg, at + 1 + Len(oper.encoding), Reg(r))
  <2>1. At(c, at + 1) = Packed(3, reg, r % 8)
    <3>1. StandsWith(c, at, oper, 3, reg, r % 8)
      BY <1>4, <1>5, OperandStands
    <3>2. QED
      BY <3>1 DEF StandsWith
  <2>2. RexB(RexOf(bits)) = IF r > 7 THEN 8 ELSE 0
    BY <1>1, <1>5, RexBits DEF IsReadBy, If
  <2>3. at + 1 \in Nat
    OBVIOUS
  <2>4. Operand(c, at + 1, RexOf(bits)) =
          ReadAs(reg + RexR(RexOf(bits)), reg, at + 1 + 1, Reg((r % 8) + RexB(RexOf(bits))))
    BY <1>3, <2>1, <2>3, RegisterRead
  <2>5. (r % 8) + RexB(RexOf(bits)) = r
    BY <1>3, <2>2
  <2>6. QED
    BY <1>4, <2>4, <2>5
<1>6. QED
  BY <1>1, <1>2, <1>5 DEF IsOperand, oper

-----------------------------------------------------------------------------
(* An address: its head is the modrm byte, with the sib byte that RSP and  *)
(* R12 take for a base, its tail the displacement.                         *)
HeadOf(mod, low) == IF low = 4 THEN Append(<<Packed(mod, 0, 4)>>, Packed(0, 4, 4)) ELSE <<Packed(mod, 0, low)>>
IsTail(mod, low, disp, tail) ==
  \/ mod = 0 /\ disp = 0 /\ low # 5 /\ tail = <<>>
  \/ mod = 1 /\ is8(disp) /\ tail = <<disp % 256>>
  \/ mod = 2 /\ tail = Int32(disp)
IsShape(oper, base, disp, mod, tail) ==
  /\ IsTail(mod, base % 8, disp, tail) /\ tail \in Bytes
  /\ oper = [rex |-> If(REX_B, base > 7), encoding |-> HeadOf(mod, base % 8) \o tail]

LEMMA HeadBytes ==
  ASSUME NEW mod \in 0 .. 3, NEW low \in 0 .. 7
  PROVE  /\ HeadOf(mod, low) \in Bytes /\ HeadOf(mod, low)[1] = Packed(mod, 0, low)
         /\ low = 4 => Len(HeadOf(mod, low)) = 2 /\ HeadOf(mod, low)[2] = Packed(0, 4, 4)
         /\ low # 4 => Len(HeadOf(mod, low)) = 1
<1>1. Packed(mod, 0, low) \in Byte /\ Packed(0, 4, 4) \in Byte /\ Packed(mod, 0, 4) \in Byte
  BY PackedFields
<1>2. QED
  BY <1>1 DEF HeadOf, Bytes

LEMMA SibIs ==
  ASSUME NEW r, NEW e, NEW scale, NEW index, NEW base
  PROVE  set_sib([rex |-> r, encoding |-> e], scale, index, base) =
           [rex |-> r \cup If(REX_B, base > 7) \cup If(REX_W, index > 7),
            encoding |-> Append(e, TruncatedToByte(64 * scale + 8 * (index % 8) + (base % 8)))]
BY DEF set_sib

LEMMA DispIs ==
  ASSUME NEW r, NEW e, NEW disp
  PROVE  /\ set_disp8([rex |-> r, encoding |-> e], disp) =
              [rex |-> r, encoding |-> Append(e, TruncatedToByte(disp))]
         /\ set_disp32([rex |-> r, encoding |-> e], disp) = [rex |-> r, encoding |-> e \o Int32(disp)]
<1> DEFINE longer == e \o Int32(disp)
           x == TruncatedToByte(disp)
<1>1. set_disp32([rex |-> r, encoding |-> e], disp) = [[rex |-> r, encoding |-> e] EXCEPT !.encoding = longer]
  BY DEF set_disp32
<1>2. set_disp8([rex |-> r, encoding |-> e], disp) = [[rex |-> r, encoding |-> e] EXCEPT !.encoding = Append(e, x)]
  BY DEF set_disp8
<1> HIDE DEF longer, x
<1>3. QED
  BY <1>1, <1>2 DEF longer, x

LEMMA AddressShape ==
  ASSUME NEW base \in 0 .. 15, NEW disp \in Int
  PROVE  \E mod \in 0 .. 2, tail \in Bytes : IsShape(asm_addr_init(base, disp), base, disp, mod, tail)
<1> DEFINE withSib(oper) == IF base % 8 = RSP THEN set_sib(oper, 0, RSP, base) ELSE oper
           start(mod) == withSib(set_mod_rm({}, mod, base))
           rex == If(REX_B, base > 7)
           low == base % 8
<1>1. low \in 0 .. 7
  OBVIOUS
<1>2. ASSUME NEW mod \in 0 .. 2
      PROVE  start(mod) = [rex |-> rex, encoding |-> HeadOf(mod, low)]
  <2>1. CASE low = 4
    <3>1. set_mod_rm({}, mod, base) =
            [rex |-> If(REX_B, base > 7 /\ ~(base = R12 /\ mod # 3)), encoding |-> <<64 * mod + low>>]
      BY DEF set_mod_rm
    <3>2. TruncatedToByte(64 * 0 + 8 * (RSP % 8) + low) = Packed(0, 4, 4)
      BY <2>1 DEF TruncatedToByte, RSP, Packed
    <3>3. 64 * mod + low = Packed(mod, 0, 4)
      BY <2>1 DEF Packed
    <3>4. If(REX_B, base > 7 /\ ~(base = R12 /\ mod # 3)) \cup rex \cup If(REX_W, RSP > 7) = rex
      BY DEF If, RSP
    <3>5. start(mod) = set_sib(set_mod_rm({}, mod, base), 0, RSP, base)
      BY <2>1 DEF RSP
    <3> DEFINE r == If(REX_B, base > 7 /\ ~(base = R12 /\ mod # 3))
               e == <<64 * mod + low>>
    <3> HIDE DEF start, r, e
    <3>6. start(mod) = set_sib([rex |-> r, encoding |-> e], 0, RSP, base)
      BY <3>1, <3>5 DEF r, e
    <3>7. start(mod) = [rex |-> r \cup rex \cup If(REX_W, RSP > 7),
                        encoding |-> Append(e, TruncatedToByte(64 * 0 + 8 * (RSP % 8) + low))]
      BY <3>6, SibIs
    <3>8. QED
      BY <2>1, <3>2, <3>3, <3>4, <3>7 DEF HeadOf, r, e
  <2>2. CASE low # 4
    <3>1. base # 12
      BY <2>2
    <3>2. start(mod) = set_mod_rm({}, mod, base)
      BY <2>2 DEF RSP
    <3>3. 64 * mod + low = Packed(mod, 0, low)
      BY DEF Packed
    <3>4. {} \cup If(REX_B, base > 7 /\ ~(base = R12 /\ mod # 3)) = rex
      BY <3>1 DEF If, R12
    <3>5. QED
      BY <2>2, <3>2, <3>3, <3>4 DEF set_mod_rm, HeadOf
  <2>3. QED
    BY <2>1, <2>2
<1>3. asm_addr_init(base, disp) =
        CASE NeedsNoDisp(base, disp)                 -> start(0)
          [] ~NeedsNoDisp(base, disp) /\ is8(disp)   -> set_disp8(start(1), disp)
          [] OTHER                                   -> set_disp32(start(2), disp)
  BY DEF asm_addr_init
<1> HIDE DEF start, rex
<1>4. CASE NeedsNoDisp(base, disp)
  <2>1. asm_addr_init(base, disp) = start(0)
    BY <1>3, <1>4
  <2> DEFINE h == HeadOf(0, low)
  <2>2. h \in Bytes
    BY <1>1, HeadBytes
  <2> HIDE DEF h
  <2>3. h \o <<>> = h /\ <<>> \in Bytes
    BY <2>2 DEF Bytes
  <2>4. start(0) = [rex |-> rex, encoding |-> h \o <<>>]
    BY <1>2, <2>3 DEF h
  <2>5. IsTail(0, low, disp, <<>>)
    BY <1>4 DEF IsTail, NeedsNoDisp, RBP
  <2>6. IsShape(asm_addr_init(base, disp), base, disp, 0, <<>>)
    BY <2>1, <2>3, <2>4, <2>5 DEF IsShape, h, rex
  <2>7. 0 \in 0 .. 2
    OBVIOUS
  <2>8. QED
    BY <2>3, <2>6, <2>7
<1>5. CASE ~NeedsNoDisp(base, disp) /\ is8(disp)
  <2>1. asm_addr_init(base, disp) = set_disp8(start(1), disp)
    BY <1>3, <1>5
  <2> DEFINE h == HeadOf(1, low)
             x == disp % 256
  <2>2. h \in Bytes
    BY <1>1, HeadBytes
  <2>3. x \in Byte
    BY <1>1 DEF Byte
  <2>4. IsTail(1, low, disp, <<x>>)
    BY <1>5 DEF IsTail
  <2>5. start(1) = [rex |-> rex, encoding |-> h] /\ TruncatedToByte(disp) = x
    BY <1>2 DEF TruncatedToByte
  <2> HIDE DEF h, x
  <2>6. Append(h, x) = h \o <<x>> /\ <<x>> \in Bytes
    BY <2>2, <2>3 DEF Bytes
  <2>7. set_disp8(start(1), disp) = [rex |-> rex, encoding |-> Append(h, x)]
    <3>1. set_disp8([rex |-> rex, encoding |-> h], disp) = [rex |-> rex, encoding |-> Append(h, TruncatedToByte(disp))]
      BY DispIs
    <3>2. QED
      BY <2>5, <3>1
  <2>8. IsShape(asm_addr_init(base, disp), base, disp, 1, <<x>>)
    BY <2>1, <2>4, <2>6, <2>7 DEF IsShape, h, rex
  <2>9. 1 \in 0 .. 2
    OBVIOUS
  <2>10. QED
    BY <2>6, <2>8, <2>9
<1>6. CASE ~NeedsNoDisp(base, disp) /\ ~is8(disp)
  <2>1. asm_addr_init(base, disp) = set_disp32(start(2), disp)
    BY <1>3, <1>6
  <2> DEFINE h == HeadOf(2, low)
             x == Int32(disp)
             longer == h \o x
  <2>2. x \in Bytes
    BY <1>1, BytesOfNumbers
  <2>3. IsTail(2, low, disp, x)
    BY DEF IsTail
  <2>4. start(2) = [rex |-> rex, encoding |-> h]
    BY <1>2
  <2> HIDE DEF h
  <2>6. set_disp32(start(2), disp) = [rex |-> rex, encoding |-> longer]
    <3>1. set_disp32([rex |-> rex, encoding |-> h], disp) = [rex |-> rex, encoding |-> longer]
      BY DispIs
    <3>2. QED
      BY <2>4, <3>1
  <2>7. IsShape(asm_addr_init(base, disp), base, disp, 2, x)
    BY <2>1, <2>2, <2>3, <2>6 DEF IsShape, longer, rex, h
  <2>8. 2 \in 0 .. 2
    OBVIOUS
  <2>9. QED
    BY <2>2, <2>7, <2>8
<1>7. QED
  BY <1>4, <1>5, <1>6

(* The displacement behind a place.                                        *)
LEMMA TailRead ==
  ASSUME NEW mod \in 0 .. 2, NEW low, NEW disp \in Int, NEW tail, IsTail(mod, low, disp, tail),
         NEW c, NEW at \in Nat, StandsAt(c, at, tail)
  PROVE  Displacement(c, at + 1, mod) = Kept(disp) /\ Len(tail) = Size(mod)
<1>1. CASE mod = 0
  <2>1. disp = 0 /\ Kept(disp) = disp
    BY <1>1, KeptWhole DEF IsTail, IsWord
  <2>2. QED
    BY <1>1, <2>1 DEF IsTail, Displacement, Size
<1>2. CASE mod = 1
  <2> DEFINE x == disp % 256
  <2>0. is8(disp) /\ tail = <<x>>
    BY <1>2 DEF IsTail
  <2>1. is8(disp) /\ tail = <<x>> /\ Kept(disp) = disp
    BY <2>0, KeptWhole DEF is8, IsWord
  <2> HIDE DEF x
  <2>2. Len(tail) = 1 /\ tail[1] = x
    BY <2>1
  <2>3. At(c, at + 1) = x
    BY <2>2 DEF StandsAt
  <2>4. Signed8(c, at + 1) = disp
    BY <2>1, <2>3, ShortRead DEF x
  <2>5. QED
    BY <1>2, <2>1, <2>2, <2>4 DEF Displacement, Size
<1>3. CASE mod = 2
  <2>1. tail = Int32(disp)
    BY <1>3 DEF IsTail
  <2>2. Len(tail) = 4
    BY <2>1, BytesOfNumbers
  <2>3. Signed32(c, at + 1) = Kept(disp)
    BY <2>1, WordRead
  <2>4. QED
    BY <1>3, <2>2, <2>3 DEF Displacement, Size
<1>4. QED
  BY <1>1, <1>2, <1>3

LEMMA AddressOperand ==
  ASSUME NEW base \in 0 .. 15, NEW disp \in Int
  PROVE  /\ IsOperand(asm_addr_init(base, disp), AtBase(base, Kept(disp)))
         /\ asm_addr_init(base, disp).rex = If(REX_B, base > 7)
<1> DEFINE oper == asm_addr_init(base, disp)
           low == base % 8
<1>1. Encodes(oper)
  BY Addresses
<1>2. PICK mod \in 0 .. 2, tail \in Bytes : IsShape(oper, base, disp, mod, tail)
  BY AddressShape
<1> DEFINE h == HeadOf(mod, low)
<1>3. low \in 0 .. 7 /\ base = low + (IF base > 7 THEN 8 ELSE 0) /\ mod \in 0 .. 3
  OBVIOUS
<1>4. /\ h \in Bytes /\ h[1] = Packed(mod, 0, low)
      /\ low = 4 => Len(h) = 2 /\ h[2] = Packed(0, 4, 4)
      /\ low # 4 => Len(h) = 1
  BY <1>3, HeadBytes
<1>5. oper = [rex |-> If(REX_B, base > 7), encoding |-> h \o tail] /\ IsTail(mod, low, disp, tail)
  BY <1>2 DEF IsShape
<1> HIDE DEF oper, h, low
<1>6. /\ Len(h) \in Nat /\ Len(tail) \in Nat /\ Len(h \o tail) = Len(h) + Len(tail)
      /\ \A k \in 1 .. Len(h) : (h \o tail)[k] = h[k]
      /\ \A k \in 1 .. Len(tail) : (h \o tail)[Len(h) + k] = tail[k]
  BY <1>4, Concatenated
<1>7. oper.encoding[1] = Packed(mod, 0, low) /\ oper.encoding = h \o tail
  BY <1>4, <1>5, <1>6
<1>8. ASSUME NEW c \in Bytes, NEW at \in Nat, NEW reg \in 0 .. 7, NEW bits \in SUBSET Nat,
             IsReadBy(bits, oper), StandsAt(c, at, emit_operand(reg, oper))
      PROVE  Operand(c, at + 1, RexOf(bits)) =
               ReadAs(reg + RexR(RexOf(bits)), reg, at + 1 + Len(oper.encoding), AtBase(base, Kept(disp)))
  <2> DEFINE rex == RexOf(bits)
  <2>1. /\ At(c, at + 1) = Packed(mod, reg, low)
        /\ \A k \in 2 .. Len(h \o tail) : At(c, at + k) = (h \o tail)[k]
    <3>1. /\ At(c, at + 1) = Packed(mod, reg, low)
          /\ \A k \in 2 .. Len(oper.encoding) : At(c, at + k) = oper.encoding[k]
      <4>1. HasModRm(oper, mod, low)
        BY <1>1, <1>3, <1>7 DEF HasModRm
      <4>2. StandsWith(c, at, oper, mod, reg, low)
        BY <1>8, <4>1, OperandStands
      <4>3. QED
        BY <4>2 DEF StandsWith
    <3>2. QED
      BY <1>7, <3>1
  <2>2. RexB(rex) = (IF base > 7 THEN 8 ELSE 0) /\ RexX(rex) = 0
    <3>1. REX_B \in bits <=> base > 7
      BY <1>5, <1>8 DEF IsReadBy, If
    <3>2. REX_X \notin bits
      BY <1>5, <1>8 DEF IsReadBy, If, REX_B, REX_X
    <3>3. QED
      BY <3>1, <3>2, RexBits
  <2> HIDE DEF rex
  <2>3. StandsAt(c, at + Len(h), tail)
    <3>1. ASSUME NEW k \in 1 .. Len(tail) PROVE At(c, at + Len(h) + k) = tail[k]
      <4>1. Len(h) + k \in 2 .. Len(h \o tail) /\ at + Len(h) + k = at + (Len(h) + k)
        BY <1>4, <1>6
      <4>2. At(c, at + (Len(h) + k)) = (h \o tail)[Len(h) + k]
        BY <2>1, <4>1
      <4>3. QED
        BY <1>6, <4>1, <4>2
    <3>2. QED
      BY <3>1 DEF StandsAt
  <2>4. Displacement(c, at + Len(h) + 1, mod) = Kept(disp) /\ Len(tail) = Size(mod)
    <3>1. at + Len(h) \in Nat
      BY <1>6
    <3>2. QED
      BY <1>5, <2>3, <3>1, TailRead
  <2>5. at + 1 \in Nat /\ Size(mod) \in Nat /\ Len(oper.encoding) = Len(h) + Size(mod)
    BY <1>6, <1>7, <2>4
  <2> DEFINE size == Size(mod)
             len == Len(oper.encoding)
  <2> HIDE DEF size, len
  <2>0. size \in Nat /\ len = Len(h) + size
    BY <2>5 DEF size, len
  <2>6. CASE low # 4
    <3>1. mod # 0 \/ low # 5
      BY <1>5 DEF IsTail
    <3>2. Operand(c, at + 1, rex) =
            ReadAs(reg + RexR(rex), reg, at + 1 + 1 + size,
                   AtBase(low + RexB(rex), Displacement(c, at + 1 + 1, mod)))
      <4>1. low \in 0 .. 7 /\ At(c, at + 1) = Packed(mod, reg, low) /\ at + 1 \in Nat
        BY <1>3, <2>1
      <4>2. QED
        BY <2>6, <3>1, <4>1, AddressRead DEF size
    <3>3. at + Len(h) + 1 = at + 1 + 1 /\ low + RexB(rex) = base
      BY <1>3, <1>4, <2>2, <2>6
    <3>4. at + 1 + 1 + size = at + 1 + len
      <4>1. Len(h) = 1
        BY <1>4, <2>6
      <4>2. len = 1 + size /\ size \in Nat
        BY <2>0, <4>1
      <4>3. QED
        BY <4>2
    <3>5. QED
      BY <2>4, <3>2, <3>3, <3>4 DEF rex, len
  <2>7. CASE low = 4
    <3>1. At(c, at + 1 + 1) = Packed(0, 4, 4)
      <4>1. 2 \in 2 .. Len(h \o tail) /\ at + 1 + 1 = at + 2 /\ 2 \in 1 .. Len(h)
        <5>1. Len(h) = 2
          BY <1>4, <2>7
        <5>2. QED
          BY <1>6, <5>1
      <4>2. At(c, at + 2) = (h \o tail)[2] /\ (h \o tail)[2] = h[2]
        BY <1>6, <2>1, <4>1
      <4>3. QED
        BY <1>4, <2>7, <4>1, <4>2
    <3>2. Operand(c, at + 1, rex) =
            ReadAs(reg + RexR(rex), reg, at + 1 + 2 + size,
                   AtBase(4 + RexB(rex), Displacement(c, at + 1 + 2, mod)))
      <4>1. At(c, at + 1) = Packed(mod, reg, 4) /\ RexX(rex) = 0 /\ at + 1 \in Nat
        BY <2>1, <2>2, <2>7
      <4>2. QED
        BY <3>1, <4>1, SibRead DEF size
    <3>3. at + Len(h) + 1 = at + 1 + 2 /\ 4 + RexB(rex) = base
      <4>1. Len(h) = 2
        BY <1>4, <2>7
      <4>2. QED
        BY <1>3, <2>2, <2>7, <4>1
    <3>4. at + 1 + 2 + size = at + 1 + len
      <4>1. Len(h) = 2
        BY <1>4, <2>7
      <4>2. len = 2 + size /\ size \in Nat
        BY <2>0, <4>1
      <4>3. QED
        BY <4>2
    <3>5. QED
      BY <2>4, <3>2, <3>3, <3>4 DEF rex, len
  <2>8. QED
    BY <2>6, <2>7
<1>9. IsOperand(oper, AtBase(base, Kept(disp)))
  BY <1>1, <1>8 DEF IsOperand
<1>10. QED
  BY <1>5, <1>9 DEF oper

-----------------------------------------------------------------------------
(* A scaled address, as it is read.                                        *)
ReadIndex(garbage, index) == (index % 8) + (IF REX_X \in garbage THEN 8 ELSE 0)
ReadScaled(garbage, index, scale, disp) ==
  LET n == ReadIndex(garbage, index)
  IN  Mem(NoRegister, IF n # 4 THEN n ELSE NoRegister, IF n # 4 THEN scale % 4 ELSE 0, disp)

LEMMA ScaledShape ==
  ASSUME NEW garbage \in SUBSET Nat, NEW index \in 0 .. 15, NEW scale \in Nat, NEW disp \in Int
  PROVE  asm_addr_init_scaled(garbage, index, scale, disp) =
           [rex |-> garbage \cup If(REX_W, index > 7),
            encoding |-> Append(<<Packed(0, 0, 4)>>, Packed(scale % 4, index % 8, 5)) \o Int32(disp)]
<1> DEFINE r == garbage \cup If(REX_W, index > 7)
           e == <<Packed(0, 0, 4)>>
           low == index % 8
           high == scale % 4
<1>1. set_mod_rm(garbage, 0, RSP) = [rex |-> garbage, encoding |-> e]
  <2>1. garbage \cup If(REX_B, RSP > 7 /\ ~(RSP = R12 /\ 0 # 3)) = garbage
    BY DEF If, RSP
  <2>2. 64 * 0 + (RSP % 8) = Packed(0, 0, 4)
    BY DEF Packed, RSP
  <2>3. QED
    BY <2>1, <2>2 DEF set_mod_rm
<1>2. TruncatedToByte(64 * scale + 8 * (index % 8) + (RBP % 8)) = Packed(high, low, 5)
  <2>1. high \in 0 .. 3 /\ low \in 0 .. 7
    OBVIOUS
  <2>2. PICK q \in Int : scale = 4 * q + high
    <3>1. scale \div 4 \in Int /\ scale = 4 * (scale \div 4) + high
      OBVIOUS
    <3>2. QED
      BY <3>1
  <2> HIDE DEF high, low
  <2>3. RBP % 8 = 5 /\ low = index % 8
    BY DEF RBP, low
  <2>4. 64 * scale + 8 * low + 5 = 256 * q + Packed(high, low, 5)
    BY <2>1, <2>2 DEF Packed
  <2>5. Packed(high, low, 5) \in 0 .. 255
    BY <2>1 DEF Packed
  <2>6. (256 * q + Packed(high, low, 5)) % 256 = Packed(high, low, 5)
    BY <2>2, <2>5
  <2>7. QED
    BY <2>3, <2>4, <2>6 DEF TruncatedToByte
<1>3. r \cup If(REX_W, index > 7) = r /\ garbage \cup If(REX_B, RBP > 7) \cup If(REX_W, index > 7) = r
  BY DEF If, RBP
<1> HIDE DEF r, e, high, low
<1>4. set_sib(set_mod_rm(garbage, 0, RSP), scale, index, RBP) = [rex |-> r, encoding |-> Append(e, Packed(high, low, 5))]
  <2>1. set_sib([rex |-> garbage, encoding |-> e], scale, index, RBP) =
          [rex |-> garbage \cup If(REX_B, RBP > 7) \cup If(REX_W, index > 7),
           encoding |-> Append(e, TruncatedToByte(64 * scale + 8 * (index % 8) + (RBP % 8)))]
    BY SibIs
  <2>2. QED
    BY <1>1, <1>2, <1>3, <2>1
<1>5. asm_addr_init_scaled(garbage, index, scale, disp) =
        [rex |-> r, encoding |-> Append(e, Packed(high, low, 5)) \o Int32(disp)]
  <2> DEFINE h == Append(e, Packed(high, low, 5))
  <2>1. set_disp32([rex |-> r, encoding |-> h], disp) = [rex |-> r, encoding |-> h \o Int32(disp)]
    BY DispIs
  <2>2. QED
    BY <1>4, <2>1 DEF asm_addr_init_scaled
<1>6. QED
  BY <1>5 DEF r, e, high, low

LEMMA ScaledOperand ==
  ASSUME NEW garbage \in SUBSET Nat, NEW index \in 0 .. 15, NEW scale \in Nat, NEW disp \in Int
  PROVE  LET oper == asm_addr_init_scaled(garbage, index, scale, disp)
         IN  /\ IsOperand(oper, ReadScaled(garbage, index, scale, Kept(disp)))
             /\ oper.rex = garbage \cup If(REX_W, index > 7)
<1> DEFINE oper == asm_addr_init_scaled(garbage, index, scale, disp)
           rm == ReadScaled(garbage, index, scale, Kept(disp))
           low == index % 8
           high == scale % 4
           h == Append(<<Packed(0, 0, 4)>>, Packed(high, low, 5))
           tail == Int32(disp)
           rex == garbage \cup If(REX_W, index > 7)
<1>1. low \in 0 .. 7 /\ high \in 0 .. 3
  OBVIOUS
<1>2. Encodes(oper)
  BY <1>1, ScaledAddresses
<1>3. oper = [rex |-> rex, encoding |-> h \o tail]
  BY <1>1, ScaledShape
<1>4. h \in Bytes /\ Len(h) = 2 /\ h[1] = Packed(0, 0, 4) /\ h[2] = Packed(high, low, 5)
  <2> DEFINE x == Packed(0, 0, 4)
             y == Packed(high, low, 5)
  <2>1. x \in Byte /\ y \in Byte
    BY <1>1, PackedFields
  <2> HIDE DEF x, y
  <2>2. LET s == Append(<<x>>, y) IN s \in Bytes /\ Len(s) = 2 /\ s[1] = x /\ s[2] = y
    BY <2>1 DEF Bytes
  <2>3. QED
    BY <2>2 DEF x, y
<1>5. tail \in Bytes /\ Len(tail) = 4
  BY <1>1, BytesOfNumbers
<1>6. REX_X \in rex <=> REX_X \in garbage
  BY DEF If, REX_X, REX_W
<1> HIDE DEF oper, low, high, h, tail, rex
<1>7. /\ Len(h \o tail) = 6 /\ (h \o tail)[1] = h[1] /\ (h \o tail)[2] = h[2]
      /\ \A k \in 1 .. 4 : (h \o tail)[2 + k] = tail[k]
  <2>1. /\ Len(h \o tail) = Len(h) + Len(tail)
        /\ \A k \in 1 .. Len(h) : (h \o tail)[k] = h[k]
        /\ \A k \in 1 .. Len(tail) : (h \o tail)[Len(h) + k] = tail[k]
    BY <1>4, <1>5, Concatenated
  <2>2. 1 \in 1 .. Len(h) /\ 2 \in 1 .. Len(h)
    BY <1>4
  <2>3. QED
    BY <1>4, <1>5, <2>1, <2>2
<1>8. HasModRm(oper, 0, 4) /\ oper.encoding = h \o tail
  BY <1>2, <1>3, <1>4, <1>7 DEF HasModRm
<1>9. ASSUME NEW c \in Bytes, NEW at \in Nat, NEW reg \in 0 .. 7, NEW bits \in SUBSET Nat,
             IsReadBy(bits, oper), StandsAt(c, at, emit_operand(reg, oper))
      PROVE  Operand(c, at + 1, RexOf(bits)) =
               ReadAs(reg + RexR(RexOf(bits)), reg, at + 1 + Len(oper.encoding), rm)
  <2> DEFINE byte == RexOf(bits)
             n == ReadIndex(garbage, index)
  <2>1. StandsWith(c, at, oper, 0, reg, 4)
    BY <1>8, <1>9, OperandStands
  <2>2. At(c, at + 1) = Packed(0, reg, 4) /\ \A k \in 2 .. 6 : At(c, at + k) = (h \o tail)[k]
    BY <1>7, <1>8, <2>1 DEF StandsWith
  <2>3. At(c, at + 2) = Packed(high, low, 5)
    <3>1. 2 \in 2 .. 6
      OBVIOUS
    <3>2. QED
      BY <1>4, <1>7, <2>2, <3>1
  <2>4. StandsAt(c, at + 2, tail)
    <3>1. ASSUME NEW k \in 1 .. 4 PROVE At(c, at + 2 + k) = tail[k]
      <4>1. 2 + k \in 2 .. 6 /\ at + 2 + k = at + (2 + k)
        OBVIOUS
      <4>2. At(c, at + (2 + k)) = (h \o tail)[2 + k]
        BY <2>2, <4>1
      <4>3. QED
        BY <1>7, <4>1, <4>2
    <3>2. QED
      BY <1>5, <3>1 DEF StandsAt
  <2>5. Signed32(c, at + 2 + 1) = Kept(disp)
    <3>1. at + 2 \in Nat
      OBVIOUS
    <3>2. QED
      BY <2>4, <3>1, WordRead DEF tail
  <2>6. n = low + RexX(byte) /\ n \in Int
    <3>1. REX_X \in bits <=> REX_X \in garbage
      BY <1>3, <1>6, <1>9 DEF IsReadBy
    <3>2. RexX(byte) = IF REX_X \in garbage THEN 8 ELSE 0
      BY <3>1, RexBits
    <3>3. QED
      BY <1>1, <3>2 DEF ReadIndex, low
  <2>7. PICK i \in Nat : i = at + 1
    OBVIOUS
  <2>8. At(c, i) = Packed(0, reg, 4) /\ At(c, i + 1) = Packed(high, low, 5)
    <3>1. i + 1 = at + 2
      BY <2>7
    <3>2. QED
      BY <2>2, <2>3, <2>7, <3>1
  <2> HIDE DEF byte, n
  <2>9. Operand(c, i, byte) =
          ReadAs(reg + RexR(byte), reg, i + 6,
                 Mem(NoRegister, IF n # 4 THEN n ELSE NoRegister, IF n # 4 THEN high ELSE 0, Signed32(c, i + 2)))
    BY <1>1, <2>6, <2>8, ScaledRead
  <2>10. Signed32(c, i + 2) = Kept(disp) /\ i + 6 = at + 1 + Len(oper.encoding)
    <3>1. i + 2 = at + 2 + 1 /\ i + 6 = at + 1 + 6
      BY <2>7
    <3>2. QED
      BY <1>7, <1>8, <2>5, <3>1
  <2>11. Mem(NoRegister, IF n # 4 THEN n ELSE NoRegister, IF n # 4 THEN high ELSE 0, Kept(disp)) = rm
    BY DEF ReadScaled, n, high
  <2>12. QED
    BY <2>7, <2>9, <2>10, <2>11 DEF byte
<1>10. IsOperand(oper, rm)
  BY <1>2, <1>9 DEF IsOperand
<1>11. QED
  BY <1>3, <1>10 DEF oper, rex

-----------------------------------------------------------------------------
(* Where the opcode is, behind the rex byte there may be.                  *)
IsPlain(bits) == bits \in SUBSET Nat /\ 4 \notin bits /\ 5 \notin bits /\ 7 \notin bits

LEMMA RexIsByte ==
  ASSUME NEW bits, IsPlain(bits)
  PROVE  /\ bits = {} => RexByte(bits) = <<>> /\ Len(RexByte(bits)) = 0
         /\ bits # {} => RexByte(bits) = <<RexOf(bits)>> /\ Len(RexByte(bits)) = 1
BY RexIs DEF IsPlain, RexByte

LEMMA NoRex == RexOf({}) = 64
BY DEF RexOf, Weight

IsOpcode1(b) == b \in Byte /\ b # 242 /\ ~IsRex(b)

LEMMA PrefixRead ==
  ASSUME NEW c, NEW at \in Nat, NEW bits, IsPlain(bits), StandsAt(c, at, RexByte(bits)),
         NEW b, IsOpcode1(b), NEW o, o = at + Len(RexByte(bits)) + 1, At(c, o) = b
  PROVE  /\ o \in Nat
         /\ Read(c, at + 1) =
              ReadGeneral(c, o, RexOf(bits), Operand(c, IF b = 15 THEN o + 2 ELSE o + 1, RexOf(bits)))
<1>1. CASE bits = {}
  <2>1. o = at + 1
    BY <1>1, RexIsByte
  <2>2. Read(c, o) = ReadGeneral(c, o, 64, Operand(c, IF b = 15 THEN o + 2 ELSE o + 1, 64))
    BY <1>1 DEF Read, IsOpcode1
  <2>3. QED
    BY <1>1, <2>1, <2>2, NoRex
<1>2. CASE bits # {}
  <2> DEFINE byte == RexOf(bits)
  <2>1. byte \in 64 .. 79 /\ IsRex(byte)
    BY RexBits
  <2>2. RexByte(bits) = <<byte>> /\ Len(RexByte(bits)) = 1
    BY <1>2, RexIsByte
  <2> HIDE DEF byte
  <2>3. o = at + 2 /\ o = at + 1 + 1
    BY <2>2
  <2>4. At(c, at + 1) = byte
    BY <2>2 DEF StandsAt
  <2>5. PICK i \in Nat : i = at + 1
    OBVIOUS
  <2>6. o = i + 1 /\ At(c, i) = byte
    BY <2>3, <2>4, <2>5
  <2>7. byte # 242
    BY <2>1
  <2>8. Read(c, i) = ReadGeneral(c, o, byte, Operand(c, IF b = 15 THEN o + 2 ELSE o + 1, byte))
    BY <2>1, <2>6, <2>7 DEF Read
  <2>9. QED
    BY <2>3, <2>5, <2>8 DEF byte
<1>3. QED
  BY <1>1, <1>2

LEMMA SsePrefixRead ==
  ASSUME NEW c, NEW at \in Nat, At(c, at + 1) = 242, NEW bits, IsPlain(bits), StandsAt(c, at + 1, RexByte(bits)),
         NEW o, o = at + 1 + Len(RexByte(bits)) + 1, At(c, o) = 15
  PROVE  /\ o \in Nat
         /\ Read(c, at + 1) = ReadSse(c, At(c, o + 1), Operand(c, o + 2, RexOf(bits)))
<1>0. PICK i \in Nat : i = at + 1
  OBVIOUS
<1>1. CASE bits = {}
  <2>1. o = i + 1
    BY <1>0, <1>1, RexIsByte
  <2>2. ~IsRex(15) /\ At(c, i) = 242
    BY <1>0 DEF IsRex
  <2>3. Read(c, i) = ReadSse(c, At(c, o + 1), Operand(c, o + 2, 64))
    BY <2>1, <2>2 DEF Read
  <2>4. QED
    BY <1>0, <1>1, <2>1, <2>3, NoRex
<1>2. CASE bits # {}
  <2> DEFINE byte == RexOf(bits)
  <2>1. byte \in 64 .. 79 /\ IsRex(byte)
    BY RexBits
  <2>2. RexByte(bits) = <<byte>> /\ Len(RexByte(bits)) = 1
    BY <1>2, RexIsByte
  <2> HIDE DEF byte
  <2>3. o = (i + 1) + 1
    BY <1>0, <2>2
  <2>4. At(c, i + 1) = byte /\ At(c, i) = 242
    BY <1>0, <2>2 DEF StandsAt
  <2>5. Read(c, i) = ReadSse(c, At(c, o + 1), Operand(c, o + 2, byte))
    BY <2>1, <2>3, <2>4 DEF Read
  <2>6. QED
    BY <1>0, <2>3, <2>5 DEF byte
<1>3. QED
  BY <1>1, <1>2

-----------------------------------------------------------------------------
(* An instruction with an operand: what is fetched, and what it says.      *)
IsCode(opcode2) ==
  /\ opcode2 \in Bytes /\ Len(opcode2) \in 1 .. 2 /\ IsOpcode1(opcode2[1])
  /\ opcode2[1] = 15 <=> Len(opcode2) = 2

IsFetched(c, at, w, opcode, wide, m) ==
  \E o \in Nat, rex \in Nat :
    /\ Read(c, at + 1) = ReadGeneral(c, o, rex, m)
    /\ At(c, o) = opcode[1] /\ (Len(opcode) = 2 => At(c, o + 1) = opcode[2])
    /\ RexW(rex) <=> wide
    /\ m.end = at + Len(w) + 1

RegIn(reg, bits) == (reg % 8) + (IF REX_R \in bits THEN 8 ELSE 0)
AllBits(rex, reg, oper) == rex \cup If(REX_R, reg > 7) \cup oper.rex

LEMMA OperandLength ==
  ASSUME NEW oper, Encodes(oper), NEW reg \in 0 .. 7
  PROVE  emit_operand(reg, oper) \in Bytes /\ Len(emit_operand(reg, oper)) = Len(oper.encoding)
<1> DEFINE e == oper.encoding
           b == TruncatedToByte(e[1] + 8 * reg)
<1>1. e \in Bytes /\ e # <<>>
  BY DEF Encodes
<1>2. e[1] \in Int
  <2>1. e[1] \in Byte
    BY <1>1 DEF Bytes
  <2>2. QED
    BY <2>1 DEF Byte
<1>3. b \in Byte
  BY <1>2, Truncated
<1> HIDE DEF e, b
<1>4. <<b>> \in Bytes /\ Len(<<b>>) = 1 /\ Tail(e) \in Bytes /\ Len(Tail(e)) = Len(e) - 1 /\ Len(e) \in Nat
  BY <1>1, <1>3 DEF Bytes
<1>5. Len(<<b>> \o Tail(e)) = Len(<<b>>) + Len(Tail(e)) /\ <<b>> \o Tail(e) \in Bytes
  BY <1>4, Concatenated
<1>6. QED
  BY <1>4, <1>5 DEF emit_operand, e, b

LEMMA Fetched ==
  ASSUME NEW oper, NEW rm, IsOperand(oper, rm), NEW reg \in 0 .. 15, NEW rex, NEW opcode, IsCode(opcode),
         NEW bits, bits = AllBits(rex, reg, oper), IsPlain(bits), REX_B \notin rex, REX_X \notin rex,
         NEW c \in Bytes, NEW at \in Nat, NEW w, w = WithOperand(rex, opcode, reg, oper), StandsAt(c, at, w)
  PROVE  /\ IsFetched(c, at, w, opcode, REX_W \in bits, ReadAs(RegIn(reg, bits), reg % 8, at + Len(w) + 1, rm))
         /\ w \in Bytes /\ Len(w) > 0
<1> DEFINE p == RexByte(bits)
           r == reg % 8
           q == emit_operand(r, oper)
           o == at + Len(p) + 1
           byte == RexOf(bits)
<1>1. r \in 0 .. 7 /\ Encodes(oper)
  BY DEF IsOperand
<1>2. w = (p \o opcode) \o q
  BY DEF WithOperand, emit_operand_rex, AllBits
<1>3. p \in Bytes /\ opcode \in Bytes /\ q \in Bytes /\ Len(q) = Len(oper.encoding)
  BY <1>1, RexBytes, OperandLength DEF IsCode
<1> DEFINE v == p \o opcode
           a == at + (Len(p) + Len(opcode))
<1> HIDE DEF p, q, r
<1>4. /\ p \o opcode \in Bytes /\ Len(p \o opcode) = Len(p) + Len(opcode) /\ Len(p) \in Nat
      /\ Len(opcode) \in 1 .. 2 /\ Len(q) \in Nat
  BY <1>3, Concatenated DEF IsCode
<1>5. w \in Bytes /\ Len(w) = Len(p) + Len(opcode) + Len(q)
  <2> HIDE DEF v
  <2>1. w = v \o q /\ v \in Bytes /\ Len(v) = Len(p) + Len(opcode)
    BY <1>2, <1>4 DEF v
  <2>2. w \in Bytes /\ Len(w) = Len(v) + Len(q)
    BY <1>3, <2>1, LengthsAdd
  <2>3. QED
    BY <2>1, <2>2
<1>6. StandsAt(c, at, v) /\ StandsAt(c, a, q)
  <2> HIDE DEF v
  <2>1. w = v \o q /\ v \in Bytes /\ Len(v) = Len(p) + Len(opcode)
    BY <1>2, <1>4 DEF v
  <2>2. QED
    BY <1>3, <2>1, StandsApart
<1>7. StandsAt(c, at, p) /\ StandsAt(c, at + Len(p), opcode)
  BY <1>3, <1>6, StandsApart
<1>8. At(c, o) = opcode[1] /\ (Len(opcode) = 2 => At(c, o + 1) = opcode[2])
  <2>1. \A k \in 1 .. Len(opcode) : At(c, at + Len(p) + k) = opcode[k]
    BY <1>7 DEF StandsAt
  <2>2. 1 \in 1 .. Len(opcode) /\ (Len(opcode) = 2 => 2 \in 1 .. Len(opcode)) /\ at + Len(p) + 2 = o + 1
    BY <1>4
  <2>3. QED
    BY <2>1, <2>2
<1>9. IsOpcode1(opcode[1]) /\ (opcode[1] = 15 <=> Len(opcode) = 2)
  BY DEF IsCode
<1> DEFINE i == IF opcode[1] = 15 THEN o + 2 ELSE o + 1
<1>10. o \in Nat /\ Read(c, at + 1) = ReadGeneral(c, o, byte, Operand(c, i, byte))
  BY <1>7, <1>8, <1>9, PrefixRead DEF p
<1>11. i = a + 1 /\ a \in Nat
  <2>1. Len(p) \in Nat /\ Len(opcode) \in 1 .. 2 /\ (opcode[1] = 15 <=> Len(opcode) = 2)
    BY <1>4, <1>9
  <2>2. CASE Len(opcode) = 2
    BY <2>1, <2>2
  <2>3. CASE Len(opcode) = 1
    BY <2>1, <2>3
  <2>4. QED
    BY <2>1, <2>2, <2>3
<1>12. bits \in SUBSET Nat /\ IsReadBy(bits, oper)
  BY DEF IsPlain, IsReadBy, AllBits, If, REX_B, REX_X, REX_R
<1>13. Operand(c, i, byte) = ReadAs(r + RexR(byte), r, i + Len(oper.encoding), rm)
  <2> HIDE DEF a, i
  <2>1. StandsAt(c, a, emit_operand(r, oper)) /\ a \in Nat
    BY <1>6, <1>11 DEF q
  <2>2. Operand(c, a + 1, byte) = ReadAs(r + RexR(byte), r, a + 1 + Len(oper.encoding), rm)
    BY <1>1, <1>12, <2>1 DEF IsOperand
  <2>3. QED
    BY <1>11, <2>2
<1>14. r + RexR(byte) = RegIn(reg, bits) /\ i + Len(oper.encoding) = at + Len(w) + 1
  <2>1. i + Len(oper.encoding) = at + Len(w) + 1
    <3> HIDE DEF i
    <3>1. i = at + (Len(p) + Len(opcode)) + 1 /\ Len(oper.encoding) = Len(q) /\ Len(w) = Len(p) + Len(opcode) + Len(q)
      BY <1>3, <1>5, <1>11
    <3>2. Len(p) \in Nat /\ Len(opcode) \in Nat /\ Len(q) \in Nat
      BY <1>4
    <3>3. QED
      BY <3>1, <3>2
  <2>2. r + RexR(byte) = RegIn(reg, bits)
    BY RexBits DEF RegIn, r
  <2>3. QED
    BY <2>1, <2>2
<1>15. byte \in Nat /\ (RexW(byte) <=> REX_W \in bits)
  BY RexBits
<1> HIDE DEF o, byte, i
<1> DEFINE m == ReadAs(RegIn(reg, bits), reg % 8, at + Len(w) + 1, rm)
<1>16. Read(c, at + 1) = ReadGeneral(c, o, byte, m) /\ m.end = at + Len(w) + 1
  BY <1>10, <1>13, <1>14 DEF r, ReadAs
<1> HIDE DEF m
<1>17. IsFetched(c, at, w, opcode, REX_W \in bits, m)
  BY <1>8, <1>10, <1>15, <1>16 DEF IsFetched
<1>18. Len(w) > 0
  <2>1. Len(p) \in Nat /\ Len(opcode) \in 1 .. 2 /\ Len(q) \in Nat
    BY <1>4
  <2>2. QED
    BY <1>5, <2>1
<1>19. QED
  BY <1>5, <1>17, <1>18 DEF m

-----------------------------------------------------------------------------
(* What instructions of quadwords say, and others.                         *)
LEMMA Tables ==
  /\ DOMAIN FromRegister = {1, 41, 133, 137} /\ DOMAIN ToRegister = {3, 43, 59, 139}
  /\ FromRegister[1] = "add" /\ FromRegister[41] = "sub" /\ FromRegister[133] = "test" /\ FromRegister[137] = "mov"
  /\ ToRegister[3] = "add" /\ ToRegister[43] = "sub" /\ ToRegister[59] = "cmp" /\ ToRegister[139] = "mov"
  /\ DOMAIN ByExtension = {0, 5, 7} /\ {5 + 8 * x : x \in DOMAIN ByExtension} = {5, 45, 61}
BY DEF FromRegister, ToRegister, ByExtension

LEMMA WideFrom ==
  ASSUME NEW c, NEW o \in Nat, NEW rex, RexW(rex), NEW m, NEW opcode \in {1, 41, 133, 137}, At(c, o) = opcode
  PROVE  ReadGeneral(c, o, rex, m) = Decoded(FromRegister[opcode], m.rm, Reg(m.reg), m.end)
<1>1. opcode \in DOMAIN FromRegister /\ opcode \notin DOMAIN ToRegister /\ opcode \notin {5 + 8 * x : x \in DOMAIN ByExtension}
  BY Tables
<1>2. <<opcode, m.ext>> \notin DOMAIN OneOperand
  BY OneOperands
<1>3. QED
  BY <1>1, <1>2 DEF ReadGeneral

LEMMA WideTo ==
  ASSUME NEW c, NEW o \in Nat, NEW rex, RexW(rex), NEW m, NEW opcode \in {3, 43, 59, 139}, At(c, o) = opcode
  PROVE  ReadGeneral(c, o, rex, m) = Decoded(ToRegister[opcode], Reg(m.reg), m.rm, m.end)
<1>1. opcode \notin DOMAIN FromRegister /\ opcode \in DOMAIN ToRegister /\ opcode \notin {5 + 8 * x : x \in DOMAIN ByExtension}
  BY Tables
<1>2. <<opcode, m.ext>> \notin DOMAIN OneOperand
  BY OneOperands
<1>3. QED
  BY <1>1, <1>2 DEF ReadGeneral

LEMMA WideMul ==
  ASSUME NEW c, NEW o \in Nat, NEW rex, RexW(rex), NEW m, At(c, o) = 15, At(c, o + 1) = 175
  PROVE  ReadGeneral(c, o, rex, m) = Decoded("mul", Reg(m.reg), m.rm, m.end)
<1>1. 15 \notin DOMAIN FromRegister /\ 15 \notin DOMAIN ToRegister /\ 15 \notin {5 + 8 * x : x \in DOMAIN ByExtension}
  BY Tables
<1>2. <<15, m.ext>> \notin DOMAIN OneOperand
  BY OneOperands
<1>3. QED
  BY <1>1, <1>2 DEF ReadGeneral

LEMMA WideLoad ==
  ASSUME NEW c, NEW o \in Nat, NEW rex, RexW(rex), NEW m, NEW opcode \in 184 .. 191, At(c, o) = opcode
  PROVE  ReadGeneral(c, o, rex, m) = Decoded("mov", Reg((opcode % 8) + RexB(rex)), Imm(Signed64(c, o + 1)), o + 9)
<1>1. opcode \notin DOMAIN FromRegister /\ opcode \notin DOMAIN ToRegister /\ opcode \notin {5 + 8 * x : x \in DOMAIN ByExtension}
  BY Tables
<1>2. <<opcode, m.ext>> \notin DOMAIN OneOperand
  BY OneOperands
<1>3. QED
  BY <1>1, <1>2 DEF ReadGeneral

(* Without the bit the first arms are closed.                              *)
LEMMA NarrowOne ==
  ASSUME NEW c, NEW o \in Nat, NEW rex, ~RexW(rex), NEW m,
         NEW opcode \in {143, 255}, At(c, o) = opcode, NEW ext, m.ext = ext, <<opcode, ext>> \in DOMAIN OneOperand
  PROVE  ReadGeneral(c, o, rex, m) = Decoded(OneOperand[<<opcode, ext>>], m.rm, None, m.end)
BY DEF ReadGeneral

LEMMA OneOperandIs ==
  /\ <<255, 2>> \in DOMAIN OneOperand /\ OneOperand[<<255, 2>>] = "call"
  /\ <<255, 4>> \in DOMAIN OneOperand /\ OneOperand[<<255, 4>>] = "jmp"
  /\ <<255, 6>> \in DOMAIN OneOperand /\ OneOperand[<<255, 6>>] = "push"
  /\ <<143, 0>> \in DOMAIN OneOperand /\ OneOperand[<<143, 0>>] = "pop"
BY DEF OneOperand

LEMMA NarrowOthers ==
  ASSUME NEW c, NEW o \in Nat, NEW rex, ~RexW(rex), NEW m, NEW opcode, At(c, o) = opcode
  PROVE  LET read == ReadGeneral(c, o, rex, m)
         IN  /\ opcode \in 80 .. 87 => read = Decoded("push", Reg((opcode % 8) + RexB(rex)), None, o + 1)
             /\ opcode \in 88 .. 95 => read = Decoded("pop", Reg((opcode % 8) + RexB(rex)), None, o + 1)
             /\ opcode = 106 => read = Decoded("push", Imm(Signed8(c, o + 1)), None, o + 2)
             /\ opcode = 195 => read = Decoded("ret", None, None, o + 1)
<1>1. opcode \notin {255, 143} => <<opcode, m.ext>> \notin DOMAIN OneOperand
  BY OneOperands
<1>2. opcode \in 80 .. 87 => ReadGeneral(c, o, rex, m) = Decoded("push", Reg((opcode % 8) + RexB(rex)), None, o + 1)
  BY <1>1 DEF ReadGeneral
<1>3. opcode \in 88 .. 95 => ReadGeneral(c, o, rex, m) = Decoded("pop", Reg((opcode % 8) + RexB(rex)), None, o + 1)
  BY <1>1 DEF ReadGeneral
<1>4. opcode = 106 => ReadGeneral(c, o, rex, m) = Decoded("push", Imm(Signed8(c, o + 1)), None, o + 2)
  BY <1>1 DEF ReadGeneral
<1>5. opcode = 195 => ReadGeneral(c, o, rex, m) = Decoded("ret", None, None, o + 1)
  BY <1>1 DEF ReadGeneral
<1>6. QED
  BY <1>2, <1>3, <1>4, <1>5

-----------------------------------------------------------------------------
(* Bytes that are one instruction, wherever they stand.                    *)
IsReadAs(w, op, dst, src) ==
  /\ w \in Bytes /\ Len(w) > 0
  /\ \A c \in Bytes, at \in Nat : StandsAt(c, at, w) => Read(c, at + 1) = Decoded(op, dst, src, at + Len(w) + 1)

(* A register or an address: of the bits only that of the base is set.     *)
IsSimple(oper, rm) == IsOperand(oper, rm) /\ oper.rex \subseteq {REX_B}

LEMMA SimpleOperands ==
  /\ \A r \in 0 .. 15 : IsSimple(asm_oper_init(r), Reg(r))
  /\ \A b \in 0 .. 15, n \in Int : IsSimple(asm_addr_init(b, n), AtBase(b, Kept(n)))
<1>1. ASSUME NEW r \in 0 .. 15
      PROVE  IsSimple(asm_oper_init(r), Reg(r))
  BY RegisterOperand DEF IsSimple, If
<1>2. ASSUME NEW b \in 0 .. 15, NEW n \in Int
      PROVE  IsSimple(asm_addr_init(b, n), AtBase(b, Kept(n)))
  <2> DEFINE oper == asm_addr_init(b, n)
  <2>1. IsOperand(oper, AtBase(b, Kept(n))) /\ oper.rex = If(REX_B, b > 7)
    BY AddressOperand
  <2> HIDE DEF oper
  <2>2. IsSimple(oper, AtBase(b, Kept(n)))
    BY <2>1 DEF IsSimple, If
  <2>3. QED
    BY <2>2 DEF oper
<1>3. QED
  BY <1>1, <1>2

(* The parts of it, with the register in its place.                        *)
LEMMA SimpleFetched ==
  ASSUME NEW oper, NEW rm, IsSimple(oper, rm), NEW reg \in 0 .. 15, NEW rex, rex \in {{}, {REX_W}},
         NEW opcode, IsCode(opcode), NEW c \in Bytes, NEW at \in Nat, NEW w, w = WithOperand(rex, opcode, reg, oper),
         StandsAt(c, at, w)
  PROVE  IsFetched(c, at, w, opcode, rex = {REX_W}, ReadAs(reg, reg % 8, at + Len(w) + 1, rm))
<1> DEFINE bits == AllBits(rex, reg, oper)
<1>1. /\ bits \in SUBSET Nat /\ 4 \notin bits /\ 5 \notin bits /\ 7 \notin bits
      /\ REX_B \notin rex /\ REX_X \notin rex /\ (REX_R \in bits <=> reg > 7) /\ (REX_W \in bits <=> rex = {REX_W})
  BY DEF IsSimple, AllBits, If, REX_B, REX_X, REX_R, REX_W
<1>2. IsPlain(bits) /\ IsOperand(oper, rm)
  BY <1>1 DEF IsPlain, IsSimple
<1> HIDE DEF bits
<1>3. RegIn(reg, bits) = reg
  BY <1>1 DEF RegIn
<1>4. bits = AllBits(rex, reg, oper)
  BY DEF bits
<1>5. IsFetched(c, at, w, opcode, REX_W \in bits, ReadAs(RegIn(reg, bits), reg % 8, at + Len(w) + 1, rm))
  BY <1>1, <1>2, <1>4, Fetched
<1>6. QED
  BY <1>1, <1>3, <1>5

LEMMA SimpleBytes ==
  ASSUME NEW oper, NEW rm, IsSimple(oper, rm), NEW reg \in 0 .. 15, NEW rex, rex \in {{}, {REX_W}}, NEW opcode, IsCode(opcode)
  PROVE  WithOperand(rex, opcode, reg, oper) \in Bytes /\ Len(WithOperand(rex, opcode, reg, oper)) > 0
<1> DEFINE p == emit_operand_rex(reg, oper, rex)
           q == emit_operand(reg % 8, oper)
           v == p \o opcode
<1>1. p \in Bytes /\ q \in Bytes /\ opcode \in Bytes /\ Len(opcode) > 0
  <2>1. reg % 8 \in 0 .. 7 /\ Encodes(oper)
    BY DEF IsSimple, IsOperand
  <2>2. p \in Bytes
    BY RexBytes DEF emit_operand_rex
  <2>3. q \in Bytes
    BY <2>1, OperandLength
  <2>4. opcode \in Bytes /\ Len(opcode) > 0
    BY DEF IsCode
  <2>5. QED
    BY <2>2, <2>3, <2>4
<1> HIDE DEF p, q
<1>2. v \in Bytes /\ Len(v) = Len(p) + Len(opcode) /\ Len(p) \in Nat /\ Len(opcode) \in Nat
  BY <1>1, Concatenated
<1> HIDE DEF v
<1>3. v \o q \in Bytes /\ Len(v \o q) = Len(v) + Len(q) /\ Len(q) \in Nat
  BY <1>1, <1>2, Concatenated
<1>4. Len(v \o q) > 0
  BY <1>1, <1>2, <1>3
<1>5. WithOperand(rex, opcode, reg, oper) = v \o q
  BY DEF WithOperand, p, q, v
<1>6. QED
  BY <1>3, <1>4, <1>5

LEMMA CodesAre ==
  /\ \A b \in {1, 3, 41, 43, 59, 133, 137, 139, 143, 255} : IsCode(<<b>>) /\ <<b>>[1] = b
  /\ IsCode(<<15, 175>>) /\ <<15, 175>>[1] = 15 /\ <<15, 175>>[2] = 175 /\ Len(<<15, 175>>) = 2
<1>1. ASSUME NEW b \in {1, 3, 41, 43, 59, 133, 137, 139, 143, 255}
      PROVE  IsCode(<<b>>)
  <2>1. b \in Byte /\ b # 242 /\ ~IsRex(b) /\ b # 15
    BY DEF Byte, IsRex
  <2>2. <<b>> \in Bytes /\ Len(<<b>>) = 1 /\ <<b>>[1] = b
    BY <2>1 DEF Bytes
  <2>3. QED
    BY <2>1, <2>2 DEF IsCode, IsOpcode1
<1>2. IsCode(<<15, 175>>)
  <2>1. 15 \in Byte /\ 175 \in Byte /\ 15 # 242 /\ ~IsRex(15)
    BY DEF Byte, IsRex
  <2>2. <<15, 175>> \in Bytes /\ Len(<<15, 175>>) = 2 /\ <<15, 175>>[1] = 15
    BY <2>1 DEF Bytes
  <2>3. QED
    BY <2>1, <2>2 DEF IsCode, IsOpcode1
<1>3. QED
  BY <1>1, <1>2

(* Quadwords.                                                              *)
LEMMA QuadFrom ==
  ASSUME NEW oper, NEW rm, IsSimple(oper, rm), NEW reg \in 0 .. 15, NEW opcode \in {1, 41, 133, 137}
  PROVE  IsReadAs(Quad(<<opcode>>, reg, oper), FromRegister[opcode], rm, Reg(reg))
<1> DEFINE w == Quad(<<opcode>>, reg, oper)
<1>1. IsCode(<<opcode>>) /\ <<opcode>>[1] = opcode
  BY CodesAre
<1>2. w \in Bytes /\ Len(w) > 0
  BY <1>1, SimpleBytes DEF Quad
<1>3. ASSUME NEW c \in Bytes, NEW at \in Nat, StandsAt(c, at, w)
      PROVE  Read(c, at + 1) = Decoded(FromRegister[opcode], rm, Reg(reg), at + Len(w) + 1)
  <2> DEFINE m == ReadAs(reg, reg % 8, at + Len(w) + 1, rm)
  <2>1. IsFetched(c, at, w, <<opcode>>, TRUE, m)
    BY <1>1, <1>3, SimpleFetched DEF Quad
  <2>2. m.rm = rm /\ m.reg = reg /\ m.end = at + Len(w) + 1
    BY DEF ReadAs
  <2> HIDE DEF m, w
  <2>3. PICK o \in Nat, rex \in Nat : Read(c, at + 1) = ReadGeneral(c, o, rex, m) /\ At(c, o) = opcode /\ RexW(rex)
    BY <1>1, <2>1 DEF IsFetched
  <2>4. QED
    BY <2>2, <2>3, WideFrom
<1>4. QED
  BY <1>2, <1>3 DEF IsReadAs

LEMMA QuadTo ==
  ASSUME NEW oper, NEW rm, IsSimple(oper, rm), NEW reg \in 0 .. 15, NEW opcode \in {3, 43, 59, 139}
  PROVE  IsReadAs(Quad(<<opcode>>, reg, oper), ToRegister[opcode], Reg(reg), rm)
<1> DEFINE w == Quad(<<opcode>>, reg, oper)
<1>1. IsCode(<<opcode>>) /\ <<opcode>>[1] = opcode
  BY CodesAre
<1>2. w \in Bytes /\ Len(w) > 0
  BY <1>1, SimpleBytes DEF Quad
<1>3. ASSUME NEW c \in Bytes, NEW at \in Nat, StandsAt(c, at, w)
      PROVE  Read(c, at + 1) = Decoded(ToRegister[opcode], Reg(reg), rm, at + Len(w) + 1)
  <2> DEFINE m == ReadAs(reg, reg % 8, at + Len(w) + 1, rm)
  <2>1. IsFetched(c, at, w, <<opcode>>, TRUE, m)
    BY <1>1, <1>3, SimpleFetched DEF Quad
  <2>2. m.rm = rm /\ m.reg = reg /\ m.end = at + Len(w) + 1
    BY DEF ReadAs
  <2> HIDE DEF m, w
  <2>3. PICK o \in Nat, rex \in Nat : Read(c, at + 1) = ReadGeneral(c, o, rex, m) /\ At(c, o) = opcode /\ RexW(rex)
    BY <1>1, <2>1 DEF IsFetched
  <2>4. QED
    BY <2>2, <2>3, WideTo
<1>4. QED
  BY <1>2, <1>3 DEF IsReadAs

LEMMA QuadMul ==
  ASSUME NEW oper, NEW rm, IsSimple(oper, rm), NEW reg \in 0 .. 15
  PROVE  IsReadAs(Quad(<<15, 175>>, reg, oper), "mul", Reg(reg), rm)
<1> DEFINE w == Quad(<<15, 175>>, reg, oper)
<1>1. w \in Bytes /\ Len(w) > 0
  <2> DEFINE opcode == <<15, 175>>
  <2>1. IsCode(opcode) /\ {REX_W} \in {{}, {REX_W}} /\ w = WithOperand({REX_W}, opcode, reg, oper)
    BY CodesAre DEF Quad
  <2> HIDE DEF opcode, w
  <2>2. QED
    BY <2>1, SimpleBytes
<1>2. ASSUME NEW c \in Bytes, NEW at \in Nat, StandsAt(c, at, w)
      PROVE  Read(c, at + 1) = Decoded("mul", Reg(reg), rm, at + Len(w) + 1)
  <2> DEFINE m == ReadAs(reg, reg % 8, at + Len(w) + 1, rm)
  <2>1. IsFetched(c, at, w, <<15, 175>>, TRUE, m)
    <3> DEFINE opcode == <<15, 175>>
    <3>1. w = WithOperand({REX_W}, opcode, reg, oper) /\ IsCode(opcode)
      BY CodesAre DEF Quad
    <3> HIDE DEF opcode, w
    <3>2. IsFetched(c, at, w, opcode, TRUE, m)
      BY <3>1, <1>2, SimpleFetched
    <3>3. QED
      BY <3>2 DEF opcode
  <2>2. m.rm = rm /\ m.reg = reg /\ m.end = at + Len(w) + 1
    BY DEF ReadAs
  <2> HIDE DEF m, w
  <2>3. PICK o \in Nat, rex \in Nat :
          Read(c, at + 1) = ReadGeneral(c, o, rex, m) /\ At(c, o) = 15 /\ At(c, o + 1) = 175 /\ RexW(rex)
    BY CodesAre, <2>1 DEF IsFetched
  <2>4. QED
    BY <2>2, <2>3, WideMul
<1>3. QED
  BY <1>1, <1>2 DEF IsReadAs

(* Instructions with one operand.                                          *)
LEMMA OneOperandRead ==
  ASSUME NEW oper, NEW rm, IsSimple(oper, rm), NEW reg \in 0 .. 7, NEW opcode \in {143, 255}, <<opcode, reg>> \in DOMAIN OneOperand
  PROVE  IsReadAs(WithOperand({}, <<opcode>>, reg, oper), OneOperand[<<opcode, reg>>], rm, None)
<1> DEFINE w == WithOperand({}, <<opcode>>, reg, oper)
<1>1. IsCode(<<opcode>>) /\ <<opcode>>[1] = opcode /\ reg \in 0 .. 15 /\ {} \in {{}, {REX_W}} /\ {} # {REX_W} /\ reg % 8 = reg
  BY CodesAre
<1>2. w \in Bytes /\ Len(w) > 0
  BY <1>1, SimpleBytes
<1>3. ASSUME NEW c \in Bytes, NEW at \in Nat, StandsAt(c, at, w)
      PROVE  Read(c, at + 1) = Decoded(OneOperand[<<opcode, reg>>], rm, None, at + Len(w) + 1)
  <2> DEFINE m == ReadAs(reg, reg, at + Len(w) + 1, rm)
  <2>1. IsFetched(c, at, w, <<opcode>>, FALSE, m)
    BY <1>1, <1>3, SimpleFetched
  <2>2. m.rm = rm /\ m.ext = reg /\ m.end = at + Len(w) + 1
    BY DEF ReadAs
  <2> HIDE DEF m, w
  <2>3. PICK o \in Nat, rex \in Nat : Read(c, at + 1) = ReadGeneral(c, o, rex, m) /\ At(c, o) = opcode /\ ~RexW(rex)
    BY <1>1, <2>1 DEF IsFetched
  <2>4. ReadGeneral(c, o, rex, m) = Decoded(OneOperand[<<opcode, reg>>], m.rm, None, m.end)
    BY <2>2, <2>3, NarrowOne
  <2>5. QED
    BY <2>2, <2>3, <2>4
<1>4. QED
  BY <1>2, <1>3 DEF IsReadAs

-----------------------------------------------------------------------------
(* Instructions without an operand: a register in the opcode.              *)
LEMMA ShortFetched ==
  ASSUME NEW bits, IsPlain(bits), NEW b, IsOpcode1(b), b # 15
  PROVE  LET v == RexByte(bits) \o <<b>>
         IN  /\ v \in Bytes /\ Len(v) > 0
             /\ \A c \in Bytes, at \in Nat : StandsAt(c, at, v) =>
                  \E m : Read(c, at + 1) = ReadGeneral(c, at + Len(v), RexOf(bits), m) /\ At(c, at + Len(v)) = b
<1> DEFINE p == RexByte(bits)
           v == p \o <<b>>
<1>1. <<b>> \in Bytes /\ Len(<<b>>) = 1 /\ <<b>>[1] = b
  BY DEF IsOpcode1, Bytes
<1>2. p \in Bytes
  BY RexBytes
<1> HIDE DEF p
<1>3. v \in Bytes /\ Len(v) = Len(p) + 1 /\ Len(p) \in Nat
  BY <1>1, <1>2, Concatenated
<1>4. ASSUME NEW c \in Bytes, NEW at \in Nat, StandsAt(c, at, v)
      PROVE  \E m : Read(c, at + 1) = ReadGeneral(c, at + Len(v), RexOf(bits), m) /\ At(c, at + Len(v)) = b
  <2> DEFINE o == at + Len(p) + 1
  <2>1. StandsAt(c, at, p) /\ StandsAt(c, at + Len(p), <<b>>)
    BY <1>1, <1>2, <1>4, StandsApart
  <2>2. At(c, o) = b
    BY <1>1, <2>1 DEF StandsAt
  <2>3. o = at + Len(v)
    BY <1>3
  <2> HIDE DEF o, v
  <2>4. o = at + Len(p) + 1
    BY DEF o
  <2>5. Read(c, at + 1) = ReadGeneral(c, o, RexOf(bits), Operand(c, IF b = 15 THEN o + 2 ELSE o + 1, RexOf(bits)))
    BY <2>1, <2>2, <2>4, PrefixRead DEF p
  <2>6. QED
    BY <2>2, <2>3, <2>5
<1>5. v \in Bytes /\ Len(v) > 0
  BY <1>3
<1>6. QED
  BY <1>4, <1>5 DEF p

LEMMA RegisterPrefix ==
  ASSUME NEW r \in 0 .. 15, NEW rex, rex \in {{}, {REX_W}}
  PROVE  LET bits == rex \cup If(REX_B, r > 7)
         IN  /\ IsPlain(bits) /\ emit_register_rex(r, rex) = RexByte(bits)
             /\ (r % 8) + RexB(RexOf(bits)) = r /\ (RexW(RexOf(bits)) <=> rex = {REX_W})
<1> DEFINE bits == rex \cup If(REX_B, r > 7)
<1>1. /\ bits \in SUBSET Nat /\ 4 \notin bits /\ 5 \notin bits /\ 7 \notin bits
      /\ (REX_B \in bits <=> r > 7) /\ (REX_W \in bits <=> rex = {REX_W})
  BY DEF If, REX_B, REX_W
<1>2. emit_register_rex(r, rex) = RexByte(bits)
  BY DEF emit_register_rex
<1> HIDE DEF bits
<1>3. RexB(RexOf(bits)) = (IF r > 7 THEN 8 ELSE 0) /\ (RexW(RexOf(bits)) <=> rex = {REX_W})
  BY <1>1, RexBits
<1>4. IsPlain(bits)
  BY <1>1 DEF IsPlain
<1>5. (r % 8) + RexB(RexOf(bits)) = r
  BY <1>3
<1>6. QED
  BY <1>2, <1>3, <1>4, <1>5 DEF bits

LEMMA PushesAndPops ==
  ASSUME NEW r \in 0 .. 15
  PROVE  IsReadAs(asm_push_r(r), "push", Reg(r), None) /\ IsReadAs(asm_pop_r(r), "pop", Reg(r), None)
<1> DEFINE bits == {} \cup If(REX_B, r > 7)
           low == r % 8
<1>1. /\ IsPlain(bits) /\ emit_register_rex(r, {}) = RexByte(bits)
      /\ low + RexB(RexOf(bits)) = r /\ ~RexW(RexOf(bits))
  <2>1. {} \in {{}, {REX_W}} /\ {} # {REX_W}
    OBVIOUS
  <2>2. QED
    BY <2>1, RegisterPrefix
<1>2. low \in 0 .. 7
  OBVIOUS
<1> HIDE DEF bits
<1>3. ASSUME NEW b, NEW base \in {80, 88}, NEW op, op = (IF base = 80 THEN "push" ELSE "pop"), b = base + low
      PROVE  IsReadAs(RexByte(bits) \o <<b>>, op, Reg(r), None)
  <2> DEFINE v == RexByte(bits) \o <<b>>
  <2>1. /\ IsOpcode1(b) /\ b # 15 /\ b % 8 = low
        /\ base = 80 => b \in 80 .. 87
        /\ base = 88 => b \in 88 .. 95
    BY <1>2, <1>3 DEF IsOpcode1, Byte, IsRex
  <2>2. v \in Bytes /\ Len(v) > 0
    BY <1>1, <2>1, ShortFetched
  <2>3. ASSUME NEW c \in Bytes, NEW at \in Nat, StandsAt(c, at, v)
        PROVE  Read(c, at + 1) = Decoded(op, Reg(r), None, at + Len(v) + 1)
    <3>1. PICK m : Read(c, at + 1) = ReadGeneral(c, at + Len(v), RexOf(bits), m) /\ At(c, at + Len(v)) = b
      BY <1>1, <2>1, <2>3, ShortFetched
    <3> HIDE DEF v
    <3> DEFINE o == at + Len(v)
    <3>2. o \in Nat
      BY <2>2 DEF Bytes
    <3> HIDE DEF o
    <3>3. Read(c, at + 1) = ReadGeneral(c, o, RexOf(bits), m) /\ At(c, o) = b
      BY <3>1 DEF o
    <3>4. ReadGeneral(c, o, RexOf(bits), m) = Decoded(op, Reg((b % 8) + RexB(RexOf(bits))), None, o + 1)
      BY <1>1, <1>3, <2>1, <3>2, <3>3, NarrowOthers
    <3>5. QED
      BY <1>1, <2>1, <3>3, <3>4 DEF o
  <2>4. QED
    BY <2>2, <2>3 DEF IsReadAs
<1>4. asm_push_r(r) = RexByte(bits) \o <<80 + low>> /\ asm_pop_r(r) = RexByte(bits) \o <<88 + low>>
  BY <1>1 DEF asm_push_r, asm_pop_r
<1>5. IsReadAs(RexByte(bits) \o <<80 + low>>, "push", Reg(r), None)
  BY <1>3
<1>6. IsReadAs(RexByte(bits) \o <<88 + low>>, "pop", Reg(r), None)
  BY <1>3
<1>7. QED
  BY <1>4, <1>5, <1>6

(* A load of an immediate always is the one of 64 bits.                    *)
LEMMA NeverShort == \A imm \in Int : ~is32(imm)
BY DEF is32, IntMin, Negated32

LEMMA LoadRead ==
  ASSUME NEW r \in 0 .. 15, NEW imm, IsLong(imm)
  PROVE  IsReadAs(asm_movq_ri(r, imm), "mov", Reg(r), Imm(imm))
<1> DEFINE bits == {REX_W} \cup If(REX_B, r > 7)
           low == r % 8
           b == 184 + low
           v == RexByte(bits) \o <<b>>
           q == Int64(imm)
           w == v \o q
<1>1. /\ IsPlain(bits) /\ emit_register_rex(r, {REX_W}) = RexByte(bits)
      /\ low + RexB(RexOf(bits)) = r /\ RexW(RexOf(bits))
  BY RegisterPrefix
<1>2. asm_movq_ri(r, imm) = w
  <2>1. ~is32(imm)
    BY NeverShort DEF IsLong
  <2>2. QED
    BY <1>1, <2>1 DEF asm_movq_ri, emit_immediate
<1>3. low \in 0 .. 7
  OBVIOUS
<1> HIDE DEF bits
<1>4. IsOpcode1(b) /\ b # 15 /\ b % 8 = low /\ b \in 184 .. 191
  BY <1>3 DEF IsOpcode1, Byte, IsRex
<1> HIDE DEF b
<1>5. v \in Bytes /\ Len(v) > 0
  BY <1>1, <1>4, ShortFetched
<1>6. q \in Bytes /\ Len(q) = 8
  <2>1. imm \in Int
    BY DEF IsLong
  <2>2. QED
    BY <2>1, BytesOfNumbers DEF Int64
<1>7. ASSUME NEW c \in Bytes, NEW at \in Nat, StandsAt(c, at, v)
      PROVE  \E m : Read(c, at + 1) = ReadGeneral(c, at + Len(v), RexOf(bits), m) /\ At(c, at + Len(v)) = b
  BY <1>1, <1>4, <1>7, ShortFetched
<1> HIDE DEF v, q
<1>8. w \in Bytes /\ Len(w) = Len(v) + 8 /\ Len(v) \in Nat
  <2>1. w \in Bytes /\ Len(w) = Len(v) + Len(q) /\ Len(v) \in Nat
    BY <1>5, <1>6, Concatenated
  <2>2. QED
    BY <1>6, <2>1
<1>9. ASSUME NEW c \in Bytes, NEW at \in Nat, StandsAt(c, at, w)
      PROVE  Read(c, at + 1) = Decoded("mov", Reg(r), Imm(imm), at + Len(w) + 1)
  <2>1. StandsAt(c, at, v) /\ StandsAt(c, at + Len(v), q)
    BY <1>5, <1>6, <1>9, StandsApart
  <2> DEFINE o == at + Len(v)
  <2>2. PICK m : Read(c, at + 1) = ReadGeneral(c, o, RexOf(bits), m) /\ At(c, o) = b
    BY <1>7, <2>1
  <2>3. o \in Nat /\ o + 9 = at + Len(w) + 1
    BY <1>8
  <2>4. StandsAt(c, o, Int64(imm))
    BY <2>1 DEF q
  <2> HIDE DEF o, w
  <2>5. Signed64(c, o + 1) = imm
    BY <2>3, <2>4, LongRead
  <2>6. ReadGeneral(c, o, RexOf(bits), m) = Decoded("mov", Reg((b % 8) + RexB(RexOf(bits))), Imm(Signed64(c, o + 1)), o + 9)
    BY <1>1, <1>4, <2>2, <2>3, <2>5, WideLoad
  <2>7. QED
    BY <1>1, <1>4, <2>2, <2>3, <2>5, <2>6
<1>10. Len(w) > 0
  BY <1>8
<1>11. QED
  BY <1>2, <1>8, <1>9, <1>10 DEF IsReadAs

-----------------------------------------------------------------------------
(* A byte pushed, and a return.                                            *)
LEMMA ShortBytes ==
  /\ \A imm \in Int : is8(imm) => IsReadAs(<<106, TruncatedToByte(imm)>>, "push", Imm(imm), None)
  /\ IsReadAs(asm_ret, "ret", None, None)
<1>1. ASSUME NEW w, w \in Bytes, Len(w) > 0, w[1] \in {106, 195}, NEW c \in Bytes, NEW at \in Nat, StandsAt(c, at, w)
      PROVE  \E m : Read(c, at + 1) = ReadGeneral(c, at + 1, 64, m)
  <2> DEFINE o == at + 1
  <2>1. StandsAt(c, at, RexByte({})) /\ Len(RexByte({})) = 0
    BY DEF RexByte, StandsAt
  <2>2. 1 \in 1 .. Len(w)
    BY <1>1 DEF Bytes
  <2>3. At(c, o) = w[1] /\ IsOpcode1(w[1])
    <3>1. At(c, o) = w[1]
      BY <1>1, <2>2 DEF StandsAt
    <3>2. IsOpcode1(106) /\ IsOpcode1(195)
      BY DEF IsOpcode1, IsRex, Byte
    <3>3. QED
      BY <1>1, <3>1, <3>2
  <2>4. IsPlain({})
    BY DEF IsPlain
  <2>5. o = at + Len(RexByte({})) + 1
    BY <2>1
  <2> HIDE DEF o
  <2>6. Read(c, at + 1) = ReadGeneral(c, o, RexOf({}), Operand(c, IF w[1] = 15 THEN o + 2 ELSE o + 1, RexOf({})))
    BY <2>1, <2>3, <2>4, <2>5, PrefixRead
  <2>7. QED
    BY <2>6, NoRex DEF o
<1>2. ASSUME NEW imm \in Int, is8(imm)
      PROVE  IsReadAs(<<106, TruncatedToByte(imm)>>, "push", Imm(imm), None)
  <2> DEFINE b == TruncatedToByte(imm)
             w == <<106, b>>
  <2>1. b \in Byte /\ b = imm % 256
    BY Truncated DEF TruncatedToByte
  <2> HIDE DEF b
  <2>2. w \in Bytes /\ Len(w) = 2 /\ w[1] = 106 /\ w[2] = b
    BY <2>1 DEF Bytes, Byte
  <2> HIDE DEF w
  <2>3. ASSUME NEW c \in Bytes, NEW at \in Nat, StandsAt(c, at, w)
        PROVE  Read(c, at + 1) = Decoded("push", Imm(imm), None, at + Len(w) + 1)
    <3>1. PICK m : Read(c, at + 1) = ReadGeneral(c, at + 1, 64, m)
      BY <1>1, <2>2, <2>3
    <3>2. At(c, at + 1) = 106 /\ At(c, at + 2) = b
      BY <2>2, <2>3 DEF StandsAt
    <3>3. PICK o \in Nat : o = at + 1
      OBVIOUS
    <3>4. o + 1 = at + 2 /\ o + 2 = at + Len(w) + 1
      BY <2>2, <3>3
    <3>5. Signed8(c, o + 1) = imm
      BY <1>2, <2>1, <3>2, <3>4, ShortRead
    <3>6. ReadGeneral(c, o, 64, m) = Decoded("push", Imm(Signed8(c, o + 1)), None, o + 2)
      BY <3>2, <3>3, Narrow, NarrowOthers
    <3>7. QED
      BY <3>1, <3>3, <3>4, <3>5, <3>6
  <2>4. QED
    BY <2>2, <2>3 DEF IsReadAs, w, b
<1>3. IsReadAs(asm_ret, "ret", None, None)
  <2>1. asm_ret \in Bytes /\ Len(asm_ret) = 1 /\ asm_ret[1] = 195
    BY DEF asm_ret, Bytes, Byte
  <2>2. ASSUME NEW c \in Bytes, NEW at \in Nat, StandsAt(c, at, asm_ret)
        PROVE  Read(c, at + 1) = Decoded("ret", None, None, at + Len(asm_ret) + 1)
    <3>1. PICK m : Read(c, at + 1) = ReadGeneral(c, at + 1, 64, m)
      BY <1>1, <2>1, <2>2
    <3>2. At(c, at + 1) = 195
      BY <2>1, <2>2 DEF StandsAt
    <3>3. PICK o \in Nat : o = at + 1
      OBVIOUS
    <3>4. o + 1 = at + Len(asm_ret) + 1
      BY <2>1, <3>3
    <3>5. ReadGeneral(c, o, 64, m) = Decoded("ret", None, None, o + 1)
      BY <3>2, <3>3, Narrow, NarrowOthers
    <3>6. QED
      BY <3>1, <3>3, <3>4, <3>5
  <2>3. QED
    BY <2>1, <2>2 DEF IsReadAs
<1>4. QED
  BY <1>2, <1>3

-----------------------------------------------------------------------------
(* Doubles.                                                                *)
LEMMA SseTable ==
  /\ \A opcode \in {16, 17, 88, 89, 92, 94} : opcode \in DOMAIN SseOperations
  /\ SseOperations[16] = "movsd" /\ SseOperations[17] = "movsd" /\ SseOperations[88] = "addsd"
  /\ SseOperations[89] = "mulsd" /\ SseOperations[92] = "subsd" /\ SseOperations[94] = "divsd"
BY DEF SseOperations

IsSseCode(opcode) == opcode \in {16, 17, 88, 89, 92, 94}
SseBits(bits, reg, oper) == IsPlain(bits) /\ IsReadBy(bits, oper) /\ (REX_R \in bits <=> reg > 7)
SseWith(bits, opcode, reg, oper) == <<242>> \o RexByte(bits) \o <<15, opcode>> \o emit_operand(reg % 8, oper)

LEMMA SseFetched ==
  ASSUME NEW oper, NEW rm, IsOperand(oper, rm), NEW reg \in 0 .. 15, NEW opcode, IsSseCode(opcode),
         NEW bits, SseBits(bits, reg, oper),
         NEW w, w = SseWith(bits, opcode, reg, oper)
  PROVE  /\ w \in Bytes /\ Len(w) > 0
         /\ \A c \in Bytes, at \in Nat : StandsAt(c, at, w) =>
              Read(c, at + 1) = ReadSse(c, opcode, ReadAs(reg, reg % 8, at + Len(w) + 1, rm))
<1> DEFINE h == <<242>>
           p == RexByte(bits)
           s == <<15, opcode>>
           r == reg % 8
           q == emit_operand(r, oper)
           u == h \o p
           v == u \o s
<1>1. r \in 0 .. 7 /\ Encodes(oper)
  BY DEF IsOperand
<1>2. h \in Bytes /\ Len(h) = 1 /\ h[1] = 242
  BY DEF Bytes, Byte
<1>3. s \in Bytes /\ Len(s) = 2 /\ s[1] = 15 /\ s[2] = opcode
  BY DEF Bytes, Byte, IsSseCode
<1>4. p \in Bytes /\ q \in Bytes
  BY <1>1, RexBytes, OperandLength
<1>12. Len(q) = Len(oper.encoding)
  BY <1>1, OperandLength
<1>13. IsPlain(bits) /\ IsReadBy(bits, oper) /\ (REX_R \in bits <=> reg > 7)
  BY DEF SseBits
<1>5. w = v \o q
  BY DEF SseWith
<1> HIDE DEF h, p, s, q, r
<1>6. u \in Bytes /\ Len(u) = Len(h) + Len(p) /\ Len(p) \in Nat
  <2>1. h \in Bytes /\ p \in Bytes
    BY <1>2, <1>4
  <2>2. QED
    BY <2>1, Concatenated
<1> HIDE DEF u
<1>7. v \in Bytes /\ Len(v) = Len(u) + Len(s) /\ Len(u) \in Nat
  BY <1>3, <1>6, LengthsAdd
<1> HIDE DEF v
<1>8. w \in Bytes /\ Len(w) = Len(v) + Len(q) /\ Len(v) \in Nat /\ Len(q) \in Nat
  BY <1>4, <1>5, <1>7, LengthsAdd
<1>9. Len(w) > 0
  BY <1>2, <1>3, <1>6, <1>7, <1>8
<1>10. ASSUME NEW c \in Bytes, NEW at \in Nat, StandsAt(c, at, w)
       PROVE  Read(c, at + 1) = ReadSse(c, opcode, ReadAs(reg, reg % 8, at + Len(w) + 1, rm))
  <2> DEFINE o == at + 1 + Len(p) + 1
             a == at + Len(v)
             byte == RexOf(bits)
  <2>1. StandsAt(c, at, v) /\ StandsAt(c, a, q)
    <3>1. v \in Bytes /\ q \in Bytes /\ StandsAt(c, at, v \o q)
      BY <1>4, <1>5, <1>7, <1>10
    <3>2. QED
      BY <3>1, StandsApart
  <2>2. StandsAt(c, at, u) /\ StandsAt(c, at + Len(u), s)
    BY <1>3, <1>6, <1>7, <2>1, StandsApart DEF v
  <2>3. StandsAt(c, at, h) /\ StandsAt(c, at + Len(h), p)
    BY <1>2, <1>4, <1>6, <2>2, StandsApart DEF u
  <2>4. At(c, at + 1) = 242 /\ StandsAt(c, at + 1, p)
    <3>1. 1 \in 1 .. Len(h)
      BY <1>2
    <3>2. QED
      BY <1>2, <2>3, <3>1 DEF StandsAt
  <2>5. At(c, o) = 15 /\ At(c, o + 1) = opcode
    <3>1. At(c, at + Len(u) + 1) = 15 /\ At(c, at + Len(u) + 2) = opcode
      <4>1. 1 \in 1 .. Len(s) /\ 2 \in 1 .. Len(s)
        BY <1>3
      <4>2. QED
        BY <1>3, <2>2, <4>1 DEF StandsAt
    <3>2. at + Len(u) + 1 = o /\ at + Len(u) + 2 = o + 1
      BY <1>2, <1>6
    <3> HIDE DEF o
    <3>3. QED
      BY <3>1, <3>2
  <2>6. a \in Nat /\ a + 1 = o + 2 /\ a + 1 + Len(q) = at + Len(w) + 1
    BY <1>2, <1>3, <1>6, <1>7, <1>8
  <2>7. o = at + 1 + Len(RexByte(bits)) + 1
    BY DEF p
  <2> HIDE DEF o, a
  <2>8. Read(c, at + 1) = ReadSse(c, opcode, Operand(c, o + 2, byte))
    BY <1>13, <2>4, <2>5, <2>7, SsePrefixRead DEF p
  <2>9. Operand(c, a + 1, byte) = ReadAs(r + RexR(byte), r, a + 1 + Len(oper.encoding), rm)
    <3>1. bits \in SUBSET Nat /\ StandsAt(c, a, emit_operand(r, oper))
      BY <1>13, <2>1 DEF IsPlain, q
    <3>2. r \in 0 .. 7 /\ a \in Nat /\ IsReadBy(bits, oper)
      BY <1>1, <1>13, <2>6
    <3> HIDE DEF byte
    <3>3. byte = RexOf(bits)
      BY DEF byte
    <3>4. QED
      BY <3>1, <3>2, <3>3 DEF IsOperand
  <2>10. r + RexR(byte) = reg
    BY <1>13, RexBits DEF r
  <2>11. QED
    BY <1>12, <2>6, <2>8, <2>9, <2>10 DEF r
<1>11. QED
  BY <1>8, <1>9, <1>10

LEMMA SseRead ==
  ASSUME NEW oper, NEW rm, IsOperand(oper, rm), NEW reg \in 0 .. 15, NEW opcode, IsSseCode(opcode),
         NEW bits, SseBits(bits, reg, oper),
         NEW w, w = SseWith(bits, opcode, reg, oper)
  PROVE  /\ opcode = 17 => IsReadAs(w, SseOperations[opcode], AsXmm(rm), Xmm(reg))
         /\ opcode # 17 => IsReadAs(w, SseOperations[opcode], Xmm(reg), AsXmm(rm))
<1>1. w \in Bytes /\ Len(w) > 0
  BY SseFetched
<1>2. ASSUME NEW c \in Bytes, NEW at \in Nat, StandsAt(c, at, w)
      PROVE  /\ opcode = 17 => Read(c, at + 1) = Decoded(SseOperations[opcode], AsXmm(rm), Xmm(reg), at + Len(w) + 1)
             /\ opcode # 17 => Read(c, at + 1) = Decoded(SseOperations[opcode], Xmm(reg), AsXmm(rm), at + Len(w) + 1)
  <2> DEFINE m == ReadAs(reg, reg % 8, at + Len(w) + 1, rm)
  <2>1. Read(c, at + 1) = ReadSse(c, opcode, m)
    BY <1>2, SseFetched
  <2>2. m.rm = rm /\ m.reg = reg /\ m.end = at + Len(w) + 1
    BY DEF ReadAs
  <2> HIDE DEF m
  <2>3. opcode = 17 => Read(c, at + 1) = Decoded(SseOperations[opcode], AsXmm(m.rm), Xmm(m.reg), m.end)
    BY <2>1 DEF ReadSse
  <2>4. opcode # 17 => Read(c, at + 1) = Decoded(SseOperations[opcode], Xmm(m.reg), AsXmm(m.rm), m.end)
    BY <2>1, SseTable DEF ReadSse, IsSseCode
  <2>5. QED
    BY <2>2, <2>3, <2>4
<1>3. QED
  <2>1. ASSUME opcode = 17 PROVE IsReadAs(w, SseOperations[opcode], AsXmm(rm), Xmm(reg))
    BY <1>1, <1>2, <2>1 DEF IsReadAs
  <2>2. ASSUME opcode # 17 PROVE IsReadAs(w, SseOperations[opcode], Xmm(reg), AsXmm(rm))
    BY <1>1, <1>2, <2>2 DEF IsReadAs
  <2>3. QED
    BY <2>1, <2>2

-----------------------------------------------------------------------------
(* Bytes that are not what was asked for.  A sum of bits where a rex byte  *)
(* should be: no double is moved.                                          *)
LEMMA StandsAlone ==
  ASSUME NEW w \in Bytes
  PROVE  StandsAt(w, 0, w)
BY DEF StandsAt, At, Bytes

LEMMA BareBits ==
  ASSUME NEW bits \in SUBSET {REX_R, REX_B}
  PROVE  bits # {} => BitsAsByte(bits) \in {1, 4, 5}
<1>1. /\ Weight(bits, 1, 2) = 0 /\ Weight(bits, 3, 8) = 0
      /\ Weight(bits, 4, 16) = 0 /\ Weight(bits, 5, 32) = 0 /\ Weight(bits, 6, 64) = 0 /\ Weight(bits, 7, 128) = 0
      /\ Weight(bits, 0, 1) = (IF REX_B \in bits THEN 1 ELSE 0) /\ Weight(bits, 2, 4) = (IF REX_R \in bits THEN 4 ELSE 0)
  BY DEF Weight, REX_R, REX_B
<1>2. bits # {} => REX_B \in bits \/ REX_R \in bits
  OBVIOUS
<1>3. QED
  BY <1>1, <1>2 DEF BitsAsByte

Misplaced(b, s, q) == <<242>> \o <<b>> \o s \o q
IsMisplaced(w) == \E b \in {1, 4, 5}, s \in Bytes, q \in Bytes : w = Misplaced(b, s, q)

LEMMA MisplacedBits ==
  ASSUME NEW w, IsMisplaced(w)
  PROVE  w \in Bytes /\ Len(w) > 0 /\ Read(w, 1) = Undecoded(w)
<1>0. PICK b \in {1, 4, 5}, s \in Bytes, q \in Bytes : w = Misplaced(b, s, q)
  BY DEF IsMisplaced
<1> DEFINE h == <<242>>
           p == <<b>>
           u == h \o p
           v == u \o s
<1>1. h \in Bytes /\ p \in Bytes
  BY DEF Bytes, Byte
<1>2. Len(h) = 1 /\ Len(p) = 1 /\ h[1] = 242 /\ p[1] = b
  OBVIOUS
<1>3. w = v \o q
  BY <1>0 DEF Misplaced
<1> HIDE DEF h, p
<1>4. u \in Bytes /\ Len(u) = Len(h) + Len(p)
  BY <1>1, Concatenated
<1> HIDE DEF u
<1>5. v \in Bytes /\ Len(v) = Len(u) + Len(s) /\ Len(s) \in Nat
  BY <1>4, Concatenated
<1> HIDE DEF v
<1>6. w \in Bytes /\ Len(w) = Len(v) + Len(q) /\ Len(q) \in Nat
  BY <1>3, <1>5, Concatenated
<1>7. StandsAt(w, 0, v)
  BY <1>3, <1>5, <1>6, StandsAlone, StandsApart
<1>8. StandsAt(w, 0, u)
  BY <1>4, <1>7, StandsApart DEF v
<1>9. StandsAt(w, 0, h) /\ StandsAt(w, 0 + Len(h), p)
  BY <1>1, <1>8, StandsApart DEF u
<1>10. At(w, 1) = 242 /\ At(w, 2) = b
  <2>1. 1 \in 1 .. Len(h) /\ 1 \in 1 .. Len(p) /\ 0 + 1 = 1 /\ 0 + Len(h) + 1 = 2
    BY <1>2
  <2>2. At(w, 0 + 1) = h[1] /\ At(w, 0 + Len(h) + 1) = p[1]
    BY <1>9, <2>1 DEF StandsAt
  <2>3. QED
    BY <1>2, <2>1, <2>2
<1>11. ~IsRex(b) /\ b # 15
  BY DEF IsRex
<1>12. 1 + 1 = 2
  OBVIOUS
<1>13. Read(w, 1) = ReadSse(w, -1, Operand(w, 3, 64))
  <2>1. At(w, 1) = 242 /\ At(w, 1 + 1) = b /\ 1 + 1 + 1 = 3
    BY <1>10, <1>12
  <2>2. QED
    BY <2>1, <1>11 DEF Read
<1>14. -1 # 17 /\ -1 \notin DOMAIN SseOperations
  BY DEF SseOperations
<1>15. \A m : ReadSse(w, -1, m) = Undecoded(w)
  BY <1>14 DEF ReadSse
<1>16. Len(w) > 0
  BY <1>2, <1>4, <1>5, <1>6
<1>17. QED
  BY <1>6, <1>13, <1>15, <1>16

(* Bits that make a rex byte another byte: nothing is moved.               *)
LEMMA NarrowIsNoMove ==
  ASSUME NEW c, NEW o \in Nat, NEW m, NEW opcode \in Byte, At(c, o) = opcode
  PROVE  ReadGeneral(c, o, 64, m).ins.op # "mov"
<1> DEFINE read == ReadGeneral(c, o, 64, m)
<1>1. <<opcode, m.ext>> \in DOMAIN OneOperand => OneOperand[<<opcode, m.ext>>] # "mov"
  BY DEF OneOperand
<1>2. \/ <<opcode, m.ext>> \in DOMAIN OneOperand /\ read.ins.op = OneOperand[<<opcode, m.ext>>]
      \/ read.ins.op \in {"push", "pop", "ret", "call", "jmp", "j", "unknown"}
  BY Narrow DEF ReadGeneral, DecodedJump, Decoded, Undecoded, Unknown, Instr
<1> HIDE DEF read
<1>3. read.ins.op # "mov"
  BY <1>1, <1>2
<1>4. QED
  BY <1>3 DEF read

LEMMA SpoiltRex ==
  ASSUME NEW bits, REX_W \in bits, {4, 5, 7} \cap bits # {}
  PROVE  LET b == BitsAsByte(bits \cup {REX_PREFIX})
         IN  b \in Byte /\ b # 242 /\ b \notin 64 .. 79
<1> DEFINE all == bits \cup {REX_PREFIX}
           b0 == Weight(all, 0, 1)
           b1 == Weight(all, 1, 2)
           b2 == Weight(all, 2, 4)
           b4 == Weight(all, 4, 16)
           b5 == Weight(all, 5, 32)
           b7 == Weight(all, 7, 128)
<1>1. b0 \in {0, 1} /\ b1 \in {0, 2} /\ b2 \in {0, 4} /\ Weight(all, 3, 8) = 8 /\ Weight(all, 6, 64) = 64
  BY DEF Weight, REX_W, REX_PREFIX
<1>2. b4 \in {0, 16} /\ b5 \in {0, 32} /\ b7 \in {0, 128} /\ ~(b4 = 0 /\ b5 = 0 /\ b7 = 0)
  <2>1. 4 \in all \/ 5 \in all \/ 7 \in all
    OBVIOUS
  <2>2. QED
    BY <2>1 DEF Weight
<1>3. BitsAsByte(all) = b0 + b1 + b2 + 8 + b4 + b5 + 64 + b7
  BY <1>1 DEF BitsAsByte
<1> HIDE DEF all, b0, b1, b2, b4, b5, b7
<1> DEFINE low == b0 + b1 + b2
           high == b4 + b5 + b7
<1>4. low \in 0 .. 7 /\ high \in {16, 32, 48, 128, 144, 160, 176}
  BY <1>1, <1>2
<1>5. BitsAsByte(all) = low + high + 72
  BY <1>1, <1>2, <1>3
<1> HIDE DEF low, high
<1>6. low + high + 72 \in 0 .. 255 /\ low + high + 72 # 242 /\ low + high + 72 \notin 64 .. 79
  BY <1>4
<1>7. QED
  BY <1>5, <1>6 DEF all, Byte

IsPrefixed(w, bits) == \E s \in Bytes, q \in Bytes : w = RexByte(bits) \o s \o q

LEMMA SpoiltRead ==
  ASSUME NEW bits, REX_W \in bits, {4, 5, 7} \cap bits # {}, NEW w, IsPrefixed(w, bits)
  PROVE  w \in Bytes /\ Len(w) > 0 /\ Read(w, 1).ins.op # "mov"
<1>0. PICK s \in Bytes, q \in Bytes : w = RexByte(bits) \o s \o q
  BY DEF IsPrefixed
<1> DEFINE b == BitsAsByte(bits \cup {REX_PREFIX})
           p == <<b>>
           v == p \o s
<1>1. b \in Byte /\ b # 242 /\ b \notin 64 .. 79
  BY SpoiltRex
<1>2. RexByte(bits) = p
  BY DEF RexByte
<1> HIDE DEF b
<1>3. p \in Bytes
  BY <1>1 DEF Bytes
<1>4. Len(p) = 1 /\ p[1] = b
  OBVIOUS
<1>5. w = v \o q
  BY <1>0, <1>2
<1> HIDE DEF p
<1>6. v \in Bytes /\ Len(v) = Len(p) + Len(s) /\ Len(s) \in Nat
  BY <1>3, Concatenated
<1> HIDE DEF v
<1>7. w \in Bytes /\ Len(w) = Len(v) + Len(q) /\ Len(q) \in Nat
  BY <1>5, <1>6, Concatenated
<1>8. StandsAt(w, 0, v)
  BY <1>5, <1>6, <1>7, StandsAlone, StandsApart
<1>9. StandsAt(w, 0, p)
  BY <1>3, <1>8, StandsApart DEF v
<1>10. Len(w) > 0
  BY <1>4, <1>6, <1>7
<1>11. At(w, 1) = b
  <2>1. 1 \in 1 .. Len(p) /\ 0 + 1 = 1
    BY <1>4
  <2>2. At(w, 0 + 1) = p[1]
    BY <1>9, <2>1 DEF StandsAt
  <2>3. QED
    BY <1>4, <2>1, <2>2
<1>12. ~IsRex(b)
  BY <1>1 DEF IsRex
<1> DEFINE m == Operand(w, IF b = 15 THEN 1 + 2 ELSE 1 + 1, 64)
<1>13. Read(w, 1) = ReadGeneral(w, 1, 64, m)
  BY <1>1, <1>11, <1>12 DEF Read
<1> HIDE DEF m
<1>14. ReadGeneral(w, 1, 64, m).ins.op # "mov"
  <2>1. 1 \in Nat
    OBVIOUS
  <2>2. QED
    BY <1>1, <1>11, <2>1, NarrowIsNoMove
<1>15. QED
  BY <1>7, <1>10, <1>13, <1>14

-----------------------------------------------------------------------------
(* A listing of bytes.  Every instruction ends behind its first byte, so   *)
(* that what follows it is the listing of fewer bytes.                     *)
LEMMA OperandEnds ==
  ASSUME NEW c, NEW i \in Nat, NEW rex
  PROVE  Operand(c, i, rex).end \in Nat /\ Operand(c, i, rex).end > i
BY DEF Operand

LEMMA GeneralEnds ==
  ASSUME NEW c, NEW o \in Nat, NEW rex, NEW m, m.end \in Nat, m.end > o
  PROVE  LET end == ReadGeneral(c, o, rex, m).end
         IN  (end \in Nat /\ end > o) \/ end = Len(c) + 1
<1> DEFINE read == ReadGeneral(c, o, rex, m)
           ends == {m.end, m.end + 1, m.end + 4, o + 1, o + 2, o + 5, o + 6, o + 9}
<1>1. read.end \in {m.end, m.end + 1, m.end + 4, o + 1, o + 2, o + 5, o + 6, o + 9, Len(c) + 1}
  BY DEF ReadGeneral, DecodedJump, Decoded, Undecoded
<1>2. read.end \in ends \/ read.end = Len(c) + 1
  BY <1>1
<1>3. \A end \in ends : end \in Nat /\ end > o
  OBVIOUS
<1> HIDE DEF read, ends
<1>4. QED
  BY <1>2, <1>3 DEF read

LEMMA SseEnds ==
  ASSUME NEW c, NEW second, NEW m
  PROVE  ReadSse(c, second, m).end \in {m.end, Len(c) + 1}
BY DEF ReadSse, Decoded, Undecoded

LEMMA ReadEnds ==
  ASSUME NEW c \in Bytes, NEW i \in 1 .. Len(c)
  PROVE  Read(c, i).end \in Nat /\ Read(c, i).end > i
<1> DEFINE end == Read(c, i).end
<1>1. Len(c) \in Nat /\ i \in Nat
  BY DEF Bytes
<1>2. \E o \in i .. i + 2, k \in 1 .. 2 : \E rex :
        \/ Read(c, i) = ReadGeneral(c, o, rex, Operand(c, o + k, rex))
        \/ \E second : Read(c, i) = ReadSse(c, second, Operand(c, o + k, rex))
  <2> DEFINE sse == At(c, i) = 242
             r == IF sse THEN i + 1 ELSE i
             hasRex == IsRex(At(c, r))
             rex == IF hasRex THEN At(c, r) ELSE 64
             o == IF hasRex THEN r + 1 ELSE r
             twoBytes == At(c, o) = 15
             k == IF twoBytes THEN 2 ELSE 1
             m == Operand(c, o + k, rex)
  <2>1. o \in i .. i + 2 /\ k \in 1 .. 2
    BY <1>1
  <2>2. Read(c, i) = IF sse THEN ReadSse(c, IF twoBytes THEN At(c, o + 1) ELSE -1, m) ELSE ReadGeneral(c, o, rex, m)
    BY DEF Read
  <2> HIDE DEF sse, rex, o, twoBytes, k
  <2>3. QED
    BY <2>1, <2>2
<1>3. PICK o \in i .. i + 2, k \in 1 .. 2 : \E rex :
        \/ Read(c, i) = ReadGeneral(c, o, rex, Operand(c, o + k, rex))
        \/ \E second : Read(c, i) = ReadSse(c, second, Operand(c, o + k, rex))
  BY <1>2
<1>4. PICK rex : \/ Read(c, i) = ReadGeneral(c, o, rex, Operand(c, o + k, rex))
                 \/ \E second : Read(c, i) = ReadSse(c, second, Operand(c, o + k, rex))
  BY <1>3
<1> DEFINE m == Operand(c, o + k, rex)
<1>5. m.end \in Nat /\ m.end > o /\ o \in Nat
  <2>1. o + k \in Nat /\ o \in Nat
    BY <1>1
  <2>2. m.end \in Nat /\ m.end > o + k
    BY <2>1, OperandEnds
  <2> HIDE DEF m
  <2>3. QED
    BY <2>1, <2>2
<1> HIDE DEF m
<1>6. \/ Read(c, i) = ReadGeneral(c, o, rex, m)
      \/ \E second : Read(c, i) = ReadSse(c, second, m)
  BY <1>4 DEF m
<1>7. (end \in Nat /\ end > o) \/ end = Len(c) + 1
  <2>1. CASE Read(c, i) = ReadGeneral(c, o, rex, m)
    BY <1>5, <2>1, GeneralEnds
  <2>2. CASE \E second : Read(c, i) = ReadSse(c, second, m)
    BY <1>5, <2>2, SseEnds
  <2>3. QED
    BY <1>6, <2>1, <2>2
<1> HIDE DEF end
<1>8. end \in Nat /\ end > i
  BY <1>1, <1>7
<1>9. QED
  BY <1>8 DEF end

Instructions(c) == {Read(c, i).ins : i \in 1 .. Len(c)} \cup {Unknown}
ListedAt(c, f, i) ==
  IF i = Len(c) + 1 THEN <<>>
  ELSE LET read == Read(c, i)
       IN  IF read.end > Len(c) + 1 THEN <<Unknown>> ELSE <<read.ins>> \o f[read.end]

(* The listings from every byte of the last n on, and all of them.         *)
LastListed(c, n, g) ==
  /\ g \in [Len(c) + 1 - n .. Len(c) + 1 -> Seq(Instructions(c))]
  /\ \A i \in Len(c) + 1 - n .. Len(c) + 1 : g[i] = ListedAt(c, g, i)
IsListing(c, f) ==
  \A i \in 1 .. Len(c) + 1 : f[i] \in Seq(Instructions(c)) /\ f[i] = ListedAt(c, f, i)

LEMMA LeastOf ==
  ASSUME NEW S \in SUBSET Nat, S # {}
  PROVE  \E m \in S : \A k \in S : m <= k
<1>1. IsWellFoundedOn(OpToRel(<, Nat), Nat)
  BY NatLessThanWellFounded
<1>2. PICK m \in S : \A k \in S : ~(<<k, m>> \in OpToRel(<, Nat))
  BY <1>1, WFMin
<1>3. ASSUME NEW k \in S PROVE m <= k
  <2>1. ~(k < m)
    BY <1>2 DEF OpToRel
  <2>2. QED
    BY <2>1
<1>4. QED
  BY <1>3

LEMMA ListedIs ==
  ASSUME NEW c \in Bytes, NEW f, NEW i \in 1 .. Len(c) + 1,
         \A j \in i + 1 .. Len(c) + 1 : f[j] \in Seq(Instructions(c))
  PROVE  ListedAt(c, f, i) \in Seq(Instructions(c))
<1> DEFINE S == Instructions(c)
           read == Read(c, i)
<1>1. Len(c) \in Nat /\ Unknown \in S
  BY DEF Bytes, Instructions
<1>2. CASE i = Len(c) + 1
  BY <1>2 DEF ListedAt
<1>3. CASE i # Len(c) + 1
  <2>1. i \in 1 .. Len(c)
    BY <1>1, <1>3
  <2>2. read.ins \in S
    BY <2>1 DEF Instructions
  <2>3. read.end \in Nat /\ read.end > i
    BY <2>1, ReadEnds
  <2>4. ListedAt(c, f, i) = IF read.end > Len(c) + 1 THEN <<Unknown>> ELSE <<read.ins>> \o f[read.end]
    BY <1>3 DEF ListedAt
  <2> HIDE DEF S, read
  <2>5. CASE read.end > Len(c) + 1
    BY <1>1, <2>4, <2>5 DEF S
  <2>6. CASE ~(read.end > Len(c) + 1)
    <3>1. read.end \in i + 1 .. Len(c) + 1
      BY <1>1, <2>3, <2>6
    <3>2. f[read.end] \in Seq(S)
      BY <3>1 DEF S
    <3>3. <<read.ins>> \o f[read.end] \in Seq(S)
      BY <2>2, <3>2
    <3>4. QED
      BY <2>4, <2>6, <3>3 DEF S
  <2>7. QED
    BY <2>5, <2>6
<1>4. QED
  BY <1>2, <1>3

(* It depends on nothing before.                                           *)
LEMMA ListedSame ==
  ASSUME NEW c \in Bytes, NEW f, NEW g, NEW i \in 1 .. Len(c) + 1, \A j \in i + 1 .. Len(c) + 1 : f[j] = g[j]
  PROVE  ListedAt(c, f, i) = ListedAt(c, g, i)
<1> DEFINE read == Read(c, i)
<1>1. Len(c) \in Nat
  BY DEF Bytes
<1>2. CASE i = Len(c) + 1
  BY <1>2 DEF ListedAt
<1>3. CASE i # Len(c) + 1
  <2>1. i \in 1 .. Len(c)
    BY <1>1, <1>3
  <2>2. read.end \in Nat /\ read.end > i
    BY <2>1, ReadEnds
  <2>3. \A h : ListedAt(c, h, i) = IF read.end > Len(c) + 1 THEN <<Unknown>> ELSE <<read.ins>> \o h[read.end]
    BY <1>3 DEF ListedAt
  <2> HIDE DEF read
  <2>4. ~(read.end > Len(c) + 1) => f[read.end] = g[read.end]
    BY <1>1, <2>2
  <2>5. QED
    BY <2>3, <2>4
<1>4. QED
  BY <1>2, <1>3

LEMMA ListingsExist ==
  ASSUME NEW c \in Bytes, NEW n \in 0 .. Len(c)
  PROVE  \E g : LastListed(c, n, g)
<1> DEFINE L == Len(c) + 1
           Bad == {k \in 0 .. Len(c) : ~\E g : LastListed(c, k, g)}
<1>1. Len(c) \in Nat /\ L \in Nat
  BY DEF Bytes
<1>2. SUFFICES ASSUME Bad # {} PROVE FALSE
  OBVIOUS
<1>3. Bad \in SUBSET Nat
  BY <1>1
<1>4. PICK k \in Bad : \A j \in Bad : k <= j
  BY <1>2, <1>3, LeastOf
<1>5. k \in 0 .. Len(c) /\ ~\E g : LastListed(c, k, g)
  OBVIOUS
<1>6. CASE k = 0
  <2> DEFINE g == [i \in L .. L |-> <<>>]
  <2>1. L - k = L /\ \A i \in L .. L : i = L
    BY <1>1, <1>6
  <2>2. g \in [L .. L -> Seq(Instructions(c))]
    OBVIOUS
  <2>3. ASSUME NEW i \in L .. L PROVE g[i] = ListedAt(c, g, i)
    BY <2>1 DEF ListedAt
  <2> HIDE DEF g
  <2>4. LastListed(c, k, g)
    BY <2>1, <2>2, <2>3 DEF LastListed
  <2>5. QED
    BY <1>5, <2>4
<1>7. CASE k # 0
  <2>1. k - 1 \in 0 .. Len(c) /\ ~(k <= k - 1)
    BY <1>1, <1>5, <1>7
  <2>2. PICK h : LastListed(c, k - 1, h)
    BY <1>4, <2>1
  <2> DEFINE i0 == L - k
             g == [i \in i0 .. L |-> IF i = i0 THEN ListedAt(c, h, i0) ELSE h[i]]
  <2>3. i0 \in 1 .. L /\ i0 + 1 = L - (k - 1)
    BY <1>1, <1>5, <1>7
  <2> HIDE DEF i0
  <2>4. /\ \A i \in i0 + 1 .. L : h[i] \in Seq(Instructions(c))
        /\ \A i \in i0 + 1 .. L : h[i] = ListedAt(c, h, i)
    <3> DEFINE a == L - (k - 1)
    <3>1. h \in [a .. L -> Seq(Instructions(c))] /\ \A i \in a .. L : h[i] = ListedAt(c, h, i)
      BY <2>2 DEF LastListed
    <3>2. a = i0 + 1
      BY <2>3
    <3> HIDE DEF a, L
    <3>3. QED
      BY <3>1, <3>2
  <2>5. ListedAt(c, h, i0) \in Seq(Instructions(c))
    BY <2>3, <2>4, ListedIs
  <2>6. g[i0] = ListedAt(c, h, i0) /\ \A i \in i0 + 1 .. L : g[i] = h[i]
    BY <1>1, <2>3
  <2>7. \A i \in i0 .. L : i = i0 \/ i \in i0 + 1 .. L
    BY <1>1, <2>3
  <2>8. g \in [i0 .. L -> Seq(Instructions(c))]
    BY <2>4, <2>5, <2>7
  <2> HIDE DEF g
  <2>9. ASSUME NEW i \in i0 .. L PROVE g[i] = ListedAt(c, g, i)
    <3>1. i \in 1 .. L
      BY <1>1, <2>3
    <3>2. \A j \in i + 1 .. L : j \in i0 + 1 .. L
      BY <1>1, <2>3
    <3>3. \A j \in i + 1 .. L : g[j] = h[j]
      BY <2>6, <3>2
    <3>4. ListedAt(c, g, i) = ListedAt(c, h, i)
      BY <3>1, <3>3, ListedSame
    <3>5. QED
      BY <2>4, <2>6, <2>7, <3>4
  <2>10. LastListed(c, k, g)
    BY <2>8, <2>9 DEF LastListed, i0
  <2>11. QED
    BY <1>5, <2>10
<1>8. QED
  BY <1>6, <1>7

LEMMA Prepended ==
  ASSUME NEW S, NEW a \in S, NEW s \in Seq(S), NEW t \in Seq(S), Len(t) = Len(s) + 1, t[1] = a,
         \A k \in 1 .. Len(s) : t[k + 1] = s[k]
  PROVE  <<a>> \o s = t
<1> DEFINE u == <<a>> \o s
<1>1. u \in Seq(S) /\ Len(u) = Len(s) + 1 /\ u[1] = a /\ Len(s) \in Nat
  OBVIOUS
<1>2. \A k \in 1 .. Len(s) : u[k + 1] = s[k]
  OBVIOUS
<1>3. \A i \in 1 .. Len(u) : i = 1 \/ (i - 1 \in 1 .. Len(s) /\ (i - 1) + 1 = i)
  BY <1>1
<1> HIDE DEF u
<1>4. \A i \in 1 .. Len(u) : u[i] = t[i]
  BY <1>1, <1>2, <1>3
<1>5. u = t
  BY <1>1, <1>4, SeqEqual
<1>6. QED
  BY <1>5 DEF u

LEMMA SmallListings ==
  ASSUME NEW a, NEW b, NEW c, NEW d
  PROVE  /\ <<d>> \o <<>> = <<d>> /\ <<c>> \o <<d>> = <<c, d>>
         /\ <<b>> \o <<c, d>> = <<b, c, d>> /\ <<a>> \o <<b, c, d>> = <<a, b, c, d>>
<1> DEFINE S == {a, b, c, d}
<1>1. <<>> \in Seq(S) /\ <<d>> \in Seq(S) /\ <<c, d>> \in Seq(S) /\ <<b, c, d>> \in Seq(S) /\ <<a, b, c, d>> \in Seq(S)
  OBVIOUS
<1>2. <<d>> \o <<>> = <<d>>
  OBVIOUS
<1>3. <<c>> \o <<d>> = <<c, d>>
  <2> DEFINE s == <<d>>
             t == <<c, d>>
  <2>1. s \in Seq(S) /\ t \in Seq(S) /\ c \in S
    BY <1>1
  <2>2. Len(s) = 1 /\ Len(t) = 2 /\ s[1] = d /\ t[1] = c /\ t[2] = d
    OBVIOUS
  <2> HIDE DEF S, s, t
  <2>3. \A k \in 1 .. Len(s) : t[k + 1] = s[k]
    <3>1. \A k \in 1 .. 1 : (k = 1 /\ k + 1 = 2)
      OBVIOUS
    <3>2. QED
      BY <2>2, <3>1
  <2>4. Len(t) = Len(s) + 1 /\ t[1] = c
    BY <2>2
  <2>5. <<c>> \o s = t
    BY <2>1, <2>3, <2>4, Prepended
  <2>6. QED
    BY <2>5 DEF s, t
<1>4. <<b>> \o <<c, d>> = <<b, c, d>>
  <2> DEFINE s == <<c, d>>
             t == <<b, c, d>>
  <2>1. s \in Seq(S) /\ t \in Seq(S) /\ b \in S
    BY <1>1
  <2>2. Len(s) = 2 /\ Len(t) = 3 /\ s[1] = c /\ s[2] = d /\ t[1] = b /\ t[2] = c /\ t[3] = d
    OBVIOUS
  <2> HIDE DEF S, s, t
  <2>3. \A k \in 1 .. Len(s) : t[k + 1] = s[k]
    <3>1. \A k \in 1 .. 2 : (k = 1 /\ k + 1 = 2) \/ (k = 2 /\ k + 1 = 3)
      OBVIOUS
    <3>2. QED
      BY <2>2, <3>1
  <2>4. Len(t) = Len(s) + 1 /\ t[1] = b
    BY <2>2
  <2>5. <<b>> \o s = t
    BY <2>1, <2>3, <2>4, Prepended
  <2>6. QED
    BY <2>5 DEF s, t
<1>5. <<a>> \o <<b, c, d>> = <<a, b, c, d>>
  <2> DEFINE s == <<b, c, d>>
             t == <<a, b, c, d>>
  <2>1. s \in Seq(S) /\ t \in Seq(S) /\ a \in S
    BY <1>1
  <2>2. Len(s) = 3 /\ Len(t) = 4 /\ s[1] = b /\ s[2] = c /\ s[3] = d /\ t[1] = a /\ t[2] = b /\ t[3] = c /\ t[4] = d
    OBVIOUS
  <2> HIDE DEF S, s, t
  <2>3. \A k \in 1 .. Len(s) : t[k + 1] = s[k]
    <3>1. \A k \in 1 .. 3 : (k = 1 /\ k + 1 = 2) \/ (k = 2 /\ k + 1 = 3) \/ (k = 3 /\ k + 1 = 4)
      OBVIOUS
    <3>2. QED
      BY <2>2, <3>1
  <2>4. Len(t) = Len(s) + 1 /\ t[1] = a
    BY <2>2
  <2>5. <<a>> \o s = t
    BY <2>1, <2>3, <2>4, Prepended
  <2>6. QED
    BY <2>5 DEF s, t
<1>6. QED
  BY <1>2, <1>3, <1>4, <1>5

LEMMA ListingIs ==
  ASSUME NEW c \in Bytes
  PROVE  \E f : IsListing(c, f) /\ Listing(c) = f[1]
<1> DEFINE L == Len(c) + 1
           f == CHOOSE f : f = [i \in 1 .. Len(c) + 1 |->
                  IF i = Len(c) + 1 THEN <<>>
                  ELSE LET read == Read(c, i)
                       IN  IF read.end > Len(c) + 1 THEN <<Unknown>> ELSE <<read.ins>> \o f[read.end]]
           d == CHOOSE d : d = [i \in 1 .. L |-> ListedAt(c, d, i)]
<1>1. Len(c) \in Nat /\ Len(c) \in 0 .. Len(c) /\ L - Len(c) = 1
  BY DEF Bytes
<1>2. Listing(c) = f[1]
  BY DEF Listing
<1>3. f = d
  BY DEF ListedAt
<1>4. PICK g : LastListed(c, Len(c), g)
  BY <1>1, ListingsExist
<1>5. g = [i \in 1 .. L |-> ListedAt(c, g, i)]
  <2>1. g \in [1 .. L -> Seq(Instructions(c))] /\ \A i \in 1 .. L : g[i] = ListedAt(c, g, i)
    BY <1>1, <1>4 DEF LastListed
  <2>2. g = [i \in 1 .. L |-> g[i]]
    BY <2>1
  <2>3. QED
    BY <2>1, <2>2
<1>6. d = [i \in 1 .. L |-> ListedAt(c, d, i)]
  BY <1>5
<1> HIDE DEF f, d
<1>7. \A i \in 1 .. L : d[i] = ListedAt(c, d, i)
  BY <1>6
<1>8. \A i \in 1 .. L : d[i] \in Seq(Instructions(c))
  <2> DEFINE Bad == {k \in 0 .. L - 1 : d[L - k] \notin Seq(Instructions(c))}
  <2>1. SUFFICES ASSUME Bad # {} PROVE FALSE
    <3>1. \A i \in 1 .. L : L - i \in 0 .. L - 1 /\ L - (L - i) = i
      BY <1>1
    <3>2. QED
      BY <3>1
  <2>2. PICK k \in Bad : \A j \in Bad : k <= j
    <3>1. Bad \in SUBSET Nat
      BY <1>1
    <3>2. QED
      BY <2>1, <3>1, LeastOf
  <2>3. k \in 0 .. L - 1 /\ d[L - k] \notin Seq(Instructions(c))
    OBVIOUS
  <2>4. L - k \in 1 .. L
    BY <1>1, <2>3
  <2>5. ASSUME NEW j \in L - k + 1 .. L PROVE d[j] \in Seq(Instructions(c))
    <3>1. L - j \in 0 .. L - 1 /\ ~(k <= L - j) /\ L - (L - j) = j
      BY <1>1, <2>3
    <3>2. QED
      BY <2>2, <3>1
  <2>6. ListedAt(c, d, L - k) \in Seq(Instructions(c))
    BY <2>4, <2>5, ListedIs
  <2>7. QED
    BY <1>7, <2>3, <2>4, <2>6
<1>9. IsListing(c, d)
  BY <1>7, <1>8 DEF IsListing
<1>10. QED
  BY <1>2, <1>3, <1>9

(* What a listing says of an instruction that stands somewhere.            *)
LEMMA ListedNext ==
  ASSUME NEW c \in Bytes, NEW f, IsListing(c, f), NEW at \in Nat, NEW w, NEW op, NEW dst, NEW src,
         IsReadAs(w, op, dst, src), StandsAt(c, at, w), at + Len(w) <= Len(c)
  PROVE  f[at + 1] = <<Instr(op, dst, src)>> \o f[at + Len(w) + 1]
<1> DEFINE end == at + Len(w) + 1
           i == at + 1
<1>1. Len(c) \in Nat /\ Len(w) \in Nat /\ Len(w) > 0
  BY DEF IsReadAs, Bytes
<1>2. i \in 1 .. Len(c) + 1 /\ i # Len(c) + 1 /\ ~(end > Len(c) + 1)
  BY <1>1
<1>3. Read(c, i) = Decoded(op, dst, src, end)
  BY DEF IsReadAs
<1> HIDE DEF end, i
<1>4. Read(c, i).end = end /\ Read(c, i).ins = Instr(op, dst, src)
  BY <1>3 DEF Decoded
<1>5. f[i] = ListedAt(c, f, i)
  BY <1>2 DEF IsListing
<1>6. f[i] = <<Instr(op, dst, src)>> \o f[end]
  BY <1>2, <1>4, <1>5 DEF ListedAt
<1>7. QED
  BY <1>6 DEF end, i

LEMMA ListedLast ==
  ASSUME NEW c \in Bytes, NEW f, IsListing(c, f)
  PROVE  f[Len(c) + 1] = <<>>
<1>1. Len(c) \in Nat /\ Len(c) + 1 \in 1 .. Len(c) + 1
  BY DEF Bytes
<1>2. QED
  BY <1>1 DEF IsListing, ListedAt

(* One, two and three instructions.                                        *)
LEMMA ListingOfOne ==
  ASSUME NEW w, NEW op, NEW dst, NEW src, IsReadAs(w, op, dst, src)
  PROVE  Listing(w) = <<Instr(op, dst, src)>>
<1> DEFINE ins == Instr(op, dst, src)
<1>1. w \in Bytes /\ Len(w) \in Nat
  BY DEF IsReadAs, Bytes
<1>2. PICK f : IsListing(w, f) /\ Listing(w) = f[1]
  BY <1>1, ListingIs
<1>3. 0 + 1 = 1 /\ 0 + Len(w) = Len(w) /\ Len(w) <= Len(w) /\ 0 \in Nat
  BY <1>1
<1>4. f[0 + 1] = <<ins>> \o f[0 + Len(w) + 1]
  BY <1>1, <1>2, <1>3, StandsAlone, ListedNext
<1>5. f[Len(w) + 1] = <<>>
  BY <1>1, <1>2, ListedLast
<1> HIDE DEF ins
<1>6. <<ins>> \o <<>> = <<ins>>
  OBVIOUS
<1>7. QED
  BY <1>2, <1>3, <1>4, <1>5, <1>6 DEF ins

LEMMA ListingOfTwo ==
  ASSUME NEW v, NEW op1, NEW dst1, NEW src1, IsReadAs(v, op1, dst1, src1),
         NEW w, NEW op2, NEW dst2, NEW src2, IsReadAs(w, op2, dst2, src2)
  PROVE  v \o w \in Bytes /\ Listing(v \o w) = <<Instr(op1, dst1, src1), Instr(op2, dst2, src2)>>
<1> DEFINE a == Instr(op1, dst1, src1)
           b == Instr(op2, dst2, src2)
           c == v \o w
           m == Len(v)
           n == Len(w)
<1>1. v \in Bytes /\ w \in Bytes
  BY DEF IsReadAs
<1>2. c \in Bytes /\ m \in Nat /\ n \in Nat /\ Len(c) = m + n
  BY <1>1, Concatenated
<1>3. StandsAt(c, 0, v \o w)
  BY <1>2, StandsAlone
<1> HIDE DEF c
<1>4. StandsAt(c, 0, v) /\ StandsAt(c, 0 + m, w)
  BY <1>1, <1>3, StandsApart
<1>5. PICK f : IsListing(c, f) /\ Listing(c) = f[1]
  BY <1>2, ListingIs
<1>6. f[0 + 1] = <<a>> \o f[0 + m + 1]
  <2>1. 0 + m <= Len(c) /\ 0 \in Nat
    BY <1>2
  <2>2. QED
    BY <1>2, <1>4, <1>5, <2>1, ListedNext
<1>7. f[m + 1] = <<b>> \o f[m + n + 1]
  <2>1. m + n <= Len(c) /\ 0 + m = m
    BY <1>2
  <2>2. QED
    BY <1>2, <1>4, <1>5, <2>1, ListedNext
<1>8. f[m + n + 1] = <<>>
  BY <1>2, <1>5, ListedLast
<1>9. 0 + 1 = 1 /\ 0 + m + 1 = m + 1
  BY <1>2
<1> HIDE DEF a, b, m, n
<1>10. f[1] = <<a>> \o (<<b>> \o <<>>)
  BY <1>6, <1>7, <1>8, <1>9
<1>11. <<a>> \o (<<b>> \o <<>>) = <<a, b>>
  BY SmallListings
<1>12. QED
  BY <1>2, <1>5, <1>10, <1>11 DEF a, b, c

LEMMA ListingOfFour ==
  ASSUME NEW v, NEW op1, NEW dst1, NEW src1, IsReadAs(v, op1, dst1, src1),
         NEW w, NEW op2, NEW dst2, NEW src2, IsReadAs(w, op2, dst2, src2),
         NEW x, NEW op3, NEW dst3, NEW src3, IsReadAs(x, op3, dst3, src3),
         NEW y, NEW op4, NEW dst4, NEW src4, IsReadAs(y, op4, dst4, src4)
  PROVE  /\ v \o w \o (x \o y) \in Bytes
         /\ Listing(v \o w \o (x \o y)) =
              <<Instr(op1, dst1, src1), Instr(op2, dst2, src2), Instr(op3, dst3, src3), Instr(op4, dst4, src4)>>
<1> DEFINE i1 == Instr(op1, dst1, src1)
           i2 == Instr(op2, dst2, src2)
           i3 == Instr(op3, dst3, src3)
           i4 == Instr(op4, dst4, src4)
           a == v \o w
           b == x \o y
           c == a \o b
           m == Len(v)
           n == Len(w)
           k == Len(x)
           l == Len(y)
<1>1. v \in Bytes /\ w \in Bytes /\ x \in Bytes /\ y \in Bytes
  BY DEF IsReadAs
<1>2. a \in Bytes /\ m \in Nat /\ n \in Nat /\ Len(a) = m + n
  BY <1>1, Concatenated
<1>3. b \in Bytes /\ k \in Nat /\ l \in Nat /\ Len(b) = k + l
  BY <1>1, Concatenated
<1> HIDE DEF a, b
<1>4. c \in Bytes /\ Len(c) = Len(a) + Len(b)
  BY <1>2, <1>3, Concatenated
<1>5. StandsAt(c, 0, a \o b)
  BY <1>4, StandsAlone
<1> HIDE DEF c
<1>6. StandsAt(c, 0, a) /\ StandsAt(c, 0 + Len(a), b)
  BY <1>2, <1>3, <1>5, StandsApart
<1>7. StandsAt(c, 0, v) /\ StandsAt(c, 0 + m, w)
  BY <1>1, <1>6, StandsApart DEF a
<1> DEFINE o2 == m
           o3 == m + n
           o4 == m + n + k
           o5 == m + n + k + l
<1>8. o3 \in Nat /\ 0 + Len(a) = o3 /\ 0 + m = o2
  BY <1>2
<1>9. StandsAt(c, o3, x) /\ StandsAt(c, o3 + k, y)
  <2> HIDE DEF o3
  <2>1. StandsAt(c, o3, x \o y)
    BY <1>6, <1>8 DEF b
  <2>2. QED
    BY <1>1, <1>8, <2>1, StandsApart
<1>10. Len(c) = o5 /\ o2 <= o5 /\ o3 <= o5 /\ o4 <= o5 /\ o5 <= o5 /\ o2 \in Nat /\ o4 \in Nat
  BY <1>2, <1>3, <1>4
<1>11. PICK f : IsListing(c, f) /\ Listing(c) = f[1]
  BY <1>4, ListingIs
<1>12. f[0 + 1] = <<i1>> \o f[0 + m + 1]
  <2>1. 0 + m <= Len(c) /\ 0 \in Nat
    BY <1>8, <1>10
  <2>2. QED
    BY <1>4, <1>7, <1>11, <2>1, ListedNext
<1>13. f[o2 + 1] = <<i2>> \o f[o3 + 1]
  <2>1. m + n <= Len(c) /\ m \in Nat /\ StandsAt(c, m, w)
    BY <1>7, <1>8, <1>10
  <2>2. QED
    BY <1>4, <1>11, <2>1, ListedNext
<1>14. f[o3 + 1] = <<i3>> \o f[o4 + 1]
  <2>1. o3 + k <= Len(c)
    BY <1>10
  <2> HIDE DEF o3
  <2>2. f[o3 + 1] = <<i3>> \o f[o3 + k + 1]
    BY <1>4, <1>8, <1>9, <1>11, <2>1, ListedNext
  <2>3. QED
    BY <2>2 DEF o3
<1>15. f[o4 + 1] = <<i4>> \o f[o5 + 1]
  <2>1. o4 + l <= Len(c) /\ StandsAt(c, o4, y)
    BY <1>9, <1>10
  <2> HIDE DEF o4
  <2>2. f[o4 + 1] = <<i4>> \o f[o4 + l + 1]
    BY <1>4, <1>10, <1>11, <2>1, ListedNext
  <2>3. QED
    BY <2>2 DEF o4
<1>16. f[o5 + 1] = <<>>
  BY <1>4, <1>10, <1>11, ListedLast
<1>17. 0 + 1 = 1 /\ 0 + m + 1 = o2 + 1
  BY <1>2
<1> HIDE DEF i1, i2, i3, i4, o2, o3, o4, o5
<1>18. f[1] = <<i1>> \o (<<i2>> \o (<<i3>> \o (<<i4>> \o <<>>)))
  BY <1>12, <1>13, <1>14, <1>15, <1>16, <1>17
<1>19. <<i1>> \o (<<i2>> \o (<<i3>> \o (<<i4>> \o <<>>))) = <<i1, i2, i3, i4>>
  <2>1. /\ <<i4>> \o <<>> = <<i4>> /\ <<i3>> \o <<i4>> = <<i3, i4>>
        /\ <<i2>> \o <<i3, i4>> = <<i2, i3, i4>> /\ <<i1>> \o <<i2, i3, i4>> = <<i1, i2, i3, i4>>
    BY SmallListings
  <2>2. QED
    BY <2>1
<1>20. QED
  BY <1>4, <1>11, <1>18, <1>19 DEF i1, i2, i3, i4, a, b, c

(* The first instruction is listed first.                                  *)
LEMMA ListedFirst ==
  ASSUME NEW c \in Bytes, Len(c) > 0
  PROVE  /\ Listing(c) \in Seq(Instructions(c)) /\ Len(Listing(c)) > 0
         /\ Listing(c)[1] = Unknown \/ Listing(c)[1] = Read(c, 1).ins
<1>1. PICK f : IsListing(c, f) /\ Listing(c) = f[1]
  BY ListingIs
<1> DEFINE read == Read(c, 1)
<1>2. Len(c) \in Nat /\ 1 \in 1 .. Len(c) /\ 1 \in 1 .. Len(c) + 1 /\ 1 # Len(c) + 1
  BY DEF Bytes
<1>3. f[1] \in Seq(Instructions(c)) /\ f[1] = ListedAt(c, f, 1)
  BY <1>1, <1>2 DEF IsListing
<1>4. f[1] = IF read.end > Len(c) + 1 THEN <<Unknown>> ELSE <<read.ins>> \o f[read.end]
  BY <1>2, <1>3 DEF ListedAt
<1>5. read.end \in Nat /\ read.end > 1
  BY <1>2, ReadEnds
<1> HIDE DEF read
<1>6. CASE read.end > Len(c) + 1
  <2>1. f[1] = <<Unknown>>
    BY <1>4, <1>6
  <2>2. Len(f[1]) = 1 /\ f[1][1] = Unknown
    BY <2>1
  <2>3. QED
    BY <1>1, <1>3, <2>2
<1>7. CASE ~(read.end > Len(c) + 1)
  <2>1. read.end \in 1 .. Len(c) + 1
    BY <1>2, <1>5, <1>7
  <2>2. f[read.end] \in Seq(Instructions(c))
    BY <1>1, <2>1 DEF IsListing
  <2>3. f[1] = <<read.ins>> \o f[read.end]
    BY <1>4, <1>7
  <2>4. Len(f[1]) > 0 /\ f[1][1] = read.ins
    BY <2>2, <2>3
  <2>5. QED
    BY <1>1, <1>3, <2>4 DEF read
<1>8. QED
  BY <1>6, <1>7

-----------------------------------------------------------------------------
(* The detour over the scratch register.                                   *)
LEMMA Kinds ==
  /\ \A m, n : Reg(m) = Reg(n) => m = n
  /\ \A n : Reg(n) # None
  /\ \A b, n, r : AtBase(b, n) # Reg(r) /\ AtBase(b, n) # None
  /\ \A n : Reg(n).kind = "reg" /\ Imm(n).kind = "imm"
  /\ \A b, n : AtBase(b, n).kind = "mem" /\ AtBase(b, n).base = b /\ AtBase(b, n).index = NoRegister
<1>1. \A n : Reg(n).kind = "reg" /\ Reg(n).n = n /\ Imm(n).kind = "imm"
  BY DEF Reg, Imm
<1>2. \A b, n : AtBase(b, n).kind = "mem" /\ AtBase(b, n).base = b /\ AtBase(b, n).index = NoRegister
  BY DEF AtBase, Mem
<1>3. None.kind = "none"
  BY DEF None
<1>4. QED
  BY <1>1, <1>2, <1>3

LEMMA MentionedIn ==
  /\ \A r : Mentions(Reg(r), TMP) <=> r = TMP
  /\ \A b, n : Mentions(AtBase(b, n), TMP) <=> b = TMP
<1>1. TMP # NoRegister
  BY DEF TMP, R11, NoRegister
<1>2. QED
  BY <1>1, Kinds DEF Mentions

LEMMA Instrs ==
  ASSUME NEW op, NEW dst, NEW src
  PROVE  /\ Instr(op, dst, src).op = op /\ Instr(op, dst, src).dst = dst /\ Instr(op, dst, src).src = src
         /\ \A x : [Instr(op, dst, src) EXCEPT !.src = x] = Instr(op, dst, x)
         /\ \A x : [Instr(op, dst, src) EXCEPT !.dst = x] = Instr(op, x, src)
BY DEF Instr

LEMMA FusedOne ==
  ASSUME NEW a
  PROVE  Fused(<<a>>, TMP) = <<a>>
BY DEF Fused

LEMMA FusedTwo ==
  ASSUME NEW a, NEW b
  PROVE  /\ ~Loads(a, TMP) => Fused(<<a, b>>, TMP) = <<a, b>>
         /\ Loads(a, TMP) /\ b.src = Reg(TMP) /\ ~Mentions(b.dst, TMP) =>
              Fused(<<a, b>>, TMP) = <<[b EXCEPT !.src = a.src]>>
         /\ Loads(a, TMP) /\ b.src = None /\ b.dst = Reg(TMP) /\ b.op = "push" =>
              Fused(<<a, b>>, TMP) = <<[b EXCEPT !.dst = a.src]>>
         /\ Loads(a, TMP) /\ b.src = Reg(TMP) /\ Mentions(b.dst, TMP) => Fused(<<a, b>>, TMP) = <<a, b>>
<1> DEFINE l == <<a, b>>
           n == Len(l)
           done(ins) == Append(SubSeq(l, 1, n - 2), ins)
<1>1. n = 2 /\ l[n] = b /\ l[n - 1] = a
  OBVIOUS
<1>2. \A x : done(x) = <<x>>
  <2>1. SubSeq(l, 1, n - 2) = <<>>
    <3>1. n - 2 = 0
      BY <1>1
    <3>2. SubSeq(l, 1, 0) = <<>>
      OBVIOUS
    <3>3. QED
      BY <3>1, <3>2
  <2>2. \A x : Append(<<>>, x) = <<x>>
    OBVIOUS
  <2>3. QED
    BY <2>1, <2>2
<1>3. Reg(TMP) # None
  BY Kinds
<1>4. Fused(l, TMP) =
        CASE n < 2 -> l
          [] n >= 2 /\ ~Loads(l[n - 1], TMP) -> l
          [] OTHER ->
               CASE l[n].src = Reg(TMP) /\ ~Mentions(l[n].dst, TMP) -> done([l[n] EXCEPT !.src = l[n - 1].src])
                 [] l[n].src = None /\ l[n].dst = Reg(TMP) /\ l[n].op = "push" -> done([l[n] EXCEPT !.dst = l[n - 1].src])
                 [] OTHER -> l
  BY DEF Fused
<1> HIDE DEF l, n, done
<1>5. Fused(l, TMP) =
        IF ~Loads(a, TMP) THEN l
        ELSE CASE b.src = Reg(TMP) /\ ~Mentions(b.dst, TMP) -> done([b EXCEPT !.src = a.src])
               [] b.src = None /\ b.dst = Reg(TMP) /\ b.op = "push" -> done([b EXCEPT !.dst = a.src])
               [] OTHER -> l
  BY <1>1, <1>4
<1>6. CASE ~Loads(a, TMP)
  BY <1>5, <1>6 DEF l
<1>7. CASE Loads(a, TMP)
  BY <1>2, <1>3, <1>5, <1>7 DEF l
<1>8. QED
  BY <1>6, <1>7

LEMMA FusedFour ==
  ASSUME NEW a, NEW b, NEW c, NEW d, Loads(c, TMP), d.src = Reg(TMP), ~Mentions(d.dst, TMP)
  PROVE  Fused(<<a, b, c, d>>, TMP) = <<a, b, [d EXCEPT !.src = c.src]>>
<1> DEFINE l == <<a, b, c, d>>
           x == [d EXCEPT !.src = c.src]
<1>1. Len(l) = 4 /\ l[4] = d /\ l[3] = c /\ 4 - 1 = 3 /\ 4 - 2 = 2
  OBVIOUS
<1>2. Append(SubSeq(l, 1, 2), x) = <<a, b, x>>
  <2> HIDE DEF x
  <2> DEFINE T == {a, b, c, d, x}
             front == SubSeq(l, 1, 2)
             u == Append(front, x)
             t == <<a, b, x>>
  <2>1. l \in Seq(T) /\ l[1] = a /\ l[2] = b /\ x \in T
    OBVIOUS
  <2>2. t \in Seq(T) /\ Len(t) = 3 /\ t[1] = a /\ t[2] = b /\ t[3] = x
    OBVIOUS
  <2> HIDE DEF T, l, t
  <2>3. front \in Seq(T) /\ Len(front) = 2 /\ front[1] = a /\ front[2] = b
    <3>1. \A i \in 1 .. 2 : i = 1 \/ i = 2
      OBVIOUS
    <3>2. a \in T /\ b \in T
      BY DEF T
    <3>3. \A i \in 1 .. 2 : l[i] \in T
      BY <2>1, <3>1, <3>2
    <3>4. 1 \in Int /\ 2 \in Int
      OBVIOUS
    <3>5. front \in Seq(T) /\ Len(front) = 2 /\ \A i \in 1 .. 2 : front[i] = l[1 + i - 1]
      <4>1. /\ front \in Seq(T) /\ Len(front) = IF 1 <= 2 THEN 2 - 1 + 1 ELSE 0
            /\ \A i \in 1 .. 2 - 1 + 1 : front[i] = l[1 + i - 1]
        BY <3>3, <3>4, SubSeqProperties
      <4>2. 2 - 1 + 1 = 2 /\ 1 <= 2
        OBVIOUS
      <4>3. QED
        BY <4>1, <4>2
    <3> HIDE DEF front
    <3>6. 1 \in 1 .. 2 /\ 2 \in 1 .. 2 /\ 1 + 1 - 1 = 1 /\ 1 + 2 - 1 = 2
      OBVIOUS
    <3>7. QED
      BY <2>1, <3>5, <3>6
  <2> HIDE DEF front
  <2>4. u \in Seq(T) /\ Len(u) = 3 /\ u[1] = a /\ u[2] = b /\ u[3] = x
    <3>1. /\ u \in Seq(T) /\ Len(u) = Len(front) + 1 /\ u[Len(front) + 1] = x
          /\ \A i \in 1 .. Len(front) : u[i] = front[i]
      <4>1. front \in Seq(T) /\ x \in T
        BY <2>1, <2>3
      <4>2. QED
        BY <4>1, AppendProperties
    <3> HIDE DEF u
    <3>2. 1 \in 1 .. 2 /\ 2 \in 1 .. 2 /\ 2 + 1 = 3
      OBVIOUS
    <3>3. QED
      BY <2>3, <3>1, <3>2
  <2> HIDE DEF u
  <2>5. \A i \in 1 .. Len(u) : u[i] = t[i]
    BY <2>2, <2>4
  <2>6. u = t
    BY <2>2, <2>4, <2>5, SeqEqual
  <2>7. QED
    BY <2>6 DEF u, front, t
<1>3. Reg(TMP) # None
  BY Kinds
<1> HIDE DEF l
<1>4. Fused(l, TMP) = Append(SubSeq(l, 1, 2), x)
  BY <1>1, <1>3 DEF Fused
<1>5. QED
  BY <1>2, <1>4 DEF l

(* What does not begin with a move is no move.                             *)
LEMMA FusedIsNoMove ==
  ASSUME NEW S, NEW l \in Seq(S), Len(l) > 0, l[1].op # "mov", NEW dst, NEW src
  PROVE  Fused(l, TMP) # <<Instr("mov", dst, src)>>
<1> DEFINE n == Len(l)
           ins == Instr("mov", dst, src)
           front == SubSeq(l, 1, n - 2)
<1>1. n \in Nat /\ ins.op = "mov"
  BY Instrs
<1>2. <<ins>>[1] = ins /\ Len(<<ins>>) = 1
  OBVIOUS
<1>3. l # <<ins>>
  <2> HIDE DEF ins
  <2>1. QED
    BY <1>1, <1>2
<1>4. CASE n < 2 \/ ~Loads(l[n - 1], TMP)
  <2>1. Fused(l, TMP) = l
    <3>1. n < 2 \/ (~(n < 2) /\ n >= 2 /\ ~Loads(l[n - 1], TMP))
      BY <1>1, <1>4
    <3>2. QED
      BY <3>1 DEF Fused
  <2>2. QED
    BY <1>3, <2>1
<1>5. CASE n >= 2 /\ Loads(l[n - 1], TMP)
  <2>1. Fused(l, TMP) = l \/ \E x : Fused(l, TMP) = Append(front, x)
    BY <1>1, <1>5 DEF Fused
  <2>2. n # 2
    <3>1. n = 2 => n - 1 = 1
      OBVIOUS
    <3>2. l[n - 1].op = "mov"
      BY <1>5 DEF Loads
    <3> HIDE DEF n
    <3>3. QED
      BY <3>1, <3>2
  <2>3. ASSUME NEW x PROVE Append(front, x) # <<ins>>
    <3>1. front \in Seq(S) /\ Len(front) = n - 2
      <4>1. \A i \in 1 .. n - 2 : l[i] \in S
        BY <1>1
      <4>2. n - 2 \in Int /\ 1 \in Int
        BY <1>1
      <4>3. front \in Seq(S) /\ Len(front) = IF 1 <= n - 2 THEN n - 2 - 1 + 1 ELSE 0
        BY <4>1, <4>2, SubSeqProperties
      <4> HIDE DEF front, n
      <4>4. QED
        BY <1>1, <1>5, <4>3
    <3> HIDE DEF front, ins
    <3>2. Len(Append(front, x)) = Len(front) + 1
      BY <3>1
    <3>3. Len(Append(front, x)) = n - 1
      BY <1>1, <3>1, <3>2
    <3> HIDE DEF n
    <3>4. n - 1 # 1
      BY <1>1, <2>2
    <3>5. QED
      BY <1>2, <3>3, <3>4
  <2>4. QED
    BY <1>3, <2>1, <2>3
<1>6. QED
  BY <1>1, <1>4, <1>5

-----------------------------------------------------------------------------
(* Calls whose bytes say what they ask for unless they are known not to.   *)
IsRight(call) == call.bytes \in Bytes /\ ((Fused(Listing(call.bytes), TMP) = call.asks) <=> ~call.wrong)

LEMMA CallIs ==
  ASSUME NEW w, NEW asks, NEW wrong
  PROVE  IsRight(Call(w, asks, wrong)) <=> w \in Bytes /\ ((Fused(Listing(w), TMP) = asks) <=> ~wrong)
BY DEF Call, IsRight

LEMMA RightOne ==
  ASSUME NEW w, NEW op, NEW dst, NEW src, IsReadAs(w, op, dst, src)
  PROVE  IsRight(One(w, op, dst, src, FALSE))
<1>1. w \in Bytes /\ Listing(w) = <<Instr(op, dst, src)>>
  BY ListingOfOne DEF IsReadAs
<1>2. QED
  BY <1>1, FusedOne, CallIs DEF One

(* One read with another operand is not what it asks for.                  *)
LEMMA RightOrCut ==
  ASSUME NEW w, NEW op, NEW dst, NEW src, NEW toDst, NEW toSrc, IsReadAs(w, op, dst, src), NEW wrong \in BOOLEAN,
         wrong <=> ~(dst = toDst /\ src = toSrc)
  PROVE  IsRight(One(w, op, toDst, toSrc, wrong))
<1> DEFINE a == Instr(op, dst, src)
           b == Instr(op, toDst, toSrc)
           asks == <<b>>
<1>1. w \in Bytes /\ Listing(w) = <<a>>
  BY ListingOfOne DEF IsReadAs
<1>2. a = b <=> dst = toDst /\ src = toSrc
  BY Instrs
<1> HIDE DEF a, b
<1>3. <<a>> = <<b>> <=> a = b
  <2>1. <<a>>[1] = a /\ <<b>>[1] = b
    OBVIOUS
  <2>2. QED
    BY <2>1
<1>4. Fused(Listing(w), TMP) = asks <=> ~wrong
  BY <1>1, <1>2, <1>3, FusedOne
<1> HIDE DEF asks
<1>5. IsRight(Call(w, asks, wrong))
  BY <1>1, <1>4, CallIs
<1>6. QED
  BY <1>5 DEF One, asks, b

(* One with an immediate through the scratch register, on an operand.      *)
LEMMA RightLoaded ==
  ASSUME NEW i, IsLong(i), NEW w, NEW op, NEW dst, NEW toDst, IsReadAs(w, op, dst, Reg(TMP)), NEW wrong \in BOOLEAN,
         wrong <=> Mentions(dst, TMP) \/ dst # toDst
  PROVE  IsRight(One(asm_movq_ri(TMP, i) \o w, op, toDst, Imm(i), wrong))
<1> DEFINE v == asm_movq_ri(TMP, i)
           a == Instr("mov", Reg(TMP), Imm(i))
           b == Instr(op, dst, Reg(TMP))
           x == Instr(op, dst, Imm(i))
           y == Instr(op, toDst, Imm(i))
           asks == <<y>>
<1>1. v \o w \in Bytes /\ Listing(v \o w) = <<a, b>>
  <2>1. IsReadAs(v, "mov", Reg(TMP), Imm(i))
    BY ScratchIsARegister, LoadRead
  <2>2. QED
    BY <2>1, ListingOfTwo
<1>2. Loads(a, TMP) /\ a.src = Imm(i) /\ b.src = Reg(TMP) /\ b.dst = dst
  BY Instrs, Kinds DEF Loads
<1>3. [b EXCEPT !.src = a.src] = x
  BY <1>2, Instrs
<1>4. x = y <=> dst = toDst
  BY Instrs
<1> HIDE DEF a, b, v, x, y
<1>5. <<x>> = <<y>> <=> x = y
  <2>1. <<x>>[1] = x /\ <<y>>[1] = y
    OBVIOUS
  <2>2. QED
    BY <2>1
<1>6. CASE ~Mentions(dst, TMP)
  <2>1. Fused(<<a, b>>, TMP) = <<x>>
    <3>1. Fused(<<a, b>>, TMP) = <<[b EXCEPT !.src = a.src]>>
      BY <1>2, <1>6, FusedTwo
    <3>2. QED
      BY <1>3, <3>1
  <2>2. Fused(Listing(v \o w), TMP) = asks <=> ~wrong
    BY <1>1, <1>4, <1>5, <1>6, <2>1
  <2> HIDE DEF asks
  <2>3. IsRight(Call(v \o w, asks, wrong))
    BY <1>1, <2>2, CallIs
  <2>4. QED
    BY <2>3 DEF One, v, asks, y
<1>7. CASE Mentions(dst, TMP)
  <2>1. Fused(<<a, b>>, TMP) = <<a, b>>
    BY <1>2, <1>7, FusedTwo
  <2>2. <<a, b>> # asks
    <3>1. Len(<<a, b>>) = 2 /\ Len(asks) = 1
      OBVIOUS
    <3>2. QED
      BY <3>1
  <2> HIDE DEF asks
  <2>3. IsRight(Call(v \o w, asks, wrong))
    BY <1>1, <1>7, <2>1, <2>2, CallIs
  <2>4. QED
    BY <2>3 DEF One, v, asks, y
<1>8. QED
  BY <1>6, <1>7

-----------------------------------------------------------------------------
(* Every call, one group after the other.                                  *)
LEMMA RegistersRead ==
  ASSUME NEW d \in 0 .. 15, NEW s \in 0 .. 15
  PROVE  /\ IsReadAs(asm_movq_rr(d, s), "mov", Reg(d), Reg(s)) /\ IsReadAs(asm_addq_rr(d, s), "add", Reg(d), Reg(s))
         /\ IsReadAs(asm_subq_rr(d, s), "sub", Reg(d), Reg(s)) /\ IsReadAs(asm_mulq_rr(d, s), "mul", Reg(d), Reg(s))
         /\ IsReadAs(asm_cmpq_rr(d, s), "cmp", Reg(d), Reg(s)) /\ IsReadAs(asm_testq_rr(d, s), "test", Reg(s), Reg(d))
<1>1. IsSimple(asm_oper_init(d), Reg(d)) /\ IsSimple(asm_oper_init(s), Reg(s))
  BY SimpleOperands
<1>2. IsReadAs(asm_movq_rr(d, s), "mov", Reg(d), Reg(s))
  BY <1>1, QuadFrom, Tables DEF asm_movq_rr
<1>3. IsReadAs(asm_addq_rr(d, s), "add", Reg(d), Reg(s))
  BY <1>1, QuadTo, Tables DEF asm_addq_rr
<1>4. IsReadAs(asm_subq_rr(d, s), "sub", Reg(d), Reg(s))
  BY <1>1, QuadTo, Tables DEF asm_subq_rr
<1>5. IsReadAs(asm_mulq_rr(d, s), "mul", Reg(d), Reg(s))
  BY <1>1, QuadMul DEF asm_mulq_rr
<1>6. IsReadAs(asm_cmpq_rr(d, s), "cmp", Reg(d), Reg(s))
  BY <1>1, QuadTo, Tables DEF asm_cmpq_rr
<1>7. IsReadAs(asm_testq_rr(d, s), "test", Reg(s), Reg(d))
  BY <1>1, QuadFrom, Tables DEF asm_testq_rr
<1>8. QED
  BY <1>2, <1>3, <1>4, <1>5, <1>6, <1>7

LEMMA RightOfRegisters ==
  ASSUME NEW d \in 0 .. 15, NEW s \in 0 .. 15
  PROVE  \A c \in OfRegisters(d, s) : IsRight(c)
BY RegistersRead, RightOne DEF OfRegisters

LEMMA OneOperandsRead ==
  ASSUME NEW oper, NEW rm, IsSimple(oper, rm)
  PROVE  /\ IsReadAs(WithOperand({}, <<255>>, 2, oper), "call", rm, None)
         /\ IsReadAs(WithOperand({}, <<255>>, 4, oper), "jmp", rm, None)
         /\ IsReadAs(WithOperand({}, <<255>>, 6, oper), "push", rm, None)
         /\ IsReadAs(WithOperand({}, <<143>>, 0, oper), "pop", rm, None)
<1>1. 2 \in 0 .. 7 /\ 4 \in 0 .. 7 /\ 6 \in 0 .. 7 /\ 0 \in 0 .. 7
  OBVIOUS
<1>2. IsReadAs(WithOperand({}, <<255>>, 2, oper), "call", rm, None)
  BY <1>1, OneOperandIs, OneOperandRead
<1>3. IsReadAs(WithOperand({}, <<255>>, 4, oper), "jmp", rm, None)
  BY <1>1, OneOperandIs, OneOperandRead
<1>4. IsReadAs(WithOperand({}, <<255>>, 6, oper), "push", rm, None)
  BY <1>1, OneOperandIs, OneOperandRead
<1>5. IsReadAs(WithOperand({}, <<143>>, 0, oper), "pop", rm, None)
  BY <1>1, OneOperandIs, OneOperandRead
<1>6. QED
  BY <1>2, <1>3, <1>4, <1>5

LEMMA RightOfRegister ==
  ASSUME NEW r \in 0 .. 15
  PROVE  \A c \in OfRegister(r) : IsRight(c)
<1>1. IsSimple(asm_oper_init(r), Reg(r))
  BY SimpleOperands
<1>2. IsReadAs(asm_call_r(r), "call", Reg(r), None)
  BY <1>1, OneOperandsRead DEF asm_call_r
<1>3. IsReadAs(asm_jmp_r(r), "jmp", Reg(r), None)
  BY <1>1, OneOperandsRead DEF asm_jmp_r
<1>4. QED
  BY <1>2, <1>3, PushesAndPops, RightOne DEF OfRegister

(* Doubles.                                                                *)
LEMMA SseRegisters ==
  ASSUME NEW d \in 0 .. 15, NEW s \in 0 .. 15, NEW opcode \in {88, 89, 92, 94}
  PROVE  IsReadAs(Sse(opcode, d, s), SseOperations[opcode], Xmm(d), Xmm(s))
<1> DEFINE bits == If(REX_R, d > 7) \cup If(REX_B, s > 7)
           oper == asm_oper_init(s)
           w == Sse(opcode, d, s)
<1>1. IsOperand(oper, Reg(s)) /\ oper.rex = If(REX_B, s > 7)
  BY RegisterOperand
<1>2. w = SseWith(bits, opcode, d, oper)
  BY DEF Sse, SseWith, emit_rex_rb_xx, emit_xmm_register_operand, asm_oper_init
<1> HIDE DEF oper, w
<1>3. /\ bits \in SUBSET Nat /\ 4 \notin bits /\ 5 \notin bits /\ 7 \notin bits
      /\ (REX_R \in bits <=> d > 7) /\ (REX_B \in bits <=> s > 7) /\ REX_X \notin bits
  BY DEF If, REX_B, REX_R, REX_X
<1>4. (REX_B \in oper.rex <=> s > 7) /\ REX_X \notin oper.rex
  BY <1>1 DEF If, REX_B, REX_X
<1> HIDE DEF bits
<1>5. SseBits(bits, d, oper)
  BY <1>3, <1>4 DEF SseBits, IsPlain, IsReadBy
<1>6. IsSseCode(opcode) /\ opcode # 17
  BY DEF IsSseCode
<1>7. IsReadAs(w, SseOperations[opcode], Xmm(d), AsXmm(Reg(s)))
  BY <1>1, <1>2, <1>5, <1>6, SseRead
<1>8. AsXmm(Reg(s)) = Xmm(s)
  BY DEF AsXmm, Reg
<1>9. QED
  BY <1>7, <1>8 DEF w

LEMMA RightOfFpuRegisters ==
  ASSUME NEW d \in 0 .. 15, NEW s \in 0 .. 15
  PROVE  \A c \in OfFpuRegisters(d, s) : IsRight(c)
<1>1. IsReadAs(asm_addsd_rr(d, s), "addsd", Xmm(d), Xmm(s))
  <2>1. IsReadAs(Sse(88, d, s), SseOperations[88], Xmm(d), Xmm(s))
    BY SseRegisters
  <2>2. QED
    BY <2>1, SseTable DEF asm_addsd_rr
<1>2. IsReadAs(asm_mulsd_rr(d, s), "mulsd", Xmm(d), Xmm(s))
  <2>1. IsReadAs(Sse(89, d, s), SseOperations[89], Xmm(d), Xmm(s))
    BY SseRegisters
  <2>2. QED
    BY <2>1, SseTable DEF asm_mulsd_rr
<1>3. IsReadAs(asm_subsd_rr(d, s), "subsd", Xmm(d), Xmm(s))
  <2>1. IsReadAs(Sse(92, d, s), SseOperations[92], Xmm(d), Xmm(s))
    BY SseRegisters
  <2>2. QED
    BY <2>1, SseTable DEF asm_subsd_rr
<1>4. IsReadAs(asm_divsd_rr(d, s), "divsd", Xmm(d), Xmm(s))
  <2>1. IsReadAs(Sse(94, d, s), SseOperations[94], Xmm(d), Xmm(s))
    BY SseRegisters
  <2>2. QED
    BY <2>1, SseTable DEF asm_divsd_rr
<1>5. QED
  BY <1>1, <1>2, <1>3, <1>4, RightOne DEF OfFpuRegisters

(* Addresses: what is read is the one with what is kept of the             *)
(* displacement.                                                           *)
LEMMA CutMeans ==
  ASSUME NEW b, NEW n \in Int
  PROVE  IsCut(AtBase(b, n)) \in BOOLEAN /\ (IsCut(AtBase(b, n)) <=> AtBase(b, Kept(n)) # AtBase(b, n))
<1>1. AtBase(b, n).disp = n /\ AtBase(b, Kept(n)).disp = Kept(n)
  BY DEF AtBase, Mem
<1>2. FitsInt32(n) <=> IsWord(n)
  BY SMT DEF FitsInt32, IntMin, IsWord
<1>3. IsCut(AtBase(b, n)) <=> Kept(n) # n
  BY <1>1, <1>2, KeptWhole DEF IsCut
<1>4. QED
  BY <1>1, <1>3 DEF IsCut

LEMMA RightOfAddress ==
  ASSUME NEW a, NEW at, NEW to, IsSimple(a, at), NEW r \in 0 .. 15, IsCut(to) \in BOOLEAN, IsCut(to) <=> at # to
  PROVE  \A c \in OfAddress(a, to, r) : IsRight(c)
<1>1. IsReadAs(asm_movq_ra(r, a), "mov", Reg(r), at) /\ IsReadAs(asm_movq_ar(a, r), "mov", at, Reg(r))
  BY QuadTo, QuadFrom, Tables DEF asm_movq_ra, asm_movq_ar
<1>2. IsReadAs(asm_addq_ra(r, a), "add", Reg(r), at) /\ IsReadAs(asm_addq_ar(a, r), "add", at, Reg(r))
  BY QuadTo, QuadFrom, Tables DEF asm_addq_ra, asm_addq_ar
<1>3. IsReadAs(asm_subq_ra(r, a), "sub", Reg(r), at) /\ IsReadAs(asm_subq_ar(a, r), "sub", at, Reg(r))
  BY QuadTo, QuadFrom, Tables DEF asm_subq_ra, asm_subq_ar
<1>4. /\ IsReadAs(asm_call_a(a), "call", at, None) /\ IsReadAs(asm_jmp_a(a), "jmp", at, None)
      /\ IsReadAs(asm_push_a(a), "push", at, None) /\ IsReadAs(asm_pop_a(a), "pop", at, None)
  BY OneOperandsRead DEF asm_call_a, asm_jmp_a, asm_push_a, asm_pop_a
<1>5. ASSUME NEW w, NEW op, NEW src, IsReadAs(w, op, at, src) PROVE IsRight(One(w, op, to, src, IsCut(to)))
  BY <1>5, RightOrCut
<1>6. ASSUME NEW w, NEW op, NEW dst, IsReadAs(w, op, dst, at) PROVE IsRight(One(w, op, dst, to, IsCut(to)))
  BY <1>6, RightOrCut
<1>7. QED
  BY <1>1, <1>2, <1>3, <1>4, <1>5, <1>6 DEF OfAddress

IsMove(w, opcode, f, a) == w = <<242>> \o emit_rex_rb_ra(f, a) \o <<15, opcode>> \o emit_operand(f % 8, a)

LEMMA MovesOfDoubles ==
  ASSUME NEW b \in 0 .. 15, NEW n \in Int, NEW f \in 0 .. 15, NEW opcode \in {16, 17},
         NEW a, a = asm_addr_init(b, n),
         NEW w, IsMove(w, opcode, f, a)
  PROVE  LET at == AtBase(b, Kept(n))
         IN  /\ ~(f > 7 \/ b > 7) /\ opcode = 16 => IsReadAs(w, "movsd", Xmm(f), at)
             /\ ~(f > 7 \/ b > 7) /\ opcode = 17 => IsReadAs(w, "movsd", at, Xmm(f))
             /\ f > 7 \/ b > 7 => IsMisplaced(w)
<1> DEFINE at == AtBase(b, Kept(n))
           bits == If(REX_R, f > 7) \cup a.rex
<1>1. IsOperand(a, at) /\ a.rex = If(REX_B, b > 7)
  BY AddressOperand
<1>2. emit_rex_rb_ra(f, a) = IF bits = {} THEN <<>> ELSE <<BitsAsByte(bits)>>
  BY DEF emit_rex_rb_ra
<1>3. bits \in SUBSET {REX_R, REX_B} /\ (bits = {} <=> ~(f > 7 \/ b > 7)) /\ (bits = {} => ~(f > 7) /\ a.rex = {})
  BY <1>1 DEF If
<1>4. AsXmm(at) = at
  BY Kinds DEF AsXmm
<1> HIDE DEF bits, at
<1>5. CASE bits = {}
  <2>1. w = SseWith({}, opcode, f, a)
    BY <1>2, <1>5 DEF IsMove, SseWith, RexByte
  <2>2. SseBits({}, f, a)
    BY <1>3, <1>5 DEF SseBits, IsPlain, IsReadBy
  <2>3. IsSseCode(opcode) /\ SseOperations[16] = "movsd" /\ SseOperations[17] = "movsd"
    BY SseTable DEF IsSseCode
  <2>4. /\ opcode = 17 => IsReadAs(w, SseOperations[opcode], AsXmm(at), Xmm(f))
        /\ opcode # 17 => IsReadAs(w, SseOperations[opcode], Xmm(f), AsXmm(at))
    BY <1>1, <2>1, <2>2, <2>3, SseRead
  <2>5. QED
    <3>1. CASE opcode = 16
      BY <1>3, <1>4, <1>5, <2>3, <2>4, <3>1 DEF at
    <3>2. CASE opcode = 17
      BY <1>3, <1>4, <1>5, <2>3, <2>4, <3>2 DEF at
    <3>3. QED
      BY <3>1, <3>2
<1>6. CASE bits # {}
  <2> DEFINE byte == BitsAsByte(bits)
             s == <<15, opcode>>
             q == emit_operand(f % 8, a)
  <2>1. byte \in {1, 4, 5}
    BY <1>3, <1>6, BareBits
  <2>2. s \in Bytes
    BY DEF Bytes, Byte
  <2>3. q \in Bytes
    <3>1. f % 8 \in 0 .. 7 /\ Encodes(a)
      BY <1>1 DEF IsOperand
    <3>2. QED
      BY <3>1, OperandLength
  <2>4. w = Misplaced(byte, s, q)
    BY <1>2, <1>6 DEF IsMove, Misplaced
  <2> HIDE DEF byte, s, q
  <2>5. IsMisplaced(w)
    BY <2>1, <2>2, <2>3, <2>4 DEF IsMisplaced
  <2>6. QED
    BY <1>3, <1>6, <2>5 DEF at
<1>7. QED
  BY <1>5, <1>6

LEMMA RightMisplaced ==
  ASSUME NEW w, IsMisplaced(w), NEW dst, NEW src
  PROVE  IsRight(One(w, "movsd", dst, src, TRUE))
<1> DEFINE l == Listing(w)
           asks == <<Instr("movsd", dst, src)>>
<1>1. w \in Bytes /\ Len(w) > 0 /\ Read(w, 1) = Undecoded(w)
  BY MisplacedBits
<1>2. PICK f : IsListing(w, f) /\ l = f[1]
  BY <1>1, ListingIs
<1>3. Read(w, 1).ins = Unknown /\ Read(w, 1).end = Len(w) + 1
  BY <1>1 DEF Undecoded
<1>4. Len(w) \in Nat /\ 1 \in 1 .. Len(w) + 1 /\ 1 # Len(w) + 1 /\ ~(Len(w) + 1 > Len(w) + 1)
  BY <1>1 DEF Bytes
<1>5. f[1] = <<Unknown>> \o f[Len(w) + 1]
  BY <1>2, <1>3, <1>4 DEF IsListing, ListedAt
<1>6. f[Len(w) + 1] = <<>>
  BY <1>1, <1>2, ListedLast
<1>7. l = <<Unknown>>
  <2>1. <<Unknown>> \o <<>> = <<Unknown>>
    OBVIOUS
  <2>2. QED
    BY <1>2, <1>5, <1>6, <2>1
<1>8. <<Unknown>> # asks
  <2>1. Unknown # Instr("movsd", dst, src)
    BY Instrs DEF Unknown
  <2>2. <<Unknown>>[1] = Unknown /\ asks[1] = Instr("movsd", dst, src)
    OBVIOUS
  <2> HIDE DEF asks
  <2>3. QED
    BY <2>1, <2>2
<1> HIDE DEF l
<1>9. Fused(l, TMP) # asks
  BY <1>7, <1>8, FusedOne
<1>10. QED
  BY <1>1, <1>9, CallIs DEF One, l

LEMMA RightOfFpuAddress ==
  ASSUME NEW b \in 0 .. 15, NEW n \in Int, NEW f \in 0 .. 15
  PROVE  \A c \in OfFpuAddress(asm_addr_init(b, n), AtBase(b, n), f) : IsRight(c)
<1> DEFINE a == asm_addr_init(b, n)
           at == AtBase(b, Kept(n))
           to == AtBase(b, n)
           wrong == f > 7 \/ to.base > 7 \/ IsCut(to)
           load == asm_movsd_ra(f, a)
           store == asm_movsd_ar(a, f)
<1>1. wrong <=> f > 7 \/ b > 7 \/ at # to
  BY Kinds, CutMeans
<1>2. /\ ~(f > 7 \/ b > 7) => IsReadAs(load, "movsd", Xmm(f), at) /\ IsReadAs(store, "movsd", at, Xmm(f))
      /\ f > 7 \/ b > 7 => IsMisplaced(load) /\ IsMisplaced(store)
  <2>1. IsMove(load, 16, f, a)
    BY DEF IsMove, asm_movsd_ra
  <2>2. IsMove(store, 17, f, a)
    BY DEF IsMove, asm_movsd_ar
  <2> HIDE DEF a, load, store, at
  <2>3. a = asm_addr_init(b, n) /\ at = AtBase(b, Kept(n))
    BY DEF a, at
  <2>4. /\ ~(f > 7 \/ b > 7) => IsReadAs(load, "movsd", Xmm(f), at)
        /\ f > 7 \/ b > 7 => IsMisplaced(load)
    BY <2>1, <2>3, MovesOfDoubles
  <2>5. /\ ~(f > 7 \/ b > 7) => IsReadAs(store, "movsd", at, Xmm(f))
        /\ f > 7 \/ b > 7 => IsMisplaced(store)
    BY <2>2, <2>3, MovesOfDoubles
  <2>6. QED
    BY <2>4, <2>5
<1>3. OfFpuAddress(a, to, f) = {One(load, "movsd", Xmm(f), to, wrong), One(store, "movsd", to, Xmm(f), wrong)}
  BY DEF OfFpuAddress
<1>4. wrong \in BOOLEAN
  OBVIOUS
<1> HIDE DEF a, at, to, wrong, load, store
<1>5. IsRight(One(load, "movsd", Xmm(f), to, wrong)) /\ IsRight(One(store, "movsd", to, Xmm(f), wrong))
  <2>1. CASE f > 7 \/ b > 7
    <3>1. IsMisplaced(load) /\ IsMisplaced(store) /\ wrong = TRUE
      BY <1>1, <1>2, <1>4, <2>1
    <3>2. QED
      BY <3>1, RightMisplaced
  <2>2. CASE ~(f > 7 \/ b > 7)
    <3>1. IsReadAs(load, "movsd", Xmm(f), at) /\ IsReadAs(store, "movsd", at, Xmm(f)) /\ (wrong <=> at # to)
      BY <1>1, <1>2, <2>2
    <3>2. QED
      BY <1>4, <3>1, RightOrCut
  <2>3. QED
    BY <2>1, <2>2
<1>6. QED
  BY <1>3, <1>5 DEF a, to

-----------------------------------------------------------------------------
(* A scaled address: what its memory held decides.                         *)
LEMMA ScaledMeans ==
  ASSUME NEW g \in SUBSET (0 .. 7), NEW i \in 0 .. 15, NEW s \in Nat, NEW n, NEW m
  PROVE  ReadScaled(g, i, s, m) = Mem(NoRegister, i, s, n) <=> i # RSP /\ s < 4 /\ ((REX_X \in g) = (i > 7)) /\ m = n
<1> DEFINE k == ReadIndex(g, i)
           index == IF k # 4 THEN k ELSE NoRegister
           scale == IF k # 4 THEN s % 4 ELSE 0
<1>1. ReadScaled(g, i, s, m) = Mem(NoRegister, index, scale, m)
  BY DEF ReadScaled
<1>2. k = (i % 8) + (IF REX_X \in g THEN 8 ELSE 0)
  BY DEF ReadIndex
<1> HIDE DEF k
<1>3. k = i <=> ((REX_X \in g) = (i > 7))
  BY <1>2
<1>4. index = i <=> i # 4 /\ k = i
  BY DEF NoRegister
<1>5. s % 4 = s <=> s < 4
  OBVIOUS
<1>6. index = i => (scale = s <=> s < 4)
  BY <1>4, <1>5
<1> HIDE DEF index, scale
<1>7. Mem(NoRegister, index, scale, m) = Mem(NoRegister, i, s, n) <=> index = i /\ scale = s /\ m = n
  BY DEF Mem
<1>8. QED
  BY <1>1, <1>3, <1>4, <1>6, <1>7 DEF RSP

LEMMA ScaledMove ==
  ASSUME NEW g \in SUBSET (0 .. 7), g \cap {4, 5, 7} = {}, NEW i \in 0 .. 15, NEW s \in Nat, NEW n \in Int,
         NEW w, w = asm_movq_ra(RAX, asm_addr_init_scaled(g, i, s, n))
  PROVE  IsReadAs(w, "mov", Reg(IF REX_R \in g THEN 8 ELSE 0), ReadScaled(g, i, s, Kept(n)))
<1> DEFINE a == asm_addr_init_scaled(g, i, s, n)
           rm == ReadScaled(g, i, s, Kept(n))
           k == IF REX_R \in g THEN 8 ELSE 0
           bits == AllBits({REX_W}, 0, a)
           opcode == <<139>>
<1>1. IsOperand(a, rm) /\ a.rex = g \cup If(REX_W, i > 7)
  <2>1. g \in SUBSET Nat
    OBVIOUS
  <2>2. QED
    BY <2>1, ScaledOperand
<1>2. w = WithOperand({REX_W}, opcode, 0, a)
  BY DEF asm_movq_ra, Quad, RAX
<1>3. w \in Bytes
  <2>1. Encodes(a)
    BY <1>1 DEF IsOperand
  <2> HIDE DEF a
  <2>2. QED
    BY <2>1, ScratchIsARegister, AddressBytes DEF a
<1> HIDE DEF a, rm
<1>4. /\ bits \in SUBSET Nat /\ 4 \notin bits /\ 5 \notin bits /\ 7 \notin bits
      /\ REX_W \in bits /\ (REX_R \in bits <=> REX_R \in g)
  BY <1>1 DEF AllBits, If, REX_W, REX_R
<1>5. REX_B \notin {REX_W} /\ REX_X \notin {REX_W} /\ 0 \in 0 .. 15 /\ IsCode(opcode) /\ opcode[1] = 139
  BY CodesAre DEF REX_B, REX_X, REX_W
<1> HIDE DEF bits, opcode
<1>6. IsPlain(bits) /\ RegIn(0, bits) = k /\ 0 % 8 = 0
  BY <1>4 DEF IsPlain, RegIn
<1>7. ASSUME NEW c \in Bytes, NEW at \in Nat, StandsAt(c, at, w)
      PROVE  /\ Len(w) > 0
             /\ IsFetched(c, at, w, opcode, REX_W \in bits, ReadAs(RegIn(0, bits), 0 % 8, at + Len(w) + 1, rm))
  BY <1>1, <1>2, <1>5, <1>6, <1>7, Fetched DEF bits
<1>8. ASSUME NEW c \in Bytes, NEW at \in Nat, StandsAt(c, at, w)
      PROVE  Read(c, at + 1) = Decoded("mov", Reg(k), rm, at + Len(w) + 1)
  <2> DEFINE m == ReadAs(RegIn(0, bits), 0 % 8, at + Len(w) + 1, rm)
  <2>1. m.rm = rm /\ m.reg = k /\ m.end = at + Len(w) + 1
    BY <1>6 DEF ReadAs
  <2>2. IsFetched(c, at, w, opcode, REX_W \in bits, m)
    BY <1>7, <1>8
  <2> HIDE DEF m, k
  <2>3. PICK o \in Nat, rex \in Nat : Read(c, at + 1) = ReadGeneral(c, o, rex, m) /\ At(c, o) = 139 /\ RexW(rex)
    BY <1>4, <1>5, <2>2 DEF IsFetched
  <2>4. ReadGeneral(c, o, rex, m) = Decoded(ToRegister[139], Reg(m.reg), m.rm, m.end)
    BY <2>3, WideTo
  <2>5. QED
    BY <2>1, <2>3, <2>4, Tables
<1>9. Len(w) > 0
  <2>1. 0 \in Nat /\ StandsAt(w, 0, w)
    BY <1>3, StandsAlone
  <2>2. QED
    BY <1>3, <1>7, <2>1
<1>10. QED
  BY <1>3, <1>8, <1>9 DEF IsReadAs, rm

LEMMA ScaledSpoilt ==
  ASSUME NEW g \in SUBSET (0 .. 7), g \cap {4, 5, 7} # {}, NEW i \in 0 .. 15, NEW s \in Nat, NEW n \in Int,
         NEW w, w = asm_movq_ra(RAX, asm_addr_init_scaled(g, i, s, n)), NEW dst, NEW src
  PROVE  w \in Bytes /\ Fused(Listing(w), TMP) # <<Instr("mov", dst, src)>>
<1> DEFINE a == asm_addr_init_scaled(g, i, s, n)
           bits == AllBits({REX_W}, 0, a)
           opcode == <<139>>
           q == emit_operand(0 % 8, a)
<1>1. Encodes(a) /\ a.rex = g \cup If(REX_W, i > 7)
  <2>1. g \in SUBSET Nat
    OBVIOUS
  <2>2. QED
    BY <2>1, ScaledOperand DEF IsOperand
<1>2. w = RexByte(bits) \o opcode \o q
  BY DEF asm_movq_ra, Quad, WithOperand, emit_operand_rex, AllBits, RAX
<1> HIDE DEF a
<1>3. REX_W \in bits /\ {4, 5, 7} \cap bits # {}
  BY <1>1 DEF AllBits
<1>4. opcode \in Bytes /\ q \in Bytes
  <2>1. 0 % 8 \in 0 .. 7
    OBVIOUS
  <2>2. q \in Bytes
    BY <1>1, <2>1, OperandLength
  <2>3. QED
    BY <2>2, CodesAre DEF IsCode
<1> HIDE DEF bits, opcode, q
<1>5. IsPrefixed(w, bits)
  BY <1>2, <1>4 DEF IsPrefixed
<1>6. w \in Bytes /\ Len(w) > 0 /\ Read(w, 1).ins.op # "mov"
  BY <1>3, <1>5, SpoiltRead
<1> DEFINE l == Listing(w)
<1>7. /\ l \in Seq(Instructions(w)) /\ Len(l) > 0
      /\ l[1] = Unknown \/ l[1] = Read(w, 1).ins
  BY <1>6, ListedFirst
<1> HIDE DEF l
<1>8. Unknown.op = "unknown"
  BY Instrs DEF Unknown
<1>9. l[1].op # "mov"
  BY <1>6, <1>7, <1>8
<1>10. Fused(l, TMP) # <<Instr("mov", dst, src)>>
  BY <1>7, <1>9, FusedIsNoMove
<1>11. QED
  BY <1>6, <1>10 DEF l

LEMMA RightOfScaled ==
  ASSUME NEW g \in SUBSET (0 .. 7), NEW i \in 0 .. 15, NEW s \in Nat, NEW n \in Int
  PROVE  \A c \in OfScaled(g, i, s, n) : IsRight(c)
<1> DEFINE w == asm_movq_ra(RAX, asm_addr_init_scaled(g, i, s, n))
           at == Mem(NoRegister, i, s, n)
           wrong == ~ScaledIsRight(g, i, s) \/ IsCut(at)
           asks == <<Instr("mov", Reg(RAX), at)>>
<1>1. OfScaled(g, i, s, n) = {One(w, "mov", Reg(RAX), at, wrong)}
  BY Zenon DEF OfScaled
<1>2. wrong \in BOOLEAN /\ (~wrong <=> /\ i # RSP /\ s < 4 /\ (REX_X \in g) = (i > 7)
                                      /\ REX_R \notin g /\ g \cap {4, 5, 7} = {} /\ Kept(n) = n)
  <2>1. IsCut(at) <=> Kept(n) # n
    <3>1. at.disp = n
      BY DEF Mem
    <3>2. FitsInt32(n) <=> IsWord(n)
      BY SMT DEF FitsInt32, IntMin, IsWord
    <3> HIDE DEF at
    <3>3. QED
      BY <3>1, <3>2, KeptWhole DEF IsCut
  <2> HIDE DEF at
  <2>2. QED
    BY <2>1 DEF ScaledIsRight
<1> HIDE DEF w, wrong
<1>3. w = asm_movq_ra(RAX, asm_addr_init_scaled(g, i, s, n))
  BY DEF w
<1>4. CASE g \cap {4, 5, 7} = {}
  <2> DEFINE k == IF REX_R \in g THEN 8 ELSE 0
             rm == ReadScaled(g, i, s, Kept(n))
             ins == Instr("mov", Reg(k), rm)
  <2>1. IsReadAs(w, "mov", Reg(k), rm)
    BY <1>3, <1>4, ScaledMove
  <2>2. w \in Bytes /\ Listing(w) = <<ins>>
    BY <2>1, ListingOfOne DEF IsReadAs
  <2>3. rm = at <=> i # RSP /\ s < 4 /\ ((REX_X \in g) = (i > 7)) /\ Kept(n) = n
    BY ScaledMeans
  <2>4. Reg(k) = Reg(RAX) <=> REX_R \notin g
    BY Kinds DEF RAX
  <2>5. Instr("mov", Reg(k), rm) = Instr("mov", Reg(RAX), at) <=> Reg(k) = Reg(RAX) /\ rm = at
    <3> HIDE DEF rm, k, at
    <3>1. QED
      BY DEF Instr
  <2>6. <<ins>> = asks <=> ins = Instr("mov", Reg(RAX), at)
    <3>1. <<ins>>[1] = ins /\ asks[1] = Instr("mov", Reg(RAX), at)
      OBVIOUS
    <3> HIDE DEF ins, at
    <3>2. QED
      BY <3>1
  <2> HIDE DEF ins, rm, k, at, asks
  <2>7. Fused(Listing(w), TMP) = asks <=> ~wrong
    BY <1>2, <1>4, <2>2, <2>3, <2>4, <2>5, <2>6, FusedOne DEF ins
  <2>8. IsRight(Call(w, asks, wrong))
    BY <2>2, <2>7, CallIs
  <2>9. QED
    BY <1>1, <2>8 DEF One, asks, at
<1>5. CASE g \cap {4, 5, 7} # {}
  <2>1. w \in Bytes /\ Fused(Listing(w), TMP) # asks /\ wrong
    BY <1>2, <1>3, <1>5, ScaledSpoilt
  <2> HIDE DEF asks
  <2>2. IsRight(Call(w, asks, wrong))
    BY <2>1, CallIs
  <2>3. QED
    BY <1>1, <2>2 DEF One, asks
<1>6. QED
  BY <1>4, <1>5

-----------------------------------------------------------------------------
(* Immediates go through the scratch register.                             *)
LEMMA ThroughScratch ==
  ASSUME NEW i \in Int, NEW r, NEW a
  PROVE  /\ asm_addq_ri(r, i) = asm_movq_ri(TMP, i) \o asm_addq_rr(r, TMP)
         /\ asm_subq_ri(r, i) = asm_movq_ri(TMP, i) \o asm_subq_rr(r, TMP)
         /\ asm_mulq_ri(r, i) = asm_movq_ri(TMP, i) \o asm_mulq_rr(r, TMP)
         /\ asm_cmpq_ri(r, i) = asm_movq_ri(TMP, i) \o asm_cmpq_rr(r, TMP)
         /\ asm_movq_ai(a, i) = asm_movq_ri(TMP, i) \o asm_movq_ar(a, TMP)
         /\ asm_addq_ai(a, i) = asm_movq_ri(TMP, i) \o asm_addq_ar(a, TMP)
         /\ asm_subq_ai(a, i) = asm_movq_ri(TMP, i) \o asm_subq_ar(a, TMP)
         /\ is8(i) => asm_push_i(i) = <<106, TruncatedToByte(i)>>
         /\ ~is8(i) => asm_push_i(i) = asm_movq_ri(TMP, i) \o asm_push_r(TMP)
<1>1. ~is32(i)
  BY NeverShort
<1>2. /\ asm_addq_ri(r, i) = asm_movq_ri(TMP, i) \o asm_addq_rr(r, TMP)
      /\ asm_subq_ri(r, i) = asm_movq_ri(TMP, i) \o asm_subq_rr(r, TMP)
      /\ asm_mulq_ri(r, i) = asm_movq_ri(TMP, i) \o asm_mulq_rr(r, TMP)
      /\ asm_cmpq_ri(r, i) = asm_movq_ri(TMP, i) \o asm_cmpq_rr(r, TMP)
  BY <1>1, Zenon DEF asm_addq_ri, asm_subq_ri, asm_mulq_ri, asm_cmpq_ri
<1>3. /\ asm_movq_ai(a, i) = asm_movq_ri(TMP, i) \o asm_movq_ar(a, TMP)
      /\ asm_addq_ai(a, i) = asm_movq_ri(TMP, i) \o asm_addq_ar(a, TMP)
      /\ asm_subq_ai(a, i) = asm_movq_ri(TMP, i) \o asm_subq_ar(a, TMP)
  BY <1>1, Zenon DEF asm_movq_ai, asm_addq_ai, asm_subq_ai
<1>4. /\ is8(i) => asm_push_i(i) = <<106, TruncatedToByte(i)>>
      /\ ~is8(i) => asm_push_i(i) = asm_movq_ri(TMP, i) \o asm_push_r(TMP)
  BY <1>1, SMT DEF asm_push_i
<1>5. QED
  BY <1>2, <1>3, <1>4

LEMMA RightPushed ==
  ASSUME NEW i, IsLong(i)
  PROVE  IsRight(One(asm_push_i(i), "push", Imm(i), None, FALSE))
<1>1. i \in Int
  BY DEF IsLong
<1>2. CASE is8(i)
  <2>1. IsReadAs(asm_push_i(i), "push", Imm(i), None)
    BY <1>1, <1>2, ShortBytes, ThroughScratch
  <2>2. QED
    BY <2>1, RightOne
<1>3. CASE ~is8(i)
  <2> DEFINE v == asm_movq_ri(TMP, i)
             w == asm_push_r(TMP)
             a == Instr("mov", Reg(TMP), Imm(i))
             b == Instr("push", Reg(TMP), None)
             asks == <<Instr("push", Imm(i), None)>>
  <2>1. v \o w \in Bytes /\ Listing(v \o w) = <<a, b>>
    <3>1. IsReadAs(v, "mov", Reg(TMP), Imm(i)) /\ IsReadAs(w, "push", Reg(TMP), None)
      BY ScratchIsARegister, LoadRead, PushesAndPops
    <3>2. QED
      BY <3>1, ListingOfTwo
  <2>2. Loads(a, TMP) /\ a.src = Imm(i) /\ b.src = None /\ b.dst = Reg(TMP) /\ b.op = "push"
    BY Instrs, Kinds DEF Loads
  <2>3. [b EXCEPT !.dst = a.src] = Instr("push", Imm(i), None)
    BY <2>2, Instrs
  <2>4. asm_push_i(i) = v \o w
    BY <1>1, <1>3, ThroughScratch
  <2> HIDE DEF a, b, v, w
  <2>5. Fused(<<a, b>>, TMP) = <<[b EXCEPT !.dst = a.src]>>
    BY <2>2, FusedTwo
  <2>6. Fused(Listing(v \o w), TMP) = asks
    BY <2>1, <2>3, <2>5
  <2>7. QED
    BY <2>1, <2>4, <2>6, CallIs DEF One
<1>4. QED
  BY <1>2, <1>3

LEMMA RightOfImmediate ==
  ASSUME NEW r \in 0 .. 15, NEW i, IsLong(i)
  PROVE  \A c \in OfImmediate(r, i) : IsRight(c)
<1> DEFINE detour == r = TMP
           load == asm_movq_ri(TMP, i)
<1>1. OfImmediate(r, i) =
        {One(asm_movq_ri(r, i), "mov", Reg(r), Imm(i), FALSE), One(asm_addq_ri(r, i), "add", Reg(r), Imm(i), detour),
         One(asm_subq_ri(r, i), "sub", Reg(r), Imm(i), detour), One(asm_mulq_ri(r, i), "mul", Reg(r), Imm(i), detour),
         One(asm_cmpq_ri(r, i), "cmp", Reg(r), Imm(i), detour), One(asm_push_i(i), "push", Imm(i), None, FALSE)}
  BY Zenon DEF OfImmediate
<1>2. i \in Int
  BY DEF IsLong
<1>3. detour \in BOOLEAN /\ (detour <=> Mentions(Reg(r), TMP))
  BY MentionedIn
<1> HIDE DEF detour
<1>4. /\ IsReadAs(asm_addq_rr(r, TMP), "add", Reg(r), Reg(TMP)) /\ IsReadAs(asm_subq_rr(r, TMP), "sub", Reg(r), Reg(TMP))
      /\ IsReadAs(asm_mulq_rr(r, TMP), "mul", Reg(r), Reg(TMP)) /\ IsReadAs(asm_cmpq_rr(r, TMP), "cmp", Reg(r), Reg(TMP))
  BY ScratchIsARegister, RegistersRead
<1>5. IsRight(One(asm_addq_ri(r, i), "add", Reg(r), Imm(i), detour))
  <2>1. asm_addq_ri(r, i) = asm_movq_ri(TMP, i) \o asm_addq_rr(r, TMP)
    BY <1>2, ThroughScratch
  <2>2. QED
    BY <1>3, <1>4, <2>1, RightLoaded
<1>6. IsRight(One(asm_subq_ri(r, i), "sub", Reg(r), Imm(i), detour))
  <2>1. asm_subq_ri(r, i) = asm_movq_ri(TMP, i) \o asm_subq_rr(r, TMP)
    BY <1>2, ThroughScratch
  <2>2. QED
    BY <1>3, <1>4, <2>1, RightLoaded
<1>7. IsRight(One(asm_mulq_ri(r, i), "mul", Reg(r), Imm(i), detour))
  <2>1. asm_mulq_ri(r, i) = asm_movq_ri(TMP, i) \o asm_mulq_rr(r, TMP)
    BY <1>2, ThroughScratch
  <2>2. QED
    BY <1>3, <1>4, <2>1, RightLoaded
<1>8. IsRight(One(asm_cmpq_ri(r, i), "cmp", Reg(r), Imm(i), detour))
  <2>1. asm_cmpq_ri(r, i) = asm_movq_ri(TMP, i) \o asm_cmpq_rr(r, TMP)
    BY <1>2, ThroughScratch
  <2>2. QED
    BY <1>3, <1>4, <2>1, RightLoaded
<1>9. IsRight(One(asm_movq_ri(r, i), "mov", Reg(r), Imm(i), FALSE))
  BY LoadRead, RightOne
<1>10. IsRight(One(asm_push_i(i), "push", Imm(i), None, FALSE))
  BY RightPushed
<1>11. QED
  BY <1>1, <1>5, <1>6, <1>7, <1>8, <1>9, <1>10

LEMMA RightOfImmediateAddress ==
  ASSUME NEW b \in 0 .. 15, NEW n \in Int, NEW i, IsLong(i)
  PROVE  \A c \in OfImmediateAddress(asm_addr_init(b, n), AtBase(b, n), i) : IsRight(c)
<1> DEFINE a == asm_addr_init(b, n)
           at == AtBase(b, Kept(n))
           to == AtBase(b, n)
           wrong == to.base = TMP \/ IsCut(to)
<1>1. OfImmediateAddress(a, to, i) =
        {One(asm_movq_ai(a, i), "mov", to, Imm(i), wrong), One(asm_addq_ai(a, i), "add", to, Imm(i), wrong),
         One(asm_subq_ai(a, i), "sub", to, Imm(i), wrong)}
  BY Zenon DEF OfImmediateAddress
<1>2. i \in Int
  BY DEF IsLong
<1>3. wrong \in BOOLEAN /\ (wrong <=> Mentions(at, TMP) \/ at # to)
  BY Kinds, MentionedIn, CutMeans
<1>4. IsSimple(a, at)
  BY SimpleOperands
<1> HIDE DEF wrong, a, at, to
<1>5. /\ IsReadAs(asm_movq_ar(a, TMP), "mov", at, Reg(TMP)) /\ IsReadAs(asm_addq_ar(a, TMP), "add", at, Reg(TMP))
      /\ IsReadAs(asm_subq_ar(a, TMP), "sub", at, Reg(TMP))
  BY <1>4, ScratchIsARegister, QuadFrom, Tables DEF asm_movq_ar, asm_addq_ar, asm_subq_ar
<1>6. IsRight(One(asm_movq_ai(a, i), "mov", to, Imm(i), wrong))
  <2>1. asm_movq_ai(a, i) = asm_movq_ri(TMP, i) \o asm_movq_ar(a, TMP)
    BY <1>2, ThroughScratch
  <2>2. QED
    BY <1>3, <1>5, <2>1, RightLoaded
<1>7. IsRight(One(asm_addq_ai(a, i), "add", to, Imm(i), wrong))
  <2>1. asm_addq_ai(a, i) = asm_movq_ri(TMP, i) \o asm_addq_ar(a, TMP)
    BY <1>2, ThroughScratch
  <2>2. QED
    BY <1>3, <1>5, <2>1, RightLoaded
<1>8. IsRight(One(asm_subq_ai(a, i), "sub", to, Imm(i), wrong))
  <2>1. asm_subq_ai(a, i) = asm_movq_ri(TMP, i) \o asm_subq_ar(a, TMP)
    BY <1>2, ThroughScratch
  <2>2. QED
    BY <1>3, <1>5, <2>1, RightLoaded
<1>9. QED
  BY <1>1, <1>6, <1>7, <1>8 DEF a, to

-----------------------------------------------------------------------------
(* Frames: what is left of the stack, and what is made.                    *)
LEMMA FrameParts ==
  /\ IsReadAs(asm_push_r(RBP), "push", Reg(RBP), None) /\ IsReadAs(asm_pop_r(RBP), "pop", Reg(RBP), None)
  /\ IsReadAs(asm_movq_rr(RBP, RSP), "mov", Reg(RBP), Reg(RSP))
  /\ IsReadAs(asm_movq_rr(RSP, RBP), "mov", Reg(RSP), Reg(RBP))
  /\ IsReadAs(asm_subq_rr(RSP, TMP), "sub", Reg(RSP), Reg(TMP))
BY ScratchIsARegister, PushesAndPops, RegistersRead

(* Neither a push nor a move between registers loads the scratch register. *)
LEMMA NotLoaded ==
  /\ \A m, n : ~Loads(Instr("mov", Reg(m), Reg(n)), TMP)
  /\ \A m : ~Loads(Instr("push", Reg(m), None), TMP)
<1>1. ASSUME NEW m, NEW n PROVE ~Loads(Instr("mov", Reg(m), Reg(n)), TMP)
  BY Instrs, Kinds DEF Loads, Reg
<1>2. ASSUME NEW m PROVE ~Loads(Instr("push", Reg(m), None), TMP)
  BY Instrs DEF Loads
<1>3. QED
  BY <1>1, <1>2

LEMMA TwoAndOne ==
  ASSUME NEW a, NEW b, NEW e
  PROVE  <<a, b>> \o <<e>> = <<a, b, e>>
<1> DEFINE T == {a, b, e}
           s == <<a, b>>
           u == <<e>>
           t == <<a, b, e>>
           w == s \o u
<1>1. s \in Seq(T) /\ u \in Seq(T) /\ t \in Seq(T)
  OBVIOUS
<1>2. Len(s) = 2 /\ Len(u) = 1 /\ Len(t) = 3 /\ s[1] = a /\ s[2] = b /\ u[1] = e /\ t[1] = a /\ t[2] = b /\ t[3] = e
  OBVIOUS
<1> HIDE DEF T, s, u, t
<1>3. w \in Seq(T) /\ Len(w) = 3 /\ w[1] = a /\ w[2] = b /\ w[3] = e
  <2>1. w \in Seq(T) /\ Len(w) = Len(s) + Len(u)
    BY <1>1, ConcatProperties
  <2>2. \A i \in 1 .. Len(w) : w[i] = IF i <= Len(s) THEN s[i] ELSE u[i - Len(s)]
    BY <1>1, ConcatProperties
  <2> HIDE DEF w
  <2>3. 1 \in 1 .. 3 /\ 2 \in 1 .. 3 /\ 3 \in 1 .. 3 /\ 3 - 2 = 1
    OBVIOUS
  <2>4. QED
    BY <1>2, <2>1, <2>2, <2>3
<1> HIDE DEF w
<1>4. \A i \in 1 .. Len(w) : w[i] = t[i]
  BY <1>2, <1>3
<1>5. w = t
  BY <1>1, <1>2, <1>3, <1>4, SeqEqual
<1>6. QED
  BY <1>5 DEF s, u, t, w

LEMMA RightOfLeaving ==
  IsRight(Call(asm_leave_frame, <<Instr("mov", Reg(RSP), Reg(RBP)), Instr("pop", Reg(RBP), None)>>, FALSE))
<1> DEFINE v == asm_movq_rr(RSP, RBP)
           w == asm_pop_r(RBP)
           a == Instr("mov", Reg(RSP), Reg(RBP))
           b == Instr("pop", Reg(RBP), None)
<1>1. v \o w \in Bytes /\ Listing(v \o w) = <<a, b>>
  <2>1. IsReadAs(v, "mov", Reg(RSP), Reg(RBP)) /\ IsReadAs(w, "pop", Reg(RBP), None)
    BY FrameParts
  <2>2. QED
    BY <2>1, ListingOfTwo
<1>2. ~Loads(a, TMP)
  BY NotLoaded
<1>3. asm_leave_frame = v \o w
  BY DEF asm_leave_frame
<1> HIDE DEF a, b, v, w
<1>4. Fused(<<a, b>>, TMP) = <<a, b>>
  BY <1>2, FusedTwo
<1>5. IsRight(Call(v \o w, <<a, b>>, FALSE))
  BY <1>1, <1>4, CallIs
<1>6. QED
  BY <1>3, <1>5 DEF a, b

LEMMA RightOfEntering ==
  ASSUME NEW i, IsLong(i)
  PROVE  IsRight(Call(asm_enter_frame(i),
                      <<Instr("push", Reg(RBP), None), Instr("mov", Reg(RBP), Reg(RSP))>>
                        \o (IF i = 0 THEN <<>> ELSE <<Instr("sub", Reg(RSP), Imm(i))>>), FALSE))
<1> DEFINE v == asm_push_r(RBP)
           w == asm_movq_rr(RBP, RSP)
           x == asm_movq_ri(TMP, i)
           y == asm_subq_rr(RSP, TMP)
           a == Instr("push", Reg(RBP), None)
           b == Instr("mov", Reg(RBP), Reg(RSP))
           c == Instr("mov", Reg(TMP), Imm(i))
           d == Instr("sub", Reg(RSP), Reg(TMP))
           e == Instr("sub", Reg(RSP), Imm(i))
           asks == <<a, b>> \o (IF i = 0 THEN <<>> ELSE <<e>>)
<1>1. IsReadAs(v, "push", Reg(RBP), None) /\ IsReadAs(w, "mov", Reg(RBP), Reg(RSP))
  BY FrameParts
<1>2. i \in Int
  BY DEF IsLong
<1>3. CASE i = 0
  <2>1. v \o w \in Bytes /\ Listing(v \o w) = <<a, b>>
    BY <1>1, ListingOfTwo
  <2>2. ~Loads(a, TMP)
    BY NotLoaded
  <2>3. asm_enter_frame(i) = (v \o w) \o <<>>
    BY <1>3 DEF asm_enter_frame
  <2>4. asks = <<a, b>>
    <3> HIDE DEF a, b, e
    <3>1. <<a, b>> \o <<>> = <<a, b>>
      OBVIOUS
    <3>2. QED
      BY <1>3, <3>1
  <2> HIDE DEF v, w
  <2>5. (v \o w) \o <<>> = v \o w
    <3> DEFINE s == v \o w
    <3>1. s \in Seq(Byte)
      BY <2>1 DEF Bytes
    <3> HIDE DEF s
    <3>2. s \o <<>> = s
      BY <3>1, ConcatEmptySeq
    <3>3. QED
      BY <3>2 DEF s
  <2> HIDE DEF a, b, asks
  <2>6. Fused(<<a, b>>, TMP) = <<a, b>>
    BY <2>2, FusedTwo
  <2>7. IsRight(Call(v \o w, <<a, b>>, FALSE))
    BY <2>1, <2>6, CallIs
  <2>8. IsRight(Call(asm_enter_frame(i), asks, FALSE))
    BY <2>3, <2>4, <2>5, <2>7
  <2>9. QED
    BY <2>8 DEF asks, a, b
<1>4. CASE i # 0
  <2>1. IsReadAs(x, "mov", Reg(TMP), Imm(i)) /\ IsReadAs(y, "sub", Reg(RSP), Reg(TMP))
    BY ScratchIsARegister, LoadRead, FrameParts
  <2>2. v \o w \o (x \o y) \in Bytes /\ Listing(v \o w \o (x \o y)) = <<a, b, c, d>>
    BY <1>1, <2>1, ListingOfFour
  <2>3. asm_enter_frame(i) = v \o w \o (x \o y)
    <3>1. asm_subq_ri(RSP, i) = x \o y
      BY <1>2, ThroughScratch
    <3>2. QED
      BY <1>4, <3>1 DEF asm_enter_frame
  <2>4. Loads(c, TMP) /\ c.src = Imm(i) /\ d.src = Reg(TMP) /\ d.dst = Reg(RSP)
    BY Instrs, Kinds DEF Loads
  <2>5. ~Mentions(d.dst, TMP)
    BY <2>4, MentionedIn DEF RSP, TMP, R11
  <2>6. [d EXCEPT !.src = c.src] = e
    BY <2>4, Instrs
  <2>7. asks = <<a, b, e>>
    <3> HIDE DEF a, b, e
    <3>1. <<a, b>> \o <<e>> = <<a, b, e>>
      BY TwoAndOne
    <3>2. QED
      BY <1>4, <3>1
  <2> HIDE DEF a, b, c, d, e, asks, v, w, x, y
  <2>8. Fused(<<a, b, c, d>>, TMP) = <<a, b, e>>
    BY <2>4, <2>5, <2>6, FusedFour
  <2>9. IsRight(Call(asm_enter_frame(i), asks, FALSE))
    BY <2>2, <2>3, <2>7, <2>8, CallIs
  <2>10. QED
    BY <2>9 DEF asks, a, b, e
<1>5. QED
  BY <1>3, <1>4

LEMMA RightOfFrame ==
  ASSUME NEW i, IsLong(i)
  PROVE  \A c \in OfFrame(i) : IsRight(c)
BY RightOfLeaving, RightOfEntering DEF OfFrame

LEMMA RightOfReturn == IsRight(ReturnCall)
BY ShortBytes, RightOne DEF ReturnCall

-----------------------------------------------------------------------------
(* Together: every call.                                                   *)
LEMMA ConstantsAreLong ==
  /\ \A n \in Displacements : n \in Int
  /\ \A i \in Immediates : IsLong(i)
  /\ \A g \in Garbage : g \in SUBSET (0 .. 7)
<1>1. ASSUME NEW v \in Int, FitsInt32(v) PROVE IsWord(v)
  BY <1>1, SMT DEF FitsInt32, IntMin, IsWord
<1>2. ASSUME NEW i \in Immediates PROVE IsLong(i)
  <2>1. i \in Int /\ FitsInt32(Upper(i))
    BY OperandsAssumption
  <2>2. Upper(i) \in Int
    BY <2>1 DEF Upper
  <2>3. QED
    BY <1>1, <2>1, <2>2 DEF IsLong
<1>3. QED
  BY <1>2, OperandsAssumption, GarbageAssumption

LEMMA CallsAreRight ==
  ASSUME NEW c \in Calls
  PROVE  IsRight(c)
<1>1. CASE c \in RegisterCalls
  <2>1. CASE \E d \in Registers, s \in Registers : c \in OfRegisters(d, s) \cup OfRegister(d)
    BY <2>1, ConstantsAre, RightOfRegisters, RightOfRegister
  <2>2. CASE \E d \in FpuRegisters, s \in FpuRegisters : c \in OfFpuRegisters(d, s)
    BY <2>2, ConstantsAre, RightOfFpuRegisters
  <2>3. QED
    BY <1>1, <2>1, <2>2 DEF RegisterCalls
<1>2. CASE c \in AddressCalls
  <2>1. PICK b \in Bases, n \in Displacements : c \in OnAddress(asm_addr_init(b, n), AtBase(b, n))
    BY <1>2 DEF AddressCalls
  <2> DEFINE a == asm_addr_init(b, n)
             at == AtBase(b, Kept(n))
             to == AtBase(b, n)
  <2>2. b \in 0 .. 15 /\ n \in Int
    BY ConstantsAre, ConstantsAreLong
  <2>3. IsSimple(a, at) /\ IsCut(to) \in BOOLEAN /\ (IsCut(to) <=> at # to)
    BY <2>2, SimpleOperands, CutMeans
  <2>4. \/ \E r \in Registers : c \in OfAddress(a, to, r)
        \/ \E f \in FpuRegisters : c \in OfFpuAddress(a, to, f)
        \/ \E i \in Immediates : c \in OfImmediateAddress(a, to, i)
    BY <2>1, Zenon DEF OnAddress
  <2>5. CASE \E r \in Registers : c \in OfAddress(a, to, r)
    <3> HIDE DEF a, at, to
    <3>1. QED
      BY <2>3, <2>5, ConstantsAre, RightOfAddress
  <2>6. CASE \E f \in FpuRegisters : c \in OfFpuAddress(a, to, f)
    <3>1. PICK f \in FpuRegisters : c \in OfFpuAddress(a, to, f)
      BY <2>6
    <3>2. f \in 0 .. 15
      BY ConstantsAre
    <3>3. QED
      BY <2>2, <3>1, <3>2, RightOfFpuAddress
  <2>7. CASE \E i \in Immediates : c \in OfImmediateAddress(a, to, i)
    <3>1. PICK i \in Immediates : c \in OfImmediateAddress(a, to, i)
      BY <2>7
    <3>2. IsLong(i)
      BY ConstantsAreLong
    <3>3. QED
      BY <2>2, <3>1, <3>2, RightOfImmediateAddress
  <2>8. QED
    BY <2>4, <2>5, <2>6, <2>7
<1>3. CASE c \in ScaledCalls
  <2>1. PICK g \in Garbage, i \in Registers, s \in Scales, n \in Displacements : c \in OfScaled(g, i, s, n)
    BY <1>3 DEF ScaledCalls
  <2>2. g \in SUBSET (0 .. 7) /\ i \in 0 .. 15 /\ s \in Nat /\ n \in Int
    BY ConstantsAre, ConstantsAreLong
  <2>3. QED
    BY <2>1, <2>2, RightOfScaled
<1>4. CASE c \in ImmediateCalls
  <2>1. PICK r \in Registers, i \in Immediates : c \in OfImmediate(r, i) \/ c \in OfFrame(i)
    BY <1>4 DEF ImmediateCalls
  <2>2. r \in 0 .. 15 /\ IsLong(i)
    BY ConstantsAre, ConstantsAreLong
  <2>3. QED
    BY <2>1, <2>2, RightOfImmediate, RightOfFrame
<1>5. CASE c = ReturnCall
  BY <1>5, RightOfReturn
<1>6. QED
  BY <1>1, <1>2, <1>3, <1>4, <1>5 DEF Calls

-----------------------------------------------------------------------------
(* A call without a label stands alone: the code is its bytes.             *)
IsOf(call, e) == code = call.bytes /\ e.at = 0 /\ e.asks = call.asks /\ e.wrong = call.wrong
PlainAlone ==
  /\ listing = <<>> => code = <<>>
  /\ \A k \in DOMAIN listing :
       listing[k].how = "plain" => Len(listing) = 1 /\ \E call \in Calls : IsOf(call, listing[k])

LEMMA OthersStayOthers ==
  ASSUME TypeOK, PlainAlone, ~Alone
  PROVE  \A k \in DOMAIN listing : listing[k].how # "plain"
<1> SUFFICES ASSUME NEW k \in DOMAIN listing, listing[k].how = "plain" PROVE FALSE
  OBVIOUS
<1>1. Len(listing) = 1 /\ k \in 1 .. Len(listing)
  BY DEF PlainAlone, TypeOK
<1>2. k = 1 /\ listing # <<>>
  BY <1>1
<1>3. QED
  BY <1>2 DEF Alone

LEMMA OtherAppended ==
  ASSUME TypeOK, PlainAlone, More, NEW e, e.how # "plain", listing' = Append(listing, e)
  PROVE  PlainAlone'
<1>1. \A k \in DOMAIN listing : listing[k].how # "plain"
  BY OthersStayOthers DEF More
<1>2. Len(listing) \in Nat /\ DOMAIN listing = 1 .. Len(listing) /\ listing \in Seq(Entries)
  BY DEF TypeOK
<1>3. /\ DOMAIN listing' = 1 .. Len(listing) + 1
      /\ \A k \in 1 .. Len(listing) + 1 : listing'[k] = IF k = Len(listing) + 1 THEN e ELSE listing[k]
  BY <1>2
<1>4. listing' # <<>>
  BY <1>2, <1>3
<1>5. \A k \in DOMAIN listing' : listing'[k].how # "plain"
  BY <1>1, <1>2, <1>3
<1>6. QED
  BY <1>4, <1>5 DEF PlainAlone

LEMMA JumpAppended ==
  ASSUME TypeOK, PlainAlone, More, NEW op, NEW cond, NEW l, NEW how, how # "plain",
         listing' = Append(listing, JumpEntry(op, cond, l, how))
  PROVE  PlainAlone'
<1> DEFINE e == JumpEntry(op, cond, l, how)
<1>1. e.how # "plain"
  BY DEF JumpEntry
<1> HIDE DEF e
<1>2. listing' = Append(listing, e)
  BY DEF e
<1>3. QED
  BY <1>1, <1>2, OtherAppended

LEMMA EmittedAlone ==
  ASSUME IInv, PlainAlone, listing = <<>>, NEW call \in Calls, Emit(call)
  PROVE  PlainAlone'
<1> PICK e : e = Entry(call.asks, call.wrong, "plain")
  OBVIOUS
<1>1. code = <<>> /\ call.bytes \in Seq(Byte)
  BY CallsAreBytes DEF PlainAlone, Bytes
<1>2. code' = call.bytes
  <2>1. <<>> \o call.bytes = call.bytes
    BY <1>1, ConcatEmptySeq
  <2>2. QED
    BY <1>1, <2>1 DEF Emit
<1>3. e.at = 0 /\ e.asks = call.asks /\ e.wrong = call.wrong
  <2>1. Len(code) = 0
    BY <1>1
  <2>2. QED
    BY <2>1 DEF Entry, asm_buff_size
<1>4. listing' = Append(<<>>, e)
  BY DEF Emit
<1>5. listing' = <<e>>
  BY <1>4
<1>6. DOMAIN listing' = {1} /\ listing'[1] = e /\ Len(listing') = 1 /\ listing' # <<>>
  BY <1>5
<1>7. \A k \in DOMAIN listing' : k = 1 /\ listing'[k] = e
  BY <1>6
<1>8. \A k \in DOMAIN listing' : IsOf(call, listing[k])'
  BY <1>2, <1>3, <1>7 DEF IsOf
<1>9. QED
  BY <1>6, <1>8 DEF PlainAlone

LEMMA NextPlainAlone ==
  ASSUME IInv, PlainAlone, [Next]_vars
  PROVE  PlainAlone'
<1>1. TypeOK
  BY DEF IInv
<1>2. CASE listing = <<>> /\ \E c \in Calls : Emit(c)
  BY <1>2, EmittedAlone
<1>3. CASE \E n \in Fills : Fill(n)
  <2>1. More /\ listing' = Append(listing, Entry(<<>>, FALSE, "fill"))
    BY <1>3 DEF Fill
  <2>2. Entry(<<>>, FALSE, "fill").how # "plain"
    BY DEF Entry
  <2>3. QED
    BY <1>1, <2>1, <2>2, OtherAppended
<1>4. ASSUME NEW l \in Labels, asm_call_l(l)
      PROVE  PlainAlone'
  <2>1. More /\ \E how \in {"bound", "linked"} : listing' = Append(listing, JumpEntry("call", None, l, how))
    BY <1>4 DEF asm_call_l, EmitBound, emit_label_link
  <2>2. QED
    BY <1>1, <2>1, JumpAppended
<1>5. ASSUME NEW l \in Labels, asm_bind(l)
      PROVE  PlainAlone'
  <2>1. listing' = listing
    BY <1>5 DEF asm_bind
  <2>2. \A k \in DOMAIN listing' : listing'[k].how # "plain"
    BY <1>1, <1>5, <2>1, OthersStayOthers DEF asm_bind
  <2>3. ASSUME listing = <<>> PROVE code' = <<>>
    <3>1. DOMAIN listing = {}
      BY <2>3
    <3>2. ~(label[l] > 0)
      BY <3>1 DEF IInv, LabelsPlaced
    <3>3. code' = code
      BY <1>5, <3>2 DEF asm_bind, asm_label_is_linked
    <3>4. QED
      BY <2>3, <3>3 DEF PlainAlone
  <2>4. QED
    BY <2>1, <2>2, <2>3 DEF PlainAlone
<1>6. ASSUME NEW l \in Labels, NEW near \in BOOLEAN, asm_jmp_l(l, near)
      PROVE  PlainAlone'
  <2>1. More /\ \E how \in {"short", "long", "near", "linked"} : listing' = Append(listing, JumpEntry("jmp", None, l, how))
    BY <1>6 DEF asm_jmp_l, EmitBound, emit_label_link
  <2>2. QED
    BY <1>1, <2>1, JumpAppended
<1>7. ASSUME NEW l \in Labels, NEW near \in BOOLEAN, NEW cond \in Conditions, asm_j(cond, l, near)
      PROVE  PlainAlone'
  <2>1. More /\ \E how \in {"short", "long", "near", "linked"} : listing' = Append(listing, JumpEntry("j", Imm(cond), l, how))
    BY <1>7 DEF asm_j, EmitBound, emit_label_link
  <2>2. QED
    BY <1>1, <2>1, JumpAppended
<1>8. CASE UNCHANGED vars
  BY <1>8 DEF PlainAlone, IsOf, vars
<1>9. QED
  BY <1>2, <1>3, <1>4, <1>5, <1>6, <1>7, <1>8 DEF Next

LEMMA PlainsStandAlone == Spec => []PlainAlone
<1>1. Init => PlainAlone
  <2> SUFFICES ASSUME Init PROVE PlainAlone
    OBVIOUS
  <2>1. code = <<>> /\ listing = <<>>
    BY DEF Init
  <2>2. DOMAIN listing = {}
    BY <2>1
  <2>3. QED
    BY <2>1, <2>2 DEF PlainAlone
<1>2. IInv /\ PlainAlone /\ [Next]_vars => PlainAlone'
  BY NextPlainAlone
<1>3. QED
  BY <1>1, <1>2, Invariant, PTL DEF Spec

(* Whatever its registers, addresses, immediates of 64 bits and the memory *)
(* an address was made in: a processor reads in the bytes that a call of   *)
(* the assembler emits exactly what the call asks for, unless it is a move *)
(* of a double that needs a rex byte, a scaled address that its memory did *)
(* not happen to make right, an address with a displacement wider than 32  *)
(* bits, or an immediate combined with the scratch register it goes        *)
(* through; and in those it never does.                                    *)
THEOREM EncodingsReadBack == Spec => []EncodingsAreExact
<1>1. IInv /\ PlainAlone => EncodingsAreExact
  <2> SUFFICES ASSUME IInv, PlainAlone, NEW k \in DOMAIN listing, listing[k].how = "plain"
               PROVE  (Fused(Listing(SubSeq(code, listing[k].at + 1, EndOf(k))), TMP) = listing[k].asks) <=> ~listing[k].wrong
    BY DEF EncodingsAreExact
  <2>1. PICK call \in Calls : IsOf(call, listing[k])
    BY DEF PlainAlone
  <2>2. Len(listing) = 1 /\ k \in 1 .. Len(listing)
    BY DEF PlainAlone, IInv, TypeOK
  <2>3. k = 1 /\ EndOf(k) = Len(code)
    BY <2>2 DEF EndOf, asm_buff_size
  <2>4. code \in Seq(Byte)
    BY DEF IInv, TypeOK, Bytes
  <2>5. SubSeq(code, listing[k].at + 1, EndOf(k)) = call.bytes
    <3>1. listing[k].at + 1 = 1 /\ code = call.bytes
      BY <2>1 DEF IsOf
    <3>2. SubSeq(code, 1, Len(code)) = code
      BY <2>4, SubSeqFull
    <3>3. QED
      BY <2>3, <3>1, <3>2
  <2>6. (Fused(Listing(call.bytes), TMP) = call.asks) <=> ~call.wrong
    BY CallsAreRight DEF IsRight
  <2>7. listing[k].asks = call.asks /\ listing[k].wrong = call.wrong
    BY <2>1 DEF IsOf
  <2>8. QED
    BY <2>5, <2>6, <2>7
<1>2. QED
  BY <1>1, Invariant, PlainsStandAlone, PTL
=============================================================================
