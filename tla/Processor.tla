----------------------------- MODULE Processor ------------------------------
(***************************************************************************)
(* What a processor reads in bytes: the part of the x86-64 instruction set *)
(* that the assembler of src/src/asm/x64.c writes.  An instruction is an   *)
(* operation on a destination and a source, each of them a register, a     *)
(* word of memory, an immediate or nothing.                                *)
(***************************************************************************)
EXTENDS Integers, Sequences

None == [kind |-> "none"]
Reg(n) == [kind |-> "reg", n |-> n]
Xmm(n) == [kind |-> "xmm", n |-> n]
Imm(n) == [kind |-> "imm", n |-> n]
Mem(base, index, scale, disp) ==
  [kind |-> "mem", base |-> base, index |-> index, scale |-> scale, disp |-> disp]
NoRegister == -1

Instr(op, dst, src) == [op |-> op, dst |-> dst, src |-> src]
Unknown == Instr("unknown", None, None)

(* A byte that is not there has no value an instruction could have.        *)
At(code, i) == IF i \in DOMAIN code THEN code[i] ELSE -1
Signed8(code, i) == LET b == At(code, i) IN IF b > 127 THEN b - 256 ELSE b
Signed32(code, i) ==
  At(code, i) + 256 * At(code, i + 1) + 65536 * At(code, i + 2) + 16777216 * Signed8(code, i + 3)
(* The lower half has been read as signed; the carry makes up for it.      *)
Signed64(code, i) ==
  LET carry == IF At(code, i + 3) > 127 THEN 1 ELSE 0
  IN  Signed32(code, i) + 65536 * (65536 * (Signed32(code, i + 4) + carry))

-----------------------------------------------------------------------------
IsRex(byte) == byte \in 64 .. 79
RexW(rex) == (rex \div 8) % 2 = 1
RexR(rex) == 8 * ((rex \div 4) % 2)
RexX(rex) == 8 * ((rex \div 2) % 2)
RexB(rex) == 8 * (rex % 2)

(* The modrm byte at i with what follows it: the register it names, the    *)
(* operand and where the operand ends.                                     *)
Operand(code, i, rex) ==
  LET modrm == At(code, i)
      mod == modrm \div 64
      rm == modrm % 8
      sib == At(code, i + 1)
      hasSib == mod # 3 /\ rm = 4
      index == ((sib \div 8) % 8) + RexX(rex)
      base == IF hasSib THEN sib % 8 ELSE rm
      noBase == mod = 0 /\ base = 5
      after == IF hasSib THEN i + 2 ELSE i + 1
      long == mod = 2 \/ noBase
      disp == IF mod = 1 THEN Signed8(code, after) ELSE IF long THEN Signed32(code, after) ELSE 0
  IN  [reg |-> ((modrm \div 8) % 8) + RexR(rex),
       ext |-> (modrm \div 8) % 8,
       end |-> after + (IF mod = 1 THEN 1 ELSE IF long THEN 4 ELSE 0),
       rm  |-> CASE mod = 3 -> Reg(rm + RexB(rex))
                 [] mod # 3 /\ ~hasSib /\ noBase -> None
                 [] OTHER -> Mem(IF noBase THEN NoRegister ELSE base + RexB(rex),
                                 IF hasSib /\ index # 4 THEN index ELSE NoRegister,
                                 IF hasSib /\ index # 4 THEN sib \div 64 ELSE 0,
                                 disp)]

-----------------------------------------------------------------------------
FromRegister ==
  [opcode \in {1, 41, 133, 137} |->
     CASE opcode = 1 -> "add" [] opcode = 41 -> "sub" [] opcode = 133 -> "test" [] opcode = 137 -> "mov"]
ToRegister ==
  [opcode \in {3, 43, 59, 139} |->
     CASE opcode = 3 -> "add" [] opcode = 43 -> "sub" [] opcode = 59 -> "cmp" [] opcode = 139 -> "mov"]
ByExtension == [ext \in {0, 5, 7} |-> CASE ext = 0 -> "add" [] ext = 5 -> "sub" [] ext = 7 -> "cmp"]
OneOperand ==
  [key \in {<<255, 2>>, <<255, 4>>, <<255, 6>>, <<143, 0>>} |->
     CASE key[2] = 2 -> "call" [] key[2] = 4 -> "jmp" [] key[2] = 6 -> "push" [] key[2] = 0 -> "pop"]
SseOperations ==
  [opcode \in {16, 17, 88, 89, 92, 94} |->
     CASE opcode \in {16, 17} -> "movsd" [] opcode = 88 -> "addsd" [] opcode = 89 -> "mulsd"
       [] opcode = 92 -> "subsd" [] opcode = 94 -> "divsd"]

AsXmm(operand) == IF operand.kind = "reg" THEN Xmm(operand.n) ELSE operand

Decoded(op, dst, src, end) == [ins |-> Instr(op, dst, src), end |-> end]
DecodedJump(op, cond, rel, end) == Decoded(op, cond, Imm(end + rel), end)
Undecoded(code) == [ins |-> Unknown, end |-> Len(code) + 1]

(* The instruction with its opcode at o and, if it has one, the operand m. *)
ReadGeneral(code, o, rex, m) ==
  LET opcode == At(code, o)
      second == IF opcode = 15 THEN At(code, o + 1) ELSE -1
      wide == RexW(rex)
      low == (opcode % 8) + RexB(rex)
  IN  CASE wide /\ opcode \in DOMAIN FromRegister -> Decoded(FromRegister[opcode], m.rm, Reg(m.reg), m.end)
        [] wide /\ opcode \in DOMAIN ToRegister   -> Decoded(ToRegister[opcode], Reg(m.reg), m.rm, m.end)
        [] wide /\ second = 175 -> Decoded("mul", Reg(m.reg), m.rm, m.end)
        [] wide /\ opcode = 105 /\ m.rm = Reg(m.reg) -> Decoded("mul", m.rm, Imm(Signed32(code, m.end)), m.end + 4)
        [] wide /\ opcode \in 184 .. 191 -> Decoded("mov", Reg(low), Imm(Signed64(code, o + 1)), o + 9)
        [] wide /\ opcode = 199 /\ m.ext = 0 -> Decoded("mov", m.rm, Imm(Signed32(code, m.end)), m.end + 4)
        [] wide /\ opcode = 131 /\ m.ext \in DOMAIN ByExtension
             -> Decoded(ByExtension[m.ext], m.rm, Imm(Signed8(code, m.end)), m.end + 1)
        [] wide /\ opcode = 129 /\ m.ext \in DOMAIN ByExtension
             -> Decoded(ByExtension[m.ext], m.rm, Imm(Signed32(code, m.end)), m.end + 4)
        [] wide /\ opcode \in {5 + 8 * x : x \in DOMAIN ByExtension}
             -> Decoded(ByExtension[opcode \div 8], Reg(0), Imm(Signed32(code, o + 1)), o + 5)
        [] <<opcode, m.ext>> \in DOMAIN OneOperand -> Decoded(OneOperand[<<opcode, m.ext>>], m.rm, None, m.end)
        [] opcode \in 80 .. 87 -> Decoded("push", Reg(low), None, o + 1)
        [] opcode \in 88 .. 95 -> Decoded("pop", Reg(low), None, o + 1)
        [] opcode = 106 -> Decoded("push", Imm(Signed8(code, o + 1)), None, o + 2)
        [] opcode = 104 -> Decoded("push", Imm(Signed32(code, o + 1)), None, o + 5)
        [] opcode = 195 -> Decoded("ret", None, None, o + 1)
        [] opcode = 232 -> DecodedJump("call", None, Signed32(code, o + 1), o + 5)
        [] opcode = 233 -> DecodedJump("jmp", None, Signed32(code, o + 1), o + 5)
        [] opcode = 235 -> DecodedJump("jmp", None, Signed8(code, o + 1), o + 2)
        [] opcode \in 112 .. 127 -> DecodedJump("j", Imm(opcode - 112), Signed8(code, o + 1), o + 2)
        [] second \in 128 .. 143 -> DecodedJump("j", Imm(second - 128), Signed32(code, o + 2), o + 6)
        [] OTHER -> Undecoded(code)

ReadSse(code, second, m) ==
  LET reg == Xmm(m.reg)
      rm == AsXmm(m.rm)
  IN  CASE second = 17 -> Decoded(SseOperations[second], rm, reg, m.end)
        [] second # 17 /\ second \in DOMAIN SseOperations -> Decoded(SseOperations[second], reg, rm, m.end)
        [] OTHER -> Undecoded(code)

(* The instruction that starts at i, and where it ends.                    *)
Read(code, i) ==
  LET sse == At(code, i) = 242
      r == IF sse THEN i + 1 ELSE i
      hasRex == IsRex(At(code, r))
      rex == IF hasRex THEN At(code, r) ELSE 64
      o == IF hasRex THEN r + 1 ELSE r
      twoBytes == At(code, o) = 15
      m == Operand(code, IF twoBytes THEN o + 2 ELSE o + 1, rex)
  IN  IF sse THEN ReadSse(code, IF twoBytes THEN At(code, o + 1) ELSE -1, m)
             ELSE ReadGeneral(code, o, rex, m)

(* The instructions of code from its first byte to its last.               *)
Listing(code) ==
  LET from[i \in 1 .. Len(code) + 1] ==
        IF i = Len(code) + 1 THEN <<>>
        ELSE LET read == Read(code, i)
             IN  IF read.end > Len(code) + 1 THEN <<Unknown>> ELSE <<read.ins>> \o from[read.end]
  IN  from[1]

-----------------------------------------------------------------------------
(* An instruction on an immediate too wide for it is written as two, the   *)
(* first of which loads the immediate into a scratch register.  Together   *)
(* they are that instruction unless it works on the scratch register.      *)
Mentions(operand, reg) ==
  \/ operand = Reg(reg)
  \/ operand.kind = "mem" /\ reg \in {operand.base, operand.index}
Loads(ins, scratch) == ins.op = "mov" /\ ins.dst = Reg(scratch) /\ ins.src.kind = "imm"

Fused(listing, scratch) ==
  LET n == Len(listing)
      last == listing[n]
      load == listing[n - 1]
      done(ins) == Append(SubSeq(listing, 1, n - 2), ins)
  IN  CASE n < 2 -> listing
        [] n >= 2 /\ ~Loads(load, scratch) -> listing
        [] OTHER ->
             CASE last.src = Reg(scratch) /\ ~Mentions(last.dst, scratch) -> done([last EXCEPT !.src = load.src])
               [] last.src = None /\ last.dst = Reg(scratch) /\ last.op = "push" -> done([last EXCEPT !.dst = load.src])
               [] OTHER -> listing
=============================================================================
