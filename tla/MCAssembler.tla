----------------------------- MODULE MCAssembler -----------------------------
(* Values for the constants of Assembler.  The registers have every        *)
(* special case of an operand in both halves: 4 and 12 take a SIB byte, 5  *)
(* and 13 a displacement, 11 is the scratch register.  The displacements   *)
(* and immediates lie on both sides of every width; the runs of returns    *)
(* make a backward jump the longest short and the shortest long one, and   *)
(* one whose wrong opcode is right by chance.                              *)
EXTENDS Assembler

MCRegisters == {0, 3, 4, 5, 8, 11, 12, 13}
MCBases == {0, 4, 5, 11, 12, 13}
MCFpuRegisters == {0, 7, 8, 13}
MCDisplacements == {0, 8, -128, -129, 127, 128, 2147483647}
MCImmediates == {0, 1, -1, 127, 128, -128, -129, 2147483647, IntMin}
MCScales == 0 .. 4
MCGarbage == {{}, {REX_B}, {REX_X}, {REX_R}, {REX_W}, {4}, {6}, {REX_X, 7}}
MCConditions == {4, 15}
MCFills == {3, 114, 126, 127}
=============================================================================
