----------------------------- MODULE Assembler ------------------------------
(***************************************************************************)
(* The reference the decoder is compared with: how the RISC-V formats      *)
(* place the fields of an instruction in a word, and the names that the    *)
(* calling convention gives to the registers.  A word is the pair of its   *)
(* halves, the upper one first.                                            *)
(***************************************************************************)
EXTENDS Integers, Sequences

Fields(opcode, rd, funct3, rs1, rs2, funct7) ==
    <<512 * funct7 + 16 * rs2 + rs1 \div 2,
      32768 * (rs1 % 2) + 4096 * funct3 + 128 * rd + opcode>>

\* The formats with an immediate of twenty bits.
UpperFields(opcode, rd, upper) ==
    <<upper \div 16, 4096 * (upper % 16) + 128 * rd + opcode>>

Bits(n, high, low) == (n \div 2 ^ low) % 2 ^ (high - low + 1)

(***************************************************************************)
(* The instructions by format, opcode and funct7, with the funct3 of each. *)
(***************************************************************************)
Rows(format, opcode, funct7, names) ==
    {[name |-> n[2], format |-> format, opcode |-> opcode, funct3 |-> n[1],
      funct7 |-> funct7] : n \in names}

Loads == Rows("I", 3, 0, {<<0, "lb">>, <<1, "lh">>, <<2, "lw">>, <<4, "lbu">>, <<5, "lhu">>})

WithConstant ==
    Rows("I", 19, 0, {<<0, "addi">>, <<1, "slli">>, <<2, "slti">>, <<3, "sltiu">>,
                      <<4, "xori">>, <<6, "ori">>, <<7, "andi">>})

Jumps == Rows("I", 103, 0, {<<0, "jalr">>}) \cup Rows("J", 111, 0, {<<0, "jal">>})

Stores == Rows("S", 35, 0, {<<0, "sb">>, <<1, "sh">>, <<2, "sw">>})

Branches == Rows("B", 99, 0, {<<0, "beq">>, <<1, "bne">>, <<4, "blt">>, <<5, "bge">>,
                              <<6, "bltu">>, <<7, "bgeu">>})

Uppers == Rows("U", 55, 0, {<<0, "lui">>}) \cup Rows("U", 23, 0, {<<0, "auipc">>})

Arithmetic ==
    Rows("R", 51, 0, {<<0, "add">>, <<1, "sll">>, <<2, "slt">>, <<3, "sltu">>,
                      <<4, "xor">>, <<5, "srl">>, <<6, "or">>, <<7, "and">>})
    \cup Rows("R", 51, 32, {<<0, "sub">>, <<5, "sra">>})

Products ==
    Rows("R", 51, 1, {<<0, "mul">>, <<1, "mulh">>, <<2, "mulhsu">>, <<3, "mulhu">>,
                      <<4, "div">>, <<5, "divu">>, <<6, "rem">>, <<7, "remu">>})

FloatMoves == Rows("I", 7, 0, {<<2, "flw">>}) \cup Rows("S", 39, 0, {<<2, "fsw">>})

FloatSums ==
    Rows("R", 83, 0, {<<7, "fadd.s">>}) \cup Rows("R", 83, 4, {<<7, "fsub.s">>})
    \cup Rows("R", 83, 8, {<<7, "fmul.s">>}) \cup Rows("R", 83, 12, {<<7, "fdiv.s">>})

InstructionSet ==
    Loads \cup WithConstant \cup Jumps \cup Stores \cup Branches \cup Uppers
    \cup Arithmetic \cup Products \cup FloatMoves \cup FloatSums

\* The machine word of an instruction with register numbers and an immediate.
Word32(row, rd, rs1, rs2, imm) ==
    LET f == row.format IN
    CASE f = "R" -> Fields(row.opcode, rd, row.funct3, rs1, rs2, row.funct7)
      [] f = "I" -> Fields(row.opcode, rd, row.funct3, rs1,
                           Bits(imm, 4, 0), Bits(imm, 11, 5))
      [] f = "S" -> Fields(row.opcode, Bits(imm, 4, 0), row.funct3, rs1, rs2,
                           Bits(imm, 11, 5))
      [] f = "B" -> Fields(row.opcode, 2 * Bits(imm, 4, 1) + Bits(imm, 11, 11),
                           row.funct3, rs1, rs2,
                           64 * Bits(imm, 12, 12) + Bits(imm, 10, 5))
      [] f = "U" -> UpperFields(row.opcode, rd, (imm \div 4096) % 1048576)
      [] OTHER   -> UpperFields(row.opcode, rd,         \* "J"
                                256 * (1024 * Bits(imm, 20, 20) + Bits(imm, 10, 1)) * 2
                                    + 256 * Bits(imm, 11, 11) + Bits(imm, 19, 12))

\* The integer registers by the names of the calling convention.
RegisterNumber ==
    [zero |-> 0, ra |-> 1, sp |-> 2, gp |-> 3, tp |-> 4, t0 |-> 5, t1 |-> 6,
     t2 |-> 7, s0 |-> 8, s1 |-> 9, a0 |-> 10, a1 |-> 11, a2 |-> 12, a3 |-> 13,
     a4 |-> 14, a5 |-> 15, a6 |-> 16, a7 |-> 17, s2 |-> 18, s3 |-> 19,
     s4 |-> 20, s5 |-> 21, s6 |-> 22, s7 |-> 23, s8 |-> 24, s9 |-> 25,
     s10 |-> 26, s11 |-> 27, t3 |-> 28, t4 |-> 29, t5 |-> 30, t6 |-> 31]

\* The float registers.
FloatNumber ==
    [ft0 |-> 0, ft1 |-> 1, ft2 |-> 2, ft3 |-> 3, ft4 |-> 4, ft5 |-> 5,
     ft6 |-> 6, ft7 |-> 7, fs0 |-> 8, fs1 |-> 9, fa0 |-> 10, fa1 |-> 11,
     fa2 |-> 12, fa3 |-> 13, fa4 |-> 14, fa5 |-> 15, fa6 |-> 16, fa7 |-> 17,
     fs2 |-> 18, fs3 |-> 19, fs4 |-> 20, fs5 |-> 21, fs6 |-> 22, fs7 |-> 23,
     fs8 |-> 24, fs9 |-> 25, fs10 |-> 26, fs11 |-> 27, ft8 |-> 28,
     ft9 |-> 29, ft10 |-> 30, ft11 |-> 31]
=============================================================================
