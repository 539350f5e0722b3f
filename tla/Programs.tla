------------------------------ MODULE Programs ------------------------------
(***************************************************************************)
(* Decoded instructions as the decoder delivers them, and the programs of  *)
(* test_assembly in that form, as disassembled from CPU0.bin and CPU1.bin. *)
(* A program is a sequence of instructions at successive word addresses.   *)
(***************************************************************************)
EXTENDS Instructions, Sequences

\* The assembler's operand orders.
Imm(name, rd, rs1, imm) == Instr(name, rd, rs1, NoReg, imm)
Op(name, rd, rs1, rs2)  == Instr(name, rd, rs1, rs2, 0)
Ld(name, rd, imm, rs1)  == Instr(name, rd, rs1, NoReg, imm)
St(name, rs2, imm, rs1) == Instr(name, NoReg, rs1, rs2, imm)
Br(name, rs1, rs2, imm) == Instr(name, NoReg, rs1, rs2, imm)
Jmp(name, rd, imm)      == Instr(name, rd, NoReg, NoReg, imm)

(***************************************************************************)
(* The two programs differ in the target array, the operation, and the     *)
(* distances of their branches.  last is the largest index of the arrays   *)
(* that they process, 255 in the files.                                    *)
(***************************************************************************)
Prologue == <<                          \* main
    Imm("addi", "sp", "sp", -16),       \*   0
    St("sw", "ra", 12, "sp"),           \*   4
    St("sw", "s0", 8, "sp"),            \*   8
    Imm("addi", "s0", "sp", 16),        \*  12
    Imm("addi", "a0", "zero", 0),       \*  16
    St("sw", "a0", -12, "s0"),          \*  20
    St("sw", "a0", -16, "s0"),          \*  24
    Jmp("jal", "zero", 0) >>            \*  28

Test(last, distance) == <<              \* .LBB0_1
    Ld("lw", "a0", -16, "s0"),          \*  32
    Imm("addi", "a1", "zero", last),    \*  36
    Br("blt", "a1", "a0", distance),    \*  40
    Jmp("jal", "zero", 0) >>            \*  44

LoadOperands == <<                      \* .LBB0_2
    Imm("addi", "a0", "zero", 0),       \*  48
    Imm("addi", "a0", "a0", 1024),      \*  52
    Ld("lw", "a1", -16, "s0"),          \*  56
    Imm("slli", "a1", "a1", 2),         \*  60
    Op("add", "a0", "a0", "a1"),        \*  64
    Ld("flw", "ft0", 0, "a0"),          \*  68
    Imm("addi", "a0", "zero", 0),       \*  72
    Imm("addi", "a0", "a0", 2048),      \*  76
    Op("add", "a0", "a0", "a1"),        \*  80
    Ld("flw", "ft1", 0, "a0") >>        \*  84

StoreC == <<
    Op("fadd.s", "ft0", "ft0", "ft1"),  \*  88
    Imm("addi", "a0", "zero", 0),       \*  92
    Imm("addi", "a0", "a0", 3072),      \*  96
    Op("add", "a0", "a0", "a1"),        \* 100
    St("fsw", "ft0", 0, "a0") >>        \* 104

StoreD == <<
    Op("fsub.s", "ft0", "ft0", "ft1"),  \*  88
    Imm("addi", "a0", "zero", 0),       \*  92
    Imm("addi", "a0", "a0", 3072),      \*  96
    Imm("addi", "a0", "a0", 1024),      \* 100
    Op("add", "a0", "a0", "a1"),        \* 104
    St("fsw", "ft0", 0, "a0") >>        \* 108

Repeat(distance) == <<                  \* .LBB0_3
    Jmp("jal", "zero", 0),
    Ld("lw", "a0", -16, "s0"),
    Imm("addi", "a0", "a0", 1),
    St("sw", "a0", -16, "s0"),
    Jmp("jal", "zero", distance) >>

Epilogue == <<                          \* .LBB0_4
    Ld("lw", "a0", -12, "s0"),
    Ld("lw", "s0", 8, "sp"),
    Ld("lw", "ra", 12, "sp"),
    Imm("addi", "sp", "sp", 16),
    Imm("jalr", "zero", "ra", 0) >>

CPU0(last) ==
    Prologue \o Test(last, 80) \o LoadOperands \o StoreC \o Repeat(-100) \o Epilogue

CPU1(last) ==
    Prologue \o Test(last, 84) \o LoadOperands \o StoreD \o Repeat(-104) \o Epilogue
=============================================================================
