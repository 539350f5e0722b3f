------------------------------ MODULE Decoder -------------------------------
(***************************************************************************)
(* The decoder (components/decoder.cpp): from a machine word of 32 bits to *)
(* an instruction.  A word is the pair of its halves of 16 bits, the upper *)
(* one first.  What the tables and switches have no entry for comes out    *)
(* as an instruction with the name "", as it does in the code.             *)
(*                                                                         *)
(* The control signals are looked up by the code and never used.           *)
(***************************************************************************)
EXTENDS Instructions

OPCODE_LOAD      == 3
OPCODE_LOAD_FP   == 7
OPCODE_I_TYPE    == 19
OPCODE_AUIPC     == 23
OPCODE_S_TYPE    == 35
OPCODE_S_TYPE_FP == 39
OPCODE_R_TYPE    == 51
OPCODE_LUI       == 55
OPTCODE_FP       == 83
OPCODE_SB_TYPE   == 99
OPCODE_JALR      == 103
OPCODE_JAL       == 111

\* The fields.
Hi(w) == w[1]
Lo(w) == w[2]

getOpcode(w) == Lo(w) % 128
getRD(w)     == (Lo(w) \div 128) % 32
getFunct3(w) == (Lo(w) \div 4096) % 8
getRS1(w)    == 2 * (Hi(w) % 16) + Lo(w) \div 32768
getRS2(w)    == (Hi(w) \div 16) % 32
getFunct7(w) == Hi(w) \div 512

(***************************************************************************)
(* getImmediate.                                                           *)
(***************************************************************************)
SignBit(w) == Hi(w) \div 32768

\* Mutant: the test of the sign alone.
NegativeFrom2048(imm) == IF imm >= 2048 THEN imm - 4096 ELSE imm

\* Read as negative only above 4079: the binaries add 2048 and 3072.
Immediate12(imm) == IF imm > 4079 THEN imm - 4096 ELSE imm

\* Mutant: the sign is left out.
StoreOffsetUnsigned(w) == getFunct7(w) * 32 + getRD(w)

StoreOffset(w) == getFunct7(w) * 32 + getRD(w) - 4096 * SignBit(w)

BranchOffset(w) ==
    - 4096 * SignBit(w) + 2048 * (getRD(w) % 2)
        + 32 * (getFunct7(w) % 64) + 2 * (getRD(w) \div 2)

JumpOffset(w) ==
    - 1048576 * SignBit(w) + 4096 * (16 * (Hi(w) % 16) + Lo(w) \div 4096)
        + 2048 * (getRS2(w) % 2) + 2 * ((Hi(w) \div 32) % 1024)

UpperImmediate(w) ==
    65536 * (Hi(w) - 65536 * SignBit(w)) + 4096 * (Lo(w) \div 4096)

getImmediate(w) ==
    LET opcode == getOpcode(w) IN
    CASE opcode \in {OPCODE_LOAD, OPCODE_I_TYPE, OPCODE_JALR} ->
             Immediate12(Hi(w) \div 16)
      [] opcode = OPCODE_S_TYPE                  -> StoreOffset(w)
      [] opcode = OPCODE_SB_TYPE                 -> BranchOffset(w)
      [] opcode = OPCODE_JAL                     -> JumpOffset(w)
      [] opcode \in {OPCODE_AUIPC, OPCODE_LUI}   -> UpperImmediate(w)
      [] OTHER                                   -> 0

(***************************************************************************)
(* InstructionMapping: a table indexed by funct3 (from 0), or by nothing.  *)
(* funct7 is only extracted for the R formats, so the entry of the I type  *)
(* that asks for it (srli, srai) is never found.                           *)
(***************************************************************************)
NoName == ""            \* what a table has no entry for

RTypeNames(funct7) ==
    CASE funct7 = 0  -> <<"add", "sll", "slt", "sltu", "xor", "srl", "or", "and">>
      [] funct7 = 1  -> <<"mul", "mulh", "mulhsu", "mulhu",
                          "div", "divu", "rem", "remu">>
      [] funct7 = 32 -> <<"sub", NoName, NoName, NoName, NoName, "sra",
                          NoName, NoName>>
      [] OTHER       -> [n \in 1 .. 8 |-> NoName]

FloatName(funct7) ==
    CASE funct7 = 0  -> "fadd.s"
      [] funct7 = 4  -> "fsub.s"
      [] funct7 = 8  -> "fmul.s"
      [] funct7 = 12 -> "fdiv.s"
      [] funct7 = 44 -> "fsqrt.s"
      [] OTHER       -> NoName

Name(w) ==
    LET opcode == getOpcode(w)
        funct3 == getFunct3(w)
        in(names) == names[funct3 + 1]
    IN CASE opcode = OPCODE_LOAD ->
                in(<<"lb", "lh", "lw", NoName, "lbu", "lhu", "flw", NoName>>)
         [] opcode = OPCODE_I_TYPE ->
                in(<<"addi", "slli", "slti", "sltiu", "xori", NoName, "ori", "andi">>)
         [] opcode = OPCODE_SB_TYPE ->
                in(<<"beq", "bne", NoName, NoName, "blt", "bge", "bltu", "bgeu">>)
         [] opcode = OPCODE_S_TYPE ->
                in(<<"sb", "sh", "sw", NoName, NoName, NoName, NoName, NoName>>)
         [] opcode = OPCODE_R_TYPE -> in(RTypeNames(getFunct7(w)))
         [] opcode = OPCODE_LOAD_FP   /\ funct3 = 2 -> "flw"
         [] opcode = OPCODE_S_TYPE_FP /\ funct3 = 2 -> "fsw"
         [] opcode = OPCODE_JALR      /\ funct3 = 0 -> "jalr"
         [] opcode = OPTCODE_FP       /\ funct3 = 7 -> FloatName(getFunct7(w))
         [] opcode = OPCODE_AUIPC -> "auipc"
         [] opcode = OPCODE_LUI   -> "lui"
         [] opcode = OPCODE_JAL   -> "jal"
         [] OTHER -> NoName

(***************************************************************************)
(* getRegisterName: x0 and x1 of a float instruction are float registers,  *)
(* also as a base; float registers from f2 on get names of integer ones.   *)
(***************************************************************************)
IntegerNames ==
    <<"zero", "ra", "sp", "gp", "tp", "t0", "t1", "t2", "s0", "s1", "a0",
      "a1", "a2", "a3", "a4", "a5", "a6", "a7", "s2", "s3", "s4", "s5", "s6",
      "s7", "s8", "s9", "s10", "s11", "t3", "t4", "t5", "t6">>

floatInstructions ==
    {"flw", "fsw", "fadd.s", "fsub.s", "fmul.s", "fdiv.s", "fsqrt.s"}

getRegisterName(regNum, name) ==
    IF name \in floatInstructions /\ regNum < 2
    THEN <<"ft0", "ft1">>[regNum + 1]
    ELSE IntegerNames[regNum + 1]

(***************************************************************************)
(* decodeInstruction with addRegisters: which fields are operands.         *)
(***************************************************************************)
Writes == {OPCODE_LOAD, OPCODE_LOAD_FP, OPCODE_I_TYPE, OPCODE_JALR,
           OPCODE_AUIPC, OPCODE_LUI, OPTCODE_FP, OPCODE_R_TYPE, OPCODE_JAL}

ReadsTwo == {OPCODE_S_TYPE, OPCODE_S_TYPE_FP, OPCODE_SB_TYPE, OPTCODE_FP,
             OPCODE_R_TYPE}

ReadsOne ==
    ReadsTwo \cup {OPCODE_LOAD, OPCODE_LOAD_FP, OPCODE_I_TYPE, OPCODE_JALR}

decodeInstruction(w) ==
    LET opcode == getOpcode(w)
        operand(formats, regNum) ==
            IF opcode \in formats THEN getRegisterName(regNum, Name(w)) ELSE NoReg
    IN IF opcode \notin Writes \cup ReadsOne
       THEN Unknown
       ELSE Instr(Name(w), operand(Writes, getRD(w)),
                  operand(ReadsOne, getRS1(w)), operand(ReadsTwo, getRS2(w)),
                  getImmediate(w))
=============================================================================
