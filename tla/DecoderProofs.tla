--------------------------- MODULE DecoderProofs ----------------------------
(***************************************************************************)
(* The instructions that the decoder gives back as they were assembled,    *)
(* among all that can be written: every register, every immediate.         *)
(***************************************************************************)
EXTENDS RoundTrip, WellFoundedInduction, TLAPS

(***************************************************************************)
(* The fields of a word.                                                   *)
(***************************************************************************)
\* The values of a field; those of five bits are the Registers.
ThreeBits == 0 .. 7
SevenBits == 0 .. 127

LEMMA FieldsOf ==
    ASSUME NEW opcode \in SevenBits, NEW rd \in Registers, NEW funct3 \in ThreeBits,
           NEW rs1 \in Registers, NEW rs2 \in Registers, NEW funct7 \in SevenBits
    PROVE  LET w == Fields(opcode, rd, funct3, rs1, rs2, funct7) IN
           /\ getOpcode(w) = opcode
           /\ getRD(w) = rd
           /\ getFunct3(w) = funct3
           /\ getRS1(w) = rs1
           /\ getRS2(w) = rs2
           /\ getFunct7(w) = funct7
           /\ Hi(w) \div 16 = 32 * funct7 + rs2
           /\ SignBit(w) = funct7 \div 64
  BY SMTT(60) DEF ThreeBits, SevenBits, Registers, Fields, getOpcode, getRD, getFunct3, getRS1, getRS2, getFunct7, Hi, Lo, SignBit

LEMMA UpperFieldsOf ==
    ASSUME NEW opcode \in SevenBits, NEW rd \in Registers,
           NEW upper \in Nat, upper < 1048576
    PROVE  LET w == UpperFields(opcode, rd, upper) IN
           /\ getOpcode(w) = opcode
           /\ getRD(w) = rd
           /\ Hi(w) = upper \div 16
           /\ Lo(w) \div 4096 = upper % 16
           /\ SignBit(w) = upper \div 524288
           /\ getRS2(w) = (upper \div 256) % 32
<1> DEFINE w == UpperFields(opcode, rd, upper)
           q == upper % 16
<1>1. w[1] = upper \div 16 /\ w[2] = 4096 * q + 128 * rd + opcode
  BY DEF UpperFields
<1>2. /\ q \in 0 .. 15
      /\ (upper \div 16) \div 32768 = upper \div 524288
      /\ (upper \div 16) \div 16 = upper \div 256
  BY SMT
<1>3. ASSUME NEW r \in 0 .. 15
      PROVE  LET lo == 4096 * r + 128 * rd + opcode IN
             lo % 128 = opcode /\ (lo \div 128) % 32 = rd /\ lo \div 4096 = r
  BY SMT DEF SevenBits, Registers
<1> QED
  BY SMT, <1>1, <1>2, <1>3 DEF SevenBits, Registers, getOpcode, getRD, getRS2, Hi, Lo, SignBit

LEMMA BitsOf ==
    ASSUME NEW n \in Int
    PROVE  /\ Bits(n, 4, 0) = n % 32
           /\ Bits(n, 11, 5) = (n \div 32) % 128
           /\ Bits(n, 4, 1) = (n \div 2) % 16
           /\ Bits(n, 11, 11) = (n \div 2048) % 2
           /\ Bits(n, 12, 12) = (n \div 4096) % 2
           /\ Bits(n, 10, 5) = (n \div 32) % 64
           /\ Bits(n, 20, 20) = (n \div 1048576) % 2
           /\ Bits(n, 10, 1) = (n \div 2) % 1024
           /\ Bits(n, 19, 12) = (n \div 4096) % 256
  BY SMTT(60) DEF Bits

(***************************************************************************)
(* The names of registers.                                                 *)
(***************************************************************************)
LEMMA IntegerRegisters ==
    ASSUME NEW n \in Registers
    PROVE  Names(IntegerNames[n + 1], n, RegisterNumber) /\ ~Names(IntegerNames[n + 1], n, FloatNumber)
  BY DEF Names, Registers, RegisterNumber, FloatNumber, IntegerNames

LEMMA FloatRegisters ==
    ASSUME NEW n \in 0 .. 1
    PROVE  LET register == <<"ft0", "ft1">>[n + 1] IN
           Names(register, n, FloatNumber) /\ ~Names(register, n, RegisterNumber)
  BY DEF Names, FloatNumber, RegisterNumber

LEMMA RegistersNamed ==
    ASSUME NEW n \in Registers, NEW name, name # "fsqrt.s"
    PROVE  /\ Names(getRegisterName(n, name), n, FloatNumber) <=> (name \in Float /\ n < 2)
           /\ Names(getRegisterName(n, name), n, RegisterNumber) <=> (name \notin Float \/ n >= 2)
<1> DEFINE register == getRegisterName(n, name)
<1>1. name \in floatInstructions <=> name \in Float
  BY DEF floatInstructions, Float
<1>2. n < 2 <=> ~(n >= 2)
  BY DEF Registers
<1>3. CASE name \in Float /\ n < 2
  <2>1. n \in 0 .. 1 /\ register = <<"ft0", "ft1">>[n + 1]
    BY <1>1, <1>3 DEF Registers, getRegisterName
  <2> HIDE DEF register
  <2>2. Names(register, n, FloatNumber) /\ ~Names(register, n, RegisterNumber)
    BY <2>1, FloatRegisters
  <2> QED
    BY <1>2, <1>3, <2>2 DEF register
<1>4. CASE ~(name \in Float /\ n < 2)
  <2>1. register = IntegerNames[n + 1]
    BY <1>1, <1>4 DEF getRegisterName
  <2> HIDE DEF register
  <2>2. ~Names(register, n, FloatNumber) /\ Names(register, n, RegisterNumber)
    BY <2>1, IntegerRegisters
  <2> QED
    BY <1>2, <1>4, <2>2 DEF register
<1> QED
  BY <1>3, <1>4

(***************************************************************************)
(* The immediates: putting together the pieces of a number.                *)
(***************************************************************************)
\* The twelve bits of a number, and the numbers that they give back.
TwelveBits(n) == 32 * ((n \div 32) % 128) + (n % 32)

Kept12(n) == -16 <= n /\ n <= 4079

LEMMA ImmediateI ==
    ASSUME NEW n \in Int, -2048 <= n, n <= 4095
    PROVE  Immediate12(TwelveBits(n)) = n <=> Kept12(n)
  BY SMTT(60) DEF Immediate12, TwelveBits, Kept12

LEMMA ImmediateS ==
    ASSUME NEW n \in Int, Signed(n, 2048)
    PROVE  LET high == (n \div 32) % 128 IN
           high * 32 + (n % 32) - 4096 * (high \div 64) = n
  BY SMTT(60) DEF Signed

\* The fields a branch offset is laid out in, and the offset they give.
BranchLow(n)  == 2 * ((n \div 2) % 16) + ((n \div 2048) % 2)
BranchHigh(n) == 64 * ((n \div 4096) % 2) + ((n \div 32) % 64)

BranchOf(low, high) ==
    - 4096 * (high \div 64) + 2048 * (low % 2) + 32 * (high % 64) + 2 * (low \div 2)

LEMMA ImmediateB ==
    ASSUME NEW n \in Int, Signed(n, 4096), n % 2 = 0
    PROVE  /\ BranchLow(n) \in Registers /\ BranchHigh(n) \in SevenBits
           /\ BranchOf(BranchLow(n), BranchHigh(n)) = n
  BY SMTT(60) DEF Signed, Registers, SevenBits, BranchLow, BranchHigh, BranchOf

LEMMA ImmediateU ==
    ASSUME NEW n \in Int, Signed(n \div 4096, 524288), n % 4096 = 0
    PROVE  LET upper == (n \div 4096) % 1048576 IN
           /\ upper \in Nat /\ upper < 1048576
           /\ 65536 * (upper \div 16 - 65536 * (upper \div 524288))
                  + 4096 * (upper % 16) = n
  BY SMTT(60) DEF Signed

\* The field a jump offset is laid out in, and the offset it gives.
JumpField(n) ==
    256 * (1024 * ((n \div 1048576) % 2) + ((n \div 2) % 1024)) * 2
        + 256 * ((n \div 2048) % 2) + ((n \div 4096) % 256)

JumpOf(upper) ==
    - 1048576 * (upper \div 524288)
        + 4096 * (16 * ((upper \div 16) % 16) + (upper % 16))
        + 2048 * (((upper \div 256) % 32) % 2)
        + 2 * (((upper \div 16) \div 32) % 1024)

LEMMA ImmediateJ ==
    ASSUME NEW n \in Int, Signed(n, 1048576), n % 2 = 0
    PROVE  /\ JumpField(n) \in Nat /\ JumpField(n) < 1048576
           /\ JumpOf(JumpField(n)) = n
<1> DEFINE sign == (n \div 1048576) % 2
           low == (n \div 2) % 1024
           middle == (n \div 2048) % 2
           high == (n \div 4096) % 256
           upper == JumpField(n)
<1>1. /\ n = - 1048576 * sign + 4096 * high + 2048 * middle + 2 * low
      /\ sign \in Nat /\ sign < 2 /\ low \in Nat /\ low < 1024
      /\ middle \in Nat /\ middle < 2 /\ high \in Nat /\ high < 256
  BY SMTT(60) DEF Signed
<1>2. upper = 256 * (1024 * sign + low) * 2 + 256 * middle + high
  BY SMT DEF JumpField
<1> HIDE DEF sign, low, middle, high, upper
<1>3. upper \in Nat /\ upper < 1048576
  BY SMT, <1>1, <1>2
<1>4. upper \div 524288 = sign
  BY SMT, <1>1, <1>2
<1>5. 16 * ((upper \div 16) % 16) + (upper % 16) = high
  <2>1. upper \div 16 = 16 * (2 * (1024 * sign + low) + middle) + high \div 16
    BY SMT, <1>1, <1>2
  <2>2. (upper \div 16) % 16 = high \div 16
    BY SMT, <1>1, <2>1
  <2>3. upper % 16 = high % 16
    BY SMT, <1>1, <1>2
  <2> QED
    BY SMT, <1>1, <2>2, <2>3
<1>6. ((upper \div 256) % 32) % 2 = middle
  <2>1. upper \div 256 = 2 * (1024 * sign + low) + middle
    BY SMT, <1>1, <1>2
  <2>2. ASSUME NEW m \in Nat
        PROVE  (m % 32) % 2 = m % 2
    BY SMT
  <2> QED
    BY SMT, <1>1, <2>1, <2>2
<1>7. ((upper \div 16) \div 32) % 1024 = low
  <2>1. (upper \div 16) \div 32 = 1024 * sign + low
    BY SMT, <1>1, <1>2
  <2> QED
    BY SMT, <1>1, <2>1
<1>8. JumpOf(upper) = n
  BY SMT, <1>1, <1>3, <1>4, <1>5, <1>6, <1>7 DEF JumpOf
<1> QED
  BY <1>3, <1>8 DEF upper

(***************************************************************************)
(* The tables: a word with the opcode and the functions of an instruction  *)
(* has its name.                                                           *)
(***************************************************************************)
Matches(w, i) ==
    /\ getOpcode(w) = i.opcode
    /\ i.format \notin {"U", "J"} => getFunct3(w) = i.funct3
    /\ i.format = "R" => getFunct7(w) = i.funct7

OpcodesOf ==
    [R |-> {51, 83}, I |-> {3, 7, 19, 103}, S |-> {35, 39}, B |-> {99},
     U |-> {23, 55}, J |-> {111}]

WellFormed(i) ==
    /\ i.format \in {"R", "I", "S", "B", "U", "J"}
    /\ i.opcode \in OpcodesOf[i.format]
    /\ i.opcode \in SevenBits /\ i.funct3 \in ThreeBits /\ i.funct7 \in SevenBits
    /\ i.name # "fsqrt.s"
    /\ i.name \in Float <=> i.opcode \in {7, 39, 83}
    /\ i.name \in {"flw", "fsw"} <=> i.opcode \in {7, 39}

LEMMA RowsWellFormed ==
    ASSUME NEW i \in InstructionSet
    PROVE  WellFormed(i)
<1>1. CASE i \in Loads
  BY <1>1 DEF Loads, Rows, WellFormed, OpcodesOf, ThreeBits, SevenBits, Float
<1>2. CASE i \in WithConstant
  BY <1>2 DEF WithConstant, Rows, WellFormed, OpcodesOf, ThreeBits, SevenBits, Float
<1>3. CASE i \in Jumps
  BY <1>3 DEF Jumps, Rows, WellFormed, OpcodesOf, ThreeBits, SevenBits, Float
<1>4. CASE i \in Stores
  BY <1>4 DEF Stores, Rows, WellFormed, OpcodesOf, ThreeBits, SevenBits, Float
<1>5. CASE i \in Branches
  BY <1>5 DEF Branches, Rows, WellFormed, OpcodesOf, ThreeBits, SevenBits, Float
<1>6. CASE i \in Uppers
  BY <1>6 DEF Uppers, Rows, WellFormed, OpcodesOf, ThreeBits, SevenBits, Float
<1>7. CASE i \in Arithmetic
  BY <1>7 DEF Arithmetic, Rows, WellFormed, OpcodesOf, ThreeBits, SevenBits, Float
<1>8. CASE i \in Products
  BY <1>8 DEF Products, Rows, WellFormed, OpcodesOf, ThreeBits, SevenBits, Float
<1>9. CASE i \in FloatMoves
  BY <1>9 DEF FloatMoves, Rows, WellFormed, OpcodesOf, ThreeBits, SevenBits, Float
<1>10. CASE i \in FloatSums
  BY <1>10 DEF FloatSums, Rows, WellFormed, OpcodesOf, ThreeBits, SevenBits, Float
<1> QED
  BY <1>1, <1>2, <1>3, <1>4, <1>5, <1>6, <1>7, <1>8, <1>9, <1>10 DEF InstructionSet

LEMMA NameOfRow ==
    ASSUME NEW i \in InstructionSet, NEW w, Matches(w, i)
    PROVE  Name(w) = i.name
<1> USE DEF OPCODE_LOAD, OPCODE_LOAD_FP, OPCODE_I_TYPE, OPCODE_AUIPC,
            OPCODE_S_TYPE, OPCODE_S_TYPE_FP, OPCODE_R_TYPE, OPCODE_LUI,
            OPTCODE_FP, OPCODE_SB_TYPE, OPCODE_JALR, OPCODE_JAL
<1>1. CASE i \in Loads
  BY <1>1 DEF Name, Matches, Rows, Loads
<1>2. CASE i \in WithConstant
  BY <1>2 DEF Name, Matches, Rows, WithConstant
<1>3. CASE i \in Jumps
  BY <1>3 DEF Name, Matches, Rows, Jumps
<1>4. CASE i \in Stores
  BY <1>4 DEF Name, Matches, Rows, Stores
<1>5. CASE i \in Branches
  BY <1>5 DEF Name, Matches, Rows, Branches
<1>6. CASE i \in Uppers
  BY <1>6 DEF Name, Matches, Rows, Uppers
<1>7. CASE i \in Arithmetic
  BY <1>7 DEF Name, Matches, Rows, Arithmetic, RTypeNames
<1>8. CASE i \in Products
  BY <1>8 DEF Name, Matches, Rows, Products, RTypeNames
<1>9. CASE i \in FloatMoves
  BY <1>9 DEF Name, Matches, Rows, FloatMoves
<1>10. CASE i \in FloatSums
  BY <1>10 DEF Name, Matches, Rows, FloatSums, FloatName
<1> QED
  BY <1>1, <1>2, <1>3, <1>4, <1>5, <1>6, <1>7, <1>8, <1>9, <1>10 DEF InstructionSet

(***************************************************************************)
(* The parts of what the decoder returns.                                  *)
(***************************************************************************)
Opcodes == {3, 7, 19, 23, 35, 39, 51, 55, 83, 99, 103, 111}

LEMMA PartsOf ==
    ASSUME NEW w, getOpcode(w) \in Opcodes
    PROVE  LET t == decodeInstruction(w) IN
           /\ t.name = Name(w)
           /\ t.imm = getImmediate(w)
           /\ getOpcode(w) \notin {35, 39, 99} =>
                  t.rd = getRegisterName(getRD(w), Name(w))
           /\ getOpcode(w) \notin {23, 55, 111} =>
                  t.rs1 = getRegisterName(getRS1(w), Name(w))
           /\ getOpcode(w) \in {35, 39, 51, 83, 99} =>
                  t.rs2 = getRegisterName(getRS2(w), Name(w))
  BY DEF decodeInstruction, Opcodes, Instr, Writes, ReadsOne, ReadsTwo,
         OPCODE_LOAD, OPCODE_LOAD_FP, OPCODE_I_TYPE, OPCODE_AUIPC, OPCODE_S_TYPE,
         OPCODE_S_TYPE_FP, OPCODE_R_TYPE, OPCODE_LUI, OPTCODE_FP, OPCODE_SB_TYPE,
         OPCODE_JALR, OPCODE_JAL

LEMMA ImmediateByOpcode ==
    ASSUME NEW w
    PROVE  /\ getOpcode(w) \in {3, 19, 103} =>
                  getImmediate(w) = Immediate12(Hi(w) \div 16)
           /\ getOpcode(w) = 35 => getImmediate(w) = StoreOffset(w)
           /\ getOpcode(w) = 99 => getImmediate(w) = BranchOffset(w)
           /\ getOpcode(w) = 111 => getImmediate(w) = JumpOffset(w)
           /\ getOpcode(w) \in {23, 55} => getImmediate(w) = UpperImmediate(w)
           /\ getOpcode(w) \in {7, 39} => getImmediate(w) = 0
  BY DEF getImmediate, OPCODE_LOAD, OPCODE_LOAD_FP, OPCODE_I_TYPE, OPCODE_AUIPC,
         OPCODE_S_TYPE, OPCODE_S_TYPE_FP, OPCODE_R_TYPE, OPCODE_LUI, OPTCODE_FP,
         OPCODE_SB_TYPE, OPCODE_JALR, OPCODE_JAL

(***************************************************************************)
(* One format at a time: the word that is decoded has the fields that were *)
(* written, so the tables and the immediate give back what was written.    *)
(***************************************************************************)
\* What is left to show of a word: its fields are those of its source.
HasFields(w, s) ==
    LET i == s.instruction IN
    /\ Matches(w, i)
    /\ i.format \notin {"S", "B"} => getRD(w) = s.rd
    /\ i.format \notin {"U", "J"} => getRS1(w) = s.rs1
    /\ i.format \in {"R", "S", "B"} => getRS2(w) = s.rs2
    /\ i.format # "R" => (getImmediate(w) = s.imm <=> ImmediateKept(s))

LEMMA FieldsDescribe ==
    ASSUME NEW s, Writable(s), NEW w, HasFields(w, s)
    PROVE  Describes(decodeInstruction(w), s) <=> Supported(s)
<1> DEFINE i == s.instruction
           t == decodeInstruction(w)
<1>1. i \in InstructionSet /\ WellFormed(i) /\ Name(w) = i.name
  BY RowsWellFormed, NameOfRow DEF Writable, HasFields
<1>2. getOpcode(w) = i.opcode /\ i.opcode \in Opcodes
  BY <1>1 DEF HasFields, Matches, WellFormed, OpcodesOf, Opcodes
<1>3. t.name = i.name
  BY <1>1, <1>2, PartsOf
<1>4. i.format # "R" => (t.imm = s.imm <=> ImmediateKept(s))
  BY <1>2, PartsOf DEF HasFields
<1>5. i.format = "R" => ImmediateKept(s)
  BY <1>1 DEF ImmediateKept, WellFormed, OpcodesOf
<1>6. ASSUME i.format \notin {"S", "B"}
      PROVE  Names(t.rd, s.rd, Numbers(i)) <=> (i.name \in Float => s.rd < 2)
  <2>1. t.rd = getRegisterName(s.rd, i.name)
    BY <1>1, <1>2, <1>6, PartsOf DEF HasFields, WellFormed, OpcodesOf
  <2>2. i.name # "fsqrt.s" /\ s.rd \in Registers
    BY <1>1 DEF Writable, WellFormed
  <2>3. CASE i.name \in Float
    BY <2>1, <2>2, <2>3, RegistersNamed DEF Numbers
  <2>4. CASE i.name \notin Float
    BY <2>1, <2>2, <2>4, RegistersNamed DEF Numbers
  <2> QED
    BY <2>3, <2>4
<1>7. ASSUME i.format \notin {"U", "J"}
      PROVE  Names(t.rs1, s.rs1, BaseNumbers(i))
                 <=> (i.name \in Float =>
                          IF i.name \in {"flw", "fsw"} THEN s.rs1 >= 2 ELSE s.rs1 < 2)
  <2>1. t.rs1 = getRegisterName(s.rs1, i.name) /\ s.rs1 \in Registers
    BY <1>1, <1>2, <1>7, PartsOf DEF HasFields, Writable, WellFormed, OpcodesOf
  <2>2. CASE i.name \in {"flw", "fsw"}
    BY <1>1, <2>1, <2>2, RegistersNamed DEF WellFormed, Float, BaseNumbers
  <2>3. CASE i.name \notin {"flw", "fsw"}
    BY <1>1, <2>1, <2>3, RegistersNamed DEF WellFormed, BaseNumbers
  <2> QED
    BY <2>2, <2>3
<1>8. ASSUME i.format \in {"R", "S", "B"}
      PROVE  Names(t.rs2, s.rs2, Numbers(i)) <=> (i.name \in Float => s.rs2 < 2)
  <2>1. t.rs2 = getRegisterName(s.rs2, i.name)
    BY <1>1, <1>2, <1>8, PartsOf DEF HasFields, WellFormed, OpcodesOf
  <2>2. i.name # "fsqrt.s" /\ s.rs2 \in Registers
    BY <1>1 DEF Writable, WellFormed
  <2>3. CASE i.name \in Float
    BY <2>1, <2>2, <2>3, RegistersNamed DEF Numbers
  <2>4. CASE i.name \notin Float
    BY <2>1, <2>2, <2>4, RegistersNamed DEF Numbers
  <2> QED
    BY <2>3, <2>4
<1>9. /\ i.format \in {"R", "I", "S", "B", "U", "J"}
      /\ i.name \in Float => i.format \in {"R", "I", "S"}
  BY <1>1 DEF WellFormed, OpcodesOf
<1> HIDE DEF t, i
<1>10. Describes(t, s) <=>
           /\ ImmediateKept(s)
           /\ i.format \notin {"S", "B"} => (i.name \in Float => s.rd < 2)
           /\ i.format \notin {"U", "J"} => (i.name \in Float =>
                  IF i.name \in {"flw", "fsw"} THEN s.rs1 >= 2 ELSE s.rs1 < 2)
           /\ i.format \in {"R", "S", "B"} => (i.name \in Float => s.rs2 < 2)
  BY <1>3, <1>4, <1>5, <1>6, <1>7, <1>8 DEF Describes, i
<1>11. RegistersKept(s) <=>
           (i.name \in Float =>
               /\ i.format # "S" => s.rd < 2
               /\ i.format # "I" => s.rs2 < 2
               /\ IF i.name \in {"flw", "fsw"} THEN s.rs1 >= 2 ELSE s.rs1 < 2)
  BY DEF RegistersKept, i
<1> QED
  BY <1>9, <1>10, <1>11 DEF Supported, t

LEMMA FieldsR ==
    ASSUME NEW s, Writable(s), s.instruction.format = "R"
    PROVE  HasFields(Word32Of(s), s)
<1> DEFINE i == s.instruction
<1>1. WellFormed(i)
  BY RowsWellFormed DEF Writable
<1>2. Word32Of(s) = Fields(i.opcode, s.rd, i.funct3, s.rs1, s.rs2, i.funct7)
  BY DEF Word32Of, Word32
<1> QED
  BY <1>1, <1>2, FieldsOf DEF HasFields, Matches, Writable, WellFormed

LEMMA FieldsI ==
    ASSUME NEW s, Writable(s), s.instruction.format = "I"
    PROVE  HasFields(Word32Of(s), s)
<1> DEFINE i == s.instruction
           w == Word32Of(s)
           low == s.imm % 32
           high == (s.imm \div 32) % 128
<1>1. WellFormed(i) /\ i.opcode \in {3, 7, 19, 103}
  BY RowsWellFormed DEF Writable, WellFormed, OpcodesOf
<1>2. s.imm \in Int /\ -2048 <= s.imm /\ s.imm <= 4095
  BY DEF Writable, Fits
<1>3. w = Fields(i.opcode, s.rd, i.funct3, s.rs1, low, high)
  BY <1>2, BitsOf DEF Word32Of, Word32
<1>4. low \in Registers /\ high \in SevenBits
  BY SMT, <1>2 DEF Registers, SevenBits
<1>5. /\ getOpcode(w) = i.opcode /\ getRD(w) = s.rd /\ getFunct3(w) = i.funct3
      /\ getRS1(w) = s.rs1 /\ Hi(w) \div 16 = 32 * high + low
  <2> HIDE DEF low, high
  <2> QED
    BY <1>1, <1>3, <1>4, FieldsOf DEF Writable, WellFormed
<1>6. CASE i.opcode = 7
  <2>1. ImmediateKept(s) <=> s.imm = 0
    BY <1>1, <1>6 DEF ImmediateKept, WellFormed
  <2> QED
    BY <1>2, <1>5, <1>6, <2>1, ImmediateByOpcode DEF HasFields, Matches
<1>7. CASE i.opcode # 7
  <2>1. ImmediateKept(s) <=> Kept12(s.imm)
    BY <1>1, <1>7 DEF ImmediateKept, WellFormed, Kept12
  <2>2. getImmediate(w) = Immediate12(TwelveBits(s.imm))
    BY <1>1, <1>5, <1>7, ImmediateByOpcode DEF TwelveBits
  <2>3. Immediate12(TwelveBits(s.imm)) = s.imm <=> Kept12(s.imm)
    BY <1>2, ImmediateI
  <2> QED
    BY <1>5, <2>1, <2>2, <2>3 DEF HasFields, Matches
<1> QED
  BY <1>6, <1>7

LEMMA FieldsS ==
    ASSUME NEW s, Writable(s), s.instruction.format = "S"
    PROVE  HasFields(Word32Of(s), s)
<1> DEFINE i == s.instruction
           w == Word32Of(s)
           low == s.imm % 32
           high == (s.imm \div 32) % 128
<1>1. WellFormed(i) /\ i.opcode \in {35, 39}
  BY RowsWellFormed DEF Writable, WellFormed, OpcodesOf
<1>2. s.imm \in Int /\ Signed(s.imm, 2048)
  BY DEF Writable, Fits
<1>3. w = Fields(i.opcode, low, i.funct3, s.rs1, s.rs2, high)
  BY <1>2, BitsOf DEF Word32Of, Word32
<1>4. low \in Registers /\ high \in SevenBits
  BY SMT, <1>2 DEF Registers, SevenBits
<1>5. /\ getOpcode(w) = i.opcode /\ getRD(w) = low /\ getFunct3(w) = i.funct3
      /\ getRS1(w) = s.rs1 /\ getRS2(w) = s.rs2
      /\ getFunct7(w) = high /\ SignBit(w) = high \div 64
  <2> HIDE DEF low, high
  <2> QED
    BY <1>1, <1>3, <1>4, FieldsOf DEF Writable, WellFormed
<1>6. CASE i.opcode = 39
  <2>1. ImmediateKept(s) <=> s.imm = 0
    BY <1>1, <1>6 DEF ImmediateKept, WellFormed
  <2> QED
    BY <1>2, <1>5, <1>6, <2>1, ImmediateByOpcode DEF HasFields, Matches
<1>7. CASE i.opcode = 35
  <2>1. StoreOffset(w) = s.imm
    BY <1>2, <1>5, ImmediateS DEF StoreOffset
  <2>2. ImmediateKept(s)
    BY <1>1, <1>7 DEF ImmediateKept, WellFormed
  <2> QED
    BY <1>5, <1>7, <2>1, <2>2, ImmediateByOpcode DEF HasFields, Matches
<1> QED
  BY <1>1, <1>6, <1>7

LEMMA FieldsB ==
    ASSUME NEW s, Writable(s), s.instruction.format = "B"
    PROVE  HasFields(Word32Of(s), s)
<1> DEFINE i == s.instruction
           w == Word32Of(s)
           low == BranchLow(s.imm)
           high == BranchHigh(s.imm)
<1>1. WellFormed(i) /\ i.opcode = 99
  BY RowsWellFormed DEF Writable, WellFormed, OpcodesOf
<1>2. s.imm \in Int /\ Signed(s.imm, 4096) /\ s.imm % 2 = 0
  BY DEF Writable, Fits
<1>3. w = Fields(i.opcode, low, i.funct3, s.rs1, s.rs2, high)
  BY <1>2, BitsOf DEF Word32Of, Word32, BranchLow, BranchHigh
<1>4. low \in Registers /\ high \in SevenBits /\ BranchOf(low, high) = s.imm
  BY <1>2, ImmediateB
<1>5. /\ getOpcode(w) = i.opcode /\ getRD(w) = low /\ getFunct3(w) = i.funct3
      /\ getRS1(w) = s.rs1 /\ getRS2(w) = s.rs2
      /\ getFunct7(w) = high /\ SignBit(w) = high \div 64
  <2> HIDE DEF low, high
  <2> QED
    BY <1>1, <1>3, <1>4, FieldsOf DEF Writable, WellFormed
<1>6. BranchOffset(w) = s.imm
  BY <1>4, <1>5 DEF BranchOffset, BranchOf
<1>7. ImmediateKept(s)
  BY <1>1 DEF ImmediateKept, WellFormed
<1> QED
  BY <1>1, <1>5, <1>6, <1>7, ImmediateByOpcode DEF HasFields, Matches

LEMMA FieldsU ==
    ASSUME NEW s, Writable(s), s.instruction.format = "U"
    PROVE  HasFields(Word32Of(s), s)
<1> DEFINE i == s.instruction
           w == Word32Of(s)
           upper == (s.imm \div 4096) % 1048576
<1>1. WellFormed(i) /\ i.opcode \in {23, 55}
  BY RowsWellFormed DEF Writable, WellFormed, OpcodesOf
<1>2. s.imm \in Int /\ Signed(s.imm \div 4096, 524288) /\ s.imm % 4096 = 0
  BY DEF Writable, Fits
<1>3. w = UpperFields(i.opcode, s.rd, upper)
  BY SMT DEF Word32Of, Word32
<1>4. /\ upper \in Nat /\ upper < 1048576
      /\ 65536 * (upper \div 16 - 65536 * (upper \div 524288))
             + 4096 * (upper % 16) = s.imm
  BY <1>2, ImmediateU
<1>5. /\ getOpcode(w) = i.opcode /\ getRD(w) = s.rd
      /\ UpperImmediate(w) = s.imm
  <2> HIDE DEF upper
  <2>1. /\ getOpcode(w) = i.opcode /\ getRD(w) = s.rd
        /\ Hi(w) = upper \div 16 /\ Lo(w) \div 4096 = upper % 16
        /\ SignBit(w) = upper \div 524288
    BY SMT, <1>1, <1>3, <1>4, UpperFieldsOf DEF Writable, WellFormed
  <2> QED
    BY SMT, <1>4, <2>1 DEF UpperImmediate
<1>7. ImmediateKept(s)
  BY <1>1 DEF ImmediateKept, WellFormed
<1> QED
  BY <1>1, <1>5, <1>7, ImmediateByOpcode DEF HasFields, Matches

LEMMA FieldsJ ==
    ASSUME NEW s, Writable(s), s.instruction.format = "J"
    PROVE  HasFields(Word32Of(s), s)
<1> DEFINE i == s.instruction
           w == Word32Of(s)
           upper == JumpField(s.imm)
<1>1. WellFormed(i) /\ i.opcode = 111
  BY RowsWellFormed DEF Writable, WellFormed, OpcodesOf
<1>2. s.imm \in Int /\ Signed(s.imm, 1048576) /\ s.imm % 2 = 0
  BY DEF Writable, Fits
<1>3. w = UpperFields(i.opcode, s.rd, upper)
  BY SMT, <1>2, BitsOf DEF Word32Of, Word32, JumpField
<1>4. upper \in Nat /\ upper < 1048576 /\ JumpOf(upper) = s.imm
  BY <1>2, ImmediateJ
<1>5. /\ getOpcode(w) = i.opcode /\ getRD(w) = s.rd
      /\ JumpOffset(w) = s.imm
  <2> HIDE DEF upper
  <2>1. /\ getOpcode(w) = i.opcode /\ getRD(w) = s.rd
        /\ Hi(w) = upper \div 16 /\ Lo(w) \div 4096 = upper % 16
        /\ SignBit(w) = upper \div 524288 /\ getRS2(w) = (upper \div 256) % 32
    BY SMT, <1>1, <1>3, <1>4, UpperFieldsOf DEF Writable, WellFormed
  <2> QED
    BY SMT, <1>4, <2>1 DEF JumpOffset, JumpOf
<1>7. ImmediateKept(s)
  BY <1>1 DEF ImmediateKept, WellFormed
<1> QED
  BY <1>1, <1>5, <1>7, ImmediateByOpcode DEF HasFields, Matches

LEMMA DecodeDescribes ==
    ASSUME NEW s, Writable(s)
    PROVE  Describes(decodeInstruction(Word32Of(s)), s) <=> Supported(s)
<1>1. s.instruction.format \in {"R", "I", "S", "B", "U", "J"}
  BY RowsWellFormed DEF Writable, WellFormed
<1>2. HasFields(Word32Of(s), s)
  BY <1>1, FieldsR, FieldsI, FieldsS, FieldsB, FieldsU, FieldsJ
<1> QED
  BY <1>2, FieldsDescribe

\* The name is always the one that was written.
LEMMA NameDecoded ==
    ASSUME NEW s, Writable(s)
    PROVE  decodeInstruction(Word32Of(s)).name = s.instruction.name
<1> DEFINE i == s.instruction
           w == Word32Of(s)
<1>1. i \in InstructionSet /\ WellFormed(i)
  BY RowsWellFormed DEF Writable
<1>2. HasFields(w, s)
  BY <1>1, FieldsR, FieldsI, FieldsS, FieldsB, FieldsU, FieldsJ DEF WellFormed
<1>3. getOpcode(w) \in Opcodes /\ Name(w) = i.name
  BY <1>1, <1>2, NameOfRow DEF HasFields, Matches, WellFormed, OpcodesOf, Opcodes
<1> QED
  BY <1>3, PartsOf

(***************************************************************************)
(* decodeInstruction, decoder.cpp:140-393, inverts the assembler where     *)
(* Supported says so, and nowhere else: for every instruction of the       *)
(* tables, every register and every immediate of its format, what is       *)
(* decoded is what was written, unless the immediate is one that lines 261 *)
(* and 266 misread or that flw and fsw lose, or a register one that line   *)
(* 308 misnames.                                                           *)
(***************************************************************************)
THEOREM DecoderInvertsAssembler == Spec => []DecodesAsAssembled
<1> DEFINE Inv == source \in Sources /\ text \in {NotYet, decodeInstruction(Word32Of(source))}
<1>1. Init => Inv
  BY DEF Init
<1>2. Inv /\ [Next]_<<source, text>> => Inv'
  BY DEF Next
<1>3. Inv => DecodesAsAssembled
  BY SourceAssumption, DecodeDescribes DEF DecodesAsAssembled
<1> QED
  BY <1>1, <1>2, <1>3, PTL DEF Spec

(***************************************************************************)
(* Decimal digits read as hexadecimal ones.  Induction is over the least   *)
(* number for which something fails.                                       *)
(***************************************************************************)
LEMMA LeastNumber ==
    ASSUME NEW T, T \subseteq Nat, T # {}
    PROVE  \E n \in T : \A m \in T : n <= m
<1> DEFINE R == OpToRel(<, Nat)
<1>1. IsWellFoundedOn(R, Nat)
  BY NatLessThanWellFounded
<1>2. \A m, n \in Nat : <<m, n>> \in R <=> m < n
  BY DEF OpToRel
<1> HIDE DEF R
<1>3. PICK n \in T : \A m \in T : ~(<<m, n>> \in R)
  BY <1>1, WFMin
<1>4. ASSUME NEW m \in T
      PROVE  n <= m
  <2>1. m \in Nat /\ n \in Nat /\ ~(m < n)
    BY <1>2, <1>3
  <2> QED
    BY <2>1
<1> QED
  BY <1>3, <1>4

Digits(g, n) == IF n < 10 THEN n ELSE 16 * g[n \div 10] + (n % 10)

\* The function g reads all numbers up to N.
Reads(g, N) == \A n \in Nat : n <= N => g[n] \in Nat /\ g[n] = Digits(g, n)

LEMMA Tenth ==
    ASSUME NEW n \in Nat, n >= 10
    PROVE  n \div 10 \in Nat /\ n \div 10 < n /\ n = 10 * (n \div 10) + (n % 10)
           /\ n % 10 \in 0 .. 9
  OBVIOUS

LEMMA ReadersExist == \A N \in Nat : \E g : Reads(g, N)
<1> DEFINE T == {N \in Nat : ~\E g : Reads(g, N)}
<1> SUFFICES ASSUME T # {} PROVE FALSE
  OBVIOUS
<1>1. PICK N \in T : \A M \in T : N <= M
  BY LeastNumber
<1>2. N \in Nat /\ ~\E g : Reads(g, N)
  OBVIOUS
<1>3. PICK g : \A n \in Nat : n < N => g[n] \in Nat /\ g[n] = Digits(g, n)
  <2>1. CASE N = 0
    BY <2>1
  <2>2. CASE N # 0
    <3>1. N - 1 \in Nat /\ ~(N <= N - 1)
      BY <1>2, <2>2
    <3>2. PICK g : Reads(g, N - 1)
      BY <1>1, <3>1
    <3> QED
      BY <1>2, <3>1, <3>2 DEF Reads
  <2> QED
    BY <2>1, <2>2
<1> DEFINE h == [n \in Nat |-> IF n < N THEN g[n] ELSE Digits(g, N)]
<1>4. \A n \in Nat : n < N => h[n] = g[n]
  OBVIOUS
<1>5. h[N] = Digits(g, N)
  BY <1>2
<1> HIDE DEF h
<1>6. ASSUME NEW n \in Nat, n <= N
      PROVE  h[n] \in Nat /\ h[n] = Digits(h, n)
  <2>1. Digits(h, n) = Digits(g, n)
    <3>1. CASE n < 10
      BY <3>1 DEF Digits
    <3>2. CASE n >= 10
      BY <1>2, <1>4, <1>6, <3>2, Tenth DEF Digits
    <3> QED
      BY <3>1, <3>2
  <2>2. Digits(g, n) \in Nat
    <3>1. CASE n < 10
      BY <3>1 DEF Digits
    <3>2. CASE n >= 10
      BY <1>2, <1>3, <1>6, <3>2, Tenth DEF Digits
    <3> QED
      BY <3>1, <3>2
  <2>3. h[n] = Digits(g, n)
    BY <1>2, <1>3, <1>4, <1>5, <1>6
  <2> QED
    BY <2>1, <2>2, <2>3
<1> QED
  BY <1>2, <1>6 DEF Reads

LEMMA ReadersAgree ==
    ASSUME NEW g, NEW h, NEW N \in Nat, NEW M \in Nat, Reads(g, N), Reads(h, M)
    PROVE  \A n \in Nat : n <= N /\ n <= M => g[n] = h[n]
<1> DEFINE T == {n \in Nat : n <= N /\ n <= M /\ g[n] # h[n]}
<1> SUFFICES ASSUME T # {} PROVE FALSE
  OBVIOUS
<1>1. PICK n \in T : \A m \in T : n <= m
  BY LeastNumber
<1>2. g[n] = Digits(g, n) /\ h[n] = Digits(h, n)
  BY DEF Reads
<1>3. CASE n < 10
  BY <1>2, <1>3 DEF Digits
<1>4. CASE n >= 10
  <2> DEFINE m == n \div 10
  <2>1. m \in Nat /\ m < n
    BY <1>4, Tenth
  <2> HIDE DEF m
  <2>2. g[m] = h[m]
    BY <1>1, <2>1
  <2> QED
    BY <1>2, <2>2 DEF Digits, m
<1> QED
  BY <1>3, <1>4

LEMMA ReadAsHexIs ==
    \A n \in Nat : ReadAsHex[n] \in Nat /\ ReadAsHex[n] = Digits(ReadAsHex, n)
<1> DEFINE F == [n \in Nat |-> (CHOOSE g : Reads(g, n))[n]]
<1>1. ASSUME NEW n \in Nat
      PROVE  F[n] \in Nat /\ F[n] = Digits(F, n)
  <2> DEFINE g == CHOOSE g : Reads(g, n)
  <2>1. Reads(g, n)
    BY ReadersExist
  <2>2. F[n] = g[n]
    OBVIOUS
  <2>3. ASSUME NEW m \in Nat, m < n
        PROVE  F[m] = g[m]
    <3> DEFINE f == CHOOSE f : Reads(f, m)
    <3>1. Reads(f, m) /\ F[m] = f[m]
      BY ReadersExist
    <3> HIDE DEF f, g
    <3> QED
      BY <2>1, <2>3, <3>1, ReadersAgree
  <2> HIDE DEF F, g
  <2>4. Digits(F, n) = Digits(g, n)
    <3>1. CASE n < 10
      BY <3>1 DEF Digits
    <3>2. CASE n >= 10
      BY <2>3, <3>2, Tenth DEF Digits
    <3> QED
      BY <3>1, <3>2
  <2> QED
    BY <2>1, <2>2, <2>4 DEF Reads
<1>2. F = [n \in Nat |-> Digits(F, n)]
  <2>1. F = [n \in Nat |-> F[n]]
    OBVIOUS
  <2> HIDE DEF F
  <2> QED
    BY <1>1, <2>1
<1> HIDE DEF F
<1>3. ReadAsHex = [n \in Nat |-> Digits(ReadAsHex, n)]
  BY <1>2 DEF ReadAsHex, Digits
<1>4. \A g : g = [n \in Nat |-> Digits(g, n)] => \A n \in Nat : g[n] = Digits(g, n)
  OBVIOUS
<1>5. \A n \in Nat : ReadAsHex[n] = Digits(ReadAsHex, n)
  BY <1>3, <1>4
<1> DEFINE T == {n \in Nat : ReadAsHex[n] \notin Nat}
<1>6. ASSUME T # {}
      PROVE  FALSE
  <2>1. PICK n \in T : \A m \in T : n <= m
    BY <1>6, LeastNumber
  <2>2. CASE n < 10
    BY <1>5, <2>2 DEF Digits
  <2>3. CASE n >= 10
    <3> DEFINE m == n \div 10
    <3>1. m \in Nat /\ m < n /\ n % 10 \in 0 .. 9
      BY <2>3, Tenth
    <3>2. ReadAsHex[n] = 16 * ReadAsHex[m] + (n % 10)
      BY <1>5, <2>3 DEF Digits
    <3> HIDE DEF m
    <3>3. ReadAsHex[m] \in Nat
      BY <2>1, <3>1
    <3> QED
      BY <3>1, <3>2, <3>3
  <2> QED
    BY <2>2, <2>3
<1> QED
  BY <1>5, <1>6

\* A number of two digits or more becomes a larger one.
LEMMA ReadAsHexGrows == \A n \in Nat : ReadAsHex[n] >= n /\ (n >= 10 => ReadAsHex[n] > n)
<1> DEFINE T == {n \in Nat : ~(ReadAsHex[n] >= n /\ (n >= 10 => ReadAsHex[n] > n))}
<1> SUFFICES ASSUME T # {} PROVE FALSE
  OBVIOUS
<1>1. PICK n \in T : \A m \in T : n <= m
  BY LeastNumber
<1>2. CASE n < 10
  BY <1>2, ReadAsHexIs DEF Digits
<1>3. CASE n >= 10
  <2> DEFINE m == n \div 10
             x == ReadAsHex[m]
  <2>1. m \in Nat /\ m < n /\ n = 10 * m + (n % 10) /\ n % 10 \in 0 .. 9
    BY <1>3, Tenth
  <2>2. ReadAsHex[n] = 16 * x + (n % 10)
    BY <1>3, ReadAsHexIs DEF Digits
  <2>3. x \in Nat
    BY <2>1, ReadAsHexIs
  <2> HIDE DEF m
  <2>4. x >= m
    BY <1>1, <2>1
  <2> HIDE DEF x
  <2>5. m >= 1
    BY <1>3, <2>1
  <2>6. ReadAsHex[n] > n
    BY <2>1, <2>2, <2>3, <2>4, <2>5
  <2>7. n \in Nat /\ ReadAsHex[n] \in Nat
    BY ReadAsHexIs
  <2> QED
    BY <2>6, <2>7
<1> QED
  BY <1>2, <1>3

LEMMA OnlyZeroIsRead ==
    ASSUME NEW i, i.imm \in Int, i.imm % 4096 = 0
    PROVE  AuipcOperand(i) = i.imm <=> i.imm = 0
<1> DEFINE n == i.imm
           m == 0 - n
<1>1. n \in Int /\ m \in Int /\ n % 4096 = 0 /\ (n < 0 => -n = m)
  OBVIOUS
<1>2. AuipcOperand(i) = IF n < 0 THEN -ReadAsHex[m] ELSE ReadAsHex[n]
  BY <1>1 DEF AuipcOperand
<1> DEFINE o == AuipcOperand(i)
<1> HIDE DEF n, o
<1>3. CASE n = 0
  BY <1>2, <1>3, ReadAsHexIs DEF Digits, o
<1>4. CASE n > 0
  <2>1. n \in Nat /\ n >= 10
    BY <1>1, <1>4
  <2>2. ReadAsHex[n] > n
    BY <2>1, ReadAsHexGrows
  <2>3. o = ReadAsHex[n]
    BY <1>1, <1>2, <1>4 DEF o
  <2> QED
    BY <1>1, <1>4, <2>2, <2>3, ReadAsHexIs, <2>1 DEF n, o
<1>5. CASE n < 0
  <2>1. m \in Nat /\ m >= 10
    BY <1>1, <1>5
  <2> DEFINE x == ReadAsHex[m]
  <2>2. x > m /\ x \in Nat
    BY <2>1, ReadAsHexGrows, ReadAsHexIs
  <2>3. o = -x
    BY <1>1, <1>2, <1>5 DEF o
  <2> HIDE DEF x
  <2>4. o # n
    BY <1>1, <2>2, <2>3
  <2> QED
    BY <1>1, <1>5, <2>4 DEF n, o
<1> QED
  BY <1>1, <1>3, <1>4, <1>5

LEMMA AuipcIsUpper ==
    ASSUME NEW i \in InstructionSet, i.name = "auipc"
    PROVE  i.format = "U"
<1>1. CASE i \in Loads \cup WithConstant \cup Jumps
  BY <1>1 DEF Loads, WithConstant, Jumps, Rows
<1>2. CASE i \in Stores \cup Branches \cup FloatMoves
  BY <1>2 DEF Stores, Branches, FloatMoves, Rows
<1>3. CASE i \in Uppers
  BY <1>3 DEF Uppers, Rows
<1>4. CASE i \in Arithmetic \cup Products \cup FloatSums
  BY <1>4 DEF Arithmetic, Products, FloatSums, Rows
<1> QED
  BY <1>1, <1>2, <1>3, <1>4 DEF InstructionSet

\* What auipc shifts is what was written only when that is nothing, whatever
\* multiple of a page was written (decoder.cpp:380 printing for core.cpp:409).
THEOREM AuipcIsMisread == Spec => []AuipcMisread
<1> DEFINE Inv == source \in Sources /\ text \in {NotYet, decodeInstruction(Word32Of(source))}
<1>1. Init => Inv
  BY DEF Init
<1>2. Inv /\ [Next]_<<source, text>> => Inv'
  BY DEF Next
<1>3. ASSUME Inv, text.name = "auipc"
      PROVE  AuipcOperand(text) = text.imm <=> text.imm = 0
  <2> DEFINE i == source.instruction
  <2>1. text # NotYet
    <3>1. NotYet.name = "not decoded"
      BY DEF NotYet, Instr
    <3> QED
      BY <1>3, <3>1
  <2>2. text = decodeInstruction(Word32Of(source)) /\ Writable(source)
    BY <1>3, <2>1, SourceAssumption
  <2>3. i \in InstructionSet /\ i.name = "auipc"
    BY <1>3, <2>2, NameDecoded DEF Writable
  <2>4. i.format = "U"
    BY <2>3, AuipcIsUpper
  <2>5. Supported(source)
    BY <2>3, <2>4 DEF Supported, ImmediateKept, RegistersKept, Float
  <2>6. text.imm = source.imm
    BY <2>2, <2>4, <2>5, DecodeDescribes DEF Describes
  <2>7. source.imm \in Int /\ source.imm % 4096 = 0
    BY <2>2, <2>4 DEF Writable, Fits
  <2> QED
    BY <2>6, <2>7, OnlyZeroIsRead
<1>4. Inv => AuipcMisread
  BY <1>3 DEF AuipcMisread
<1> QED
  BY <1>1, <1>2, <1>4, PTL DEF Spec
=============================================================================
