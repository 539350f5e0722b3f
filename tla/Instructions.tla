---------------------------- MODULE Instructions ----------------------------
(***************************************************************************)
(* The text that Decoder::decodeInstruction returns and that               *)
(* Core::split_instruction takes apart again, as a record: the name, the   *)
(* registers by the part they play, and the immediate.                     *)
(***************************************************************************)
EXTENDS Integers

Instr(name, rd, rs1, rs2, imm) ==
    [name |-> name, rd |-> rd, rs1 |-> rs1, rs2 |-> rs2, imm |-> imm]

NoReg == "zero"         \* stands for an operand that the text does not have

Unknown == Instr("Unknown", NoReg, NoReg, NoReg, 0)

\* The operand of auipc is printed in decimal and read as hexadecimal digits.
ReadAsHex[n \in Nat] ==
    IF n < 10 THEN n ELSE 16 * ReadAsHex[n \div 10] + (n % 10)

\* Mutant: the digits are read as what they were printed from.
ReadsDecimal(i) == i.imm

AuipcOperand(i) == IF i.imm < 0 THEN -ReadAsHex[-i.imm] ELSE ReadAsHex[i.imm]
=============================================================================
