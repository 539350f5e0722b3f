----------------------------- MODULE RoundTrip ------------------------------
(***************************************************************************)
(* One instruction is assembled as the RISC-V formats have it, and its     *)
(* word is decoded.                                                        *)
(***************************************************************************)
EXTENDS Decoder, Assembler

CONSTANT Sources        \* what may be written: instructions with their operands

VARIABLES
    source,             \* what is written: instruction, registers, immediate
    text                \* what the decoder makes of its word

Registers == 0 .. 31

Float == {"flw", "fsw", "fadd.s", "fsub.s", "fmul.s", "fdiv.s"}

Signed(n, limit) == -limit <= n /\ n < limit

\* The immediates that fit a format.  For the I formats the twelve bits may be
\* meant with a sign or without one: the test programs add 2048 and 3072.
Fits(format, n) ==
    /\ format = "R" => n = 0
    /\ format = "I" => -2048 <= n /\ n <= 4095
    /\ format = "S" => Signed(n, 2048)
    /\ format = "B" => Signed(n, 4096) /\ n % 2 = 0
    /\ format = "U" => Signed(n \div 4096, 524288) /\ n % 4096 = 0
    /\ format = "J" => Signed(n, 1048576) /\ n % 2 = 0

Writable(s) ==
    /\ s.instruction \in InstructionSet
    /\ s.rd \in Registers /\ s.rs1 \in Registers /\ s.rs2 \in Registers
    /\ s.imm \in Int /\ Fits(s.instruction.format, s.imm)

ASSUME SourceAssumption == \A s \in Sources : Writable(s)

Word32Of(s) == Word32(s.instruction, s.rd, s.rs1, s.rs2, s.imm)

NotYet == Instr("not decoded", NoReg, NoReg, NoReg, 0)

Init == source \in Sources /\ text = NotYet

Next ==
    /\ text = NotYet
    /\ text' = decodeInstruction(Word32Of(source))
    /\ UNCHANGED source

Spec == Init /\ [][Next]_<<source, text>>

(***************************************************************************)
(* Properties.                                                             *)
(***************************************************************************)
Names(register, number, numbers) ==
    register \in DOMAIN numbers /\ numbers[register] = number

\* The registers of an instruction, and the one that holds an address or a value.
Numbers(i) == IF i.name \in Float THEN FloatNumber ELSE RegisterNumber

BaseNumbers(i) ==
    IF i.name \in Float \ {"flw", "fsw"} THEN FloatNumber ELSE RegisterNumber

\* What the decoder should have made of a source.
Describes(t, s) ==
    LET i == s.instruction IN
    /\ t.name = i.name
    /\ i.format # "R" => t.imm = s.imm
    /\ i.format \notin {"S", "B"} => Names(t.rd, s.rd, Numbers(i))
    /\ i.format \notin {"U", "J"} => Names(t.rs1, s.rs1, BaseNumbers(i))
    /\ i.format \in {"R", "S", "B"} => Names(t.rs2, s.rs2, Numbers(i))

\* flw and fsw have no offset; in the I formats, twelve bits above 4079 are
\* negative and all others are not.
ImmediateKept(s) ==
    LET i == s.instruction IN
    IF i.name \in {"flw", "fsw"} THEN s.imm = 0
    ELSE i.format = "I" => -16 <= s.imm /\ s.imm <= 4079

\* Floats live in f0 and f1, and the addresses of flw and fsw not in x0 or x1.
RegistersKept(s) ==
    LET i == s.instruction IN
    i.name \in Float =>
        /\ i.format # "S" => s.rd < 2
        /\ i.format # "I" => s.rs2 < 2
        /\ IF i.name \in {"flw", "fsw"} THEN s.rs1 >= 2 ELSE s.rs1 < 2

Supported(s) == ImmediateKept(s) /\ RegistersKept(s)

\* The decoder takes an instruction apart as the assembler put it together, the
\* same name, the registers of its format, the same immediate, if and only if
\* the instruction stays in the range that the test programs stay in: outside of
\* it every one is decoded as another (decoder.cpp:140-393; 261 and 266 for the
\* immediates, 308 for the registers).
DecodesAsAssembled ==
    text # NotYet => (Describes(text, source) <=> Supported(source))

\* The numbers whose digits, read as hexadecimal ones, stoi takes for an int.
WithinStoi == -79999999 .. 79999999

\* What auipc shifts is what was written only when that is nothing: any other
\* operand has at least four decimal digits, read as hexadecimal ones
\* (decoder.cpp:380 printing for core.cpp:409).
AuipcMisread ==
    text.name = "auipc" /\ text.imm \in WithinStoi =>
        (AuipcOperand(text) = text.imm) = (text.imm = 0)
=============================================================================
