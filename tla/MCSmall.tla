------------------------------ MODULE MCSmall -------------------------------
(***************************************************************************)
(* The simulator with words of seven bits and a memory of a few words:     *)
(* code of core 0 from address 0, of core 1 from 16, one word that both    *)
(* load, and two private words per core.  The machine word of an           *)
(* instruction is its place in Alphabet, plus 64.                          *)
(***************************************************************************)
EXTENDS SimulatorInvariants, Programs, SequencesExt

CONSTANT Alphabet       \* a sequence of instructions

MCWord == 0 .. 127
MCGarbage == {0}
MCReg == {"zero", "ra", "sp", "s0", "a0", "a1", "t0"}

Shared == 32
Private(c) == 36 + 8 * c

\* A memory of 52 bytes; 126 + 4 wraps past its test.
MCAddress == {4 * n : n \in 0 .. 12} \cup {126}
MCArrays == {Shared}
MCRandomWords == {4}
MCStartAddress == [c \in CoreId |-> 16 * c]
MCInitialSp == [c \in CoreId |-> Private(c)]

CodeOf(i) == 64 + CHOOSE n \in 1 .. Len(Alphabet) : Alphabet[n] = i
Assemble(program) == [n \in 1 .. Len(program) |-> CodeOf(program[n])]

MCDecode(w) == IF w - 64 \in 1 .. Len(Alphabet) THEN Alphabet[w - 64] ELSE Unknown

MCFAdd(x, y) == (x + y) % 128
MCFSub(x, y) == (x - y) % 128

\* All programs of n instructions taken from a set.
ProgramsOf(n, instrs) == [1 .. n -> instrs]
=============================================================================
