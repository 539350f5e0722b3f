----------------------------- MODULE MCPrograms -----------------------------
(***************************************************************************)
(* Core 1 with every program of two instructions of any kind, and of three *)
(* instructions that change pc: loops, jumps off either end of the         *)
(* program, words that are not instructions, instructions that the core    *)
(* does not support, loads outside the memory and of the reserved word     *)
(* UINT32_MAX; also an empty program and one that does not fit into the    *)
(* memory.  Core 0 stores once, early or late, into the word that core 1   *)
(* stores and loads.  Then programs of core 0 that are longer than the     *)
(* space before core 1, programs of core 0 alone, where jumps below 0 wrap *)
(* round, an empty program for core 0, whose last address wraps round, and *)
(* programs that store to or load from the code of core 1 while it runs.   *)
(***************************************************************************)
EXTENDS MCSmall

MCCoreId == 0 .. 1

Inc      == Imm("addi", "a0", "a0", 1)
MinusOne == Imm("addi", "a0", "zero", -1)
Blt      == Br("blt", "a0", "a1", -8)
Beq      == Br("beq", "a0", "a1", 4)
Bne      == Br("bne", "a0", "a1", -8)
JalBelow == Jmp("jal", "zero", -12)

Jumps == <<MinusOne, Blt, Beq, Bne, JalBelow>>

Others ==
    <<Inc,
     St("fsw", "a0", Private(1), "zero"),
     St("sw", "a0", Private(1), "s0"),
     St("sw", "a0", Private(1), "zero"),
     Ld("lw", "a1", Private(1), "s0"),
     Ld("lw", "s0", Private(1), "zero"),
     Ld("lw", "a1", 60, "zero"),            \* outside the memory
     Op("add", "a1", "a0", "a0"),
     Op("fsub.s", "a1", "a1", "a0"),
     Op("and", "a1", "a1", "a0"),           \* decoded but not supported
     Imm("slli", "a0", "a0", 1),
     Imm("jalr", "ra", "zero", 4),
     Imm("auipc", "a1", "zero", 12),
     Imm("auipc", "a1", "zero", 90),        \* too large when read back
     Jmp("jal", "zero", 0),
     Jmp("jal", "zero", -8),
     Unknown>>

\* Five words: the last one is where the loader puts the first of core 1.
Overlapping == {<<Inc, Inc, Inc, i, j>> : i \in {Inc, Bne}, j \in {MinusOne, JalBelow}}

\* The word 70 is the instruction Inc; the code of core 1 begins at 16.
PutInc       == Imm("addi", "a0", "zero", 70)
WriteCode(a) == St("sw", "a0", a, "zero")
ReadCode     == Ld("lw", "a1", 24, "zero")

Meddling == <<PutInc, WriteCode(20), WriteCode(28), ReadCode>>

MCAlphabet == Jumps \o Others \o Meddling

\* Alone, core 0 completes these in cycle 40, which is also the limit.
UntilTheLimit == [n \in 1 .. 12 |-> Inc]

\* Core 1 changes its last word on the way there; core 0 changes a word of core 1
\* or keeps it busy.
ChangingItself ==
    {<<PutInc, WriteCode(28), i, j>> : i \in {Inc, Bne}, j \in {MinusOne, Unknown}}

MeddlingWith1 == {<<WriteCode(20)>>, <<PutInc, WriteCode(28)>>, <<ReadCode, ReadCode>>}

Stores == {St("sw", "a0", Private(1), "zero"), St("fsw", "a0", Private(1), "zero")}

MCBinaries ==
    {[c \in MCCoreId |-> Assemble(IF c = 0 THEN <<i>> ELSE p)] :
         i \in Stores,
         p \in ProgramsOf(2, ToSet(Jumps \o Others)) \cup ProgramsOf(3, ToSet(Jumps))
                   \cup {<<>>, [n \in 1 .. 10 |-> Inc]}   \* empty; too long
                   \cup {<<MinusOne, St("sw", "a0", Private(1), "s0"),
                           Ld("lw", "a1", Private(1), "s0")>>}}
    \cup {[c \in MCCoreId |-> Assemble(IF c = 0 THEN p ELSE <<i, i>>)] :
             i \in {Inc, Bne}, p \in Overlapping}
    \cup {[c \in {0} |-> Assemble(p)] :
             p \in ProgramsOf(1, ToSet(Jumps \o Others)) \cup ProgramsOf(3, ToSet(Jumps))
                       \cup {<<>>, UntilTheLimit}}
    \cup {[c \in MCCoreId |-> Assemble(IF c = 0 THEN <<>> ELSE p)] : p \in {<<>>, <<Inc>>}}
    \cup {[c \in MCCoreId |-> Assemble(IF c = 0 THEN p ELSE q)] :
             p \in MeddlingWith1,
             q \in ChangingItself \cup {<<ReadCode, Inc, Inc>>, <<Inc, Inc, Inc, Inc>>}}
=============================================================================
