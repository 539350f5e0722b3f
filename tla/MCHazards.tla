----------------------------- MODULE MCHazards ------------------------------
(***************************************************************************)
(* Short programs on which the simulator does something else than its      *)
(* comments and messages say; one choice of Binaries for each.             *)
(***************************************************************************)
EXTENDS MCSmall

MCCoreId == 0 .. 1

Inc        == Imm("addi", "a0", "a0", 1)
Point      == Imm("addi", "t0", "zero", Shared)
Follow     == Ld("lw", "t0", 0, "t0")
ReadOthers == Ld("lw", "a1", 8, "zero")     \* a word of the code of core 0

MCAlphabet == <<Inc, Point, Follow, ReadOthers, Unknown>>

Files(p, q) == {[c \in MCCoreId |-> Assemble(IF c = 0 THEN p ELSE q)]}

\* Core 1 loads from the code that core 0 is fetching.
MCLoadsCode == Files(<<Inc, Inc, Inc>>, <<ReadOthers>>)

\* A program that ends in a word that is not an instruction.
MCEndsInData == Files(<<Inc>>, <<Inc, Unknown>>)

\* Both cores load a pointer into the register that holds its address.
MCFollowPointer == Files(<<Point, Follow>>, <<Point, Follow>>)

\* "lw t0, 0(t0)" gets the word at the address in t0 into t0 (test_assembly/
\* instruct.s:20 "Get ARRAY_A base address into t0").
PointerIsFollowed ==
    status \notin {"loading", "running"} =>
        \A c \in Present : cores[c].registers["t0"] = memory[Shared]
=============================================================================
