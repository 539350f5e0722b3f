------------------------------ MODULE MCVector ------------------------------
(***************************************************************************)
(* The simulator on the two programs of test_assembly: core 0 adds the     *)
(* arrays A and B into C, core 1 subtracts them into D.  The arrays are    *)
(* cut to Last + 1 elements, the words to 16 bits, the memory to the       *)
(* addresses the programs use.                                             *)
(***************************************************************************)
EXTENDS Conventions, Programs, Decoder

CONSTANT Last

MCCoreId == 0 .. 1
MCWord == 0 .. 65535
MCGarbage == {0}
MCReg == {"zero", "ra", "sp", "s0", "a0", "a1", "ft0", "ft1"}

Elements(base) == {base + 4 * i : i \in 0 .. Last}
A == 1024
B == 2048
C == 3072
D == 4096

MCStartAddress == [c \in MCCoreId |-> 512 * c]
MCInitialSp == [c \in MCCoreId |-> 767 + 256 * c]

(***************************************************************************)
(* The files.  One word is changed: the tenth, addi a1, zero, 255, which   *)
(* holds the largest index of the arrays.                                  *)
(***************************************************************************)
CPU0bin == <<
    <<\hFF01, \h0113>>, <<\h0011, \h2623>>, <<\h0081, \h2423>>, <<\h0101, \h0413>>,
    <<\h0000, \h0513>>, <<\hFEA4, \h2A23>>, <<\hFEA4, \h2823>>, <<\h0000, \h006F>>,
    <<\hFF04, \h2503>>, <<\h0FF0, \h0593>>, <<\h04A5, \hC863>>, <<\h0000, \h006F>>,
    <<\h0000, \h0513>>, <<\h4005, \h0513>>, <<\hFF04, \h2583>>, <<\h0025, \h9593>>,
    <<\h00B5, \h0533>>, <<\h0005, \h2007>>, <<\h0000, \h0513>>, <<\h8005, \h0513>>,
    <<\h00B5, \h0533>>, <<\h0005, \h2087>>, <<\h0010, \h7053>>, <<\h0000, \h0513>>,
    <<\hC005, \h0513>>, <<\h00B5, \h0533>>, <<\h0005, \h2027>>, <<\h0000, \h006F>>,
    <<\hFF04, \h2503>>, <<\h0015, \h0513>>, <<\hFEA4, \h2823>>, <<\hF9DF, \hF06F>>,
    <<\hFF44, \h2503>>, <<\h0081, \h2403>>, <<\h00C1, \h2083>>, <<\h0101, \h0113>>,
    <<\h0000, \h8067>> >>

CPU1bin == <<
    <<\hFF01, \h0113>>, <<\h0011, \h2623>>, <<\h0081, \h2423>>, <<\h0101, \h0413>>,
    <<\h0000, \h0513>>, <<\hFEA4, \h2A23>>, <<\hFEA4, \h2823>>, <<\h0000, \h006F>>,
    <<\hFF04, \h2503>>, <<\h0FF0, \h0593>>, <<\h04A5, \hCA63>>, <<\h0000, \h006F>>,
    <<\h0000, \h0513>>, <<\h4005, \h0513>>, <<\hFF04, \h2583>>, <<\h0025, \h9593>>,
    <<\h00B5, \h0533>>, <<\h0005, \h2007>>, <<\h0000, \h0513>>, <<\h8005, \h0513>>,
    <<\h00B5, \h0533>>, <<\h0005, \h2087>>, <<\h0810, \h7053>>, <<\h0000, \h0513>>,
    <<\hC005, \h0513>>, <<\h4005, \h0513>>, <<\h00B5, \h0533>>, <<\h0005, \h2027>>,
    <<\h0000, \h006F>>, <<\hFF04, \h2503>>, <<\h0015, \h0513>>, <<\hFEA4, \h2823>>,
    <<\hF99F, \hF06F>>, <<\hFF44, \h2503>>, <<\h0081, \h2403>>, <<\h00C1, \h2083>>,
    <<\h0101, \h0113>>, <<\h0000, \h8067>> >>

File == <<[CPU0bin EXCEPT ![10] = <<16 * Last, Lo(@)>>],
          [CPU1bin EXCEPT ![10] = <<16 * Last, Lo(@)>>]>>

Listing == <<CPU0(Last), CPU1(Last)>>

\* In a memory of 16 bits, a number stands for each word of the files.
CodeOf(f, i) == 20000 + 1000 * f + i
Assemble(f) == [i \in 1 .. Len(File[f]) |-> CodeOf(f, i)]

Decoded ==
    [f \in 1 .. 2 |-> [i \in 1 .. Len(File[f]) |-> decodeInstruction(File[f][i])]]

MCDecode(w) ==
    LET f == (w - 20000) \div 1000
        i == w % 1000
    IN IF f \in 1 .. 2 /\ i \in 1 .. Len(File[f]) THEN Decoded[f][i] ELSE Unknown

\* One of the programs alone, both on either core, or one twice.
MCBinaries ==
    {[c \in 0 .. Len(files) - 1 |-> Assemble(files[c + 1])] :
         files \in {<<1>>, <<2>>, <<1, 2>>, <<2, 1>>, <<1, 1>>}}

FileOf(c) == CHOOSE f \in 1 .. 2 : binary[c] = Assemble(f)
Runs(f) == \E c \in Present : FileOf(c) = f

MCAddress ==
    {MCStartAddress[c] + 4 * i : c \in MCCoreId, i \in 0 .. 37}
    \cup {MCInitialSp[c] - 4 * i : c \in MCCoreId, i \in 1 .. 4}
    \cup UNION {Elements(base) : base \in {A, B, C, D}}

MCArrays == Elements(A) \cup Elements(B)
MCRandomWords == {3, 10}

\* Any two operations that tell the operands and their order apart.
MCFAdd(x, y) == (x + y) % 65536
MCFSub(x, y) == (x - y) % 65536

(***************************************************************************)
(* Properties of these programs.                                           *)
(***************************************************************************)

\* When the simulation has completed, C holds the sums and D the differences
\* of the elements of A and B, as main prints them (test_assembly/CPU0.s and
\* CPU1.s run by core.cpp over the shared bus, ram.cpp:114-141).
VectorsComputed ==
    status = "completed" =>
        \A i \in 0 .. Last :
            LET a == memory[A + 4 * i]
                b == memory[B + 4 * i]
            IN /\ Runs(1) => memory[C + 4 * i] = FAdd(a, b)
               /\ Runs(2) => memory[D + 4 * i] = FSub(a, b)

\* What the pipeline works on is what stands in the assembler listing at the
\* address it was fetched from: the loader, the fetch and the fields and
\* immediates of the decoder together (simulator.cpp:22-33, core.cpp:43-63,
\* decoder.cpp:253-296 against test_assembly/CPU0.s and CPU1.s).
ExecutesListing ==
    \A c \in Present :
        \A instr \in {cores[c].Decode, cores[c].Execute, cores[c].Store} \
                         {NoInstruction} :
            LET i == (instr.fetched_at - StartAddress[c]) \div 4 + 1 IN
            /\ i \in 1 .. Len(binary[c])
            /\ Operands(instr) = Listing[FileOf(c)][i]

\* While anything is in the pipeline, the register zero holds zero, though no
\* instruction is kept from writing it (core.cpp:263-460).
ZeroReadsAsZero ==
    \A c \in Present :
        {cores[c].Decode, cores[c].Execute, cores[c].Store} # {NoInstruction}
        => cores[c].registers["zero"] = 0

\* The return address that main saves at its start is back at its end, though
\* every jump in between overwrites ra (core.cpp:397; test_assembly/CPU0.s:3
\* "Saves return address" and 44 "Restores return address").
ReturnAddressRestored ==
    status = "completed" => \A c \in Present : cores[c].registers["ra"] = 0

\* The register that main saves at its start is back at its end
\* (test_assembly/CPU0.s:4 "Saves s0 register" and 43 "Restores s0 register").
FramePointerRestored ==
    status = "completed" => \A c \in Present : cores[c].registers["s0"] = 0
=============================================================================
