----------------------------- MODULE Conventions ------------------------------
(***************************************************************************)
(* What the simulator takes for granted of the programs it runs, and what  *)
(* holds between two steps for programs that keep to it.  The runs of the  *)
(* hazards show programs that do not.                                      *)
(***************************************************************************)
EXTENDS Simulator

\* No two words overlap: bytes are not modelled.
ASSUME AddressesApart == \A a, b \in Address : a < b => a + 4 <= b

\* The word n of the binary of core c belongs at this address.
Placed(c, n) == StartAddress[c] + 4 * (n - 1)

Places(c) == 1 .. Len(binary[c])

LastPlace(c) == Placed(c, Len(binary[c]))

InCode(a) == \E c \in Present : StartAddress[c] <= a /\ a <= LastPlace(c)

InstrAt(c, n) == DecodeInstruction(binary[c][n])

(***************************************************************************)
(* Code and data.                                                          *)
(***************************************************************************)

\* The files are loaded side by side, and no stage stores or loads where one
\* of them is, whatever has become of the base register (main_1.cpp:21-31
\* lays the memory out, ram.cpp:144-176 the arrays behind it; nothing checks).
FilesApart ==
    \A c \in Present :
        /\ binary[c] # <<>>
        /\ \A d \in Present \ {c} :
               LastPlace(c) < StartAddress[d] \/ LastPlace(d) < StartAddress[c]

CodeLeftAlone ==
    /\ FilesApart
    /\ \A c \in Present :
           LET k == cores[c] IN
           /\ k.Store # NoInstruction => ~InCode(StoreAddress(k))
           /\ (k.Execute # NoInstruction /\ Operands(k.Execute).name \in Loading)
                  => ~InCode(LoadAddress(k))

(***************************************************************************)
(* Programs that go straight on, and leave the registers of a store alone  *)
(* until the next store.                                                   *)
(***************************************************************************)
Jumping == {"blt", "beq", "bne", "jal", "jalr"}

StraightLine ==
    \A c \in Present : \A n \in Places(c) :
        InstrAt(c, n).name \in Jumping => InstrAt(c, n).imm = 0

\* The registers that an instruction writes and hold_registers does not keep.
Setting == {"addi", "add", "slli", "fadd.s", "fsub.s", "auipc", "jalr"}

Written(i) ==
    CASE i.name \in Setting -> {i.rd}
      [] i.name \in Loading -> {i.rd}
      [] i.name = "jal"     -> {"ra"}
      [] OTHER              -> {}

\* The instruction i, behind the store s, changes what the store reads, unless
\* it is a load of the base register, which is held.
Spoils(i, s) ==
    \/ s.rs1 \in Written(i) /\ i.name \notin Loading
    \/ s.rs2 \in Written(i) /\ (i.name \in Loading => i.rd # s.rs1)

IsStore(c, n) == InstrAt(c, n).name \in Storing

OperandsKept ==
    \A c \in Present : \A n, m \in Places(c) :
        (/\ n < m /\ IsStore(c, n)
         /\ \A j \in n + 1 .. m - 1 : ~IsStore(c, j))
        => ~Spoils(InstrAt(c, m), InstrAt(c, n))

\* No word of the memory looks like the answer of a RAM that is still busy
\* (ram.cpp:156 sees to it for the arrays).
NoReservedWord == \A a \in Address : memory[a] # UINT32_MAX

(***************************************************************************)
(* What holds then.                                                        *)
(***************************************************************************)
Loaded(c) ==
    /\ loaded[c] = Len(binary[c])
    /\ cores[c].start_address = StartAddress[c]
    /\ cores[c].max_instruction_address = LastPlace(c)

\* The words of each file that are loaded stay where they are.
WordsInPlace ==
    \A c \in Present : \A n \in 1 .. loaded[c] :
        /\ Placed(c, n) \in Address
        /\ ~Outside(Placed(c, n))
        /\ memory[Placed(c, n)] = binary[c][n]

\* Nobody but its core uses the address of a word of a file.
CodeNotShared ==
    \A c \in Present : \A n \in Places(c) :
        Placed(c, n) \in Address /\ InUse(Placed(c, n)) =>
            addressInUse[Placed(c, n)].core = c

\* The cores whose turn is over have their whole file in memory; a file that
\* does not fit ends the program.
LoadedInTurn ==
    \A c \in Present :
        Loaded(c) \/ status = "terminated" \/ (status = "loading" /\ turn.core <= c)

\* The code stays where the loader put it, no fetch of it is turned away, and
\* what a pipeline holds is the word of the file that belongs there
\* (simulator.cpp:22-42, core.cpp:43-63).
CodeInPlace ==
    /\ WordsInPlace
    /\ CodeNotShared
    /\ LoadedInTurn
    /\ PipelineHoldsProgram

\* The stages hold consecutive words of the file, the oldest in Store or Execute
\* and the last just before pc; between the store in the Store stage and the
\* first instruction behind it that is not over yet there is no other store.
LineAt(c, k, n) ==
    LET d == IF k.Decode = NoInstruction THEN n ELSE n - 1
        e == IF k.Execute = NoInstruction THEN d ELSE d - 1
    IN /\ k.pc = Placed(c, n)
       /\ k.fetching_active => n <= Len(binary[c])
       /\ k.Decode # NoInstruction => k.Decode.fetched_at = Placed(c, d)
       /\ k.Execute # NoInstruction => k.Execute.fetched_at = Placed(c, e)
       /\ k.Store # NoInstruction =>
              \E s \in 1 .. e - 1 :
                  /\ k.Store.fetched_at = Placed(c, s)
                  /\ IsStore(c, s)
                  /\ \A j \in s + 1 .. e - 1 : ~IsStore(c, j)

InLine(c) == \E n \in 1 .. Len(binary[c]) + 1 : LineAt(c, cores[c], n)

\* A program that goes straight on is performed from its first word to its
\* last, and no store overtakes another (core.cpp:43-63, 85-103, 191-200).
LinesKept == StraightLine => \A c \in Present : InLine(c)

\* The inductive form of BusUsersAreReal: also while the files are loaded and
\* after the end, whoever uses an address is a core with a stage that calls for
\* it (membus.h:23, core.cpp:43-63, 207-248, 286-330).
Calls(k, a) == FetchCalls(k, a) \/ LoadCalls(k, a) \/ StoreCalls(k, a)

UsersCall ==
    \A a \in Address :
        InUse(a) => /\ addressInUse[a].core \in Present
                    /\ Calls(cores[addressInUse[a].core], a)
(***************************************************************************)
(* Programs that keep to themselves.  What such a program computes is what *)
(* its words do one after the other, from the registers that the           *)
(* constructor sets and the arrays as RAM::RAM fills them.                 *)
(***************************************************************************)
AtStart(c) ==
    [registers |-> [r \in Reg |-> IF r = "sp" THEN InitialSp[c] ELSE 0],
     memory    |-> [a \in Address |-> IF a \in Arrays THEN memory[a] ELSE 0],
     pc        |-> StartAddress[c]]

Alone(c) == Machine!AfterEach(AtStart(c), binary[c])

AddressAlone(c, n) == Machine!Base(Alone(c)[n - 1], InstrAt(c, n))

IsLoad(c, n) == InstrAt(c, n).name \in Loading

StoresOf(c) == {AddressAlone(c, n) : n \in {m \in Places(c) : IsStore(c, m)}}

\* The data of core c, which no other core stores to.
OwnData(c) ==
    {a \in Address : ~InCode(a) /\ \A d \in Present \ {c} : a \notin StoresOf(d)}

\* What the instruction does depends neither on how far fetch() is ahead, nor on
\* how often a load is called again.
Timeless(i) ==
    /\ i.name \in Supported \ {"auipc", "jal", "jalr"}
    /\ i.name \in Loading => i.rd # i.rs1

\* No core loads what another stores, and nobody stores to code or to the arrays
\* or loads the reserved word.
KeepApart ==
    /\ FilesApart
    /\ \A c \in Present :
           /\ \A n \in Places(c) : Placed(c, n) \notin Arrays
           /\ \A a \in StoresOf(c) : ~InCode(a) /\ a \notin Arrays
           /\ \A n \in Places(c) :
                  IsLoad(c, n) =>
                      /\ AddressAlone(c, n) \in OwnData(c)
                      /\ Alone(c)[n - 1].memory[AddressAlone(c, n)] # UINT32_MAX

KeepToThemselves ==
    /\ KeepApart
    /\ StraightLine
    /\ OperandsKept
    /\ \A c \in Present : \A n \in Places(c) : Timeless(InstrAt(c, n))

\* When the simulation has completed, each core has the registers and the data
\* that its program leaves when it runs alone, one instruction after the other:
\* neither the pipeline nor the other core shows (the stages of core.cpp over
\* membus.cpp).
SequentialResult ==
    status = "completed" =>
        \A c \in Present :
            LET expected == Alone(c)[Len(binary[c])] IN
            /\ cores[c].registers = expected.registers
            /\ \A a \in OwnData(c) : memory[a] = expected.memory[a]

\* Of the first words of the file, all are performed but those in Execute and in
\* Decode; a store is when it moves on to the Store stage.
Performed(k, n) ==
    n - 1 - (IF k.Decode = NoInstruction THEN 0 ELSE 1)
          - (IF k.Execute = NoInstruction THEN 0 ELSE 1)

\* The word at an address, once the store in the Store stage is over.
WordAfterStore(k, mem, a) ==
    IF k.Store # NoInstruction /\ a = StoreAddress(k) THEN StoreValue(k) ELSE mem[a]

KeepsUp(c, k, mem, n) ==
    LET s == Alone(c)[Performed(k, n)]
        i == Operands(k.Execute)
    IN /\ \A r \in Reg :
              \/ k.registers[r] = s.registers[r]
              \/ k.Execute # NoInstruction /\ i.name \in Loading /\ r = i.rd
       /\ \A a \in OwnData(c) : WordAfterStore(k, mem, a) = s.memory[a]
       /\ k.Store # NoInstruction => StoreAddress(k) \in StoresOf(c)

\* A core has the registers and the data that its program has alone after the
\* words performed, but for what a load in Execute has spoilt.
AsAlone ==
    \A c \in Present : \A n \in 1 .. Len(binary[c]) + 1 :
        LineAt(c, cores[c], n) => KeepsUp(c, cores[c], memory, n)

\* No core whose program keeps to itself ever falls behind or gets ahead of what
\* the program does alone, whatever the stages overlap and the bus turns away
\* (the stages of core.cpp over membus.cpp).
KeepersKeepUp == AsAlone \/ ~KeepToThemselves
=============================================================================
