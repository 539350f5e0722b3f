-------------------------------- MODULE Core --------------------------------
(***************************************************************************)
(* A core (components/core.cpp): a pipeline of four stages, each a         *)
(* function that the simulator calls once per cycle.  Every stage below is *)
(* the disjunction of the paths through its function; a path that makes    *)
(* the function throw has no action here but a predicate (StoreFaults,     *)
(* ExecuteFaults, FetchThrows), since an exception ends the program.       *)
(*                                                                         *)
(* Words and registers are taken modulo UINT32_MAX + 1; int registers are  *)
(* read as signed where the code compares them.  What the decoder makes of *)
(* a word and what the two floating point operations compute are           *)
(* parameters.                                                             *)
(***************************************************************************)
EXTENDS Membus, Instructions

CONSTANTS
    Reg,                        \* register names
    DecodeInstruction(_),       \* Decoder::decodeInstruction on a word
    FAdd(_, _), FSub(_, _),     \* float addition and subtraction on words
    CountBound                  \* a bound: counters stop here

VARIABLE cores                  \* the objects of class Core

coreVars == <<cores, memory, addressDelays, addressInUse>>

ASSUME RegAssumption == {"ra", "sp"} \subseteq Reg

ASSUME DecoderAssumption ==
    \A w \in Word :
        DecodeInstruction(w) \in
            [name : STRING, rd : Reg, rs1 : Reg, rs2 : Reg, imm : Int]

ASSUME CountAssumption == CountBound \in Nat \ {0}

Modulus == UINT32_MAX + 1
Wrap(n) == n % Modulus
Signed(w) == IF w > UINT32_MAX \div 2 THEN w - Modulus ELSE w
Count(n) == IF n < CountBound THEN n + 1 ELSE n

(***************************************************************************)
(* struct Instruction.  fetched_at is auxiliary: the address it came from. *)
(***************************************************************************)
NoInstruction ==
    [binary |-> -1, fetched_at |-> 0, execute_delay |-> 0, store_delay |-> 0]

NewInstruction(binary, address) ==
    [binary |-> binary, fetched_at |-> address, execute_delay |-> 0, store_delay |-> 0]

Operands(instr) == DecodeInstruction(instr.binary)

\* Only the sign of a delay that went below zero is ever looked at.
DelayFloor == -1

\* The constructor; only whether the Fetch register is null is ever read.
NewCore(start_pc, initial_sp) ==
    [pc |-> start_pc,
     start_address |-> 0, max_instruction_address |-> 0,
     registers |-> [r \in Reg |-> IF r = "sp" THEN initial_sp ELSE 0],
     hold_registers |-> [r \in Reg |-> FALSE],
     Fetch |-> FALSE, Decode |-> NoInstruction,
     Execute |-> NoInstruction, Store |-> NoInstruction,
     fetching_active |-> TRUE, execute_delay_complete |-> FALSE,
     halt |-> FALSE, instruction_count |-> 0]

\* Mutant: a fetch in progress does not count.
PipelineEmpty(k) ==
    ~k.Fetch /\ {k.Decode, k.Execute, k.Store} = {NoInstruction}

IsComplete(k) ==
    /\ ~k.Fetch
    /\ {k.Decode, k.Execute, k.Store} = {NoInstruction}
    /\ ~k.fetching_active

\* The core c is the record k in all that follows.
Become(c, k) == cores' = [cores EXCEPT ![c] = k]

\* Mutant: the offset of the operand is not added.
BaseOnly(k, i) == k.registers[i.rs1]

EffectiveAddress(k, i) == Wrap(k.registers[i.rs1] + i.imm)

\* The test of the RAM throws.
Fault(a) == a \notin Address

\* The call ends the program: at once, or once the RAM has counted it down.
ReadFaults(c, a) == ~Fault(a) => MembusReadCrashes(c, a)
WriteFaults(c, a) == ~Fault(a) => MembusWriteCrashes(c, a)

(***************************************************************************)
(* store(): the address and the word are computed anew at every call, from *)
(* the registers as they are then.                                         *)
(***************************************************************************)
StoreAddress(k) == EffectiveAddress(k, Operands(k.Store))
StoreValue(k) == k.registers[Operands(k.Store).rs2]
StoreBase(k) == Operands(k.Store).rs1

StoreFaults(c, k) == k.Store # NoInstruction /\ WriteFaults(c, StoreAddress(k))

StoreIdle(k) ==
    /\ k.Store = NoInstruction
    /\ UNCHANGED coreVars

CallWrite(c, k) ==
    /\ k.Store # NoInstruction
    /\ ~WriteFaults(c, StoreAddress(k))
    /\ MembusWrite(c, StoreAddress(k), StoreValue(k), 0)

\* Mutant: a store that the bus turns away holds nothing.
HoldsOnceAccepted(c, k) ==
    LET value == MembusWriteResult(c, StoreAddress(k), 0).value IN
    /\ CallWrite(c, k)
    /\ value \in {0, UINT32_MAX}
    /\ Become(c, IF value = 0 THEN [k EXCEPT !.hold_registers[StoreBase(k)] = TRUE]
                 ELSE k)

StorePending(c, k) ==
    /\ CallWrite(c, k)
    /\ MembusWriteResult(c, StoreAddress(k), 0).value \in {0, UINT32_MAX}
    /\ Become(c, [k EXCEPT !.hold_registers[StoreBase(k)] = TRUE])

\* Mutant: the register stays held.
CompletesButHolds(c, k) ==
    /\ CallWrite(c, k)
    /\ MembusWriteResult(c, StoreAddress(k), 0).value = 1
    /\ Become(c, [k EXCEPT !.Store = NoInstruction])

StoreCompletes(c, k) ==
    /\ CallWrite(c, k)
    /\ MembusWriteResult(c, StoreAddress(k), 0).value \notin {0, UINT32_MAX}
    /\ Become(c, [k EXCEPT !.hold_registers[StoreBase(k)] = FALSE,
                           !.Store = NoInstruction])

Store(c) ==
    LET k == cores[c] IN StoreIdle(k) \/ StorePending(c, k) \/ StoreCompletes(c, k)

(***************************************************************************)
(* execute(): first the count-downs of the instruction in the stage.       *)
(***************************************************************************)
DelayAmount(name) ==
    CASE name \in {"fadd.s", "fsub.s", "flw", "fsw"} -> 5
      [] name \in {"addi", "and", "or", "xori", "slli", "blt", "jal", "jalr",
                   "lw", "sw"} -> 1
      [] OTHER -> 0

\* The instruction has not started: also asks that the flag was reset.
Fresh(k) ==
    /\ k.Execute.execute_delay = 0
    /\ k.Execute.store_delay = 0
    /\ ~k.execute_delay_complete

ExecuteIdle(k) ==
    /\ k.Execute = NoInstruction
    /\ UNCHANGED coreVars

StartDelay(c, k) ==
    LET amount == DelayAmount(Operands(k.Execute).name) IN
    /\ k.Execute # NoInstruction
    /\ Fresh(k)
    /\ amount > 0
    /\ Become(c, [k EXCEPT !.Execute.execute_delay = amount])
    /\ UNCHANGED busVars

CountDown(c, k) ==
    /\ k.Execute # NoInstruction
    /\ ~Fresh(k)
    /\ IF k.Execute.store_delay = 0
       THEN /\ k.Execute.execute_delay > 1
            /\ Become(c, [k EXCEPT !.Execute.execute_delay = @ - 1])
       ELSE Become(c, [k EXCEPT !.Execute.store_delay = @ - 1])
    /\ UNCHANGED busVars

\* The call reaches execute_instruction ...
Ready(k) ==
    /\ k.Execute # NoInstruction
    /\ IF Fresh(k) THEN DelayAmount(Operands(k.Execute).name) = 0
       ELSE k.Execute.store_delay = 0 /\ k.Execute.execute_delay <= 1

\* ... with the core in this state.
Started(k) ==
    [k EXCEPT !.execute_delay_complete = TRUE,
              !.Execute.execute_delay =
                  IF Fresh(k) \/ @ = DelayFloor THEN @ ELSE @ - 1]

Retire(k) ==
    [k EXCEPT !.Execute = NoInstruction, !.execute_delay_complete = FALSE]

(***************************************************************************)
(* execute_instruction(): what an instruction that needs no memory does to *)
(* its core.  Branches and jumps count from pc, which fetch() has moved    *)
(* on; only jal flushes the stages behind it.                              *)
(***************************************************************************)
FlushPipeline(k) == [k EXCEPT !.Fetch = FALSE, !.Decode = NoInstruction]

Move(k, distance) == [k EXCEPT !.pc = Wrap(@ + distance)]

BranchIf(k, i, test) == IF test THEN Move(k, i.imm) ELSE k

\* Mutant: the return address goes to the register that the instruction names.
LinksAsNamed(k, i) ==
    LET jumped == Move([k EXCEPT !.registers[i.rd] = Wrap(k.pc + 4)], i.imm)
    IN IF i.imm # 0 THEN FlushPipeline(jumped) ELSE jumped

\* The return address goes to ra whatever register the instruction names.
Jal(k, i) ==
    LET jumped == Move([k EXCEPT !.registers["ra"] = Wrap(k.pc + 4)], i.imm)
    IN IF i.imm # 0 THEN FlushPipeline(jumped) ELSE jumped

\* Mutant: the target goes to ra, as in jal.
LinksInRa(k, i) == [Move(k, i.imm) EXCEPT !.registers["ra"] = Wrap(k.pc + i.imm)]

\* jalr keeps the address it jumps to.
Jalr(k, i) == [Move(k, i.imm) EXCEPT !.registers[i.rd] = Wrap(k.pc + i.imm)]

\* The instruction that C++ compiles << to uses five bits of the distance.
ShiftLeft(x, n) == Wrap(x * 2 ^ (n % 32))

AuipcFaults(i) == AuipcOperand(i) \notin -(Modulus \div 2) .. UINT32_MAX \div 2

Computed(k, i) ==
    LET x == k.registers[i.rs1]
        y == k.registers[i.rs2]
        set(value) == [k EXCEPT !.registers[i.rd] = value]
    IN CASE i.name = "addi"   -> set(Wrap(x + i.imm))
         [] i.name = "add"    -> set(Wrap(x + y))
         [] i.name = "slli"   -> set(ShiftLeft(x, i.imm))
         [] i.name = "fadd.s" -> set(FAdd(x, y))
         [] i.name = "fsub.s" -> set(FSub(x, y))
         [] i.name = "auipc"  -> set(Wrap(k.pc + Wrap(AuipcOperand(i) * 4096)))
         [] i.name = "blt"    -> BranchIf(k, i, Signed(x) < Signed(y))
         [] i.name = "beq"    -> BranchIf(k, i, x = y)
         [] i.name = "bne"    -> BranchIf(k, i, x # y)
         [] i.name = "jal"    -> Jal(k, i)
         [] i.name = "jalr"   -> Jalr(k, i)

Computing == {"addi", "add", "slli", "fadd.s", "fsub.s", "auipc",
              "blt", "beq", "bne", "jal", "jalr"}
Loading == {"lw", "flw"}
Storing == {"sw", "fsw"}
Supported == Computing \cup Loading \cup Storing

Executing(k, names) == Ready(k) /\ Operands(k.Execute).name \in names

Compute(c, k) ==
    LET i == Operands(k.Execute) IN
    /\ Executing(k, Computing)
    /\ ~(i.name = "auipc" /\ AuipcFaults(i))
    /\ Become(c, Retire(Computed(k, i)))
    /\ UNCHANGED busVars

(***************************************************************************)
(* Loads.  The membus is called first, in every case; then the vector is   *)
(* looked at, and the instruction stays in the stage unless it retires.    *)
(***************************************************************************)
LoadAddress(k) == EffectiveAddress(k, Operands(k.Execute))
LoadResult(c, k) == MembusReadResult(c, LoadAddress(k))

\* Mutant: nothing looks at hold_registers.
NeverHeld(k) == FALSE

LoadHeld(k) == k.hold_registers[Operands(k.Execute).rd]

CallRead(c, k) ==
    /\ Executing(k, Loading)
    /\ ~ReadFaults(c, LoadAddress(k))
    /\ MembusRead(c, LoadAddress(k))

\* The destination is the base of a pending store: the answer is thrown away.
LoadHolds(c, k) ==
    /\ CallRead(c, k)
    /\ LoadHeld(k)
    /\ Become(c, Started(k))

\* Mutant: every answer is a word, also those of a RAM that is busy.
DeliversAnyAnswer(c, k) ==
    /\ CallRead(c, k)
    /\ ~LoadHeld(k)
    /\ Become(c, Retire([k EXCEPT !.registers[Operands(k.Execute).rd] =
                                 LoadResult(c, k).value]))

LoadDelivers(c, k) ==
    LET value == LoadResult(c, k).value IN
    /\ CallRead(c, k)
    /\ ~LoadHeld(k)
    /\ value \notin {UINT32_MAX, UINT32_MAX - 1}
    /\ Become(c, Retire([k EXCEPT !.registers[Operands(k.Execute).rd] = value]))

\* Taken for an address in use by another core; the register is overwritten.
LoadBlocked(c, k) ==
    LET value == LoadResult(c, k).value IN
    /\ CallRead(c, k)
    /\ ~LoadHeld(k)
    /\ value = UINT32_MAX - 1
    /\ Become(c, [Started(k) EXCEPT !.registers[Operands(k.Execute).rd] = value])

LoadWaits(c, k) ==
    LET result == LoadResult(c, k) IN
    /\ CallRead(c, k)
    /\ ~LoadHeld(k)
    /\ result.value = UINT32_MAX
    /\ result.store > 0 \/ result.load > 0
    /\ Become(c, [Started(k) EXCEPT !.Execute.store_delay = result.store])

\* Neither a word nor a delay: falls through and retires without a value.
LoadFallsThrough(c, k) ==
    /\ CallRead(c, k)
    /\ ~LoadHeld(k)
    /\ LoadResult(c, k) = [value |-> UINT32_MAX, store |-> 0, load |-> 0]
    /\ Become(c, Retire(k))

Load(c, k) ==
    \/ LoadHolds(c, k)
    \/ LoadDelivers(c, k)
    \/ LoadBlocked(c, k)
    \/ LoadWaits(c, k)
    \/ LoadFallsThrough(c, k)

\* A store moves on without resetting execute_delay_complete.
SendToStore(c, k) ==
    /\ Executing(k, Storing)
    /\ Become(c, IF k.Store = NoInstruction
                 THEN [Started(k) EXCEPT !.Store = Started(k).Execute,
                                         !.Execute = NoInstruction]
                 ELSE Started(k))
    /\ UNCHANGED busVars

Unsupported(c, k) ==
    /\ Ready(k)
    /\ Operands(k.Execute).name \notin Supported
    /\ Become(c, Started(k))
    /\ UNCHANGED busVars

ExecuteFaults(c, k) ==
    \/ Executing(k, Loading) /\ ReadFaults(c, LoadAddress(k))
    \/ Executing(k, {"auipc"}) /\ AuipcFaults(Operands(k.Execute))

Execute(c) ==
    LET k == cores[c] IN
    \/ ExecuteIdle(k)
    \/ StartDelay(c, k)
    \/ CountDown(c, k)
    \/ Compute(c, k)
    \/ Load(c, k)
    \/ SendToStore(c, k)
    \/ Unsupported(c, k)

(***************************************************************************)
(* decode(): a word that does not decode stays in the stage, and so does   *)
(* an instruction that finds Execute occupied.                             *)
(***************************************************************************)
CanMoveToExecute(k) ==
    /\ k.Decode # NoInstruction
    /\ Operands(k.Decode).name # "Unknown"
    /\ k.Execute = NoInstruction

Decode(c) ==
    LET k == cores[c] IN
    /\ Become(c, IF CanMoveToExecute(k)
                 THEN [k EXCEPT !.Decode = NoInstruction, !.Execute = k.Decode]
                 ELSE k)
    /\ UNCHANGED busVars

(***************************************************************************)
(* fetch(): the word read becomes an instruction unless it is UINT32_MAX,  *)
(* the answer of the RAM to a read in progress.  The handler of            *)
(* std::out_of_range is left out: the loader stores a word at the largest  *)
(* instruction address, so no pc the test lets through is out of bounds.   *)
(* (An empty file sets that address to the start minus 4, which wraps when *)
(* the start is 0; but then the zeros in the memory do not decode, and the *)
(* first of them stays in the Decode stage.)                               *)
(***************************************************************************)
\* Mutant: fetch() does not look whether Decode is busy.
FetchesOverDecode(c, k) ==
    /\ k.pc >= k.start_address
    /\ k.pc <= k.max_instruction_address
    /\ ~ReadFaults(c, k.pc)

\* The last conjunct leaves out a pc between two words, where only a jump by a
\* part of a word leads: bytes are not modelled, and no action goes on there.
CanFetch(c, k) ==
    /\ k.Decode = NoInstruction
    /\ k.pc >= k.start_address
    /\ k.pc <= k.max_instruction_address
    /\ ~ReadFaults(c, k.pc)

FetchThrows(c, k) ==
    /\ k.Decode = NoInstruction
    /\ \/ k.pc < k.start_address
       \/ /\ k.pc \in k.start_address .. k.max_instruction_address
          /\ ~Fault(k.pc) /\ MembusReadCrashes(c, k.pc)

FetchStalls(k) ==
    /\ k.Decode # NoInstruction
    /\ UNCHANGED coreVars

FetchWaits(c, k) ==
    /\ CanFetch(c, k)
    /\ MembusReadResult(c, k.pc).value = UINT32_MAX
    /\ MembusRead(c, k.pc)
    /\ Become(c, [k EXCEPT !.fetching_active = TRUE])

\* Mutant: whatever the bus answers is an instruction.
TakesAnyAnswer(c, k) ==
    /\ CanFetch(c, k)
    /\ MembusRead(c, k.pc)
    /\ Become(c, [k EXCEPT !.Decode = NewInstruction(
                                MembusReadResult(c, k.pc).value, k.pc),
                           !.pc = Wrap(@ + 4)])

FetchDelivers(c, k) ==
    LET value == MembusReadResult(c, k.pc).value IN
    /\ CanFetch(c, k)
    /\ value # UINT32_MAX
    /\ MembusRead(c, k.pc)
    /\ Become(c, [k EXCEPT !.fetching_active = FALSE,
                           !.instruction_count = Count(@),
                           !.Fetch = TRUE,
                           !.Decode = NewInstruction(value, k.pc),
                           !.pc = Wrap(@ + 4)])

FetchEnds(c, k) ==
    /\ k.Decode = NoInstruction
    /\ k.pc >= k.start_address
    /\ k.pc > k.max_instruction_address
    /\ Become(c, [k EXCEPT !.fetching_active = FALSE,
                           !.Fetch = FALSE,
                           !.halt = TRUE])
    /\ UNCHANGED busVars

Fetch(c) ==
    LET k == cores[c] IN
    FetchStalls(k) \/ FetchWaits(c, k) \/ FetchDelivers(c, k) \/ FetchEnds(c, k)

(***************************************************************************)
(* Types.                                                                  *)
(***************************************************************************)
InstructionType ==
    [binary : Word, fetched_at : Word,
     execute_delay : {DelayFloor} \cup 0 .. 5, store_delay : Nat]
    \cup {NoInstruction}

CoreType ==
    [pc : Word, start_address : Word, max_instruction_address : Word,
     registers : [Reg -> Word], hold_registers : [Reg -> BOOLEAN],
     Fetch : BOOLEAN, Decode : InstructionType,
     Execute : InstructionType, Store : InstructionType,
     fetching_active : BOOLEAN, execute_delay_complete : BOOLEAN,
     halt : BOOLEAN, instruction_count : 0 .. CountBound]

(***************************************************************************)
(* What is said of a core between two stages.                              *)
(***************************************************************************)

\* Only the base of the store in progress is held.
HoldMatches(k) ==
    \A r \in Reg :
        k.hold_registers[r] => k.Store # NoInstruction /\ StoreBase(k) = r

\* What keeps a core from being complete, until its program is over.
Unfinished(k) == k.Decode # NoInstruction \/ k.fetching_active \/ k.Fetch

Finished(k) == k.halt /\ k.pc > k.max_instruction_address
=============================================================================
