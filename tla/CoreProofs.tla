----------------------------- MODULE CoreProofs -----------------------------
(***************************************************************************)
(* What the stages of a core do to its record, whatever the other fields   *)
(* of the program are: that they keep its shape, and which fields they     *)
(* leave alone.                                                            *)
(***************************************************************************)
EXTENDS Core, MembusLemmas

\* The two operations on floats have words for results.
FloatsAreWords == \A x, y \in Word : FAdd(x, y) \in Word /\ FSub(x, y) \in Word

InstrType == [name : STRING, rd : Reg, rs1 : Reg, rs2 : Reg, imm : Int]

(***************************************************************************)
(* Words.                                                                  *)
(***************************************************************************)
LEMMA WrapIsWord == ASSUME NEW n \in Int PROVE Wrap(n) \in Word
  BY WordAssumption DEF Wrap, Modulus

LEMMA ShiftIsWord ==
    ASSUME NEW x \in Word, NEW n \in Int
    PROVE  ShiftLeft(x, n) \in Word
<1>1. n % 32 \in 0 .. 31
  OBVIOUS
<1>2. 2 ^ (n % 32) \in Int
  BY <1>1
<1>3. x * 2 ^ (n % 32) \in Int
  BY <1>2, WordAssumption
<1> QED
  BY <1>3, WrapIsWord DEF ShiftLeft

LEMMA CountIsBounded == ASSUME NEW n \in 0 .. CountBound PROVE Count(n) \in 0 .. CountBound
  BY CountAssumption DEF Count

(***************************************************************************)
(* Instructions.                                                           *)
(***************************************************************************)
LEMMA OperandsType ==
    ASSUME NEW instr \in InstructionType, instr # NoInstruction
    PROVE  Operands(instr) \in InstrType
  BY DecoderAssumption DEF InstructionType, Operands, InstrType

LEMMA NoInstructionType == NoInstruction \in InstructionType
  BY DEF InstructionType

LEMMA NewInstructionType ==
    ASSUME NEW word \in Word, NEW a \in Word
    PROVE  /\ NewInstruction(word, a) \in InstructionType
           /\ NewInstruction(word, a) # NoInstruction
           /\ NewInstruction(word, a).binary = word
           /\ NewInstruction(word, a).fetched_at = a
  BY WordAssumption DEF InstructionType, NewInstruction, NoInstruction

\* The same instruction, whatever its delays.
SameInstruction(i, j) == i.binary = j.binary /\ i.fetched_at = j.fetched_at

\* An instruction in the stage with other delays.
LEMMA DelayedType ==
    ASSUME NEW instr \in InstructionType, instr # NoInstruction,
           NEW delay \in {DelayFloor} \cup 0 .. 5, NEW store \in Nat
    PROVE  /\ [instr EXCEPT !.execute_delay = delay] \in InstructionType
           /\ [instr EXCEPT !.execute_delay = delay] # NoInstruction
           /\ SameInstruction([instr EXCEPT !.execute_delay = delay], instr)
           /\ [instr EXCEPT !.store_delay = store] \in InstructionType
           /\ [instr EXCEPT !.store_delay = store] # NoInstruction
           /\ SameInstruction([instr EXCEPT !.store_delay = store], instr)
  BY WordAssumption DEF InstructionType, NoInstruction, SameInstruction

(***************************************************************************)
(* Addresses and values of an access.                                      *)
(***************************************************************************)
LEMMA StoreOperands ==
    ASSUME NEW k \in CoreType, k.Store # NoInstruction
    PROVE  /\ StoreAddress(k) \in Word
           /\ StoreValue(k) \in Word
           /\ StoreBase(k) \in Reg
<1>1. Operands(k.Store) \in InstrType
  BY OperandsType DEF CoreType
<1> DEFINE i == Operands(k.Store)
<1>2. k.registers[i.rs1] + i.imm \in Int
  BY <1>1, WordAssumption DEF InstrType, CoreType
<1> QED
  BY <1>1, <1>2, WrapIsWord
     DEF InstrType, CoreType, StoreAddress, StoreValue, StoreBase, EffectiveAddress

LEMMA LoadOperands ==
    ASSUME NEW k \in CoreType, k.Execute # NoInstruction
    PROVE  /\ LoadAddress(k) \in Word
           /\ Operands(k.Execute).rd \in Reg
<1>1. Operands(k.Execute) \in InstrType
  BY OperandsType DEF CoreType
<1> DEFINE i == Operands(k.Execute)
<1>2. k.registers[i.rs1] + i.imm \in Int
  BY <1>1, WordAssumption DEF InstrType, CoreType
<1> QED
  BY <1>1, <1>2, WrapIsWord DEF InstrType, CoreType, LoadAddress, EffectiveAddress

\* The vector that a read returns.
LEMMA ReadResultType ==
    ASSUME MembusTypeOK, NEW c \in CoreId, NEW a \in Address
    PROVE  MembusReadResult(c, a) \in [value : Word, store : Nat, load : Nat]
<1>1. addressDelays[a] \in Delays /\ addressInUse[a] \in Entries /\ memory[a] \in Word
  BY DEF MembusTypeOK, RamTypeOK, Delays, Entries
<1>2. LoadDelayAfterRead(addressDelays[a]) \in Nat
  BY <1>1, DelaysStayNatural
<1>3. UINT32_MAX \in Word /\ UINT32_MAX - 1 \in Word
  BY WordAssumption
<1> QED
  BY <1>1, <1>2, <1>3
     DEF MembusReadResult, BlockedRead, RamReadResult, Delays, Entries

(***************************************************************************)
(* Updates of the record of a core.                                        *)
(***************************************************************************)

\* The fields that no instruction writes.
SameFrame(k, l) ==
    /\ l.hold_registers = k.hold_registers
    /\ l.start_address = k.start_address
    /\ l.max_instruction_address = k.max_instruction_address
    /\ l.Store = k.Store
    /\ l.Execute = k.Execute
    /\ l.fetching_active = k.fetching_active
    /\ l.execute_delay_complete = k.execute_delay_complete
    /\ l.halt = k.halt
    /\ l.instruction_count = k.instruction_count

LEMMA SetRegister ==
    ASSUME NEW k \in CoreType, NEW r \in Reg, NEW v \in Word
    PROVE  LET l == [k EXCEPT !.registers[r] = v] IN
           /\ l \in CoreType
           /\ SameFrame(k, l)
           /\ l.registers = [k.registers EXCEPT ![r] = v]
           /\ l.pc = k.pc /\ l.Decode = k.Decode /\ l.Fetch = k.Fetch
  BY DEF CoreType, SameFrame

LEMMA MoveEffect ==
    ASSUME NEW k \in CoreType, NEW d \in Int
    PROVE  /\ Move(k, d) \in CoreType
           /\ SameFrame(k, Move(k, d))
           /\ Move(k, d).pc = Wrap(k.pc + d)
           /\ Move(k, d).registers = k.registers
           /\ Move(k, d).Decode = k.Decode /\ Move(k, d).Fetch = k.Fetch
<1>1. k.pc + d \in Int
  BY WordAssumption DEF CoreType
<1>2. Wrap(k.pc + d) \in Word
  BY <1>1, WrapIsWord
<1> QED
  BY <1>2 DEF Move, CoreType, SameFrame

LEMMA FlushEffect ==
    ASSUME NEW k \in CoreType
    PROVE  LET l == FlushPipeline(k) IN
           /\ l \in CoreType
           /\ SameFrame(k, l)
           /\ l.pc = k.pc /\ l.registers = k.registers
           /\ l.Decode = NoInstruction /\ l.Fetch = FALSE
  BY NoInstructionType DEF FlushPipeline, CoreType, SameFrame

\* The instructions that need no memory: the registers and the pc they leave,
\* and what they leave alone.
LEMMA ComputedEffect ==
    ASSUME FloatsAreWords,
           NEW k \in CoreType, NEW i \in InstrType,
           i.name \in Computing, ~(i.name = "auipc" /\ AuipcFaults(i))
    PROVE  LET l == Computed(k, i)
               jumps == i.name = "jal" /\ i.imm # 0
           IN /\ l \in CoreType
              /\ SameFrame(k, l)
              /\ l.Decode = IF jumps THEN NoInstruction ELSE k.Decode
              /\ l.Fetch = IF jumps THEN FALSE ELSE k.Fetch
<1> DEFINE x == k.registers[i.rs1]
           y == k.registers[i.rs2]
           set(value) == [k EXCEPT !.registers[i.rd] = value]
<1>1. /\ x \in Word /\ y \in Word /\ k.pc \in Word
      /\ i.imm \in Int /\ i.rd \in Reg
      /\ {x, y, k.pc} \subseteq Int
  BY WordAssumption DEF CoreType, InstrType
<1> HIDE DEF x, y
<1> DEFINE Good(l) == l \in CoreType /\ SameFrame(k, l)
                      /\ l.Decode = k.Decode /\ l.Fetch = k.Fetch
<1>2. \A v \in Word : Good(set(v))
  BY <1>1, SetRegister
<1>3. \A d \in Int : Good(Move(k, d))
  BY MoveEffect
<1>4. Good(k)
  BY DEF SameFrame
<1> HIDE DEF Good
<1>5. ASSUME i.name = "addi" PROVE Good(Computed(k, i))
  <2>1. Wrap(x + i.imm) \in Word
    BY <1>1, WrapIsWord
  <2>2. Computed(k, i) = set(Wrap(x + i.imm))
    BY <1>5 DEF Computed, x
  <2> QED
    BY <1>2, <2>1, <2>2
<1>6. ASSUME i.name = "add" PROVE Good(Computed(k, i))
  <2>1. Wrap(x + y) \in Word
    BY <1>1, WrapIsWord
  <2>2. Computed(k, i) = set(Wrap(x + y))
    BY <1>6 DEF Computed, x, y
  <2> QED
    BY <1>2, <2>1, <2>2
<1>7. ASSUME i.name = "slli" PROVE Good(Computed(k, i))
  <2>1. ShiftLeft(x, i.imm) \in Word
    BY <1>1, ShiftIsWord
  <2>2. Computed(k, i) = set(ShiftLeft(x, i.imm))
    BY <1>7 DEF Computed, x
  <2> QED
    BY <1>2, <2>1, <2>2
<1>8. ASSUME i.name = "fadd.s" PROVE Good(Computed(k, i))
  <2>1. FAdd(x, y) \in Word
    BY <1>1 DEF FloatsAreWords
  <2>2. Computed(k, i) = set(FAdd(x, y))
    BY <1>8 DEF Computed, x, y
  <2> QED
    BY <1>2, <2>1, <2>2
<1>9. ASSUME i.name = "fsub.s" PROVE Good(Computed(k, i))
  <2>1. FSub(x, y) \in Word
    BY <1>1 DEF FloatsAreWords
  <2>2. Computed(k, i) = set(FSub(x, y))
    BY <1>9 DEF Computed, x, y
  <2> QED
    BY <1>2, <2>1, <2>2
<1>10. ASSUME i.name = "auipc" PROVE Good(Computed(k, i))
  <2>1. AuipcOperand(i) \in Int
    BY <1>10, WordAssumption DEF AuipcFaults, Modulus
  <2>2. Wrap(AuipcOperand(i) * 4096) \in Int
    BY <2>1, WrapIsWord, WordAssumption
  <2>3. Wrap(k.pc + Wrap(AuipcOperand(i) * 4096)) \in Word
    BY <1>1, <2>2, WrapIsWord
  <2>4. Computed(k, i) = set(Wrap(k.pc + Wrap(AuipcOperand(i) * 4096)))
    BY <1>10 DEF Computed
  <2> QED
    BY <1>2, <2>3, <2>4
<1>11. ASSUME i.name \in {"blt", "beq", "bne"} PROVE Good(Computed(k, i))
  <2>1. Computed(k, i) \in {k, Move(k, i.imm)}
    BY <1>11 DEF Computed, BranchIf
  <2> QED
    BY <1>1, <1>3, <1>4, <2>1
<1>12. CASE i.name = "jal"
  <2> DEFINE linked == [k EXCEPT !.registers["ra"] = Wrap(k.pc + 4)]
  <2>1. Good(linked)
    <3>1. Wrap(k.pc + 4) \in Word
      BY <1>1, WrapIsWord
    <3> QED
      BY <3>1, SetRegister, RegAssumption DEF Good
  <2> DEFINE jumped == Move(linked, i.imm)
  <2>2. Good(jumped)
    BY <1>1, <2>1, MoveEffect DEF Good, SameFrame
  <2>3. Computed(k, i) = IF i.imm # 0 THEN FlushPipeline(jumped) ELSE jumped
    BY <1>12 DEF Computed, Jal
  <2> HIDE DEF jumped
  <2>4. CASE i.imm = 0
    <3>1. Good(Computed(k, i))
      BY <2>2, <2>3, <2>4
    <3> QED
      BY <2>4, <3>1 DEF Good
  <2>5. CASE i.imm # 0
    <3>1. Computed(k, i) = FlushPipeline(jumped)
      BY <2>3, <2>5
    <3>2. jumped \in CoreType /\ SameFrame(k, jumped)
      BY <2>2 DEF Good
    <3>3. /\ FlushPipeline(jumped) \in CoreType
          /\ SameFrame(jumped, FlushPipeline(jumped))
          /\ FlushPipeline(jumped).Decode = NoInstruction
          /\ FlushPipeline(jumped).Fetch = FALSE
      BY <3>2, FlushEffect
    <3>4. SameFrame(k, FlushPipeline(jumped))
      BY <3>2, <3>3 DEF SameFrame
    <3> QED
      BY <1>12, <2>5, <3>1, <3>3, <3>4
  <2> QED
    BY <2>4, <2>5
<1>13. ASSUME i.name = "jalr" PROVE Good(Computed(k, i))
  <2> DEFINE target == Wrap(k.pc + i.imm)
  <2>1. Good(Move(k, i.imm)) /\ target \in Word
    BY <1>1, <1>3, WrapIsWord
  <2>2. Computed(k, i) = [Move(k, i.imm) EXCEPT !.registers[i.rd] = target]
    BY <1>13 DEF Computed, Jalr
  <2> HIDE DEF target
  <2> QED
    BY <1>1, <2>1, <2>2, SetRegister DEF Good, SameFrame
<1>14. CASE i.name # "jal"
  BY <1>5, <1>6, <1>7, <1>8, <1>9, <1>10, <1>11, <1>13, <1>14 DEF Computing, Good
<1> QED
  BY <1>12, <1>14

(***************************************************************************)
(* The four stages, each as the core it leaves and the calls it makes.     *)
(***************************************************************************)

\* The bus keeps its promises in this step.
BusStep == BusInv' /\ [Arbiter!ArbiterNext]_(Arbiter!arbiterVars)

LEMMA IdleBus ==
    ASSUME BusInv, UNCHANGED busVars
    PROVE  BusStep
<1>1. BusInv'
  BY DEF BusInv, busVars, MembusTypeOK, RamTypeOK, StoreDelayMirrored, FreeIsBlank,
         InUse
<1> QED
  BY <1>1, IdleArbitrates DEF BusStep

LEMMA BecomeEffect ==
    ASSUME NEW P, cores \in [P -> CoreType], NEW c \in P, NEW l \in CoreType,
           Become(c, l)
    PROVE  /\ cores' \in [P -> CoreType]
           /\ cores'[c] = l
           /\ \A d \in P : d # c => cores'[d] = cores[d]
  BY DEF Become

\* The fields that the Store stage does not touch.
AroundStore(k, l) ==
    /\ l.pc = k.pc /\ l.registers = k.registers
    /\ l.start_address = k.start_address
    /\ l.max_instruction_address = k.max_instruction_address
    /\ l.Fetch = k.Fetch /\ l.Decode = k.Decode /\ l.Execute = k.Execute
    /\ l.fetching_active = k.fetching_active
    /\ l.execute_delay_complete = k.execute_delay_complete
    /\ l.halt = k.halt /\ l.instruction_count = k.instruction_count

LEMMA HoldEffect ==
    ASSUME NEW k \in CoreType, k.Store # NoInstruction, HoldMatches(k)
    PROVE  LET held == [k EXCEPT !.hold_registers[StoreBase(k)] = TRUE]
               done == [k EXCEPT !.hold_registers[StoreBase(k)] = FALSE,
                                 !.Store = NoInstruction]
           IN /\ held \in CoreType /\ AroundStore(k, held)
              /\ held.Store = k.Store /\ HoldMatches(held)
              /\ done \in CoreType /\ AroundStore(k, done)
              /\ done.Store = NoInstruction /\ HoldMatches(done)
<1> DEFINE held == [k EXCEPT !.hold_registers[StoreBase(k)] = TRUE]
           done == [k EXCEPT !.hold_registers[StoreBase(k)] = FALSE,
                             !.Store = NoInstruction]
<1>1. StoreBase(k) \in Reg
  BY StoreOperands
<1>2. /\ held \in CoreType /\ AroundStore(k, held)
      /\ held.Store = k.Store
      /\ held.hold_registers = [k.hold_registers EXCEPT ![StoreBase(k)] = TRUE]
  BY <1>1 DEF CoreType, AroundStore
<1>3. /\ done \in CoreType /\ AroundStore(k, done)
      /\ done.Store = NoInstruction
      /\ done.hold_registers = [k.hold_registers EXCEPT ![StoreBase(k)] = FALSE]
  BY <1>1, NoInstructionType DEF CoreType, AroundStore
<1>4. StoreBase(held) = StoreBase(k)
  BY <1>2 DEF StoreBase
<1> HIDE DEF held, done
<1>5. HoldMatches(held)
  BY <1>2, <1>4 DEF HoldMatches, CoreType
<1>6. HoldMatches(done)
  BY <1>3 DEF HoldMatches, CoreType
<1> QED
  BY <1>2, <1>3, <1>5, <1>6 DEF held, done

LEMMA StoreEffect ==
    ASSUME NEW P \in SUBSET CoreId, cores \in [P -> CoreType], BusInv,
           NEW c \in P, HoldMatches(cores[c]), Store(c)
    PROVE  /\ cores' \in [P -> CoreType]
           /\ \A d \in P : d # c => cores'[d] = cores[d]
           /\ AroundStore(cores[c], cores'[c])
           /\ HoldMatches(cores'[c])
           /\ BusStep
<1> DEFINE k == cores[c]
<1>1. k \in CoreType
  OBVIOUS
<1>2. CASE StoreIdle(k)
  BY <1>2, IdleBus DEF StoreIdle, coreVars, busVars, AroundStore
<1>3. CASE StorePending(c, k) \/ StoreCompletes(c, k)
  <2>1. CallWrite(c, k)
    BY <1>3 DEF StorePending, StoreCompletes
  <2>2. k.Store # NoInstruction
    BY <2>1 DEF CallWrite
  <2>3. StoreAddress(k) \in Address /\ StoreValue(k) \in Word
    BY <2>1, <2>2, StoreOperands DEF CallWrite, WriteFaults, Fault
  <2>4. BusStep
    BY <2>1, <2>3, WritePreserves, WriteArbitrates DEF CallWrite, BusStep
  <2>5. PICK l \in CoreType :
            Become(c, l) /\ AroundStore(k, l) /\ HoldMatches(l)
    BY <1>1, <1>3, <2>2, HoldEffect DEF StorePending, StoreCompletes
  <2> QED
    BY <2>4, <2>5, BecomeEffect
<1> QED
  BY <1>2, <1>3 DEF Store

\* The fields that the Execute stage does not touch.
AroundExecute(k, l) ==
    /\ l.hold_registers = k.hold_registers
    /\ l.start_address = k.start_address
    /\ l.max_instruction_address = k.max_instruction_address
    /\ l.fetching_active = k.fetching_active
    /\ l.halt = k.halt /\ l.instruction_count = k.instruction_count

\* Only the delays of the instruction in the stage, or the flag, are others.
Waits(k, l) ==
    /\ l.registers = k.registers /\ l.pc = k.pc
    /\ l.Decode = k.Decode /\ l.Store = k.Store
    /\ k.Execute # NoInstruction /\ l.Execute # NoInstruction
    /\ SameInstruction(l.Execute, k.Execute)

LEMMA OtherDelays ==
    ASSUME NEW k \in CoreType, k.Execute # NoInstruction,
           NEW instr \in InstructionType, instr # NoInstruction,
           SameInstruction(instr, k.Execute)
    PROVE  LET l == [k EXCEPT !.Execute = instr] IN
           l \in CoreType /\ AroundExecute(k, l) /\ Waits(k, l)
  BY DEF CoreType, AroundExecute, Waits

LEMMA StartedEffect ==
    ASSUME NEW k \in CoreType, k.Execute # NoInstruction
    PROVE  /\ Started(k) \in CoreType
           /\ AroundExecute(k, Started(k))
           /\ Waits(k, Started(k))
<1> DEFINE old == k.Execute.execute_delay
           new == IF Fresh(k) \/ old = DelayFloor THEN old ELSE old - 1
           instr == [k.Execute EXCEPT !.execute_delay = new]
<1>1. k.Execute \in InstructionType
  BY DEF CoreType
<1>2. old \in {DelayFloor} \cup 0 .. 5
  BY <1>1 DEF InstructionType
<1>3. new \in {DelayFloor} \cup 0 .. 5
  BY <1>2 DEF DelayFloor
<1> HIDE DEF new
<1>4. /\ instr \in InstructionType /\ instr # NoInstruction
      /\ SameInstruction(instr, k.Execute)
  BY <1>1, <1>3, DelayedType
<1>5. Started(k) = [k EXCEPT !.execute_delay_complete = TRUE, !.Execute = instr]
  BY <1>1, Zenon DEF Started, new, CoreType, InstructionType
<1> HIDE DEF instr
<1> QED
  BY <1>4, <1>5 DEF CoreType, AroundExecute, Waits

LEMMA RetireEffect ==
    ASSUME NEW k \in CoreType
    PROVE  /\ Retire(k) \in CoreType
           /\ Retire(k).Store = k.Store
           /\ AroundExecute(k, Retire(k))
  BY NoInstructionType DEF Retire, CoreType, AroundExecute

\* The count-downs.
LEMMA DelayEffect ==
    ASSUME NEW c, NEW k \in CoreType, StartDelay(c, k) \/ CountDown(c, k)
    PROVE  /\ UNCHANGED busVars
           /\ \E l \in CoreType :
                  Become(c, l) /\ AroundExecute(k, l) /\ Waits(k, l)
<1>1. k.Execute \in InstructionType /\ k.Execute # NoInstruction
  BY DEF CoreType, StartDelay, CountDown
<1>2. UNCHANGED busVars
  BY DEF StartDelay, CountDown
<1> SUFFICES \E instr \in InstructionType :
                 /\ instr # NoInstruction /\ SameInstruction(instr, k.Execute)
                 /\ Become(c, [k EXCEPT !.Execute = instr])
  BY <1>1, <1>2, OtherDelays
<1>3. CASE StartDelay(c, k)
  <2> DEFINE amount == DelayAmount(Operands(k.Execute).name)
  <2>1. amount \in {DelayFloor} \cup 0 .. 5
    BY DEF DelayAmount
  <2> QED
    BY <1>1, <1>3, <2>1, DelayedType DEF StartDelay
<1>4. CASE CountDown(c, k) /\ k.Execute.store_delay = 0
  <2>1. k.Execute.execute_delay - 1 \in {DelayFloor} \cup 0 .. 5
    BY <1>1, <1>4 DEF CountDown, InstructionType, DelayFloor
  <2> QED
    BY <1>1, <1>4, <2>1, DelayedType DEF CountDown
<1>5. CASE CountDown(c, k) /\ k.Execute.store_delay # 0
  <2>1. k.Execute.store_delay - 1 \in Nat
    BY <1>1, <1>5 DEF InstructionType
  <2>2. k.Execute.execute_delay \in {DelayFloor} \cup 0 .. 5
    BY <1>1 DEF InstructionType
  <2> QED
    BY <1>1, <1>5, <2>1, <2>2, DelayedType DEF CountDown
<1> QED
  BY <1>3, <1>4, <1>5

\* The paths through execute() that make no call of the bus.
LEMMA ExecuteAlone ==
    ASSUME FloatsAreWords, NEW c, NEW k \in CoreType, HoldMatches(k),
           \/ StartDelay(c, k) \/ CountDown(c, k) \/ Compute(c, k)
           \/ SendToStore(c, k) \/ Unsupported(c, k)
    PROVE  /\ UNCHANGED busVars
           /\ \E l \in CoreType :
                  Become(c, l) /\ AroundExecute(k, l) /\ HoldMatches(l)
<1> SUFFICES \E l \in CoreType :
                 /\ Become(c, l) /\ AroundExecute(k, l)
                 /\ l.Store = k.Store \/ k.Store = NoInstruction
  BY DelayEffect
     DEF Compute, SendToStore, Unsupported, AroundExecute, HoldMatches, StoreBase
<1>1. k.Execute \in InstructionType
  BY DEF CoreType
<1>2. CASE StartDelay(c, k) \/ CountDown(c, k)
  BY <1>2, DelayEffect DEF Waits
<1>3. CASE Compute(c, k)
  <2> DEFINE i == Operands(k.Execute)
             l == Computed(k, i)
  <2>1. i \in InstrType
    BY <1>1, <1>3, OperandsType DEF Compute, Executing, Ready
  <2>2. l \in CoreType /\ SameFrame(k, l)
    BY <1>3, <2>1, ComputedEffect DEF Compute, Executing
  <2>3. Become(c, Retire(l))
    BY <1>3 DEF Compute
  <2> HIDE DEF l
  <2>4. /\ Retire(l) \in CoreType
        /\ Retire(l).Store = l.Store
        /\ AroundExecute(l, Retire(l))
    BY <2>2, RetireEffect
  <2>5. AroundExecute(k, Retire(l)) /\ Retire(l).Store = k.Store
    BY <2>2, <2>4 DEF SameFrame, AroundExecute
  <2> QED
    BY <2>3, <2>4, <2>5
<1>4. CASE SendToStore(c, k)
  <2>1. k.Execute # NoInstruction
    BY <1>4 DEF SendToStore, Executing, Ready
  <2>2. /\ Started(k) \in CoreType /\ AroundExecute(k, Started(k))
        /\ Started(k).Store = k.Store
    BY <2>1, StartedEffect DEF Waits
  <2>3. CASE k.Store = NoInstruction
    <3> DEFINE s == Started(k)
               l == [s EXCEPT !.Store = s.Execute, !.Execute = NoInstruction]
    <3>1. Become(c, l)
      BY <1>4, <2>3 DEF SendToStore
    <3> HIDE DEF s
    <3>2. l \in CoreType /\ AroundExecute(k, l)
      BY <2>2, NoInstructionType DEF s, CoreType, AroundExecute
    <3> QED
      BY <2>3, <3>1, <3>2
  <2>4. CASE k.Store # NoInstruction
    BY <1>4, <2>2, <2>4 DEF SendToStore
  <2> QED
    BY <2>3, <2>4
<1>5. CASE Unsupported(c, k)
  BY <1>5, StartedEffect DEF Unsupported, Ready, Waits
<1> QED
  BY <1>2, <1>3, <1>4, <1>5

\* A load that is told to wait.
LEMMA LoadWaitsEffect ==
    ASSUME MembusTypeOK, NEW c \in CoreId, NEW k \in CoreType, LoadWaits(c, k)
    PROVE  \E l \in CoreType :
               Become(c, l) /\ AroundExecute(k, l) /\ Waits(k, l)
<1> DEFINE s == Started(k)
           store == LoadResult(c, k).store
           instr == [s.Execute EXCEPT !.store_delay = store]
           l == [s EXCEPT !.Execute = instr]
<1>1. k.Execute # NoInstruction /\ LoadAddress(k) \in Address /\ Become(c, l)
  BY DEF LoadWaits, CallRead, Executing, Ready, ReadFaults, Fault
<1>2. store \in Nat
  BY <1>1, ReadResultType DEF LoadResult
<1>3. s \in CoreType /\ AroundExecute(k, s) /\ Waits(k, s)
  BY <1>1, StartedEffect
<1> HIDE DEF s, store
<1>4. s.Execute \in InstructionType /\ s.Execute # NoInstruction
  BY <1>3 DEF CoreType, Waits
<1>5. s.Execute.execute_delay \in {DelayFloor} \cup 0 .. 5
  BY <1>4 DEF InstructionType
<1>6. /\ instr \in InstructionType /\ instr # NoInstruction
      /\ SameInstruction(instr, s.Execute)
  BY <1>2, <1>4, <1>5, DelayedType
<1> HIDE DEF instr
<1>7. l \in CoreType /\ AroundExecute(s, l) /\ Waits(s, l)
  BY <1>3, <1>4, <1>6, OtherDelays
<1> HIDE DEF l
<1>8. AroundExecute(k, l) /\ Waits(k, l)
  BY <1>3, <1>7 DEF AroundExecute, Waits, SameInstruction
<1> QED
  BY <1>1, <1>7, <1>8

\* The paths of a load, each after one call of the bus.
LEMMA LoadEffect ==
    ASSUME MembusTypeOK, NEW c \in CoreId, NEW k \in CoreType, Load(c, k)
    PROVE  /\ LoadAddress(k) \in Address /\ MembusRead(c, LoadAddress(k))
           /\ \E l \in CoreType :
                  Become(c, l) /\ AroundExecute(k, l) /\ l.Store = k.Store
<1> DEFINE result == LoadResult(c, k)
           rd == Operands(k.Execute).rd
<1>1. CallRead(c, k)
  BY DEF Load, LoadHolds, LoadDelivers, LoadBlocked, LoadWaits, LoadFallsThrough
<1>2. k.Execute # NoInstruction
  BY <1>1 DEF CallRead, Executing, Ready
<1>3. LoadAddress(k) \in Address /\ rd \in Reg
  BY <1>1, <1>2, LoadOperands DEF CallRead, ReadFaults, Fault
<1>4. result \in [value : Word, store : Nat, load : Nat]
  BY <1>3, ReadResultType DEF LoadResult
<1> HIDE DEF result, rd
<1>5. /\ Started(k) \in CoreType /\ AroundExecute(k, Started(k))
      /\ Started(k).Store = k.Store /\ Started(k).Execute # NoInstruction
  BY <1>2, StartedEffect DEF Waits
<1> DEFINE s == Started(k)
           delivered == [k EXCEPT !.registers[rd] = result.value]
           overwritten == [s EXCEPT !.registers[rd] = result.value]
<1> HIDE DEF s
<1>6. delivered \in CoreType /\ SameFrame(k, delivered)
  BY <1>3, <1>4, SetRegister
<1>7. overwritten \in CoreType /\ SameFrame(s, overwritten)
  BY <1>3, <1>4, <1>5, SetRegister DEF s
<1> HIDE DEF delivered, overwritten
<1> DEFINE Moves ==
        \E l \in CoreType : Become(c, l) /\ AroundExecute(k, l) /\ l.Store = k.Store
<1>8. ASSUME LoadHolds(c, k) PROVE Moves
  BY <1>5, <1>8 DEF LoadHolds
<1>9. ASSUME LoadDelivers(c, k) PROVE Moves
  <2>1. Become(c, Retire(delivered))
    BY <1>9 DEF LoadDelivers, delivered, result, rd
  <2> QED
    BY <1>6, <2>1, RetireEffect DEF SameFrame, AroundExecute
<1>10. ASSUME LoadBlocked(c, k) PROVE Moves
  <2>1. Become(c, overwritten)
    BY <1>10 DEF LoadBlocked, overwritten, result, rd, s
  <2> QED
    BY <1>5, <1>7, <2>1 DEF s, SameFrame, AroundExecute
<1>11. ASSUME LoadWaits(c, k) PROVE Moves
  BY <1>11, LoadWaitsEffect DEF Waits
<1>12. ASSUME LoadFallsThrough(c, k) PROVE Moves
  BY <1>12, RetireEffect DEF LoadFallsThrough
<1>13. Moves
  BY <1>8, <1>9, <1>10, <1>11, <1>12 DEF Load
<1> QED
  BY <1>1, <1>3, <1>13 DEF CallRead

LEMMA ExecuteEffect ==
    ASSUME FloatsAreWords,
           NEW P \in SUBSET CoreId, cores \in [P -> CoreType], BusInv,
           NEW c \in P, HoldMatches(cores[c]), Execute(c)
    PROVE  /\ cores' \in [P -> CoreType]
           /\ \A d \in P : d # c => cores'[d] = cores[d]
           /\ AroundExecute(cores[c], cores'[c])
           /\ HoldMatches(cores'[c])
           /\ BusStep
<1> DEFINE k == cores[c]
<1>1. CASE ExecuteIdle(k)
  BY <1>1, IdleBus DEF ExecuteIdle, coreVars, busVars, AroundExecute
<1>2. CASE StartDelay(c, k) \/ CountDown(c, k) \/ Compute(c, k)
               \/ SendToStore(c, k) \/ Unsupported(c, k)
  <2>1. PICK l \in CoreType :
            Become(c, l) /\ AroundExecute(k, l) /\ HoldMatches(l)
    BY <1>2, ExecuteAlone
  <2>2. BusStep
    BY <1>2, ExecuteAlone, IdleBus
  <2> QED
    BY <2>1, <2>2, BecomeEffect
<1>3. CASE Load(c, k)
  <2>1. PICK l \in CoreType :
            Become(c, l) /\ AroundExecute(k, l) /\ l.Store = k.Store
    BY <1>3, LoadEffect DEF BusInv
  <2>2. BusStep
    BY <1>3, LoadEffect, ReadPreserves, ReadArbitrates DEF BusInv, BusStep
  <2>3. HoldMatches(l)
    BY <2>1 DEF HoldMatches, AroundExecute, StoreBase
  <2> QED
    BY <2>1, <2>2, <2>3, BecomeEffect
<1> QED
  BY <1>1, <1>2, <1>3 DEF Execute

\* The fields that neither Decode nor Fetch touches.
AroundFront(k, l) ==
    /\ l.hold_registers = k.hold_registers /\ l.Store = k.Store
    /\ l.registers = k.registers
    /\ l.start_address = k.start_address
    /\ l.max_instruction_address = k.max_instruction_address

LEMMA HoldKept ==
    ASSUME NEW k, NEW l, HoldMatches(k), AroundFront(k, l)
    PROVE  HoldMatches(l)
  BY DEF HoldMatches, AroundFront, StoreBase

LEMMA DecodeEffect ==
    ASSUME NEW P \in SUBSET CoreId, cores \in [P -> CoreType], BusInv,
           NEW c \in P, HoldMatches(cores[c]), Decode(c)
    PROVE  /\ cores' \in [P -> CoreType]
           /\ \A d \in P : d # c => cores'[d] = cores[d]
           /\ AroundFront(cores[c], cores'[c])
           /\ HoldMatches(cores'[c])
           /\ BusStep
<1> DEFINE k == cores[c]
           moved == [k EXCEPT !.Decode = NoInstruction, !.Execute = k.Decode]
<1>1. moved \in CoreType /\ AroundFront(k, moved)
  BY NoInstructionType DEF CoreType, AroundFront
<1>2. PICK l \in {k, moved} : Become(c, l)
  BY DEF Decode
<1>3. l \in CoreType /\ AroundFront(k, l)
  BY <1>1, <1>2 DEF AroundFront
<1>4. BusStep
  BY IdleBus DEF Decode
<1> QED
  BY <1>2, <1>3, <1>4, BecomeEffect, HoldKept

LEMMA CompleteIsFinished ==
    ASSUME NEW k, Unfinished(k) \/ Finished(k), IsComplete(k)
    PROVE  Finished(k)
  BY DEF Unfinished, IsComplete

\* Whatever the stages before it left, fetch() does not leave a core complete
\* that is not at the end of its program.
LEMMA FetchEffect ==
    ASSUME NEW P \in SUBSET CoreId, cores \in [P -> CoreType], BusInv,
           NEW c \in P, HoldMatches(cores[c]), Fetch(c)
    PROVE  /\ cores' \in [P -> CoreType]
           /\ \A d \in P : d # c => cores'[d] = cores[d]
           /\ AroundFront(cores[c], cores'[c])
           /\ HoldMatches(cores'[c])
           /\ Unfinished(cores'[c]) \/ Finished(cores'[c])
           /\ BusStep
<1> DEFINE k == cores[c]
           value == MembusReadResult(c, k.pc).value
           waiting == [k EXCEPT !.fetching_active = TRUE]
           delivered == [k EXCEPT !.fetching_active = FALSE,
                                  !.instruction_count = Count(@),
                                  !.Fetch = TRUE,
                                  !.Decode = NewInstruction(value, k.pc),
                                  !.pc = Wrap(@ + 4)]
           ended == [k EXCEPT !.fetching_active = FALSE, !.Fetch = FALSE,
                              !.halt = TRUE]
<1> DEFINE Good(l) == /\ l \in CoreType /\ AroundFront(k, l)
                      /\ Unfinished(l) \/ Finished(l)
<1>1. k \in CoreType
  OBVIOUS
<1>2. CASE FetchStalls(k)
  BY <1>2, IdleBus DEF FetchStalls, coreVars, busVars, AroundFront, Unfinished
<1>3. SUFFICES ASSUME ~FetchStalls(k)
               PROVE  BusStep /\ \E l : Good(l) /\ Become(c, l)
  BY <1>2, BecomeEffect, HoldKept
<1>4. CASE FetchEnds(c, k)
  <2>1. Good(ended)
    BY <1>4 DEF FetchEnds, CoreType, AroundFront, Finished
  <2> QED
    BY <1>4, <2>1, IdleBus DEF FetchEnds
<1>5. CASE FetchWaits(c, k) \/ FetchDelivers(c, k)
  <2>1. MembusRead(c, k.pc) /\ k.pc \in Address /\ k.pc \in Word
    BY <1>1, <1>5
       DEF FetchWaits, FetchDelivers, CanFetch, ReadFaults, Fault, CoreType
  <2>2. BusStep
    BY <2>1, ReadPreserves, ReadArbitrates DEF BusStep
  <2>3. CASE FetchWaits(c, k)
    <3>1. Good(waiting)
      BY DEF CoreType, AroundFront, Unfinished
    <3> QED
      BY <2>2, <2>3, <3>1 DEF FetchWaits
  <2>4. CASE FetchDelivers(c, k)
    <3>1. value \in Word
      BY <2>1, ReadResultType DEF BusInv
    <3> DEFINE instr == NewInstruction(value, k.pc)
    <3>2. instr \in InstructionType /\ instr # NoInstruction
      BY <2>1, <3>1, NewInstructionType
    <3>3. Wrap(k.pc + 4) \in Word
      <4>1. k.pc + 4 \in Int
        BY <2>1, WordAssumption
      <4> QED
        BY <4>1, WrapIsWord
    <3>4. Count(k.instruction_count) \in 0 .. CountBound
      BY CountIsBounded DEF CoreType
    <3> HIDE DEF instr
    <3>5. Good([k EXCEPT !.fetching_active = FALSE,
                         !.instruction_count = Count(k.instruction_count),
                         !.Fetch = TRUE, !.Decode = instr,
                         !.pc = Wrap(k.pc + 4)])
      BY <3>2, <3>3, <3>4 DEF CoreType, AroundFront, Unfinished
    <3>6. Good(delivered)
      BY <3>5 DEF instr
    <3> QED
      BY <2>2, <2>4, <3>6 DEF FetchDelivers
  <2> QED
    BY <1>5, <2>3, <2>4
<1> QED
  BY <1>3, <1>4, <1>5 DEF Fetch
=============================================================================
