---------------------------- MODULE PipelineProofs -----------------------------
(***************************************************************************)
(* The pipelines implement InOrder: each call of a stage is one of its     *)
(* actions or changes nothing that it can see.                             *)
(***************************************************************************)
EXTENDS SimulatorProofs

(***************************************************************************)
(* Remainders.                                                             *)
(***************************************************************************)
LEMMA WrapOfWord == ASSUME NEW w \in Word PROVE Wrap(w) = w
  BY WordAssumption DEF Wrap, Modulus

LEMMA Remainder ==
    ASSUME NEW M \in Nat \ {0}, NEW q \in Int, NEW r \in 0 .. M - 1
    PROVE  (q * M + r) % M = r
  OBVIOUS

LEMMA WrapOfSum ==
    ASSUME NEW a \in Int, NEW b \in Int
    PROVE  Wrap(a + Wrap(b)) = Wrap(a + b)
<1> DEFINE M == Modulus
           r == b % M
           p == b \div M
           s == (a + r) % M
           q == (a + r) \div M
<1>1. M \in Nat \ {0}
  BY WordAssumption DEF Modulus
<1> HIDE DEF M
<1>2. p \in Int /\ r \in 0 .. M - 1 /\ b = p * M + r
  BY <1>1
<1> HIDE DEF p, r
<1>3. q \in Int /\ s \in 0 .. M - 1 /\ a + r = q * M + s
  BY <1>1, <1>2
<1>4. Wrap(a + Wrap(b)) = s
  BY DEF Wrap, M, r, s
<1> HIDE DEF q, s
<1>5. a + b = (p + q) * M + s
  <2>1. (p + q) * M = p * M + q * M
    BY <1>1, <1>2, <1>3
  <2>2. p * M \in Int /\ q * M \in Int /\ (p + q) * M \in Int
    BY <1>1, <1>2, <1>3
  <2> QED
    BY <1>2, <1>3, <2>1, <2>2
<1>6. (a + b) % M = s
  <2>1. p + q \in Int
    BY <1>2, <1>3
  <2> QED
    BY <1>1, <1>3, <1>5, <2>1, Remainder
<1> QED
  BY <1>4, <1>6 DEF Wrap, M

(***************************************************************************)
(* The instructions of the two machines.                                   *)
(***************************************************************************)
MachineState(k) == [registers |-> k.registers, memory |-> memory, pc |-> k.pc]

LEMMA SignsAgree ==
    ASSUME NEW w \in Word
    PROVE  Machine!AsInt(w) = Signed(w)
  BY WordAssumption DEF Machine!AsInt, Signed, Modulus

\* Without memory both machines leave the same registers and the same pc.
LEMMA ComputedAgrees ==
    ASSUME NEW k \in CoreType, NEW i \in InstrType,
           i.name \in Computing, ~(i.name = "auipc" /\ AuipcFaults(i))
    PROVE  LET after == Machine!Effect(MachineState(k), i) IN
           /\ after.registers = Computed(k, i).registers
           /\ after.pc = Computed(k, i).pc
<1> DEFINE x == k.registers[i.rs1]
           y == k.registers[i.rs2]
           s == MachineState(k)
           after == Machine!Effect(s, i)
           Agrees(l) == after.registers = l.registers /\ after.pc = l.pc
           set(v) == [s EXCEPT !.registers[i.rd] = Machine!WrapTo(v)]
           target == Machine!WrapTo(k.pc + i.imm)
<1>1. /\ x \in Word /\ y \in Word /\ k.pc \in Word
      /\ i.imm \in Int /\ i.rd \in Reg
      /\ k.registers \in [Reg -> Word]
  BY DEF CoreType, InstrType
<1>2. \A n : Machine!WrapTo(n) = Wrap(n)
  BY DEF Machine!WrapTo, Wrap
<1>3. s.registers = k.registers /\ s.pc = k.pc
  BY DEF MachineState
<1>4. \A v : /\ set(v).registers = [k.registers EXCEPT ![i.rd] = Wrap(v)]
             /\ set(v).pc = k.pc
  BY <1>1, <1>2 DEF MachineState
<1>5. \A w : LET l == [k EXCEPT !.registers[i.rd] = w] IN
             /\ l.registers = [k.registers EXCEPT ![i.rd] = w]
             /\ l.pc = k.pc
  BY DEF CoreType
<1> SUFFICES Agrees(Computed(k, i))
  OBVIOUS
<1> HIDE DEF s
<1>6. ASSUME i.name = "addi" PROVE Agrees(Computed(k, i))
  <2>1. after = set(x + i.imm)
    BY <1>3, <1>6 DEF Machine!Effect, Machine!Loads, Machine!Stores
  <2>2. Computed(k, i) = [k EXCEPT !.registers[i.rd] = Wrap(x + i.imm)]
    BY <1>6 DEF Computed
  <2> HIDE DEF set, after
  <2> QED
    BY <1>4, <1>5, <2>1, <2>2
<1>7. ASSUME i.name = "add" PROVE Agrees(Computed(k, i))
  <2>1. after = set(x + y)
    BY <1>3, <1>7 DEF Machine!Effect, Machine!Loads, Machine!Stores
  <2>2. Computed(k, i) = [k EXCEPT !.registers[i.rd] = Wrap(x + y)]
    BY <1>7 DEF Computed
  <2> HIDE DEF set, after
  <2> QED
    BY <1>4, <1>5, <2>1, <2>2
<1>8. ASSUME i.name = "slli" PROVE Agrees(Computed(k, i))
  <2>1. after = set(x * 2 ^ (i.imm % 32))
    BY <1>3, <1>8 DEF Machine!Effect, Machine!Loads, Machine!Stores
  <2>2. Computed(k, i) = [k EXCEPT !.registers[i.rd] = Wrap(x * 2 ^ (i.imm % 32))]
    BY <1>8 DEF Computed, ShiftLeft
  <2> HIDE DEF set, after
  <2> QED
    BY <1>4, <1>5, <2>1, <2>2
<1>9. ASSUME i.name = "fadd.s" PROVE Agrees(Computed(k, i))
  <2>1. after = set(FAdd(x, y))
    BY <1>3, <1>9 DEF Machine!Effect, Machine!Loads, Machine!Stores
  <2>2. Computed(k, i) = [k EXCEPT !.registers[i.rd] = FAdd(x, y)]
    BY <1>9 DEF Computed
  <2>3. Wrap(FAdd(x, y)) = FAdd(x, y)
    BY <1>1, FloatAssumption, WrapOfWord
  <2> HIDE DEF set, after
  <2> QED
    BY <1>4, <1>5, <2>1, <2>2, <2>3
<1>10. ASSUME i.name = "fsub.s" PROVE Agrees(Computed(k, i))
  <2>1. after = set(FSub(x, y))
    BY <1>3, <1>10 DEF Machine!Effect, Machine!Loads, Machine!Stores
  <2>2. Computed(k, i) = [k EXCEPT !.registers[i.rd] = FSub(x, y)]
    BY <1>10 DEF Computed
  <2>3. Wrap(FSub(x, y)) = FSub(x, y)
    BY <1>1, FloatAssumption, WrapOfWord
  <2> HIDE DEF set, after
  <2> QED
    BY <1>4, <1>5, <2>1, <2>2, <2>3
<1>11. ASSUME i.name = "auipc" PROVE Agrees(Computed(k, i))
  <2> DEFINE upper == AuipcOperand(i) * 4096
  <2>1. Machine!AuipcOperand(i) = AuipcOperand(i)
    BY DEF Machine!AuipcOperand, AuipcOperand, Machine!ReadAsHex, ReadAsHex
  <2>2. after = set(k.pc + upper)
    BY <1>3, <1>11, <2>1 DEF Machine!Effect, Machine!Loads, Machine!Stores
  <2>3. Computed(k, i) = [k EXCEPT !.registers[i.rd] = Wrap(k.pc + Wrap(upper))]
    BY <1>11 DEF Computed
  <2>4. upper \in Int /\ k.pc \in Int
    BY <1>1, <1>11, WordAssumption DEF AuipcFaults, Modulus
  <2> HIDE DEF set, after, upper
  <2>5. Wrap(k.pc + Wrap(upper)) = Wrap(k.pc + upper)
    BY <2>4, WrapOfSum
  <2> QED
    BY <1>4, <1>5, <2>2, <2>3, <2>5
<1>12. ASSUME i.name \in {"blt", "beq", "bne"} PROVE Agrees(Computed(k, i))
  <2> DEFINE test == \/ i.name = "blt" /\ Signed(x) < Signed(y)
                     \/ i.name = "beq" /\ x = y
                     \/ i.name = "bne" /\ x # y
  <2>1. after = [s EXCEPT !.pc = IF test THEN target ELSE s.pc]
    BY <1>1, <1>3, <1>12, SignsAgree DEF Machine!Effect, Machine!Loads, Machine!Stores
  <2>2. Computed(k, i) = IF test THEN Move(k, i.imm) ELSE k
    BY <1>12 DEF Computed, BranchIf
  <2> HIDE DEF test
  <2>3. after.registers = k.registers /\ after.pc = IF test THEN target ELSE k.pc
    BY <1>3, <2>1 DEF s, MachineState
  <2>4. Move(k, i.imm).registers = k.registers /\ Move(k, i.imm).pc = target
    BY <1>1, <1>2, MoveEffect
  <2> HIDE DEF after, target
  <2> QED
    BY <2>2, <2>3, <2>4
<1>13. ASSUME i.name = "jal" PROVE Agrees(Computed(k, i))
  <2> DEFINE link == Wrap(k.pc + 4)
             linked == [k EXCEPT !.registers["ra"] = link]
             jumped == Move(linked, i.imm)
  <2>1. after = [[s EXCEPT !.registers["ra"] = link] EXCEPT !.pc = target]
    BY <1>2, <1>3, <1>13 DEF Machine!Effect, Machine!Loads, Machine!Stores
  <2>2. Computed(k, i) = IF i.imm # 0 THEN FlushPipeline(jumped) ELSE jumped
    BY <1>13 DEF Computed, Jal
  <2>3. link \in Word
    <3>1. k.pc + 4 \in Int
      BY <1>1, WordAssumption
    <3> QED
      BY <3>1, WrapIsWord
  <2> HIDE DEF link
  <2>4. /\ linked \in CoreType /\ linked.pc = k.pc
        /\ linked.registers = [k.registers EXCEPT !["ra"] = link]
    BY <2>3, RegAssumption, SetRegister
  <2> HIDE DEF linked
  <2>5. /\ jumped \in CoreType /\ jumped.pc = target
        /\ jumped.registers = linked.registers
    BY <1>1, <1>2, <2>4, MoveEffect
  <2> HIDE DEF jumped
  <2>6. /\ FlushPipeline(jumped).pc = jumped.pc
        /\ FlushPipeline(jumped).registers = jumped.registers
    BY <2>5, FlushEffect
  <2>7. /\ after.registers = [k.registers EXCEPT !["ra"] = link]
        /\ after.pc = target
    BY <1>3, <2>1 DEF s, MachineState
  <2> HIDE DEF after, target
  <2> QED
    BY <2>2, <2>4, <2>5, <2>6, <2>7
<1>14. ASSUME i.name = "jalr" PROVE Agrees(Computed(k, i))
  <2>1. after = [set(target) EXCEPT !.pc = target]
    BY <1>3, <1>14 DEF Machine!Effect, Machine!Loads, Machine!Stores
  <2>2. Computed(k, i) = [Move(k, i.imm) EXCEPT !.registers[i.rd] = target]
    BY <1>2, <1>14 DEF Computed, Jalr
  <2>3. target \in Word /\ Wrap(target) = target
    <3>1. k.pc + i.imm \in Int
      BY <1>1, WordAssumption
    <3> QED
      BY <1>2, <3>1, WrapIsWord, WrapOfWord
  <2>4. /\ Move(k, i.imm) \in CoreType /\ Move(k, i.imm).pc = target
        /\ Move(k, i.imm).registers = k.registers
    BY <1>1, <1>2, MoveEffect
  <2> HIDE DEF target
  <2>5. /\ Computed(k, i).registers = [k.registers EXCEPT ![i.rd] = target]
        /\ Computed(k, i).pc = target
    BY <1>1, <2>2, <2>3, <2>4, SetRegister
  <2>6. /\ after.registers = [k.registers EXCEPT ![i.rd] = target]
        /\ after.pc = target
    BY <1>4, <2>1, <2>3 DEF s, set, MachineState
  <2> QED
    BY <2>5, <2>6
<1> QED
  BY <1>6, <1>7, <1>8, <1>9, <1>10, <1>11, <1>12, <1>13, <1>14 DEF Computing

LEMMA BaseAgrees ==
    ASSUME NEW k, NEW i
    PROVE  Machine!Base(MachineState(k), i) = EffectiveAddress(k, i)
  BY DEF Machine!Base, MachineState, EffectiveAddress, Machine!WrapTo, Wrap

LEMMA LoadAgrees ==
    ASSUME NEW k \in CoreType, NEW i \in InstrType, i.name \in Loading,
           memory \in [Address -> Word], EffectiveAddress(k, i) \in Address
    PROVE  LET after == Machine!Effect(MachineState(k), i)
               word == memory[EffectiveAddress(k, i)]
           IN /\ after.pc = k.pc
              /\ after.registers = IF word = UINT32_MAX THEN k.registers
                                   ELSE [k.registers EXCEPT ![i.rd] = word]
<1> DEFINE s == MachineState(k)
           word == memory[EffectiveAddress(k, i)]
           after == Machine!Effect(s, i)
<1>1. s.memory[Machine!Base(s, i)] = word
  BY BaseAgrees DEF MachineState
<1>2. Machine!Pending = UINT32_MAX
  BY WordAssumption DEF Machine!Pending, Modulus
<1>3. Machine!WrapTo(word) = word
  BY WrapOfWord DEF Machine!WrapTo, Wrap
<1> HIDE DEF s
<1>4. after = IF word = UINT32_MAX THEN s
              ELSE [s EXCEPT !.registers[i.rd] = word]
  BY <1>1, <1>2, <1>3 DEF Machine!Effect, Machine!Loads, Machine!Stores, Loading
<1> HIDE DEF word
<1> QED
  BY <1>4 DEF s, word, MachineState

LEMMA StoreAgrees ==
    ASSUME NEW k \in CoreType, NEW i \in InstrType, i.name \in Storing
    PROVE  Machine!Effect(MachineState(k), i).memory =
               [memory EXCEPT ![EffectiveAddress(k, i)] = k.registers[i.rs2]]
<1> DEFINE s == MachineState(k)
           after == Machine!Effect(s, i)
<1>1. s.registers[i.rs2] = k.registers[i.rs2]
  BY DEF MachineState
<1>2. Machine!Base(s, i) = EffectiveAddress(k, i)
  BY BaseAgrees
<1> HIDE DEF s
<1>3. after = [s EXCEPT !.memory[EffectiveAddress(k, i)] = k.registers[i.rs2]]
  BY <1>1, <1>2 DEF Machine!Effect, Machine!Loads, Machine!Stores, Storing
<1> QED
  BY <1>3 DEF s, MachineState

(***************************************************************************)
(* The mapping, and what a change of one core does to it.                  *)
(***************************************************************************)
Line(k) == Occupant(k.Execute) \o Occupant(k.Decode)

regs == [c \in Present |-> cores[c].registers]
next == [c \in Present |-> cores[c].pc]
line == [c \in Present |-> Line(cores[c])]
buffer == [c \in Present |-> Occupant(cores[c].Store)]

pipeVars == <<memory, regs, next, line, buffer>>

LEMMA MappedChange ==
    ASSUME cores \in [Present -> CoreType], NEW c \in Present, NEW l \in CoreType,
           Become(c, l), UNCHANGED binary
    PROVE  /\ regs' = [regs EXCEPT ![c] = l.registers]
           /\ next' = [next EXCEPT ![c] = l.pc]
           /\ line' = [line EXCEPT ![c] = Line(l)]
           /\ buffer' = [buffer EXCEPT ![c] = Occupant(l.Store)]
<1>1. Present' = Present
  BY DEF Present
<1>2. cores' = [cores EXCEPT ![c] = l]
  BY DEF Become
<1> QED
  BY <1>1, <1>2 DEF regs, next, line, buffer, Line, Occupant

\* A core that looks the same from outside.
LEMMA MappedStutter ==
    ASSUME cores \in [Present -> CoreType], NEW c \in Present, NEW l \in CoreType,
           Become(c, l), UNCHANGED <<binary, memory>>,
           l.registers = cores[c].registers, l.pc = cores[c].pc,
           Line(l) = Line(cores[c]), Occupant(l.Store) = Occupant(cores[c].Store)
    PROVE  UNCHANGED pipeVars
<1>1. /\ regs' = [regs EXCEPT ![c] = l.registers]
      /\ next' = [next EXCEPT ![c] = l.pc]
      /\ line' = [line EXCEPT ![c] = Line(l)]
      /\ buffer' = [buffer EXCEPT ![c] = Occupant(l.Store)]
  BY MappedChange
<1>2. /\ l.registers = regs[c] /\ l.pc = next[c]
      /\ Line(l) = line[c] /\ Occupant(l.Store) = buffer[c]
  BY DEF regs, next, line, buffer
<1>3. regs' = regs
  BY <1>1, <1>2 DEF regs
<1>4. next' = next
  BY <1>1, <1>2 DEF next
<1>5. line' = line
  BY <1>1, <1>2 DEF line
<1>6. buffer' = buffer
  BY <1>1, <1>2 DEF buffer
<1> QED
  BY <1>3, <1>4, <1>5, <1>6 DEF pipeVars

LEMMA SameCores ==
    ASSUME UNCHANGED <<binary, cores, memory>>
    PROVE  UNCHANGED pipeVars
  BY DEF pipeVars, regs, next, line, buffer, Present

(***************************************************************************)
(* Lines of words.                                                         *)
(***************************************************************************)
LEMMA OccupantIs ==
    ASSUME NEW instr \in InstructionType
    PROVE  /\ instr = NoInstruction => Occupant(instr) = <<>>
           /\ instr # NoInstruction =>
                  /\ Occupant(instr) = <<instr.binary>>
                  /\ instr.binary \in Word
                  /\ Occupant(instr) # <<>>
                  /\ Head(Occupant(instr)) = instr.binary
  BY DEF Occupant, InstructionType

LEMMA LineIs ==
    ASSUME NEW k \in CoreType
    PROVE  /\ k.Execute # NoInstruction =>
                  /\ Line(k) # <<>>
                  /\ Head(Line(k)) = k.Execute.binary
                  /\ Tail(Line(k)) = Occupant(k.Decode)
           /\ k.Execute = NoInstruction => Line(k) = Occupant(k.Decode)
           /\ k.Decode = NoInstruction =>
                  /\ Line(k) = Occupant(k.Execute)
                  /\ Len(Line(k)) < 2
                  /\ \A w \in Word : Append(Line(k), w) = Occupant(k.Execute) \o <<w>>
<1>1. k.Execute \in InstructionType /\ k.Decode \in InstructionType
  BY DEF CoreType
<1> DEFINE e == Occupant(k.Execute)
           d == Occupant(k.Decode)
<1>2. /\ k.Execute = NoInstruction => e = <<>>
      /\ k.Execute # NoInstruction => e = <<k.Execute.binary>> /\ k.Execute.binary \in Word
      /\ k.Decode = NoInstruction => d = <<>>
      /\ k.Decode # NoInstruction => d = <<k.Decode.binary>> /\ k.Decode.binary \in Word
  BY <1>1, OccupantIs
<1> HIDE DEF e, d
<1>3. /\ e \in Seq(Word) /\ d \in Seq(Word)
      /\ Len(e) < 2
  <2>1. <<>> \in Seq(Word) /\ Len(<<>>) = 0
    OBVIOUS
  <2>2. \A w \in Word : <<w>> \in Seq(Word) /\ Len(<<w>>) = 1
    OBVIOUS
  <2>3. e \in Seq(Word) /\ d \in Seq(Word)
    BY <1>2, <2>1, <2>2
  <2>4. Len(e) \in {0, 1}
    BY <1>2, <2>1, <2>2, Zenon
  <2> QED
    BY <2>3, <2>4
<1>4. Line(k) = e \o d
  BY DEF Line, e, d
<1>5. ASSUME k.Execute # NoInstruction
      PROVE  /\ Line(k) # <<>>
             /\ Head(Line(k)) = k.Execute.binary
             /\ Tail(Line(k)) = d
  <2>1. \A w \in Word : /\ <<w>> \o d # <<>>
                        /\ Head(<<w>> \o d) = w
                        /\ Tail(<<w>> \o d) = d
    BY <1>3
  <2> QED
    BY <1>2, <1>4, <1>5, <2>1
<1>6. k.Execute = NoInstruction => Line(k) = d
  BY <1>2, <1>3, <1>4
<1>7. k.Decode = NoInstruction => Line(k) = e
  BY <1>2, <1>3, <1>4
<1>8. k.Decode = NoInstruction => \A w \in Word : Append(Line(k), w) = e \o <<w>>
  BY <1>3, <1>7
<1> QED
  BY <1>3, <1>5, <1>6, <1>7, <1>8 DEF d, e

(***************************************************************************)
(* store(): the store in the buffer waits, or is performed.                *)
(***************************************************************************)
LEMMA MachineStateIs ==
    ASSUME NEW c \in Present
    PROVE  /\ Machine!State(c) = MachineState(cores[c])
           /\ Machine!First(c) = DecodeInstruction(Head(line[c]))
           /\ Machine!PutAside(c) = DecodeInstruction(Head(buffer[c]))
           /\ line[c] = Line(cores[c])
           /\ buffer[c] = Occupant(cores[c].Store)
           /\ DOMAIN line = Present
  BY DEF Machine!State, Machine!First, Machine!PutAside, MachineState, line, buffer, Line

\* A store that waits keeps its base register and its address to itself.
LEMMA PendingStands ==
    ASSUME MembusTypeOK, NEW c \in CoreId, NEW k \in CoreType, StorePending(c, k),
           NEW l, l = [k EXCEPT !.hold_registers[StoreBase(k)] = TRUE]
    PROVE  /\ l.hold_registers[StoreBase(l)]
           /\ StoreAddress(l) \in Address
           /\ \/ HeldByOther(c, StoreAddress(l)) /\ UNCHANGED addressInUse
              \/ addressDelays'[StoreAddress(l)].store > 0
           /\ memory' = memory
<1> DEFINE a == StoreAddress(k)
<1>1. k.Store # NoInstruction /\ CallWrite(c, k)
  BY DEF StorePending, CallWrite
<1>2. StoreBase(k) \in Reg /\ a \in Address
  BY <1>1, StoreOperands DEF CallWrite, WriteFaults, Fault
<1>3. l.Store = k.Store /\ l.registers = k.registers /\ l.hold_registers[StoreBase(k)]
  BY <1>2 DEF CoreType
<1>4. StoreBase(l) = StoreBase(k) /\ StoreAddress(l) = a
  BY <1>3 DEF StoreBase, StoreAddress, EffectiveAddress
<1> HIDE DEF a
<1>5. MembusWrite(c, a, StoreValue(k), 0)
  BY <1>1 DEF CallWrite, a
<1>6. CASE HeldByOther(c, a)
  <2>1. UNCHANGED busVars
    BY <1>5, <1>6 DEF MembusWrite
  <2> QED
    BY <1>2, <1>3, <1>4, <1>6, <2>1 DEF busVars
<1>7. CASE ~HeldByOther(c, a)
  <2>1. addressDelays[a] \in Delays
    BY <1>2 DEF MembusTypeOK, RamTypeOK, Delays
  <2>2. ~WriteCompletes(addressDelays[a])
    BY <1>7, WordAssumption
       DEF StorePending, a, MembusWriteResult, RamWriteResult
  <2>3. StoreDelayAfterWrite(addressDelays[a], 0) > 0
    BY <2>1, <2>2, PendingAfterWrite
  <2>4. /\ addressDelays' = [addressDelays EXCEPT ![a].store =
                                StoreDelayAfterWrite(addressDelays[a], 0)]
        /\ memory' = memory
    BY <1>2, <1>5, <1>7, <2>2, WriteEffect
  <2>5. addressDelays'[a].store = StoreDelayAfterWrite(addressDelays[a], 0)
    BY <1>2, <2>4 DEF MembusTypeOK, RamTypeOK
  <2> QED
    BY <1>2, <1>3, <1>4, <2>3, <2>4, <2>5
<1> QED
  BY <1>6, <1>7

LEMMA StoreRefines ==
    ASSUME SimInv, PipelineInv, NEW c \in Present, c \in CoreId, Store(c),
           UNCHANGED binary
    PROVE  /\ UNCHANGED pipeVars \/ Machine!Drain(c)
           /\ StoreStands(c, cores[c])'
           /\ cores'[c].Store \in {cores[c].Store, NoInstruction}
<1> DEFINE k == cores[c]
<1>1. /\ cores \in [Present -> CoreType] /\ k \in CoreType
      /\ MembusTypeOK
  BY DEF SimInv, SimTypeOK
<1>2. CASE StoreIdle(k)
  BY <1>2, SameCores DEF StoreIdle, coreVars, StoreStands
<1>3. CASE StorePending(c, k)
  <2> DEFINE l == [k EXCEPT !.hold_registers[StoreBase(k)] = TRUE]
  <2>1. k.Store # NoInstruction /\ HoldMatches(k) /\ Become(c, l)
    BY <1>3 DEF StorePending, CallWrite, SimInv, HoldMatchesStore
  <2>2. l \in CoreType /\ AroundStore(k, l) /\ l.Store = k.Store
    BY <1>1, <2>1, HoldEffect
  <2>3. /\ l.hold_registers[StoreBase(l)]
        /\ StoreAddress(l) \in Address
        /\ \/ HeldByOther(c, StoreAddress(l)) /\ UNCHANGED addressInUse
           \/ addressDelays'[StoreAddress(l)].store > 0
        /\ memory' = memory
    BY <1>1, <1>3, PendingStands
  <2> HIDE DEF l
  <2>4. cores'[c] = l
    BY <1>1, <2>1, <2>2, BecomeEffect
  <2>5. UNCHANGED pipeVars
    BY <1>1, <2>1, <2>2, <2>3, MappedStutter DEF AroundStore, Line
  <2>6. StoreStands(c, cores[c])'
    BY <2>3, <2>4 DEF StoreStands, StoreBase, StoreAddress, EffectiveAddress,
                      HeldByOther, InUse
  <2> QED
    BY <2>2, <2>4, <2>5, <2>6
<1>4. CASE StoreCompletes(c, k)
  <2> DEFINE l == [k EXCEPT !.hold_registers[StoreBase(k)] = FALSE,
                            !.Store = NoInstruction]
             a == StoreAddress(k)
  <2>1. /\ k.Store # NoInstruction /\ HoldMatches(k) /\ Become(c, l)
        /\ CallWrite(c, k)
    BY <1>4 DEF StoreCompletes, CallWrite, SimInv, HoldMatchesStore
  <2>2. l \in CoreType /\ AroundStore(k, l) /\ l.Store = NoInstruction
    BY <1>1, <2>1, HoldEffect
  <2> HIDE DEF l
  <2>3. cores'[c] = l
    BY <1>1, <2>1, <2>2, BecomeEffect
  <2>4. a \in Address /\ MembusWrite(c, a, StoreValue(k), 0)
    BY <2>1 DEF CallWrite, WriteFaults, Fault
  <2>5. ~HeldByOther(c, a) /\ WriteCompletes(addressDelays[a])
    BY <1>4 DEF StoreCompletes, MembusWriteResult, BlockedWrite, RamWriteResult
  <2>6. memory' = [memory EXCEPT ![a] = StoreValue(k)]
    BY <2>4, <2>5, WriteEffect
  <2> DEFINE i == Operands(k.Store)
  <2>7. i \in InstrType /\ i.name \in Storing
    BY <1>1, <2>1, OperandsType DEF CoreType, PipelineInv
  <2>8. /\ buffer[c] # <<>> /\ Machine!PutAside(c) = i
        /\ Machine!State(c) = MachineState(k)
    BY <1>1, <2>1, OccupantIs, MachineStateIs DEF CoreType, Operands
  <2>9. Machine!Base(Machine!State(c), Machine!PutAside(c)) \in DOMAIN memory
    BY <1>1, <2>4, <2>8, BaseAgrees DEF StoreAddress, MembusTypeOK, RamTypeOK
  <2>10. memory' = Machine!Effect(Machine!State(c), Machine!PutAside(c)).memory
    BY <1>1, <2>6, <2>7, <2>8, StoreAgrees DEF StoreAddress, StoreValue
  <2>11. /\ regs' = [regs EXCEPT ![c] = l.registers]
         /\ next' = [next EXCEPT ![c] = l.pc]
         /\ line' = [line EXCEPT ![c] = Line(l)]
         /\ buffer' = [buffer EXCEPT ![c] = <<>>]
    BY <1>1, <2>1, <2>2, MappedChange, OccupantIs, NoInstructionType
  <2>12. UNCHANGED <<regs, next, line>>
    <3>1. l.registers = regs[c] /\ l.pc = next[c] /\ Line(l) = line[c]
      BY <2>2 DEF AroundStore, regs, next, line, Line
    <3>2. regs' = regs
      BY <2>11, <3>1 DEF regs
    <3>3. next' = next
      BY <2>11, <3>1 DEF next
    <3>4. line' = line
      BY <2>11, <3>1 DEF line
    <3> QED
      BY <3>2, <3>3, <3>4
  <2>13. Machine!Drain(c)
    BY <2>8, <2>9, <2>10, <2>11, <2>12 DEF Machine!Drain, regs, next, line, buffer, Line
  <2>14. StoreStands(c, cores[c])'
    BY <2>2, <2>3 DEF StoreStands
  <2> QED
    BY <2>2, <2>3, <2>13, <2>14
<1> QED
  BY <1>2, <1>3, <1>4 DEF Store

(***************************************************************************)
(* execute(): the first instruction in line waits, is performed, or is put *)
(* aside.                                                                  *)
(***************************************************************************)
LEMMA WaitsStutters ==
    ASSUME cores \in [Present -> CoreType], NEW c \in Present, NEW l \in CoreType,
           Become(c, l), UNCHANGED <<binary, memory>>, Waits(cores[c], l)
    PROVE  UNCHANGED pipeVars
<1> DEFINE k == cores[c]
<1>1. k \in CoreType
  OBVIOUS
<1>2. Occupant(k.Execute) = <<k.Execute.binary>> /\ Occupant(l.Execute) = <<l.Execute.binary>>
  BY <1>1, OccupantIs DEF CoreType, Waits, SameInstruction
<1>3. Line(l) = Line(k)
  BY <1>2 DEF Line, Waits, SameInstruction
<1> QED
  BY <1>3, MappedStutter DEF Waits, SameInstruction

LEMMA FirstInLine ==
    ASSUME cores \in [Present -> CoreType], NEW c \in Present,
           cores[c].Execute # NoInstruction
    PROVE  /\ line[c] # <<>>
           /\ Head(line[c]) = cores[c].Execute.binary
           /\ Tail(line[c]) = Occupant(cores[c].Decode)
           /\ Machine!First(c) = Operands(cores[c].Execute)
           /\ Operands(cores[c].Execute) \in InstrType
  BY LineIs, MachineStateIs, OperandsType DEF Operands, CoreType

LEMMA PerformStep ==
    ASSUME cores \in [Present -> CoreType], NEW c \in Present, NEW l \in CoreType,
           Become(c, l), UNCHANGED <<binary, memory>>, cores[c].Execute # NoInstruction,
           l.Store = cores[c].Store, l.Execute = NoInstruction,
           LET i == Operands(cores[c].Execute)
               after == Machine!Effect(MachineState(cores[c]), i)
               jumps == i.name = "jal" /\ i.imm # 0
           IN /\ l.registers = after.registers /\ l.pc = after.pc
              /\ l.Decode = IF jumps THEN NoInstruction ELSE cores[c].Decode
    PROVE  Machine!Perform(c)
<1> DEFINE k == cores[c]
           i == Operands(k.Execute)
           after == Machine!Effect(Machine!State(c), i)
           jumps == i.name = "jal" /\ i.imm # 0
<1>1. /\ regs' = [regs EXCEPT ![c] = l.registers]
      /\ next' = [next EXCEPT ![c] = l.pc]
      /\ line' = [line EXCEPT ![c] = Line(l)]
      /\ buffer' = [buffer EXCEPT ![c] = Occupant(l.Store)]
  BY MappedChange
<1>2. Machine!First(c) = i /\ Machine!State(c) = MachineState(k)
      /\ Tail(line[c]) = Occupant(k.Decode)
  BY FirstInLine, MachineStateIs
<1>3. Line(l) = IF jumps THEN <<>> ELSE Tail(line[c])
  BY <1>2, LineIs, OccupantIs, NoInstructionType DEF CoreType
<1>4. buffer' = buffer
  <2>1. Occupant(l.Store) = buffer[c]
    BY DEF buffer
  <2> QED
    BY <1>1, <2>1 DEF buffer
<1>5. l.registers = after.registers /\ l.pc = after.pc
  BY <1>2
<1> HIDE DEF i, after
<1> QED
  BY <1>1, <1>2, <1>3, <1>4, <1>5
     DEF Machine!Perform, regs, next, line, buffer, Line, after, i

\* An answered load has no store of its core to its address, or with its
\* destination as base, before it.
LEMMA AnsweredMayLoad ==
    ASSUME cores \in [Present -> CoreType], MembusTypeOK,
           NEW c \in Present, StoreStands(c, cores[c]),
           CallRead(c, cores[c]), ~LoadHeld(cores[c]),
           ~HeldByOther(c, LoadAddress(cores[c])),
           ReadCompletes(addressDelays[LoadAddress(cores[c])])
    PROVE  Machine!MayLoad(c)
<1> DEFINE k == cores[c]
           i == Operands(k.Execute)
           j == Operands(k.Store)
<1>1. k.Execute # NoInstruction /\ LoadAddress(k) \in Address
  BY DEF CallRead, Executing, Ready, ReadFaults, Fault
<1>2. Machine!First(c) = i /\ Machine!State(c) = MachineState(k)
  BY <1>1, FirstInLine, MachineStateIs
<1>3. Machine!Base(Machine!State(c), i) = LoadAddress(k)
  BY <1>2, BaseAgrees DEF LoadAddress
<1>4. DOMAIN memory = Address
  BY DEF MembusTypeOK, RamTypeOK
<1>5. ASSUME buffer[c] # <<>>
      PROVE  /\ Machine!PutAside(c) = j
             /\ Machine!Base(Machine!State(c), j) = StoreAddress(k)
             /\ k.Store # NoInstruction
  BY <1>2, <1>5, MachineStateIs, OccupantIs, BaseAgrees
     DEF CoreType, Operands, StoreAddress
<1>6. ASSUME k.Store # NoInstruction
      PROVE  j.rs1 # i.rd /\ StoreAddress(k) # LoadAddress(k)
  BY <1>6 DEF StoreStands, LoadHeld, StoreBase, ReadCompletes
<1> HIDE DEF i, j
<1> QED
  BY <1>1, <1>2, <1>3, <1>4, <1>5, <1>6, Zenon DEF Machine!MayLoad, buffer

LEMMA ComputeRefines ==
    ASSUME cores \in [Present -> CoreType], NEW c \in Present,
           Compute(c, cores[c]), UNCHANGED binary
    PROVE  Machine!Work(c)
<1> DEFINE k == cores[c]
           i == Operands(k.Execute)
           m == Computed(k, i)
           l == Retire(m)
<1>1. /\ k \in CoreType /\ k.Execute # NoInstruction
      /\ i.name \in Computing /\ ~(i.name = "auipc" /\ AuipcFaults(i))
      /\ Become(c, l) /\ UNCHANGED memory
  BY DEF Compute, Executing, Ready, busVars
<1>2. /\ line[c] # <<>> /\ Machine!First(c) = i /\ i \in InstrType
  BY <1>1, FirstInLine
<1>3. /\ m \in CoreType /\ SameFrame(k, m)
      /\ m.Decode = IF i.name = "jal" /\ i.imm # 0 THEN NoInstruction ELSE k.Decode
  BY <1>1, <1>2, FloatsYieldWords, ComputedEffect
<1>4. LET after == Machine!Effect(MachineState(k), i) IN
      m.registers = after.registers /\ m.pc = after.pc
  BY <1>1, <1>2, ComputedAgrees
<1> HIDE DEF m
<1>5. /\ l \in CoreType /\ l.Execute = NoInstruction
      /\ l.Store = m.Store /\ l.Decode = m.Decode
      /\ l.registers = m.registers /\ l.pc = m.pc
  BY <1>3, NoInstructionType DEF Retire, CoreType
<1> HIDE DEF l
<1>6. Machine!Perform(c)
  BY <1>1, <1>3, <1>4, <1>5, PerformStep DEF SameFrame
<1> QED
  BY <1>1, <1>2, <1>6 DEF Machine!Work, Machine!Others, Computing, line, Line

LEMMA LoadRefines ==
    ASSUME SimInv, NEW c \in Present, c \in CoreId, StoreStands(c, cores[c]),
           Load(c, cores[c]), UNCHANGED binary
    PROVE  UNCHANGED pipeVars \/ Machine!Work(c)
<1> DEFINE k == cores[c]
           i == Operands(k.Execute)
           a == LoadAddress(k)
           result == LoadResult(c, k)
<1>1. /\ cores \in [Present -> CoreType] /\ k \in CoreType /\ MembusTypeOK
      /\ memory \in [Address -> Word]
  BY DEF SimInv, SimTypeOK, MembusTypeOK, RamTypeOK
<1>2. CallRead(c, k)
  BY DEF Load, LoadHolds, LoadDelivers, LoadBlocked, LoadWaits, LoadFallsThrough
<1>3. /\ k.Execute # NoInstruction /\ i.name \in Loading /\ a \in Address
      /\ MembusRead(c, a)
  BY <1>2 DEF CallRead, Executing, Ready, ReadFaults, Fault
<1>4. /\ line[c] # <<>> /\ Machine!First(c) = i /\ i \in InstrType
      /\ Machine!State(c) = MachineState(k)
  BY <1>1, <1>3, FirstInLine, MachineStateIs
<1>5. UNCHANGED memory
  BY <1>3, ReadEffect
<1>6. Started(k) \in CoreType /\ Waits(k, Started(k))
  BY <1>1, <1>3, StartedEffect
<1>7. memory[a] \in Word
  BY <1>1, <1>3
<1>8. /\ HeldByOther(c, a) => result.value = UINT32_MAX - 1
      /\ ~HeldByOther(c, a) =>
             /\ result.value = IF ReadCompletes(addressDelays[a]) THEN memory[a]
                               ELSE UINT32_MAX
             /\ result.store = addressDelays[a].store
             /\ result.load = LoadDelayAfterRead(addressDelays[a])
  BY DEF LoadResult, MembusReadResult, BlockedRead, RamReadResult
<1>9. UINT32_MAX # UINT32_MAX - 1 /\ UINT32_MAX - 1 \in Word /\ UINT32_MAX \in Word
  BY WordAssumption
<1> HIDE DEF result
<1>10. LET after == Machine!Effect(MachineState(k), i) IN
       /\ after.pc = k.pc
       /\ after.registers = IF memory[a] = UINT32_MAX THEN k.registers
                            ELSE [k.registers EXCEPT ![i.rd] = memory[a]]
  BY <1>1, <1>3, <1>4, LoadAgrees DEF LoadAddress
<1>11. i.name \in Machine!Loads /\ ~(i.name = "jal" /\ i.imm # 0)
  BY <1>3 DEF Machine!Loads, Loading
<1> HIDE DEF a, i
<1>12. CASE LoadHolds(c, k)
  BY <1>1, <1>5, <1>6, <1>12, WaitsStutters DEF LoadHolds
<1>13. CASE LoadWaits(c, k)
  BY <1>1, <1>5, <1>13, LoadWaitsEffect, WaitsStutters DEF LoadWaits
<1>14. ASSUME NEW m \in CoreType, Become(c, Retire(m)), SameFrame(k, m),
              m.Decode = k.Decode, m.pc = k.pc,
              m.registers = IF memory[a] = UINT32_MAX THEN k.registers
                            ELSE [k.registers EXCEPT ![i.rd] = memory[a]],
              ~LoadHeld(k), ~HeldByOther(c, a), ReadCompletes(addressDelays[a])
       PROVE  Machine!Work(c)
  <2> DEFINE l == Retire(m)
  <2>1. /\ l \in CoreType /\ l.Execute = NoInstruction
        /\ l.Store = m.Store /\ l.Decode = m.Decode
        /\ l.registers = m.registers /\ l.pc = m.pc
    BY NoInstructionType DEF Retire, CoreType
  <2> HIDE DEF l
  <2>2. Machine!Perform(c)
    BY <1>1, <1>3, <1>5, <1>10, <1>11, <1>14, <2>1, PerformStep DEF SameFrame, i, l
  <2>3. Machine!MayLoad(c)
    BY <1>1, <1>2, <1>14, AnsweredMayLoad DEF a
  <2> QED
    BY <1>4, <1>11, <2>2, <2>3 DEF Machine!Work, line, Line
<1>15. CASE LoadDelivers(c, k)
  <2> DEFINE m == [k EXCEPT !.registers[i.rd] = result.value]
  <2>1. /\ result.value \notin {UINT32_MAX, UINT32_MAX - 1}
        /\ ~LoadHeld(k) /\ Become(c, Retire(m))
    BY <1>15 DEF LoadDelivers, result, i
  <2>2. /\ ~HeldByOther(c, a) /\ ReadCompletes(addressDelays[a])
        /\ result.value = memory[a]
    BY <1>8, <2>1
  <2>3. /\ m \in CoreType /\ SameFrame(k, m)
        /\ m.registers = [k.registers EXCEPT ![i.rd] = memory[a]]
        /\ m.pc = k.pc /\ m.Decode = k.Decode
    BY <1>1, <1>4, <1>7, <2>2, SetRegister DEF InstrType
  <2> HIDE DEF m
  <2> QED
    BY <1>14, <2>1, <2>2, <2>3
<1>16. CASE LoadFallsThrough(c, k)
  <2>1. /\ result = [value |-> UINT32_MAX, store |-> 0, load |-> 0]
        /\ ~LoadHeld(k) /\ Become(c, Retire(k))
    BY <1>16 DEF LoadFallsThrough, result
  <2>2. ~HeldByOther(c, a)
    BY <1>8, <1>9, <2>1
  <2>3. addressDelays[a] \in Delays
    BY <1>1, <1>3 DEF MembusTypeOK, RamTypeOK, Delays, a
  <2>4. ReadCompletes(addressDelays[a])
    BY <1>8, <2>1, <2>2, <2>3, PendingAfterRead
  <2>5. memory[a] = UINT32_MAX
    BY <1>8, <2>1, <2>2, <2>4
  <2> QED
    BY <1>1, <1>14, <2>1, <2>2, <2>4, <2>5 DEF SameFrame
<1>17. CASE LoadBlocked(c, k)
  <2> DEFINE l == [Started(k) EXCEPT !.registers[i.rd] = UINT32_MAX - 1]
             s == Started(k)
  <2>1. ~LoadHeld(k) /\ Become(c, l)
    BY <1>17 DEF LoadBlocked, result, i
  <2> HIDE DEF s
  <2>2. /\ l \in CoreType /\ SameFrame(Started(k), l)
        /\ l.registers = [Started(k).registers EXCEPT ![i.rd] = UINT32_MAX - 1]
        /\ l.pc = Started(k).pc /\ l.Decode = Started(k).Decode
    BY <1>4, <1>6, <1>9, SetRegister DEF InstrType
  <2> HIDE DEF l
  <2>3. Occupant(l.Execute) = Occupant(k.Execute)
    BY <1>1, <1>3, <1>6, <2>2, OccupantIs DEF SameFrame, Waits, SameInstruction, CoreType
  <2>4. /\ regs' = [regs EXCEPT ![c] = l.registers]
        /\ next' = [next EXCEPT ![c] = l.pc]
        /\ line' = [line EXCEPT ![c] = Line(l)]
        /\ buffer' = [buffer EXCEPT ![c] = Occupant(l.Store)]
    BY <1>1, <2>1, <2>2, MappedChange
  <2>5. /\ l.pc = next[c] /\ Line(l) = line[c] /\ Occupant(l.Store) = buffer[c]
        /\ l.registers = [regs[c] EXCEPT ![i.rd] = UINT32_MAX - 1]
    BY <1>6, <2>2, <2>3 DEF SameFrame, Waits, SameInstruction, next, line, buffer, regs, Line
  <2>6. next' = next
    BY <2>4, <2>5 DEF next
  <2>7. line' = line
    BY <2>4, <2>5 DEF line
  <2>8. buffer' = buffer
    BY <2>4, <2>5 DEF buffer
  <2>9. regs' = [regs EXCEPT ![c][i.rd] = UINT32_MAX - 1]
    BY <2>4, <2>5
  <2>10. ASSUME buffer[c] # <<>>
         PROVE  Machine!PutAside(c).rs1 # i.rd
    <3>1. k.Store # NoInstruction /\ Machine!PutAside(c) = Operands(k.Store)
      BY <1>1, <2>10, MachineStateIs, OccupantIs DEF CoreType, Operands
    <3>2. k.hold_registers[Operands(k.Store).rs1]
      BY <3>1 DEF StoreStands, StoreBase
    <3> QED
      BY <2>1, <3>1, <3>2 DEF LoadHeld, i
  <2>11. Machine!TurnedAway = UINT32_MAX - 1
    BY WordAssumption DEF Machine!TurnedAway, Modulus
  <2>12. Machine!Spoil(c)
    BY <1>4, <1>5, <2>6, <2>7, <2>8, <2>9, <2>10, <2>11
       DEF Machine!Spoil, regs, next, line, buffer, Line
  <2> QED
    BY <1>4, <1>11, <2>12 DEF Machine!Work, line, Line
<1> QED
  BY <1>12, <1>13, <1>15, <1>16, <1>17 DEF Load

LEMMA SendRefines ==
    ASSUME cores \in [Present -> CoreType], NEW c \in Present,
           SendToStore(c, cores[c]), UNCHANGED binary
    PROVE  /\ UNCHANGED pipeVars \/ Machine!Work(c)
           /\ cores'[c].Store # NoInstruction =>
                  \/ cores'[c].Store = cores[c].Store
                  \/ Operands(cores'[c].Store).name \in Storing
<1> DEFINE k == cores[c]
           i == Operands(k.Execute)
           s == Started(k)
           l == [s EXCEPT !.Store = s.Execute, !.Execute = NoInstruction]
<1>1. /\ k \in CoreType /\ k.Execute # NoInstruction /\ i.name \in Storing
      /\ UNCHANGED memory
      /\ Become(c, IF k.Store = NoInstruction THEN l ELSE s)
  BY DEF SendToStore, Executing, Ready, busVars
<1>2. s \in CoreType /\ Waits(k, s)
  BY <1>1, StartedEffect
<1>3. /\ line[c] # <<>> /\ Head(line[c]) = k.Execute.binary
      /\ Tail(line[c]) = Occupant(k.Decode)
      /\ Machine!First(c) = i
  BY <1>1, FirstInLine
<1> HIDE DEF i, s
<1>4. CASE k.Store # NoInstruction
  <2>1. Become(c, s)
    BY <1>1, <1>4
  <2>2. cores'[c] = s
    BY <1>2, <2>1, BecomeEffect
  <2> QED
    BY <1>1, <1>2, <2>1, <2>2, WaitsStutters DEF Waits, SameInstruction
<1>5. CASE k.Store = NoInstruction
  <2>1. Become(c, l)
    BY <1>1, <1>5
  <2>2. /\ l \in CoreType /\ l.Store = s.Execute /\ l.Execute = NoInstruction
        /\ l.registers = k.registers /\ l.pc = k.pc /\ l.Decode = k.Decode
    BY <1>2, NoInstructionType DEF CoreType, Waits, SameInstruction
  <2> HIDE DEF l
  <2>3. cores'[c] = l
    BY <2>1, <2>2, BecomeEffect
  <2>4. Operands(l.Store) = i
    BY <1>2, <2>2 DEF Operands, Waits, SameInstruction, i
  <2>5. Occupant(l.Store) = <<Head(line[c])>>
    BY <1>2, <1>3, <2>2, OccupantIs DEF CoreType, Waits, SameInstruction
  <2>6. Line(l) = Tail(line[c])
    BY <1>3, <2>2, LineIs
  <2>7. /\ regs' = [regs EXCEPT ![c] = l.registers]
        /\ next' = [next EXCEPT ![c] = l.pc]
        /\ line' = [line EXCEPT ![c] = Line(l)]
        /\ buffer' = [buffer EXCEPT ![c] = Occupant(l.Store)]
    BY <2>1, <2>2, MappedChange
  <2>8. regs' = regs /\ next' = next
    <3>1. l.registers = regs[c] /\ l.pc = next[c]
      BY <2>2 DEF regs, next
    <3>2. regs' = regs
      BY <2>7, <3>1 DEF regs
    <3>3. next' = next
      BY <2>7, <3>1 DEF next
    <3> QED
      BY <3>2, <3>3
  <2>9. buffer[c] = <<>>
    BY <1>1, <1>5, OccupantIs DEF buffer, CoreType
  <2>10. Machine!Defer(c)
    BY <1>1, <2>5, <2>6, <2>7, <2>8, <2>9
       DEF Machine!Defer, regs, next, line, buffer, Line
  <2>11. i.name \in Machine!Stores
    BY <1>1 DEF Machine!Stores, Storing
  <2> QED
    BY <1>1, <1>3, <2>3, <2>4, <2>10, <2>11 DEF Machine!Work, line, Line
<1> QED
  BY <1>4, <1>5

LEMMA ExecuteRefines ==
    ASSUME SimInv, NEW c \in Present, c \in CoreId, StoreStands(c, cores[c]),
           Execute(c), UNCHANGED binary
    PROVE  /\ UNCHANGED pipeVars \/ Machine!Work(c)
           /\ cores'[c].Store # NoInstruction =>
                  \/ cores'[c].Store = cores[c].Store
                  \/ Operands(cores'[c].Store).name \in Storing
<1> DEFINE k == cores[c]
<1>1. cores \in [Present -> CoreType] /\ k \in CoreType /\ MembusTypeOK
  BY DEF SimInv, SimTypeOK
<1>2. CASE ExecuteIdle(k)
  BY <1>2, SameCores DEF ExecuteIdle, coreVars
<1>3. CASE StartDelay(c, k) \/ CountDown(c, k) \/ Unsupported(c, k)
  <2>1. PICK l \in CoreType : Become(c, l) /\ Waits(k, l)
    BY <1>1, <1>3, DelayEffect, StartedEffect DEF Unsupported, Ready
  <2>2. UNCHANGED memory
    BY <1>3 DEF StartDelay, CountDown, Unsupported, busVars
  <2>3. cores'[c] = l
    BY <1>1, <2>1, BecomeEffect
  <2> QED
    BY <1>1, <2>1, <2>2, <2>3, WaitsStutters DEF Waits, SameInstruction
<1>4. CASE Compute(c, k)
  <2>1. Machine!Work(c)
    BY <1>1, <1>4, ComputeRefines
  <2>2. PICK l \in CoreType : Become(c, l) /\ l.Store = k.Store
    <3> DEFINE i == Operands(k.Execute)
               m == Computed(k, i)
    <3>1. i \in InstrType
      BY <1>1, <1>4, OperandsType DEF Compute, Executing, Ready, CoreType
    <3>2. m \in CoreType /\ m.Store = k.Store
      BY <1>1, <1>4, <3>1, FloatsYieldWords, ComputedEffect
         DEF Compute, Executing, SameFrame
    <3>3. Become(c, Retire(m))
      BY <1>4 DEF Compute
    <3> HIDE DEF m
    <3> QED
      BY <3>2, <3>3, RetireEffect
  <2> QED
    BY <1>1, <2>1, <2>2, BecomeEffect
<1>5. CASE Load(c, k)
  <2>1. UNCHANGED pipeVars \/ Machine!Work(c)
    BY <1>5, LoadRefines
  <2>2. PICK l \in CoreType : Become(c, l) /\ l.Store = k.Store
    BY <1>1, <1>5, LoadEffect
  <2> QED
    BY <1>1, <2>1, <2>2, BecomeEffect
<1>6. CASE SendToStore(c, k)
  BY <1>1, <1>6, SendRefines
<1> QED
  BY <1>2, <1>3, <1>4, <1>5, <1>6 DEF Execute

(***************************************************************************)
(* decode() moves the last word in line up; fetch() appends one.           *)
(***************************************************************************)
LEMMA DecodeRefines ==
    ASSUME cores \in [Present -> CoreType], NEW c \in Present,
           Decode(c), UNCHANGED binary
    PROVE  UNCHANGED pipeVars
<1> DEFINE k == cores[c]
           l == [k EXCEPT !.Decode = NoInstruction, !.Execute = k.Decode]
<1>1. k \in CoreType /\ UNCHANGED memory
  BY DEF Decode, busVars
<1>2. CASE CanMoveToExecute(k)
  <2>1. Become(c, l) /\ k.Execute = NoInstruction
    BY <1>2 DEF Decode, CanMoveToExecute
  <2>2. /\ l \in CoreType /\ l.Decode = NoInstruction /\ l.Execute = k.Decode
        /\ l.registers = k.registers /\ l.pc = k.pc /\ l.Store = k.Store
    BY <1>1, NoInstructionType DEF CoreType
  <2> HIDE DEF l
  <2>3. Line(l) = Line(k)
    BY <1>1, <2>1, <2>2, LineIs
  <2> QED
    BY <1>1, <2>1, <2>2, <2>3, MappedStutter
<1>3. CASE ~CanMoveToExecute(k)
  BY <1>1, <1>3, MappedStutter DEF Decode
<1> QED
  BY <1>2, <1>3

LEMMA FetchRefines ==
    ASSUME SimInv, NEW c \in Present, c \in CoreId, Fetch(c), UNCHANGED binary
    PROVE  UNCHANGED pipeVars \/ Machine!Enter(c)
<1> DEFINE k == cores[c]
           value == MembusReadResult(c, k.pc).value
<1>1. cores \in [Present -> CoreType] /\ k \in CoreType /\ MembusTypeOK
  BY DEF SimInv, SimTypeOK
<1>2. CASE FetchStalls(k)
  BY <1>2, SameCores DEF FetchStalls, coreVars
<1>3. CASE FetchEnds(c, k)
  <2> DEFINE l == [k EXCEPT !.fetching_active = FALSE, !.Fetch = FALSE, !.halt = TRUE]
  <2>1. Become(c, l) /\ UNCHANGED memory
    BY <1>3 DEF FetchEnds, busVars
  <2>2. /\ l \in CoreType /\ Line(l) = Line(k)
        /\ l.registers = k.registers /\ l.pc = k.pc /\ l.Store = k.Store
    BY <1>1 DEF CoreType, Line
  <2> HIDE DEF l
  <2> QED
    BY <1>1, <2>1, <2>2, MappedStutter
<1>4. CASE FetchWaits(c, k)
  <2> DEFINE l == [k EXCEPT !.fetching_active = TRUE]
  <2>1. Become(c, l) /\ UNCHANGED memory
    BY <1>4, ReadEffect DEF FetchWaits, CanFetch, ReadFaults, Fault
  <2>2. /\ l \in CoreType /\ Line(l) = Line(k)
        /\ l.registers = k.registers /\ l.pc = k.pc /\ l.Store = k.Store
    BY <1>1 DEF CoreType, Line
  <2> HIDE DEF l
  <2> QED
    BY <1>1, <2>1, <2>2, MappedStutter
<1>5. CASE FetchDelivers(c, k)
  <2> DEFINE instr == NewInstruction(value, k.pc)
             l == [k EXCEPT !.fetching_active = FALSE,
                            !.instruction_count = Count(k.instruction_count),
                            !.Fetch = TRUE,
                            !.Decode = instr,
                            !.pc = Wrap(k.pc + 4)]
  <2>1. /\ k.Decode = NoInstruction /\ k.pc \in Address /\ k.pc \in Word
        /\ value # UINT32_MAX /\ MembusRead(c, k.pc) /\ Become(c, l)
    BY <1>1, <1>5 DEF FetchDelivers, CanFetch, ReadFaults, Fault, CoreType
  <2>2. UNCHANGED memory
    BY <2>1, ReadEffect
  <2>3. value \in Word
    BY <1>1, <2>1, ReadResultType
  <2>4. value \in {memory[k.pc], UINT32_MAX - 1}
    BY <2>1 DEF MembusReadResult, BlockedRead, RamReadResult
  <2>5. /\ instr \in InstructionType /\ instr # NoInstruction /\ instr.binary = value
    BY <2>1, <2>3, NewInstructionType
  <2>6. Wrap(k.pc + 4) \in Word
    <3>1. k.pc + 4 \in Int
      BY <2>1, WordAssumption
    <3> QED
      BY <3>1, WrapIsWord
  <2>7. Count(k.instruction_count) \in 0 .. CountBound
    BY <1>1, CountIsBounded DEF CoreType
  <2> HIDE DEF instr, value
  <2>8. /\ l \in CoreType /\ l.Decode = instr /\ l.Execute = k.Execute
        /\ l.registers = k.registers /\ l.pc = Wrap(k.pc + 4) /\ l.Store = k.Store
    BY <1>1, <2>5, <2>6, <2>7 DEF CoreType
  <2> HIDE DEF l
  <2>9. /\ regs' = [regs EXCEPT ![c] = l.registers]
        /\ next' = [next EXCEPT ![c] = l.pc]
        /\ line' = [line EXCEPT ![c] = Line(l)]
        /\ buffer' = [buffer EXCEPT ![c] = Occupant(l.Store)]
    BY <1>1, <2>1, <2>8, MappedChange
  <2>10. regs' = regs /\ buffer' = buffer
    <3>1. l.registers = regs[c] /\ Occupant(l.Store) = buffer[c]
      BY <2>8 DEF regs, buffer
    <3>2. regs' = regs
      BY <2>9, <3>1 DEF regs
    <3>3. buffer' = buffer
      BY <2>9, <3>1 DEF buffer
    <3> QED
      BY <3>2, <3>3
  <2>11. Line(l) = Append(line[c], value) /\ Len(line[c]) < 2
    <3>1. Line(l) = Occupant(k.Execute) \o <<value>>
      BY <2>5, <2>8, OccupantIs DEF Line
    <3>2. /\ Append(Line(k), value) = Occupant(k.Execute) \o <<value>>
          /\ Len(Line(k)) < 2
      BY <1>1, <2>1, <2>3, LineIs
    <3> QED
      BY <3>1, <3>2 DEF line, Line
  <2>12. value \in {memory[next[c]], Machine!TurnedAway} /\ next[c] \in DOMAIN memory
    BY <1>1, <2>1, <2>4, WordAssumption
       DEF next, Machine!TurnedAway, Modulus, MembusTypeOK, RamTypeOK
  <2>13. l.pc = Machine!WrapTo(next[c] + 4)
    BY <2>8 DEF Machine!WrapTo, Wrap, next
  <2> QED
    BY <2>2, <2>9, <2>10, <2>11, <2>12, <2>13
       DEF Machine!Enter, regs, next, line, buffer, Line
<1> QED
  BY <1>2, <1>3, <1>4, <1>5 DEF Fetch

(***************************************************************************)
(* Every step of the program.                                              *)
(***************************************************************************)
MachineStep == UNCHANGED pipeVars \/ Machine!InOrderNext

LEMMA MachineSteps ==
    ASSUME NEW c \in Present,
           UNCHANGED pipeVars \/ Machine!Drain(c) \/ Machine!Work(c) \/ Machine!Enter(c)
    PROVE  MachineStep
  BY DEF MachineStep, Machine!InOrderNext, line

LEMMA PipelineInitial ==
    ASSUME Init
    PROVE  PipelineInv /\ Machine!InOrderInit
<1>1. ASSUME NEW c \in Present
      PROVE  {cores[c].Decode, cores[c].Execute, cores[c].Store} = {NoInstruction}
  BY DEF Init, NewCore
<1>2. status = "loading"
  BY DEF Init
<1>3. PipelineInv
  BY <1>1, <1>2 DEF PipelineInv
<1>4. /\ line = [c \in Present |-> <<>>]
      /\ buffer = [c \in Present |-> <<>>]
  <2>1. \A c \in Present : /\ Occupant(cores[c].Execute) = <<>>
                           /\ Occupant(cores[c].Decode) = <<>>
                           /\ Occupant(cores[c].Store) = <<>>
    BY <1>1 DEF Occupant
  <2>2. <<>> \o <<>> = <<>>
    OBVIOUS
  <2> QED
    BY <2>1, <2>2 DEF line, buffer, Line
<1>5. Machine!InOrderInit
  BY <1>4 DEF Machine!InOrderInit, line, buffer, Line
<1> QED
  BY <1>3, <1>5

LEMMA StageCallRefines ==
    ASSUME SimInv, PipelineInv, NEW c \in Present, StageCall(c)
    PROVE  PipelineInv' /\ MachineStep
<1>1. /\ status = "running" /\ status' = "running" /\ turn.core = c
      /\ UNCHANGED binary
      /\ \A d \in Present : d # c => cores'[d] = cores[d]
  BY StageCallEffect
<1>2. Present' = Present
  BY <1>1 DEF Present
<1>3. c \in CoreId /\ cores \in [Present -> CoreType]
  BY PresentType, PresentCores DEF SimInv, SimTypeOK
<1>4. ASSUME \/ cores'[c].Store = NoInstruction
             \/ cores'[c].Store = cores[c].Store
             \/ Operands(cores'[c].Store).name \in Storing,
             \/ turn'.stage # "execute"
             \/ turn'.core = c /\ StoreStands(c, cores[c])'
      PROVE  PipelineInv'
  <2>1. ASSUME NEW d \in Present, cores'[d].Store # NoInstruction
        PROVE  Operands(cores'[d].Store).name \in Storing
    BY <1>1, <1>4, <2>1 DEF PipelineInv, Operands
  <2>2. ASSUME turn'.stage = "execute"
        PROVE  StoreStands(turn.core, cores[turn.core])'
    BY <1>4, <2>2 DEF StoreStands, StoreBase, StoreAddress, EffectiveAddress, HeldByOther
  <2> QED
    BY <1>1, <1>2, <2>1, <2>2 DEF PipelineInv, Operands
<1>5. CASE CallStore(c)
  <2>1. Store(c) /\ turn' = [core |-> c, stage |-> "execute"]
    BY <1>5 DEF CallStore, NextStage
  <2>2. /\ UNCHANGED pipeVars \/ Machine!Drain(c)
        /\ StoreStands(c, cores[c])'
        /\ cores'[c].Store \in {cores[c].Store, NoInstruction}
    BY <1>1, <1>3, <2>1, StoreRefines
  <2> QED
    BY <1>4, <2>1, <2>2, MachineSteps
<1>6. CASE CallExecute(c)
  <2>1. /\ Execute(c) /\ turn.stage = "execute"
        /\ turn' = [core |-> c, stage |-> "decode"]
    BY <1>6 DEF CallExecute, Calling, NextStage
  <2>2. StoreStands(c, cores[c])
    BY <1>1, <2>1 DEF PipelineInv
  <2>3. /\ UNCHANGED pipeVars \/ Machine!Work(c)
        /\ cores'[c].Store # NoInstruction =>
               \/ cores'[c].Store = cores[c].Store
               \/ Operands(cores'[c].Store).name \in Storing
    BY <1>1, <1>3, <2>1, <2>2, ExecuteRefines
  <2> QED
    BY <1>4, <2>1, <2>3, MachineSteps
<1>7. CASE CallDecode(c)
  <2>1. Decode(c) /\ turn' = [core |-> c, stage |-> "fetch"]
    BY <1>7 DEF CallDecode, NextStage
  <2>2. cores'[c].Store = cores[c].Store
    BY <1>3, <2>1, PresentType, PresentCores, DecodeEffect
       DEF SimInv, HoldMatchesStore, AroundFront
  <2> QED
    BY <1>1, <1>3, <1>4, <2>1, <2>2, DecodeRefines, MachineSteps
<1>8. CASE CallFetch(c)
  <2>1. Fetch(c) /\ turn' = [core |-> c + 1, stage |-> "store"]
    BY <1>8 DEF CallFetch, NextCore
  <2>2. cores'[c].Store = cores[c].Store
    BY <1>3, <2>1, PresentType, PresentCores, FetchEffect
       DEF SimInv, HoldMatchesStore, AroundFront
  <2> QED
    BY <1>1, <1>3, <1>4, <2>1, <2>2, FetchRefines, MachineSteps
<1> QED
  BY <1>5, <1>6, <1>7, <1>8 DEF StageCall

LEMMA LoadWordRefines ==
    ASSUME SimInv, PipelineInv, NEW c \in Present, LoadWord(c)
    PROVE  PipelineInv' /\ MachineStep
<1> DEFINE a == LoadTo(c)
<1>1. /\ status = "loading" /\ UNCHANGED <<cores, binary, status, turn>>
  BY LoadWordEffect DEF clockVars
<1>2. Present' = Present
  BY <1>1 DEF Present
<1>3. PipelineInv'
  BY <1>1, <1>2 DEF PipelineInv, Operands
<1>4. /\ a \in Address
      /\ MembusWriteBypass(c, a, binary[c][loaded[c] + 1])
  BY DEF LoadWord, Fault
<1>5. c \in CoreId
  BY PresentType, PresentCores DEF SimInv
<1>6. memory' = [memory EXCEPT ![a] = binary[c][loaded[c] + 1]]
  BY <1>1, <1>4, <1>5, BypassEffect DEF SimInv, BusInv, NothingBegun
<1> HIDE DEF a
<1>7. memory' = [memory EXCEPT ![a] = memory'[a]] /\ a \in DOMAIN memory
  BY <1>4, <1>6 DEF SimInv, SimTypeOK, MembusTypeOK, RamTypeOK
<1>8. UNCHANGED <<regs, next, line, buffer>>
  BY <1>1, <1>2 DEF regs, next, line, buffer
<1>9. \A d \in Present : line[d] = <<>> /\ buffer[d] = <<>>
  <2>1. \A d \in Present : /\ Occupant(cores[d].Execute) = <<>>
                           /\ Occupant(cores[d].Decode) = <<>>
                           /\ Occupant(cores[d].Store) = <<>>
    BY <1>1 DEF PipelineInv, Occupant
  <2>2. <<>> \o <<>> = <<>>
    OBVIOUS
  <2> QED
    BY <2>1, <2>2 DEF line, buffer, Line
<1>10. Machine!Preload(a)
  BY <1>7, <1>8, <1>9 DEF Machine!Preload, regs, next, line, buffer, Line
<1> QED
  BY <1>3, <1>7, <1>10 DEF MachineStep, Machine!InOrderNext

LEMMA LoadEndsRefines ==
    ASSUME SimInv, PipelineInv, NEW c \in Present, LoadEnds(c)
    PROVE  PipelineInv' /\ MachineStep
<1> DEFINE k == cores[c]
           last == Wrap(LoadTo(c) - 4)
           l == [k EXCEPT !.start_address = StartAddress[c],
                          !.max_instruction_address = last]
<1>1. /\ UNCHANGED <<memory, binary>>
      /\ status = "loading"
      /\ turn'.stage # "execute" \/ status' # "running"
      /\ cores \in [Present -> CoreType] /\ k \in CoreType /\ Become(c, l)
  BY DEF LoadEnds, busVars, FirstTurn, SimInv, SimTypeOK
<1>2. Present' = Present
  BY <1>1 DEF Present
<1>3. c \in CoreId
  BY PresentType, PresentCores DEF SimInv
<1>4. last \in Word
  <2>1. StartAddress[c] \in Word /\ loaded[c] \in Nat
    BY <1>3, SimulatorAssumption DEF SimInv, SimTypeOK
  <2>2. LoadTo(c) - 4 \in Int
    BY <2>1, WordAssumption DEF LoadTo
  <2> QED
    BY <2>2, WrapIsWord
<1> HIDE DEF last
<1>5. /\ l \in CoreType
      /\ l.Decode = k.Decode /\ l.Execute = k.Execute /\ l.Store = k.Store
      /\ l.registers = k.registers /\ l.pc = k.pc
  BY <1>1, <1>3, <1>4, SimulatorAssumption DEF CoreType
<1> HIDE DEF l
<1>6. UNCHANGED pipeVars
  BY <1>1, <1>5, MappedStutter DEF Line
<1>7. cores'[c] = l /\ \A d \in Present : d # c => cores'[d] = cores[d]
  BY <1>1, <1>5, BecomeEffect
<1>8. \A d \in Present : /\ cores'[d].Decode = cores[d].Decode
                         /\ cores'[d].Execute = cores[d].Execute
                         /\ cores'[d].Store = cores[d].Store
  BY <1>5, <1>7
<1>9. PipelineInv'
  BY <1>1, <1>2, <1>8 DEF PipelineInv, Operands
<1> QED
  BY <1>6, <1>9 DEF MachineStep

\* The steps of run() that call nothing.
LEMMA LoopRefines ==
    ASSUME PipelineInv,
           \/ EndCycle
           \/ \E c \in Present : SkipCore(c) \/ Terminate(c)
           \/ UNCHANGED simVars
    PROVE  PipelineInv' /\ MachineStep
<1>1. UNCHANGED <<cores, memory, addressDelays, addressInUse, binary>>
  BY DEF EndCycle, SkipCore, Terminate, simVars, coreVars
<1>2. \/ UNCHANGED <<status, turn>>
      \/ status' # "loading" /\ (turn'.stage # "execute" \/ status' # "running")
  BY DEF EndCycle, SkipCore, Terminate, simVars, FirstTurn, NextCore
<1>3. Present' = Present
  BY <1>1 DEF Present
<1>4. PipelineInv'
  BY <1>1, <1>2, <1>3
     DEF PipelineInv, Operands, StoreStands, StoreBase, StoreAddress, EffectiveAddress,
         HeldByOther, InUse
<1> QED
  BY <1>1, <1>4, SameCores DEF MachineStep

LEMMA PipelineStep ==
    ASSUME SimInv, PipelineInv, [Next]_simVars
    PROVE  PipelineInv' /\ [Machine!InOrderNext]_(Machine!inOrderVars)
<1>1. \/ \E c \in Present : StageCall(c) \/ LoadWord(c) \/ LoadEnds(c)
      \/ EndCycle
      \/ \E c \in Present : SkipCore(c) \/ Terminate(c)
      \/ UNCHANGED simVars
  BY DEF Next, StageCall
<1>2. PipelineInv' /\ MachineStep
  BY <1>1, StageCallRefines, LoadWordRefines, LoadEndsRefines, LoopRefines
<1>3. UNCHANGED pipeVars => UNCHANGED Machine!inOrderVars
  BY DEF pipeVars, Machine!inOrderVars, regs, next, line, buffer, Line
<1> QED
  BY <1>2, <1>3 DEF MachineStep

\* Between two steps the Store stage holds stores, and the store whose stage has
\* just been called keeps its base register and its address from the load behind
\* it (core.cpp:230-248, membus.cpp:17-28, ram.cpp:33-37).
THEOREM PipelineInvariant == Spec => []PipelineInv
<1>1. Init => PipelineInv
  BY PipelineInitial
<1>2. SimInv /\ PipelineInv /\ [Next]_simVars => PipelineInv'
  BY PipelineStep
<1> QED
  BY <1>1, <1>2, SimInvariant, PTL DEF Spec

\* The pipelines, with their stages, delays, stalls and flushes and the bus they
\* share, do what cores would that perform one instruction at a time in the
\* order fetched, for any number of cores and any programs: no instruction is lost
\* or performed twice, and no load overtakes the store before it (the stages of
\* core.cpp against each other).
THEOREM PipelinesImplementInOrder == Spec => ImplementsInOrder
<1>1. Init => Machine!InOrderInit
  BY PipelineInitial
<1>2. SimInv /\ PipelineInv /\ [Next]_simVars =>
          [Machine!InOrderNext]_(Machine!inOrderVars)
  BY PipelineStep
<1> QED
  BY <1>1, <1>2, SimInvariant, PipelineInvariant, PTL
     DEF Spec, ImplementsInOrder, Machine!InOrderSpec
=============================================================================
