----------------------------- MODULE CodeProofs ------------------------------
(***************************************************************************)
(* Programs that leave the code alone are performed as they were loaded:   *)
(* the words stay where the loader put them, no fetch of them is turned    *)
(* away, and what is in a pipeline is the word of the file that belongs    *)
(* there.  The programs may branch and jump.                               *)
(***************************************************************************)
EXTENDS Conventions, PipelineProofs

(***************************************************************************)
(* Places.                                                                 *)
(***************************************************************************)
LEMMA PlacesOf ==
    ASSUME SimTypeOK, NEW c \in Present
    PROVE  /\ c \in CoreId /\ c \in Nat
           /\ StartAddress[c] \in Nat
           /\ Len(binary[c]) \in Nat
           /\ \A n \in Places(c) : binary[c][n] \in Word
           /\ loaded[c] \in Nat /\ loaded[c] <= Len(binary[c])
<1>1. PICK n \in CoreId : Present = 0 .. n /\ binary \in [Present -> Seq(Word)]
  BY PresentType
<1>2. c \in CoreId /\ c \in Nat
  BY <1>1, PresentCores
<1>3. StartAddress[c] \in Word
  BY <1>2, SimulatorAssumption
<1>4. binary[c] \in Seq(Word)
  BY <1>1
<1>5. \A m \in Places(c) : binary[c][m] \in Word
  BY <1>4 DEF Places
<1>6. loaded[c] \in Nat /\ loaded[c] <= Len(binary[c])
  BY DEF SimTypeOK
<1> QED
  BY <1>2, <1>3, <1>4, <1>5, <1>6, WordAssumption

LEMMA PlacedInCode ==
    ASSUME SimTypeOK, NEW c \in Present, NEW n \in Places(c)
    PROVE  InCode(Placed(c, n)) /\ Placed(c, n) \in Nat
<1>1. StartAddress[c] \in Nat /\ Len(binary[c]) \in Nat
  BY PlacesOf
<1>2. /\ StartAddress[c] <= Placed(c, n)
      /\ Placed(c, n) <= LastPlace(c)
      /\ Placed(c, n) \in Nat
  BY <1>1 DEF Places, Placed, LastPlace
<1> QED
  BY <1>2 DEF InCode

\* Two words of the files have two places.
LEMMA PlacesDiffer ==
    ASSUME SimTypeOK, FilesApart,
           NEW c \in Present, NEW n \in Places(c),
           NEW d \in Present, NEW m \in Places(d),
           Placed(c, n) = Placed(d, m)
    PROVE  c = d /\ n = m
<1>1. /\ StartAddress[c] \in Nat /\ Len(binary[c]) \in Nat
      /\ StartAddress[d] \in Nat /\ Len(binary[d]) \in Nat
  BY PlacesOf
<1>2. c = d
  <2> SUFFICES ASSUME c # d PROVE FALSE
    OBVIOUS
  <2>1. LastPlace(c) < StartAddress[d] \/ LastPlace(d) < StartAddress[c]
    BY DEF FilesApart
  <2> QED
    BY <1>1, <2>1 DEF Places, Placed, LastPlace
<1> QED
  BY <1>1, <1>2 DEF Places, Placed

\* An address inside the code of a core is the place of a word.
LEMMA PlaceOf ==
    ASSUME SimTypeOK, NEW c \in Present,
           \A n \in Places(c) : Placed(c, n) \in Address,
           NEW a \in Address, StartAddress[c] <= a, a <= LastPlace(c)
    PROVE  \E n \in Places(c) : a = Placed(c, n)
<1> DEFINE n == ((a - StartAddress[c]) \div 4) + 1
<1>1. StartAddress[c] \in Nat /\ Len(binary[c]) \in Nat /\ a \in Nat
  BY PlacesOf, WordAssumption
<1> DEFINE x == a - StartAddress[c]
           q == x \div 4
<1>2. /\ n \in Places(c)
      /\ Placed(c, n) <= a /\ a < Placed(c, n) + 4
  <2>1. x \in Nat /\ x <= 4 * (Len(binary[c]) - 1)
    BY <1>1 DEF Placed, LastPlace
  <2> HIDE DEF x
  <2>2. q \in Nat /\ 4 * q <= x /\ x < 4 * q + 4
    BY <2>1
  <2>3. n = q + 1
    BY DEF x
  <2> HIDE DEF q, n
  <2>4. n \in Places(c)
    BY <1>1, <2>1, <2>2, <2>3 DEF Places
  <2>5. a = StartAddress[c] + x /\ Placed(c, n) = StartAddress[c] + 4 * q
    BY <1>1, <2>2, <2>3 DEF Placed, x
  <2> QED
    BY <1>1, <2>1, <2>2, <2>4, <2>5
<1> HIDE DEF n
<1>3. Placed(c, n) \in Address /\ Placed(c, n) \in Nat
  BY <1>2, PlacedInCode
<1>4. ~(Placed(c, n) < a)
  BY <1>1, <1>2, <1>3, AddressesApart
<1> QED
  BY <1>1, <1>2, <1>3, <1>4

(***************************************************************************)
(* What is in a pipeline.                                                  *)
(***************************************************************************)
Belongs(c, instr) ==
    \E n \in Places(c) :
        instr.fetched_at = Placed(c, n) /\ instr.binary = binary[c][n]

InStages(k) == {k.Decode, k.Execute, k.Store} \ {NoInstruction}

LEMMA HoldsProgram ==
    ASSUME SimTypeOK
    PROVE  PipelineHoldsProgram <=>
               \A c \in Present : \A instr \in InStages(cores[c]) : Belongs(c, instr)
<1>1. ASSUME NEW c \in Present, NEW instr
      PROVE  LET i == ((instr.fetched_at - StartAddress[c]) \div 4) + 1 IN
             (/\ instr.fetched_at = StartAddress[c] + 4 * (i - 1)
              /\ i \in 1 .. Len(binary[c])
              /\ instr.binary = binary[c][i])
             <=> Belongs(c, instr)
  <2> DEFINE i == ((instr.fetched_at - StartAddress[c]) \div 4) + 1
  <2>1. StartAddress[c] \in Nat /\ Len(binary[c]) \in Nat
    BY PlacesOf
  <2>2. ASSUME NEW n \in Places(c), instr.fetched_at = Placed(c, n)
        PROVE  i = n
    <3>1. instr.fetched_at - StartAddress[c] = 4 * (n - 1)
      BY <2>1, <2>2 DEF Places, Placed
    <3>2. (4 * (n - 1)) \div 4 = n - 1
      BY <2>1 DEF Places
    <3> QED
      BY <2>1, <3>1, <3>2 DEF Places
  <2> HIDE DEF i
  <2>3. ASSUME /\ instr.fetched_at = StartAddress[c] + 4 * (i - 1)
               /\ i \in 1 .. Len(binary[c])
               /\ instr.binary = binary[c][i]
        PROVE  Belongs(c, instr)
    BY <2>3 DEF Belongs, Placed, Places
  <2>4. ASSUME Belongs(c, instr)
        PROVE  /\ instr.fetched_at = StartAddress[c] + 4 * (i - 1)
               /\ i \in 1 .. Len(binary[c])
               /\ instr.binary = binary[c][i]
    <3>1. PICK n \in Places(c) :
              instr.fetched_at = Placed(c, n) /\ instr.binary = binary[c][n]
      BY <2>4 DEF Belongs
    <3>2. i = n
      BY <2>2, <3>1
    <3> QED
      BY <3>1, <3>2 DEF Placed, Places
  <2> QED
    BY <2>3, <2>4 DEF i
<1> QED
  BY <1>1 DEF PipelineHoldsProgram, InStages

StagesBelong == \A c \in Present : \A instr \in InStages(cores[c]) : Belongs(c, instr)

LEMMA HoldsProgramNext == SimTypeOK' /\ StagesBelong' => PipelineHoldsProgram'
<1>1. SimTypeOK /\ StagesBelong => PipelineHoldsProgram
  BY HoldsProgram DEF StagesBelong
<1> QED
  BY <1>1, PTL

(***************************************************************************)
(* The calls of the bus.                                                   *)
(***************************************************************************)

\* Nothing of the code changes but the user of a place of this core.
CodeAround(c) ==
    \A d \in Present : \A n \in Places(d) :
        LET p == Placed(d, n) IN
        p \in Address =>
            /\ memory'[p] = memory[p]
            /\ \/ addressInUse'[p] = addressInUse[p]
               \/ c = d /\ addressInUse'[p].core \in {c, NoCore}

LEMMA CodeStays ==
    ASSUME SimTypeOK, WordsInPlace, CodeNotShared, NEW c \in Present,
           CodeAround(c), UNCHANGED <<binary, loaded>>
    PROVE  WordsInPlace' /\ CodeNotShared'
<1>1. Present' = Present
  BY DEF Present
<1>2. \A d \in Present : \A n \in 1 .. loaded[d] : n \in Places(d)
  BY PlacesOf DEF Places
<1>3. WordsInPlace'
  BY <1>1, <1>2 DEF WordsInPlace, CodeAround, Placed
<1>4. CodeNotShared'
  BY <1>1 DEF CodeNotShared, CodeAround, InUse, Places, Placed
<1> QED
  BY <1>3, <1>4

LEMMA ReadAround ==
    ASSUME SimTypeOK, FilesApart, NEW c \in Present, NEW a \in Address,
           ~InCode(a) \/ \E n \in Places(c) : a = Placed(c, n),
           MembusRead(c, a)
    PROVE  CodeAround(c)
<1>1. c \in CoreId /\ MembusTypeOK
  BY PlacesOf DEF SimTypeOK
<1>2. memory' = memory
  BY <1>1, ReadEffect
<1>3. ASSUME NEW b \in Address, b # a
      PROVE  addressInUse'[b] = addressInUse[b]
  BY <1>1, <1>3, ReadEffect DEF MembusTypeOK
<1>4. addressInUse'[a] = addressInUse[a] \/ addressInUse'[a].core \in {c, NoCore}
  BY <1>1, ReadEffect, EntryOfRead DEF MembusTypeOK
<1>5. ASSUME NEW d \in Present, NEW n \in Places(d), Placed(d, n) = a
      PROVE  c = d
  BY <1>5, PlacedInCode, PlacesDiffer
<1> QED
  BY <1>2, <1>3, <1>4, <1>5 DEF CodeAround

LEMMA WriteAround ==
    ASSUME SimTypeOK, NEW c \in Present, NEW a \in Address, ~InCode(a), NEW v,
           MembusWrite(c, a, v, 0)
    PROVE  CodeAround(c)
<1>1. c \in CoreId /\ MembusTypeOK /\ memory \in [Address -> Word]
  BY PlacesOf DEF SimTypeOK, MembusTypeOK, RamTypeOK
<1>2. ASSUME NEW b \in Address, b # a
      PROVE  memory'[b] = memory[b] /\ addressInUse'[b] = addressInUse[b]
  BY <1>1, <1>2, WriteEffect DEF MembusTypeOK, busVars
<1> QED
  BY <1>2, PlacedInCode DEF CodeAround

LEMMA IdleAround ==
    ASSUME NEW c \in Present, UNCHANGED busVars
    PROVE  CodeAround(c)
  BY DEF CodeAround, busVars

(***************************************************************************)
(* The stages.                                                             *)
(***************************************************************************)

\* What is in the stages was there before.
NothingNew(k, l) ==
    \A i \in InStages(l) : \E j \in InStages(k) : SameInstruction(i, j)

\* What execute() does to the instructions, whatever it computes.
Stays(k, l) ==
    /\ l.pc = k.pc /\ l.Decode = k.Decode /\ l.Store = k.Store
    /\ \/ k.Execute = NoInstruction /\ l.Execute = NoInstruction
       \/ /\ k.Execute # NoInstruction /\ l.Execute # NoInstruction
          /\ SameInstruction(l.Execute, k.Execute)

Retires(k, l) ==
    LET i == Operands(k.Execute) IN
    /\ k.Execute # NoInstruction /\ i.name \notin Storing
    /\ l.Execute = NoInstruction /\ l.Store = k.Store
    /\ l.Decode \in {k.Decode, NoInstruction}
    /\ ~(i.name \in Jumping /\ i.imm # 0) => l.pc = k.pc /\ l.Decode = k.Decode

Sends(k, l) ==
    /\ k.Execute # NoInstruction /\ Operands(k.Execute).name \in Storing
    /\ k.Store = NoInstruction
    /\ l.Execute = NoInstruction
    /\ l.Store # NoInstruction /\ SameInstruction(l.Store, k.Execute)
    /\ l.pc = k.pc /\ l.Decode = k.Decode

\* Without a jump the pc stays.
LEMMA ComputedGoesOn ==
    ASSUME NEW k \in CoreType, NEW i \in InstrType, i.name \in Computing,
           ~(i.name \in Jumping /\ i.imm # 0)
    PROVE  Computed(k, i).pc = k.pc
<1> DEFINE l == Computed(k, i)
           set(v) == [k EXCEPT !.registers[i.rd] = v]
<1> SUFFICES l.pc = k.pc
  OBVIOUS
<1>1. \A v : set(v).pc = k.pc
  BY DEF CoreType
<1>2. CASE i.name \notin Jumping
  <2> HIDE DEF set
  <2>1. ASSUME i.name = "addi" PROVE l.pc = k.pc
    BY <1>1, <2>1 DEF Computed, set
  <2>2. ASSUME i.name = "add" PROVE l.pc = k.pc
    BY <1>1, <2>2 DEF Computed, set
  <2>3. ASSUME i.name = "slli" PROVE l.pc = k.pc
    BY <1>1, <2>3 DEF Computed, set
  <2>4. ASSUME i.name = "fadd.s" PROVE l.pc = k.pc
    BY <1>1, <2>4 DEF Computed, set
  <2>5. ASSUME i.name = "fsub.s" PROVE l.pc = k.pc
    BY <1>1, <2>5 DEF Computed, set
  <2>6. ASSUME i.name = "auipc" PROVE l.pc = k.pc
    <3>1. l = set(Wrap(k.pc + Wrap(AuipcOperand(i) * 4096)))
      BY <2>6 DEF Computed, set
    <3> HIDE DEF l
    <3> QED
      BY <1>1, <3>1
  <2> HIDE DEF l
  <2> QED
    BY <1>2, <2>1, <2>2, <2>3, <2>4, <2>5, <2>6 DEF Computing, Jumping
<1>3. CASE i.name \in Jumping
  <2>1. i.imm = 0 /\ k.pc \in Word /\ k.pc + 0 = k.pc
    BY <1>3, WordAssumption DEF CoreType
  <2>2. Wrap(k.pc + i.imm) = k.pc
    BY <2>1, WrapOfWord
  <2>3. ASSUME i.name \in {"blt", "beq", "bne"} PROVE l.pc = k.pc
    <3>1. l \in {k, Move(k, 0)}
      BY <2>1, <2>3 DEF Computed, BranchIf
    <3>2. Move(k, 0).pc = k.pc
      BY <2>1, <2>2 DEF Move, CoreType
    <3> QED
      BY <3>1, <3>2
  <2>4. ASSUME i.name = "jal" PROVE l.pc = k.pc
    <3> DEFINE linked == [k EXCEPT !.registers["ra"] = Wrap(k.pc + 4)]
    <3>1. l = Move(linked, 0)
      BY <2>1, <2>4 DEF Computed, Jal
    <3>2. linked.pc = k.pc /\ Move(linked, 0).pc = Wrap(linked.pc + 0)
      BY DEF Move, CoreType
    <3> HIDE DEF linked, l
    <3> QED
      BY <2>1, <2>2, <3>1, <3>2
  <2>5. ASSUME i.name = "jalr" PROVE l.pc = k.pc
    <3> DEFINE m == Move(k, i.imm)
    <3>1. l = [m EXCEPT !.registers[i.rd] = Wrap(k.pc + i.imm)]
      BY <2>5 DEF Computed, Jalr
    <3>2. m \in CoreType /\ m.pc = k.pc
      BY <2>1, <2>2, MoveEffect DEF InstrType
    <3> HIDE DEF m, l
    <3>3. [m EXCEPT !.registers[i.rd] = Wrap(k.pc + i.imm)].pc = m.pc
      BY <3>2 DEF CoreType
    <3> QED
      BY <3>1, <3>2, <3>3
  <2> HIDE DEF l
  <2> QED
    BY <1>3, <2>3, <2>4, <2>5 DEF Jumping
<1> QED
  BY <1>2, <1>3

\* One of the three happens to the instruction in Execute, and the bus is left
\* alone or read at the address of a load.
LEMMA ExecuteMoves ==
    ASSUME SimInv, NEW c \in Present, Execute(c)
    PROVE  LET k == cores[c]
               l == cores'[c]
           IN /\ Stays(k, l) \/ Retires(k, l) \/ Sends(k, l)
              /\ \/ UNCHANGED busVars
                 \/ /\ k.Execute # NoInstruction
                    /\ Operands(k.Execute).name \in Loading
                    /\ LoadAddress(k) \in Address
                    /\ MembusRead(c, LoadAddress(k))
<1> DEFINE k == cores[c]
           l == cores'[c]
           i == Operands(k.Execute)
           Moves == Stays(k, l) \/ Retires(k, l) \/ Sends(k, l)
<1>1. /\ cores \in [Present -> CoreType] /\ k \in CoreType
      /\ c \in CoreId /\ MembusTypeOK
  BY PlacesOf DEF SimInv, SimTypeOK
<1>2. CASE ExecuteIdle(k)
  BY <1>2 DEF ExecuteIdle, coreVars, busVars, Stays
<1>3. CASE StartDelay(c, k) \/ CountDown(c, k) \/ Unsupported(c, k)
  <2>1. PICK m \in CoreType : Become(c, m) /\ Waits(k, m)
    BY <1>1, <1>3, DelayEffect, StartedEffect DEF Unsupported, Ready
  <2>2. l = m
    BY <1>1, <2>1, BecomeEffect
  <2>3. UNCHANGED busVars
    BY <1>3 DEF StartDelay, CountDown, Unsupported
  <2> QED
    BY <2>1, <2>2, <2>3 DEF Waits, Stays
<1>4. CASE Compute(c, k)
  <2> DEFINE m == Computed(k, i)
  <2>1. /\ k.Execute # NoInstruction /\ i.name \in Computing
        /\ ~(i.name = "auipc" /\ AuipcFaults(i))
        /\ Become(c, Retire(m)) /\ UNCHANGED busVars
    BY <1>4 DEF Compute, Executing, Ready
  <2>2. i \in InstrType
    BY <1>1, <2>1, OperandsType DEF CoreType
  <2>3. /\ m \in CoreType /\ SameFrame(k, m)
        /\ m.Decode = IF i.name = "jal" /\ i.imm # 0 THEN NoInstruction ELSE k.Decode
    BY <1>1, <2>1, <2>2, FloatsYieldWords, ComputedEffect
  <2>4. ~(i.name \in Jumping /\ i.imm # 0) => m.pc = k.pc
    BY <1>1, <2>1, <2>2, ComputedGoesOn
  <2>5. i.name \notin Storing /\ (i.name = "jal" => i.name \in Jumping)
    BY <2>1 DEF Computing, Storing, Jumping
  <2> HIDE DEF m
  <2>6. /\ Retire(m) \in CoreType /\ Retire(m).Execute = NoInstruction
        /\ Retire(m).Store = m.Store /\ Retire(m).Decode = m.Decode
        /\ Retire(m).pc = m.pc
    BY <2>3, NoInstructionType DEF Retire, CoreType
  <2>7. l = Retire(m)
    BY <1>1, <2>1, <2>6, BecomeEffect
  <2> HIDE DEF i, l
  <2>8. Retires(k, l)
    BY <2>1, <2>3, <2>4, <2>5, <2>6, <2>7 DEF Retires, SameFrame, i
  <2> QED
    BY <2>1, <2>8 DEF l
<1>5. CASE Load(c, k)
  <2>1. CallRead(c, k)
    BY <1>5 DEF Load, LoadHolds, LoadDelivers, LoadBlocked, LoadWaits, LoadFallsThrough
  <2>2. /\ k.Execute # NoInstruction /\ i.name \in Loading
        /\ LoadAddress(k) \in Address /\ MembusRead(c, LoadAddress(k))
    BY <2>1 DEF CallRead, Executing, Ready, ReadFaults, Fault
  <2>3. /\ LoadResult(c, k) \in [value : Word, store : Nat, load : Nat]
        /\ i.rd \in Reg
    BY <1>1, <2>2, ReadResultType, LoadOperands DEF LoadResult
  <2>4. i.name \notin Storing /\ i.name \notin Jumping
    BY <2>2 DEF Loading, Storing, Jumping
  <2>5. Started(k) \in CoreType /\ Waits(k, Started(k))
    BY <1>1, <2>2, StartedEffect
  <2> DEFINE s == Started(k)
             value == LoadResult(c, k).value
  <2>6. value \in Word
    BY <2>3
  <2> HIDE DEF s, i, value
  <2>7. CASE LoadHolds(c, k)
    <3>1. l = s
      BY <1>1, <2>5, <2>7, BecomeEffect DEF LoadHolds, s
    <3> QED
      BY <2>2, <2>5, <3>1 DEF Waits, Stays, s, i
  <2>8. CASE LoadWaits(c, k)
    <3>1. PICK m \in CoreType : Become(c, m) /\ Waits(k, m)
      BY <1>1, <2>8, LoadWaitsEffect
    <3>2. l = m
      BY <1>1, <3>1, BecomeEffect
    <3> QED
      BY <2>2, <3>1, <3>2 DEF Waits, Stays, i
  <2>9. CASE LoadBlocked(c, k)
    <3> DEFINE m == [s EXCEPT !.registers[i.rd] = value]
    <3>1. Become(c, m)
      BY <2>9 DEF LoadBlocked, s, i, value
    <3>2. /\ m \in CoreType /\ SameFrame(s, m)
          /\ m.pc = s.pc /\ m.Decode = s.Decode
      BY <2>3, <2>5, <2>6, SetRegister DEF s
    <3> HIDE DEF m
    <3>3. l = m
      BY <1>1, <3>1, <3>2, BecomeEffect
    <3> QED
      BY <2>2, <2>5, <3>2, <3>3 DEF SameFrame, Waits, Stays, s, i
  <2>10. ASSUME NEW m \in CoreType, SameFrame(k, m), m.pc = k.pc,
                m.Decode = k.Decode, Become(c, Retire(m))
         PROVE  Moves
    <3>1. /\ Retire(m) \in CoreType /\ Retire(m).Execute = NoInstruction
          /\ Retire(m).Store = m.Store /\ Retire(m).Decode = m.Decode
          /\ Retire(m).pc = m.pc
      BY NoInstructionType DEF Retire, CoreType
    <3>2. l = Retire(m)
      BY <1>1, <2>10, <3>1, BecomeEffect
    <3> HIDE DEF l
    <3> QED
      BY <2>2, <2>4, <2>10, <3>1, <3>2 DEF Retires, SameFrame, i
  <2>11. CASE LoadDelivers(c, k)
    <3> DEFINE m == [k EXCEPT !.registers[i.rd] = value]
    <3>1. Become(c, Retire(m))
      BY <2>11 DEF LoadDelivers, i, value
    <3>2. /\ m \in CoreType /\ SameFrame(k, m)
          /\ m.pc = k.pc /\ m.Decode = k.Decode
      BY <1>1, <2>3, <2>6, SetRegister
    <3> HIDE DEF m
    <3> QED
      BY <2>2, <2>10, <3>1, <3>2 DEF i
  <2>12. CASE LoadFallsThrough(c, k)
    <3>1. Become(c, Retire(k)) /\ SameFrame(k, k)
      BY <2>12 DEF LoadFallsThrough, SameFrame
    <3> QED
      BY <1>1, <2>2, <2>10, <3>1 DEF i
  <2> QED
    BY <1>5, <2>7, <2>8, <2>9, <2>11, <2>12 DEF Load
<1>6. CASE SendToStore(c, k)
  <2> DEFINE s == Started(k)
             m == [s EXCEPT !.Store = s.Execute, !.Execute = NoInstruction]
  <2>1. /\ k.Execute # NoInstruction /\ i.name \in Storing
        /\ UNCHANGED busVars
        /\ Become(c, IF k.Store = NoInstruction THEN m ELSE s)
    BY <1>6 DEF SendToStore, Executing, Ready
  <2>2. s \in CoreType /\ Waits(k, s)
    BY <1>1, <2>1, StartedEffect
  <2> HIDE DEF s
  <2>3. /\ m \in CoreType /\ m.Store = s.Execute /\ m.Execute = NoInstruction
        /\ m.pc = s.pc /\ m.Decode = s.Decode
    BY <2>2, NoInstructionType DEF CoreType
  <2> HIDE DEF m
  <2>4. l = IF k.Store = NoInstruction THEN m ELSE s
    BY <1>1, <2>1, <2>2, <2>3, BecomeEffect
  <2> QED
    BY <2>1, <2>2, <2>3, <2>4 DEF Waits, Stays, Sends
<1> QED
  BY <1>2, <1>3, <1>4, <1>5, <1>6 DEF Execute

\* The word that fetch() takes is the word of its core's file, and its address
\* the place of it.
FetchMoves(k, l) ==
    /\ l.Execute = k.Execute /\ l.Store = k.Store
    /\ \/ l.Decode = k.Decode /\ l.pc = k.pc
       \/ /\ k.Decode = NoInstruction /\ l.Decode # NoInstruction
          /\ l.Decode.fetched_at = k.pc /\ l.pc = Wrap(k.pc + 4)
          /\ ~l.fetching_active

LEMMA FetchInPlace ==
    ASSUME SimInv, FilesApart, CodeInPlace, NEW c \in Present, status = "running",
           Fetch(c)
    PROVE  /\ FetchMoves(cores[c], cores'[c])
           /\ \/ NothingNew(cores[c], cores'[c])
              \/ Belongs(c, cores'[c].Decode)
           /\ CodeAround(c)
           /\ cores'[c].Decode = cores[c].Decode \/ cores[c].pc <= LastPlace(c)
           /\ cores'[c].fetching_active =>
                  cores[c].fetching_active \/ cores[c].pc <= LastPlace(c)
<1> DEFINE k == cores[c]
           l == cores'[c]
           value == MembusReadResult(c, k.pc).value
           instr == NewInstruction(value, k.pc)
<1>1. /\ cores \in [Present -> CoreType] /\ k \in CoreType
      /\ c \in CoreId /\ MembusTypeOK /\ SimTypeOK
      /\ memory \in [Address -> Word]
  BY PlacesOf DEF SimInv, SimTypeOK, MembusTypeOK, RamTypeOK
<1>2. Loaded(c)
  BY DEF CodeInPlace, LoadedInTurn
<1>3. CASE FetchStalls(k)
  <2>1. UNCHANGED <<cores, busVars>>
    BY <1>3 DEF FetchStalls, coreVars, busVars
  <2> QED
    BY <2>1, IdleAround DEF FetchMoves, NothingNew, SameInstruction
<1>4. CASE FetchEnds(c, k)
  <2> DEFINE m == [k EXCEPT !.fetching_active = FALSE, !.Fetch = FALSE, !.halt = TRUE]
  <2>1. Become(c, m) /\ UNCHANGED busVars
    BY <1>4 DEF FetchEnds
  <2>2. /\ m \in CoreType /\ m.pc = k.pc /\ m.Decode = k.Decode
        /\ m.Execute = k.Execute /\ m.Store = k.Store
        /\ m.fetching_active = FALSE
    BY <1>1 DEF CoreType
  <2> HIDE DEF m
  <2>3. l = m
    BY <1>1, <2>1, <2>2, BecomeEffect
  <2> QED
    BY <2>1, <2>2, <2>3, IdleAround DEF FetchMoves, NothingNew, InStages, SameInstruction
<1>5. ASSUME CanFetch(c, k)
      PROVE  /\ k.pc \in Address /\ k.pc <= LastPlace(c)
             /\ \E n \in Places(c) : k.pc = Placed(c, n) /\ memory[k.pc] = binary[c][n]
  <2>1. k.pc \in Address /\ StartAddress[c] <= k.pc /\ k.pc <= LastPlace(c)
    BY <1>1, <1>2, <1>5, PlacesOf, WordAssumption
       DEF CanFetch, ReadFaults, Fault, Loaded, LastPlace, Placed
  <2>2. \A n \in Places(c) : Placed(c, n) \in Address /\ memory[Placed(c, n)] = binary[c][n]
    BY <1>2 DEF CodeInPlace, WordsInPlace, Loaded, Places
  <2>3. PICK n \in Places(c) : k.pc = Placed(c, n)
    BY <1>1, <2>1, <2>2, PlaceOf
  <2> QED
    BY <2>1, <2>2, <2>3
<1>6. ASSUME CanFetch(c, k), MembusRead(c, k.pc)
      PROVE  CodeAround(c)
  BY <1>1, <1>5, <1>6, ReadAround
<1>7. CASE FetchWaits(c, k)
  <2> DEFINE m == [k EXCEPT !.fetching_active = TRUE]
  <2>1. Become(c, m) /\ CanFetch(c, k) /\ MembusRead(c, k.pc)
    BY <1>7 DEF FetchWaits
  <2>2. /\ m \in CoreType /\ m.pc = k.pc /\ m.Decode = k.Decode
        /\ m.Execute = k.Execute /\ m.Store = k.Store
    BY <1>1 DEF CoreType
  <2> HIDE DEF m
  <2>3. l = m
    BY <1>1, <2>1, <2>2, BecomeEffect
  <2> QED
    BY <1>5, <1>6, <2>1, <2>2, <2>3 DEF FetchMoves, NothingNew, InStages, SameInstruction
<1>8. CASE FetchDelivers(c, k)
  <2> DEFINE m == [k EXCEPT !.fetching_active = FALSE,
                            !.instruction_count = Count(k.instruction_count),
                            !.Fetch = TRUE,
                            !.Decode = instr,
                            !.pc = Wrap(k.pc + 4)]
  <2>1. /\ Become(c, m) /\ CanFetch(c, k) /\ MembusRead(c, k.pc)
        /\ value # UINT32_MAX /\ k.Decode = NoInstruction
    BY <1>8 DEF FetchDelivers, CanFetch
  <2>2. PICK n \in Places(c) :
            k.pc = Placed(c, n) /\ memory[k.pc] = binary[c][n]
    BY <1>5, <2>1
  <2>3. k.pc \in Address /\ k.pc \in Word
    BY <1>1, <1>5, <2>1 DEF CoreType
  <2>4. ~HeldByOther(c, k.pc)
    BY <2>2, <2>3 DEF CodeInPlace, CodeNotShared, HeldByOther
  <2>5. value = memory[k.pc] /\ value \in Word
    BY <1>1, <2>1, <2>3, <2>4 DEF MembusReadResult, RamReadResult
  <2> HIDE DEF value
  <2>6. /\ instr \in InstructionType /\ instr # NoInstruction
        /\ instr.binary = value /\ instr.fetched_at = k.pc
    BY <2>3, <2>5, NewInstructionType
  <2>7. Wrap(k.pc + 4) \in Word
    <3>1. k.pc + 4 \in Int
      BY <2>3, WordAssumption
    <3> QED
      BY <3>1, WrapIsWord
  <2>8. Count(k.instruction_count) \in 0 .. CountBound
    BY <1>1, CountIsBounded DEF CoreType
  <2> HIDE DEF instr
  <2>9. /\ m \in CoreType /\ m.pc = Wrap(k.pc + 4) /\ m.Decode = instr
        /\ m.Execute = k.Execute /\ m.Store = k.Store
        /\ m.fetching_active = FALSE
    BY <1>1, <2>6, <2>7, <2>8 DEF CoreType
  <2> HIDE DEF m
  <2>10. l = m
    BY <1>1, <2>1, <2>9, BecomeEffect
  <2>11. Belongs(c, instr)
    BY <2>2, <2>5, <2>6 DEF Belongs
  <2> QED
    BY <1>5, <1>6, <2>1, <2>6, <2>9, <2>10, <2>11 DEF FetchMoves
<1> QED
  BY <1>3, <1>4, <1>7, <1>8 DEF Fetch

\* Each call of a stage leaves the code in place.
LEMMA StageInPlace ==
    ASSUME SimInv, PipelineInv, CodeLeftAlone, CodeInPlace,
           NEW c \in Present, StageCall(c)
    PROVE  CodeInPlace'
<1> DEFINE k == cores[c]
           l == cores'[c]
<1>1. /\ status = "running" /\ status' = "running" /\ turn.core = c
      /\ UNCHANGED <<binary, loaded>>
      /\ cores' \in [Present -> CoreType]
      /\ \A d \in Present : d # c => cores'[d] = cores[d]
  BY StageCallEffect
<1>2. /\ SimTypeOK /\ SimTypeOK' /\ FilesApart
      /\ cores \in [Present -> CoreType] /\ c \in CoreId
      /\ Present' = Present
  BY <1>1, StageCallKeeps, PlacesOf DEF SimInv, SimTypeOK, CodeLeftAlone, Present
<1>3. /\ l.start_address = k.start_address
      /\ l.max_instruction_address = k.max_instruction_address
      /\ CodeAround(c)
      /\ \/ NothingNew(k, l)
         \/ /\ Belongs(c, l.Decode)
            /\ l.Execute = k.Execute /\ l.Store = k.Store
  <2>1. Present \in SUBSET CoreId /\ HoldMatches(k) /\ BusInv
    BY <1>2, PresentType, PresentCores DEF SimInv, HoldMatchesStore
  <2>2. CASE CallStore(c)
    <3>1. Store(c)
      BY <2>2 DEF CallStore
    <3>2. AroundStore(k, l)
      BY <1>2, <2>1, <3>1, StoreEffect
    <3>3. l.Store \in {k.Store, NoInstruction}
      BY <1>1, <1>2, <3>1, StoreRefines
    <3>4. NothingNew(k, l)
      BY <3>2, <3>3 DEF NothingNew, InStages, AroundStore, SameInstruction
    <3>5. CodeAround(c)
      <4>1. CASE StoreIdle(k)
        BY <4>1, IdleAround DEF StoreIdle, coreVars, busVars
      <4>2. CASE CallWrite(c, k)
        <5>1. /\ StoreAddress(k) \in Address /\ ~InCode(StoreAddress(k))
              /\ MembusWrite(c, StoreAddress(k), StoreValue(k), 0)
          BY <4>2 DEF CallWrite, WriteFaults, Fault, CodeLeftAlone
        <5> QED
          BY <1>2, <5>1, WriteAround
      <4> QED
        BY <3>1, <4>1, <4>2 DEF Store, StorePending, StoreCompletes
    <3> QED
      BY <3>2, <3>4, <3>5 DEF AroundStore
  <2>3. CASE CallExecute(c)
    <3>1. Execute(c)
      BY <2>3 DEF CallExecute
    <3>2. AroundExecute(k, l)
      BY <1>2, <2>1, <3>1, ExecuteEffect, FloatsYieldWords
    <3>3. Stays(k, l) \/ Retires(k, l) \/ Sends(k, l)
      BY <3>1, ExecuteMoves
    <3>4. NothingNew(k, l)
      BY <3>3 DEF NothingNew, InStages, Stays, Retires, Sends, SameInstruction
    <3>5. CodeAround(c)
      <4>1. CASE UNCHANGED busVars
        BY <4>1, IdleAround
      <4>2. CASE /\ k.Execute # NoInstruction
                 /\ Operands(k.Execute).name \in Loading
                 /\ LoadAddress(k) \in Address
                 /\ MembusRead(c, LoadAddress(k))
        <5>1. ~InCode(LoadAddress(k))
          BY <4>2 DEF CodeLeftAlone
        <5> QED
          BY <1>2, <4>2, <5>1, ReadAround
      <4> QED
        BY <3>1, <4>1, <4>2, ExecuteMoves
    <3> QED
      BY <3>2, <3>4, <3>5 DEF AroundExecute
  <2>4. CASE CallDecode(c)
    <3>1. Decode(c)
      BY <2>4 DEF CallDecode
    <3>2. AroundFront(k, l)
      BY <1>2, <2>1, <3>1, DecodeEffect
    <3>3. NothingNew(k, l)
      <4> DEFINE m == [k EXCEPT !.Decode = NoInstruction, !.Execute = k.Decode]
      <4>1. k \in CoreType /\ Become(c, IF CanMoveToExecute(k) THEN m ELSE k)
        BY <1>2, <3>1 DEF Decode
      <4>2. /\ m \in CoreType /\ m.Decode = NoInstruction /\ m.Execute = k.Decode
            /\ m.Store = k.Store
        BY <4>1, NoInstructionType DEF CoreType
      <4> HIDE DEF m
      <4>3. l \in {k, m}
        BY <1>2, <4>1, <4>2, BecomeEffect
      <4> QED
        BY <4>2, <4>3 DEF NothingNew, InStages, SameInstruction
    <3> QED
      BY <3>1, <3>2, <3>3, IdleAround DEF Decode, AroundFront
  <2>5. CASE CallFetch(c)
    <3>1. Fetch(c)
      BY <2>5 DEF CallFetch
    <3>2. AroundFront(k, l)
      BY <1>2, <2>1, <3>1, FetchEffect
    <3> QED
      BY <1>1, <1>2, <3>1, <3>2, FetchInPlace DEF AroundFront, FetchMoves
  <2> QED
    BY <2>2, <2>3, <2>4, <2>5 DEF StageCall
<1>4. WordsInPlace' /\ CodeNotShared'
  BY <1>1, <1>2, <1>3, CodeStays DEF CodeInPlace
<1>5. LoadedInTurn'
  <2> SUFFICES ASSUME NEW d \in Present PROVE Loaded(d)'
    BY <1>2 DEF LoadedInTurn
  <2>1. Loaded(d)
    BY <1>1 DEF CodeInPlace, LoadedInTurn
  <2> QED
    BY <1>1, <1>3, <2>1 DEF Loaded, LastPlace, Placed
<1>6. \A d \in Present : \A instr : Belongs(d, instr)' <=> Belongs(d, instr)
  BY <1>1 DEF Belongs, Places, Placed
<1>7. \A d \in Present : \A instr \in InStages(cores[d]) : Belongs(d, instr)
  BY <1>2, HoldsProgram DEF CodeInPlace
<1>8. \A i, j : SameInstruction(i, j) /\ Belongs(c, j) => Belongs(c, i)
  BY DEF SameInstruction, Belongs
<1>9. ASSUME NEW d \in Present, NEW instr \in InStages(cores'[d])
      PROVE  Belongs(d, instr)
  <2>1. CASE d # c
    BY <1>1, <1>7, <1>9, <2>1
  <2>2. CASE d = c /\ NothingNew(k, l)
    BY <1>7, <1>8, <1>9, <2>2 DEF NothingNew
  <2>3. CASE /\ d = c /\ Belongs(c, l.Decode)
             /\ l.Execute = k.Execute /\ l.Store = k.Store
    BY <1>7, <1>9, <2>3 DEF InStages
  <2> QED
    BY <1>3, <2>1, <2>2, <2>3
<1>10. PipelineHoldsProgram'
  <2>1. StagesBelong'
    BY <1>2, <1>6, <1>9 DEF StagesBelong, InStages
  <2> QED
    BY <1>2, <2>1, HoldsProgramNext
<1> QED
  BY <1>4, <1>5, <1>10 DEF CodeInPlace

(***************************************************************************)
(* The loader, and the steps of run() that call nothing.                   *)
(***************************************************************************)
LEMMA NothingHeld ==
    ASSUME NEW c \in Present,
           {cores[c].Decode, cores[c].Execute, cores[c].Store} = {NoInstruction}
    PROVE  InStages(cores[c]) = {}
  BY DEF InStages

LEMMA LoadWordInPlace ==
    ASSUME SimInv, PipelineInv, CodeLeftAlone, CodeInPlace,
           NEW c \in Present, LoadWord(c)
    PROVE  CodeInPlace'
<1> DEFINE n == loaded[c] + 1
           p == Placed(c, n)
<1>1. /\ status = "loading" /\ UNCHANGED <<cores, binary, status, turn>>
      /\ loaded' = [loaded EXCEPT ![c] = n]
      /\ loaded[c] < Len(binary[c])
      /\ UNCHANGED addressInUse
      /\ SimTypeOK /\ SimTypeOK' /\ FilesApart
      /\ Present' = Present
  BY LoadWordEffect, LoadWordKeeps DEF SimInv, CodeLeftAlone, Present
<1>2. /\ c \in CoreId /\ StartAddress[c] \in Nat /\ Len(binary[c]) \in Nat
      /\ loaded[c] \in Nat /\ n \in Places(c) /\ LoadTo(c) = p
  BY <1>1, PlacesOf DEF Places, Placed, LoadTo
<1>3. /\ p \in Address /\ ~Outside(p)
      /\ memory' = [memory EXCEPT ![p] = binary[c][n]]
  <2>1. /\ LoadTo(c) \in Address /\ ~Outside(LoadTo(c))
        /\ MembusWriteBypass(c, LoadTo(c), binary[c][n])
    BY DEF LoadWord, Fault
  <2> QED
    BY <1>1, <1>2, <2>1, BypassEffect DEF SimInv, BusInv, NothingBegun
<1> HIDE DEF n, p
<1>4. ASSUME NEW d \in Present, NEW m \in 1 .. loaded'[d]
      PROVE  /\ Placed(d, m) \in Address /\ ~Outside(Placed(d, m))
             /\ memory'[Placed(d, m)] = binary[d][m]
  <2>1. m \in Places(d)
    BY <1>1, <1>2, <1>4, PlacesOf DEF Places, SimTypeOK
  <2>2. CASE Placed(d, m) = p
    <3>1. d = c /\ m = n
      BY <1>1, <1>2, <2>1, <2>2, PlacesDiffer DEF p
    <3> QED
      BY <1>3, <2>2, <3>1 DEF SimTypeOK, MembusTypeOK, RamTypeOK, SimInv
  <2>3. CASE Placed(d, m) # p
    <3>1. m \in 1 .. loaded[d]
      <4>1. CASE d = c
        <5>1. m <= n /\ m # n /\ m \in Nat /\ 1 <= m
          BY <1>1, <1>2, <1>4, <2>3, <4>1 DEF p, SimTypeOK, n
        <5> QED
          BY <1>2, <4>1, <5>1 DEF n
      <4>2. CASE d # c
        BY <1>1, <1>4, <4>2 DEF SimTypeOK
      <4> QED
        BY <4>1, <4>2
    <3>2. /\ Placed(d, m) \in Address /\ ~Outside(Placed(d, m))
          /\ memory[Placed(d, m)] = binary[d][m]
      BY <3>1 DEF CodeInPlace, WordsInPlace
    <3> QED
      BY <1>1, <1>3, <2>3, <3>2 DEF SimTypeOK, MembusTypeOK, RamTypeOK
  <2> QED
    BY <2>2, <2>3
<1>5. WordsInPlace'
  BY <1>1, <1>4 DEF WordsInPlace, Placed
<1>6. CodeNotShared'
  BY <1>1 DEF CodeInPlace, CodeNotShared, Places, Placed, InUse
<1>7. LoadedInTurn'
  <2> SUFFICES ASSUME NEW d \in Present, ~(turn.core <= d)
               PROVE  Loaded(d)'
    BY <1>1 DEF LoadedInTurn
  <2>1. Loaded(d) /\ d # c
    <3>1. turn.core = c /\ c <= c
      BY <1>2, PlacesOf, <1>1 DEF LoadWord, MoreToLoad
    <3> QED
      BY <1>1, <3>1 DEF CodeInPlace, LoadedInTurn
  <2> QED
    BY <1>1, <2>1 DEF Loaded, LastPlace, Placed, SimTypeOK
<1>8. PipelineHoldsProgram'
  <2>1. \A d \in Present : InStages(cores[d]) = {}
    BY <1>1, NothingHeld DEF PipelineInv
  <2>2. StagesBelong'
    BY <1>1, <2>1 DEF StagesBelong, InStages
  <2> QED
    BY <1>1, <2>2, HoldsProgramNext
<1> QED
  BY <1>5, <1>6, <1>7, <1>8 DEF CodeInPlace

LEMMA LoadEndsInPlace ==
    ASSUME SimInv, PipelineInv, CodeLeftAlone, CodeInPlace,
           NEW c \in Present, LoadEnds(c)
    PROVE  CodeInPlace'
<1> DEFINE k == cores[c]
           start == StartAddress[c]
           last == LastPlace(c)
           l == [k EXCEPT !.start_address = start,
                          !.max_instruction_address = last]
<1>1. /\ status = "loading" /\ turn.core = c /\ loaded[c] = Len(binary[c])
      /\ UNCHANGED <<busVars, binary, loaded>>
      /\ SimTypeOK /\ SimTypeOK' /\ FilesApart
      /\ Present' = Present
      /\ cores \in [Present -> CoreType]
  BY LoadEndsKeeps DEF LoadEnds, SimInv, SimTypeOK, CodeLeftAlone, Present
<1>2. /\ c \in CoreId /\ c \in Nat
      /\ StartAddress[c] \in Nat /\ StartAddress[c] \in Word
      /\ Len(binary[c]) \in Nat /\ Len(binary[c]) > 0
      /\ NumCores \in Nat /\ \A d \in Present : d \in Nat /\ d < NumCores
  <2>1. binary[c] # <<>> /\ binary[c] \in Seq(Word)
    BY <1>1, PresentType DEF FilesApart
  <2>2. Len(binary[c]) > 0
    BY <2>1
  <2> QED
    BY <1>1, <2>2, PlacesOf, PresentType, PresentCores, SimulatorAssumption
<1>3. LastPlace(c) \in Address
  <2>1. Len(binary[c]) \in 1 .. loaded[c]
    BY <1>1, <1>2
  <2> QED
    BY <2>1 DEF CodeInPlace, WordsInPlace, LastPlace
<1>4. Wrap(LoadTo(c) - 4) = LastPlace(c)
  <2>1. LoadTo(c) - 4 = LastPlace(c)
    BY <1>1, <1>2 DEF LoadTo, LastPlace, Placed
  <2>2. LastPlace(c) \in Word
    BY <1>3, WordAssumption
  <2> QED
    BY <2>1, <2>2, WrapOfWord
<1>5. Become(c, l)
  BY <1>4 DEF LoadEnds
<1>6. k \in CoreType /\ start \in Word /\ last \in Word
  BY <1>1, <1>2, <1>3, WordAssumption
<1> HIDE DEF start, last
<1>7. /\ l \in CoreType /\ l.start_address = start
      /\ l.max_instruction_address = last
      /\ InStages(l) = InStages(k)
  BY <1>6 DEF CoreType, InStages
<1> HIDE DEF l
<1>8. cores'[c] = l /\ \A d \in Present : d # c => cores'[d] = cores[d]
  BY <1>1, <1>5, <1>7, BecomeEffect
<1>9. WordsInPlace' /\ CodeNotShared'
  BY <1>1 DEF CodeInPlace, WordsInPlace, CodeNotShared, Places, Placed, InUse, busVars
<1>10. LoadedInTurn'
  <2> SUFFICES ASSUME NEW d \in Present
               PROVE  Loaded(d)' \/ (status' = "loading" /\ turn'.core <= d)
    BY <1>1 DEF LoadedInTurn
  <2>1. CASE d = c
    BY <1>1, <1>7, <1>8, <2>1 DEF Loaded, LastPlace, Placed, start, last
  <2>2. CASE d # c /\ Loaded(d)
    BY <1>1, <1>8, <2>2 DEF Loaded, LastPlace, Placed
  <2>3. CASE d # c /\ ~Loaded(d)
    <3>1. c <= d
      BY <1>1, <2>3 DEF CodeInPlace, LoadedInTurn
    <3>2. c + 1 <= d /\ c + 1 < NumCores /\ NumCores # c + 1
      BY <1>2, <2>3, <3>1
    <3>3. turn.core \in Nat /\ turn' = [turn EXCEPT !.core = c + 1] /\ status' = status
      BY <3>2, <1>1, <1>2 DEF LoadEnds
    <3> QED
      BY <1>1, <3>2, <3>3 DEF SimTypeOK
  <2> QED
    BY <2>1, <2>2, <2>3
<1>11. PipelineHoldsProgram'
  <2>1. \A d \in Present : InStages(cores'[d]) = {}
    BY <1>1, <1>7, <1>8, NothingHeld DEF PipelineInv
  <2>2. StagesBelong'
    BY <1>1, <2>1 DEF StagesBelong, InStages
  <2> QED
    BY <1>1, <2>2, HoldsProgramNext
<1> QED
  BY <1>9, <1>10, <1>11 DEF CodeInPlace

LEMMA LoopInPlace ==
    ASSUME CodeInPlace,
           \/ EndCycle
           \/ \E c \in Present : SkipCore(c) \/ Terminate(c)
           \/ UNCHANGED simVars
    PROVE  CodeInPlace'
<1>1. UNCHANGED <<cores, memory, addressDelays, addressInUse, binary, loaded>>
  BY DEF EndCycle, SkipCore, Terminate, simVars, coreVars
<1>2. UNCHANGED <<status, turn>> \/ status' = "terminated" \/ status = "running"
  BY DEF EndCycle, SkipCore, Terminate, simVars
<1>3. Present' = Present
  BY <1>1 DEF Present
<1>4. WordsInPlace' /\ CodeNotShared'
  BY <1>1, <1>3 DEF CodeInPlace, WordsInPlace, CodeNotShared, Places, Placed, InUse
<1>5. LoadedInTurn'
  BY <1>1, <1>2, <1>3 DEF CodeInPlace, LoadedInTurn, Loaded, LastPlace, Placed
<1>6. PipelineHoldsProgram'
  BY <1>1, <1>3 DEF CodeInPlace, PipelineHoldsProgram
<1> QED
  BY <1>4, <1>5, <1>6 DEF CodeInPlace

LEMMA CodeInitial ==
    ASSUME Init
    PROVE  CodeInPlace
<1>1. ASSUME NEW c \in Present
      PROVE  /\ loaded[c] = 0
             /\ {cores[c].Decode, cores[c].Execute, cores[c].Store} = {NoInstruction}
  BY DEF Init, NewCore
<1>2. SimInv /\ status = "loading" /\ turn.core = 0
  BY SimInitial DEF Init
<1>3. WordsInPlace
  BY <1>1 DEF WordsInPlace
<1>4. CodeNotShared
  BY <1>2 DEF CodeNotShared, SimInv, NothingBegun
<1>5. LoadedInTurn
  <2>1. \A c \in Present : 0 <= c
    BY <1>2, PlacesOf DEF SimInv
  <2> QED
    BY <1>2, <2>1 DEF LoadedInTurn
<1>6. PipelineHoldsProgram
  <2>1. \A c \in Present : \A instr \in InStages(cores[c]) : Belongs(c, instr)
    BY <1>1, NothingHeld
  <2> QED
    BY <1>2, <2>1, HoldsProgram DEF SimInv
<1> QED
  BY <1>3, <1>4, <1>5, <1>6 DEF CodeInPlace

LEMMA CodeStep ==
    ASSUME SimInv, PipelineInv, CodeLeftAlone, CodeInPlace, [Next]_simVars
    PROVE  CodeInPlace'
<1>1. \/ \E c \in Present : StageCall(c) \/ LoadWord(c) \/ LoadEnds(c)
      \/ EndCycle
      \/ \E c \in Present : SkipCore(c) \/ Terminate(c)
      \/ UNCHANGED simVars
  BY DEF Next, StageCall
<1> QED
  BY <1>1, StageInPlace, LoadWordInPlace, LoadEndsInPlace, LoopInPlace

\* As long as no store and no load goes where code is, the words of the files
\* stay where the loader put them and no other core ever uses their addresses
\* (simulator.cpp:22-42, against the stores of core.cpp and membus.cpp).
THEOREM CodeStaysInPlace == Spec /\ []CodeLeftAlone => []CodeInPlace
<1>1. Init => CodeInPlace
  BY CodeInitial
<1>2. SimInv /\ PipelineInv /\ CodeLeftAlone /\ CodeInPlace /\ [Next]_simVars
          => CodeInPlace'
  BY CodeStep
<1> QED
  BY <1>1, <1>2, SimInvariant, PipelineInvariant, PTL DEF Spec

\* Then every instruction in a pipeline is the word of its core's file that belongs
\* at the address it was fetched from, wherever the program branches and jumps to
\* (core.cpp:44-63, after simulator.cpp:22-33).
THEOREM PipelinesHoldPrograms == Spec /\ []CodeLeftAlone => []PipelineHoldsProgram
<1>1. CodeInPlace => PipelineHoldsProgram
  BY DEF CodeInPlace
<1> QED
  BY <1>1, CodeStaysInPlace, PTL
=============================================================================
