------------------------------ MODULE LineProofs ------------------------------
(***************************************************************************)
(* Programs that go straight on.  The pipelines hold consecutive words of  *)
(* the file, so that what holds for neighbouring words of the file holds   *)
(* for the instructions that are in the stages together.  From that: no    *)
(* store changes its address, no call is abandoned, and programs that keep *)
(* to themselves leave what they leave when each runs alone, one           *)
(* instruction after the other.                                            *)
(***************************************************************************)
EXTENDS CodeProofs, WellFoundedInduction

(***************************************************************************)
(* The line of one core.                                                   *)
(***************************************************************************)

\* The place of the instruction in Execute.
ExecuteAt(k, n) == (IF k.Decode = NoInstruction THEN n ELSE n - 1) - 1

LEMMA ExecutePlace ==
    ASSUME SimTypeOK, NEW c \in Present, NEW k,
           NEW n \in 1 .. Len(binary[c]) + 1, LineAt(c, k, n),
           k.Execute # NoInstruction, Belongs(c, k.Execute)
    PROVE  /\ ExecuteAt(k, n) \in Places(c)
           /\ Operands(k.Execute) = InstrAt(c, ExecuteAt(k, n))
<1> DEFINE x == ExecuteAt(k, n)
<1>1. StartAddress[c] \in Nat /\ Len(binary[c]) \in Nat /\ n \in Int /\ x \in Int
  BY PlacesOf DEF ExecuteAt
<1>2. PICK m \in Places(c) :
          k.Execute.fetched_at = Placed(c, m) /\ k.Execute.binary = binary[c][m]
  BY DEF Belongs
<1>3. k.Execute.fetched_at = Placed(c, x)
  BY DEF LineAt, ExecuteAt
<1> HIDE DEF x
<1>4. m = x
  BY <1>1, <1>2, <1>3 DEF Placed, Places
<1> QED
  BY <1>2, <1>4 DEF x, Operands, InstrAt

LEMMA LineAfterStore ==
    ASSUME NEW c, NEW k, NEW l, NEW n, LineAt(c, k, n), AroundStore(k, l),
           l.Store \in {k.Store, NoInstruction}
    PROVE  LineAt(c, l, n)
  BY DEF LineAt, AroundStore

LEMMA LineAfterExecute ==
    ASSUME SimTypeOK, StraightLine, NEW c \in Present, NEW k, NEW l,
           NEW n \in 1 .. Len(binary[c]) + 1, LineAt(c, k, n),
           k.Execute # NoInstruction => Belongs(c, k.Execute),
           l.fetching_active = k.fetching_active,
           Stays(k, l) \/ Retires(k, l) \/ Sends(k, l)
    PROVE  LineAt(c, l, n)
<1> DEFINE x == ExecuteAt(k, n)
           d == IF k.Decode = NoInstruction THEN n ELSE n - 1
           i == Operands(k.Execute)
<1>1. Len(binary[c]) \in Nat /\ n \in Int /\ d \in Int /\ x = d - 1
  BY PlacesOf DEF ExecuteAt
<1>2. CASE Stays(k, l)
  BY <1>2 DEF Stays, LineAt, SameInstruction
<1>3. ASSUME k.Execute # NoInstruction
      PROVE  x \in Places(c) /\ i = InstrAt(c, x) /\ k.Execute.fetched_at = Placed(c, x)
  BY <1>3, ExecutePlace DEF LineAt, ExecuteAt
<1> HIDE DEF x, i
<1>4. CASE Retires(k, l)
  <2>1. x \in Places(c) /\ i = InstrAt(c, x) /\ ~IsStore(c, x)
    BY <1>3, <1>4 DEF Retires, IsStore, i
  <2>2. l.pc = k.pc /\ l.Decode = k.Decode
    BY <1>4, <2>1 DEF Retires, StraightLine, i
  <2>3. ASSUME l.Store # NoInstruction
        PROVE  \E s \in 1 .. d - 1 :
                   /\ l.Store.fetched_at = Placed(c, s)
                   /\ IsStore(c, s)
                   /\ \A j \in s + 1 .. d - 1 : ~IsStore(c, j)
    <3>1. PICK s \in 1 .. x - 1 :
              /\ l.Store.fetched_at = Placed(c, s)
              /\ IsStore(c, s)
              /\ \A j \in s + 1 .. x - 1 : ~IsStore(c, j)
      BY <1>1, <1>4, <2>3 DEF LineAt, Retires
    <3>2. \A j \in s + 1 .. d - 1 : j = x \/ j \in s + 1 .. x - 1
      BY <1>1
    <3> QED
      BY <1>1, <2>1, <3>1, <3>2
  <2> QED
    BY <1>4, <2>2, <2>3 DEF LineAt, Retires
<1>5. CASE Sends(k, l)
  <2>1. /\ x \in Places(c) /\ IsStore(c, x)
        /\ l.Store.fetched_at = Placed(c, x)
    BY <1>3, <1>5 DEF Sends, IsStore, i, SameInstruction
  <2>2. \E s \in 1 .. d - 1 :
            /\ l.Store.fetched_at = Placed(c, s)
            /\ IsStore(c, s)
            /\ \A j \in s + 1 .. d - 1 : ~IsStore(c, j)
    <3>1. x \in 1 .. d - 1 /\ \A j \in x + 1 .. d - 1 : FALSE
      BY <1>1, <2>1 DEF Places
    <3> QED
      BY <2>1, <3>1
  <2> QED
    BY <1>5, <2>2 DEF LineAt, Sends
<1> QED
  BY <1>2, <1>4, <1>5

LEMMA LineAfterDecode ==
    ASSUME NEW c, NEW k \in CoreType, NEW l, NEW n \in Int, LineAt(c, k, n),
           l = IF CanMoveToExecute(k)
               THEN [k EXCEPT !.Decode = NoInstruction, !.Execute = k.Decode]
               ELSE k
    PROVE  LineAt(c, l, n)
<1>1. CASE ~CanMoveToExecute(k)
  BY <1>1
<1>2. CASE CanMoveToExecute(k)
  <2>1. /\ l.Decode = NoInstruction /\ l.Execute = k.Decode /\ l.Store = k.Store
        /\ l.pc = k.pc /\ l.fetching_active = k.fetching_active
        /\ k.Decode # NoInstruction /\ k.Execute = NoInstruction
    BY <1>2 DEF CanMoveToExecute, CoreType
  <2> QED
    BY <2>1 DEF LineAt
<1> QED
  BY <1>1, <1>2

\* Behind a word inside the memory there is an address.
LEMMA WrapPast ==
    ASSUME NEW a \in Address, ~Outside(a)
    PROVE  Wrap(a + 4) = a + 4
<1>1. a + 4 \in Word
  BY WordAssumption DEF Outside
<1> QED
  BY <1>1, WrapOfWord

LEMMA LineAfterFetch ==
    ASSUME SimTypeOK, NEW c \in Present, NEW k, NEW l,
           NEW n \in 1 .. Len(binary[c]) + 1, LineAt(c, k, n),
           \A m \in Places(c) :
               Placed(c, m) \in Address /\ ~Outside(Placed(c, m)),
           FetchMoves(k, l),
           l.Decode = k.Decode \/ k.pc <= LastPlace(c),
           l.fetching_active => k.fetching_active \/ k.pc <= LastPlace(c)
    PROVE  \E m \in 1 .. Len(binary[c]) + 1 : LineAt(c, l, m)
<1>1. StartAddress[c] \in Nat /\ Len(binary[c]) \in Nat /\ n \in Int
  BY PlacesOf
<1>2. k.pc <= LastPlace(c) => n <= Len(binary[c])
  BY <1>1 DEF LineAt, Placed, LastPlace
<1>3. CASE l.Decode = k.Decode /\ l.pc = k.pc
  <2>1. LineAt(c, l, n)
    BY <1>2, <1>3 DEF LineAt, FetchMoves
  <2> QED
    BY <2>1
<1>4. CASE l.Decode # k.Decode
  <2>1. /\ k.Decode = NoInstruction /\ l.Decode # NoInstruction
        /\ l.Decode.fetched_at = k.pc /\ l.pc = Wrap(k.pc + 4)
        /\ ~l.fetching_active
        /\ n <= Len(binary[c])
    BY <1>2, <1>4 DEF FetchMoves
  <2>2. l.pc = Placed(c, n + 1)
    <3>1. n \in Places(c)
      BY <1>1, <2>1 DEF Places
    <3>2. k.pc = Placed(c, n) /\ k.pc \in Address /\ ~Outside(k.pc)
      BY <3>1 DEF LineAt
    <3>3. Wrap(k.pc + 4) = k.pc + 4
      BY <3>2, WrapPast
    <3>4. Placed(c, n + 1) = Placed(c, n) + 4
      BY <1>1 DEF Placed
    <3> QED
      BY <2>1, <3>2, <3>3, <3>4
  <2>3. LineAt(c, l, n + 1)
    BY <1>1, <2>1, <2>2 DEF LineAt, FetchMoves
  <2> QED
    BY <1>1, <2>1, <2>3
<1> QED
  BY <1>3, <1>4 DEF FetchMoves

(***************************************************************************)
(* The lines of all cores.                                                 *)
(***************************************************************************)
LEMMA LineInitial ==
    ASSUME Init, FilesApart
    PROVE  LinesKept
<1>1. ASSUME NEW c \in Present
      PROVE  InLine(c)
  <2>1. /\ cores[c].pc = StartAddress[c]
        /\ cores[c].Decode = NoInstruction
        /\ cores[c].Execute = NoInstruction
        /\ cores[c].Store = NoInstruction
    BY DEF Init, NewCore
  <2>2. SimTypeOK
    BY SimInitial DEF SimInv
  <2>3. StartAddress[c] \in Nat /\ binary[c] \in Seq(Word) /\ binary[c] # <<>>
    BY <2>2, PlacesOf, PresentType DEF FilesApart
  <2>4. 1 <= Len(binary[c]) /\ Len(binary[c]) \in Nat
    BY <2>3
  <2>5. Placed(c, 1) = StartAddress[c]
    BY <2>3 DEF Placed
  <2>6. LineAt(c, cores[c], 1)
    BY <2>1, <2>4, <2>5 DEF LineAt
  <2> QED
    BY <2>4, <2>6 DEF InLine
<1> QED
  BY <1>1 DEF LinesKept

LEMMA LineAsBefore ==
    ASSUME NEW c, UNCHANGED binary, NEW n \in 1 .. Len(binary[c]) + 1,
           LineAt(c, cores'[c], n)
    PROVE  InLine(c)'
<1>1. LineAt(c, cores[c], n)'
  BY DEF LineAt, Placed, IsStore, InstrAt
<1> QED
  BY <1>1 DEF InLine

\* What the words of the file say of the instruction in Execute.
LEMMA ExecuteBelongs ==
    ASSUME SimTypeOK, CodeInPlace, NEW c \in Present, cores[c].Execute # NoInstruction
    PROVE  Belongs(c, cores[c].Execute)
  BY HoldsProgram DEF CodeInPlace, InStages

LEMMA StageInLine ==
    ASSUME SimInv, PipelineInv, CodeLeftAlone, CodeInPlace, StraightLine,
           NEW c \in Present, InLine(c), StageCall(c)
    PROVE  InLine(c)'
<1> DEFINE k == cores[c]
           l == cores'[c]
<1>1. /\ status = "running" /\ UNCHANGED binary
      /\ cores' \in [Present -> CoreType]
  BY StageCallEffect
<1>2. /\ SimTypeOK /\ cores \in [Present -> CoreType] /\ k \in CoreType /\ c \in CoreId
      /\ Present \in SUBSET CoreId /\ HoldMatches(k) /\ BusInv
      /\ FilesApart
  BY PlacesOf, PresentType, PresentCores
     DEF SimInv, SimTypeOK, HoldMatchesStore, CodeLeftAlone
<1>3. PICK n \in 1 .. Len(binary[c]) + 1 : LineAt(c, k, n)
  BY DEF InLine
<1> SUFFICES \E m \in 1 .. Len(binary[c]) + 1 : LineAt(c, l, m)
  BY <1>1, LineAsBefore
<1>4. CASE CallStore(c)
  <2>1. Store(c)
    BY <1>4 DEF CallStore
  <2>2. AroundStore(k, l)
    BY <1>2, <2>1, StoreEffect
  <2>3. l.Store \in {k.Store, NoInstruction}
    BY <1>1, <1>2, <2>1, StoreRefines
  <2> QED
    BY <1>3, <2>2, <2>3, LineAfterStore
<1>5. CASE CallExecute(c)
  <2>1. Execute(c)
    BY <1>5 DEF CallExecute
  <2>2. l.fetching_active = k.fetching_active
    BY <1>2, <2>1, ExecuteEffect, FloatsYieldWords DEF AroundExecute
  <2>3. Stays(k, l) \/ Retires(k, l) \/ Sends(k, l)
    BY <2>1, ExecuteMoves
  <2>4. k.Execute # NoInstruction => Belongs(c, k.Execute)
    BY <1>2, ExecuteBelongs
  <2> QED
    BY <1>2, <1>3, <2>2, <2>3, <2>4, LineAfterExecute
<1>6. CASE CallDecode(c)
  <2> DEFINE m == [k EXCEPT !.Decode = NoInstruction, !.Execute = k.Decode]
             moved == IF CanMoveToExecute(k) THEN m ELSE k
  <2>1. Become(c, moved)
    BY <1>6 DEF CallDecode, Decode
  <2>2. moved \in CoreType
    BY <1>2, NoInstructionType DEF CoreType
  <2>3. l = moved /\ n \in Int
    BY <1>2, <2>1, <2>2, BecomeEffect
  <2>4. LineAt(c, l, n)
    BY <1>2, <1>3, <2>3, LineAfterDecode
  <2> QED
    BY <2>4
<1>7. CASE CallFetch(c)
  <2>1. Fetch(c)
    BY <1>7 DEF CallFetch
  <2>2. /\ FetchMoves(k, l)
        /\ l.Decode = k.Decode \/ k.pc <= LastPlace(c)
        /\ l.fetching_active => k.fetching_active \/ k.pc <= LastPlace(c)
    BY <1>1, <1>2, <2>1, FetchInPlace
  <2>3. \A m \in Places(c) :
            Placed(c, m) \in Address /\ ~Outside(Placed(c, m))
    BY <1>1 DEF CodeInPlace, LoadedInTurn, Loaded, WordsInPlace, Places
  <2> QED
    BY <1>2, <1>3, <2>2, <2>3, LineAfterFetch
<1> QED
  BY <1>4, <1>5, <1>6, <1>7 DEF StageCall

LEMMA LineStep ==
    ASSUME SimInv, PipelineInv, CodeLeftAlone, CodeInPlace, LinesKept, [Next]_simVars
    PROVE  LinesKept'
<1>1. UNCHANGED binary
  BY DEF Next, simVars, LoadWord, LoadEnds, CallStore, CallExecute, CallDecode, CallFetch,
         NextStage, SkipCore, Terminate, EndCycle
<1>2. Present' = Present
  BY <1>1 DEF Present
<1> SUFFICES ASSUME StraightLine, NEW d \in Present
             PROVE  InLine(d)'
  BY <1>1, <1>2 DEF LinesKept, StraightLine, Places, InstrAt
<1>3. PICK n \in 1 .. Len(binary[d]) + 1 : LineAt(d, cores[d], n)
  BY DEF LinesKept, InLine
<1>4. ASSUME cores'[d] = cores[d]
      PROVE  InLine(d)'
  BY <1>1, <1>3, <1>4, LineAsBefore
<1>5. CASE \E c \in Present : StageCall(c)
  <2>1. PICK c \in Present : StageCall(c)
    BY <1>5
  <2>2. CASE c = d
    BY <2>1, <2>2, StageInLine DEF LinesKept
  <2>3. CASE c # d
    BY <1>4, <2>1, <2>3, StageCallEffect
  <2> QED
    BY <2>2, <2>3
<1>6. CASE \E c \in Present : LoadEnds(c)
  <2>1. PICK c \in Present : LoadEnds(c)
    BY <1>6
  <2> DEFINE k == cores[d]
             last == Wrap(LoadTo(c) - 4)
             l == [cores[c] EXCEPT !.start_address = StartAddress[c],
                                   !.max_instruction_address = last]
  <2>2. cores' = [cores EXCEPT ![c] = l] /\ cores \in [Present -> CoreType]
    BY <2>1 DEF LoadEnds, Become, SimInv, SimTypeOK
  <2> HIDE DEF last
  <2>3. /\ cores'[d].pc = k.pc /\ cores'[d].fetching_active = k.fetching_active
        /\ cores'[d].Decode = k.Decode /\ cores'[d].Execute = k.Execute
        /\ cores'[d].Store = k.Store
    BY <2>2 DEF CoreType
  <2>4. LineAt(d, cores'[d], n)
    BY <1>3, <2>3 DEF LineAt
  <2> QED
    BY <1>1, <2>4, LineAsBefore
<1>7. CASE UNCHANGED cores
  BY <1>4, <1>7
<1>8. ASSUME ~(\E c \in Present : StageCall(c) \/ LoadEnds(c))
      PROVE  UNCHANGED cores
  BY <1>8 DEF Next, StageCall, simVars, coreVars, EndCycle, LoadWord, SkipCore, Terminate
<1> QED
  BY <1>5, <1>6, <1>7, <1>8

\* A file without jumps is performed from its first word to its last, each word
\* once and in order, and between a store that waits and the instruction in
\* Execute there is no other store (core.cpp:43-63, 85-103, 191-200).
THEOREM LinesAreKept == Spec /\ []CodeLeftAlone => []LinesKept
<1>1. Init /\ CodeLeftAlone => LinesKept
  BY LineInitial DEF CodeLeftAlone
<1>2. SimInv /\ PipelineInv /\ CodeLeftAlone /\ CodeInPlace /\ LinesKept
          /\ [Next]_simVars => LinesKept'
  BY LineStep
<1> QED
  BY <1>1, <1>2, SimInvariant, PipelineInvariant, CodeStaysInPlace, PTL DEF Spec

(***************************************************************************)
(* The registers that an instruction writes.                               *)
(***************************************************************************)
LEMMA WrittenBy ==
    ASSUME NEW i
    PROVE  /\ i.name \in Setting \cup Loading => Written(i) = {i.rd}
           /\ i.name = "jal" => Written(i) = {"ra"}
  BY DEF Written, Setting, Loading

LEMMA ComputedWrites ==
    ASSUME NEW k \in CoreType, NEW i \in InstrType, i.name \in Computing,
           NEW r \in Reg, r \notin Written(i)
    PROVE  Computed(k, i).registers[r] = k.registers[r]
<1> DEFINE l == Computed(k, i)
           set(v) == [k EXCEPT !.registers[i.rd] = v]
           Keeps == l.registers[r] = k.registers[r]
<1>1. ASSUME i.name \in Setting
      PROVE  r # i.rd
  BY <1>1, WrittenBy
<1>2. ASSUME r # i.rd, NEW v
      PROVE  set(v).registers[r] = k.registers[r]
  BY <1>2 DEF CoreType
<1>3. ASSUME NEW d
      PROVE  Move(k, d).registers = k.registers
  BY DEF Move, CoreType
<1> SUFFICES Keeps
  OBVIOUS
<1> HIDE DEF set
<1>4. ASSUME i.name = "addi" PROVE Keeps
  BY <1>1, <1>2, <1>4 DEF Computed, set, Setting
<1>5. ASSUME i.name = "add" PROVE Keeps
  BY <1>1, <1>2, <1>5 DEF Computed, set, Setting
<1>6. ASSUME i.name = "slli" PROVE Keeps
  BY <1>1, <1>2, <1>6 DEF Computed, set, Setting
<1>7. ASSUME i.name = "fadd.s" PROVE Keeps
  BY <1>1, <1>2, <1>7 DEF Computed, set, Setting
<1>8. ASSUME i.name = "fsub.s" PROVE Keeps
  BY <1>1, <1>2, <1>8 DEF Computed, set, Setting
<1>9. ASSUME i.name = "auipc" PROVE Keeps
  <2>1. l = set(Wrap(k.pc + Wrap(AuipcOperand(i) * 4096)))
    BY <1>9 DEF Computed, set
  <2>2. r # i.rd
    BY <1>1, <1>9 DEF Setting
  <2> HIDE DEF l
  <2> QED
    BY <1>2, <2>1, <2>2
<1>10. ASSUME i.name \in {"blt", "beq", "bne"} PROVE Keeps
  <2>1. l \in {k, Move(k, i.imm)}
    BY <1>10 DEF Computed, BranchIf
  <2> HIDE DEF l
  <2> QED
    BY <1>3, <2>1
<1>11. ASSUME i.name = "jal" PROVE Keeps
  <2> DEFINE linked == [k EXCEPT !.registers["ra"] = Wrap(k.pc + 4)]
             jumped == Move(linked, i.imm)
  <2>1. linked.registers[r] = k.registers[r]
    BY <1>11, WrittenBy DEF CoreType
  <2>2. jumped.registers = linked.registers
    BY DEF Move, CoreType
  <2>3. l = IF i.imm # 0 THEN FlushPipeline(jumped) ELSE jumped
    BY <1>11 DEF Computed, Jal
  <2>4. FlushPipeline(jumped).registers = jumped.registers
    BY DEF FlushPipeline, Move, CoreType
  <2> HIDE DEF linked, jumped, l
  <2> QED
    BY <2>1, <2>2, <2>3, <2>4
<1>12. ASSUME i.name = "jalr" PROVE Keeps
  <2> DEFINE m == Move(k, i.imm)
  <2>1. l = [m EXCEPT !.registers[i.rd] = Wrap(k.pc + i.imm)]
    BY <1>12 DEF Computed, Jalr
  <2>2. m \in CoreType /\ m.registers = k.registers
    BY <1>3, MoveEffect DEF InstrType
  <2>3. r # i.rd
    BY <1>1, <1>12 DEF Setting
  <2> HIDE DEF m, l
  <2> QED
    BY <2>1, <2>2, <2>3 DEF CoreType
<1> HIDE DEF Keeps
<1> QED
  BY <1>4, <1>5, <1>6, <1>7, <1>8, <1>9, <1>10, <1>11, <1>12 DEF Computing

\* The paths of a load once more: it waits and writes nothing, or it writes its
\* destination, which no store holds, and leaves the address to others.
LoadWritesNothing(k, l) == Stays(k, l) /\ l.registers = k.registers

LoadWritesItsOwn(c, k, l) ==
    /\ ~LoadHeld(k)
    /\ \A r \in Reg : r # Operands(k.Execute).rd => l.registers[r] = k.registers[r]
    /\ addressInUse'[LoadAddress(k)].core # c \/ memory[LoadAddress(k)] = UINT32_MAX

LEMMA LoadWrites ==
    ASSUME SimInv, NEW c \in Present, Load(c, cores[c])
    PROVE  \/ LoadWritesNothing(cores[c], cores'[c])
           \/ LoadWritesItsOwn(c, cores[c], cores'[c])
<1> DEFINE k == cores[c]
           l == cores'[c]
           a == LoadAddress(k)
           i == Operands(k.Execute)
           s == Started(k)
           value == LoadResult(c, k).value
<1>1. /\ cores \in [Present -> CoreType] /\ k \in CoreType
      /\ c \in CoreId /\ c # NoCore /\ MembusTypeOK
      /\ memory \in [Address -> Word]
  BY PlacesOf DEF SimInv, SimTypeOK, MembusTypeOK, RamTypeOK, NoCore
<1>2. CallRead(c, k)
  BY DEF Load, LoadHolds, LoadDelivers, LoadBlocked, LoadWaits, LoadFallsThrough
<1>3. /\ k.Execute # NoInstruction /\ a \in Address /\ MembusRead(c, a)
      /\ i.rd \in Reg
  BY <1>1, <1>2, LoadOperands DEF CallRead, Executing, Ready, ReadFaults, Fault
<1>4. LoadResult(c, k) \in [value : Word, store : Nat, load : Nat] /\ value \in Word
  BY <1>1, <1>3, ReadResultType DEF LoadResult
<1>5. s \in CoreType /\ Waits(k, s)
  BY <1>1, <1>3, StartedEffect
<1>6. ASSUME value # UINT32_MAX
      PROVE  addressInUse'[a].core # c
  <2>1. CASE HeldByOther(c, a)
    BY <1>1, <1>3, <2>1, ReadEffect DEF HeldByOther
  <2>2. CASE ~HeldByOther(c, a)
    <3>1. EntryAfterRead(c, a) = Free
      BY <1>6, <2>2 DEF LoadResult, MembusReadResult, EntryAfterRead
    <3> QED
      BY <1>1, <1>3, <2>2, <3>1, ReadEffect DEF MembusTypeOK, Free
  <2> QED
    BY <2>1, <2>2
<1>7. UINT32_MAX # UINT32_MAX - 1
  BY WordAssumption
<1> HIDE DEF s, value
<1>8. CASE LoadHolds(c, k)
  <2>1. l = s
    BY <1>1, <1>5, <1>8, BecomeEffect DEF LoadHolds, s
  <2> QED
    BY <1>3, <1>5, <2>1 DEF Waits, Stays, LoadWritesNothing
<1>9. CASE LoadWaits(c, k)
  <2>1. PICK m \in CoreType : Become(c, m) /\ Waits(k, m)
    BY <1>1, <1>9, LoadWaitsEffect
  <2>2. l = m
    BY <1>1, <2>1, BecomeEffect
  <2> QED
    BY <1>3, <2>1, <2>2 DEF Waits, Stays, LoadWritesNothing
<1>10. CASE LoadBlocked(c, k)
  <2> DEFINE m == [s EXCEPT !.registers[i.rd] = value]
  <2>1. Become(c, m) /\ ~LoadHeld(k) /\ value # UINT32_MAX
    BY <1>7, <1>10 DEF LoadBlocked, s, value
  <2>2. m \in CoreType /\ m.registers = [s.registers EXCEPT ![i.rd] = value]
    BY <1>3, <1>4, <1>5, SetRegister
  <2>3. s.registers = k.registers /\ k.registers \in [Reg -> Word]
    BY <1>1, <1>5 DEF Waits, CoreType
  <2> HIDE DEF m, i
  <2>4. l = m
    BY <1>1, <2>1, <2>2, BecomeEffect
  <2> QED
    BY <1>6, <2>1, <2>2, <2>3, <2>4 DEF LoadWritesItsOwn, i
<1>11. CASE LoadDelivers(c, k)
  <2> DEFINE m == [k EXCEPT !.registers[i.rd] = value]
  <2>1. Become(c, Retire(m)) /\ ~LoadHeld(k) /\ value # UINT32_MAX
    BY <1>11 DEF LoadDelivers, value
  <2>2. m \in CoreType /\ m.registers = [k.registers EXCEPT ![i.rd] = value]
    BY <1>1, <1>3, <1>4, SetRegister
  <2>3. k.registers \in [Reg -> Word]
    BY <1>1 DEF CoreType
  <2> HIDE DEF m, i
  <2>4. Retire(m) \in CoreType /\ Retire(m).registers = m.registers
    BY <2>2, NoInstructionType DEF Retire, CoreType
  <2>5. l = Retire(m)
    BY <1>1, <2>1, <2>4, BecomeEffect
  <2> QED
    BY <1>6, <2>1, <2>2, <2>3, <2>4, <2>5 DEF LoadWritesItsOwn, i
<1>12. CASE LoadFallsThrough(c, k)
  <2>1. /\ LoadResult(c, k) = [value |-> UINT32_MAX, store |-> 0, load |-> 0]
        /\ ~LoadHeld(k) /\ Become(c, Retire(k))
    BY <1>12 DEF LoadFallsThrough
  <2>2. Retire(k) \in CoreType /\ Retire(k).registers = k.registers
    BY <1>1, NoInstructionType DEF Retire, CoreType
  <2>3. l.registers = k.registers
    BY <1>1, <2>1, <2>2, BecomeEffect
  <2>4. ~HeldByOther(c, a)
    BY <1>7, <2>1 DEF LoadResult, MembusReadResult, BlockedRead
  <2>5. /\ RamReadResult(a).store = 0 /\ RamReadResult(a).load = 0
        /\ RamReadResult(a).value = UINT32_MAX
    BY <2>1, <2>4 DEF LoadResult, MembusReadResult
  <2>6. addressDelays[a] \in Delays
    BY <1>1, <1>3 DEF MembusTypeOK, RamTypeOK, Delays
  <2>7. ReadCompletes(addressDelays[a])
    BY <2>5, <2>6, PendingAfterRead DEF RamReadResult
  <2>8. memory[a] = UINT32_MAX
    BY <2>5, <2>7 DEF RamReadResult
  <2> QED
    BY <2>1, <2>3, <2>8 DEF LoadWritesItsOwn
<1> QED
  BY <1>8, <1>9, <1>10, <1>11, <1>12 DEF Load

\* execute() writes what the instruction names, and no register that is held.
LEMMA ExecuteWrites ==
    ASSUME SimInv, NEW c \in Present, Execute(c), NEW r \in Reg,
           cores'[c].registers[r] # cores[c].registers[r]
    PROVE  LET i == Operands(cores[c].Execute) IN
           /\ cores[c].Execute # NoInstruction
           /\ r \in Written(i)
           /\ i.name \in Loading => r = i.rd /\ ~LoadHeld(cores[c])
<1> DEFINE k == cores[c]
           l == cores'[c]
           i == Operands(k.Execute)
<1>1. /\ cores \in [Present -> CoreType] /\ k \in CoreType
      /\ c \in CoreId /\ MembusTypeOK
  BY PlacesOf DEF SimInv, SimTypeOK
<1>2. CASE ExecuteIdle(k)
  BY <1>2 DEF ExecuteIdle, coreVars
<1>3. CASE StartDelay(c, k) \/ CountDown(c, k) \/ Unsupported(c, k)
  <2>1. PICK m \in CoreType : Become(c, m) /\ Waits(k, m)
    BY <1>1, <1>3, DelayEffect, StartedEffect DEF Unsupported, Ready
  <2>2. l = m
    BY <1>1, <2>1, BecomeEffect
  <2> QED
    BY <2>1, <2>2 DEF Waits
<1>4. CASE Compute(c, k)
  <2> DEFINE m == Computed(k, i)
  <2>1. /\ k.Execute # NoInstruction /\ i.name \in Computing
        /\ ~(i.name = "auipc" /\ AuipcFaults(i))
        /\ Become(c, Retire(m))
    BY <1>4 DEF Compute, Executing, Ready
  <2>2. i \in InstrType
    BY <1>1, <2>1, OperandsType DEF CoreType
  <2>3. m \in CoreType
    BY <1>1, <2>1, <2>2, FloatsYieldWords, ComputedEffect
  <2>4. r \notin Written(i) => m.registers[r] = k.registers[r]
    BY <1>1, <2>1, <2>2, ComputedWrites
  <2> HIDE DEF m
  <2>5. Retire(m) \in CoreType /\ Retire(m).registers = m.registers
    BY <2>3, NoInstructionType DEF Retire, CoreType
  <2>6. l = Retire(m)
    BY <1>1, <2>1, <2>5, BecomeEffect
  <2>7. i.name \notin Loading
    BY <2>1 DEF Computing, Loading
  <2> QED
    BY <2>1, <2>4, <2>5, <2>6, <2>7
<1>5. CASE Load(c, k)
  <2>1. k.Execute # NoInstruction /\ i.name \in Loading
    BY <1>5 DEF Load, LoadHolds, LoadDelivers, LoadBlocked, LoadWaits, LoadFallsThrough,
                CallRead, Executing, Ready
  <2>2. LoadWritesItsOwn(c, k, l)
    BY <1>5, LoadWrites DEF LoadWritesNothing
  <2>3. r = i.rd /\ ~LoadHeld(k)
    BY <2>2 DEF LoadWritesItsOwn
  <2> QED
    BY <2>1, <2>3, WrittenBy
<1>6. CASE SendToStore(c, k)
  <2> DEFINE s == Started(k)
             m == [s EXCEPT !.Store = s.Execute, !.Execute = NoInstruction]
  <2>1. Become(c, IF k.Store = NoInstruction THEN m ELSE s) /\ k.Execute # NoInstruction
    BY <1>6 DEF SendToStore, Executing, Ready
  <2>2. s \in CoreType /\ Waits(k, s)
    BY <1>1, <2>1, StartedEffect
  <2> HIDE DEF s
  <2>3. m \in CoreType /\ m.registers = s.registers
    BY <2>2, NoInstructionType DEF CoreType
  <2> HIDE DEF m
  <2>4. l \in {m, s}
    BY <1>1, <2>1, <2>2, <2>3, BecomeEffect
  <2> QED
    BY <2>2, <2>3, <2>4 DEF Waits
<1> QED
  BY <1>2, <1>3, <1>4, <1>5, <1>6 DEF Execute

(***************************************************************************)
(* The store that waits, and the instruction behind it.                    *)
(***************************************************************************)
LEMMA StoreOperandsStay ==
    ASSUME SimInv, PipelineInv, CodeInPlace, OperandsKept,
           NEW c \in Present, InLine(c), CallExecute(c),
           cores[c].Store # NoInstruction
    PROVE  LET k == cores[c]
               l == cores'[c]
               j == Operands(k.Store)
           IN /\ j.rs1 \in Reg /\ j.rs2 \in Reg
              /\ l.registers[j.rs1] = k.registers[j.rs1]
              /\ l.registers[j.rs2] = k.registers[j.rs2]
<1> DEFINE k == cores[c]
           l == cores'[c]
           i == Operands(k.Execute)
           j == Operands(k.Store)
<1>1. SimTypeOK /\ k \in CoreType /\ Execute(c)
  BY DEF SimInv, SimTypeOK, CallExecute
<1>2. j.rs1 \in Reg /\ j.rs2 \in Reg
  BY <1>1, OperandsType DEF CoreType, InstrType
<1>3. k.hold_registers[j.rs1]
  <2>1. StoreStands(c, k)
    BY DEF PipelineInv, CallExecute, Calling
  <2> QED
    BY <2>1 DEF StoreStands, StoreBase
<1>4. ASSUME k.Execute # NoInstruction
      PROVE  ~Spoils(i, j)
  <2>1. PICK n \in 1 .. Len(binary[c]) + 1 : LineAt(c, k, n)
    BY DEF InLine
  <2> DEFINE x == ExecuteAt(k, n)
  <2>2. x \in Places(c) /\ i = InstrAt(c, x)
    BY <1>1, <1>4, <2>1, ExecutePlace, ExecuteBelongs
  <2>3. PICK m \in 1 .. x - 1 :
            /\ k.Store.fetched_at = Placed(c, m)
            /\ IsStore(c, m)
            /\ \A q \in m + 1 .. x - 1 : ~IsStore(c, q)
    BY <1>4, <2>1 DEF LineAt, ExecuteAt
  <2> HIDE DEF x, i
  <2>4. StartAddress[c] \in Nat /\ Len(binary[c]) \in Nat
    BY <1>1, PlacesOf
  <2>5. m \in Places(c) /\ m < x
    BY <2>2, <2>3, <2>4 DEF Places
  <2>6. j = InstrAt(c, m)
    <3>1. Belongs(c, k.Store)
      BY <1>1, HoldsProgram DEF CodeInPlace, InStages
    <3>2. PICK q \in Places(c) :
              k.Store.fetched_at = Placed(c, q) /\ k.Store.binary = binary[c][q]
      BY <3>1 DEF Belongs
    <3>3. q = m
      BY <2>3, <2>4, <2>5, <3>2 DEF Placed, Places
    <3> QED
      BY <3>2, <3>3 DEF Operands, InstrAt
  <2> HIDE DEF j
  <2> QED
    BY <2>2, <2>3, <2>5, <2>6 DEF OperandsKept
<1>5. ASSUME NEW r \in {j.rs1, j.rs2}, l.registers[r] # k.registers[r]
      PROVE  FALSE
  <2>1. /\ k.Execute # NoInstruction
        /\ r \in Written(i)
        /\ i.name \in Loading => r = i.rd /\ ~LoadHeld(k)
    BY <1>1, <1>2, <1>5, ExecuteWrites
  <2>2. ~Spoils(i, j)
    BY <1>4, <2>1
  <2> HIDE DEF i, j
  <2>3. i.name \in Loading => j.rs1 # i.rd
    BY <1>3, <2>1 DEF LoadHeld, i
  <2> QED
    BY <1>5, <2>1, <2>2, <2>3 DEF Spoils
<1> QED
  BY <1>2, <1>5

\* Steps other than those of execute() write no register.
LEMMA RegistersStay ==
    ASSUME SimInv, NEW c \in Present, [Next]_simVars, ~CallExecute(c)
    PROVE  cores'[c].registers = cores[c].registers
<1>1. ASSUME NEW d \in Present, StageCall(d), d # c
      PROVE  cores'[c] = cores[c]
  BY <1>1, StageCallEffect
<1>2. CASE StageCall(c)
  <2>1. /\ cores \in [Present -> CoreType] /\ Present \in SUBSET CoreId
        /\ HoldMatches(cores[c]) /\ BusInv
    BY PresentType, PresentCores DEF SimInv, SimTypeOK, HoldMatchesStore
  <2>2. CASE CallStore(c)
    BY <2>1, <2>2, StoreEffect DEF CallStore, AroundStore
  <2>3. CASE CallDecode(c)
    BY <2>1, <2>3, DecodeEffect DEF CallDecode, AroundFront
  <2>4. CASE CallFetch(c)
    BY <2>1, <2>4, FetchEffect DEF CallFetch, AroundFront
  <2> QED
    BY <1>2, <2>2, <2>3, <2>4 DEF StageCall
<1>3. ASSUME NEW d \in Present, LoadEnds(d)
      PROVE  cores'[c].registers = cores[c].registers
  <2> DEFINE last == Wrap(LoadTo(d) - 4)
             l == [cores[d] EXCEPT !.start_address = StartAddress[d],
                                   !.max_instruction_address = last]
  <2>1. cores' = [cores EXCEPT ![d] = l] /\ cores \in [Present -> CoreType]
    BY <1>3 DEF LoadEnds, Become, SimInv, SimTypeOK
  <2> HIDE DEF last
  <2> QED
    BY <2>1 DEF CoreType
<1>4. ASSUME ~(\E d \in Present : StageCall(d) \/ LoadEnds(d))
      PROVE  UNCHANGED cores
  BY <1>4 DEF Next, StageCall, simVars, coreVars, EndCycle, LoadWord, SkipCore, Terminate
<1> QED
  BY <1>1, <1>2, <1>3, <1>4

\* A store of a program that goes straight on, and leaves the registers of a store
\* alone until the next one, keeps its address and its word from its first call
\* of the bus to its last, though both are computed anew each cycle
\* (core.cpp:207-248).
THEOREM StoresStayPut ==
    Spec /\ []CodeLeftAlone /\ []StraightLine /\ []OperandsKept => StoreStaysPut
<1> DEFINE StaysPut(c) ==
        LET k == cores[c]
            a == StoreAddress(k)
        IN /\ k.Store # NoInstruction
           /\ cores'[c].Store = k.Store
           /\ addressInUse[a].core = c
           /\ addressDelays[a].store > 0
           => /\ StoreAddress(cores'[c]) = a
              /\ StoreValue(cores'[c]) = StoreValue(k)
<1>1. ASSUME SimInv, PipelineInv, CodeInPlace, LinesKept, StraightLine, OperandsKept,
             [Next]_simVars, NEW c \in Present
      PROVE  StaysPut(c)
  <2> DEFINE k == cores[c]
             j == Operands(k.Store)
  <2>1. SUFFICES ASSUME k.Store # NoInstruction, cores'[c].Store = k.Store
                 PROVE  /\ cores'[c].registers[j.rs1] = k.registers[j.rs1]
                        /\ cores'[c].registers[j.rs2] = k.registers[j.rs2]
    BY DEF StoreAddress, StoreValue, EffectiveAddress
  <2>2. CASE CallExecute(c)
    BY <1>1, <2>1, <2>2, StoreOperandsStay DEF LinesKept
  <2>3. CASE ~CallExecute(c)
    BY <1>1, <2>3, RegistersStay
  <2> QED
    BY <2>2, <2>3
<1>2. SimInv /\ PipelineInv /\ CodeInPlace /\ LinesKept /\ StraightLine /\ OperandsKept
          /\ [Next]_simVars => [\A c \in Present : StaysPut(c)]_simVars
  BY <1>1
<1> QED
  BY <1>2, SimInvariant, PipelineInvariant, CodeStaysInPlace, LinesAreKept, PTL
     DEF Spec, StoreStaysPut

(***************************************************************************)
(* The users of the bus.                                                   *)
(***************************************************************************)
\* A core that is called answers for the addresses in its own name.
AnswersFor(c) ==
    \A b \in Address :
        \/ addressInUse'[b] = addressInUse[b] /\ addressInUse[b].core # c
        \/ addressInUse'[b].core = NoCore
        \/ addressInUse'[b].core = c /\ Calls(cores'[c], b)

LEMMA UsersStay ==
    ASSUME UsersCall, NEW c \in Present, UNCHANGED binary, AnswersFor(c),
           \A d \in Present : d # c => cores'[d] = cores[d]
    PROVE  UsersCall'
<1>1. Present' = Present
  BY DEF Present
<1>2. ASSUME NEW b \in Address, addressInUse'[b].core # NoCore
      PROVE  /\ addressInUse'[b].core \in Present
             /\ Calls(cores'[addressInUse'[b].core], b)
  <2>1. CASE addressInUse'[b] = addressInUse[b] /\ addressInUse[b].core # c
    BY <1>2, <2>1 DEF UsersCall, InUse
  <2>2. CASE addressInUse'[b].core = c /\ Calls(cores'[c], b)
    BY <2>2
  <2> QED
    BY <1>2, <2>1, <2>2 DEF AnswersFor
<1> QED
  BY <1>1, <1>2
     DEF UsersCall, InUse, Calls, FetchCalls, LoadCalls, StoreCalls, LoadAddress,
         StoreAddress, EffectiveAddress, Operands

\* A call without the bus.
LEMMA IdleAnswers ==
    ASSUME UsersCall, MembusTypeOK, NEW c \in Present, UNCHANGED addressInUse,
           \A b \in Address : Calls(cores[c], b) => Calls(cores'[c], b)
    PROVE  AnswersFor(c)
  BY DEF UsersCall, AnswersFor, InUse

\* A read, pending or answered, or turned away.
LEMMA ReadAnswers ==
    ASSUME UsersCall, MembusTypeOK, NEW c \in Present, c \in CoreId,
           NEW a \in Address, MembusRead(c, a),
           \A b \in Address : b # a /\ Calls(cores[c], b) => Calls(cores'[c], b),
           addressInUse'[a].core # c \/ Calls(cores'[c], a)
    PROVE  AnswersFor(c)
<1>1. ASSUME NEW b \in Address, b # a
      PROVE  addressInUse'[b] = addressInUse[b]
  BY <1>1, ReadEffect DEF MembusTypeOK
<1>2. \/ addressInUse'[a] = addressInUse[a] /\ addressInUse[a].core # c
      \/ addressInUse'[a].core \in {c, NoCore}
  BY ReadEffect, EntryOfRead DEF MembusTypeOK, HeldByOther
<1>3. ASSUME NEW b \in Address
      PROVE  \/ addressInUse'[b] = addressInUse[b] /\ addressInUse[b].core # c
             \/ addressInUse'[b].core = NoCore
             \/ addressInUse'[b].core = c /\ Calls(cores'[c], b)
  <2>1. CASE b = a
    BY <1>2, <2>1
  <2>2. CASE b # a
    BY <1>1, <2>2 DEF UsersCall, InUse
  <2> QED
    BY <2>1, <2>2
<1> QED
  BY <1>3 DEF AnswersFor

LEMMA StoreAnswers ==
    ASSUME SimInv, PipelineInv, UsersCall, NEW c \in Present, Store(c)
    PROVE  AnswersFor(c)
<1> DEFINE k == cores[c]
           l == cores'[c]
           a == StoreAddress(k)
<1>1. /\ cores \in [Present -> CoreType] /\ k \in CoreType
      /\ c \in CoreId /\ MembusTypeOK /\ c # NoCore
      /\ Present \in SUBSET CoreId /\ HoldMatches(k) /\ BusInv
  BY PlacesOf, PresentType, PresentCores
     DEF SimInv, SimTypeOK, HoldMatchesStore, NoCore
<1>2. AroundStore(k, l)
  BY <1>1, StoreEffect
<1>3. CASE StoreIdle(k)
  BY <1>1, <1>3, IdleAnswers DEF StoreIdle, coreVars
<1>4. \A b : (FetchCalls(k, b) => FetchCalls(l, b)) /\ (LoadCalls(k, b) => LoadCalls(l, b))
  BY <1>2 DEF AroundStore, FetchCalls, LoadCalls, LoadAddress, EffectiveAddress
<1>5. ASSUME CallWrite(c, k)
      PROVE  /\ k.Store # NoInstruction
             /\ a \in Address /\ MembusWrite(c, a, StoreValue(k), 0)
             /\ \A b \in Address : b # a => addressInUse'[b] = addressInUse[b]
  BY <1>1, <1>5, WriteEffect
     DEF CallWrite, WriteFaults, Fault, MembusTypeOK, busVars
<1> HIDE DEF a
<1>6. CASE StorePending(c, k)
  <2> DEFINE m == [k EXCEPT !.hold_registers[StoreBase(k)] = TRUE]
  <2>1. CallWrite(c, k) /\ Become(c, m) /\ k.Store # NoInstruction
    BY <1>6 DEF StorePending, CallWrite
  <2>2. m \in CoreType /\ m.Store = k.Store
    BY <1>1, <2>1, HoldEffect
  <2> HIDE DEF m
  <2>3. l.Store = k.Store
    BY <1>1, <2>1, <2>2, BecomeEffect
  <2>4. \A b : StoreCalls(k, b) => StoreCalls(l, b)
    BY <1>2, <2>3 DEF AroundStore, StoreCalls, StoreAddress, EffectiveAddress
  <2>5. StoreCalls(l, a)
    BY <2>1, <2>4 DEF StoreCalls, a
  <2>6. \/ addressInUse'[a] = addressInUse[a] /\ addressInUse[a].core # c
        \/ addressInUse'[a].core \in {c, NoCore}
    <3>1. CASE HeldByOther(c, a)
      BY <1>1, <1>5, <2>1, <3>1 DEF MembusWrite, HeldByOther, busVars
    <3>2. CASE ~HeldByOther(c, a)
      <4>1. PICK g \in Garbage :
                addressInUse' = [addressInUse EXCEPT ![a] = EntryAfterWrite(c, a, 0, g)]
        BY <1>5, <2>1, <3>2 DEF MembusWrite
      <4>2. EntryAfterWrite(c, a, 0, g).core \in {c, NoCore}
        BY <1>1, <1>5, <2>1, EntryOfWrite
      <4> QED
        BY <1>1, <1>5, <2>1, <4>1, <4>2 DEF MembusTypeOK
    <3> QED
      BY <3>1, <3>2
  <2>7. ASSUME NEW b \in Address
        PROVE  \/ addressInUse'[b] = addressInUse[b] /\ addressInUse[b].core # c
               \/ addressInUse'[b].core = NoCore
               \/ addressInUse'[b].core = c /\ Calls(l, b)
    <3>1. CASE b = a
      BY <2>5, <2>6, <3>1 DEF Calls
    <3>2. CASE b # a
      BY <1>4, <1>5, <2>1, <2>4, <3>2 DEF UsersCall, InUse, Calls
    <3> QED
      BY <3>1, <3>2
  <2> QED
    BY <2>7 DEF AnswersFor
<1>7. CASE StoreCompletes(c, k)
  <2>1. CallWrite(c, k)
    BY <1>7 DEF StoreCompletes
  <2>2. ~HeldByOther(c, a) /\ RamWriteResult(a, 0).value = 1
    BY <1>7 DEF StoreCompletes, MembusWriteResult, BlockedWrite, RamWriteResult, a
  <2>3. addressInUse'[a] = Free
    BY <1>1, <1>5, <2>1, <2>2 DEF MembusWrite, EntryAfterWrite, MembusTypeOK
  <2>4. ASSUME NEW b \in Address
        PROVE  \/ addressInUse'[b] = addressInUse[b] /\ addressInUse[b].core # c
               \/ addressInUse'[b].core = NoCore
               \/ addressInUse'[b].core = c /\ Calls(l, b)
    <3>1. CASE b = a
      BY <2>3, <3>1 DEF Free
    <3>2. CASE b # a
      BY <1>4, <1>5, <2>1, <3>2 DEF UsersCall, InUse, Calls, StoreCalls, a
    <3> QED
      BY <3>1, <3>2
  <2> QED
    BY <2>4 DEF AnswersFor
<1> QED
  BY <1>3, <1>6, <1>7 DEF Store

\* What an instruction that is not a load does to the calls of its core.
LEMMA OtherThanLoad ==
    ASSUME SimInv, NEW c \in Present, Execute(c), ~Load(c, cores[c])
    PROVE  /\ UNCHANGED busVars
           /\ \A b : LoadCalls(cores[c], b) => LoadCalls(cores'[c], b)
<1> DEFINE k == cores[c]
           l == cores'[c]
           i == Operands(k.Execute)
<1>1. cores \in [Present -> CoreType] /\ k \in CoreType
  BY DEF SimInv, SimTypeOK
<1>2. CASE ExecuteIdle(k)
  BY <1>2 DEF ExecuteIdle, coreVars, busVars
<1>3. CASE StartDelay(c, k) \/ CountDown(c, k) \/ Unsupported(c, k)
  <2>1. PICK m \in CoreType : Become(c, m) /\ Waits(k, m)
    BY <1>1, <1>3, DelayEffect, StartedEffect DEF Unsupported, Ready
  <2>2. l = m
    BY <1>1, <2>1, BecomeEffect
  <2>3. UNCHANGED busVars
    BY <1>3 DEF StartDelay, CountDown, Unsupported
  <2>4. Operands(l.Execute) = i /\ l.Execute # NoInstruction /\ l.registers = k.registers
    BY <2>1, <2>2 DEF Waits, SameInstruction, Operands
  <2> QED
    BY <2>3, <2>4 DEF LoadCalls, LoadAddress, EffectiveAddress
<1>4. CASE Compute(c, k) \/ SendToStore(c, k)
  <2>1. UNCHANGED busVars /\ i.name \notin Loading
    BY <1>4 DEF Compute, SendToStore, Executing, Computing, Loading, Storing
  <2> QED
    BY <2>1 DEF LoadCalls
<1> QED
  BY <1>2, <1>3, <1>4 DEF Execute

LEMMA ExecuteAnswers ==
    ASSUME SimInv, PipelineInv, CodeInPlace, StraightLine, OperandsKept, NoReservedWord,
           UsersCall, NEW c \in Present, InLine(c), CallExecute(c)
    PROVE  AnswersFor(c)
<1> DEFINE k == cores[c]
           l == cores'[c]
           a == LoadAddress(k)
           i == Operands(k.Execute)
<1>1. /\ SimTypeOK /\ cores \in [Present -> CoreType] /\ k \in CoreType
      /\ c \in CoreId /\ MembusTypeOK
      /\ Present \in SUBSET CoreId /\ HoldMatches(k) /\ BusInv
      /\ Execute(c)
  BY PlacesOf, PresentType, PresentCores
     DEF SimInv, SimTypeOK, HoldMatchesStore, CallExecute
<1>2. l.fetching_active = k.fetching_active
  BY <1>1, ExecuteEffect, FloatsYieldWords DEF AroundExecute
<1>3. Stays(k, l) \/ Retires(k, l) \/ Sends(k, l)
  BY <1>1, ExecuteMoves
<1>4. l.pc = k.pc /\ l.Decode = k.Decode
  <2>1. CASE Stays(k, l) \/ Sends(k, l)
    BY <2>1 DEF Stays, Sends
  <2>2. CASE Retires(k, l)
    <3>1. PICK n \in 1 .. Len(binary[c]) + 1 : LineAt(c, k, n)
      BY DEF InLine
    <3>2. /\ k.Execute # NoInstruction
          /\ ExecuteAt(k, n) \in Places(c) /\ i = InstrAt(c, ExecuteAt(k, n))
      BY <1>1, <2>2, <3>1, ExecutePlace, ExecuteBelongs DEF Retires
    <3>3. ~(i.name \in Jumping /\ i.imm # 0)
      BY <3>2 DEF StraightLine
    <3> QED
      BY <2>2, <3>3 DEF Retires
  <2> QED
    BY <1>3, <2>1, <2>2
<1>5. \A b : FetchCalls(k, b) => FetchCalls(l, b)
  BY <1>2, <1>4 DEF FetchCalls
<1>6. \A b : StoreCalls(k, b) => StoreCalls(l, b)
  <2>1. SUFFICES ASSUME k.Store # NoInstruction
                 PROVE  l.Store = k.Store /\ StoreAddress(l) = StoreAddress(k)
    BY DEF StoreCalls
  <2>2. l.Store = k.Store
    BY <1>3, <2>1 DEF Stays, Retires, Sends
  <2>3. l.registers[Operands(k.Store).rs1] = k.registers[Operands(k.Store).rs1]
    BY <2>1, StoreOperandsStay
  <2> QED
    BY <2>2, <2>3 DEF StoreAddress, EffectiveAddress
<1>7. CASE Load(c, k)
  <2>1. a \in Address /\ MembusRead(c, a)
    BY <1>1, <1>7, LoadEffect
  <2>2. \A b : LoadCalls(k, b) => b = a
    BY DEF LoadCalls
  <2>3. addressInUse'[a].core # c \/ LoadCalls(l, a)
    <3>1. CASE LoadWritesNothing(k, l)
      <4>1. k.Execute # NoInstruction /\ i.name \in Loading
        BY <1>7 DEF Load, LoadHolds, LoadDelivers, LoadBlocked, LoadWaits,
                    LoadFallsThrough, CallRead, Executing, Ready
      <4>2. /\ l.Execute # NoInstruction /\ Operands(l.Execute) = i
            /\ l.registers = k.registers
        BY <3>1, <4>1 DEF LoadWritesNothing, Stays, SameInstruction, Operands
      <4> QED
        BY <4>1, <4>2 DEF LoadCalls, LoadAddress, EffectiveAddress
    <3>2. CASE LoadWritesItsOwn(c, k, l)
      BY <2>1, <3>2 DEF LoadWritesItsOwn, NoReservedWord
    <3> QED
      BY <1>7, <3>1, <3>2, LoadWrites
  <2> HIDE DEF a
  <2>4. \A b \in Address : b # a /\ Calls(k, b) => Calls(l, b)
    BY <1>5, <1>6, <2>2 DEF Calls
  <2>5. addressInUse'[a].core # c \/ Calls(l, a)
    BY <2>3 DEF Calls
  <2> QED
    BY <1>1, <2>1, <2>4, <2>5, ReadAnswers
<1>8. CASE ~Load(c, k)
  <2>1. UNCHANGED addressInUse /\ \A b : LoadCalls(k, b) => LoadCalls(l, b)
    BY <1>1, <1>8, OtherThanLoad DEF busVars
  <2>2. \A b \in Address : Calls(k, b) => Calls(l, b)
    BY <1>5, <1>6, <2>1 DEF Calls
  <2> QED
    BY <1>1, <2>1, <2>2, IdleAnswers
<1> QED
  BY <1>7, <1>8

LEMMA DecodeAnswers ==
    ASSUME SimInv, UsersCall, NEW c \in Present, Decode(c)
    PROVE  AnswersFor(c)
<1> DEFINE k == cores[c]
           l == cores'[c]
           m == [k EXCEPT !.Decode = NoInstruction, !.Execute = k.Decode]
           moved == IF CanMoveToExecute(k) THEN m ELSE k
<1>1. cores \in [Present -> CoreType] /\ k \in CoreType /\ MembusTypeOK
  BY DEF SimInv, SimTypeOK
<1>2. Become(c, moved) /\ UNCHANGED busVars
  BY DEF Decode
<1>3. moved \in CoreType
  BY <1>1, NoInstructionType DEF CoreType
<1>4. l = moved
  BY <1>1, <1>2, <1>3, BecomeEffect
<1>5. l.Store = k.Store /\ l.registers = k.registers
  BY <1>1, <1>4 DEF CoreType
<1>6. ASSUME NEW b, Calls(k, b)
      PROVE  Calls(l, b)
  <2>1. CASE CanMoveToExecute(k)
    BY <1>5, <1>6, <2>1
       DEF Calls, CanMoveToExecute, FetchCalls, LoadCalls, StoreCalls, StoreAddress,
           EffectiveAddress
  <2>2. CASE ~CanMoveToExecute(k)
    BY <1>4, <1>6, <2>2
  <2> QED
    BY <2>1, <2>2
<1> QED
  BY <1>1, <1>2, <1>6, IdleAnswers DEF busVars

LEMMA FetchAnswers ==
    ASSUME SimInv, FilesApart, CodeInPlace, UsersCall, status = "running",
           NEW c \in Present, InLine(c), Fetch(c)
    PROVE  AnswersFor(c)
<1> DEFINE k == cores[c]
           l == cores'[c]
           value == MembusReadResult(c, k.pc).value
<1>1. /\ SimTypeOK /\ cores \in [Present -> CoreType] /\ k \in CoreType
      /\ c \in CoreId /\ MembusTypeOK
      /\ Present \in SUBSET CoreId /\ HoldMatches(k) /\ BusInv
  BY PlacesOf, PresentType, PresentCores DEF SimInv, SimTypeOK, HoldMatchesStore
<1>2. Loaded(c)
  BY DEF CodeInPlace, LoadedInTurn
<1>3. k.fetching_active => k.pc <= k.max_instruction_address
  BY <1>1, <1>2, PlacesOf DEF InLine, LineAt, Loaded, LastPlace, Placed
<1>4. l.Store = k.Store /\ l.registers = k.registers
  BY <1>1, FetchEffect DEF AroundFront
<1>5. ASSUME l.Execute = k.Execute
      PROVE  \A b : /\ LoadCalls(k, b) => LoadCalls(l, b)
                    /\ StoreCalls(k, b) => StoreCalls(l, b)
  BY <1>4, <1>5 DEF LoadCalls, LoadAddress, StoreCalls, StoreAddress, EffectiveAddress
<1>6. CASE FetchStalls(k)
  BY <1>1, <1>6, IdleAnswers DEF FetchStalls, coreVars
<1>7. CASE FetchEnds(c, k)
  <2> DEFINE m == [k EXCEPT !.fetching_active = FALSE, !.Fetch = FALSE, !.halt = TRUE]
  <2>1. Become(c, m) /\ UNCHANGED busVars /\ k.pc > k.max_instruction_address
    BY <1>7 DEF FetchEnds
  <2>2. m \in CoreType /\ m.Execute = k.Execute
    BY <1>1 DEF CoreType
  <2> HIDE DEF m
  <2>3. l.Execute = k.Execute
    BY <1>1, <2>1, <2>2, BecomeEffect
  <2>4. ~k.fetching_active
    BY <1>1, <1>3, <2>1, WordAssumption DEF CoreType
  <2>5. \A b \in Address : Calls(k, b) => Calls(l, b)
    BY <1>5, <2>3, <2>4 DEF Calls, FetchCalls
  <2> QED
    BY <1>1, <2>1, <2>5, IdleAnswers DEF busVars
<1>8. ASSUME CanFetch(c, k)
      PROVE  /\ k.pc \in Address /\ k.pc \in Word
             /\ ~HeldByOther(c, k.pc)
  <2>1. k.pc \in Address /\ StartAddress[c] <= k.pc /\ k.pc <= LastPlace(c)
    BY <1>1, <1>2, <1>8, PlacesOf, WordAssumption
       DEF CanFetch, ReadFaults, Fault, Loaded, LastPlace, Placed
  <2>2. \A n \in Places(c) : Placed(c, n) \in Address
    BY <1>2 DEF CodeInPlace, WordsInPlace, Loaded, Places
  <2>3. \E n \in Places(c) : k.pc = Placed(c, n)
    BY <1>1, <2>1, <2>2, PlaceOf
  <2> QED
    BY <1>1, <2>1, <2>3 DEF CodeInPlace, CodeNotShared, HeldByOther, CoreType
<1>9. ASSUME MembusRead(c, k.pc), CanFetch(c, k), l.Execute = k.Execute,
             addressInUse'[k.pc].core # c \/ FetchCalls(l, k.pc)
      PROVE  AnswersFor(c)
  <2>1. \A b \in Address : b # k.pc /\ Calls(k, b) => Calls(l, b)
    BY <1>5, <1>9 DEF Calls, FetchCalls
  <2>2. addressInUse'[k.pc].core # c \/ Calls(l, k.pc)
    BY <1>9 DEF Calls
  <2> QED
    BY <1>1, <1>8, <1>9, <2>1, <2>2, ReadAnswers
<1>10. CASE FetchWaits(c, k)
  <2> DEFINE m == [k EXCEPT !.fetching_active = TRUE]
  <2>1. Become(c, m) /\ CanFetch(c, k) /\ MembusRead(c, k.pc)
    BY <1>10 DEF FetchWaits
  <2>2. /\ m \in CoreType /\ m.pc = k.pc /\ m.Decode = k.Decode
        /\ m.Execute = k.Execute /\ m.fetching_active
    BY <1>1 DEF CoreType
  <2> HIDE DEF m
  <2>3. l = m
    BY <1>1, <2>1, <2>2, BecomeEffect
  <2>4. FetchCalls(l, k.pc)
    BY <2>1, <2>2, <2>3 DEF FetchCalls, CanFetch
  <2> QED
    BY <1>9, <2>1, <2>2, <2>3, <2>4
<1>11. CASE FetchDelivers(c, k)
  <2>1. CanFetch(c, k) /\ MembusRead(c, k.pc) /\ value # UINT32_MAX
    BY <1>11 DEF FetchDelivers
  <2>2. ~HeldByOther(c, k.pc) /\ k.pc \in Address
    BY <1>8, <2>1
  <2>3. addressInUse'[k.pc] = Free
    BY <1>1, <2>1, <2>2
       DEF MembusRead, MembusReadResult, EntryAfterRead, MembusTypeOK
  <2>4. l.Execute = k.Execute
    <3>1. FetchMoves(k, l)
      BY FetchInPlace
    <3> QED
      BY <3>1 DEF FetchMoves
  <2>5. c # NoCore
    BY <1>1, CoreAssumption DEF NoCore
  <2> QED
    BY <1>9, <2>1, <2>3, <2>4, <2>5 DEF Free
<1> QED
  BY <1>6, <1>7, <1>10, <1>11 DEF Fetch

(***************************************************************************)
(* The users of all addresses.                                             *)
(***************************************************************************)
LEMMA UsersStep ==
    ASSUME SimInv, PipelineInv, CodeLeftAlone, CodeInPlace, LinesKept, StraightLine,
           OperandsKept, NoReservedWord, UsersCall, [Next]_simVars
    PROVE  UsersCall'
<1>1. CASE \E c \in Present : StageCall(c)
  <2>1. PICK c \in Present : StageCall(c)
    BY <1>1
  <2>2. /\ status = "running" /\ UNCHANGED binary
        /\ \A d \in Present : d # c => cores'[d] = cores[d]
    BY <2>1, StageCallEffect
  <2>3. InLine(c) /\ FilesApart
    BY DEF LinesKept, CodeLeftAlone
  <2>4. AnswersFor(c)
    BY <2>1, <2>2, <2>3, StoreAnswers, ExecuteAnswers, DecodeAnswers, FetchAnswers
       DEF StageCall, CallStore, CallDecode, CallFetch
  <2> QED
    BY <2>2, <2>4, UsersStay
<1>2. CASE \E c \in Present : LoadWord(c) \/ LoadEnds(c)
  <2>1. status = "loading" /\ UNCHANGED addressInUse
    BY <1>2, LoadWordEffect, LoadEndsEffect DEF busVars
  <2>2. \A a \in Address : ~InUse(a)
    BY <2>1 DEF SimInv, NothingBegun
  <2>3. \A a \in Address : ~InUse(a)'
    BY <2>1, <2>2 DEF InUse
  <2> QED
    BY <2>3 DEF UsersCall
<1>3. CASE \/ EndCycle
           \/ \E c \in Present : SkipCore(c) \/ Terminate(c)
           \/ UNCHANGED simVars
  <2>1. UNCHANGED <<cores, addressInUse, binary>>
    BY <1>3 DEF EndCycle, SkipCore, Terminate, simVars, coreVars
  <2> QED
    BY <2>1 DEF UsersCall, InUse, Calls, FetchCalls, LoadCalls, StoreCalls, Present
<1> QED
  BY <1>1, <1>2, <1>3 DEF Next, StageCall

\* Whoever uses an address of the bus is a core that will call for it again.
LEMMA UsersKeepCalling ==
    Spec /\ []CodeLeftAlone /\ []StraightLine /\ []OperandsKept /\ []NoReservedWord
        => []UsersCall
<1>1. Init => UsersCall
  <2> SUFFICES ASSUME Init PROVE UsersCall
    OBVIOUS
  <2>1. SimInv /\ status = "loading"
    BY SimInitial DEF Init
  <2> QED
    BY <2>1 DEF SimInv, NothingBegun, UsersCall
<1>2. SimInv /\ PipelineInv /\ CodeLeftAlone /\ CodeInPlace /\ LinesKept /\ StraightLine
          /\ OperandsKept /\ NoReservedWord /\ UsersCall /\ [Next]_simVars => UsersCall'
  BY UsersStep
<1> QED
  BY <1>1, <1>2, SimInvariant, PipelineInvariant, CodeStaysInPlace, LinesAreKept, PTL
     DEF Spec

\* An address that the bus keeps in use is one that a stage of its user is calling
\* for: nobody waits for an address that its user has forgotten (membus.h:23).
THEOREM UsersAreReal ==
    Spec /\ []CodeLeftAlone /\ []StraightLine /\ []OperandsKept /\ []NoReservedWord
        => []BusUsersAreReal
<1>1. UsersCall => BusUsersAreReal
  BY DEF UsersCall, BusUsersAreReal, Calls
<1> QED
  BY <1>1, UsersKeepCalling, PTL

(***************************************************************************)
(* What a program does alone.                                              *)
(***************************************************************************)
LEMMA LeastNumber ==
    ASSUME NEW T, T \subseteq Nat, T # {}
    PROVE  \E n \in T : \A m \in T : n <= m
<1> DEFINE R == OpToRel(<, Nat)
<1>1. IsWellFoundedOn(R, Nat)
  BY NatLessThanWellFounded
<1>2. \A m, n \in Nat : <<m, n>> \in R <=> m < n
  BY DEF OpToRel
<1> HIDE DEF R
<1>3. PICK n \in T : \A m \in T : ~(<<m, n>> \in R)
  BY <1>1, WFMin
<1>4. ASSUME NEW m \in T
      PROVE  n <= m
  <2>1. m \in Nat /\ n \in Nat /\ ~(m < n)
    BY <1>2, <1>3
  <2> QED
    BY <2>1
<1> QED
  BY <1>3, <1>4

\* The function f has the states of a run of the words, from s.
NextOf(f, s, words, n) ==
    IF n = 0 THEN s ELSE Machine!Effect(f[n - 1], DecodeInstruction(words[n]))

LEMMA RunsExist ==
    ASSUME NEW s, NEW words
    PROVE  \A N \in Nat : \E f : f = [n \in 0 .. N |-> NextOf(f, s, words, n)]
<1> DEFINE Run(f, N) == f = [n \in 0 .. N |-> NextOf(f, s, words, n)]
           T == {N \in Nat : ~\E f : Run(f, N)}
<1> SUFFICES ASSUME T # {} PROVE FALSE
  OBVIOUS
<1>1. PICK N \in T : \A M \in T : N <= M
  BY LeastNumber
<1>2. N \in Nat /\ ~\E f : Run(f, N)
  OBVIOUS
<1>3. CASE N = 0
  <2> DEFINE f == [n \in 0 .. N |-> s]
  <2>1. Run(f, N)
    BY <1>3 DEF NextOf
  <2> QED
    BY <1>2, <2>1
<1>4. CASE N # 0
  <2> DEFINE M == N - 1
  <2>1. M \in Nat /\ ~(N <= M) /\ N = M + 1
    BY <1>2, <1>4
  <2> HIDE DEF M
  <2>2. PICK g : Run(g, M)
    BY <1>1, <2>1
  <2> DEFINE f == [n \in 0 .. N |-> IF n = N THEN NextOf(g, s, words, N) ELSE g[n]]
  <2>3. f[N] = NextOf(g, s, words, N) /\ \A n \in 0 .. M : f[n] = g[n]
    BY <2>1
  <2>4. f = [n \in 0 .. N |-> f[n]]
    OBVIOUS
  <2> HIDE DEF f
  <2>5. ASSUME NEW n \in 0 .. N
        PROVE  f[n] = NextOf(f, s, words, n)
    <3>1. n # 0 => n - 1 \in 0 .. M
      BY <2>1
    <3>2. NextOf(f, s, words, n) = NextOf(g, s, words, n)
      BY <2>3, <3>1 DEF NextOf
    <3>3. n # N => n \in 0 .. M
      BY <2>1
    <3>4. \A m \in 0 .. M : g[m] = NextOf(g, s, words, m)
      BY <2>2
    <3> QED
      BY <2>3, <3>2, <3>3, <3>4
  <2>6. Run(f, N)
    BY <2>4, <2>5
  <2> QED
    BY <1>2, <2>6
<1> QED
  BY <1>3, <1>4

LEMMA AfterEachIs ==
    ASSUME NEW s, NEW words, Len(words) \in Nat
    PROVE  LET f == Machine!AfterEach(s, words) IN
           \A n \in 0 .. Len(words) : f[n] = NextOf(f, s, words, n)
<1> DEFINE f == Machine!AfterEach(s, words)
<1>1. \E g : g = [n \in 0 .. Len(words) |-> NextOf(g, s, words, n)]
  BY RunsExist
<1>2. f = CHOOSE g : g = [n \in 0 .. Len(words) |-> NextOf(g, s, words, n)]
  BY DEF Machine!AfterEach, NextOf
<1>3. f = [n \in 0 .. Len(words) |-> NextOf(f, s, words, n)]
  BY <1>1, <1>2
<1> HIDE DEF f
<1> QED
  BY <1>3

LEMMA AloneIs ==
    ASSUME SimTypeOK, NEW c \in Present
    PROVE  /\ Alone(c)[0] = AtStart(c)
           /\ \A n \in Places(c) :
                  Alone(c)[n] = Machine!Effect(Alone(c)[n - 1], InstrAt(c, n))
<1>1. Len(binary[c]) \in Nat
  BY PlacesOf
<1>2. \A n \in 0 .. Len(binary[c]) :
          Alone(c)[n] = NextOf(Alone(c), AtStart(c), binary[c], n)
  BY <1>1, AfterEachIs DEF Alone
<1>3. 0 \in 0 .. Len(binary[c]) /\ \A n \in Places(c) : n \in 0 .. Len(binary[c]) /\ n # 0
  BY <1>1 DEF Places
<1> QED
  BY <1>2, <1>3 DEF NextOf, InstrAt

(***************************************************************************)
(* The effect of one instruction on any state.                             *)
(***************************************************************************)
MachineType == [registers : [Reg -> Word], memory : [Address -> Word], pc : Word]

Arithmetic == {"addi", "add", "slli", "fadd.s", "fsub.s"}

\* What the instruction computes of the registers.
ValueOf(registers, i) ==
    LET x == registers[i.rs1]
        y == registers[i.rs2]
    IN Wrap(CASE i.name = "addi"   -> x + i.imm
              [] i.name = "add"    -> x + y
              [] i.name = "slli"   -> x * 2 ^ (i.imm % 32)
              [] i.name = "fadd.s" -> FAdd(x, y)
              [] i.name = "fsub.s" -> FSub(x, y))

LEMMA SetType ==
    ASSUME NEW s \in MachineType, NEW r \in Reg, NEW v \in Word
    PROVE  LET t == [s EXCEPT !.registers[r] = v] IN
           /\ t \in MachineType
           /\ t.registers = [s.registers EXCEPT ![r] = v]
           /\ t.memory = s.memory
  BY DEF MachineType

LEMMA ArithmeticEffect ==
    ASSUME NEW s \in MachineType, NEW i \in InstrType, i.name \in Arithmetic
    PROVE  /\ Machine!Effect(s, i) =
                  [s EXCEPT !.registers[i.rd] = ValueOf(s.registers, i)]
           /\ ValueOf(s.registers, i) \in Word
<1> DEFINE x == s.registers[i.rs1]
           y == s.registers[i.rs2]
           after == Machine!Effect(s, i)
           value == ValueOf(s.registers, i)
           set(v) == [s EXCEPT !.registers[i.rd] = Wrap(v)]
           Is(v) == after = set(v) /\ value = Wrap(v) /\ value \in Word
           Goal == after = [s EXCEPT !.registers[i.rd] = value] /\ value \in Word
<1>1. /\ x \in Word /\ y \in Word /\ i.imm \in Int
      /\ x \in Int /\ y \in Int
  BY WordAssumption DEF MachineType, InstrType
<1>2. \A n : Machine!WrapTo(n) = Wrap(n)
  BY DEF Machine!WrapTo, Wrap
<1>3. ASSUME NEW v, Is(v)
      PROVE  Goal
  BY <1>3
<1>4. CASE i.name = "addi"
  <2>1. Wrap(x + i.imm) \in Word
    BY <1>1, WrapIsWord
  <2> QED
    BY <1>2, <1>3, <1>4, <2>1 DEF Machine!Effect, Machine!Loads, Machine!Stores, ValueOf
<1>5. CASE i.name = "add"
  <2>1. Wrap(x + y) \in Word
    BY <1>1, WrapIsWord
  <2> QED
    BY <1>2, <1>3, <1>5, <2>1 DEF Machine!Effect, Machine!Loads, Machine!Stores, ValueOf
<1>6. CASE i.name = "slli"
  <2>1. Wrap(x * 2 ^ (i.imm % 32)) \in Word
    BY <1>1, ShiftIsWord DEF ShiftLeft
  <2> QED
    BY <1>2, <1>3, <1>6, <2>1 DEF Machine!Effect, Machine!Loads, Machine!Stores, ValueOf
<1>7. CASE i.name = "fadd.s"
  <2>1. Wrap(FAdd(x, y)) \in Word
    BY <1>1, FloatAssumption, WrapOfWord
  <2> QED
    BY <1>2, <1>3, <1>7, <2>1 DEF Machine!Effect, Machine!Loads, Machine!Stores, ValueOf
<1>8. CASE i.name = "fsub.s"
  <2>1. Wrap(FSub(x, y)) \in Word
    BY <1>1, FloatAssumption, WrapOfWord
  <2> QED
    BY <1>2, <1>3, <1>8, <2>1 DEF Machine!Effect, Machine!Loads, Machine!Stores, ValueOf
<1> QED
  BY <1>4, <1>5, <1>6, <1>7, <1>8 DEF Arithmetic

LEMMA BranchEffect ==
    ASSUME NEW s \in MachineType, NEW i \in InstrType, i.name \in {"blt", "beq", "bne"}
    PROVE  LET after == Machine!Effect(s, i) IN
           /\ after \in MachineType
           /\ after.registers = s.registers
           /\ after.memory = s.memory
<1> DEFINE after == Machine!Effect(s, i)
           target == Machine!WrapTo(s.pc + i.imm)
           goIf(test) == [s EXCEPT !.pc = IF test THEN target ELSE @]
<1>1. target \in Word
  <2>1. s.pc \in Int /\ i.imm \in Int
    BY WordAssumption DEF MachineType, InstrType
  <2> QED
    BY <2>1, WrapIsWord DEF Machine!WrapTo, Wrap
<1>2. after \in {s, [s EXCEPT !.pc = target]}
  <2> HIDE DEF target
  <2>1. \A test : goIf(test) \in {s, [s EXCEPT !.pc = target]}
    BY DEF MachineType
  <2>2. CASE i.name = "blt"
    BY <2>2 DEF Machine!Effect, Machine!Loads, Machine!Stores, target, MachineType
  <2>3. CASE i.name = "beq"
    BY <2>3 DEF Machine!Effect, Machine!Loads, Machine!Stores, target, MachineType
  <2>4. CASE i.name = "bne"
    BY <2>4 DEF Machine!Effect, Machine!Loads, Machine!Stores, target, MachineType
  <2> QED
    BY <2>2, <2>3, <2>4
<1> HIDE DEF after, target
<1> QED
  BY <1>1, <1>2 DEF MachineType, after

LEMMA LoadingEffect ==
    ASSUME NEW s \in MachineType, NEW i \in InstrType, i.name \in Loading
    PROVE  LET word == s.memory[Machine!Base(s, i)] IN
           Machine!Effect(s, i) =
               IF word = UINT32_MAX THEN s ELSE [s EXCEPT !.registers[i.rd] = Wrap(word)]
<1>1. Machine!Pending = UINT32_MAX
  BY WordAssumption DEF Machine!Pending, Modulus
<1>2. \A n : Machine!WrapTo(n) = Wrap(n)
  BY DEF Machine!WrapTo, Wrap
<1> QED
  BY <1>1, <1>2 DEF Machine!Effect, Machine!Loads, Machine!Stores, Loading

LEMMA StoringEffect ==
    ASSUME NEW s \in MachineType, NEW i \in InstrType, i.name \in Storing
    PROVE  LET after == Machine!Effect(s, i) IN
           /\ after \in MachineType
           /\ after.registers = s.registers
           /\ after.memory = [s.memory EXCEPT ![Machine!Base(s, i)] = s.registers[i.rs2]]
<1>1. Machine!Effect(s, i) = [s EXCEPT !.memory[Machine!Base(s, i)] = s.registers[i.rs2]]
  BY DEF Machine!Effect, Machine!Loads, Machine!Stores, Storing
<1>2. s.registers[i.rs2] \in Word
  BY DEF MachineType, InstrType
<1> QED
  BY <1>1, <1>2 DEF MachineType

(***************************************************************************)
(* Programs that keep to themselves.                                       *)
(***************************************************************************)
Branches == {"blt", "beq", "bne"}

LEMMA InstrAtType ==
    ASSUME SimTypeOK, NEW c \in Present, NEW n \in Places(c)
    PROVE  InstrAt(c, n) \in InstrType
  BY PlacesOf, DecoderAssumption DEF InstrAt, InstrType

LEMMA TimelessNames ==
    ASSUME NEW i, Timeless(i)
    PROVE  /\ i.name \in Arithmetic \cup Branches \cup Loading \cup Storing
           /\ i.name \in Loading => i.rd # i.rs1
  BY DEF Timeless, Supported, Computing, Arithmetic, Branches

LEMMA AtStartType ==
    ASSUME SimTypeOK, NEW c \in Present
    PROVE  AtStart(c) \in MachineType
<1>1. InitialSp[c] \in Word /\ StartAddress[c] \in Word
  BY PlacesOf, SimulatorAssumption
<1>2. memory \in [Address -> Word]
  BY DEF SimTypeOK, MembusTypeOK, RamTypeOK
<1>3. 0 \in Word
  BY WordAssumption
<1> QED
  BY <1>1, <1>2, <1>3 DEF AtStart, MachineType

LEMMA AloneTypes ==
    ASSUME SimTypeOK, KeepToThemselves, NEW c \in Present
    PROVE  \A n \in 0 .. Len(binary[c]) : Alone(c)[n] \in MachineType
<1> DEFINE N == Len(binary[c])
           T == {n \in Nat : n <= N /\ Alone(c)[n] \notin MachineType}
<1>1. N \in Nat
  BY PlacesOf
<1> SUFFICES ASSUME T # {} PROVE FALSE
  BY <1>1
<1>2. PICK n \in T : \A m \in T : n <= m
  BY LeastNumber
<1>3. n \in Nat /\ n <= N /\ Alone(c)[n] \notin MachineType
  OBVIOUS
<1>4. n # 0
  BY <1>3, AloneIs, AtStartType
<1>5. n \in Places(c) /\ n - 1 \in Nat /\ n - 1 <= N /\ ~(n <= n - 1)
  BY <1>1, <1>3, <1>4 DEF Places
<1> DEFINE s == Alone(c)[n - 1]
           i == InstrAt(c, n)
<1>6. s \in MachineType
  BY <1>2, <1>5
<1>7. Alone(c)[n] = Machine!Effect(s, i)
  BY <1>5, AloneIs
<1>8. Timeless(i) /\ i \in InstrType
  BY <1>5, InstrAtType DEF KeepToThemselves
<1>9. i.name \in Loading => Machine!Base(s, i) \in Address
  BY <1>5 DEF KeepToThemselves, KeepApart, IsLoad, AddressAlone, OwnData
<1> HIDE DEF s, i, T, N
<1>10. CASE i.name \in Arithmetic
  <2>1. i.rd \in Reg
    BY <1>8 DEF InstrType
  <2> QED
    BY <1>3, <1>6, <1>7, <1>8, <1>10, <2>1, ArithmeticEffect, SetType
<1>11. CASE i.name \in Branches
  BY <1>3, <1>6, <1>7, <1>8, <1>11, BranchEffect DEF Branches
<1>12. CASE i.name \in Storing
  BY <1>3, <1>6, <1>7, <1>8, <1>12, StoringEffect
<1>13. CASE i.name \in Loading
  <2> DEFINE word == s.memory[Machine!Base(s, i)]
  <2>1. word \in Word /\ i.rd \in Reg
    BY <1>6, <1>8, <1>9, <1>13 DEF MachineType, InstrType
  <2>2. Alone(c)[n] = IF word = UINT32_MAX THEN s ELSE [s EXCEPT !.registers[i.rd] = Wrap(word)]
    BY <1>6, <1>7, <1>8, <1>13, LoadingEffect
  <2> HIDE DEF word
  <2>3. Wrap(word) \in Word
    BY <2>1, WrapOfWord
  <2> QED
    BY <1>3, <1>6, <2>1, <2>2, <2>3, SetType
<1> QED
  BY <1>8, <1>10, <1>11, <1>12, <1>13, TimelessNames

\* The state before and after the word n of a program that runs alone.
LEMMA AloneSteps ==
    ASSUME SimTypeOK, KeepToThemselves, NEW c \in Present, NEW n \in Places(c)
    PROVE  /\ Alone(c)[n - 1] \in MachineType
           /\ Alone(c)[n] \in MachineType
           /\ Alone(c)[n] = Machine!Effect(Alone(c)[n - 1], InstrAt(c, n))
           /\ InstrAt(c, n) \in InstrType
           /\ Timeless(InstrAt(c, n))
<1>1. n \in 0 .. Len(binary[c]) /\ n - 1 \in 0 .. Len(binary[c])
  BY PlacesOf DEF Places
<1> QED
  BY <1>1, AloneTypes, AloneIs, InstrAtType DEF KeepToThemselves

\* What is said of a program alone stays true as long as the arrays do.
LEMMA AloneStays ==
    ASSUME UNCHANGED binary, \A a \in Address : a \in Arrays => memory'[a] = memory[a]
    PROVE  \A c \in Present : Alone(c)' = Alone(c)
<1> SUFFICES ASSUME NEW c \in Present PROVE Alone(c)' = Alone(c)
  OBVIOUS
<1>1. AtStart(c)' = AtStart(c)
  BY DEF AtStart
<1>2. Alone(c)' = Machine!AfterEach(AtStart(c)', binary[c]')
  BY DEF Alone
<1> QED
  BY <1>1, <1>2 DEF Alone

LEMMA OwnStays ==
    ASSUME UNCHANGED binary, \A a \in Address : a \in Arrays => memory'[a] = memory[a],
           NEW c \in Present
    PROVE  /\ \A n \in Places(c) : AddressAlone(c, n)' = AddressAlone(c, n)
           /\ StoresOf(c)' = StoresOf(c)
           /\ OwnData(c)' = OwnData(c)
<1>1. Present' = Present
  BY DEF Present
<1>2. ASSUME NEW d \in Present
      PROVE  /\ Places(d)' = Places(d)
             /\ \A n : InstrAt(d, n)' = InstrAt(d, n)
             /\ \A n : IsStore(d, n)' = IsStore(d, n)
  BY DEF Places, InstrAt, IsStore
<1>3. ASSUME NEW d \in Present, NEW n
      PROVE  AddressAlone(d, n)' = AddressAlone(d, n)
  <2>1. AddressAlone(d, n)' = Machine!Base(Alone(d)'[n - 1], InstrAt(d, n)')
    BY DEF AddressAlone
  <2> QED
    BY <1>2, <2>1, AloneStays DEF AddressAlone
<1>4. ASSUME NEW d \in Present
      PROVE  StoresOf(d)' = StoresOf(d)
  BY <1>2, <1>3 DEF StoresOf
<1>5. \A a : InCode(a)' = InCode(a)
  BY <1>1 DEF InCode, LastPlace, Placed
<1>6. OwnData(c)' = OwnData(c)
  BY <1>1, <1>4, <1>5 DEF OwnData
<1> QED
  BY <1>3, <1>4, <1>6

LEMMA KeepersStay ==
    ASSUME KeepToThemselves, UNCHANGED binary,
           \A a \in Address : a \in Arrays => memory'[a] = memory[a]
    PROVE  KeepToThemselves'
<1>1. Present' = Present
  BY DEF Present
<1>2. ASSUME NEW d \in Present
      PROVE  /\ Places(d)' = Places(d) /\ LastPlace(d)' = LastPlace(d)
             /\ \A n : InstrAt(d, n)' = InstrAt(d, n)
             /\ \A n : IsStore(d, n)' = IsStore(d, n) /\ IsLoad(d, n)' = IsLoad(d, n)
             /\ \A n : Placed(d, n)' = Placed(d, n)
  BY DEF Places, InstrAt, IsStore, IsLoad, LastPlace, Placed
<1>3. \A a : InCode(a)' = InCode(a)
  BY <1>1 DEF InCode, LastPlace, Placed
<1>4. KeepApart'
  <2>1. FilesApart'
    BY <1>1, <1>2 DEF KeepToThemselves, KeepApart, FilesApart
  <2>2. ASSUME NEW c \in Present
        PROVE  /\ \A n \in Places(c)' : Placed(c, n)' \notin Arrays
               /\ \A a \in StoresOf(c)' : ~InCode(a)' /\ a \notin Arrays
               /\ \A n \in Places(c)' :
                      IsLoad(c, n)' =>
                          /\ AddressAlone(c, n)' \in OwnData(c)'
                          /\ Alone(c)'[n - 1].memory[AddressAlone(c, n)'] # UINT32_MAX
    BY <1>2, <1>3, OwnStays, AloneStays DEF KeepToThemselves, KeepApart
  <2> QED
    BY <1>1, <2>1, <2>2 DEF KeepApart
<1>5. StraightLine'
  BY <1>1, <1>2 DEF KeepToThemselves, StraightLine
<1>6. OperandsKept'
  BY <1>1, <1>2 DEF KeepToThemselves, OperandsKept
<1>7. \A c \in Present' : \A n \in Places(c)' : Timeless(InstrAt(c, n)')
  BY <1>1, <1>2 DEF KeepToThemselves
<1> QED
  BY <1>4, <1>5, <1>6, <1>7 DEF KeepToThemselves

LEMMA KeepsUpNext ==
    ASSUME UNCHANGED binary, \A a \in Address : a \in Arrays => memory'[a] = memory[a],
           NEW c \in Present, NEW n, KeepsUp(c, cores'[c], memory', n)
    PROVE  KeepsUp(c, cores[c], memory, n)'
  BY AloneStays, OwnStays
     DEF KeepsUp, Performed, WordAfterStore, StoreAddress, StoreValue, EffectiveAddress,
         Operands

(***************************************************************************)
(* The stages, seen from the program alone.                                *)
(***************************************************************************)

\* The paths of execute() once more, for instructions that do not jump: the
\* instruction waits, is performed, or moves on to the Store stage.
WaitsInPlace(k, l) ==
    LET i == Operands(k.Execute) IN
    /\ Stays(k, l)
    /\ \A r \in Reg :
           l.registers[r] = k.registers[r] \/ (i.name \in Loading /\ r = i.rd)

IsPerformed(c, k, l) ==
    LET i == Operands(k.Execute) IN
    /\ Retires(k, l) /\ i.name \notin Storing
    /\ i.name \in Loading => Machine!MayLoad(c)
    /\ l.registers = Machine!Effect(MachineState(k), i).registers

MovesOn(k, l) == Sends(k, l) /\ l.registers = k.registers

LEMMA LineLengths ==
    ASSUME NEW k \in CoreType, k.Execute # NoInstruction
    PROVE  Line(k) # Tail(Line(k))
<1> DEFINE d == Occupant(k.Decode)
<1>1. k.Execute \in InstructionType /\ k.Decode \in InstructionType
  BY DEF CoreType
<1>2. Line(k) = <<k.Execute.binary>> \o d /\ k.Execute.binary \in Word /\ Tail(Line(k)) = d
  BY <1>1, OccupantIs, LineIs DEF Line
<1>3. d \in Seq(Word)
  <2>1. d = <<>> \/ \E w \in Word : d = <<w>>
    BY <1>1, OccupantIs
  <2> HIDE DEF d
  <2>2. <<>> \in Seq(Word) /\ \A w \in Word : <<w>> \in Seq(Word)
    OBVIOUS
  <2> QED
    BY <2>1, <2>2
<1> HIDE DEF d
<1>4. \A w \in Word : <<w>> \o d # d
  BY <1>3
<1> QED
  BY <1>2, <1>4

LEMMA ExecuteSteps ==
    ASSUME SimInv, PipelineInv, NEW c \in Present, CallExecute(c),
           cores[c].Execute # NoInstruction,
           Timeless(Operands(cores[c].Execute))
    PROVE  LET k == cores[c]
               l == cores'[c]
           IN /\ memory' = memory
              /\ WaitsInPlace(k, l) \/ IsPerformed(c, k, l) \/ MovesOn(k, l)
<1> DEFINE k == cores[c]
           l == cores'[c]
           i == Operands(k.Execute)
<1>1. /\ cores \in [Present -> CoreType] /\ k \in CoreType /\ c \in CoreId /\ Execute(c)
      /\ cores' \in [Present -> CoreType] /\ l \in CoreType
      /\ UNCHANGED binary /\ Present' = Present /\ StoreStands(c, k)
  <2>1. StageCall(c)
    BY DEF StageCall
  <2>2. cores' \in [Present -> CoreType] /\ UNCHANGED binary
    BY <2>1, StageCallEffect
  <2>3. StoreStands(c, k)
    BY DEF PipelineInv, CallExecute, Calling
  <2> QED
    BY <2>2, <2>3, PlacesOf DEF SimInv, SimTypeOK, CallExecute, Present
<1>2. Stays(k, l) \/ Retires(k, l) \/ Sends(k, l)
  BY <1>1, ExecuteMoves
<1>3. UNCHANGED pipeVars \/ Machine!Work(c)
  BY <1>1, ExecuteRefines
<1>4. memory' = memory
  BY <1>3 DEF pipeVars, Machine!Work, Machine!Perform, Machine!Spoil, Machine!Defer
<1>5. /\ regs[c] = k.registers /\ regs'[c] = l.registers
      /\ line[c] = Line(k) /\ line'[c] = Line(l)
      /\ c \in DOMAIN regs /\ c \in DOMAIN line
  BY <1>1 DEF regs, line, Line, Occupant
<1>6. /\ Machine!First(c) = i /\ Machine!State(c) = MachineState(k)
      /\ Line(k) # Tail(Line(k)) /\ Tail(Line(k)) = Occupant(k.Decode)
  BY <1>1, FirstInLine, MachineStateIs, LineLengths, LineIs
<1>7. /\ i.name \in Arithmetic \cup Branches \cup Loading \cup Storing
      /\ i.name # "jal"
  BY TimelessNames DEF Arithmetic, Branches, Loading, Storing
<1>8. ASSUME Stays(k, l)
      PROVE  Line(l) = Line(k)
  BY <1>8 DEF Stays, Line, Occupant, SameInstruction
<1>9. ASSUME Sends(k, l)
      PROVE  Line(l) # Line(k)
  <2>1. l.Execute = NoInstruction /\ l.Decode = k.Decode
    BY <1>9 DEF Sends
  <2> QED
    BY <1>1, <1>6, <2>1, LineIs
<1>10. CASE UNCHANGED pipeVars
  <2>1. l.registers = k.registers /\ Line(l) = Line(k)
    BY <1>5, <1>10 DEF pipeVars
  <2>2. ~Retires(k, l)
    <3>1. ASSUME Retires(k, l), l.Decode = k.Decode
          PROVE  FALSE
      BY <1>1, <1>6, <2>1, <3>1, LineIs DEF Retires
    <3>2. ASSUME Retires(k, l), l.Decode # k.Decode
          PROVE  FALSE
      <4>1. l.Decode = NoInstruction /\ l.Execute = NoInstruction
        BY <3>2 DEF Retires
      <4>2. Line(l) = <<>>
        BY <1>1, <4>1, LineIs, OccupantIs, NoInstructionType
      <4>3. Line(k) # <<>>
        BY <1>1, LineIs
      <4> QED
        BY <2>1, <4>2, <4>3
    <3> QED
      BY <3>1, <3>2
  <2>3. Stays(k, l)
    BY <1>2, <1>9, <2>1, <2>2
  <2> QED
    BY <1>4, <2>1, <2>3 DEF WaitsInPlace
<1>11. ASSUME Machine!Perform(c)
       PROVE  /\ ~Stays(k, l)
              /\ l.registers = Machine!Effect(MachineState(k), i).registers
  <2> DEFINE after == Machine!Effect(MachineState(k), i)
  <2>1. regs' = [regs EXCEPT ![c] = after.registers]
        /\ line' = [line EXCEPT ![c] = Tail(line[c])]
    BY <1>6, <1>7, <1>11 DEF Machine!Perform, regs, next, line, buffer, Line
  <2> HIDE DEF after
  <2>2. l.registers = after.registers /\ Line(l) = Tail(Line(k))
    BY <1>5, <2>1
  <2> QED
    BY <1>6, <1>8, <2>2 DEF after
<1>12. CASE i.name \in Machine!Others /\ Machine!Perform(c)
  <2>1. i.name \notin Storing /\ i.name \notin Loading
    BY <1>12 DEF Machine!Others, Storing, Loading
  <2>2. Retires(k, l)
    BY <1>2, <1>11, <1>12, <2>1 DEF Sends
  <2> QED
    BY <1>4, <1>11, <1>12, <2>1, <2>2 DEF IsPerformed
<1>13. CASE i.name \in Machine!Loads /\ Machine!MayLoad(c) /\ Machine!Perform(c)
  <2>1. i.name \notin Storing
    BY <1>13 DEF Machine!Loads, Storing
  <2>2. Retires(k, l)
    BY <1>2, <1>11, <1>13, <2>1 DEF Sends
  <2> QED
    BY <1>4, <1>11, <1>13, <2>1, <2>2 DEF IsPerformed
<1>14. CASE i.name \in Machine!Loads /\ Machine!Spoil(c)
  <2>1. i.name \in Loading
    BY <1>14 DEF Machine!Loads, Loading
  <2>2. line' = line /\ regs' = [regs EXCEPT ![c][i.rd] = Machine!TurnedAway]
    BY <1>6, <1>14 DEF Machine!Spoil, regs, line, Line
  <2>3. ASSUME NEW r \in Reg, r # i.rd
        PROVE  l.registers[r] = k.registers[r]
    BY <1>1, <1>5, <2>2, <2>3 DEF CoreType
  <2>4. Stays(k, l)
    <3>1. Line(l) = Line(k)
      BY <1>5, <2>2
    <3>2. ~Retires(k, l)
      <4>1. ASSUME Retires(k, l)
            PROVE  l.Execute = NoInstruction /\ l.Decode = k.Decode
        BY <2>1, <4>1 DEF Retires, Loading, Jumping
      <4> QED
        BY <1>1, <1>6, <3>1, <4>1, LineIs
    <3> QED
      BY <1>2, <1>9, <3>1, <3>2
  <2> QED
    BY <1>4, <2>1, <2>3, <2>4 DEF WaitsInPlace
<1>15. CASE i.name \in Machine!Stores /\ Machine!Defer(c)
  <2>1. i.name \in Storing
    BY <1>15 DEF Machine!Stores, Storing
  <2>2. line' = [line EXCEPT ![c] = Tail(line[c])] /\ regs' = regs
    BY <1>15 DEF Machine!Defer, regs, line, Line
  <2>3. Line(l) = Tail(Line(k)) /\ l.registers = k.registers
    BY <1>5, <2>2
  <2>4. Sends(k, l)
    BY <1>2, <1>6, <1>8, <2>1, <2>3 DEF Retires
  <2> QED
    BY <1>4, <2>3, <2>4 DEF MovesOn
<1> QED
  BY <1>3, <1>6, <1>10, <1>12, <1>13, <1>14, <1>15 DEF Machine!Work

\* The instruction in Execute finds what it finds when its program runs alone.
LEMMA InExecute ==
    ASSUME SimTypeOK, CodeInPlace, KeepToThemselves, NEW c \in Present,
           cores[c].Execute # NoInstruction,
           NEW n \in 1 .. Len(binary[c]) + 1, LineAt(c, cores[c], n),
           KeepsUp(c, cores[c], memory, n)
    PROVE  LET k == cores[c]
               x == ExecuteAt(k, n)
               i == Operands(k.Execute)
               s == Alone(c)[x - 1]
           IN /\ x \in Places(c) /\ i = InstrAt(c, x)
              /\ Performed(k, n) = x - 1
              /\ i.name \notin Loading => k.registers = s.registers
              /\ EffectiveAddress(k, i) = AddressAlone(c, x)
<1> DEFINE k == cores[c]
           x == ExecuteAt(k, n)
           i == Operands(k.Execute)
           s == Alone(c)[x - 1]
<1>1. /\ x \in Places(c) /\ i = InstrAt(c, x)
      /\ k.registers \in [Reg -> Word] /\ i \in InstrType
  <2>1. x \in Places(c) /\ i = InstrAt(c, x)
    BY ExecutePlace, ExecuteBelongs
  <2>2. k \in CoreType
    BY DEF SimTypeOK
  <2> QED
    BY <2>1, <2>2, InstrAtType DEF CoreType
<1>2. Performed(k, n) = x - 1
  BY PlacesOf DEF Performed, ExecuteAt
<1>3. s \in MachineType /\ Timeless(i)
  BY <1>1, AloneSteps
<1>4. \A r \in Reg : k.registers[r] = s.registers[r] \/ (i.name \in Loading /\ r = i.rd)
  BY <1>2 DEF KeepsUp
<1> HIDE DEF i, s, x
<1>5. i.name \notin Loading => k.registers = s.registers
  BY <1>1, <1>3, <1>4 DEF MachineType
<1>6. k.registers[i.rs1] = s.registers[i.rs1]
  BY <1>1, <1>3, <1>4, TimelessNames DEF InstrType
<1>7. EffectiveAddress(k, i) = AddressAlone(c, x)
  BY <1>1, <1>6 DEF EffectiveAddress, AddressAlone, Machine!Base, Machine!WrapTo, Wrap, s
<1> QED
  BY <1>1, <1>2, <1>5, <1>7 DEF x, i, s

\* So does the instruction that is performed.
LEMMA PerformedAlone ==
    ASSUME SimInv, CodeInPlace, KeepToThemselves, NEW c \in Present, NEW l,
           cores[c].Execute # NoInstruction,
           NEW n \in 1 .. Len(binary[c]) + 1, LineAt(c, cores[c], n),
           KeepsUp(c, cores[c], memory, n), IsPerformed(c, cores[c], l)
    PROVE  LET x == ExecuteAt(cores[c], n) IN
           /\ l.registers = Alone(c)[x].registers
           /\ Alone(c)[x].memory = Alone(c)[x - 1].memory
<1> DEFINE k == cores[c]
           x == ExecuteAt(k, n)
           i == Operands(k.Execute)
           s == Alone(c)[x - 1]
           t == Alone(c)[x]
           m == MachineState(k)
<1>1. SimTypeOK /\ k \in CoreType /\ memory \in [Address -> Word]
  BY DEF SimInv, SimTypeOK, MembusTypeOK, RamTypeOK
<1>2. /\ x \in Places(c) /\ i = InstrAt(c, x)
      /\ Performed(k, n) = x - 1
      /\ i.name \notin Loading => k.registers = s.registers
      /\ EffectiveAddress(k, i) = AddressAlone(c, x)
  BY <1>1, InExecute
<1>3. /\ s \in MachineType /\ t = Machine!Effect(s, i)
      /\ i \in InstrType /\ Timeless(i)
  BY <1>1, <1>2, AloneSteps
<1>4. m \in MachineType /\ m.registers = k.registers
  BY <1>1 DEF MachineState, MachineType, CoreType
<1>5. i.name \notin Storing /\ l.registers = Machine!Effect(m, i).registers
  BY DEF IsPerformed
<1>6. i.rd \in Reg
  BY <1>3 DEF InstrType
<1>7. CASE i.name \in Arithmetic
  <2> DEFINE v == ValueOf(s.registers, i)
  <2>1. i.name \notin Loading
    BY <1>7 DEF Arithmetic, Loading
  <2>2. t = [s EXCEPT !.registers[i.rd] = v] /\ v \in Word
    BY <1>3, <1>7, ArithmeticEffect
  <2>3. Machine!Effect(m, i) = [m EXCEPT !.registers[i.rd] = v]
    BY <1>2, <1>3, <1>4, <1>7, <2>1, ArithmeticEffect
  <2> HIDE DEF v, s, t, m, i
  <2>4. /\ t.registers = [s.registers EXCEPT ![i.rd] = v]
        /\ t.memory = s.memory
    BY <1>3, <1>6, <2>2, SetType
  <2>5. Machine!Effect(m, i).registers = [m.registers EXCEPT ![i.rd] = v]
    BY <1>4, <1>6, <2>2, <2>3, SetType
  <2> QED
    BY <1>2, <1>4, <1>5, <2>1, <2>4, <2>5 DEF s, t, i
<1>8. CASE i.name \in Branches
  <2>1. i.name \notin Loading
    BY <1>8 DEF Branches, Loading
  <2>2. t.registers = s.registers /\ t.memory = s.memory
    BY <1>3, <1>8, BranchEffect DEF Branches
  <2>3. Machine!Effect(m, i).registers = m.registers
    BY <1>3, <1>4, <1>8, BranchEffect DEF Branches
  <2> QED
    BY <1>2, <1>4, <1>5, <2>1, <2>2, <2>3
<1>9. CASE i.name \in Loading
  <2> DEFINE a == EffectiveAddress(k, i)
             word == memory[a]
  <2>1. IsLoad(c, x)
    BY <1>2, <1>9 DEF IsLoad
  <2>2. a \in OwnData(c) /\ s.memory[a] # UINT32_MAX /\ a \in Address
    BY <1>2, <2>1 DEF KeepToThemselves, KeepApart, OwnData
  <2>3. Machine!MayLoad(c)
    BY <1>9 DEF IsPerformed
  <2>4. k.Store # NoInstruction => StoreAddress(k) # a
    <3>1. ASSUME k.Store # NoInstruction
          PROVE  /\ buffer[c] # <<>>
                 /\ Machine!PutAside(c) = Operands(k.Store)
      <4>1. k.Store \in InstructionType
        BY <1>1 DEF CoreType
      <4>2. buffer[c] = Occupant(k.Store)
        BY DEF buffer
      <4> QED
        BY <3>1, <4>1, <4>2, OccupantIs, MachineStateIs DEF Operands
    <3>2. Machine!State(c) = m /\ Machine!First(c) = i
      BY <1>1, MachineStateIs, FirstInLine DEF SimTypeOK
    <3>3. /\ Machine!Base(m, Operands(k.Store)) = StoreAddress(k)
          /\ Machine!Base(m, i) = a
      BY BaseAgrees DEF StoreAddress
    <3> QED
      BY <2>3, <3>1, <3>2, <3>3 DEF Machine!MayLoad, buffer
  <2>5. word = s.memory[a]
    <3>1. WordAfterStore(k, memory, a) = s.memory[a]
      BY <1>2, <2>2 DEF KeepsUp
    <3> QED
      BY <2>4, <3>1 DEF WordAfterStore
  <2>6. word \in Word /\ Wrap(word) = word
    BY <1>1, <2>2, WrapOfWord
  <2>7. Machine!Effect(m, i).registers = [k.registers EXCEPT ![i.rd] = word]
    BY <1>1, <1>3, <1>9, <2>2, <2>5, LoadAgrees
  <2>8. t = [s EXCEPT !.registers[i.rd] = word]
    <3>1. Machine!Base(s, i) = a
      BY <1>2 DEF AddressAlone
    <3> HIDE DEF a, s, i
    <3> QED
      BY <1>3, <1>9, <2>2, <2>5, <2>6, <3>1, LoadingEffect
  <2> HIDE DEF word, a, s, t
  <2>9. /\ t.registers = [s.registers EXCEPT ![i.rd] = word]
        /\ t.memory = s.memory
    BY <1>3, <1>6, <2>6, <2>8, SetType
  <2>10. [k.registers EXCEPT ![i.rd] = word] = [s.registers EXCEPT ![i.rd] = word]
    <3>1. \A r \in Reg : k.registers[r] = s.registers[r] \/ r = i.rd
      BY <1>2 DEF KeepsUp, s
    <3>2. k.registers \in [Reg -> Word] /\ s.registers \in [Reg -> Word]
      BY <1>1, <1>3 DEF CoreType, MachineType
    <3> HIDE DEF i, k
    <3> QED
      BY <1>6, <3>1, <3>2
  <2> QED
    BY <1>5, <2>7, <2>9, <2>10 DEF t, s
<1> QED
  BY <1>3, <1>5, <1>7, <1>8, <1>9, TimelessNames

LEMMA ExecuteKeepsUp ==
    ASSUME SimInv, PipelineInv, CodeInPlace, KeepToThemselves,
           NEW c \in Present, CallExecute(c),
           NEW n \in 1 .. Len(binary[c]) + 1, LineAt(c, cores[c], n),
           KeepsUp(c, cores[c], memory, n)
    PROVE  /\ KeepsUp(c, cores'[c], memory', n)
           /\ cores'[c].pc = cores[c].pc
           /\ memory' = memory
<1> DEFINE k == cores[c]
           l == cores'[c]
           i == Operands(k.Execute)
           x == ExecuteAt(k, n)
           s == Alone(c)[x - 1]
           t == Alone(c)[x]
<1>1. /\ SimTypeOK /\ k \in CoreType /\ Execute(c) /\ c \in CoreId
      /\ InLine(c) /\ OperandsKept /\ StraightLine
  BY PlacesOf DEF SimInv, SimTypeOK, CallExecute, InLine, KeepToThemselves
<1>2. ASSUME l.Store = k.Store, k.Store # NoInstruction
      PROVE  StoreAddress(l) = StoreAddress(k) /\ StoreValue(l) = StoreValue(k)
  BY <1>1, <1>2, StoreOperandsStay DEF StoreAddress, StoreValue, EffectiveAddress
<1>3. ASSUME l.Store = k.Store, memory' = memory
      PROVE  /\ \A a : WordAfterStore(l, memory', a) = WordAfterStore(k, memory, a)
             /\ l.Store # NoInstruction => StoreAddress(l) \in StoresOf(c)
  <2>1. k.Store # NoInstruction => StoreAddress(k) \in StoresOf(c)
    BY DEF KeepsUp
  <2> QED
    BY <1>2, <1>3, <2>1 DEF WordAfterStore
<1>4. CASE k.Execute = NoInstruction
  <2>1. Stays(k, l) /\ memory' = memory
    BY <1>1, <1>4, ExecuteMoves DEF Retires, Sends, busVars
  <2>2. \A r \in Reg : l.registers[r] = k.registers[r]
    BY <1>1, <1>4, ExecuteWrites
  <2>3. /\ l.Execute = NoInstruction /\ l.Store = k.Store /\ l.pc = k.pc
        /\ Performed(l, n) = Performed(k, n)
    BY <1>4, <2>1 DEF Stays, Performed
  <2> QED
    BY <1>3, <1>4, <2>1, <2>2, <2>3 DEF KeepsUp
<1>5. CASE k.Execute # NoInstruction
  <2>1. /\ x \in Places(c) /\ i = InstrAt(c, x)
        /\ Performed(k, n) = x - 1
        /\ i.name \notin Loading => k.registers = s.registers
        /\ EffectiveAddress(k, i) = AddressAlone(c, x)
    BY <1>1, <1>5, InExecute
  <2>2. /\ s \in MachineType /\ t = Machine!Effect(s, i)
        /\ i \in InstrType /\ Timeless(i)
    BY <1>1, <2>1, AloneSteps
  <2>3. /\ memory' = memory
        /\ WaitsInPlace(k, l) \/ IsPerformed(c, k, l) \/ MovesOn(k, l)
    BY <1>5, <2>2, ExecuteSteps
  <2>4. \A a \in OwnData(c) : WordAfterStore(k, memory, a) = s.memory[a]
    BY <2>1 DEF KeepsUp
  <2>5. CASE WaitsInPlace(k, l)
    <3>1. /\ l.Execute # NoInstruction /\ l.Store = k.Store /\ l.pc = k.pc
          /\ Operands(l.Execute) = i
          /\ Performed(l, n) = Performed(k, n)
      BY <1>5, <2>5 DEF WaitsInPlace, Stays, SameInstruction, Operands, Performed
    <3>2. \A r \in Reg :
              l.registers[r] = k.registers[r] \/ (i.name \in Loading /\ r = i.rd)
      BY <2>5 DEF WaitsInPlace
    <3>3. \A r \in Reg :
              \/ l.registers[r] = s.registers[r]
              \/ i.name \in Loading /\ r = i.rd
      BY <2>1, <3>2 DEF KeepsUp
    <3> HIDE DEF s, i, k, l, x
    <3> QED
      BY <1>3, <2>1, <2>3, <2>4, <3>1, <3>3 DEF KeepsUp, s, k, l
  <2>6. CASE IsPerformed(c, k, l)
    <3>1. l.Execute = NoInstruction /\ l.Store = k.Store
      BY <2>6 DEF IsPerformed, Retires
    <3>2. l.Decode = k.Decode /\ l.pc = k.pc
      BY <1>1, <2>1, <2>6 DEF IsPerformed, Retires, StraightLine
    <3>3. l.registers = t.registers /\ t.memory = s.memory
      BY <1>5, <2>6, PerformedAlone
    <3>4. Performed(l, n) = x
      BY <1>5, <2>1, <3>1, <3>2, PlacesOf DEF Performed, ExecuteAt
    <3> HIDE DEF s, t, i, k, l, x
    <3> QED
      BY <1>3, <2>3, <2>4, <3>1, <3>2, <3>3, <3>4 DEF KeepsUp, t, k, l
  <2>7. CASE MovesOn(k, l)
    <3> DEFINE A == AddressAlone(c, x)
               v == s.registers[i.rs2]
    <3>1. /\ i.name \in Storing /\ k.Store = NoInstruction
          /\ l.Execute = NoInstruction /\ l.Store # NoInstruction
          /\ l.pc = k.pc /\ l.Decode = k.Decode
          /\ Operands(l.Store) = i /\ l.registers = k.registers
      BY <2>7 DEF MovesOn, Sends, SameInstruction, Operands
    <3>2. i.name \notin Loading
      BY <3>1 DEF Storing, Loading
    <3>3. t.registers = s.registers /\ t.memory = [s.memory EXCEPT ![A] = v]
      BY <2>1, <2>2, <3>1, StoringEffect DEF AddressAlone
    <3>4. Performed(l, n) = x
      BY <1>5, <2>1, <3>1, PlacesOf DEF Performed, ExecuteAt
    <3>5. StoreAddress(l) = A /\ StoreValue(l) = v
      BY <2>1, <3>1, <3>2 DEF StoreAddress, StoreValue, EffectiveAddress
    <3>6. A \in StoresOf(c)
      BY <2>1, <3>1 DEF StoresOf, IsStore
    <3>7. ASSUME NEW a \in OwnData(c)
          PROVE  WordAfterStore(l, memory', a) = t.memory[a]
      <4>1. memory[a] = s.memory[a]
        BY <2>4, <3>1 DEF WordAfterStore
      <4>2. a \in Address /\ s.memory \in [Address -> Word]
        BY <2>2 DEF OwnData, MachineType
      <4>3. t.memory[a] = IF a = A THEN v ELSE s.memory[a]
        BY <3>3, <4>2
      <4> HIDE DEF A, v, s, t, i, k, l, x
      <4> QED
        BY <2>3, <3>1, <3>5, <4>1, <4>3 DEF WordAfterStore
    <3>8. \A r \in Reg : l.registers[r] = t.registers[r]
      BY <2>1, <3>1, <3>2, <3>3
    <3> HIDE DEF A, v, s, t, i, k, l, x
    <3> QED
      BY <2>3, <3>1, <3>4, <3>5, <3>6, <3>7, <3>8 DEF KeepsUp, t, k, l
  <2> QED
    BY <2>3, <2>5, <2>6, <2>7
<1> QED
  BY <1>4, <1>5

LEMMA StoreKeepsUp ==
    ASSUME SimInv, PipelineInv, NEW c \in Present, CallStore(c),
           NEW n, KeepsUp(c, cores[c], memory, n)
    PROVE  /\ KeepsUp(c, cores'[c], memory', n)
           /\ cores'[c].pc = cores[c].pc
           /\ \A a \in Address : memory'[a] # memory[a] => a \in StoresOf(c)
<1> DEFINE k == cores[c]
           l == cores'[c]
           b == StoreAddress(k)
<1>1. /\ SimTypeOK /\ cores \in [Present -> CoreType] /\ k \in CoreType /\ c \in CoreId
      /\ l \in CoreType /\ UNCHANGED binary /\ Present' = Present
      /\ memory \in [Address -> Word]
  <2>1. StageCall(c)
    BY DEF StageCall
  <2>2. cores' \in [Present -> CoreType] /\ UNCHANGED binary
    BY <2>1, StageCallEffect
  <2> QED
    BY <2>2, PlacesOf DEF SimInv, SimTypeOK, Present, MembusTypeOK, RamTypeOK
<1>2. /\ AroundStore(k, l)
      /\ l.Store \in {k.Store, NoInstruction}
      /\ UNCHANGED pipeVars \/ Machine!Drain(c)
  <2>1. Present \in SUBSET CoreId /\ HoldMatches(k) /\ BusInv /\ Store(c)
    BY <1>1, PresentType, PresentCores DEF SimInv, HoldMatchesStore, CallStore
  <2>2. AroundStore(k, l)
    BY <1>1, <2>1, StoreEffect
  <2> QED
    BY <1>1, <2>1, <2>2, StoreRefines
<1>3. /\ l.registers = k.registers /\ l.Execute = k.Execute /\ l.pc = k.pc
      /\ Performed(l, n) = Performed(k, n)
  BY <1>2 DEF AroundStore, Performed
<1>4. /\ buffer[c] = Occupant(k.Store) /\ buffer'[c] = Occupant(l.Store)
      /\ c \in DOMAIN buffer
      /\ k.Store \in InstructionType /\ l.Store \in InstructionType
  BY <1>1 DEF buffer, Occupant, CoreType
<1>5. ASSUME l.Store = k.Store
      PROVE  StoreAddress(l) = b /\ StoreValue(l) = StoreValue(k)
  BY <1>3, <1>5 DEF StoreAddress, StoreValue, EffectiveAddress
<1>6. k.Store # NoInstruction => b \in StoresOf(c)
  BY DEF KeepsUp
<1>7. /\ \A a \in Address : WordAfterStore(l, memory', a) = WordAfterStore(k, memory, a)
      /\ \A a \in Address : memory'[a] # memory[a] => a \in StoresOf(c)
  <2>1. CASE UNCHANGED pipeVars
    <3>1. memory' = memory /\ buffer' = buffer
      BY <2>1 DEF pipeVars
    <3>2. l.Store = k.Store
      BY <1>2, <1>4, <3>1, OccupantIs
    <3> QED
      BY <1>5, <3>1, <3>2 DEF WordAfterStore
  <2>2. CASE Machine!Drain(c)
    <3>1. /\ buffer[c] # <<>> /\ buffer' = [buffer EXCEPT ![c] = <<>>]
          /\ memory' = Machine!Effect(Machine!State(c), Machine!PutAside(c)).memory
      BY <2>2 DEF Machine!Drain, buffer
    <3>2. k.Store # NoInstruction /\ l.Store = NoInstruction
      BY <1>4, <3>1, OccupantIs
    <3> DEFINE i == Operands(k.Store)
    <3>3. i \in InstrType /\ i.name \in Storing
      BY <1>4, <3>2, OperandsType DEF PipelineInv
    <3>4. Machine!PutAside(c) = i /\ Machine!State(c) = MachineState(k)
      BY <1>1, <1>4, <3>2, OccupantIs, MachineStateIs DEF Operands
    <3>5. memory' = [memory EXCEPT ![b] = StoreValue(k)]
      BY <1>1, <3>1, <3>3, <3>4, StoreAgrees DEF StoreAddress, StoreValue
    <3> HIDE DEF b
    <3>6. \A a \in Address : memory'[a] = IF a = b THEN StoreValue(k) ELSE memory[a]
      BY <1>1, <3>5
    <3> QED
      BY <1>6, <3>2, <3>6 DEF WordAfterStore, b
  <2> QED
    BY <1>2, <2>1, <2>2
<1>8. l.Store # NoInstruction => StoreAddress(l) \in StoresOf(c)
  BY <1>2, <1>5, <1>6
<1> QED
  BY <1>3, <1>7, <1>8 DEF KeepsUp, OwnData

LEMMA DecodeKeepsUp ==
    ASSUME SimInv, NEW c \in Present, CallDecode(c),
           NEW n \in Int, KeepsUp(c, cores[c], memory, n)
    PROVE  /\ KeepsUp(c, cores'[c], memory', n)
           /\ cores'[c].pc = cores[c].pc
           /\ memory' = memory
<1> DEFINE k == cores[c]
           l == cores'[c]
           m == [k EXCEPT !.Decode = NoInstruction, !.Execute = k.Decode]
<1>1. /\ cores \in [Present -> CoreType] /\ k \in CoreType
      /\ Become(c, IF CanMoveToExecute(k) THEN m ELSE k)
      /\ memory' = memory
  BY DEF SimInv, SimTypeOK, CallDecode, Decode, busVars
<1>2. /\ m \in CoreType /\ m.Decode = NoInstruction /\ m.Execute = k.Decode
      /\ m.Store = k.Store /\ m.registers = k.registers /\ m.pc = k.pc
  BY <1>1, NoInstructionType DEF CoreType
<1> HIDE DEF m
<1>3. CASE CanMoveToExecute(k)
  <2>1. l = m /\ k.Decode # NoInstruction /\ k.Execute = NoInstruction
    BY <1>1, <1>2, <1>3, BecomeEffect DEF CanMoveToExecute
  <2>2. Performed(l, n) = Performed(k, n)
    BY <1>2, <2>1 DEF Performed
  <2>3. /\ l.registers = k.registers /\ l.pc = k.pc /\ l.Store = k.Store
    BY <1>2, <2>1
  <2> HIDE DEF k, l
  <2>4. /\ \A a : WordAfterStore(l, memory', a) = WordAfterStore(k, memory, a)
        /\ StoreAddress(l) = StoreAddress(k)
    BY <1>1, <2>3 DEF WordAfterStore, StoreAddress, StoreValue, EffectiveAddress
  <2> QED
    BY <1>1, <2>1, <2>2, <2>3, <2>4 DEF KeepsUp, k, l
<1>4. CASE ~CanMoveToExecute(k)
  <2>1. l = k
    BY <1>1, <1>4, BecomeEffect
  <2> QED
    BY <1>1, <2>1
<1> QED
  BY <1>3, <1>4

LEMMA FetchKeepsUp ==
    ASSUME SimInv, CodeInPlace, FilesApart, NEW c \in Present, CallFetch(c),
           NEW n \in 1 .. Len(binary[c]) + 1, LineAt(c, cores[c], n),
           KeepsUp(c, cores[c], memory, n),
           NEW m \in 1 .. Len(binary[c]) + 1, LineAt(c, cores'[c], m)
    PROVE  KeepsUp(c, cores'[c], memory', m) /\ memory' = memory
<1> DEFINE k == cores[c]
           l == cores'[c]
<1>1. /\ SimTypeOK /\ Fetch(c) /\ status = "running" /\ c \in CoreId
      /\ StartAddress[c] \in Nat /\ Len(binary[c]) \in Nat
      /\ n \in Int /\ m \in Int /\ UNCHANGED binary
  BY PlacesOf DEF SimInv, CallFetch, Calling
<1>2. /\ FetchMoves(k, l)
      /\ l.Decode = k.Decode \/ k.pc <= LastPlace(c)
  BY <1>1, FetchInPlace
<1>3. memory' = memory
  BY <1>1, FetchRefines DEF pipeVars, Machine!Enter
<1>4. l.registers = k.registers
  <2>1. /\ Present \in SUBSET CoreId /\ cores \in [Present -> CoreType]
        /\ HoldMatches(k) /\ BusInv
    BY <1>1, PresentType, PresentCores DEF SimInv, SimTypeOK, HoldMatchesStore
  <2> QED
    BY <1>1, <2>1, FetchEffect DEF AroundFront
<1>5. l.Execute = k.Execute /\ l.Store = k.Store
  BY <1>2 DEF FetchMoves
<1>6. Performed(l, m) = Performed(k, n)
  <2>1. k.pc = Placed(c, n) /\ l.pc = Placed(c, m)
    BY DEF LineAt
  <2>2. CASE l.Decode = k.Decode /\ l.pc = k.pc
    <3>1. m = n
      BY <1>1, <2>1, <2>2 DEF Placed
    <3> QED
      BY <1>5, <2>2, <3>1 DEF Performed
  <2>3. CASE l.Decode # k.Decode
    <3>1. k.Decode = NoInstruction /\ l.Decode # NoInstruction /\ l.pc = Wrap(k.pc + 4)
      BY <1>2, <2>3 DEF FetchMoves
    <3>2. n \in Places(c)
      BY <1>1, <1>2, <2>1, <2>3 DEF Places, Placed, LastPlace
    <3>3. k.pc \in Address /\ ~Outside(k.pc)
      <4>1. Placed(c, n) \in Address /\ ~Outside(Placed(c, n))
        BY <1>1, <3>2 DEF CodeInPlace, LoadedInTurn, Loaded, WordsInPlace, Places
      <4> QED
        BY <2>1, <4>1
    <3>4. Wrap(k.pc + 4) = k.pc + 4
      BY <3>3, WrapPast
    <3>5. Placed(c, m) = Placed(c, n) + 4
      BY <2>1, <3>1, <3>4
    <3>6. m = n + 1
      BY <1>1, <3>5 DEF Placed
    <3> QED
      BY <1>1, <1>5, <3>1, <3>6 DEF Performed
  <2> QED
    BY <1>2, <2>2, <2>3 DEF FetchMoves
<1>7. /\ \A a : WordAfterStore(l, memory', a) = WordAfterStore(k, memory, a)
      /\ StoreAddress(l) = StoreAddress(k)
  <2> HIDE DEF k, l
  <2> QED
    BY <1>3, <1>4, <1>5 DEF WordAfterStore, StoreAddress, StoreValue, EffectiveAddress
<1> HIDE DEF k, l
<1> QED
  BY <1>3, <1>4, <1>5, <1>6, <1>7 DEF KeepsUp, k, l

(***************************************************************************)
(* The cores together.                                                     *)
(***************************************************************************)
LEMMA InLineAlone ==
    ASSUME KeepToThemselves, LinesKept, AsAlone, NEW c \in Present
    PROVE  \E n \in 1 .. Len(binary[c]) + 1 :
               LineAt(c, cores[c], n) /\ KeepsUp(c, cores[c], memory, n)
  BY DEF KeepToThemselves, LinesKept, InLine, AsAlone

LEMMA SamePlace ==
    ASSUME SimTypeOK, NEW c \in Present, NEW n \in Int, NEW m \in Int,
           Placed(c, n) = Placed(c, m)
    PROVE  n = m
<1>1. StartAddress[c] \in Nat
  BY PlacesOf
<1> QED
  BY <1>1 DEF Placed

\* Programs that keep to themselves leave the code alone while they run.
LEMMA KeepersLeaveCode ==
    ASSUME SimInv, CodeInPlace, LinesKept, KeepToThemselves, AsAlone
    PROVE  CodeLeftAlone
<1>1. FilesApart
  BY DEF KeepToThemselves, KeepApart
<1>2. ASSUME NEW c \in Present, cores[c].Store # NoInstruction
      PROVE  ~InCode(StoreAddress(cores[c]))
  BY <1>2, InLineAlone DEF KeepsUp, KeepToThemselves, KeepApart
<1>3. ASSUME NEW c \in Present, cores[c].Execute # NoInstruction,
             Operands(cores[c].Execute).name \in Loading
      PROVE  ~InCode(LoadAddress(cores[c]))
  <2>1. PICK n \in 1 .. Len(binary[c]) + 1 :
            LineAt(c, cores[c], n) /\ KeepsUp(c, cores[c], memory, n)
    BY InLineAlone
  <2> DEFINE x == ExecuteAt(cores[c], n)
  <2>2. /\ x \in Places(c) /\ Operands(cores[c].Execute) = InstrAt(c, x)
        /\ LoadAddress(cores[c]) = AddressAlone(c, x)
    BY <1>3, <2>1, InExecute DEF LoadAddress, SimInv
  <2> HIDE DEF x
  <2> QED
    BY <1>3, <2>2 DEF IsLoad, KeepToThemselves, KeepApart, OwnData
<1> QED
  BY <1>1, <1>2, <1>3 DEF CodeLeftAlone

LEMMA LineAtNext ==
    ASSUME UNCHANGED binary, NEW c, NEW n
    PROVE  LineAt(c, cores[c], n)' <=> LineAt(c, cores'[c], n)
  BY DEF LineAt, Placed, IsStore, InstrAt

LEMMA OtherKeepsUp ==
    ASSUME NEW d \in Present, NEW k, NEW n, KeepsUp(d, k, memory, n),
           \A a \in OwnData(d) : memory'[a] = memory[a]
    PROVE  KeepsUp(d, k, memory', n)
  BY DEF KeepsUp, WordAfterStore

LEMMA StageAsAlone ==
    ASSUME SimInv, PipelineInv, CodeInPlace, LinesKept, KeepToThemselves, AsAlone,
           NEW c \in Present, StageCall(c)
    PROVE  KeepToThemselves' /\ AsAlone'
<1> DEFINE k == cores[c]
           l == cores'[c]
<1>1. /\ UNCHANGED binary /\ Present' = Present
      /\ \A d \in Present : d # c => cores'[d] = cores[d]
      /\ SimTypeOK /\ FilesApart
  BY StageCallEffect DEF Present, SimInv, KeepToThemselves, KeepApart
<1>2. PICK n \in 1 .. Len(binary[c]) + 1 : LineAt(c, k, n) /\ KeepsUp(c, k, memory, n)
  BY InLineAlone
<1>3. \A m \in 1 .. Len(binary[c]) + 1 : m \in Int
  OBVIOUS
<1>4. ASSUME NEW m \in 1 .. Len(binary[c]) + 1, LineAt(c, l, m), l.pc = k.pc
      PROVE  m = n
  <2>1. Placed(c, n) = Placed(c, m)
    BY <1>2, <1>4 DEF LineAt
  <2> QED
    BY <1>1, <1>3, <2>1, SamePlace
<1>5. /\ \A m \in 1 .. Len(binary[c]) + 1 :
             LineAt(c, l, m) => KeepsUp(c, l, memory', m)
      /\ \A a \in Address : memory'[a] # memory[a] => a \in StoresOf(c)
  <2>1. CASE CallStore(c)
    BY <1>2, <1>4, <2>1, StoreKeepsUp
  <2>2. CASE CallExecute(c)
    BY <1>2, <1>4, <2>2, ExecuteKeepsUp
  <2>3. CASE CallDecode(c)
    BY <1>2, <1>3, <1>4, <2>3, DecodeKeepsUp
  <2>4. CASE CallFetch(c)
    <3>1. ASSUME NEW m \in 1 .. Len(binary[c]) + 1, LineAt(c, l, m)
          PROVE  KeepsUp(c, l, memory', m)
      BY <1>1, <1>2, <2>4, <3>1, FetchKeepsUp
    <3>2. memory' = memory
      BY <1>1, <2>4, PlacesOf, FetchRefines DEF CallFetch, pipeVars, Machine!Enter
    <3> QED
      BY <3>1, <3>2
  <2> QED
    BY <2>1, <2>2, <2>3, <2>4 DEF StageCall
<1>6. \A a \in Address : a \in Arrays => memory'[a] = memory[a]
  BY <1>5 DEF KeepToThemselves, KeepApart
<1>7. ASSUME NEW d \in Present, NEW m \in 1 .. Len(binary[d]) + 1,
             LineAt(d, cores'[d], m)
      PROVE  KeepsUp(d, cores'[d], memory', m)
  <2>1. CASE d = c
    BY <1>5, <1>7, <2>1
  <2>2. CASE d # c
    <3>1. cores'[d] = cores[d]
      BY <1>1, <2>2
    <3>2. KeepsUp(d, cores[d], memory, m)
      BY <1>7, <3>1 DEF AsAlone
    <3>3. \A a \in OwnData(d) : memory'[a] = memory[a]
      BY <1>5, <2>2 DEF OwnData
    <3> QED
      BY <3>1, <3>2, <3>3, OtherKeepsUp
  <2> QED
    BY <2>1, <2>2
<1>8. ASSUME NEW d \in Present, NEW m \in 1 .. Len(binary[d]) + 1,
             LineAt(d, cores[d], m)'
      PROVE  KeepsUp(d, cores[d], memory, m)'
  BY <1>1, <1>6, <1>7, <1>8, LineAtNext, KeepsUpNext
<1> QED
  BY <1>1, <1>6, <1>8, KeepersStay DEF AsAlone

LEMMA LoadWordAsAlone ==
    ASSUME SimInv, PipelineInv, CodeInPlace, KeepToThemselves, AsAlone,
           NEW c \in Present, LoadWord(c)
    PROVE  KeepToThemselves' /\ AsAlone'
<1> DEFINE p == LoadTo(c)
<1>1. /\ UNCHANGED <<cores, binary>> /\ status = "loading"
      /\ loaded[c] < Len(binary[c])
      /\ SimTypeOK /\ Present' = Present
      /\ memory \in [Address -> Word]
  BY LoadWordEffect DEF Present, SimInv, SimTypeOK, MembusTypeOK, RamTypeOK
<1>2. p = Placed(c, loaded[c] + 1) /\ loaded[c] + 1 \in Places(c) /\ c \in CoreId
  BY <1>1, PlacesOf DEF LoadTo, Placed, Places
<1>3. InCode(p) /\ p \notin Arrays
  BY <1>1, <1>2, PlacedInCode DEF KeepToThemselves, KeepApart
<1>4. p \in Address /\ memory' = [memory EXCEPT ![p] = binary[c][loaded[c] + 1]]
  <2>1. p \in Address /\ MembusWriteBypass(c, p, binary[c][loaded[c] + 1])
    BY DEF LoadWord, Fault
  <2> QED
    BY <1>1, <1>2, <2>1, BypassEffect DEF SimInv, BusInv, NothingBegun
<1> HIDE DEF p
<1>5. \A a \in Address : a # p => memory'[a] = memory[a]
  BY <1>1, <1>4
<1>6. \A a \in Address : a \in Arrays => memory'[a] = memory[a]
  BY <1>3, <1>5
<1>7. ASSUME NEW d \in Present, NEW m \in 1 .. Len(binary[d]) + 1,
             LineAt(d, cores[d], m)'
      PROVE  KeepsUp(d, cores[d], memory, m)'
  <2>1. KeepsUp(d, cores[d], memory, m)
    BY <1>1, <1>7, LineAtNext DEF AsAlone
  <2>2. \A a \in OwnData(d) : memory'[a] = memory[a]
    BY <1>3, <1>5 DEF OwnData
  <2>3. KeepsUp(d, cores'[d], memory', m)
    BY <1>1, <2>1, <2>2, OtherKeepsUp
  <2> QED
    BY <1>1, <1>6, <2>3, KeepsUpNext
<1> QED
  BY <1>1, <1>6, <1>7, KeepersStay DEF AsAlone

\* Where the code of a core is in the memory does not show.
LEMMA LoadEndsAsAlone ==
    ASSUME SimInv, KeepToThemselves, AsAlone, NEW c \in Present, LoadEnds(c)
    PROVE  KeepToThemselves' /\ AsAlone'
<1> DEFINE last == Wrap(LoadTo(c) - 4)
           l == [cores[c] EXCEPT !.start_address = StartAddress[c],
                                 !.max_instruction_address = last]
<1>1. /\ cores' = [cores EXCEPT ![c] = l] /\ cores \in [Present -> CoreType]
      /\ UNCHANGED <<binary, memory>> /\ Present' = Present
  BY DEF LoadEnds, Become, SimInv, SimTypeOK, Present, busVars
<1> HIDE DEF last
<1>2. ASSUME NEW d \in Present
      PROVE  /\ cores'[d].pc = cores[d].pc
             /\ cores'[d].registers = cores[d].registers
             /\ cores'[d].fetching_active = cores[d].fetching_active
             /\ cores'[d].Decode = cores[d].Decode
             /\ cores'[d].Execute = cores[d].Execute
             /\ cores'[d].Store = cores[d].Store
  BY <1>1 DEF CoreType
<1>3. ASSUME NEW d \in Present, NEW m \in 1 .. Len(binary[d]) + 1,
             LineAt(d, cores[d], m)'
      PROVE  KeepsUp(d, cores[d], memory, m)'
  <2> DEFINE k == cores[d]
             k1 == cores'[d]
  <2>1. LineAt(d, k, m)
    <3>1. LineAt(d, k1, m)
      BY <1>1, <1>3, LineAtNext
    <3> HIDE DEF k, k1
    <3> QED
      BY <1>2, <3>1 DEF LineAt, k, k1
  <2>2. KeepsUp(d, k, memory', m)
    BY <1>1, <2>1 DEF AsAlone
  <2>3. KeepsUp(d, k1, memory', m)
    BY <1>2, <2>2 DEF KeepsUp, WordAfterStore, StoreAddress, StoreValue,
                      EffectiveAddress, Performed
  <2> QED
    BY <1>1, <2>3, KeepsUpNext
<1> QED
  BY <1>1, <1>3, KeepersStay DEF AsAlone

LEMMA LoopAsAlone ==
    ASSUME KeepToThemselves, AsAlone,
           \/ EndCycle
           \/ \E c \in Present : SkipCore(c) \/ Terminate(c)
           \/ UNCHANGED simVars
    PROVE  KeepToThemselves' /\ AsAlone'
<1>1. UNCHANGED <<cores, memory, binary>> /\ Present' = Present
  BY DEF EndCycle, SkipCore, Terminate, simVars, coreVars, Present
<1>2. ASSUME NEW d \in Present, NEW m \in 1 .. Len(binary[d]) + 1,
             LineAt(d, cores[d], m)'
      PROVE  KeepsUp(d, cores[d], memory, m)'
  BY <1>1, <1>2, LineAtNext, KeepsUpNext DEF AsAlone
<1> QED
  BY <1>1, <1>2, KeepersStay DEF AsAlone

LEMMA InitialAsAlone ==
    ASSUME Init
    PROVE  AsAlone
<1> SUFFICES ASSUME NEW c \in Present, NEW n \in 1 .. Len(binary[c]) + 1,
                    LineAt(c, cores[c], n)
             PROVE  KeepsUp(c, cores[c], memory, n)
  BY DEF AsAlone
<1> DEFINE k == cores[c]
           s == AtStart(c)
<1>1. SimTypeOK /\ StartAddress[c] \in Nat
  BY SimInitial, PlacesOf DEF SimInv
<1>2. /\ k.pc = StartAddress[c] /\ k.Decode = NoInstruction
      /\ k.Execute = NoInstruction /\ k.Store = NoInstruction
      /\ k.registers = [r \in Reg |-> IF r = "sp" THEN InitialSp[c] ELSE 0]
  BY DEF Init, NewCore
<1>3. n = 1
  <2>1. n \in Int /\ StartAddress[c] = StartAddress[c] + 4 * (n - 1)
    BY <1>2 DEF LineAt, Placed
  <2> QED
    BY <1>1, <2>1
<1>4. Performed(k, n) = 0
  BY <1>2, <1>3 DEF Performed
<1>5. Alone(c)[0] = s
  BY <1>1, AloneIs
<1>6. PICK r \in [Arrays -> RandomWords] :
          memory = [a \in Address |-> IF a \in Arrays THEN r[a] ELSE 0]
  BY DEF Init, MembusInit, RamInit
<1>7. \A a \in Address : s.memory[a] = memory[a]
  BY <1>6 DEF AtStart
<1>8. s.registers = k.registers
  BY <1>2 DEF AtStart
<1> HIDE DEF s, k
<1> QED
  BY <1>2, <1>4, <1>5, <1>7, <1>8 DEF KeepsUp, WordAfterStore, OwnData, k

LEMMA AsAloneStep ==
    ASSUME SimInv, PipelineInv, CodeInPlace, LinesKept, KeepToThemselves, AsAlone,
           [Next]_simVars
    PROVE  /\ CodeInPlace' /\ LinesKept'
           /\ KeepToThemselves' /\ AsAlone'
<1>1. CodeLeftAlone
  BY KeepersLeaveCode
<1>2. CodeInPlace' /\ LinesKept'
  BY <1>1, CodeStep, LineStep
<1>3. \/ \E c \in Present : StageCall(c) \/ LoadWord(c) \/ LoadEnds(c)
      \/ EndCycle
      \/ \E c \in Present : SkipCore(c) \/ Terminate(c)
      \/ UNCHANGED simVars
  BY DEF Next, StageCall
<1> QED
  BY <1>2, <1>3, StageAsAlone, LoadWordAsAlone, LoadEndsAsAlone, LoopAsAlone

(***************************************************************************)
(* The end of the run.                                                     *)
(***************************************************************************)
LEMMA ResultIsThere ==
    ASSUME SimInv, CodeInPlace, LinesKept, KeepToThemselves, AsAlone, EndsComplete
    PROVE  SequentialResult
<1> SUFFICES ASSUME status = "completed", NEW c \in Present
             PROVE  LET expected == Alone(c)[Len(binary[c])] IN
                    /\ cores[c].registers = expected.registers
                    /\ \A a \in OwnData(c) : memory[a] = expected.memory[a]
  BY DEF SequentialResult
<1> DEFINE k == cores[c]
           N == Len(binary[c])
           s == Alone(c)[N]
<1>1. /\ SimTypeOK /\ k.registers \in [Reg -> Word]
      /\ N \in Nat /\ StartAddress[c] \in Nat
  <2>1. k \in CoreType
    BY DEF SimInv, SimTypeOK
  <2> QED
    BY <2>1, PlacesOf DEF SimInv, CoreType
<1>2. PICK n \in 1 .. N + 1 : LineAt(c, k, n) /\ KeepsUp(c, k, memory, n)
  BY InLineAlone
<1>3. /\ k.Decode = NoInstruction /\ k.Execute = NoInstruction
      /\ k.Store = NoInstruction
      /\ k.pc > k.max_instruction_address
  <2>1. IsComplete(k) /\ Finished(k)
    BY DEF EndsComplete
  <2>2. {k.Decode, k.Execute, k.Store} = {NoInstruction}
    BY <2>1 DEF IsComplete
  <2> HIDE DEF k
  <2> QED
    BY <2>1, <2>2 DEF Finished
<1>4. k.max_instruction_address = Placed(c, N)
  BY DEF CodeInPlace, LoadedInTurn, Loaded, LastPlace
<1>5. n = N + 1
  BY <1>1, <1>2, <1>3, <1>4 DEF LineAt, Placed
<1>6. Performed(k, n) = N
  BY <1>1, <1>3, <1>5 DEF Performed
<1>7. \A r \in Reg : k.registers[r] = s.registers[r]
  BY <1>2, <1>3, <1>6 DEF KeepsUp
<1>8. \A a \in OwnData(c) : memory[a] = s.memory[a]
  BY <1>2, <1>3, <1>6 DEF KeepsUp, WordAfterStore
<1>9. s \in MachineType
  <2>1. N \in 0 .. N
    BY <1>1
  <2> QED
    BY <1>1, <2>1, AloneTypes
<1> HIDE DEF s, k
<1>10. k.registers = s.registers
  BY <1>1, <1>7, <1>9 DEF MachineType
<1> QED
  BY <1>8, <1>10 DEF s, k

\* Programs that keep to themselves at the start do so to the end, and every
\* core keeps up with its program.
LEMMA KeepersRunAlone ==
    Spec /\ KeepToThemselves =>
        [](CodeInPlace /\ LinesKept /\ KeepToThemselves /\ AsAlone)
<1>1. Init /\ KeepToThemselves =>
          CodeInPlace /\ LinesKept /\ KeepToThemselves /\ AsAlone
  BY CodeInitial, LineInitial, InitialAsAlone DEF KeepToThemselves, KeepApart
<1>2. SimInv /\ PipelineInv
      /\ (CodeInPlace /\ LinesKept /\ KeepToThemselves /\ AsAlone)
      /\ [Next]_simVars
          => (CodeInPlace /\ LinesKept /\ KeepToThemselves /\ AsAlone)'
  BY AsAloneStep
<1> QED
  BY <1>1, <1>2, SimInvariant, PipelineInvariant, PTL DEF Spec

\* What was asked of the programs while they run is seen on the files: when the
\* programs, each run alone, go straight on, leave the registers of their stores
\* alone and share no data, no stage ever touches code (core.cpp:207-330, against
\* the words that simulator.cpp:22-42 loads).
THEOREM KeepersLeaveCodeAlone == Spec /\ KeepToThemselves => []CodeLeftAlone
<1>1. SimInv /\ (CodeInPlace /\ LinesKept /\ KeepToThemselves /\ AsAlone)
          => CodeLeftAlone
  BY KeepersLeaveCode
<1> QED
  BY <1>1, SimInvariant, KeepersRunAlone, PTL

\* Such programs leave, when the simulation completes, the registers and the data
\* that they leave when each runs alone, one instruction after the other: four
\* overlapping stages, loads that overtake stores, count-downs of the RAM, answers
\* thrown away and turned-away calls do not show (core.cpp over membus.cpp).
THEOREM RunsAsIfAlone == Spec /\ KeepToThemselves => []SequentialResult
<1>1. SimInv /\ (CodeInPlace /\ LinesKept /\ KeepToThemselves /\ AsAlone)
          /\ EndsComplete => SequentialResult
  BY ResultIsThere
<1> QED
  BY <1>1, SimInvariant, KeepersRunAlone, RunEndsComplete, PTL

\* What the stages of such programs hold is their files, and their stores stay
\* where they are from the first call to the last (core.cpp:43-63, 207-248).
THEOREM KeepersStayPut ==
    Spec /\ KeepToThemselves => []PipelineHoldsProgram /\ StoreStaysPut
<1>1. KeepToThemselves => StraightLine /\ OperandsKept
  BY DEF KeepToThemselves
<1> QED
  BY <1>1, KeepersRunAlone, KeepersLeaveCodeAlone, PipelinesHoldPrograms,
     StoresStayPut, PTL
=============================================================================
