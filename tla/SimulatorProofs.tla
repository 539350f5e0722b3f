--------------------------- MODULE SimulatorProofs ----------------------------
(***************************************************************************)
(* The whole program, for any number of cores, any binaries, any decoder   *)
(* and any sizes: types, held registers, completion, the count of cycles,  *)
(* and the arbitration of the memory.                                      *)
(***************************************************************************)
EXTENDS SimulatorInvariants, CoreProofs, FiniteSetTheorems

LEMMA FloatsYieldWords == FloatsAreWords
  BY FloatAssumption DEF FloatsAreWords

(***************************************************************************)
(* The cores that were created.                                            *)
(***************************************************************************)
LEMMA PresentCores ==
    ASSUME NEW n \in CoreId, Present = 0 .. n
    PROVE  /\ Present \in SUBSET CoreId
           /\ n \in Nat /\ NumCores = n + 1
           /\ 0 \in Present
           /\ \A c \in Present : c \in Nat /\ c < NumCores
<1>1. n \in Nat
  BY CoreAssumption
<1>2. NumCores = n + 1
  <2>1. Cardinality(0 .. n) = n + 1
    BY <1>1, FS_Interval
  <2> QED
    BY <2>1 DEF NumCores
<1>3. Cardinality(CoreId) \in Nat
  BY SimulatorAssumption, FS_CardinalityType
<1>4. Present \subseteq CoreId
  BY <1>1, <1>3, SimulatorAssumption
<1> QED
  BY <1>1, <1>2, <1>4

LEMMA PresentType ==
    ASSUME SimTypeOK
    PROVE  \E n \in CoreId : Present = 0 .. n /\ binary \in [Present -> Seq(Word)]
  BY DEF SimTypeOK, Present

LEMMA BinaryWords ==
    ASSUME NEW files \in Binaries
    PROVE  \E n \in CoreId : files \in [0 .. n -> Seq(Word)]
  BY SimulatorAssumption

(***************************************************************************)
(* The invariant holds at the beginning.                                   *)
(***************************************************************************)
LEMMA NewCoreType ==
    ASSUME NEW start \in Word, NEW sp \in Word
    PROVE  /\ NewCore(start, sp) \in CoreType
           /\ HoldMatches(NewCore(start, sp))
           /\ NewCore(start, sp).fetching_active
<1>1. 0 \in Word
  BY WordAssumption
<1>2. 0 \in 0 .. CountBound
  BY CountAssumption
<1> QED
  BY <1>1, <1>2, NoInstructionType DEF NewCore, CoreType, HoldMatches

LEMMA SimInitial ==
    ASSUME Init
    PROVE  SimInv /\ CyclesCounted
<1> USE DEF Init
<1>1. PICK n \in CoreId : binary \in [0 .. n -> Seq(Word)]
  BY BinaryWords
<1>2. Present = 0 .. n
  BY <1>1 DEF Present
<1>3. /\ Present \in SUBSET CoreId /\ 0 \in Present
      /\ NumCores \in Nat
  BY <1>2, PresentCores
<1>4. BusInv /\ \A a \in Address : ~InUse(a)
  BY BusInitial, SimulatorAssumption
<1>5. ASSUME NEW c \in Present
      PROVE  /\ cores[c] \in CoreType /\ HoldMatches(cores[c])
             /\ cores[c].fetching_active
  <2>1. StartAddress[c] \in Word /\ InitialSp[c] \in Word
    BY <1>3, SimulatorAssumption
  <2> QED
    BY <2>1, NewCoreType
<1>6. cores \in [Present -> CoreType]
  BY <1>5
<1>7. \A c \in Present : Len(binary[c]) \in Nat
  BY <1>1, <1>2
<1>8. SimTypeOK
  BY <1>1, <1>3, <1>4, <1>6, <1>7, CountAssumption DEF SimTypeOK, BusInv
<1>9. CyclesCounted
  BY DEF CyclesCounted
<1> QED
  BY <1>4, <1>5, <1>8, <1>9
     DEF SimInv, HoldMatchesStore, NothingBegun, TurnInOrder, NoneLooksComplete

(***************************************************************************)
(* A call of a stage, whichever it is.                                     *)
(***************************************************************************)
StageCall(c) == CallStore(c) \/ CallExecute(c) \/ CallDecode(c) \/ CallFetch(c)

LEMMA StageCallEffect ==
    ASSUME SimInv, NEW c \in Present, StageCall(c)
    PROVE  /\ status = "running" /\ turn.core = c
           /\ UNCHANGED <<binary, loaded, status, clock_cycle>>
           /\ cores' \in [Present -> CoreType]
           /\ \A d \in Present : d # c => cores'[d] = cores[d]
           /\ HoldMatches(cores'[c])
           /\ BusStep
<1>1. Present \in SUBSET CoreId
  BY PresentType, PresentCores DEF SimInv
<1>2. cores \in [Present -> CoreType] /\ BusInv /\ HoldMatches(cores[c])
  BY DEF SimInv, SimTypeOK, HoldMatchesStore
<1>3. /\ status = "running" /\ turn.core = c
      /\ UNCHANGED <<binary, loaded, status, clock_cycle>>
  BY DEF StageCall, CallStore, CallExecute, CallDecode, CallFetch, Calling, NextStage,
         clockVars
<1>4. Store(c) \/ Execute(c) \/ Decode(c) \/ Fetch(c)
  BY DEF StageCall, CallStore, CallExecute, CallDecode, CallFetch
<1> QED
  BY <1>1, <1>2, <1>3, <1>4, FloatsYieldWords,
     StoreEffect, ExecuteEffect, DecodeEffect, FetchEffect

(***************************************************************************)
(* The invariant is kept by each action.                                   *)
(***************************************************************************)
BeforeTurn(t) ==
    /\ t \in [core : 0 .. NumCores,
              stage : {"store", "execute", "decode", "fetch"}]
    /\ t.core = NumCores => t.stage = "store"

LEMMA StageCallTurn ==
    ASSUME SimInv, NEW c \in Present, StageCall(c)
    PROVE  /\ BeforeTurn(turn')
           /\ core_clock_cycles' \in [Present -> 0 .. CountBound]
           /\ all_cores_completed' \in BOOLEAN
           /\ turn'.core # c \/ turn'.stage = "store" =>
                  CallFetch(c)
<1>1. PICK n \in CoreId : Present = 0 .. n
  BY PresentType DEF SimInv
<1>2. /\ c \in Nat /\ c + 1 \in 0 .. NumCores /\ c \in 0 .. NumCores /\ c # NumCores
  BY <1>1, PresentCores
<1>3. /\ core_clock_cycles \in [Present -> 0 .. CountBound]
      /\ all_cores_completed \in BOOLEAN
  BY DEF SimInv, SimTypeOK
<1>4. CASE CallFetch(c)
  <2>1. Count(core_clock_cycles[c]) \in 0 .. CountBound
    BY <1>3, CountIsBounded
  <2>2. core_clock_cycles' \in [Present -> 0 .. CountBound]
    BY <1>3, <1>4, <2>1 DEF CallFetch
  <2> QED
    BY <1>2, <1>4, <2>2 DEF CallFetch, NextCore, BeforeTurn
<1>5. CASE ~CallFetch(c)
  BY <1>2, <1>3, <1>5
     DEF StageCall, CallStore, CallExecute, CallDecode, NextStage, clockVars, BeforeTurn
<1> QED
  BY <1>4, <1>5

LEMMA StageCallKeeps ==
    ASSUME SimInv, NEW c \in Present, StageCall(c)
    PROVE  SimInv'
<1>1. /\ status = "running" /\ turn.core = c
      /\ UNCHANGED <<binary, loaded, status, clock_cycle>>
      /\ cores' \in [Present -> CoreType]
      /\ \A d \in Present : d # c => cores'[d] = cores[d]
      /\ HoldMatches(cores'[c])
      /\ BusStep
  BY StageCallEffect
<1>2. /\ BeforeTurn(turn')
      /\ core_clock_cycles' \in [Present -> 0 .. CountBound]
      /\ all_cores_completed' \in BOOLEAN
  BY StageCallTurn
<1>3. Present' = Present /\ NumCores' = NumCores
  BY <1>1 DEF Present, NumCores
<1>4. SimTypeOK'
  BY <1>1, <1>2, <1>3 DEF SimInv, SimTypeOK, BeforeTurn, BusStep, BusInv
<1>5. HoldMatchesStore'
  BY <1>1, <1>3 DEF SimInv, HoldMatchesStore, HoldMatches, StoreBase
<1>6. NothingBegun' /\ TurnInOrder'
  BY <1>1, <1>2, <1>3 DEF NothingBegun, TurnInOrder, BeforeTurn
<1>7. NoneLooksComplete'
  <2> SUFFICES ASSUME NEW d \in Present, turn'.core # d \/ turn'.stage = "store"
               PROVE  Unfinished(cores'[d]) \/ Finished(cores'[d])
    BY <1>3 DEF NoneLooksComplete, Unfinished, Finished
  <2>1. CASE d = c
    <3>1. Fetch(c)
      BY <2>1, StageCallTurn DEF CallFetch
    <3>2. Present \in SUBSET CoreId
      BY PresentType, PresentCores DEF SimInv
    <3> QED
      BY <2>1, <3>1, <3>2, FetchEffect
         DEF SimInv, SimTypeOK, HoldMatchesStore
  <2>2. CASE d # c
    BY <1>1, <2>2 DEF SimInv, NoneLooksComplete
  <2> QED
    BY <2>1, <2>2
<1> QED
  BY <1>1, <1>4, <1>5, <1>6, <1>7 DEF SimInv, BusStep

LEMMA LoadWordEffect ==
    ASSUME SimInv, NEW c \in Present, LoadWord(c)
    PROVE  /\ BusStep /\ UNCHANGED addressInUse
           /\ status = "loading"
           /\ loaded' = [loaded EXCEPT ![c] = @ + 1]
           /\ loaded[c] < Len(binary[c])
           /\ UNCHANGED <<cores, binary, status, turn, clockVars>>
<1>1. PICK n \in CoreId : Present = 0 .. n /\ binary \in [Present -> Seq(Word)]
  BY PresentType DEF SimInv
<1>2. /\ MoreToLoad(c) /\ LoadTo(c) \in Address
      /\ MembusWriteBypass(c, LoadTo(c), binary[c][loaded[c] + 1])
  BY DEF LoadWord, Fault
<1>3. c \in CoreId
  BY <1>1, PresentCores
<1>4. binary[c][loaded[c] + 1] \in Word
  <2>1. loaded[c] \in Nat /\ loaded[c] < Len(binary[c])
    BY <1>2 DEF MoreToLoad, SimInv, SimTypeOK
  <2>2. binary[c] \in Seq(Word)
    BY <1>1
  <2> QED
    BY <2>1, <2>2
<1>5. \A b \in Address : ~InUse(b)
  BY <1>2 DEF MoreToLoad, SimInv, NothingBegun
<1>6. BusStep /\ UNCHANGED addressInUse
  BY <1>2, <1>3, <1>4, <1>5, BypassPreserves DEF SimInv, BusStep
<1> QED
  BY <1>2, <1>6 DEF LoadWord, MoreToLoad

LEMMA LoadWordKeeps ==
    ASSUME SimInv, NEW c \in Present, LoadWord(c)
    PROVE  SimInv'
<1>1. /\ BusStep /\ UNCHANGED addressInUse
      /\ status = "loading"
      /\ loaded' = [loaded EXCEPT ![c] = @ + 1]
      /\ loaded[c] < Len(binary[c])
      /\ UNCHANGED <<cores, binary, status, turn, clockVars>>
  BY LoadWordEffect
<1>2. Present' = Present /\ NumCores' = NumCores
  BY <1>1 DEF Present, NumCores
<1>3. /\ loaded' \in [Present -> Nat]
      /\ \A d \in Present : loaded'[d] <= Len(binary[d])
  <2>1. \A d \in Present : Len(binary[d]) \in Nat
    BY PresentType DEF SimInv
  <2> QED
    BY <1>1, <2>1 DEF SimInv, SimTypeOK
<1>4. SimTypeOK'
  BY <1>1, <1>2, <1>3 DEF SimInv, SimTypeOK, clockVars, BusStep, BusInv
<1> QED
  BY <1>1, <1>2, <1>4
     DEF SimInv, HoldMatchesStore, HoldMatches, StoreBase, NothingBegun, InUse,
         TurnInOrder, NoneLooksComplete, BusStep

LEMMA LoadEndsEffect ==
    ASSUME SimInv, NEW c \in Present, LoadEnds(c)
    PROVE  /\ cores' \in [Present -> CoreType]
           /\ \A d \in Present :
                  /\ cores'[d].hold_registers = cores[d].hold_registers
                  /\ cores'[d].Store = cores[d].Store
                  /\ cores'[d].fetching_active = cores[d].fetching_active
           /\ UNCHANGED <<busVars, binary, loaded, core_clock_cycles,
                          all_cores_completed>>
           /\ status = "loading"
           /\ \/ UNCHANGED <<status, clock_cycle>> /\ turn' \in [core : 0 .. NumCores,
                                                                 stage : {turn.stage}]
              \/ status' = "running" /\ turn' = FirstTurn /\ clock_cycle' = 1
<1>1. PICK n \in CoreId : Present = 0 .. n
  BY PresentType DEF SimInv
<1>2. c \in CoreId /\ c \in Nat /\ c + 1 \in 0 .. NumCores
  BY <1>1, PresentCores
<1> DEFINE last == Wrap(LoadTo(c) - 4)
           l == [cores[c] EXCEPT !.start_address = StartAddress[c],
                                 !.max_instruction_address = last]
<1>3. StartAddress[c] \in Word /\ loaded[c] \in Nat
  BY <1>2, SimulatorAssumption DEF SimInv, SimTypeOK
<1>4. LoadTo(c) - 4 \in Int
  BY <1>3, WordAssumption DEF LoadTo
<1>5. last \in Word
  BY <1>4, WrapIsWord
<1>6. cores \in [Present -> CoreType] /\ Become(c, l)
  BY DEF LoadEnds, SimInv, SimTypeOK
<1> HIDE DEF last
<1>7. /\ l \in CoreType
      /\ l.hold_registers = cores[c].hold_registers
      /\ l.Store = cores[c].Store
      /\ l.fetching_active = cores[c].fetching_active
  BY <1>3, <1>5, <1>6 DEF CoreType
<1>8. /\ cores' \in [Present -> CoreType]
      /\ cores'[c] = l
      /\ \A d \in Present : d # c => cores'[d] = cores[d]
  BY <1>6, <1>7, BecomeEffect
<1>9. turn \in [core : 0 .. NumCores,
                stage : {"load", "store", "execute", "decode", "fetch"}]
  BY DEF SimInv, SimTypeOK
<1> QED
  BY <1>2, <1>7, <1>8, <1>9 DEF LoadEnds

LEMMA LoadEndsKeeps ==
    ASSUME SimInv, NEW c \in Present, LoadEnds(c)
    PROVE  SimInv'
<1>1. /\ cores' \in [Present -> CoreType]
      /\ \A d \in Present :
             /\ cores'[d].hold_registers = cores[d].hold_registers
             /\ cores'[d].Store = cores[d].Store
             /\ cores'[d].fetching_active = cores[d].fetching_active
      /\ UNCHANGED <<busVars, binary, loaded, core_clock_cycles, all_cores_completed>>
      /\ status = "loading"
      /\ \/ UNCHANGED <<status, clock_cycle>> /\ turn' \in [core : 0 .. NumCores,
                                                            stage : {turn.stage}]
         \/ status' = "running" /\ turn' = FirstTurn /\ clock_cycle' = 1
  BY LoadEndsEffect
<1>2. Present' = Present /\ NumCores' = NumCores
  BY <1>1 DEF Present, NumCores
<1>3. BusInv' /\ UNCHANGED addressInUse
  BY <1>1, IdleBus DEF SimInv, BusStep, busVars
<1>4. NumCores \in Nat /\ NumCores # 0
  BY PresentType, PresentCores DEF SimInv
<1>5. SimTypeOK'
  BY <1>1, <1>2, <1>3, <1>4, CountAssumption
     DEF SimInv, SimTypeOK, FirstTurn, BusInv
<1>6. HoldMatchesStore'
  BY <1>1, <1>2 DEF SimInv, HoldMatchesStore, HoldMatches, StoreBase
<1>7. NothingBegun' /\ TurnInOrder' /\ NoneLooksComplete'
  BY <1>1, <1>2, <1>3, <1>4
     DEF SimInv, NothingBegun, InUse, TurnInOrder, FirstTurn, NoneLooksComplete,
         Unfinished
<1> QED
  BY <1>3, <1>5, <1>6, <1>7 DEF SimInv

\* The steps of run() that call nothing.
LEMMA LoopKeeps ==
    ASSUME SimInv,
           \/ EndCycle
           \/ \E c \in Present : SkipCore(c) \/ Terminate(c)
           \/ UNCHANGED simVars
    PROVE  SimInv'
<1>1. UNCHANGED coreVars /\ UNCHANGED <<binary, loaded>>
  BY DEF EndCycle, SkipCore, Terminate, simVars, coreVars
<1>2. Present' = Present /\ NumCores' = NumCores
  BY <1>1 DEF Present, NumCores
<1>3. BusInv' /\ UNCHANGED cores /\ UNCHANGED addressInUse
  BY <1>1, IdleBus DEF SimInv, BusStep, busVars, coreVars
<1>4. PICK n \in CoreId : Present = 0 .. n
  BY PresentType DEF SimInv
<1>5. NumCores \in Nat /\ \A c \in Present : c + 1 \in 0 .. NumCores
  BY <1>4, PresentCores
<1>6. ASSUME \/ UNCHANGED <<status, turn, clockVars>>
             \/ /\ status' \in {"completed", "limit", "terminated"}
                /\ UNCHANGED <<turn, clockVars>>
             \/ /\ UNCHANGED status
                /\ turn' \in [core : 0 .. NumCores, stage : {"store"}]
                /\ clock_cycle' \in 0 .. CountBound
                /\ UNCHANGED core_clock_cycles
                /\ all_cores_completed' \in BOOLEAN
                /\ status = "running"
                /\ turn.stage = "store" \/ turn.core \notin Present
      PROVE  SimInv'
  <2>1. SimTypeOK'
    BY <1>1, <1>2, <1>3, <1>6 DEF SimInv, SimTypeOK, clockVars, BusInv
  <2>2. HoldMatchesStore'
    BY <1>2, <1>3 DEF SimInv, HoldMatchesStore, HoldMatches, StoreBase
  <2>3. NothingBegun' /\ TurnInOrder'
    BY <1>2, <1>3, <1>6 DEF SimInv, NothingBegun, InUse, TurnInOrder
  <2>4. NoneLooksComplete'
    BY <1>2, <1>3, <1>6 DEF SimInv, NoneLooksComplete, Unfinished, Finished
  <2> QED
    BY <1>3, <2>1, <2>2, <2>3, <2>4 DEF SimInv
<1>7. CASE EndCycle
  <2>1. clock_cycle \in 0 .. CountBound
    BY DEF SimInv, SimTypeOK
  <2>2. Count(clock_cycle) \in 0 .. CountBound
    BY <2>1, CountIsBounded
  <2>3. turn.core \notin Present
    BY <1>4, <1>7, PresentCores DEF EndCycle
  <2>4. FirstTurn \in [core : 0 .. NumCores, stage : {"store"}]
    BY <1>5 DEF FirstTurn
  <2>5. CASE LimitReached \/ all_cores_completed
    BY <1>6, <1>7, <2>5 DEF EndCycle
  <2>6. CASE ~(LimitReached \/ all_cores_completed)
    BY <1>6, <1>7, <2>2, <2>3, <2>4, <2>6 DEF EndCycle
  <2> QED
    BY <2>5, <2>6
<1>8. CASE \E c \in Present : SkipCore(c)
  <2>1. clock_cycle \in 0 .. CountBound /\ all_cores_completed \in BOOLEAN
    BY DEF SimInv, SimTypeOK
  <2> QED
    BY <1>5, <1>6, <1>8, <2>1 DEF SkipCore, NextCore, clockVars
<1>9. CASE \E c \in Present : Terminate(c)
  BY <1>6, <1>9 DEF Terminate
<1>10. CASE UNCHANGED simVars
  BY <1>6, <1>10 DEF simVars
<1> QED
  BY <1>7, <1>8, <1>9, <1>10

LEMMA SimStep ==
    ASSUME SimInv, [Next]_simVars
    PROVE  SimInv'
<1>1. CASE \E c \in Present : StageCall(c)
  BY <1>1, StageCallKeeps
<1>2. CASE \E c \in Present : LoadWord(c)
  BY <1>2, LoadWordKeeps
<1>3. CASE \E c \in Present : LoadEnds(c)
  BY <1>3, LoadEndsKeeps
<1>4. CASE EndCycle \/ (\E c \in Present : SkipCore(c) \/ Terminate(c))
           \/ UNCHANGED simVars
  BY <1>4, LoopKeeps
<1> QED
  BY <1>1, <1>2, <1>3, <1>4 DEF Next, StageCall

\* Between any two steps the invariant holds (all of simulator.cpp and core.cpp
\* over membus.cpp).
THEOREM SimInvariant == Spec => []SimInv
<1>1. Init => SimInv
  BY SimInitial
<1>2. SimInv /\ [Next]_simVars => SimInv'
  BY SimStep
<1> QED
  BY <1>1, <1>2, PTL DEF Spec

\* Every object keeps its shape, for words of any width and any programs:
\* registers and memory hold words, and no delay goes below DelayFloor or above 5
\* (all of core.cpp and simulator.cpp).
THEOREM SimTypeCorrect == Spec => []SimTypeOK
<1>1. SimInv => SimTypeOK
  BY DEF SimInv
<1> QED
  BY <1>1, SimInvariant, PTL

\* A held register is the base of the store in progress: no load waits for
\* a store that is over (core.cpp:230-248, 298-301).
THEOREM HeldForTheStore == Spec => []HoldMatchesStore
<1>1. SimInv => HoldMatchesStore
  BY DEF SimInv
<1> QED
  BY <1>1, SimInvariant, PTL

\* run() passes a core over only at the end of its program, whatever branches
\* and jumps are in it (core.cpp:532-538, simulator.cpp:67).
THEOREM CompleteIsOver == Spec => []CompleteMeansFinished
<1>1. SimInv => CompleteMeansFinished
  BY CompleteIsFinished DEF SimInv, NoneLooksComplete, CompleteMeansFinished
<1> QED
  BY <1>1, SimInvariant, PTL

(***************************************************************************)
(* The bus under the real stages and the loader.                           *)
(***************************************************************************)
LEMMA SimBusStep ==
    ASSUME SimInv, [Next]_simVars
    PROVE  [Arbiter!ArbiterNext]_(Arbiter!arbiterVars)
<1>1. CASE \E c \in Present : StageCall(c)
  BY <1>1, StageCallEffect DEF BusStep
<1>2. CASE \E c \in Present : LoadWord(c)
  BY <1>2, LoadWordEffect DEF BusStep
<1>3. CASE UNCHANGED busVars
  BY <1>3, IdleArbitrates
<1>4. ASSUME ~(\E c \in Present : StageCall(c) \/ LoadWord(c))
      PROVE  UNCHANGED busVars
  BY <1>4 DEF Next, StageCall, LoadEnds, EndCycle, SkipCore, Terminate, simVars,
              coreVars, busVars
<1> QED
  BY <1>1, <1>2, <1>3, <1>4

\* The loader and the stages share the memory as the arbiter says: each address
\* has one user at a time, and the core that ends a store began it (the calls of
\* the bus in core.cpp and simulator.cpp).
THEOREM StagesImplementArbiter == Spec => ArbitratesMemory
<1>1. Init => Arbiter!ArbiterInit
  BY InitialArbiter, SimulatorAssumption DEF Init
<1>2. SimInv /\ [Next]_simVars => [Arbiter!ArbiterNext]_(Arbiter!arbiterVars)
  BY SimBusStep
<1> QED
  BY <1>1, <1>2, SimInvariant, PTL DEF Spec, ArbitratesMemory, Arbiter!ArbiterSpec

(***************************************************************************)
(* The count of cycles.                                                    *)
(***************************************************************************)
LEMMA CountersType ==
    ASSUME SimInv
    PROVE  /\ NumCores \in Nat /\ 0 \in Present
           /\ \A c \in Present : c \in Nat /\ c < NumCores
           /\ turn.core \in 0 .. NumCores
           /\ clock_cycle \in Nat
           /\ clock_cycle_limit \in 0 .. CountBound
           /\ \A c \in Present : core_clock_cycles[c] \in Nat
  BY PresentType, PresentCores, SimulatorAssumption, CountAssumption
     DEF SimInv, SimTypeOK

LEMMA StageCallCounts ==
    ASSUME SimInv, CyclesCounted, NEW c \in Present, StageCall(c)
    PROVE  CyclesCounted'
<1> SUFFICES ASSUME clock_cycle_limit # 0
             PROVE  CyclesCounted'
  BY DEF CyclesCounted
<1>1. /\ status = "running" /\ turn.core = c
      /\ UNCHANGED <<binary, status, clock_cycle>>
      /\ \A d \in Present : d # c => cores'[d] = cores[d]
  BY StageCallEffect
<1>2. Present' = Present
  BY <1>1 DEF Present
<1> DEFINE N == clock_cycle
           cc == core_clock_cycles
<1>3. /\ N \in 1 .. clock_cycle_limit
      /\ \A d \in Present : Called(d, IF d < c THEN N ELSE N - 1)
      /\ \E d \in Present : cc[d] >= N - 1
      /\ all_cores_completed <=> \A d \in Present : d < c => cc[d] # N
  BY <1>1 DEF CyclesCounted
<1>4. /\ \A d \in Present : d \in Nat /\ cc[d] \in Nat
      /\ clock_cycle_limit \in Nat /\ clock_cycle_limit <= CountBound
      /\ CountBound \in Nat
      /\ cc \in [Present -> 0 .. CountBound]
  BY CountersType, CountAssumption DEF SimInv, SimTypeOK
<1>5. cc[c] = N - 1
  <2>1. CASE CallStore(c)
    <3>1. ~IsComplete(cores[c])
      BY <2>1 DEF CallStore, Calling
    <3>2. ~(c < c)
      BY <1>4
    <3> QED
      BY <1>3, <3>1, <3>2 DEF Called
  <2>2. CASE ~CallStore(c)
    <3>1. turn.stage # "store"
      BY <2>2 DEF StageCall, CallExecute, CallDecode, CallFetch, Calling
    <3> QED
      BY <1>1, <3>1 DEF CyclesCounted
  <2> QED
    BY <2>1, <2>2
<1>6. \A d \in Present, n \in Int :
          d # c /\ Called(d, n) /\ cc'[d] = cc[d] => Called(d, n)'
  BY <1>1 DEF Called, IsComplete
<1>7. CASE CallFetch(c)
  <2>1. cc' = [cc EXCEPT ![c] = N]
    <3>1. Count(cc[c]) = N
      BY <1>3, <1>4, <1>5 DEF Count
    <3> QED
      BY <1>7, <3>1 DEF CallFetch
  <2>2. /\ turn' = [core |-> c + 1, stage |-> "store"]
        /\ all_cores_completed' = FALSE
    BY <1>7 DEF CallFetch, NextCore
  <2>3. cc'[c] = N /\ \A d \in Present : d # c => cc'[d] = cc[d]
    BY <1>4, <2>1
  <2>4. ASSUME NEW d \in Present
        PROVE  Called(d, IF d < c + 1 THEN N ELSE N - 1)'
    <3>1. CASE d = c
      BY <1>1, <1>4, <2>3, <3>1 DEF Called
    <3>2. CASE d # c
      <4>1. (d < c + 1) <=> (d < c)
        BY <1>4, <3>2
      <4>2. Called(d, IF d < c + 1 THEN N ELSE N - 1)
        BY <1>3, <4>1
      <4>3. N \in Int /\ N - 1 \in Int /\ N' = N
        BY <1>1, <1>3
      <4> QED
        BY <1>6, <2>3, <3>2, <4>2, <4>3 DEF Called
    <3> QED
      BY <3>1, <3>2
  <2>5. \E d \in Present : cc'[d] >= N - 1
    BY <1>3, <2>3
  <2>6. c < c + 1
    BY <1>4
  <2> QED
    BY <1>1, <1>2, <1>3, <2>2, <2>3, <2>4, <2>5, <2>6 DEF CyclesCounted
<1>8. CASE ~CallFetch(c)
  <2>1. /\ UNCHANGED <<cc, all_cores_completed>>
        /\ turn'.core = c /\ turn'.stage # "store"
    BY <1>8 DEF StageCall, CallStore, CallExecute, CallDecode, NextStage, clockVars
  <2>2. ASSUME NEW d \in Present
        PROVE  Called(d, IF d < c THEN N ELSE N - 1)'
    <3>1. CASE d = c
      BY <1>1, <1>4, <1>5, <2>1, <3>1 DEF Called
    <3>2. CASE d # c
      <4>1. N \in Int /\ N - 1 \in Int /\ N' = N
        BY <1>1, <1>3
      <4> QED
        BY <1>3, <1>6, <2>1, <3>2, <4>1 DEF Called
    <3> QED
      BY <3>1, <3>2
  <2> QED
    BY <1>1, <1>2, <1>3, <1>5, <2>1, <2>2 DEF CyclesCounted
<1> QED
  BY <1>7, <1>8

LEMMA LoopCounts ==
    ASSUME SimInv, CyclesCounted,
           \/ EndCycle
           \/ \E c \in Present : LoadWord(c) \/ LoadEnds(c) \/ SkipCore(c) \/ Terminate(c)
           \/ UNCHANGED simVars
    PROVE  CyclesCounted'
<1> SUFFICES ASSUME clock_cycle_limit # 0
             PROVE  CyclesCounted'
  BY DEF CyclesCounted
<1> DEFINE N == clock_cycle
           cc == core_clock_cycles
<1>1. /\ UNCHANGED <<binary, cc>>
      /\ Present' = Present
  BY DEF EndCycle, LoadWord, LoadEnds, SkipCore, Terminate, simVars, clockVars, Present
<1>2. /\ \A d \in Present : d \in Nat /\ d < NumCores /\ cc[d] \in Nat
      /\ NumCores \in Nat /\ 0 \in Present
      /\ clock_cycle_limit \in Nat \ {0} /\ clock_cycle_limit <= CountBound
      /\ CountBound \in Nat /\ clock_cycle \in Nat
  BY CountersType, CountAssumption
<1>3. CASE \/ UNCHANGED <<cores, status, turn, clockVars>>
           \/ status' \notin {"loading", "running"}
  BY <1>1, <1>3 DEF CyclesCounted, Called, clockVars, IsComplete
<1>4. CASE \E c \in Present : LoadEnds(c)
  <2>1. /\ N = 0 /\ all_cores_completed
        /\ \A d \in Present : cc[d] = 0
    BY <1>4 DEF LoadEnds, CyclesCounted
  <2>2. all_cores_completed' = all_cores_completed
    BY <1>4 DEF LoadEnds
  <2>3. CASE status' = "running"
    <3>1. /\ N' = 1 /\ turn' = FirstTurn
      BY <1>4, <2>3 DEF LoadEnds
    <3>2. \A d \in Present : Called(d, 0)'
      BY <1>1, <2>1 DEF Called
    <3>3. /\ turn'.core = 0 /\ turn'.stage = "store"
          /\ \A d \in Present : ~(d < 0)
          /\ N' - 1 = 0
      BY <1>2, <3>1 DEF FirstTurn
    <3> QED
      BY <1>1, <1>2, <2>1, <2>2, <2>3, <3>1, <3>2, <3>3 DEF CyclesCounted
  <2>4. CASE status' # "running"
    <3>1. status' = "loading" /\ N' = N
      BY <1>4, <2>4 DEF LoadEnds
    <3> QED
      BY <1>1, <2>1, <2>2, <3>1 DEF CyclesCounted
  <2> QED
    BY <2>3, <2>4
<1>5. ASSUME NEW c \in Present, SkipCore(c)
      PROVE  CyclesCounted'
  <2>1. /\ status = "running" /\ turn.core = c /\ IsComplete(cores[c])
        /\ turn' = [core |-> c + 1, stage |-> "store"]
        /\ UNCHANGED <<cores, status, N, all_cores_completed>>
    BY <1>5 DEF SkipCore, NextCore, coreVars, clockVars
  <2>2. /\ N \in 1 .. clock_cycle_limit
        /\ \A d \in Present : Called(d, IF d < c THEN N ELSE N - 1)
        /\ \E d \in Present : cc[d] >= N - 1
        /\ all_cores_completed <=> \A d \in Present : d < c => cc[d] # N
    BY <2>1 DEF CyclesCounted
  <2>3. cc[c] < N
    BY <1>2, <2>2 DEF Called
  <2>4. \A d \in Present, n \in Int : Called(d, n) => Called(d, n)'
    BY <1>1, <2>1 DEF Called, IsComplete
  <2>5. \A d \in Present : Called(d, IF d < c + 1 THEN N ELSE N - 1)'
    BY <1>1, <1>2, <2>1, <2>2, <2>3, <2>4 DEF Called
  <2>6. \A d \in Present : d < c + 1 <=> d < c \/ d = c
    BY <1>2
  <2> QED
    BY <1>1, <1>2, <2>1, <2>2, <2>3, <2>5, <2>6 DEF CyclesCounted
<1>6. CASE EndCycle /\ status' = "running"
  <2>1. /\ status = "running" /\ turn.core = NumCores /\ ~LimitReached
        /\ ~all_cores_completed /\ all_cores_completed' = TRUE
        /\ turn' = FirstTurn /\ N' = Count(N)
        /\ UNCHANGED cores
    BY <1>6 DEF EndCycle, coreVars
  <2>2. /\ N \in 1 .. clock_cycle_limit
        /\ \A d \in Present : Called(d, N)
        /\ \E d \in Present : cc[d] = N
    BY <1>2, <2>1 DEF CyclesCounted
  <2>3. N' = N + 1 /\ N' \in 1 .. clock_cycle_limit
    BY <1>2, <2>1, <2>2 DEF LimitReached, Count
  <2>4. \A d \in Present : Called(d, N - 1)'
    BY <1>1, <2>1, <2>2, <2>3 DEF Called, IsComplete
  <2>5. /\ turn'.core = 0 /\ turn'.stage = "store"
        /\ \A d \in Present : ~(d < 0)
    BY <1>2, <2>1 DEF FirstTurn
  <2>6. \E d \in Present : cc'[d] >= N' - 1
    BY <1>1, <1>2, <2>2, <2>3
  <2> QED
    BY <1>1, <1>6, <2>1, <2>3, <2>4, <2>5, <2>6 DEF CyclesCounted
<1>7. CASE EndCycle
  BY <1>3, <1>6, <1>7 DEF EndCycle
<1>8. CASE \E c \in Present : LoadWord(c) \/ Terminate(c)
  BY <1>3, <1>8 DEF LoadWord, Terminate
<1>9. CASE UNCHANGED simVars
  BY <1>3, <1>9 DEF simVars
<1> QED
  BY <1>4, <1>5, <1>7, <1>8, <1>9

LEMMA CyclesStep ==
    ASSUME SimInv, CyclesCounted, [Next]_simVars
    PROVE  CyclesCounted'
<1>1. CASE \E c \in Present : StageCall(c)
  BY <1>1, StageCallCounts
<1>2. CASE \/ EndCycle
           \/ \E c \in Present : LoadWord(c) \/ LoadEnds(c) \/ SkipCore(c) \/ Terminate(c)
           \/ UNCHANGED simVars
  BY <1>2, LoopCounts
<1> QED
  BY <1>1, <1>2 DEF Next, StageCall

LEMMA MaxOf ==
    ASSUME NEW S \in SUBSET Int, NEW m \in S, \A n \in S : m >= n
    PROVE  Max(S) = m
<1>1. \E x \in S : \A y \in S : x >= y
  OBVIOUS
<1>2. Max(S) \in S /\ \A y \in S : Max(S) >= y
  BY <1>1, Zenon DEF Max
<1>3. Max(S) >= m /\ m >= Max(S) /\ Max(S) \in Int /\ m \in Int
  BY <1>2
<1> QED
  BY <1>3

\* At the end of a cycle in which the last core has been passed, the count of a
\* core that was called in every cycle is the largest.
LEMMA LongestCount ==
    ASSUME SimInv, CyclesCounted, clock_cycle_limit # 0,
           status = "running", turn.core = NumCores
    PROVE  LET longest == Max(Range(core_clock_cycles)) IN
           /\ longest >= clock_cycle - 1
           /\ all_cores_completed => longest = clock_cycle - 1
<1> DEFINE N == clock_cycle
           cc == core_clock_cycles
<1>1. /\ N \in Nat
      /\ \A c \in Present : cc[c] \in Nat /\ c < NumCores
      /\ cc \in [Present -> 0 .. CountBound]
  BY CountersType DEF SimInv, SimTypeOK
<1>2. /\ \A c \in Present : cc[c] <= N
      /\ \E c \in Present : cc[c] >= N - 1
      /\ all_cores_completed <=> \A c \in Present : cc[c] # N
  BY <1>1 DEF CyclesCounted, Called
<1>3. /\ Range(cc) \in SUBSET Int
      /\ \A n \in Range(cc) : \E c \in Present : n = cc[c]
      /\ \A c \in Present : cc[c] \in Range(cc)
  BY <1>1 DEF Range
<1>4. CASE \E c \in Present : cc[c] = N
  <2>1. Max(Range(cc)) = N
    BY <1>1, <1>2, <1>3, <1>4, MaxOf
  <2> QED
    BY <1>1, <1>2, <1>4, <2>1
<1>5. CASE \A c \in Present : cc[c] # N
  <2>1. Max(Range(cc)) = N - 1
    BY <1>1, <1>2, <1>3, <1>5, MaxOf
  <2> QED
    BY <1>1, <2>1
<1> QED
  BY <1>4, <1>5

LEMMA EndingStep ==
    ASSUME SimInv, CyclesCounted, clock_cycle_limit # 0, EndsOnTime, [Next]_simVars
    PROVE  EndsOnTime'
<1>1. CASE EndCycle
  <2>1. CASE LimitReached
    <3>1. /\ status = "running" /\ turn.core = NumCores
          /\ status' = "limit" /\ UNCHANGED clockVars
      BY <1>1, <2>1 DEF EndCycle
    <3>2. clock_cycle = clock_cycle_limit
      BY <2>1, <3>1, CountersType DEF LimitReached, CyclesCounted
    <3> QED
      BY <3>1, <3>2, LongestCount DEF EndsOnTime, clockVars
  <2>2. CASE ~LimitReached /\ all_cores_completed
    <3>1. /\ status = "running" /\ turn.core = NumCores
          /\ status' = "completed" /\ UNCHANGED clockVars
      BY <1>1, <2>2 DEF EndCycle
    <3>2. Max(Range(core_clock_cycles)) = clock_cycle - 1
      BY <2>2, <3>1, LongestCount
    <3>3. clock_cycle \in Nat
      BY CountersType
    <3> QED
      BY <2>2, <3>1, <3>2, <3>3 DEF EndsOnTime, clockVars, LimitReached
  <2>3. CASE ~LimitReached /\ ~all_cores_completed
    BY <1>1, <2>3 DEF EndCycle, EndsOnTime
  <2> QED
    BY <2>1, <2>2, <2>3
<1>2. CASE UNCHANGED simVars
  BY <1>2 DEF simVars, clockVars, EndsOnTime, LimitReached
<1>3. CASE \E c \in Present : \/ StageCall(c) \/ LoadWord(c) \/ LoadEnds(c)
                              \/ SkipCore(c) \/ Terminate(c)
  <2>1. status' \in {"loading", "running", "terminated"}
    BY <1>3, StageCallEffect
       DEF LoadWord, LoadEnds, SkipCore, Terminate, MoreToLoad, SimInv, SimTypeOK
  <2> QED
    BY <2>1 DEF EndsOnTime
<1> QED
  BY <1>1, <1>2, <1>3 DEF Next, StageCall

\* The cycles are counted as CyclesCounted says, in every cycle up to the limit
\* (simulator.cpp:59-99).
THEOREM CountsCycles == Spec => []CyclesCounted
<1>1. Init => CyclesCounted
  BY SimInitial
<1>2. SimInv /\ CyclesCounted /\ [Next]_simVars => CyclesCounted'
  BY CyclesStep
<1> QED
  BY <1>1, <1>2, SimInvariant, PTL DEF Spec

\* With a limit, as main sets one, run() ends in the first cycle with no core to
\* call, one cycle after the longest count it reports, or at the limit with a
\* core that was called until then (simulator.cpp:65-98).
THEOREM RunEndsOnTime ==
    ASSUME clock_cycle_limit # 0
    PROVE  Spec => []EndsOnTime
<1>1. Init => EndsOnTime
  BY DEF Init, EndsOnTime
<1>2. SimInv /\ CyclesCounted /\ EndsOnTime /\ [Next]_simVars => EndsOnTime'
  BY EndingStep
<1> QED
  BY <1>1, <1>2, SimInvariant, CountsCycles, PTL DEF Spec

(***************************************************************************)
(* The end of the loop.                                                    *)
(***************************************************************************)
LEMMA EndsStep ==
    ASSUME SimInv, EndsComplete, [Next]_simVars
    PROVE  EndsComplete'
<1>1. SimTypeOK /\ NumCores \in Nat /\ \A c \in Present : c \in Nat /\ c < NumCores
  BY CountersType DEF SimInv
<1>2. CASE \E c \in Present : StageCall(c)
  <2>1. PICK c \in Present : StageCall(c)
    BY <1>2
  <2>2. /\ status = "running" /\ turn.core = c /\ status' = "running"
        /\ Present' = Present
        /\ \A d \in Present : d # c => cores'[d] = cores[d]
    BY <2>1, StageCallEffect DEF Present
  <2>3. CASE CallFetch(c)
    BY <2>2, <2>3 DEF CallFetch, EndsComplete
  <2>4. CASE ~CallFetch(c)
    <3>1. turn'.core = c /\ all_cores_completed' = all_cores_completed
      BY <2>1, <2>4 DEF StageCall, CallStore, CallExecute, CallDecode, NextStage, clockVars
    <3>2. \A d \in Present : d < c => d # c
      BY <1>1
    <3>3. ASSUME all_cores_completed', NEW d \in Present, d < c
          PROVE  IsComplete(cores'[d])
      BY <2>2, <3>1, <3>2, <3>3 DEF EndsComplete
    <3>4. \A d \in Present : IsComplete(cores[d])' <=> IsComplete(cores'[d])
      BY DEF IsComplete
    <3> QED
      BY <2>2, <3>1, <3>3, <3>4 DEF EndsComplete
  <2> QED
    BY <2>3, <2>4
<1>3. CASE \E c \in Present : LoadWord(c) \/ LoadEnds(c)
  <2>1. PICK c \in Present : LoadWord(c) \/ LoadEnds(c)
    BY <1>3
  <2>2. \/ status' = "loading"
        \/ status' = "running" /\ turn' = FirstTurn
    BY <2>1 DEF LoadWord, MoreToLoad, LoadEnds
  <2>3. Present' = Present
    BY <2>1 DEF LoadWord, LoadEnds, Present
  <2>4. \A d \in Present : ~(d < 0)
    BY <1>1
  <2> QED
    BY <2>2, <2>3, <2>4 DEF EndsComplete, FirstTurn
<1>4. CASE \E c \in Present : SkipCore(c)
  <2>1. PICK c \in Present : SkipCore(c)
    BY <1>4
  <2>2. /\ UNCHANGED cores /\ Present' = Present
        /\ status = "running" /\ status' = "running"
        /\ turn.core = c /\ turn'.core = c + 1
        /\ all_cores_completed' = all_cores_completed
        /\ IsComplete(cores[c])
    BY <2>1 DEF SkipCore, NextCore, coreVars, clockVars, Present
  <2>3. \A d \in Present : d < c + 1 => d < c \/ d = c
    BY <1>1
  <2>4. ASSUME all_cores_completed, NEW d \in Present, d < c + 1
        PROVE  IsComplete(cores'[d])
    BY <2>2, <2>3, <2>4 DEF EndsComplete
  <2>5. \A d \in Present : IsComplete(cores[d])' <=> IsComplete(cores'[d])
    BY DEF IsComplete
  <2> QED
    BY <2>2, <2>4, <2>5 DEF EndsComplete
<1>5. CASE EndCycle
  <2>1. UNCHANGED cores /\ Present' = Present /\ status = "running"
        /\ turn.core = NumCores
    BY <1>5 DEF EndCycle, coreVars, Present
  <2>2. \/ status' = "limit"
        \/ status' = "completed" /\ all_cores_completed
        \/ status' = "running" /\ turn' = FirstTurn
    BY <1>5, <2>1 DEF EndCycle
  <2>3. ASSUME all_cores_completed, NEW d \in Present
        PROVE  IsComplete(cores[d]) /\ Finished(cores[d])
    <3>1. d < turn.core /\ turn.core # d
      BY <1>1, <2>1
    <3>2. IsComplete(cores[d])
      BY <2>1, <2>3, <3>1 DEF EndsComplete
    <3>3. Unfinished(cores[d]) \/ Finished(cores[d])
      BY <2>1, <3>1 DEF SimInv, NoneLooksComplete
    <3> QED
      BY <3>2, <3>3, CompleteIsFinished
  <2>4. \A d \in Present : ~(d < 0)
    BY <1>1
  <2>5. \A d \in Present : /\ IsComplete(cores[d])' <=> IsComplete(cores[d])
                           /\ Finished(cores[d])' <=> Finished(cores[d])
    BY <2>1 DEF IsComplete, Finished
  <2> QED
    BY <2>1, <2>2, <2>3, <2>4, <2>5 DEF EndsComplete, FirstTurn
<1>6. CASE \E c \in Present : Terminate(c)
  BY <1>6 DEF Terminate, EndsComplete
<1>7. CASE UNCHANGED simVars
  <2>1. Present' = Present
    BY <1>7 DEF simVars, Present
  <2> QED
    BY <1>7, <2>1 DEF simVars, clockVars, EndsComplete, IsComplete, Finished
<1> QED
  BY <1>2, <1>3, <1>4, <1>5, <1>6, <1>7 DEF Next, StageCall

\* run() ends as completed only when the program of every core is over: its
\* stages are empty, and pc is past its last instruction (simulator.cpp:59-99,
\* the flag all_cores_completed against IsComplete).
THEOREM RunEndsComplete == Spec => []EndsComplete
<1>1. Init => EndsComplete
  BY DEF Init, EndsComplete
<1>2. SimInv /\ EndsComplete /\ [Next]_simVars => EndsComplete'
  BY EndsStep
<1> QED
  BY <1>1, <1>2, SimInvariant, PTL DEF Spec

(***************************************************************************)
(* The loader.                                                             *)
(***************************************************************************)
\* What stands in memory for a word of the file of a core.
FileAddress(c, n) == StartAddress[c] + 4 * (n - 1)

WordStands(c, n) ==
    \/ memory[FileAddress(c, n)] = binary[c][n]
    \/ \E d \in Present : \E m \in 1 .. loaded[d] :
           d > c /\ FileAddress(d, m) = FileAddress(c, n)

\* The cores are loaded in order, and what is loaded lies in the array.
LoadedInOrder ==
    /\ \A c \in Present : \A n \in 1 .. loaded[c] : FileAddress(c, n) \in Address
    /\ status = "loading" =>
           turn.stage = "load" /\ \A c \in Present : c > turn.core => loaded[c] = 0
    /\ status = "running" => clock_cycle >= 1

LEMMA LoadWordStands ==
    ASSUME SimInv, LoadedInOrder, LaterFileStands, NEW c \in Present, LoadWord(c)
    PROVE  LoadedInOrder' /\ LaterFileStands'
<1> DEFINE a == LoadTo(c)
<1>1. /\ UNCHANGED <<binary, status, turn, clock_cycle>> /\ Present' = Present
      /\ loaded' = [loaded EXCEPT ![c] = @ + 1] /\ loaded \in [Present -> Nat]
      /\ status = "loading" /\ turn.core = c
  BY LoadWordEffect DEF SimInv, SimTypeOK, clockVars, Present, LoadWord, MoreToLoad
<1>2. c \in Nat /\ c \in CoreId /\ StartAddress[c] \in Word /\ \A d \in Present : d \in Nat
  BY PresentType, PresentCores, SimulatorAssumption DEF SimInv
<1>3. /\ a \in Address /\ a = FileAddress(c, loaded[c] + 1)
      /\ memory' = [memory EXCEPT ![a] = binary[c][loaded[c] + 1]]
      /\ memory \in [Address -> Word]
  <2>1. a \in Address /\ MembusWriteBypass(c, a, binary[c][loaded[c] + 1])
    BY DEF LoadWord, Fault
  <2>2. ~HeldByOther(c, a)
    BY <1>1, <2>1 DEF SimInv, NothingBegun, HeldByOther, InUse
  <2>3. a = FileAddress(c, loaded[c] + 1)
    BY <1>1, <1>2 DEF LoadTo, FileAddress
  <2> QED
    BY <2>1, <2>2, <2>3
       DEF MembusWriteBypass, RamWriteBypass, SimInv, SimTypeOK, MembusTypeOK, RamTypeOK
<1> HIDE DEF a
<1>4. \A d \in Present : \A n \in 1 .. loaded'[d] :
          n \in 1 .. loaded[d] \/ (d = c /\ n = loaded[c] + 1)
  BY <1>1
<1>5. ASSUME NEW d \in Present, NEW n \in 1 .. loaded'[d]
      PROVE  FileAddress(d, n) \in Address /\ WordStands(d, n)'
  <2>1. CASE d = c /\ n = loaded[c] + 1
    BY <1>1, <1>3, <2>1 DEF WordStands, FileAddress
  <2>2. CASE n \in 1 .. loaded[d] /\ FileAddress(d, n) = a
    <3>1. d # c
      <4>1. loaded[c] \in Nat /\ StartAddress[c] \in Nat
        BY <1>1, <1>2, WordAssumption
      <4> QED
        BY <1>3, <2>2, <4>1 DEF FileAddress
    <3>2. d < c
      BY <1>1, <1>2, <2>2, <3>1 DEF LoadedInOrder
    <3>3. loaded[c] + 1 \in 1 .. loaded'[c]
      BY <1>1
    <3> QED
      BY <1>1, <1>2, <1>3, <2>2, <3>2, <3>3 DEF WordStands, FileAddress
  <2>3. CASE n \in 1 .. loaded[d] /\ FileAddress(d, n) # a
    <3>1. FileAddress(d, n) \in Address
      BY <2>3 DEF LoadedInOrder
    <3>2. WordStands(d, n)
      BY <1>1, <2>3 DEF LaterFileStands, WordStands, FileAddress, LoadedInOrder
    <3>3. CASE memory[FileAddress(d, n)] = binary[d][n]
      BY <1>1, <1>3, <2>3, <3>1, <3>3 DEF WordStands, FileAddress
    <3>4. CASE \E e \in Present : \E m \in 1 .. loaded[e] :
                  e > d /\ FileAddress(e, m) = FileAddress(d, n)
      <4>1. PICK e \in Present : \E m \in 1 .. loaded[e] :
                e > d /\ FileAddress(e, m) = FileAddress(d, n)
        BY <3>4
      <4>2. PICK m \in 1 .. loaded[e] : e > d /\ FileAddress(e, m) = FileAddress(d, n)
        BY <4>1
      <4>3. m \in 1 .. loaded'[e]
        BY <1>1
      <4> QED
        BY <1>1, <3>1, <4>2, <4>3 DEF WordStands, FileAddress
    <3> QED
      BY <3>1, <3>2, <3>3, <3>4 DEF WordStands
  <2> QED
    BY <1>4, <2>1, <2>2, <2>3
<1>6. LoadedInOrder'
  <2>1. \A d \in Present : \A n \in 1 .. loaded'[d] : FileAddress(d, n) \in Address
    BY <1>5
  <2>2. ASSUME NEW d \in Present, d > turn.core
        PROVE  loaded'[d] = 0
    <3>1. d # c /\ loaded[d] = 0
      BY <1>1, <1>2, <2>2 DEF LoadedInOrder
    <3> QED
      BY <1>1, <3>1
  <2>3. turn'.stage = "load" /\ turn' = turn /\ status' = "loading"
    BY <1>1 DEF LoadedInOrder
  <2> QED
    BY <1>1, <2>1, <2>2, <2>3 DEF LoadedInOrder, FileAddress
<1>7. LaterFileStands'
  BY <1>1, <1>5 DEF LaterFileStands, WordStands, FileAddress
<1> QED
  BY <1>6, <1>7

LEMMA LoaderStep ==
    ASSUME CountBound > 1, SimInv, LoadedInOrder, LaterFileStands, [Next]_simVars
    PROVE  LoadedInOrder' /\ LaterFileStands'
<1>1. ASSUME NEW c \in Present, LoadWord(c)
      PROVE  LoadedInOrder' /\ LaterFileStands'
  BY <1>1, LoadWordStands
<1>2. ASSUME NEW c \in Present, LoadEnds(c)
      PROVE  LoadedInOrder' /\ LaterFileStands'
  <2>1. UNCHANGED <<memory, binary, loaded>> /\ Present' = Present
    BY <1>2 DEF LoadEnds, busVars, ramVars, Present
  <2>2. turn.stage = "load" /\ turn.core = c /\ status = "loading" /\ c \in Nat
        /\ \A d \in Present : d \in Nat
    BY <1>2, PresentType, PresentCores DEF LoadEnds, LoadedInOrder, SimInv
  <2>3. \/ UNCHANGED status /\ turn' = [turn EXCEPT !.core = c + 1]
        \/ status' = "running" /\ clock_cycle' = 1
    BY <1>2 DEF LoadEnds
  <2>4. turn \in [core : 0 .. NumCores,
                  stage : {"load", "store", "execute", "decode", "fetch"}]
    BY DEF SimInv, SimTypeOK
  <2>5. LoadedInOrder'
    BY <2>1, <2>2, <2>3, <2>4 DEF LoadedInOrder, FileAddress
  <2>6. LaterFileStands'
    BY <2>1, <2>2 DEF LaterFileStands
  <2> QED
    BY <2>5, <2>6
<1>3. ASSUME NEW c \in Present, StageCall(c) \/ SkipCore(c)
      PROVE  LoadedInOrder' /\ LaterFileStands'
  <2>1. /\ UNCHANGED <<binary, loaded, status, clock_cycle>> /\ Present' = Present
        /\ status = "running"
    BY <1>3, StageCallEffect DEF SkipCore, clockVars, Present
  <2>2. turn'.stage # "load" /\ turn' # FirstTurn
    <3>1. c \in Nat
      BY PresentType, PresentCores DEF SimInv
    <3> QED
      BY <1>3, <3>1 DEF StageCall, CallStore, CallExecute, CallDecode, CallFetch, SkipCore,
                        NextStage, NextCore, FirstTurn
  <2> QED
    BY <2>1, <2>2 DEF LoadedInOrder, LaterFileStands, FileAddress
<1>4. CASE EndCycle
  <2>1. UNCHANGED <<memory, binary, loaded>> /\ Present' = Present /\ status = "running"
    BY <1>4 DEF EndCycle, coreVars, busVars, ramVars, Present
  <2>2. CASE UNCHANGED <<turn, clock_cycle>> /\ status' \notin {"loading", "running"}
    BY <2>1, <2>2 DEF LoadedInOrder, LaterFileStands, FileAddress
  <2>3. CASE turn' = FirstTurn /\ clock_cycle' = Count(clock_cycle) /\ UNCHANGED status
    <3>1. clock_cycle' # 1 /\ clock_cycle' >= 1
      BY <2>1, <2>3, CountAssumption DEF LoadedInOrder, Count, SimInv, SimTypeOK
    <3>2. LaterFileStands'
      BY <2>3, <3>1 DEF LaterFileStands, FirstTurn
    <3>3. LoadedInOrder'
      BY <2>1, <2>3, <3>1 DEF LoadedInOrder, FileAddress
    <3> QED
      BY <3>2, <3>3
  <2>4. \/ UNCHANGED <<turn, clock_cycle>> /\ status' \in {"limit", "completed"}
        \/ turn' = FirstTurn /\ clock_cycle' = Count(clock_cycle) /\ UNCHANGED status
    BY <1>4 DEF EndCycle, clockVars
  <2> QED
    BY <2>2, <2>3, <2>4
<1>5. CASE (\E c \in Present : Terminate(c)) \/ UNCHANGED simVars
  <2>1. /\ UNCHANGED <<memory, binary, loaded, turn, clock_cycle>> /\ Present' = Present
        /\ status' \in {status, "terminated"}
    BY <1>5 DEF Terminate, simVars, coreVars, busVars, ramVars, clockVars, Present
  <2> QED
    BY <2>1 DEF LoadedInOrder, LaterFileStands, FileAddress
<1> QED
  BY <1>1, <1>2, <1>3, <1>4, <1>5 DEF Next, StageCall

\* The loader leaves every file in memory but for the words that a later file was
\* loaded over (simulator.cpp:22-33), whatever the files and wherever they begin.
THEOREM LoaderKeepsFiles ==
    ASSUME CountBound > 1
    PROVE  Spec => []LaterFileStands
<1>1. Init => LoadedInOrder /\ LaterFileStands
  BY DEF Init, LoadedInOrder, LaterFileStands, Present
<1>2. SimInv /\ LoadedInOrder /\ LaterFileStands /\ [Next]_simVars
          => LoadedInOrder' /\ LaterFileStands'
  BY LoaderStep
<1> QED
  BY <1>1, <1>2, SimInvariant, PTL DEF Spec
=============================================================================
