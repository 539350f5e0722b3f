----------------------------- MODULE Simulator ------------------------------
(***************************************************************************)
(* The whole program (main_1.cpp, components/simulator.cpp): the cores are *)
(* constructed, their binaries loaded through the membus, and then run()   *)
(* calls the stages of each core in turn, once per clock cycle, in the     *)
(* order store, execute, decode, fetch.  One step here is one word loaded, *)
(* one call of a stage, or the end of a cycle.                             *)
(***************************************************************************)
EXTENDS Core, Sequences, FiniteSetsExt, Functions

CONSTANTS
    StartAddress,       \* instruction_address_0 and _1 of main, by core
    InitialSp,          \* the initial stack pointers of main, by core
    Binaries,           \* the choices of files: one for core 0, or one for each
    Arrays,             \* the addresses of the arrays A and B
    RandomWords,        \* the words the arrays may be filled with
    clock_cycle_limit   \* Simulator::clock_cycle_limit; 0 is no limit

ASSUME SimulatorAssumption ==
    /\ IsFiniteSet(CoreId) /\ CoreId = 0 .. Cardinality(CoreId) - 1
    /\ StartAddress \in [CoreId -> Word]
    /\ InitialSp \in [CoreId -> Word]
    /\ \A files \in Binaries : \E n \in CoreId : files \in [0 .. n -> Seq(Word)]
    /\ RandomWords \subseteq Word \ {UINT32_MAX, UINT32_MAX - 1}
    /\ clock_cycle_limit \in 0 .. CountBound

VARIABLES
    binary,             \* the files named on the command line
    loaded,             \* how many words of its file each core has in memory
    status,             \* loading, running, or the way the program ended
    turn,               \* the core and the stage that is called next
    clock_cycle,
    core_clock_cycles,
    all_cores_completed

clockVars == <<clock_cycle, core_clock_cycles, all_cores_completed>>

simVars == <<cores, memory, addressDelays, addressInUse,
             binary, loaded, status, turn, clockVars>>

\* main creates a core for each program it is given.
Present == DOMAIN binary
NumCores == Cardinality(Present)

\* The constructors; RAM::RAM fills the arrays with random words.
Init ==
    /\ binary \in Binaries
    /\ MembusInit(Arrays, RandomWords)
    /\ cores = [c \in Present |-> NewCore(StartAddress[c], InitialSp[c])]
    /\ loaded = [c \in Present |-> 0]
    /\ status = "loading"
    /\ turn = [core |-> 0, stage |-> "load"]
    /\ clock_cycle = 0
    /\ core_clock_cycles = [c \in Present |-> 0]
    /\ all_cores_completed = TRUE

(***************************************************************************)
(* load_instructions_from_binary.                                          *)
(***************************************************************************)
LoadTo(c) == StartAddress[c] + 4 * loaded[c]

MoreToLoad(c) ==
    status = "loading" /\ turn.core = c /\ loaded[c] < Len(binary[c])

LoadWord(c) ==
    /\ MoreToLoad(c)
    /\ ~Fault(LoadTo(c)) /\ ~Outside(LoadTo(c))
    /\ MembusWriteBypass(c, LoadTo(c), binary[c][loaded[c] + 1])
    /\ loaded' = [loaded EXCEPT ![c] = @ + 1]
    /\ UNCHANGED <<cores, binary, status, turn, clockVars>>

FirstTurn == [core |-> 0, stage |-> "store"]

LoadEnds(c) ==
    /\ status = "loading"
    /\ turn.core = c
    /\ loaded[c] = Len(binary[c])
    /\ Become(c, [cores[c] EXCEPT
                      !.start_address = StartAddress[c],
                      !.max_instruction_address = Wrap(LoadTo(c) - 4)])
    /\ IF c + 1 = NumCores
       THEN status' = "running" /\ turn' = FirstTurn /\ clock_cycle' = 1
       ELSE turn' = [turn EXCEPT !.core = c + 1] /\ UNCHANGED <<status, clock_cycle>>
    /\ UNCHANGED <<busVars, binary, loaded, core_clock_cycles, all_cores_completed>>

(***************************************************************************)
(* The body of the loop in run().                                          *)
(***************************************************************************)
Calling(c, stage) ==
    /\ status = "running"
    /\ turn = [core |-> c, stage |-> stage]
    /\ stage = "store" => ~IsComplete(cores[c])

NextStage(c, stage) ==
    /\ turn' = [core |-> c, stage |-> stage]
    /\ UNCHANGED <<binary, loaded, status, clockVars>>

CallStore(c) == Calling(c, "store") /\ Store(c) /\ NextStage(c, "execute")

CallExecute(c) == Calling(c, "execute") /\ Execute(c) /\ NextStage(c, "decode")

CallDecode(c) == Calling(c, "decode") /\ Decode(c) /\ NextStage(c, "fetch")

NextCore(c) == turn' = [core |-> c + 1, stage |-> "store"]

\* Mutant: the flag is not cleared for a core that is called.
LeavesFlag(c) ==
    /\ Calling(c, "fetch")
    /\ Fetch(c)
    /\ core_clock_cycles' = [core_clock_cycles EXCEPT ![c] = Count(@)]
    /\ NextCore(c)
    /\ UNCHANGED <<binary, loaded, status, clock_cycle, all_cores_completed>>

CallFetch(c) ==
    /\ Calling(c, "fetch")
    /\ Fetch(c)
    /\ all_cores_completed' = FALSE
    /\ core_clock_cycles' = [core_clock_cycles EXCEPT ![c] = Count(@)]
    /\ NextCore(c)
    /\ UNCHANGED <<binary, loaded, status, clock_cycle>>

\* Mutant: its cycles are counted all the same.
CountsWhenSkipped(c) ==
    /\ status = "running"
    /\ turn = [core |-> c, stage |-> "store"]
    /\ IsComplete(cores[c])
    /\ NextCore(c)
    /\ core_clock_cycles' = [core_clock_cycles EXCEPT ![c] = Count(@)]
    /\ UNCHANGED <<coreVars, binary, loaded, status, clock_cycle, all_cores_completed>>

SkipCore(c) ==
    /\ status = "running"
    /\ turn = [core |-> c, stage |-> "store"]
    /\ IsComplete(cores[c])
    /\ NextCore(c)
    /\ UNCHANGED <<coreVars, binary, loaded, status, clockVars>>

\* An exception that nothing catches, or an access outside the array.  What the
\* call had changed before no longer matters.
Throws(c) ==
    \/ MoreToLoad(c) /\ (Fault(LoadTo(c)) \/ Outside(LoadTo(c)))
    \/ Calling(c, "store") /\ StoreFaults(c, cores[c])
    \/ Calling(c, "execute") /\ ExecuteFaults(c, cores[c])
    \/ Calling(c, "fetch") /\ FetchThrows(c, cores[c])

Terminate(c) ==
    /\ Throws(c)
    /\ status' = "terminated"
    /\ UNCHANGED <<coreVars, binary, loaded, turn, clockVars>>

LimitReached == clock_cycle_limit # 0 /\ clock_cycle >= clock_cycle_limit

EndCycle ==
    /\ status = "running"
    /\ turn.core = NumCores
    /\ IF LimitReached
       THEN status' = "limit" /\ UNCHANGED <<turn, clockVars>>
       ELSE IF all_cores_completed
       THEN status' = "completed" /\ UNCHANGED <<turn, clockVars>>
       ELSE /\ turn' = FirstTurn
            /\ clock_cycle' = Count(clock_cycle)
            /\ all_cores_completed' = TRUE
            /\ UNCHANGED <<status, core_clock_cycles>>
    /\ UNCHANGED <<coreVars, binary, loaded>>

Next ==
    \/ EndCycle
    \/ \E c \in Present :
           \/ LoadWord(c)
           \/ LoadEnds(c)
           \/ CallStore(c)
           \/ CallExecute(c)
           \/ CallDecode(c)
           \/ CallFetch(c)
           \/ SkipCore(c)
           \/ Terminate(c)

\* run() is one thread that never blocks: it always takes its next step.
Spec == Init /\ [][Next]_simVars /\ WF_simVars(Next)

(***************************************************************************)
(* Properties.                                                             *)
(***************************************************************************)

\* Every object keeps its shape: words stay words, delays of an instruction
\* stay between DelayFloor and 5, and the turn names a stage of a core (all of
\* core.cpp and simulator.cpp).
SimTypeOK ==
    /\ MembusTypeOK
    /\ cores \in [Present -> CoreType]
    /\ \E n \in CoreId : binary \in [0 .. n -> Seq(Word)]
    /\ loaded \in [Present -> Nat]
    /\ \A c \in Present : loaded[c] <= Len(binary[c])
    /\ status \in {"loading", "running", "completed", "limit", "terminated"}
    /\ turn \in [core : 0 .. NumCores,
                 stage : {"load", "store", "execute", "decode", "fetch"}]
    /\ clock_cycle \in 0 .. CountBound
    /\ core_clock_cycles \in [Present -> 0 .. CountBound]
    /\ all_cores_completed \in BOOLEAN

\* A register is held only for the store that is in the Store stage, so that
\* no load waits for a store that is over (core.cpp:230-248 against 298-301).
HoldMatchesStore == \A c \in Present : HoldMatches(cores[c])

\* run() passes a core over only when its pipeline ran dry at the end of its
\* program: no jump can come back from there (core.cpp:532-538, the guard of
\* simulator.cpp:67, against the ways Fetch and fetching_active are reset).
CompleteMeansFinished ==
    status = "running" /\ turn.stage = "store" =>
        \A c \in Present : IsComplete(cores[c]) => Finished(cores[c])

\* The loop ends in the first cycle in which no core is called, and each core
\* was called in every cycle until it was complete, so that the counts reported
\* are the cycles the cores took; at the limit it ends without a report, also
\* when the cores have just completed (simulator.cpp:65-98).
EndsOnTime ==
    LET longest == Max(Range(core_clock_cycles)) IN
    /\ status = "completed" => clock_cycle = longest + 1 /\ ~LimitReached
    /\ status = "limit" =>
           clock_cycle = clock_cycle_limit /\ longest >= clock_cycle - 1

\* The loop ends as completed only with the program of every core over: as long
\* as all_cores_completed stands in a cycle, the cores whose turn is over have
\* dry pipelines, and at the end all have, past their last words
\* (simulator.cpp:59-99, with IsComplete evaluated once in a core's turn).
EndsComplete ==
    /\ status = "running" /\ all_cores_completed =>
           \A c \in Present : c < turn.core => IsComplete(cores[c])
    /\ status = "completed" =>
           \A c \in Present : IsComplete(cores[c]) /\ Finished(cores[c])

\* Files that overlap do not garble each other: until the first cycle, a word of
\* a file is in memory unless a word of a later file was loaded over it, and
\* then that one is (simulator.cpp:22-33, main_1.cpp:24-31).
LaterFileStands ==
    turn.stage = "load" \/ (turn = FirstTurn /\ clock_cycle = 1) =>
        \A c \in Present : \A n \in 1 .. loaded[c] :
            \/ memory[StartAddress[c] + 4 * (n - 1)] = binary[c][n]
            \/ \E d \in Present : \E m \in 1 .. loaded[d] :
                   /\ d > c
                   /\ StartAddress[d] + 4 * (m - 1) = StartAddress[c] + 4 * (n - 1)

\* The loader and the stages share the memory as the arbiter says: no stage
\* gets in between the calls of a store of the other core, abandoned fetches
\* and faults included (all calls of the bus in core.cpp and simulator.cpp).
ArbitratesMemory == Arbiter!ArbiterSpec

\* The pipelines do what cores would that perform one instruction at a time in
\* the order fetched: none is lost or performed twice, and only stores are overtaken,
\* and a jump drops exactly what is behind it (the stages of core.cpp against
\* each other).  Execute and Decode hold the line, Store the buffer.
Occupant(instr) == IF instr = NoInstruction THEN <<>> ELSE <<instr.binary>>

Machine ==
    INSTANCE InOrder WITH
        Meaning <- DecodeInstruction, Plus <- FAdd, Minus <- FSub,
        mem     <- memory,
        regs    <- [c \in Present |-> cores[c].registers],
        next    <- [c \in Present |-> cores[c].pc],
        line    <- [c \in Present |->
                       Occupant(cores[c].Execute) \o Occupant(cores[c].Decode)],
        buffer  <- [c \in Present |-> Occupant(cores[c].Store)]

ImplementsInOrder == Machine!InOrderSpec

\* Every instruction in the pipeline is the word of its core's binary that
\* belongs at the address it was fetched from (core.cpp:44-63 taking what the
\* bus answers, after simulator.cpp:22-33 stored it).
PipelineHoldsProgram ==
    \A c \in Present :
        \A instr \in {cores[c].Decode, cores[c].Execute, cores[c].Store} \
                         {NoInstruction} :
            LET i == (instr.fetched_at - StartAddress[c]) \div 4 + 1 IN
            /\ instr.fetched_at = StartAddress[c] + 4 * (i - 1)
            /\ i \in 1 .. Len(binary[c])
            /\ instr.binary = binary[c][i]

\* A store keeps its address and its word from the first call the bus accepts
\* to the last, though both are computed anew each cycle (core.cpp:207-248).
StoreStaysPut ==
    [][\A c \in Present :
           LET k == cores[c]
               a == StoreAddress(k)
           IN /\ k.Store # NoInstruction
              /\ cores'[c].Store = k.Store
              /\ addressInUse[a].core = c
              /\ addressDelays[a].store > 0
              => /\ StoreAddress(cores'[c]) = a
                 /\ StoreValue(cores'[c]) = StoreValue(k)]_simVars

\* An address in use by a core is one that a stage of that core is calling for
\* (membus.h:23: "Map to track which core is using which address").
FetchCalls(k, a) == k.Decode = NoInstruction /\ k.fetching_active /\ a = k.pc
LoadCalls(k, a) ==
    /\ k.Execute # NoInstruction
    /\ Operands(k.Execute).name \in Loading
    /\ a = LoadAddress(k)
StoreCalls(k, a) == k.Store # NoInstruction /\ a = StoreAddress(k)

BusUsersAreReal ==
    status = "running" =>
        \A a \in Address :
            InUse(a) => LET k == cores[addressInUse[a].core] IN
                        FetchCalls(k, a) \/ LoadCalls(k, a) \/ StoreCalls(k, a)

\* The simulation ends by itself with every core complete: no core waits for
\* ever, neither for the RAM nor for another core (simulator.cpp:59-99).
Finishes == <>(status = "completed")

\* An instruction that has a delay and then nothing to wait for leaves Execute
\* when its delay has been counted down to the last cycle (core.cpp:118: "If execute_delay_remaining ==
\* 0, initialize it based on instruction type").
LatencyIsPaid ==
    [][\A c \in Present :
           LET instr == cores[c].Execute IN
           /\ instr # NoInstruction
           /\ Operands(instr).name \in Computing
           /\ DelayAmount(Operands(instr).name) > 0
           /\ cores'[c].Execute = NoInstruction
           => instr.execute_delay = 1]_simVars

\* A core whose decoder reports "End of program reached" (core.cpp:94) gets to
\* the state in which run() counts it as completed.
EndOfProgramCompletes ==
    \A c \in CoreId :
        (/\ c \in Present
         /\ cores[c].Decode # NoInstruction
         /\ Operands(cores[c].Decode).name = "Unknown") ~> IsComplete(cores[c])
=============================================================================
