------------------------- MODULE SimulatorInvariants --------------------------
(***************************************************************************)
(* What holds between any two steps of the simulator and makes its         *)
(* properties inductive.                                                   *)
(***************************************************************************)
EXTENDS Simulator

\* The two operations on floats have words for results.
ASSUME FloatAssumption ==
    \A x, y \in Word : FAdd(x, y) \in Word /\ FSub(x, y) \in Word

\* While the binaries are loaded nothing is fetched, loaded or stored.
NothingBegun ==
    status = "loading" =>
        /\ \A a \in Address : ~InUse(a)
        /\ \A c \in Present : cores[c].fetching_active

TurnInOrder ==
    status = "running" =>
        /\ turn.stage # "load"
        /\ turn.core = NumCores => turn.stage = "store"

\* No core looks complete before its program is over, but for the one whose
\* stages are being called.
NoneLooksComplete ==
    status = "running" =>
        \A c \in Present :
            turn.core # c \/ turn.stage = "store" =>
                Unfinished(cores[c]) \/ Finished(cores[c])

\* Up to cycle n the core was called in every cycle, or until it was complete.
Called(c, n) ==
    \/ core_clock_cycles[c] = n
    \/ core_clock_cycles[c] < n /\ IsComplete(cores[c])

\* In each cycle run() has called the cores before the one whose turn it is,
\* and not yet the others; the flag says whether it has called any; and in the
\* cycle before it called one (simulator.cpp:59-99).
CyclesCounted ==
    clock_cycle_limit # 0 =>
        /\ status = "loading" =>
               /\ clock_cycle = 0 /\ all_cores_completed
               /\ \A c \in Present : core_clock_cycles[c] = 0
        /\ status = "running" =>
               /\ clock_cycle \in 1 .. clock_cycle_limit
               /\ \A c \in Present :
                      Called(c, IF c < turn.core THEN clock_cycle
                                ELSE clock_cycle - 1)
               /\ turn.stage # "store" =>
                      core_clock_cycles[turn.core] = clock_cycle - 1
               /\ \E c \in Present : core_clock_cycles[c] >= clock_cycle - 1
               /\ all_cores_completed <=>
                      \A c \in Present :
                          c < turn.core => core_clock_cycles[c] # clock_cycle

SimInv ==
    /\ SimTypeOK
    /\ BusInv
    /\ HoldMatchesStore
    /\ NothingBegun
    /\ TurnInOrder
    /\ NoneLooksComplete

\* Nothing has entered a pipeline before all binaries are loaded; the Store stage
\* is for stores; and a store that its stage has just called for without
\* completing it holds its base register, and its address against loads
\* (core.cpp:230-248, membus.cpp:17-28, ram.cpp:33-37).
StoreStands(c, k) ==
    k.Store # NoInstruction =>
        /\ k.hold_registers[StoreBase(k)]
        /\ StoreAddress(k) \in Address
        /\ \/ HeldByOther(c, StoreAddress(k))
           \/ addressDelays[StoreAddress(k)].store > 0

PipelineInv ==
    /\ status = "loading" =>
           \A c \in Present :
               {cores[c].Decode, cores[c].Execute, cores[c].Store} = {NoInstruction}
    /\ \A c \in Present :
           cores[c].Store # NoInstruction => Operands(cores[c].Store).name \in Storing
    /\ status = "running" /\ turn.stage = "execute" =>
           StoreStands(turn.core, cores[turn.core])
=============================================================================
