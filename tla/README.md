# A TLA+ model of the dual-core RISC-V simulator

The repository (`src/Assignment 4`) is a C++ simulator of one or two RISC-V
cores.  Each core has a pipeline of four stages; the cores share a memory
through a bus that gives an address to one core at a time.  Memory accesses
take several cycles, floating point instructions too.  The program loads one
binary per core, steps the cores cycle by cycle until both are complete or a
limit is reached, and prints the memory.

Nothing in the C++ code runs in parallel: `Simulator::run` is one loop.  What
is hard about it is what is hard in the hardware it imitates.  Four stages of
two cores advance in lockstep through shared count-downs; an access is a call
repeated for several cycles by a caller whose registers may change in between;
answers and data share one word; and the end of the program is read off from
five fields that different stages write.

All line numbers below are of files in `src/Assignment 4/components` unless a
directory is given.

## 1. Inventory

| part | state | operations | talks to |
|---|---|---|---|
| RAM (`ram.cpp`, `ram.h`) | bytes; per address a store and a load count-down | `read`, `write`, both with a bypass; printing | called by the bus |
| Bus (`membus.cpp`, `membus.h`) | `addressInUse`: address -> core and two delays | `read`, `write` | called by cores and loader, calls the RAM |
| Core (`core.cpp`, `core.h`) | registers, held registers, pc, four pipeline registers, per instruction two delays, three flags | `store`, `execute` (15 instructions), `decode`, `fetch`, `is_complete` | calls decoder and bus; called by `run` |
| Decoder (`decoder.cpp`, `decoder.h`) | none (constant tables) | `decodeInstruction` | called by `decode` |
| Simulator (`simulator.cpp`, `simulator.h`) | the cores, cycle counters | `load_instructions_from_binary`, `run` | calls all of the above |
| `main_1.cpp` | none | constructs the cores, loads, runs, prints | |
| Programs (`test_assembly/`, `c_code/`) | | two binaries are run; the others are sources only | |
| Reporting | `event_list`, `cycle_entered` | `print*` | read by nothing |
| `unused/`, `testing.cpp` | | earlier assignments, a test of a former RAM interface | not built |

What makes each part correct:

- **RAM**: a repeated call ends after the delay; a load waits for a store of
  its address; a word is changed only when a store ends.
- **Bus**: an address belongs to one core at a time; the core that began an
  access is the one that ends it; ending it frees the address; what a core is
  told is true.
- **Core**: the pipeline leaves what the instructions would leave one at a
  time; a store keeps its address and word while it is in progress; held
  registers are released; an instruction takes its delay.
- **Decoder**: it takes a word apart as the formats of RISC-V put it together.
- **Simulator**: the words of a file arrive at the addresses that are fetched;
  the loop ends by itself; a core is skipped only when it has finished.

The behaviours that a test would hardly reach are listed, with their lines and
the properties about them, under `hazards` in `PROJECT.json`.

## 2. Modules

```
Ram <- Membus <- Core <- Simulator <- SimulatorInvariants <- MCSmall <- MCPrograms, MCHazards
          ^        ^         |    ^                              ^
          |        |      INSTANCE +-- Conventions <-------- MCStraight
          |  Instructions    v              ^
          |        |                        +--- MCVector  (also: Programs, Decoder)
          |        ^      InOrder, AddressArbiter
   MembusClients   |             ^
          ^        |             |
          |        +--- Decoder <- RoundTrip <- MCDecoder  (also: Assembler)
      MCMembus     +--- Programs
```

The modules of the proofs:

```
Membus <- MembusLemmas <- MembusProofs     (also: MembusClients)
               ^
               +-- CoreProofs <- SimulatorProofs <- PipelineProofs <- CodeProofs <- LineProofs
                   (also: Core)  (also: SimulatorInvariants)   (also: Conventions)

RoundTrip <- DecoderProofs
```

`MembusClients` implements `AddressArbiter` too.

| module | stands for | how |
|---|---|---|
| `Ram` | `ram.cpp` | An access is an operator for the returned vector (`RamReadResult`) and an action for the effect (`RamRead`). `memory` is indexed by word addresses. |
| `Membus` | `membus.cpp` | The same for the bus. An address that is not a key of the hash map has the entry `Free`. |
| `MembusClients` | the bus under any calls | Some core makes some call at each step; `answer` is the last call with its vector. The stages make fewer calls than this, so safety here is safety there. |
| `AddressArbiter` | what the bus promises | No count-downs: a core takes an address, ends a load, ends a store. |
| `Core` | `core.cpp` | The cores are one function of records with the fields of the class. Each stage function is the disjunction of the paths through it; a path that throws is a predicate. |
| `Simulator` | `simulator.cpp`, `main_1.cpp` | Steps: a word loaded, a stage called, a core skipped, the end of a cycle, the end by an exception. |
| `Programs` | `test_assembly/CPU0`, `CPU1` | The two listings as instructions. |
| `InOrder` | what the pipelines promise | No stages, delays, bus or cycles: each core has a line of at most two fetched words and a buffer for one store, and performs one instruction at a time. |
| `Instructions` | the decoder's text, `split_instruction` | An instruction as a record of name, registers and immediate. |
| `Decoder` | `decoder.cpp`, `decoder.h` | Fields, immediates, the tables, register names; a word is the pair of its halves, since TLC's integers have 32 bits with a sign. |
| `Assembler` | the reference for `Decoder` | The formats of RISC-V in the other direction. |
| `RoundTrip` | the use of `Decoder` | Any instruction is written, assembled and decoded; what may be written is the constant `Sources`. |
| `Conventions` | what the program takes for granted of the binaries | Conditions on the files and on where they load and store, what holds between two steps when they are met, and what a program does alone. |
| `SimulatorInvariants` | what the proofs need | The inductive invariants of `Simulator`, checked by `programs` too. |
| `MembusLemmas`, `CoreProofs` | lemmas | What one call of the bus, and one call of a stage, does, whoever calls. |
| `MembusProofs` | theorems | About `MembusClients`. |
| `SimulatorProofs`, `PipelineProofs` | theorems | About `Simulator`: invariants and the arbiter; the refinement of `InOrder`. |
| `CodeProofs`, `LineProofs` | theorems | About `Simulator` with programs that keep to `Conventions`. |
| `DecoderProofs` | theorems | About `RoundTrip`. |

**Granularity.** A step of `Simulator` is one call of one stage, made as one
action together with all the calls below it (bus, RAM).  The order of stages
and cores is the order in the code, kept in `turn`; the only nondeterminism
of the whole program is in the array words, in the programs that a run
chooses, and in `result[2]` at `membus.cpp:27`.

**Data.** A machine word is a number up to `UINT32_MAX`, which the runs make
smaller; registers wrap, and comparisons that the C++ code does on `int` read
them as signed (`Signed`).  Every run gives `UINT32_MAX` and `UINT32_MAX - 1`
the two special meanings they have in the code.  Floats are words with two
operations given as parameters; the runs use ones that tell the operands and
their order apart.  The decoder is the parameter `DecodeInstruction`: in
`vector` the module `Decoder` on the words of the two binaries, in the small runs
a table of instructions.

**The abstract machine.** `InOrder` says what is left of a core when time is
taken out.  It is not the sequential machine of the RISC-V manual, which this
program does not implement.  Each way in which it differs is one action of its:
words are fetched ahead, up to two, and stay in the line when a branch is taken
(only a jump by a distance other than zero drops them); distances count from
the address that is fetched next; a store waits in the buffer while instructions
behind it are performed, and takes the registers as they then are, but no load
of its address, or into its base register, is performed before it; and a word
or a load that the bus turns away becomes UINT32_MAX - 1.  Beyond that every
instruction is performed once, in order, with no other effect.  The refinement
maps the line to the Execute and Decode stages and the buffer to Store.

**One core or two.** `main` creates the second core only for a second file.
`Binaries` holds functions on `{0}` or `{0, 1}`, and everything is quantified
over `Present`, the cores that were created.

**Memory by words.** `RAM::memory` is bytes, `addressDelays` and
`addressInUse` are keyed by the address of the call.  `Address` holds word
addresses no two of which are closer than four bytes, and of the four addresses
below 2^32 that pass the test of `ram.cpp:14` because `address + 4` wraps, the one
that the code comes to (`UINT32_MAX - 1`).  Any other address is thrown on
(`Fault`) at the first call.  A wrapped one is reserved and counted down like any
address, and only the call that completes reaches outside the array (`Outside`,
`RamReadCrashes`, `RamWriteCrashes`, for `ram.cpp:51` and 90); of what may come of
that, the model has the end of the program.  Aligned addresses
need not be (the stacks start at 0x2FF and 0x3FF, in the model as in `main`),
but two overlapping words are not modelled.  Nor is a `pc` between two words,
where only a jump by a part of a word could lead: there a core has no step.

**Auxiliary.** `fetched_at` in an instruction is the only state that the code
does not have.  Only whether the Fetch pipeline register is null matters, so
it is a Boolean.

**Undefined behaviour.** `membus.cpp:27` reads the third element of a vector
of two.  The value is any element of the constant `Garbage`.  It only reaches
the delay told to a blocked core, which `core.cpp` prints and never uses for a
decision (`core.cpp:303` and 307 come first), so the runs of the
simulator use `{0}`, the value read by the ordinary build, and the runs of the
bus use `{0, 3}`.  What the `membus` run and the theorems say of the bus
holds for any of these values: `LoadDelayMirrored` says that the recorded load
delay is the RAM's once the store is over.  While it is in progress, what
`membus.cpp:26` calls "delays for ongoing operations" may be any of them.  The shift at `core.cpp:340`
is undefined for a distance below 0 or above 31; `ShiftLeft` takes five bits of
it, as the instruction does that the ordinary build compiles it to.

### Faithfulness to the running program

The program was built from the sources and run with the loop bound of the two
binaries set to 0, 1 and 2 instead of 255.  The cycle counts it reports for
core 0 and core 1 are 169/174, 264/272 and 358/369; the model ends with the
same `core_clock_cycles` in all three cases.  The two programs include loads,
stores, floats, jumps, branches, an abandoned fetch and blocked loads, so an
error of one cycle in one path would show.

`Decoder` was compared with the compiled `decoder.cpp` on 700 random words of
all opcodes; they agree on every one.  The words of `MCVector` are those of
`CPU0.bin` and `CPU1.bin`, but for the operand of the tenth, the largest index
of the arrays.

## 3. Runs

| run | shows | size |
|---|---|---|
| `membus` (MCMembus.cfg) | the bus under all calls of two cores at two addresses | 113,524 states |
| `vector` (MCVector.cfg) | the shipped binaries on arrays of two elements: each alone, both on either core, CPU0 on both | 163,792 |
| `straight` (MCStraight.cfg) | all harmless programs of three instructions from six, beside four programs of the other core | 119,190 |
| `programs` (MCPrograms.cfg) | on core 1 all programs of two instructions from 22 and of three from the five of `Jumps`, an empty one, one too long; core 0 stores into the same word, early or late; programs that overlap; programs that change or read the code of core 1; an empty one for core 0; programs of core 0 alone, one of which completes in the cycle of the limit | 176,436 |
| `decoder` (MCDecoder.cfg) | one word of every instruction, choice of registers and immediate, inside and outside the range that is supported | 262,640 |

Properties of the passing runs:

- `StoreDelayMirrored`, `LoadDelayMirrored`, `InUseMeansPending`, `AnswerTruthful`
  (`membus`): the copy of the store delay in the bus is the RAM's, and where no store
  is in progress that of the load delay, whatever `result[2]` was and although a
  load that waits for a store leaves its count behind; an address in use has an
  access in progress, so that repeating the call frees it; and each answer
  means what `core.cpp:48, 230, 303-317` takes it to mean.
- `ImplementsArbiter` (`membus`): refinement of `AddressArbiter`; the user of
  an address is the first component of its entry, a store is in progress while
  its count is above zero.
- `VectorsComputed`, `ExecutesListing`, `ZeroReadsAsZero`,
  `ReturnAddressRestored`, `Finishes` (`vector`): the
  arrays come out right, for all words in A and B and therefore all
  orders in which results could mix up; what is in the pipeline, as the decoder
  took it apart, is what the listing has at that address; zero stays zero and
  ra comes back although every `jal` writes ra; the program ends by itself.
- `SequentialResult`, `StoreStaysPut`, `BusUsersAreReal`, `Finishes`
  (`straight`): pipeline and sharing do not show in the result; a store that is
  in progress keeps address and word; addresses in use are those that a stage
  is calling for; no core waits for ever.
- `CodeLeftAlone`, `NoReservedWord` (`straight`): what the theorems of section 4
  ask of a run: no stage stores to code or loads from it, and no word in memory
  looks like the answer of a RAM that is busy.
- `CodeInPlace`, `LinesKept`, `KeepersKeepUp` (`straight`): the
  inductive invariants of those proofs.  The words of the files stay in memory and
  only their core calls for them; the stages hold consecutive words of the file;
  and at every moment each core has the
  registers and the data that its program has alone after the words performed.
- `HoldMatchesStore` (`programs`): a held register is the base of the store in
  progress, also when the other core blocks that store; no load waits for
  a store that is over.
- `CompleteMeansFinished` (`programs`): a core that `run` passes over has its
  `pc` behind its program; there is no moment in the middle of a program,
  whatever jumps are in it, at which the five fields look complete.
- `ArbitratesMemory` (`programs`): the refinement again, from the loader and
  the real stages, with two cores that store and load one word, fetches that
  jumps abandon, and faults.
- `ImplementsInOrder` (`programs`): the refinement of `InOrder` described above.
  No instruction is lost, performed twice or overtaken, whatever branches and
  jumps, delays, blocked calls and held registers do to the stages.
- `EndsOnTime` (`programs`): a core is called in every cycle until it is
  complete, so that the reported counts are what they say; the loop ends in the
  first cycle with no core to call, or at the limit, which comes first.
- `EndsComplete` (`programs`): the flag that `run` keeps through a cycle and the
  five fields of each core agree, so that it ends as completed only with every
  pipeline dry and every `pc` behind its program.
- `LaterFileStands` (`programs`): when the loader is done, every word of a file is
  in memory, but where a later file lies over it, and there that one's is.
- `DecodesAsAssembled` (`decoder`): name, operands and immediate are those that
  were assembled if and only if the instruction is in the range that is supported:
  immediates of loads and of the I format from -16 to 4079 (`decoder.cpp:261`), the
  registers 0 and 1 for floats, and no others, with bases that are neither
  (`decoder.cpp:308`), no offset for `flw` and `fsw` (`decoder.cpp:291`).  Beyond
  that range something else comes out in every case.  What is written is anything
  that fits the fields of its format (`Writable`), but `srli` and `srai`, which are
  in no table that is reached (`decoder.cpp:30`, whose `funct7` is never extracted).
- `AuipcMisread` (`decoder`): the operand that `core.cpp:409` reads back is the one
  that was written only when that is zero.
- `CyclesCounted` (`programs`): in every cycle the counts of the cores that have
  been called are that of the cycle, those of the others one less, unless they
  were complete; this is why `EndsOnTime` holds.
- `PipelineInv` (`programs`): a store that its stage has just called for holds its
  base register, and its address is another core's or counted down; this is
  why a load that is answered has not overtaken the store before it.
- `SimInv` (`programs`): the inductive invariant of the first proofs.
- one type invariant for the bus (`ClientsTypeOK`) and one for the whole
  (`SimTypeOK`).

Runs in which TLC finds what the code's comments say violated:

| run | comment | what happens |
|---|---|---|
| `reserved_word_load` | `membus.cpp:53` "If bypass or operation completes, release the address" | not when the word is UINT32_MAX |
| `saved_register` | `test_assembly/CPU0.s:4, 43` "Saves / Restores s0 register" | the store takes the register as the next instruction left it |
| `latency` | `core.cpp:118` "If execute_delay_remaining == 0, initialize it" | not after a store, which leaves `execute_delay_complete` set |
| `leaked_reservation` | `membus.h:23` "which core is using which address" | an abandoned fetch stays in the map |
| `loads_code` | `membus.cpp:39` "Return blocked access" | fetch takes the answer for an instruction |
| `ends_in_data` | `core.cpp:94` "End of program reached" | the core never completes |
| `follow_pointer` | `test_assembly/instruct.s:20` "Get ARRAY_A base address into t0" | a blocked load overwrites its own base register; the address it has left passes the test of `ram.cpp:14`, and the third call for it reads outside the array |

In the shipped programs the branch out of the loop shows one more: distances
count from a `pc` that fetch has already moved (`core.cpp:329`).  At
the first exit the branch of CPU0 lands on 124, the jump before `.LBB0_4`,
which leads back into the loop; the second time round the timing differs and
it lands on 128.  `vector` shows that the result is right nevertheless.

### Bounds

- `membus`: words of four bits, so that no address of the run wraps; two cores, two addresses, two data words; `read_write_delay`
  is 2 as in the code; `added_delay` 0 (all calls of the code) and 1.
  All counts are at most `read_write_delay + 1`, so the state space is complete.
- `vector`: arrays of two elements (`Last`), 16-bit words, addresses cut to
  those that the programs use, two random words. The loop runs twice plus the
  exit, so all parts of it follow one another.
- `decoder`: for each format the immediates at which a bit of the word is set or
  cleared for the first time, the least and the largest, and those on both sides of
  -16 and 4079; a choice of registers that sets every bit of each field and has
  0, 1 and others in each operand of a float.  The theorem has all registers and
  all immediates.
- `programs` has 22 instructions, of which five change `pc`; two instructions
  are enough for each stage to hold another when a branch is taken, three for a
  loop around one of them.
- `straight`, `programs`, hazards: seven-bit words, thirteen words of memory and the
  address 126, which passes the test because it wraps.
  Three instructions fill the pipeline; a private word per core to store
  and reload, one word that both load.
- `CountBound` stops the counters `clock_cycle`, `core_clock_cycles`,
  `instruction_count`, so that a program that never ends has finitely many
  states; runs that end stay below it.
- `DelayFloor`: `execute_delay` decreases without end while a load waits
  (`core.cpp:161`); only whether it is above 0 or equal to 0 is ever read, so it stops
  at -1.
- `clock_cycle_limit` is 25000 in `main_1.cpp:15`; 40 in `programs`, whose
  programs need not end and one of which completes in cycle 40, and 0 (no limit, as `simulator.cpp:82` reads it) in the
  others, so that `Finishes` is not won by the limit.
- `straight` leaves out programs in which an instruction overwrites the base or
  the source register of the store just before it, except the load of a
  base that `hold_registers` is there for.  What happens in them is `saved_register`.
  Of its 720 initial states, 696 meet `KeepToThemselves`; the other 24 write such a
  register two instructions behind the store, late enough to be harmless.  All of its
  programs leave code alone.
- `CHECK_DEADLOCK FALSE` in the runs of the simulator: the program ends, by
  completion, limit or exception.  The bus run checks deadlock.

### Fairness

`WF_simVars(Next)` is the only fairness assumed.  `run()` is one thread, its
loop has no wait, lock or input, so while a step is possible it is taken.
Nothing is assumed about which core is served: that is fixed by the order of
the loop, and `Finishes` and `EndOfProgramCompletes` depend on it.

## 4. Proofs

The theorems hold for any number of cores, any memory size and word width, any
delay of at least one cycle, any garbage, any programs and any decoder.  What they
assume are the named `ASSUME`s of the modules, which every run evaluates:

- `WordAssumption`, `DelayAssumption`, `CoreAssumption`, `GarbageAssumption`,
  `ClientAssumption`, `RegAssumption`, `CountAssumption`: the shape of the
  constants.
- `SimulatorAssumption`: the cores are numbered from 0, start addresses and files
  consist of words, and the random words are not the reserved ones (`ram.cpp:156`).
- `DecoderAssumption`: what the decoder returns has a name, registers that exist
  and an integer.
- `SourceAssumption`: what is written fits the fields of its format (`Writable` in
  `RoundTrip`).
- `FloatAssumption`: adding and subtracting floats yields words.
- `AddressesApart` (`Conventions`): the addresses of words are four bytes apart or
  more.  `straight` and `vector` evaluate it, the latter on the layout of
  `main`.

| theorem | statement | needs |
|---|---|---|
| `TypeCorrect` | `ClientsSpec => []ClientsTypeOK` | |
| `StoreDelayIsMirrored` | `ClientsSpec => []StoreDelayMirrored` | |
| `InUseIsPending` | `ClientsSpec => []InUseMeansPending` | no core stores UINT32_MAX |
| `AnswersAreTruthful` | `ClientsSpec => []AnswerTruthful` | no core stores UINT32_MAX or UINT32_MAX - 1 |
| `ImplementsTheArbiter` | `ClientsSpec => ImplementsArbiter` | |
| `LoadDelayIsMirrored` | `ClientsSpec => []LoadDelayMirrored` | |
| `SimInvariant` | `Spec => []SimInv` | |
| `SimTypeCorrect` | `Spec => []SimTypeOK` | |
| `HeldForTheStore` | `Spec => []HoldMatchesStore` | |
| `CompleteIsOver` | `Spec => []CompleteMeansFinished` | |
| `StagesImplementArbiter` | `Spec => ArbitratesMemory` | |
| `CountsCycles` | `Spec => []CyclesCounted` | |
| `RunEndsOnTime` | `Spec => []EndsOnTime` | a limit |
| `PipelineInvariant` | `Spec => []PipelineInv` | |
| `PipelinesImplementInOrder` | `Spec => ImplementsInOrder` | |
| `RunEndsComplete` | `Spec => []EndsComplete` | |
| `LoaderKeepsFiles` | `Spec => []LaterFileStands` | `CountBound` above 1 |
| `CodeStaysInPlace` | `Spec => []CodeInPlace` | code left alone |
| `PipelinesHoldPrograms` | `Spec => []PipelineHoldsProgram` | code left alone |
| `LinesAreKept` | `Spec => []LinesKept` | code left alone; no jumps (in `LinesKept`) |
| `StoresStayPut` | `Spec => StoreStaysPut` | code left alone, no jumps, operands kept |
| `UsersAreReal` | `Spec => []BusUsersAreReal` | the same, and no reserved word in memory |
| `KeepersLeaveCodeAlone` | `Spec => []CodeLeftAlone` | programs that keep to themselves |
| `RunsAsIfAlone` | `Spec => []SequentialResult` | programs that keep to themselves |
| `KeepersStayPut` | `Spec => []PipelineHoldsProgram /\ StoreStaysPut` | programs that keep to themselves |
| `DecoderInvertsAssembler` | `Spec => []DecodesAsAssembled` | |
| `AuipcIsMisread` | `Spec => []AuipcMisread` | |

The conditions on stored words are the ones that `ram.cpp:156` enforces on the
random words; the violating run `reserved_word_load` shows the first is necessary.
The theorems of `SimulatorProofs` and `PipelineProofs` have no such condition:
programs may store what they like.  `RunEndsOnTime` asks for a limit, as `main` sets
one, because the model's counters stop at `CountBound`; `SimulatorAssumption` keeps the limit below it.

The conditions of `CodeProofs` and `LineProofs` are hypotheses of the theorems, not
assumptions on constants, and for each a violating run shows a program that does not
meet it and what then happens:

- *code left alone* (`CodeLeftAlone`): the files do not overlap, and no stage stores
  to or loads from an address between the first and the last word of a file.
  `loads_code` does.
- *no jumps* (`StraightLine`): branches and jumps only by 0, which leave `pc` and
  the stages alone.  `leaked_reservation` jumps.
- *operands kept* (`OperandsKept`): until the next store, no instruction writes a
  register that the store reads, but a load its base, which is held.
  `saved_register` writes one.
- *no reserved word* (`NoReservedWord`): the memory holds no UINT32_MAX.
  `reserved_word_load` stores it.
- *programs that keep to themselves* (`KeepToThemselves`): a condition on the files and
  the start, not on the run.  The programs have no jumps and keep operands; the
  addresses that each would use if it ran alone are outside the files and, for loads,
  not stored to by the other; nobody stores into A and B or loads UINT32_MAX; no instruction depends on `pc` (`auipc`, `jal`, `jalr`)
  or loads into its own base (`follow_pointer` does).

**The bus** (`MembusLemmas`, `MembusProofs`).  `ReadEffect` and `WriteEffect` say
once what a call does to the three variables in the blocked and in the admitted
case, and every step is one of the two at one address, so each invariant only has
to be looked at there.  `BusInv` is inductive: an admitted call copies the count
it just moved, and the two calls that erase an entry leave the count at zero.
`InUseMeansPending` and `AnswerTruthful` need `MemoryHoldsData` (memory holds only
words that were stored), because an answer is told from a word only by its value.
The refinement of the arbiter needs `FreeIsBlank` (the entry of a free address
has no store delay): with `StoreDelayMirrored` it says that a store in progress
has a user, hence, as a blocked core changes nothing, that the core that ends a
store began it.  `BusStep` sums up a call for those who make it: `BusInv` is kept,
and the arbiter takes a step or none.

**The stages** (`CoreProofs`).  For each stage one lemma (`StoreEffect`,
`ExecuteEffect`, `DecodeEffect`, `FetchEffect`): it keeps the shape of the core, it
leaves the other cores and the fields that are not its own alone
(`AroundStore`, `AroundExecute`, `AroundFront`), `HoldMatches` survives it, and
it makes a `BusStep`.  The way to `HoldMatches` is that a register is held only by
the Store stage and for its own base, which stays what it is until the stage is
emptied in the step that releases it.

**The program** (`SimulatorProofs`).  `SimInv` is inductive; the part that is not
seen in the properties is `NoneLooksComplete`: between two turns of a core
its Decode or Fetch register or `fetching_active` says that it goes on, or it has
halted behind its program.  `fetch()` ends every turn, and whatever path it takes
leaves one of these true, also when the stages before it in the same cycle have
emptied the pipeline or jumped; inside a turn it may well be false, which is why
the invariant leaves out the core whose turn it is.  `CyclesCounted` is inductive
over it and says where the counts are between two calls; `EndsOnTime` follows at
the steps that end the loop.  `NothingBegun` lets the loader's calls with bypass
be the arbiter's `Preload`.

**The refinement** (`PipelineProofs`).  `ComputedAgrees`, `LoadAgrees` and
`StoreAgrees` say that both machines do the same for one instruction.  A call of a
stage is then one action of `InOrder` or changes nothing it can see: `store()` is
`Drain` when the bus completes, `execute()` is `Perform`, `Spoil` or `Defer`,
`fetch()` is `Enter`, `decode()` only moves a word from the second place of the
line to the first.  The hard case is a load that is answered: `InOrder` demands
that the store in the buffer is for another address and does not have the load's
destination as base.  `PipelineInv` gives that.  `run` calls `store()` just before
`execute()` of the same core, so the waiting store has called the bus in this
very cycle: then its address is in use by the other core, which turns the load
away, or its count is above zero, which keeps the load waiting; and its base is
held.  For other turns nothing is claimed of the store, which makes the invariant
inductive.

**The end** (`RunEndsComplete`).  `EndsComplete` is inductive over `SimInv`: a call of
`fetch` clears the flag, a core that is skipped is complete, and no call of a stage
touches a core whose turn is over.

**The loader** (`LoaderKeepsFiles`).  `LoadedInOrder` adds to `LaterFileStands` that the
files come one after the other and that what is loaded lies in the memory; then a
word is loaded over one of an earlier file or over none.  The theorem speaks of the
moment before the first cycle, which a `clock_cycle` stopped at 1 would not tell.

**Code** (`CodeProofs`).  `CodeInPlace` is inductive as long as code is left alone.
A word that is loaded stays, because every change of the memory is a store of a
stage, elsewhere, or of the loader, in another file or place.  Then only the
fetches of one core use the address of a word, so they are never turned away, and
what they answer is the word.  This holds with branches and jumps: the invariant
speaks of each instruction by the address it was fetched from.

**Lines** (`LineProofs`).  Without jumps the stages hold consecutive words:
`LineAt(c, k, n)` says that the next word to fetch is the n-th, and numbers the stages
back from there; the Store stage holds the last store before them.  It is this last
part that makes `StoreStaysPut` provable: all that may be performed while a store
waits stands between it and the next store in the file, so a condition on
the file says that it leaves the operands alone.  `UsersAreReal` follows from
`UsersCall`, which says the same at every moment and not only while the loop runs.  For it each stage either
ends its access, which frees the address, or will repeat the call with the same
address: a fetch because nothing moves `pc`, a load because a load that
waits leaves its base alone and nothing else is in Execute, a store because it
stays put.

**The result** (`LineProofs`, second part).  `Alone(c)` is the sequence of states of the
program run alone, by `InOrder`'s effect of one instruction.  `AsAlone` relates every
moment of the real run to one of those states: that after the words performed, where
the words in Decode and Execute are not counted and a store is counted when it
moves to the Store stage.  The registers agree with it but for the destination of a
load in Execute, which a blocked call may have spoilt, and the memory does once
the waiting store has written.  Alone this is not inductive: that a load gets
the right word needs `PipelineInv` (no waiting store to its address), that a
store writes the right word needs the line and the operands kept, and that the memory
of one core is not changed by the other needs that the other's addresses are
those it has when alone, which is `AsAlone` of the other core.  So the invariant is
`CodeInPlace /\ LinesKept /\ KeepToThemselves /\ AsAlone` over `SimInv` and
`PipelineInv`; it implies `CodeLeftAlone`, which the first two needed as a
hypothesis.  One lemma per stage (`FetchKeepsUp`, `DecodeKeepsUp`, `ExecuteKeepsUp`,
`StoreKeepsUp`) and one for the other core (`OtherKeepsUp`) keep it.  At the end
`EndsComplete` says that all words are performed and no store waits, and
the result is that of the last state.  `KeepToThemselves` is kept because it speaks
of the files and of the arrays, which no store touches.

**Induction.**  That the states of a program run alone exist, and are
machine states, and that the digits of auipc's operand are misread, hold for each
length.  Both are proved by the least counterexample (`LeastNumber`, from the
well-founded order of the natural numbers), since the library's induction rules
take a predicate as parameter, which the installed provers cannot instantiate.

**The decoder** (`DecoderProofs`).  `DecoderInvertsAssembler` holds for any `Sources` that can
be written, so for all 32 registers in each operand and all 2^20 and 2^21
immediates of the longest formats, where the run has the ones at the edges.
`FieldsOf` and `UpperFieldsOf` take a word apart into the fields it was laid out
from; `ImmediateI` to `ImmediateJ` put the pieces of a number together again,
each with its own place for the sign; `NameOfRow` goes through the tables.
`FieldsR` to `FieldsJ` combine these for one format each, and `FieldsDescribe`
adds the names of the registers, which are the right ones for just the registers of
`RegistersKept`.  The range from -16 to 4079 of the I formats comes from
`ImmediateI`: a number below -16 is read as the positive one with the same twelve
bits, and one above 4079 as a negative one.
`AuipcIsMisread` compares the digits of a number read to base 10 and to base 16: from
two digits on the second is larger in absolute value, and as a word of auipc is a multiple of a page,
it has two digits or is zero.

Only model-checked:

- liveness (`Finishes`), out of the prover's reach;
- what is true of the two binaries in particular: `VectorsComputed`,
  `ExecutesListing`, `ZeroReadsAsZero`, `ReturnAddressRestored`.  They jump, save
  registers that the next instruction writes, and depend on how far fetch is
  ahead when they branch, so `RunsAsIfAlone` is not about them;
- the programs of `straight` that write an operand of a store late enough; and that
  runs complete at all, since `SequentialResult` speaks of those that do.

## 5. Not modelled

- the control signals of the decoder: looked up and never used.
- the arithmetic of floats: two parameters.
- bytes, unaligned and overlapping words.
- printing, `event_list`, `cycle_entered`, CPI: nothing reads them.
- `RAM::read` with bypass: never called.
- the handler of `std::out_of_range` in `fetch` (`core.cpp:66-70`): the loader
  has stored a word at the largest address that `fetch` accepts, so the
  read cannot be out of bounds (`Core.tla` says why an empty file is no exception).
- errors of the input file (missing, unreadable): the program ends before it starts.
- `unused/`, `testing.cpp`, `c_code/`, `.vscode/`: not built, or not run.

## 6. Plan

Done: the bus, the decoder, core and simulator with the two binaries, short programs
of all kinds, the refinement of the pipelines; and as theorems every invariant and
refinement of `membus`, `programs`, `straight` and `decoder`.

Next: `OperandsKept` asks for more than is needed, since a store that no other core
delays is over before the third instruction behind it is performed; a bound on how
long a store waits would let it look that far only.  And programs with jumps: what
`jal` and the branches do depends on the stages, but for a program that pads its
branches (as no program of the repository does) the result could be compared with
one run alone too.
