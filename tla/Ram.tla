------------------------------- MODULE Ram ---------------------------------
(***************************************************************************)
(* The memory of the simulator (components/ram.cpp): one word per address  *)
(* and, beside it, two count-downs per address that stand for the access   *)
(* latency.  A caller repeats the same call until it is answered; each     *)
(* repetition moves the count-down of that address by one, whoever calls.  *)
(*                                                                         *)
(* RAM::memory is an array of bytes.  Here it is indexed by the addresses  *)
(* of whole words: Address holds the addresses that the programs form and  *)
(* that pass the test of the RAM, no two of them less than four bytes      *)
(* apart.  The test adds 4 to the address, and the sum wraps: the last     *)
(* addresses of the 32 bits pass as well.  No word is ever there; a call   *)
(* is counted down like any other, and the one that would touch the word   *)
(* is out of bounds.                                                       *)
(*                                                                         *)
(* A call has two parts, used together by the membus: an operator for the  *)
(* vector the C++ function returns and an action for its side effects.     *)
(***************************************************************************)
EXTENDS Integers

CONSTANTS
    Word,               \* the values of a uint32_t
    Address,            \* the addresses that pass the test of the RAM
    UINT32_MAX,         \* the largest word, which also says "not answered yet"
    read_write_delay    \* RAM::read_write_delay, set to 2 by the constructor

ASSUME WordAssumption ==
    /\ UINT32_MAX \in Nat \ {0, 1}
    /\ Word = 0 .. UINT32_MAX
    /\ Address \subseteq Word

\* A delay of 0 would make "no access in progress" and "just started" the same.
ASSUME DelayAssumption == read_write_delay \in Nat \ {0}

VARIABLES
    memory,             \* RAM::memory
    addressDelays       \* RAM::addressDelays: the pending store and load counts

ramVars == <<memory, addressDelays>>

NoDelay == [store |-> 0, load |-> 0]

\* The address passes only because the sum in the test wraps.
Outside(a) == a + 4 > UINT32_MAX

(***************************************************************************)
(* RAM::read without bypass.  A pending store of that address keeps every  *)
(* read waiting; otherwise the load count goes delay, ..., 1, 0 and the    *)
(* word is delivered by the call that brings it to 0.                      *)
(***************************************************************************)
\* Mutant: the load count is looked at first.
LoadCountedFirst(d) == d.load = 1

ReadCompletes(d) == d.store = 0 /\ d.load = 1

LoadDelayAfterRead(d) ==
    IF d.store > 0 THEN d.load
    ELSE IF d.load = 0 THEN read_write_delay ELSE d.load - 1

\* Mutant: a read that finds a store in progress gets the old word.
AnswersDuringStore(a) ==
    LET d == addressDelays[a] IN
    [value |-> IF d.load = 1 \/ d.store > 0 THEN memory[a] ELSE UINT32_MAX,
     store |-> d.store,
     load  |-> LoadDelayAfterRead(d)]

RamReadResult(a) ==
    LET d == addressDelays[a] IN
    [value |-> IF ReadCompletes(d) THEN memory[a] ELSE UINT32_MAX,
     store |-> d.store,
     load  |-> LoadDelayAfterRead(d)]

\* The copy out of the array starts beyond its end.
RamReadCrashes(a) == Outside(a) /\ ReadCompletes(addressDelays[a])

RamRead(a) ==
    /\ addressDelays' = [addressDelays EXCEPT ![a].load =
                            LoadDelayAfterRead(addressDelays[a])]
    /\ UNCHANGED memory

(***************************************************************************)
(* RAM::write without bypass.  The word written is that of the call that   *)
(* brings the store count to 0, not that of the call that started it.      *)
(***************************************************************************)
WriteCompletes(d) == d.store = 1

\* Mutant: the branch that starts a store is missing.
StoreNeverStarted(d, added_delay) == d.store - 1

StoreDelayAfterWrite(d, added_delay) ==
    IF d.store = 0 THEN read_write_delay + added_delay ELSE d.store - 1

\* The vector a write returns has two elements: the flag and the store delay.
RamWriteResult(a, added_delay) ==
    LET d == addressDelays[a] IN
    [value |-> IF WriteCompletes(d) THEN 1 ELSE 0,
     store |-> StoreDelayAfterWrite(d, added_delay)]

RamWriteCrashes(a) == Outside(a) /\ WriteCompletes(addressDelays[a])

RamWrite(a, value, added_delay) ==
    /\ addressDelays' = [addressDelays EXCEPT ![a].store =
                            StoreDelayAfterWrite(addressDelays[a], added_delay)]
    /\ memory' = IF WriteCompletes(addressDelays[a])
                 THEN [memory EXCEPT ![a] = value]
                 ELSE memory

\* Mutant: the parameter bypass is not looked at.
BypassIgnored(a, value) == RamWrite(a, value, 0)

\* RAM::write with bypass: the word is stored at once, the counts are not used.
RamWriteBypass(a, value) ==
    /\ memory' = [memory EXCEPT ![a] = value]
    /\ UNCHANGED addressDelays

(***************************************************************************)
(* The state the constructor leaves: counts at zero, memory zeroed except  *)
(* for the two arrays, which hold random words.                            *)
(***************************************************************************)
RamInit(arrays, random) ==
    /\ memory \in {[a \in Address |-> IF a \in arrays THEN r[a] ELSE 0] :
                       r \in [arrays -> random]}
    /\ addressDelays = [a \in Address |-> NoDelay]

RamTypeOK ==
    /\ memory \in [Address -> Word]
    /\ addressDelays \in [Address -> [store : Nat, load : Nat]]
=============================================================================
