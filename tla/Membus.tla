------------------------------- MODULE Membus -------------------------------
(***************************************************************************)
(* The memory bus (components/membus.cpp): it passes the calls of the      *)
(* cores on to the RAM and keeps, for each address a call is pending on,   *)
(* the core that made it and the delays to report to the other cores.  A   *)
(* core whose call is turned away or is pending repeats it next cycle.     *)
(*                                                                         *)
(* addressInUse is a hash map; an address that is not a key of the map has *)
(* the entry Free here.                                                    *)
(***************************************************************************)
EXTENDS Ram

CONSTANTS
    CoreId,             \* the cores: Core::core_id
    Garbage             \* what the word after the end of a two-word vector holds

NoCore == -1

ASSUME CoreAssumption == CoreId \subseteq Nat

ASSUME GarbageAssumption == Garbage \subseteq Nat /\ Garbage # {}

VARIABLE
    addressInUse        \* Membus::addressInUse: user and reported delays

busVars == <<memory, addressDelays, addressInUse>>

Free == [core |-> NoCore, store |-> 0, load |-> 0]

InUse(a) == addressInUse[a].core # NoCore

\* Mutant: nobody is turned away.
NobodyHolds(c, a) == FALSE

HeldByOther(c, a) == InUse(a) /\ addressInUse[a].core # c

(***************************************************************************)
(* Membus::read without bypass.                                            *)
(***************************************************************************)
\* Mutant: a read is turned away with 0, as a write that is pending.
BlockedAsWrite(a) ==
    [value |-> 0, store |-> addressInUse[a].store, load |-> addressInUse[a].load]

BlockedRead(a) ==
    [value |-> UINT32_MAX - 1,
     store |-> addressInUse[a].store,
     load  |-> addressInUse[a].load + 1]

MembusReadResult(c, a) ==
    IF HeldByOther(c, a) THEN BlockedRead(a) ELSE RamReadResult(a)

\* Mutant: a read that is answered does not erase the entry.
KeptAfterRead(c, a) ==
    LET result == RamReadResult(a) IN
    [core |-> c, store |-> result.store, load |-> result.load]

\* Mutant: the delays of a pending read are not brought up to date.
MarkedOnly(c, a) ==
    IF RamReadResult(a).value = UINT32_MAX
    THEN [core |-> c, store |-> 0, load |-> 0]
    ELSE Free

\* A read answered with UINT32_MAX is taken for pending, whatever the RAM meant.
EntryAfterRead(c, a) ==
    LET result == RamReadResult(a) IN
    IF result.value = UINT32_MAX
    THEN [core |-> c, store |-> result.store, load |-> result.load]
    ELSE Free

MembusReadCrashes(c, a) == ~HeldByOther(c, a) /\ RamReadCrashes(a)

MembusRead(c, a) ==
    IF HeldByOther(c, a)
    THEN UNCHANGED busVars
    ELSE /\ RamRead(a)
         /\ addressInUse' = [addressInUse EXCEPT ![a] = EntryAfterRead(c, a)]

(***************************************************************************)
(* Membus::write without bypass.  The load delay that a pending write      *)
(* records is result[2] of a vector of two elements: any garbage.          *)
(***************************************************************************)
BlockedWrite(a) ==
    [value |-> UINT32_MAX,
     store |-> addressInUse[a].store,
     load  |-> addressInUse[a].load]

MembusWriteResult(c, a, added_delay) ==
    IF HeldByOther(c, a) THEN BlockedWrite(a) ELSE RamWriteResult(a, added_delay)

\* Mutant: the entry is erased whatever the RAM answers.
FreedByAnyWrite(c, a, added_delay, g) == Free

\* Mutant: a write that completes does not erase the entry.
KeptAfterWrite(c, a, added_delay, g) ==
    [core |-> c, store |-> RamWriteResult(a, added_delay).store, load |-> g]

EntryAfterWrite(c, a, added_delay, g) ==
    LET result == RamWriteResult(a, added_delay) IN
    IF result.value = 1
    THEN Free
    ELSE [core |-> c, store |-> result.store, load |-> g]

MembusWriteCrashes(c, a) == ~HeldByOther(c, a) /\ RamWriteCrashes(a)

MembusWrite(c, a, value, added_delay) ==
    IF HeldByOther(c, a)
    THEN UNCHANGED busVars
    ELSE /\ RamWrite(a, value, added_delay)
         /\ \E g \in Garbage :
                addressInUse' = [addressInUse EXCEPT
                                    ![a] = EntryAfterWrite(c, a, added_delay, g)]

\* Membus::write with bypass, as the loader calls it.
MembusWriteBypass(c, a, value) ==
    IF HeldByOther(c, a)
    THEN UNCHANGED busVars
    ELSE /\ RamWriteBypass(a, value)
         /\ addressInUse' = [addressInUse EXCEPT ![a] = Free]

MembusInit(arrays, random) ==
    /\ RamInit(arrays, random)
    /\ addressInUse = [a \in Address |-> Free]

MembusTypeOK ==
    /\ RamTypeOK
    /\ addressInUse \in
           [Address -> [core : CoreId \cup {NoCore}, store : Nat, load : Nat]]

(***************************************************************************)
(* What the bus promises its callers, whoever they are.                    *)
(***************************************************************************)

\* The store delay the bus reports to a core it turns away is the delay the
\* RAM still counts; in particular no store is in progress at an address the
\* bus holds free (membus.cpp:17-28 against ram.cpp:74-93).
StoreDelayMirrored ==
    \A a \in Address : addressInUse[a].store = addressDelays[a].store

\* An address that no core uses has no delays recorded.
FreeIsBlank == \A a \in Address : ~InUse(a) => addressInUse[a] = Free

\* What holds between any two calls.
BusInv == MembusTypeOK /\ StoreDelayMirrored /\ FreeIsBlank

\* The bus with its count-downs as an arbiter of addresses.
Arbiter ==
    INSTANCE AddressArbiter WITH
        mem     <- memory,
        user    <- [a \in Address |-> addressInUse[a].core],
        storing <- [a \in Address |-> addressDelays[a].store > 0]
=============================================================================
