--------------------------- MODULE AddressArbiter ---------------------------
(***************************************************************************)
(* What the membus promises about one address after another, with its      *)
(* count-downs left out: an address is used by one core at a time, the     *)
(* core that began a store is the one that completes it, completion is     *)
(* what frees the address, and memory changes only when a store completes. *)
(***************************************************************************)
EXTENDS Integers

CONSTANTS
    CoreId,             \* the cores on the bus
    Address,            \* the word addresses of the memory
    Word                \* the values of a word

NoCore == -1            \* the user of an address that no core uses

VARIABLES
    mem,                \* the words
    user,               \* the core that uses an address
    storing             \* whether a store of that address is in progress

arbiterVars == <<mem, user, storing>>

ArbiterInit ==
    /\ mem \in [Address -> Word]
    /\ user = [a \in Address |-> NoCore]
    /\ storing = [a \in Address |-> FALSE]

\* No other core uses the address.
Available(c, a) == user[a] \in {NoCore, c}

\* A core takes an address, for a load or for a store.
Take(c, a) ==
    /\ Available(c, a)
    /\ user' = [user EXCEPT ![a] = c]
    /\ \/ UNCHANGED storing
       \/ storing' = [storing EXCEPT ![a] = TRUE]
    /\ UNCHANGED mem

\* A load is answered; that it may be is what a store in progress prevents.
FinishLoad(c, a) ==
    /\ Available(c, a)
    /\ ~storing[a]
    /\ user' = [user EXCEPT ![a] = NoCore]
    /\ UNCHANGED <<mem, storing>>

\* The core that began a store writes the word and gives the address back.
FinishStore(c, a, v) ==
    /\ user[a] = c
    /\ storing[a]
    /\ mem' = [mem EXCEPT ![a] = v]
    /\ user' = [user EXCEPT ![a] = NoCore]
    /\ storing' = [storing EXCEPT ![a] = FALSE]

\* The loader places a word while no core uses the memory.
Preload(a, v) ==
    /\ \A b \in Address : user[b] = NoCore
    /\ mem' = [mem EXCEPT ![a] = v]
    /\ UNCHANGED <<user, storing>>

ArbiterNext ==
    \E a \in Address :
        \/ \E v \in Word : Preload(a, v)
        \/ \E c \in CoreId :
               \/ Take(c, a)
               \/ FinishLoad(c, a)
               \/ \E v \in Word : FinishStore(c, a, v)

ArbiterSpec == ArbiterInit /\ [][ArbiterNext]_arbiterVars
=============================================================================
