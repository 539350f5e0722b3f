--------------------------- MODULE MembusClients ----------------------------
(***************************************************************************)
(* The membus under its most general clients: at every step some core      *)
(* makes some call.  The stages of the cores make fewer calls than this    *)
(* (they repeat a pending call each cycle, unless a jump changes pc), so   *)
(* what holds here holds for them.                                         *)
(***************************************************************************)
EXTENDS Membus

CONSTANTS
    Data,               \* the words the cores store
    AddedDelay          \* the values of the parameter added_delay of write

ASSUME ClientAssumption ==
    /\ Data \subseteq Word
    /\ AddedDelay \subseteq Nat

VARIABLE answer         \* the last call, and the vector it was answered with

clientVars == <<memory, addressDelays, addressInUse, answer>>

NoAnswer == [op |-> "none"]

Answered(op, c, a, v, result) ==
    [op |-> op, core |-> c, address |-> a, value |-> v, result |-> result]

Read(c, a) ==
    /\ ~MembusReadCrashes(c, a)
    /\ MembusRead(c, a)
    /\ answer' = Answered("read", c, a, 0, MembusReadResult(c, a))

Write(c, a, v, added_delay) ==
    /\ ~MembusWriteCrashes(c, a)
    /\ MembusWrite(c, a, v, added_delay)
    /\ answer' = Answered("write", c, a, v, MembusWriteResult(c, a, added_delay))

ClientsInit ==
    /\ MembusInit(Address, Data)
    /\ answer = NoAnswer

ClientsNext ==
    \E c \in CoreId, a \in Address :
        \/ Read(c, a)
        \/ \E v \in Data, added_delay \in AddedDelay : Write(c, a, v, added_delay)

ClientsSpec == ClientsInit /\ [][ClientsNext]_clientVars

(***************************************************************************)
(* Properties.                                                             *)
(***************************************************************************)

\* Every count and every entry of the bus keeps its shape, and the last
\* answer names a core and an address (ram.cpp and membus.cpp as a whole).
ClientsTypeOK ==
    /\ MembusTypeOK
    /\ answer.op \in {"none", "read", "write"}
    /\ answer.op # "none" => answer.core \in CoreId /\ answer.address \in Address

\* An address is in use only while an access to it is in progress, so that
\* some repeated call will free it (membus.cpp:22-28 and 48-56).  This needs
\* the word UINT32_MAX to stay out of the memory.
InUseMeansPending ==
    \A a \in Address :
        InUse(a) => addressDelays[a].store > 0 \/ addressDelays[a].load > 0

\* The word read past the end of a write's vector (membus.cpp:27) is gone by the
\* time the store is over: a load delay that the bus records where no store is in
\* progress is the one that the RAM counts (membus.cpp:22-28, 48-56).
LoadDelayMirrored ==
    \A a \in Address :
        InUse(a) /\ addressDelays[a].store = 0 =>
            addressInUse[a].load = addressDelays[a].load

\* What a core may conclude from the vector it gets: told to wait, it holds the
\* address; turned away, another core holds it; a word it is given is the word
\* in memory, with no store in progress; a completed store is in memory
\* (the tests core.cpp:48, 230 and 303-317 make on the vectors of the bus).
AnswerTruthful ==
    LET a == answer.address
        v == answer.result.value
        holder == addressInUse[a].core
    IN
    /\ answer.op = "read" =>
           CASE v = UINT32_MAX     -> holder = answer.core
             [] v = UINT32_MAX - 1 -> holder \notin {NoCore, answer.core}
             [] OTHER -> /\ v = memory[a]
                         /\ addressDelays[a].store = 0
                         /\ holder = NoCore
    /\ answer.op = "write" =>
           CASE v = UINT32_MAX -> holder \notin {NoCore, answer.core}
             [] v = 0          -> holder = answer.core
             [] OTHER -> /\ memory[a] = answer.value
                         /\ addressDelays[a].store = 0
                         /\ holder = NoCore

\* The bus with its count-downs implements the arbiter: a store is begun and
\* completed by one core with no other core let in between, and memory changes
\* only then (membus.cpp:11-14 and 37-40 guarding ram.cpp:61-97).
ImplementsArbiter == Arbiter!ArbiterSpec

\* A read that the RAM completes frees its address (membus.cpp:53: "If bypass
\* or operation completes, release the address").
CompletedReadReleases ==
    [][\A c \in CoreId, a \in Address :
           Read(c, a) /\ ~HeldByOther(c, a) /\ ReadCompletes(addressDelays[a])
               => addressInUse'[a].core = NoCore]_clientVars
=============================================================================
