---------------------------- MODULE MembusProofs ----------------------------
(***************************************************************************)
(* Theorems about the bus under its most general clients, for any set of   *)
(* cores, addresses and words and any latency.                             *)
(***************************************************************************)
EXTENDS MembusClients, MembusLemmas

\* The clients start from any memory of words they could have stored.
LEMMA InitialMemory == ClientsInit => memory \in [Address -> Data]
<1> SUFFICES ASSUME NEW r \in [Address -> Data],
                    memory = [a \in Address |->
                                 IF a \in Address THEN r[a] ELSE 0]
             PROVE  memory \in [Address -> Data]
  BY DEF ClientsInit, MembusInit, RamInit
<1> QED
  OBVIOUS

(***************************************************************************)
(* The state of the bus keeps its shape; the reported store delay is the   *)
(* counted one; the entry of a free address is blank.                      *)
(***************************************************************************)

LEMMA BusInvariant == ClientsSpec => []BusInv
<1>1. ClientsInit => BusInv
  BY BusInitial, ClientAssumption DEF ClientsInit
<1>2. BusInv /\ [ClientsNext]_clientVars => BusInv'
  <2> SUFFICES ASSUME BusInv, [ClientsNext]_clientVars
               PROVE  BusInv'
    OBVIOUS
  <2>1. CASE UNCHANGED clientVars
    BY <2>1 DEF clientVars, BusInv, MembusTypeOK, RamTypeOK, StoreDelayMirrored,
                FreeIsBlank, InUse
  <2>2. ASSUME NEW c \in CoreId, NEW a \in Address, Read(c, a)
        PROVE  BusInv'
    BY <2>2, ReadPreserves DEF Read
  <2>3. ASSUME NEW c \in CoreId, NEW a \in Address,
               NEW v \in Data, NEW added_delay \in AddedDelay,
               Write(c, a, v, added_delay)
        PROVE  BusInv'
    BY <2>3, WritePreserves, ClientAssumption DEF Write
  <2> QED
    BY <2>1, <2>2, <2>3 DEF ClientsNext
<1> QED
  BY <1>1, <1>2, PTL DEF ClientsSpec

\* Every count, entry and answer keeps its shape (ram.cpp and membus.cpp as a
\* whole).
THEOREM TypeCorrect == ClientsSpec => []ClientsTypeOK
<1>1. ClientsInit => ClientsTypeOK
  BY BusInitial, ClientAssumption DEF ClientsInit, BusInv, ClientsTypeOK, NoAnswer
<1>2. ClientsTypeOK /\ BusInv' /\ [ClientsNext]_clientVars => ClientsTypeOK'
  <2> SUFFICES ASSUME ClientsTypeOK, BusInv', [ClientsNext]_clientVars
               PROVE  ClientsTypeOK'
    OBVIOUS
  <2> USE DEF ClientsTypeOK
  <2>1. MembusTypeOK'
    BY DEF BusInv
  <2>2. CASE UNCHANGED clientVars
    BY <2>1, <2>2 DEF clientVars
  <2>3. CASE ClientsNext
    BY <2>1, <2>3 DEF ClientsNext, Read, Write, Answered
  <2> QED
    BY <2>2, <2>3
<1> QED
  BY <1>1, <1>2, BusInvariant, PTL DEF ClientsSpec

\* A core that is turned away is told the store delay that the RAM still counts
\* (membus.cpp:17-28 against ram.cpp:74-93).
THEOREM StoreDelayIsMirrored == ClientsSpec => []StoreDelayMirrored
<1>1. BusInv => StoreDelayMirrored
  BY DEF BusInv
<1> QED
  BY <1>1, BusInvariant, PTL

\* Where no store is in progress, a core that is turned away is told the load
\* delay that the RAM still counts; the garbage that a pending write leaves does
\* not outlast the write (membus.cpp:22-28, 48-56).
THEOREM LoadDelayIsMirrored == ClientsSpec => []LoadDelayMirrored
<1>1. ClientsInit => LoadDelayMirrored
  BY DEF ClientsInit, MembusInit, LoadDelayMirrored, InUse, Free
<1>2. BusInv /\ LoadDelayMirrored /\ [ClientsNext]_clientVars => LoadDelayMirrored'
  <2> SUFFICES ASSUME BusInv, LoadDelayMirrored, [ClientsNext]_clientVars,
                      NEW b \in Address, addressInUse'[b].core # NoCore,
                      addressDelays'[b].store = 0
               PROVE  addressInUse'[b].load = addressDelays'[b].load
    BY DEF LoadDelayMirrored, InUse
  <2> USE DEF BusInv, MembusTypeOK, RamTypeOK
  <2>0. addressInUse[b].core # NoCore /\ addressDelays[b].store = 0 =>
            addressInUse[b].load = addressDelays[b].load
    BY DEF LoadDelayMirrored, InUse
  <2>1. CASE UNCHANGED clientVars
    BY <2>0, <2>1 DEF clientVars
  <2>2. ASSUME NEW c \in CoreId, NEW a \in Address, Read(c, a)
        PROVE  addressInUse'[b].load = addressDelays'[b].load
    <3>1. CASE HeldByOther(c, a)
      BY <2>0, <2>2, <3>1, ReadEffect DEF Read
    <3>2. CASE ~HeldByOther(c, a)
      <4>1. /\ addressDelays' = [addressDelays EXCEPT ![a].load =
                                    LoadDelayAfterRead(addressDelays[a])]
            /\ addressInUse' = [addressInUse EXCEPT ![a] = EntryAfterRead(c, a)]
        BY <2>2, <3>2, ReadEffect DEF Read
      <4>2. CASE b # a
        BY <2>0, <4>1, <4>2
      <4>3. CASE b = a
        BY <4>1, <4>3 DEF EntryAfterRead, RamReadResult, Free
      <4> QED
        BY <4>2, <4>3
    <3> QED
      BY <3>1, <3>2
  <2>3. ASSUME NEW c \in CoreId, NEW a \in Address,
               NEW v \in Data, NEW added_delay \in AddedDelay,
               Write(c, a, v, added_delay)
        PROVE  addressInUse'[b].load = addressDelays'[b].load
    <3>1. CASE UNCHANGED busVars
      BY <2>0, <3>1 DEF busVars
    <3>2. CASE ~UNCHANGED busVars
      <4> DEFINE after == StoreDelayAfterWrite(addressDelays[a], added_delay)
      <4>1. PICK g \in Garbage :
                addressInUse' = [addressInUse EXCEPT
                    ![a] = EntryAfterWrite(c, a, added_delay, g)]
        BY <2>3, <3>2, WriteEffect DEF Write
      <4>2. addressDelays' = [addressDelays EXCEPT ![a].store = after]
        BY <2>3, <3>2, WriteEffect DEF Write
      <4>3. CASE b # a
        BY <2>0, <4>1, <4>2, <4>3
      <4>4. CASE b = a
        <5>1. after = 0
          BY <4>2, <4>4
        <5>2. WriteCompletes(addressDelays[a])
          <6>1. addressDelays[a] \in Delays
            BY DEF Delays
          <6> QED
            BY <5>1, <6>1, PendingAfterWrite, ClientAssumption
        <5>3. EntryAfterWrite(c, a, added_delay, g).core = NoCore
          BY <5>2 DEF EntryAfterWrite, RamWriteResult, Free
        <5> QED
          BY <4>1, <4>4, <5>3
      <4> QED
        BY <4>3, <4>4
    <3> QED
      BY <3>1, <3>2
  <2> QED
    BY <2>1, <2>2, <2>3 DEF ClientsNext
<1> QED
  BY <1>1, <1>2, BusInvariant, PTL DEF ClientsSpec

(***************************************************************************)
(* An address in use has an access in progress, if the word that means     *)
(* "pending" is never stored.  The strengthening says that the memory then *)
(* never holds that word: only words of Data reach it.                     *)
(***************************************************************************)

MemoryHoldsData == memory \in [Address -> Data]

LEMMA MemoryStaysData == ClientsSpec => []MemoryHoldsData
<1>1. MemoryHoldsData /\ [ClientsNext]_clientVars => MemoryHoldsData'
  <2> SUFFICES ASSUME MemoryHoldsData, [ClientsNext]_clientVars
               PROVE  MemoryHoldsData'
    OBVIOUS
  <2> USE DEF MemoryHoldsData
  <2>1. CASE UNCHANGED clientVars
    BY <2>1 DEF clientVars
  <2>2. ASSUME NEW c \in CoreId, NEW a \in Address, Read(c, a)
        PROVE  MemoryHoldsData'
    BY <2>2, ReadEffect DEF Read
  <2>3. ASSUME NEW c \in CoreId, NEW a \in Address,
               NEW v \in Data, NEW added_delay \in AddedDelay,
               Write(c, a, v, added_delay)
        PROVE  MemoryHoldsData'
    BY <2>3, WriteEffect DEF Write, busVars
  <2> QED
    BY <2>1, <2>2, <2>3 DEF ClientsNext
<1> QED
  BY <1>1, InitialMemory, PTL DEF ClientsSpec, MemoryHoldsData

\* If no core stores UINT32_MAX, an address is in use only while an access to it
\* is counted down, so that the core that repeats its call frees it
\* (membus.cpp:16-28 and 42-56).
THEOREM InUseIsPending ==
    ASSUME UINT32_MAX \notin Data
    PROVE  ClientsSpec => []InUseMeansPending
<1>1. ClientsInit => InUseMeansPending
  BY DEF ClientsInit, MembusInit, InUseMeansPending, InUse, Free
<1>2. /\ ClientsTypeOK /\ MemoryHoldsData /\ InUseMeansPending
      /\ [ClientsNext]_clientVars
      => InUseMeansPending'
  <2> DEFINE Pending(d) == d.store > 0 \/ d.load > 0
  <2> SUFFICES ASSUME ClientsTypeOK, MemoryHoldsData, InUseMeansPending,
                      [ClientsNext]_clientVars,
                      NEW b \in Address, addressInUse'[b].core # NoCore
               PROVE  Pending(addressDelays'[b])
    BY DEF InUseMeansPending, InUse
  <2> USE DEF ClientsTypeOK, MembusTypeOK, RamTypeOK, Read, Write
  <2>0. addressInUse[b].core # NoCore => Pending(addressDelays[b])
    BY DEF InUseMeansPending, InUse
  <2>1. CASE UNCHANGED clientVars
    BY <2>0, <2>1 DEF clientVars
  <2>2. ASSUME NEW c \in CoreId, NEW a \in Address, Read(c, a)
        PROVE  Pending(addressDelays'[b])
    <3>1. CASE HeldByOther(c, a)
      BY <2>0, <2>2, <3>1, ReadEffect
    <3>2. CASE ~HeldByOther(c, a)
      <4> DEFINE d == addressDelays[a]
      <4>1. /\ addressDelays' = [addressDelays EXCEPT ![a].load =
                                    LoadDelayAfterRead(d)]
            /\ addressInUse' = [addressInUse EXCEPT ![a] = EntryAfterRead(c, a)]
        BY <2>2, <3>2, ReadEffect
      <4>2. CASE b # a
        BY <2>0, <4>1, <4>2
      <4>3. CASE b = a
        <5>1. EntryAfterRead(c, a).core # NoCore
          BY <4>1, <4>3
        <5>2. ~ReadCompletes(d)
          BY <5>1 DEF EntryAfterRead, RamReadResult, MemoryHoldsData, Free
        <5>3. d \in Delays
          BY DEF Delays
        <5>4. d.store > 0 \/ LoadDelayAfterRead(d) > 0
          BY <5>2, <5>3, PendingAfterRead
        <5>5. /\ addressDelays'[a].store = d.store
              /\ addressDelays'[a].load = LoadDelayAfterRead(d)
          BY <4>1
        <5> QED
          BY <4>3, <5>4, <5>5
      <4> QED
        BY <4>2, <4>3
    <3> QED
      BY <3>1, <3>2
  <2>3. ASSUME NEW c \in CoreId, NEW a \in Address,
               NEW v \in Data, NEW added_delay \in AddedDelay,
               Write(c, a, v, added_delay)
        PROVE  Pending(addressDelays'[b])
    <3>1. CASE UNCHANGED busVars
      BY <2>0, <3>1 DEF busVars
    <3>2. CASE ~UNCHANGED busVars
      <4> DEFINE d == addressDelays[a]
                 after == StoreDelayAfterWrite(d, added_delay)
      <4>1. PICK g \in Garbage :
                addressInUse' = [addressInUse EXCEPT
                    ![a] = EntryAfterWrite(c, a, added_delay, g)]
        BY <2>3, <3>2, WriteEffect
      <4>2. addressDelays' = [addressDelays EXCEPT ![a].store = after]
        BY <2>3, <3>2, WriteEffect
      <4>3. CASE b # a
        BY <2>0, <4>1, <4>2, <4>3
      <4>4. CASE b = a
        <5>1. EntryAfterWrite(c, a, added_delay, g).core # NoCore
          BY <4>1, <4>4
        <5>2. ~WriteCompletes(d)
          BY <5>1 DEF EntryAfterWrite, RamWriteResult, Free
        <5>3. d \in Delays
          BY DEF Delays
        <5>4. after > 0
          BY <5>2, <5>3, PendingAfterWrite, ClientAssumption
        <5>5. addressDelays'[a].store = after
          BY <4>2
        <5> QED
          BY <4>4, <5>4, <5>5
      <4> QED
        BY <4>3, <4>4
    <3> QED
      BY <3>1, <3>2
  <2> QED
    BY <2>1, <2>2, <2>3 DEF ClientsNext
<1> QED
  BY <1>1, <1>2, TypeCorrect, MemoryStaysData, PTL DEF ClientsSpec

\* What a core may conclude from an answer, when neither of the reserved words is
\* ever stored (membus.cpp:8-59 against core.cpp:48, 230 and 303-317).
THEOREM AnswersAreTruthful ==
    ASSUME UINT32_MAX \notin Data, UINT32_MAX - 1 \notin Data
    PROVE  ClientsSpec => []AnswerTruthful
<1>1. ClientsInit => AnswerTruthful
  BY DEF ClientsInit, NoAnswer, AnswerTruthful
<1>2. /\ ClientsTypeOK /\ MemoryHoldsData /\ AnswerTruthful
      /\ [ClientsNext]_clientVars
      => AnswerTruthful'
  <2> SUFFICES ASSUME ClientsTypeOK, MemoryHoldsData, AnswerTruthful,
                      [ClientsNext]_clientVars
               PROVE  AnswerTruthful'
    OBVIOUS
  <2> USE DEF ClientsTypeOK, MembusTypeOK, RamTypeOK, Read, Write
  <2>1. CASE UNCHANGED clientVars
    BY <2>1 DEF clientVars, AnswerTruthful
  <2>2. ASSUME NEW c \in CoreId, NEW a \in Address, Read(c, a)
        PROVE  AnswerTruthful'
    <3>1. /\ answer'.op = "read" /\ answer'.core = c /\ answer'.address = a
          /\ answer'.result = MembusReadResult(c, a)
      BY <2>2 DEF Read, Answered
    <3>2. CASE HeldByOther(c, a)
      <4>1. answer'.result.value = UINT32_MAX - 1
        BY <3>1, <3>2 DEF MembusReadResult, BlockedRead
      <4>2. addressInUse'[a].core \notin {NoCore, c}
        BY <2>2, <3>2, ReadEffect DEF HeldByOther, InUse
      <4> QED
        BY <3>1, <4>1, <4>2, WordAssumption DEF AnswerTruthful
    <3>3. CASE ~HeldByOther(c, a)
      <4> DEFINE d == addressDelays[a]
      <4>1. /\ addressInUse'[a] = EntryAfterRead(c, a)
            /\ addressDelays'[a].store = d.store
            /\ memory' = memory
        BY <2>2, <3>3, ReadEffect
      <4>2. answer'.result.value = RamReadResult(a).value
        BY <3>1, <3>3 DEF MembusReadResult
      <4>3. CASE ReadCompletes(d)
        <5>1. answer'.result.value = memory[a] /\ memory[a] \in Data
          BY <4>2, <4>3 DEF RamReadResult, MemoryHoldsData
        <5>2. addressInUse'[a].core = NoCore
          BY <4>1, <4>2, <5>1 DEF EntryAfterRead, Free
        <5>3. addressDelays'[a].store = 0
          BY <4>1, <4>3 DEF ReadCompletes
        <5> QED
          BY <3>1, <4>1, <5>1, <5>2, <5>3 DEF AnswerTruthful
      <4>4. CASE ~ReadCompletes(d)
        <5>1. answer'.result.value = UINT32_MAX
          BY <4>2, <4>4 DEF RamReadResult
        <5>2. addressInUse'[a].core = c
          BY <4>1, <4>2, <5>1 DEF EntryAfterRead
        <5> QED
          BY <3>1, <5>1, <5>2, WordAssumption DEF AnswerTruthful
      <4> QED
        BY <4>3, <4>4
    <3> QED
      BY <3>2, <3>3
  <2>3. ASSUME NEW c \in CoreId, NEW a \in Address,
               NEW v \in Data, NEW added_delay \in AddedDelay,
               Write(c, a, v, added_delay)
        PROVE  AnswerTruthful'
    <3>1. /\ answer'.op = "write" /\ answer'.core = c /\ answer'.address = a
          /\ answer'.value = v
          /\ answer'.result = MembusWriteResult(c, a, added_delay)
      BY <2>3 DEF Write, Answered
    <3>2. CASE HeldByOther(c, a)
      <4>1. answer'.result.value = UINT32_MAX
        BY <3>1, <3>2 DEF MembusWriteResult, BlockedWrite
      <4>2. addressInUse'[a].core \notin {NoCore, c}
        BY <2>3, <3>2, WriteEffect DEF HeldByOther, InUse, busVars
      <4> QED
        BY <3>1, <4>1, <4>2, WordAssumption DEF AnswerTruthful
    <3>3. CASE ~HeldByOther(c, a)
      <4> DEFINE d == addressDelays[a]
      <4>1. PICK g \in Garbage :
                addressInUse' = [addressInUse EXCEPT
                    ![a] = EntryAfterWrite(c, a, added_delay, g)]
        BY <2>3, <3>3, WriteEffect
      <4>2. answer'.result.value = RamWriteResult(a, added_delay).value
        BY <3>1, <3>3 DEF MembusWriteResult
      <4>3. CASE WriteCompletes(d)
        <5>1. answer'.result.value = 1
          BY <4>2, <4>3 DEF RamWriteResult
        <5>2. addressInUse'[a].core = NoCore
          BY <4>1, <4>2, <5>1 DEF EntryAfterWrite, Free
        <5>3. memory'[a] = v
          BY <2>3, <3>3, <4>3, WriteEffect
        <5>4. addressDelays'[a].store = 0
          BY <2>3, <3>3, <4>3, WriteEffect
             DEF WriteCompletes, StoreDelayAfterWrite
        <5> QED
          BY <3>1, <5>1, <5>2, <5>3, <5>4, WordAssumption DEF AnswerTruthful
      <4>4. CASE ~WriteCompletes(d)
        <5>1. answer'.result.value = 0
          BY <4>2, <4>4 DEF RamWriteResult
        <5>2. addressInUse'[a].core = c
          BY <4>1, <4>2, <5>1 DEF EntryAfterWrite
        <5> QED
          BY <3>1, <5>1, <5>2, WordAssumption DEF AnswerTruthful
      <4> QED
        BY <4>3, <4>4
    <3> QED
      BY <3>2, <3>3
  <2> QED
    BY <2>1, <2>2, <2>3 DEF ClientsNext
<1> QED
  BY <1>1, <1>2, TypeCorrect, MemoryStaysData, PTL DEF ClientsSpec

(***************************************************************************)
(* Refinement: every call is a step of the arbiter.                        *)
(***************************************************************************)

\* The core that began a store completes it, no other core gets in between, and
\* memory changes only then (membus.cpp:11-14 and 37-40 guarding ram.cpp:61-97).
THEOREM ImplementsTheArbiter == ClientsSpec => ImplementsArbiter
<1>1. ClientsInit => Arbiter!ArbiterInit
  BY InitialArbiter, ClientAssumption DEF ClientsInit
<1>2. BusInv /\ [ClientsNext]_clientVars => [Arbiter!ArbiterNext]_(Arbiter!arbiterVars)
  <2> SUFFICES ASSUME BusInv, [ClientsNext]_clientVars
               PROVE  [Arbiter!ArbiterNext]_(Arbiter!arbiterVars)
    OBVIOUS
  <2>1. CASE UNCHANGED clientVars
    BY <2>1, IdleArbitrates DEF clientVars, busVars
  <2>2. ASSUME NEW c \in CoreId, NEW a \in Address, Read(c, a)
        PROVE  [Arbiter!ArbiterNext]_(Arbiter!arbiterVars)
    BY <2>2, ReadArbitrates DEF Read
  <2>3. ASSUME NEW c \in CoreId, NEW a \in Address,
               NEW v \in Data, NEW added_delay \in AddedDelay,
               Write(c, a, v, added_delay)
        PROVE  [Arbiter!ArbiterNext]_(Arbiter!arbiterVars)
    BY <2>3, WriteArbitrates, ClientAssumption DEF Write
  <2> QED
    BY <2>1, <2>2, <2>3 DEF ClientsNext
<1> QED
  BY <1>1, <1>2, BusInvariant, PTL
     DEF ClientsSpec, ImplementsArbiter, Arbiter!ArbiterSpec
=============================================================================
