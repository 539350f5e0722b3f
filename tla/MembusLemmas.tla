---------------------------- MODULE MembusLemmas ----------------------------
(***************************************************************************)
(* What one call of the bus does and preserves, whoever makes it.  The     *)
(* theorems about MembusClients and about Simulator rest on these lemmas,  *)
(* so that no other proof unfolds the bus or the RAM.                      *)
(***************************************************************************)
EXTENDS Membus, TLAPS

Delays == [store : Nat, load : Nat]
Entries == [core : CoreId \cup {NoCore}, store : Nat, load : Nat]

\* The mapping of Arbiter.
holder == [a \in Address |-> addressInUse[a].core]
inStore == [a \in Address |-> addressDelays[a].store > 0]

(***************************************************************************)
(* The counts.                                                             *)
(***************************************************************************)

\* No count is decremented below zero.
LEMMA DelaysStayNatural ==
    ASSUME NEW d \in Delays
    PROVE  /\ LoadDelayAfterRead(d) \in Nat
           /\ \A added_delay \in Nat : StoreDelayAfterWrite(d, added_delay) \in Nat
  BY DelayAssumption DEF Delays, LoadDelayAfterRead, StoreDelayAfterWrite

\* A call that is not answered leaves a count above zero.
LEMMA PendingAfterRead ==
    ASSUME NEW d \in Delays, ~ReadCompletes(d)
    PROVE  d.store > 0 \/ LoadDelayAfterRead(d) > 0
  BY DelayAssumption DEF Delays, ReadCompletes, LoadDelayAfterRead

LEMMA PendingAfterWrite ==
    ASSUME NEW d \in Delays, ~WriteCompletes(d), NEW added_delay \in Nat
    PROVE  StoreDelayAfterWrite(d, added_delay) > 0
  BY DelayAssumption DEF Delays, WriteCompletes, StoreDelayAfterWrite

(***************************************************************************)
(* What a call does, stated on counts and entries.                         *)
(***************************************************************************)

\* A call that is turned away changes nothing; any other read moves the load
\* count of its address and rewrites the entry of that address.
LEMMA ReadEffect ==
    ASSUME NEW c \in CoreId, NEW a \in Address, MembusRead(c, a)
    PROVE  /\ memory' = memory
           /\ HeldByOther(c, a) =>
                  UNCHANGED <<addressDelays, addressInUse>>
           /\ ~HeldByOther(c, a) =>
                  /\ addressDelays' = [addressDelays EXCEPT ![a].load =
                                          LoadDelayAfterRead(addressDelays[a])]
                  /\ addressInUse' = [addressInUse EXCEPT
                                          ![a] = EntryAfterRead(c, a)]
  BY DEF MembusRead, RamRead, busVars

\* Likewise for a write, whose recorded load delay is garbage.
LEMMA WriteEffect ==
    ASSUME NEW c \in CoreId, NEW a \in Address, NEW v, NEW added_delay,
           MembusWrite(c, a, v, added_delay)
    PROVE  \/ /\ HeldByOther(c, a)
              /\ UNCHANGED busVars
           \/ /\ ~HeldByOther(c, a)
              /\ addressDelays' = [addressDelays EXCEPT ![a].store =
                     StoreDelayAfterWrite(addressDelays[a], added_delay)]
              /\ memory' = IF WriteCompletes(addressDelays[a])
                           THEN [memory EXCEPT ![a] = v]
                           ELSE memory
              /\ \E g \in Garbage :
                     addressInUse' = [addressInUse EXCEPT
                         ![a] = EntryAfterWrite(c, a, added_delay, g)]
  BY DEF MembusWrite, RamWrite, busVars

\* The loader's write while nobody uses the memory.
LEMMA BypassEffect ==
    ASSUME MembusTypeOK, FreeIsBlank, NEW c \in CoreId, NEW a \in Address, NEW v,
           ~InUse(a), MembusWriteBypass(c, a, v)
    PROVE  /\ memory' = [memory EXCEPT ![a] = v]
           /\ UNCHANGED <<addressDelays, addressInUse>>
<1>1. ~HeldByOther(c, a) /\ addressInUse[a] = Free
  BY DEF HeldByOther, FreeIsBlank
<1>2. addressInUse' = [addressInUse EXCEPT ![a] = Free]
  BY <1>1 DEF MembusWriteBypass
<1>3. addressInUse' = addressInUse
  BY <1>1, <1>2 DEF MembusTypeOK
<1> QED
  BY <1>1, <1>3 DEF MembusWriteBypass, RamWriteBypass

(***************************************************************************)
(* The entry that an admitted call leaves.                                 *)
(***************************************************************************)
LEMMA EntryOfRead ==
    ASSUME MembusTypeOK, NEW c \in CoreId, NEW a \in Address
    PROVE  /\ EntryAfterRead(c, a) \in Entries
           /\ EntryAfterRead(c, a).store = addressDelays[a].store
           /\ EntryAfterRead(c, a).core = NoCore => EntryAfterRead(c, a) = Free
           /\ EntryAfterRead(c, a).core = c \/ EntryAfterRead(c, a).core = NoCore
           /\ EntryAfterRead(c, a).core # c => ReadCompletes(addressDelays[a])
<1> DEFINE d == addressDelays[a]
<1>1. d \in Delays
  BY DEF MembusTypeOK, RamTypeOK, Delays
<1>2. d.store \in Nat /\ LoadDelayAfterRead(d) \in Nat /\ c # NoCore
  BY <1>1, DelaysStayNatural, CoreAssumption DEF Delays, NoCore
<1> HIDE DEF d
<1>3. RamReadResult(a) =
          [value |-> IF ReadCompletes(d) THEN memory[a] ELSE UINT32_MAX,
           store |-> d.store, load |-> LoadDelayAfterRead(d)]
  BY DEF RamReadResult, d
<1> QED
  BY <1>2, <1>3 DEF EntryAfterRead, Entries, ReadCompletes, Free, d

LEMMA EntryOfWrite ==
    ASSUME MembusTypeOK, NEW c \in CoreId, NEW a \in Address,
           NEW added_delay \in Nat, NEW g \in Garbage
    PROVE  LET entry == EntryAfterWrite(c, a, added_delay, g) IN
           /\ entry \in Entries
           /\ entry.store = StoreDelayAfterWrite(addressDelays[a], added_delay)
           /\ entry.core = NoCore => entry = Free
           /\ entry.core = IF WriteCompletes(addressDelays[a]) THEN NoCore ELSE c
<1> DEFINE d == addressDelays[a]
<1>1. d \in Delays
  BY DEF MembusTypeOK, RamTypeOK, Delays
<1>2. d.store \in Nat /\ StoreDelayAfterWrite(d, added_delay) \in Nat /\ c # NoCore
  BY <1>1, DelaysStayNatural, CoreAssumption DEF Delays, NoCore
<1>3. WriteCompletes(d) => StoreDelayAfterWrite(d, added_delay) = 0
  BY DEF WriteCompletes, StoreDelayAfterWrite
<1>4. g \in Nat
  BY GarbageAssumption
<1> HIDE DEF d
<1>5. RamWriteResult(a, added_delay) =
          [value |-> IF WriteCompletes(d) THEN 1 ELSE 0,
           store |-> StoreDelayAfterWrite(d, added_delay)]
  BY DEF RamWriteResult, d
<1> QED
  BY <1>2, <1>3, <1>4, <1>5 DEF EntryAfterWrite, Entries, Free, d

(***************************************************************************)
(* Every call preserves the invariant.                                     *)
(***************************************************************************)
LEMMA BusInitial ==
    ASSUME NEW arrays, NEW random \in SUBSET Word, MembusInit(arrays, random)
    PROVE  BusInv /\ \A a \in Address : ~InUse(a)
<1>1. memory \in [Address -> Word]
  <2> SUFFICES ASSUME NEW r \in [arrays -> random],
                      memory = [a \in Address |-> IF a \in arrays THEN r[a] ELSE 0]
               PROVE  memory \in [Address -> Word]
    BY DEF MembusInit, RamInit
  <2>1. 0 \in Word
    BY WordAssumption
  <2>2. ASSUME NEW a \in Address, a \in arrays PROVE r[a] \in Word
    BY <2>2
  <2> QED
    BY <2>1, <2>2
<1>2. addressDelays = [a \in Address |-> NoDelay]
      /\ addressInUse = [a \in Address |-> Free]
  BY DEF MembusInit, RamInit
<1> QED
  BY <1>1, <1>2
     DEF BusInv, MembusTypeOK, RamTypeOK, StoreDelayMirrored, FreeIsBlank, InUse,
         NoDelay, Free

LEMMA ReadPreserves ==
    ASSUME BusInv, NEW c \in CoreId, NEW a \in Address, MembusRead(c, a)
    PROVE  BusInv'
<1> USE DEF BusInv
<1>1. CASE HeldByOther(c, a)
  BY <1>1, ReadEffect
     DEF MembusTypeOK, RamTypeOK, StoreDelayMirrored, FreeIsBlank, InUse
<1>2. CASE ~HeldByOther(c, a)
  <2> DEFINE load == LoadDelayAfterRead(addressDelays[a])
             entry == EntryAfterRead(c, a)
  <2>1. /\ addressDelays' = [addressDelays EXCEPT ![a].load = load]
        /\ addressInUse' = [addressInUse EXCEPT ![a] = entry]
        /\ memory' = memory
    BY <1>2, ReadEffect
  <2>2. load \in Nat
    BY DelaysStayNatural DEF MembusTypeOK, RamTypeOK, Delays
  <2>3. /\ entry \in Entries
        /\ entry.store = addressDelays[a].store
        /\ entry.core = NoCore => entry = Free
    BY EntryOfRead
  <2> HIDE DEF load, entry
  <2>4. MembusTypeOK'
    BY <2>1, <2>2, <2>3 DEF MembusTypeOK, RamTypeOK, Entries
  <2>5. StoreDelayMirrored'
    BY <2>1, <2>3 DEF MembusTypeOK, RamTypeOK, StoreDelayMirrored
  <2>6. FreeIsBlank'
    BY <2>1, <2>3 DEF MembusTypeOK, FreeIsBlank, InUse
  <2> QED
    BY <2>4, <2>5, <2>6
<1> QED
  BY <1>1, <1>2

LEMMA WritePreserves ==
    ASSUME BusInv, NEW c \in CoreId, NEW a \in Address,
           NEW v \in Word, NEW added_delay \in Nat,
           MembusWrite(c, a, v, added_delay)
    PROVE  BusInv'
<1> USE DEF BusInv
<1>1. CASE UNCHANGED busVars
  BY <1>1
     DEF busVars, MembusTypeOK, RamTypeOK, StoreDelayMirrored, FreeIsBlank, InUse
<1>2. CASE ~UNCHANGED busVars
  <2> DEFINE store == StoreDelayAfterWrite(addressDelays[a], added_delay)
  <2>1. /\ addressDelays' = [addressDelays EXCEPT ![a].store = store]
        /\ memory' \in {memory, [memory EXCEPT ![a] = v]}
    BY <1>2, WriteEffect
  <2>2. PICK g \in Garbage :
            addressInUse' = [addressInUse EXCEPT
                                 ![a] = EntryAfterWrite(c, a, added_delay, g)]
    BY <1>2, WriteEffect
  <2> DEFINE entry == EntryAfterWrite(c, a, added_delay, g)
  <2>3. store \in Nat
    BY DelaysStayNatural DEF MembusTypeOK, RamTypeOK, Delays
  <2>4. /\ entry \in Entries
        /\ entry.store = store
        /\ entry.core = NoCore => entry = Free
    BY EntryOfWrite
  <2>5. addressInUse' = [addressInUse EXCEPT ![a] = entry]
    BY <2>2
  <2> HIDE DEF store, entry
  <2>6. MembusTypeOK'
    BY <2>1, <2>3, <2>4, <2>5 DEF MembusTypeOK, RamTypeOK, Entries
  <2>7. StoreDelayMirrored'
    BY <2>1, <2>4, <2>5 DEF MembusTypeOK, RamTypeOK, StoreDelayMirrored
  <2>8. FreeIsBlank'
    BY <2>4, <2>5 DEF MembusTypeOK, FreeIsBlank, InUse
  <2> QED
    BY <2>6, <2>7, <2>8
<1> QED
  BY <1>1, <1>2

(***************************************************************************)
(* Every call is a step of the arbiter: a read is a Take while it is       *)
(* pending and a FinishLoad when it is answered; a write is a Take, which  *)
(* begins the store, and at last a FinishStore; a call that is turned away *)
(* stutters.                                                               *)
(***************************************************************************)
LEMMA InitialArbiter ==
    ASSUME NEW arrays, NEW random \in SUBSET Word, MembusInit(arrays, random)
    PROVE  Arbiter!ArbiterInit
<1>1. memory \in [Address -> Word]
  BY BusInitial DEF BusInv, MembusTypeOK, RamTypeOK
<1>2. holder = [a \in Address |-> NoCore]
  BY DEF MembusInit, Free, holder
<1>3. inStore = [a \in Address |-> FALSE]
  <2>1. \A a \in Address : (addressDelays[a].store > 0) = FALSE
    BY DEF MembusInit, RamInit, NoDelay
  <2> QED
    BY <2>1, Zenon DEF inStore
<1> QED
  BY <1>1, <1>2, <1>3, Zenon
     DEF Arbiter!ArbiterInit, Arbiter!NoCore, NoCore, holder, inStore

LEMMA IdleArbitrates ==
    ASSUME UNCHANGED busVars
    PROVE  UNCHANGED Arbiter!arbiterVars
  BY DEF busVars, Arbiter!arbiterVars

LEMMA ReadArbitrates ==
    ASSUME BusInv, NEW c \in CoreId, NEW a \in Address, MembusRead(c, a)
    PROVE  [Arbiter!ArbiterNext]_(Arbiter!arbiterVars)
<1> USE DEF BusInv, MembusTypeOK, RamTypeOK
<1>1. CASE HeldByOther(c, a)
  BY <1>1, ReadEffect DEF Arbiter!arbiterVars
<1>2. ASSUME ~HeldByOther(c, a)
      PROVE  Arbiter!Take(c, a) \/ Arbiter!FinishLoad(c, a)
  <2> DEFINE entry == EntryAfterRead(c, a)
  <2>1. /\ addressDelays' = [addressDelays EXCEPT ![a].load =
                                LoadDelayAfterRead(addressDelays[a])]
        /\ addressInUse' = [addressInUse EXCEPT ![a] = entry]
        /\ memory' = memory
    BY <1>2, ReadEffect
  <2>2. /\ entry.core \in {c, NoCore}
        /\ entry.core # c => ReadCompletes(addressDelays[a])
    BY EntryOfRead
  <2>3. holder' = [holder EXCEPT ![a] = entry.core]
    BY <2>1 DEF holder
  <2>4. inStore' = inStore
    BY <2>1 DEF inStore
  <2>5. holder[a] \in {NoCore, c}
    BY <1>2 DEF HeldByOther, InUse, holder
  <2> HIDE DEF entry
  <2>6. CASE entry.core = c
    BY <2>1, <2>3, <2>4, <2>5, <2>6
       DEF Arbiter!Take, Arbiter!Available, Arbiter!NoCore, NoCore, holder, inStore
  <2>7. CASE entry.core # c
    <3>1. ~(addressDelays[a].store > 0)
      BY <2>2, <2>7 DEF ReadCompletes
    <3>2. ~inStore[a]
      BY <3>1 DEF inStore
    <3> QED
      BY <2>1, <2>2, <2>3, <2>4, <2>5, <2>7, <3>2
         DEF Arbiter!FinishLoad, Arbiter!Available, Arbiter!NoCore, NoCore,
             holder, inStore
  <2> QED
    BY <2>6, <2>7
<1> QED
  BY <1>1, <1>2 DEF Arbiter!ArbiterNext

LEMMA WriteArbitrates ==
    ASSUME BusInv, NEW c \in CoreId, NEW a \in Address,
           NEW v \in Word, NEW added_delay \in Nat,
           MembusWrite(c, a, v, added_delay)
    PROVE  [Arbiter!ArbiterNext]_(Arbiter!arbiterVars)
<1> USE DEF BusInv, MembusTypeOK, RamTypeOK
<1>1. CASE HeldByOther(c, a)
  BY <1>1, WriteEffect, IdleArbitrates
<1>2. ASSUME ~HeldByOther(c, a)
      PROVE  Arbiter!Take(c, a) \/ Arbiter!FinishStore(c, a, v)
  <2> DEFINE d == addressDelays[a]
             after == StoreDelayAfterWrite(d, added_delay)
  <2>1. PICK g \in Garbage :
            addressInUse' = [addressInUse EXCEPT
                                 ![a] = EntryAfterWrite(c, a, added_delay, g)]
    BY <1>2, WriteEffect
  <2> DEFINE entry == EntryAfterWrite(c, a, added_delay, g)
  <2>2. entry.core = IF WriteCompletes(d) THEN NoCore ELSE c
    BY EntryOfWrite
  <2>3. holder' = [holder EXCEPT ![a] = entry.core]
    BY <2>1 DEF holder
  <2>4. addressDelays' = [addressDelays EXCEPT ![a].store = after]
    BY <1>2, WriteEffect
  <2>5. inStore' = [inStore EXCEPT ![a] = after > 0]
    BY <2>4 DEF inStore
  <2>6. holder[a] \in {NoCore, c}
    BY <1>2 DEF HeldByOther, InUse, holder
  <2>7. /\ d \in Delays
        /\ inStore[a] <=> d.store > 0
    BY DEF inStore, Delays
  <2>8. CASE WriteCompletes(d)
    <3>1. entry.core = NoCore /\ after = 0 /\ inStore[a]
      BY <2>2, <2>7, <2>8 DEF WriteCompletes, StoreDelayAfterWrite, Delays
    <3>2. memory' = [memory EXCEPT ![a] = v]
      BY <1>2, <2>8, WriteEffect
    <3>3. holder[a] = c
      BY <2>6, <2>8
         DEF StoreDelayMirrored, FreeIsBlank, WriteCompletes, Free, InUse, holder
    <3>4. inStore' = [inStore EXCEPT ![a] = FALSE]
      <4>1. (after > 0) = FALSE
        BY <3>1
      <4> QED
        BY <2>5, <4>1, Zenon
    <3> QED
      BY <2>3, <3>1, <3>2, <3>3, <3>4, Zenon
         DEF Arbiter!FinishStore, Arbiter!NoCore, NoCore, holder, inStore
  <2>9. CASE ~WriteCompletes(d)
    <3>1. entry.core = c
      BY <2>2, <2>9
    <3>2. after > 0
      BY <2>7, <2>9, PendingAfterWrite
    <3>3. memory' = memory
      BY <1>2, <2>9, WriteEffect
    <3> QED
      BY <2>3, <2>5, <2>6, <3>1, <3>2, <3>3
         DEF Arbiter!Take, Arbiter!Available, Arbiter!NoCore, NoCore,
             holder, inStore
  <2> QED
    BY <2>8, <2>9
<1> QED
  BY <1>1, <1>2 DEF Arbiter!ArbiterNext

\* The loader's write, while nobody uses the memory, is a Preload.
LEMMA BypassPreserves ==
    ASSUME BusInv, NEW c \in CoreId, NEW a \in Address, NEW v \in Word,
           \A b \in Address : ~InUse(b), MembusWriteBypass(c, a, v)
    PROVE  /\ BusInv'
           /\ UNCHANGED addressInUse
           /\ [Arbiter!ArbiterNext]_(Arbiter!arbiterVars)
<1> USE DEF BusInv
<1>1. /\ memory' = [memory EXCEPT ![a] = v]
      /\ UNCHANGED <<addressDelays, addressInUse>>
  BY BypassEffect
<1>2. BusInv'
  BY <1>1 DEF MembusTypeOK, RamTypeOK, StoreDelayMirrored, FreeIsBlank, InUse
<1>3. Arbiter!Preload(a, v)
  BY <1>1 DEF Arbiter!Preload, Arbiter!NoCore, NoCore, InUse
<1> QED
  BY <1>1, <1>2, <1>3 DEF Arbiter!ArbiterNext
=============================================================================
