------------------------------ MODULE InOrder -------------------------------
(***************************************************************************)
(* What the pipelines promise, with stages, delays, bus and cycles left    *)
(* out: cores that fetch at most two words ahead, perform instructions one *)
(* at a time in the order fetched, each exactly once, and put stores aside *)
(* in a buffer of one.  No load overtakes the store that is put aside, to  *)
(* its address or into its base register; other instructions may overtake  *)
(* it, and the store then uses the registers as it finds them.             *)
(***************************************************************************)
EXTENDS Instructions, Sequences

CONSTANTS
    Modulus,                    \* the number of words
    Meaning(_),                 \* the instruction that a word stands for
    Plus(_, _), Minus(_, _)     \* on floats

VARIABLES
    mem,                        \* the words of the memory
    regs,                       \* the registers of each core
    next,                       \* the address each core fetches from next
    line,                       \* the words each core has fetched
    buffer                      \* the store each core has put aside

inOrderVars == <<mem, regs, next, line, buffer>>

WrapTo(n) == n % Modulus
AsInt(n) == IF 2 * n >= Modulus THEN n - Modulus ELSE n

\* The two reserved words.
Pending    == Modulus - 1
TurnedAway == Modulus - 2

Loads  == {"lw", "flw"}
Stores == {"sw", "fsw"}
Others == {"addi", "add", "slli", "fadd.s", "fsub.s", "auipc",
           "blt", "beq", "bne", "jal", "jalr"}

Base(s, i) == WrapTo(s.registers[i.rs1] + i.imm)

\* One instruction, on a record of registers, memory and pc.  Distances count
\* from the address that is fetched next.
Effect(s, i) ==
    LET x == s.registers[i.rs1]
        y == s.registers[i.rs2]
        word == s.memory[Base(s, i)]
        target == WrapTo(s.pc + i.imm)
        set(r, v) == [s EXCEPT !.registers[r] = WrapTo(v)]
        goIf(test) == [s EXCEPT !.pc = IF test THEN target ELSE @]
    IN CASE i.name = "addi"     -> set(i.rd, x + i.imm)
         [] i.name = "add"      -> set(i.rd, x + y)
         [] i.name = "slli"     -> set(i.rd, x * 2 ^ (i.imm % 32))
         [] i.name = "fadd.s"   -> set(i.rd, Plus(x, y))
         [] i.name = "fsub.s"   -> set(i.rd, Minus(x, y))
         [] i.name = "auipc"    -> set(i.rd, s.pc + AuipcOperand(i) * 4096)
         [] i.name = "blt"      -> goIf(AsInt(x) < AsInt(y))
         [] i.name = "beq"      -> goIf(x = y)
         [] i.name = "bne"      -> goIf(x # y)
         [] i.name = "jal"      -> [set("ra", s.pc + 4) EXCEPT !.pc = target]
         [] i.name = "jalr"     -> [set(i.rd, target) EXCEPT !.pc = target]
         [] i.name \in Loads    -> IF word = Pending THEN s ELSE set(i.rd, word)
         [] i.name \in Stores   -> [s EXCEPT !.memory[Base(s, i)] = y]

\* A program without jumps that runs alone: the state it starts from, and the
\* state after each of its words.
AfterEach(s, words) ==
    LET after[n \in 0 .. Len(words)] ==
            IF n = 0 THEN s ELSE Effect(after[n - 1], Meaning(words[n]))
    IN after

(***************************************************************************)
(* The cores at work.                                                      *)
(***************************************************************************)
State(c) == [registers |-> regs[c], memory |-> mem, pc |-> next[c]]

First(c) == Meaning(Head(line[c]))
PutAside(c) == Meaning(Head(buffer[c]))

InOrderInit ==
    /\ line = [c \in DOMAIN line |-> <<>>]
    /\ buffer = [c \in DOMAIN buffer |-> <<>>]

\* The loader, before anything is fetched.
Preload(a) ==
    /\ \A c \in DOMAIN line : line[c] = <<>> /\ buffer[c] = <<>>
    /\ mem' = [mem EXCEPT ![a] = mem'[a]]
    /\ UNCHANGED <<regs, next, line, buffer>>

\* The next word is fetched; turned away, the core takes the answer for one.
Enter(c) ==
    /\ Len(line[c]) < 2
    /\ next[c] \in DOMAIN mem
    /\ \E word \in {mem[next[c]], TurnedAway} :
           line' = [line EXCEPT ![c] = Append(@, word)]
    /\ next' = [next EXCEPT ![c] = WrapTo(@ + 4)]
    /\ UNCHANGED <<mem, regs, buffer>>

Perform(c) ==
    LET i == First(c)
        after == Effect(State(c), i)
        jumps == i.name = "jal" /\ i.imm # 0
    IN
    /\ regs' = [regs EXCEPT ![c] = after.registers]
    /\ next' = [next EXCEPT ![c] = after.pc]
    /\ line' = [line EXCEPT ![c] = IF jumps THEN <<>> ELSE Tail(@)]
    /\ UNCHANGED <<mem, buffer>>

MayLoad(c) ==
    /\ Base(State(c), First(c)) \in DOMAIN mem
    /\ buffer[c] # <<>> =>
           /\ PutAside(c).rs1 # First(c).rd
           /\ Base(State(c), PutAside(c)) # Base(State(c), First(c))

\* A load that is turned away loses what was in its destination.
Spoil(c) ==
    /\ buffer[c] = <<>> \/ PutAside(c).rs1 # First(c).rd
    /\ regs' = [regs EXCEPT ![c][First(c).rd] = TurnedAway]
    /\ UNCHANGED <<mem, next, line, buffer>>

Defer(c) ==
    /\ buffer[c] = <<>>
    /\ buffer' = [buffer EXCEPT ![c] = <<Head(line[c])>>]
    /\ line' = [line EXCEPT ![c] = Tail(@)]
    /\ UNCHANGED <<mem, regs, next>>

Drain(c) ==
    /\ buffer[c] # <<>>
    /\ Base(State(c), PutAside(c)) \in DOMAIN mem
    /\ mem' = Effect(State(c), PutAside(c)).memory
    /\ buffer' = [buffer EXCEPT ![c] = <<>>]
    /\ UNCHANGED <<regs, next, line>>

Work(c) ==
    /\ line[c] # <<>>
    /\ \/ First(c).name \in Others /\ Perform(c)
       \/ First(c).name \in Loads /\ MayLoad(c) /\ Perform(c)
       \/ First(c).name \in Loads /\ Spoil(c)
       \/ First(c).name \in Stores /\ Defer(c)

InOrderNext ==
    \/ \E a \in DOMAIN mem : Preload(a)
    \/ \E c \in DOMAIN line : Drain(c) \/ Enter(c) \/ Work(c)

InOrderSpec == InOrderInit /\ [][InOrderNext]_inOrderVars
=============================================================================
