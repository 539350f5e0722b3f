----------------------------- MODULE MCStraight -----------------------------
(***************************************************************************)
(* Two cores with straight-line programs that share one word for loading:  *)
(* every program of three instructions on core 0, beside programs of core  *)
(* 1 that meet it at different times.                                      *)
(*                                                                         *)
(* Programs in which an instruction follows a store whose base or source   *)
(* register it overwrites are left out, unless it is the load of a base    *)
(* register that hold_registers is there for: the store would use the      *)
(* register as overwritten (see FramePointerRestored).                     *)
(***************************************************************************)
EXTENDS MCSmall, Conventions

MCCoreId == 0 .. 1

Inc       == Imm("addi", "a0", "a0", 1)
Save(c)   == St("sw", "a0", Private(c), "s0")
Reload(c) == Ld("lw", "a1", Private(c), "s0")
Rebase    == Ld("lw", "s0", Shared, "zero")
Fetched   == Ld("flw", "a0", Shared, "zero")
Sum       == Op("fadd.s", "a0", "a0", "a1")

MCAlphabet ==
    <<Inc, Save(0), Reload(0), Rebase, Fetched, Sum, Save(1), Reload(1)>>

Harmless(program) ==
    \A n \in 1 .. Len(program) - 1 :
        LET i == program[n]
            next == program[n + 1]
        IN i.name = "sw" => next.rd # i.rs2 /\ (next.name = "lw" \/ next.rd # i.rs1)

Programs0 ==
    {p \in ProgramsOf(3, {Inc, Save(0), Reload(0), Rebase, Fetched, Sum}) :
         Harmless(p)}

Programs1 ==
    {<<Fetched>>, <<Inc, Fetched>>, <<Save(1), Rebase, Save(1)>>, <<Rebase, Sum>>}

MCBinaries ==
    {[c \in MCCoreId |-> Assemble(IF c = 0 THEN p ELSE q)] :
         p \in Programs0, q \in Programs1}
=============================================================================
