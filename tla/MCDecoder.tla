----------------------------- MODULE MCDecoder ------------------------------
(***************************************************************************)
(* Every instruction that decoder.cpp has a table entry for, a choice of   *)
(* registers for each operand that sets each bit of its field, and the     *)
(* immediates at the edges of each format and of what is supported.        *)
(***************************************************************************)
EXTENDS RoundTrip

Upper == {4096 * n : n \in {-524288, -19531, -1, 0, 1, 2, 3, 19531, 524287}}

\* Inside and outside the range that is supported.
Immediates ==
    [R |-> {0},
     I |-> {-2048, -17, -16, -1, 0, 1, 255, 2047, 2048, 3072, 4079, 4080, 4095},
     S |-> {-2048, -1025, -17, -1, 0, 1, 31, 32, 2047},
     B |-> {-4096, -2050, -2, 0, 2, 30, 32, 1024, 2046, 2048, 4094},
     U |-> Upper,
     J |-> {-1048576, -4098, -100, -2, 0, 2, 2046, 2048, 4094, 4096, 1048574}]

MCSources ==
    UNION {[instruction : {i},
            rd  : {0, 1, 2, 9, 19, 27, 30},
            rs1 : {0, 1, 2, 4, 7, 8, 10, 31},
            rs2 : {0, 1, 2, 3, 17, 18, 28},
            imm : Immediates[i.format]] : i \in InstructionSet}
=============================================================================
