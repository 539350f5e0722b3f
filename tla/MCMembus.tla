------------------------------ MODULE MCMembus ------------------------------
(***************************************************************************)
(* MembusClients with two cores, two addresses and words of four bits.    *)
(***************************************************************************)
EXTENDS MembusClients

MCWord == 0 .. 15
MCAddress == {0, 4}
MCCoreId == {0, 1}
MCGarbage == {0, 3}
MCAddedDelay == {0, 1}

\* Words of a program that keeps the two reserved words out of the memory.
MCData == {1, 2}

\* Words of a program that stores -1.
MCDataWithMax == {1, 15}
=============================================================================
