------------------------------ MODULE MCArena ------------------------------
(***************************************************************************)
(* Arena on three slots, each retired after its second reuse: nine         *)
(* allocations are enough to retire slots and to find one behind a retired *)
(* entry of the free list.                                                 *)
(***************************************************************************)
EXTENDS Arena

MCMaxGeneration == 2
MCMaxSlots == 3
MCMaxAllocations == 9
=============================================================================
