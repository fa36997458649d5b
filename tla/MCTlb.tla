------------------------------- MODULE MCTlb --------------------------------
(***************************************************************************)
(* An instance of Tlb for TLC: the three domains of mmu.c.                 *)
(***************************************************************************)
EXTENDS Tlb

MCArchDomains == <<100, 200, 300>>
=============================================================================
