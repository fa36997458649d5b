---------------------------- MODULE MCInterrupts ----------------------------
(***************************************************************************)
(* Instance of Interrupts for TLC: tasks of a single kind.                 *)
(***************************************************************************)
EXTENDS Interrupts

MCOneKind == {<<1, 10>>}
=============================================================================
