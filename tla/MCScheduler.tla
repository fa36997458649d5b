---------------------------- MODULE MCScheduler -----------------------------
(***************************************************************************)
(* Instances of Scheduler for TLC.                                         *)
(***************************************************************************)
EXTENDS Scheduler

\* Two services in one protection domain and one in another.
MCKinds == {<<1, 10>>, <<2, 10>>, <<3, 20>>}

\* A single kind of task, for the runs about which task runs when.
MCOneKind == {<<1, 10>>}
=============================================================================
