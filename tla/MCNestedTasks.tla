--------------------------- MODULE MCNestedTasks ----------------------------
(***************************************************************************)
(* Instances of NestedTasks for TLC: two services in different domains,    *)
(* each allowed to call the other.                                         *)
(***************************************************************************)
EXTENDS NestedTasks

MCKinds == {<<1, 10>>, <<2, 20>>}
MCAuthorized == {<<1, 2>>, <<2, 1>>}
=============================================================================
