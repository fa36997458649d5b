------------------------------- MODULE MCEl0 --------------------------------
(***************************************************************************)
(* Instances of El0 for TLC: two services of one layer in two domains, and *)
(* one of another layer, as main.c registers them.                         *)
(***************************************************************************)
EXTENDS El0

MCArchDomains == <<100, 200>>
MCBootServices == {[id |-> 1, layer |-> 1, domain |-> 100, active |-> TRUE],
               [id |-> 2, layer |-> 1, domain |-> 200, active |-> TRUE],
               [id |-> 3, layer |-> 0, domain |-> 200, active |-> TRUE]}
MCGrant(owner, target, permissions) ==
    [owner |-> owner, target |-> target, operation |-> 1,
     permissions |-> permissions, resource |-> 1]
MCKernelGrants == {MCGrant(1, 2, {"CALL"}), MCGrant(2, 1, {"CALL"}),
                   MCGrant(1, 3, {"CALL"}), MCGrant(1, 3, {"CALL", "CRITICAL"})}
MCCallRequests == {[target |-> t, operation |-> 1, resource |-> 1, handle |-> h] :
                     t \in 1 .. 3, h \in {<<1, 1>>, <<1, 2>>}}
=============================================================================
