------------------------------ MODULE Authority ------------------------------
(***************************************************************************)
(* What the capability table promises its users, without slots, free list  *)
(* or generations: a handle either carries one grant or none; granting     *)
(* gives one idle handle a grant, revoking takes the grant of one handle   *)
(* away, and neither touches any other handle.                             *)
(***************************************************************************)
CONSTANTS Handles,   \* the handle values a holder can keep
          Grants,    \* owner, target, operation, permissions and resource
          NoGrant    \* what an idle or revoked handle carries

VARIABLE authority   \* the grant each handle carries

Idle == [h \in Handles |-> NoGrant]

Init == authority = Idle

Grant(h, g) ==
    /\ authority[h] = NoGrant
    /\ authority' = [authority EXCEPT ![h] = g]

Revoke(h) ==
    /\ authority[h] # NoGrant
    /\ authority' = [authority EXCEPT ![h] = NoGrant]

Next == \E h \in Handles : Revoke(h) \/ \E g \in Grants : Grant(h, g)

Spec == Init /\ [][Next]_authority
=============================================================================
