------------------------------- MODULE Deque --------------------------------
(***************************************************************************)
(* What a DynamicArray promises: a sequence that grows at its end, shrinks *)
(* at both ends and can be updated in place.  out is what the last removal *)
(* returned.  An operation may fail, and then changes nothing.             *)
(***************************************************************************)
EXTENDS Integers, Sequences

CONSTANTS Items, NULL

VARIABLES items, out

Init == items = <<>> /\ out = NULL

Push(item) == items' = Append(items, item) /\ UNCHANGED out

Pop == /\ items # <<>>
       /\ out' = items[Len(items)]
       /\ items' = SubSeq(items, 1, Len(items) - 1)

Dequeue == items # <<>> /\ out' = Head(items) /\ items' = Tail(items)

Set(i, item) == items' = [items EXCEPT ![i] = item] /\ UNCHANGED out

Clear == items' = <<>> /\ UNCHANGED out

NothingToRemove == items = <<>> /\ out' = NULL /\ UNCHANGED items

Next ==
    \/ \E item \in Items : Push(item) \/ \E i \in 1 .. Len(items) : Set(i, item)
    \/ Pop \/ Dequeue \/ NothingToRemove \/ Clear

Spec == Init /\ [][Next]_<<items, out>>
=============================================================================
