---------------------------- MODULE DynamicArray ----------------------------
(***************************************************************************)
(* The circular array of shared/dynamic_array/dynamic_array.c.  malloc may *)
(* fail whenever it is called, and the memory it returns holds Garbage.    *)
(***************************************************************************)
EXTENDS Integers, Sequences

CONSTANTS Items, NULL, Garbage,
          InitialCapacity,   \* ARRAY_INITIAL_CAPACITY (4)
          GrowthFactor,      \* ARRAY_GROWTH_FACTOR (2)
          MaxCapacity        \* SIZE_MAX / sizeof(void *)

ASSUME ArrayAssumption ==
    /\ InitialCapacity \in Nat \ {0} /\ MaxCapacity \in Nat
    /\ InitialCapacity <= MaxCapacity
    /\ GrowthFactor \in Nat \ {0, 1}
    /\ NULL # Garbage /\ {NULL, Garbage} \cap Items = {}
    /\ \A n \in 1 .. MaxCapacity :                  \* no allocation is at NULL
         NULL \notin [0 .. n - 1 -> Items \cup {Garbage}]

VARIABLES head, count, capacity,
          data,       \* NULL, or the function from indices to what is stored
          out         \* what the last pop or dequeue returned

vars == <<head, count, capacity, data, out>>

Memory(n) == [i \in 0 .. n - 1 |-> Garbage]

\* array_init on a fresh structure; it may already have failed to allocate.
Init ==
    /\ head = 0 /\ count = 0 /\ out = NULL
    /\ \/ capacity = InitialCapacity /\ data = Memory(InitialCapacity)
       \/ capacity = 0 /\ data = NULL

\* The place of logical index i, as get, set, push and pop compute it.
Actual(i) == IF head + i >= capacity THEN head + i - capacity ELSE head + i

array_set(index, item) ==
    /\ data # NULL /\ index < count
    /\ data' = [data EXCEPT ![Actual(index)] = item]
    /\ UNCHANGED <<head, count, capacity, out>>

\* Space for one more element: the array as it will be when it is stored.
CanGrow == capacity # 0 /\ capacity <= MaxCapacity \div GrowthFactor
GrowInPlace == [i \in 0 .. capacity * GrowthFactor - 1 |->      \* mutant
                  IF i < capacity THEN data[i] ELSE Garbage]
Grown == [i \in 0 .. capacity * GrowthFactor - 1 |->
            IF i < count THEN data[Actual(i)] ELSE Garbage]

PushIntoFree(item) ==
    /\ data # NULL /\ count < capacity
    /\ data' = [data EXCEPT ![Actual(count)] = item]
    /\ count' = count + 1
    /\ UNCHANGED <<head, capacity, out>>

PushAfterResize(item) ==
    /\ data # NULL /\ count >= capacity /\ CanGrow
    /\ capacity' = capacity * GrowthFactor
    /\ head' = 0
    /\ data' = [Grown EXCEPT ![count] = item]
    /\ count' = count + 1
    /\ UNCHANGED out

PushAfterInit(item) ==
    /\ data = NULL
    /\ head' = 0 /\ count' = 1 /\ capacity' = InitialCapacity
    /\ data' = [Memory(InitialCapacity) EXCEPT ![0] = item]
    /\ UNCHANGED out

\* malloc fails, in array_init or in resize, or the size would overflow.
PushFails ==
    \/ /\ data = NULL
       /\ head' = 0 /\ count' = 0 /\ capacity' = 0
       /\ UNCHANGED <<data, out>>
    \/ /\ data # NULL /\ count >= capacity
       /\ UNCHANGED vars

\* also array_enqueue
array_push(item) ==
    PushIntoFree(item) \/ PushAfterResize(item) \/ PushAfterInit(item) \/ PushFails

Empty == count = 0 \/ data = NULL

array_pop ==
    \/ Empty /\ out' = NULL /\ UNCHANGED <<head, count, capacity, data>>
    \/ /\ ~Empty
       /\ out' = data[Actual(count - 1)]
       /\ count' = count - 1
       /\ UNCHANGED <<head, capacity, data>>

NextHeadUnbounded == head + 1                 \* mutant: head runs off the end
NextHead == IF head + 1 >= capacity THEN 0 ELSE head + 1

array_dequeue ==
    \/ Empty /\ out' = NULL /\ UNCHANGED <<head, count, capacity, data>>
    \/ /\ ~Empty
       /\ out' = data[head]
       /\ head' = NextHead
       /\ count' = count - 1
       /\ UNCHANGED <<capacity, data>>

array_free ==
    /\ data' = NULL
    /\ head' = 0 /\ count' = 0 /\ capacity' = 0
    /\ UNCHANGED out

Next ==
    \/ \E item \in Items : array_push(item)
    \/ \E item \in Items, index \in 0 .. MaxCapacity : array_set(index, item)
    \/ array_pop \/ array_dequeue \/ array_free

Spec == Init /\ [][Next]_vars

-----------------------------------------------------------------------------
\* The fields fit each other: no index the operations compute leaves the
\* allocation, and there is an allocation exactly when there is capacity.
ArrayTypeOK ==
    /\ capacity \in 0 .. MaxCapacity
    /\ count \in 0 .. capacity
    /\ IF capacity = 0 THEN data = NULL /\ head = 0
       ELSE head \in 0 .. capacity - 1 /\ data \in [0 .. capacity - 1 -> Items \cup {Garbage}]
    /\ out \in Items \cup {NULL}

\* array_get(index), for each valid index.
contents == [i \in 1 .. count |-> data[Actual(i - 1)]]

\* Wherever the elements lie in the circle, and however often it was grown in
\* the middle of a wrap or failed to grow, the array behaves as the sequence
\* its API describes: nothing is lost, reordered, duplicated or made up.
Abstract == INSTANCE Deque WITH items <- contents
ImplementsDeque == Abstract!Spec
=============================================================================
