-------------------------- MODULE CapabilityProofs --------------------------
(***************************************************************************)
(* Proofs about the capability table and about the shared buffers that     *)
(* capabilities open, for every size of the two tables, every generation   *)
(* range and every set of ids and permissions.                             *)
(***************************************************************************)
EXTENDS SharedBuffer, ValidateProofs, FiniteSetTheorems

\* How far the history of a revoked handle is from its slot's generation: k
\* revocations later the generation is 1 + k steps ahead on the cycle
\* 1 .. MaxGeneration, written without a modulus.
GenerationClock ==
    \A s \in Slots, g \in Generations :
      LET k == since[s][g]
          c == capability_table[s].generation
      IN  k # Never => /\ k < MaxGeneration
                       /\ c = g + 1 + k \/ c = g + 1 + k - MaxGeneration

\* The inductive invariant: neither the bound on free_slot_count nor the fate
\* of revoked handles is inductive without the exactness of the free list and
\* the generation clock.
CapIInv == CapTypeOK /\ FreeListExact /\ GenerationClock /\ GrantWhileActive

-----------------------------------------------------------------------------
\* A slot that is in use leaves room on the free stack: revoke's unchecked
\* store at free_slots[free_slot_count++] stays inside the array.
LEMMA RoomForRevoked ==
    ASSUME CapTypeOK, FreeListExact,
           NEW slot \in Slots, capability_table[slot].active
    PROVE  free_slot_count < CapTableSize
<1> USE CapabilityAssumption
<1>1. SUFFICES ASSUME free_slot_count = CapTableSize PROVE FALSE
  BY DEF CapTypeOK
<1>2. FreeRegion = Slots
  BY <1>1 DEF FreeRegion, Slots
<1>3. free_slots \in [Slots -> Slots \ {slot}]
  BY <1>2 DEF CapTypeOK, FreeListExact, FreeSet
<1>4. IsFiniteSet(Slots) /\ Cardinality(Slots) = CapTableSize
  BY FS_Interval DEF Slots
<1>5. /\ IsFiniteSet(Slots \ {slot})
      /\ Cardinality(Slots \ {slot}) = CapTableSize - 1
  BY <1>4, FS_RemoveElement
<1>6. \E x, y \in Slots : x # y /\ free_slots[x] = free_slots[y]
  <2>1. Cardinality(Slots \ {slot}) < Cardinality(Slots)
    BY <1>4, <1>5
  <2> QED BY <1>3, <1>4, <1>5, <2>1, FS_PigeonHole
<1> QED BY <1>2, <1>6 DEF FreeListExact

-----------------------------------------------------------------------------
LEMMA InitIInv == CapInit => CapIInv
<1> SUFFICES ASSUME CapInit PROVE CapIInv OBVIOUS
<1> USE CapabilityAssumption DEF CapInit
<1>1. CapTypeOK
  BY DEF CapTypeOK, Entries, Slots, Generations, Never
<1>2. FreeListExact
  <2>1. FreeRegion = Slots
    BY DEF FreeRegion, Slots
  <2>2. \A i, j \in FreeRegion : free_slots[i] = free_slots[j] => i = j
    BY <2>1 DEF Slots
  <2>3. ASSUME NEW s \in Slots PROVE s \in FreeSet
    <3>1. CapTableSize - 1 - s \in FreeRegion
      BY <2>1 DEF Slots
    <3>2. free_slots[CapTableSize - 1 - s] = s
      BY <3>1, <2>1 DEF Slots
    <3> QED BY <3>1, <3>2, Zenon DEF FreeSet
  <2> QED BY <2>2, <2>3, SMTT(30) DEF FreeListExact
<1>3. GenerationClock
  BY DEF GenerationClock, Never
<1>4. GrantWhileActive
  BY DEF GrantWhileActive
<1> QED BY <1>1, <1>2, <1>3, <1>4 DEF CapIInv

LEMMA CreateIInv ==
    ASSUME CapIInv,
           NEW owner \in Services, NEW target \in Services,
           NEW operation \in Operations, NEW resource \in Resources,
           NEW permissions,
           lettuce_capability_create(owner, target, operation, permissions, resource)
    PROVE  CapIInv'
<1> DEFINE slot == free_slots[free_slot_count - 1]
           grant == [owner |-> owner, target |-> target, operation |-> operation,
                     resource |-> resource, permissions |-> permissions]
<1> USE CapabilityAssumption DEF CapIInv
<1>1. /\ slot \in Slots
      /\ free_slot_count - 1 \in FreeRegion
      /\ free_slot_count \in Nat \ {0}
      /\ free_slot_count - 1 \in 0 .. CapTableSize
  BY DEF lettuce_capability_create, CapTypeOK, Slots, FreeRegion
<1>2. /\ capability_table' = [capability_table EXCEPT
           ![slot] = [generation |-> capability_table[slot].generation,
                      active |-> TRUE, grant |-> grant]]
      /\ free_slot_count' = free_slot_count - 1
      /\ free_slots' = free_slots
      /\ since' = since
      /\ grant \in Grants
  BY CreatedGrant DEF lettuce_capability_create
<1> HIDE DEF slot, grant
<1>3. CapTypeOK'
  <2> DEFINE entry == [generation |-> capability_table[slot].generation,
                       active |-> TRUE, grant |-> grant]
  <2>0. entry \in Entries
    BY <1>1, <1>2 DEF CapTypeOK, Entries
  <2>1. capability_table' \in [Slots -> Entries]
    <3> HIDE DEF entry
    <3>1. capability_table' = [capability_table EXCEPT ![slot] = entry]
      BY <1>2 DEF entry
    <3> QED BY <1>1, <2>0, <3>1 DEF CapTypeOK
  <2>2. free_slot_count' \in 0 .. CapTableSize
    BY <1>1, <1>2, Zenon
  <2> QED BY <1>2, <2>1, <2>2 DEF CapTypeOK
<1>4. FreeListExact'
  <2>1. FreeRegion' = FreeRegion \ {free_slot_count - 1}
    BY <1>1, <1>2 DEF FreeRegion
  <2>2. \A i, j \in FreeRegion' : free_slots'[i] = free_slots'[j] => i = j
    BY <2>1, <1>2 DEF FreeListExact
  <2>3. slot \in FreeSet /\ FreeSet' = FreeSet \ {slot}
    BY <2>1, <1>1, <1>2 DEF FreeListExact, FreeSet, slot
  <2>4. ASSUME NEW s \in Slots
        PROVE  capability_table'[s].active <=> s \notin FreeSet'
    <3>1. CASE s = slot
      BY <3>1, <2>3, <1>1, <1>2 DEF CapTypeOK, Entries
    <3>2. CASE s # slot
      BY <3>2, <2>3, <1>1, <1>2 DEF CapTypeOK, FreeListExact
    <3> QED BY <3>1, <3>2
  <2> QED BY <2>2, <2>4 DEF FreeListExact
<1>5. GenerationClock'
  <2>1. \A s \in Slots :
          capability_table'[s].generation = capability_table[s].generation
    BY <1>1, <1>2 DEF CapTypeOK, Entries
  <2> QED BY <2>1, <1>2 DEF GenerationClock
<1>6. GrantWhileActive'
  <2> SUFFICES ASSUME NEW s \in Slots
               PROVE  IF capability_table'[s].active
                      THEN capability_table'[s].grant \in Grants
                      ELSE capability_table'[s].grant = NoGrant
    BY DEF GrantWhileActive
  <2>1. CASE s = slot
    BY <2>1, <1>1, <1>2 DEF CapTypeOK
  <2>2. CASE s # slot
    BY <2>2, <1>1, <1>2 DEF CapTypeOK, GrantWhileActive
  <2> QED BY <2>1, <2>2
<1> QED BY <1>3, <1>4, <1>5, <1>6

LEMMA RevokeIInv ==
    ASSUME CapIInv, NEW handle \in HandleValues,
           lettuce_capability_revoke(handle)
    PROVE  CapIInv'
<1> DEFINE slot == SlotOf(handle)
           gen == capability_table[slot].generation
<1> USE CapabilityAssumption DEF CapIInv
<1>1. /\ slot \in Slots
      /\ capability_table[slot].active
      /\ handle[1] = gen
      /\ gen \in Generations
  BY DecodedSlot DEF lettuce_capability_revoke, Live, CapTypeOK, Entries
<1>2. /\ free_slot_count \in Slots
      /\ FreeRegion' = FreeRegion \cup {free_slot_count}
      /\ free_slot_count \notin FreeRegion
      /\ FreeRegion \subseteq Slots
      /\ free_slot_count' \in 0 .. CapTableSize
  <2>1. free_slot_count < CapTableSize
    BY <1>1, RoomForRevoked
  <2>2. free_slot_count' = free_slot_count + 1
    BY DEF lettuce_capability_revoke
  <2>3. free_slot_count \in Nat
    BY DEF CapTypeOK
  <2> QED BY <2>1, <2>2, <2>3 DEF FreeRegion, Slots
<1>3. /\ capability_table' = [capability_table EXCEPT
           ![slot] = [generation |-> next_generation(gen),
                      active |-> FALSE, grant |-> NoGrant]]
      /\ free_slots' = [free_slots EXCEPT ![free_slot_count] = slot]
      /\ since' = [since EXCEPT ![slot] = Aged(since[slot], gen)]
  BY <1>1 DEF lettuce_capability_revoke
<1>4. next_generation(gen) \in Generations
  BY <1>1, NextGenerationType
<1> HIDE DEF slot, gen
<1>5. CapTypeOK'
  <2>1. capability_table' \in [Slots -> Entries]
    BY <1>1, <1>3, <1>4 DEF CapTypeOK, Entries
  <2>2. free_slots' \in [Slots -> Slots]
    BY <1>1, <1>3, Zenon DEF CapTypeOK
  <2>3. Aged(since[slot], gen) \in [Generations -> Nat \cup {Never}]
    BY <1>1 DEF CapTypeOK, Aged, Never
  <2>4. since' \in [Slots -> [Generations -> Nat \cup {Never}]]
    BY <1>1, <1>3, <2>3 DEF CapTypeOK
  <2> QED BY <1>2, <2>1, <2>2, <2>4 DEF CapTypeOK
<1>6. FreeListExact'
  <2>1. slot \notin FreeSet
    BY <1>1 DEF FreeListExact
  <2>2. /\ free_slots'[free_slot_count] = slot
        /\ \A i \in FreeRegion : free_slots'[i] = free_slots[i]
    BY <1>2, <1>3 DEF CapTypeOK
  <2>3. \A i, j \in FreeRegion' : free_slots'[i] = free_slots'[j] => i = j
    BY <1>2, <2>1, <2>2 DEF FreeListExact, FreeSet
  <2>4. FreeSet' = FreeSet \cup {slot}
    BY <1>2, <2>2 DEF FreeSet
  <2>5. \A s \in Slots : capability_table'[s].active <=> s \notin FreeSet'
    BY <1>1, <1>3, <2>4 DEF FreeListExact, CapTypeOK
  <2> QED BY <2>3, <2>5 DEF FreeListExact
<1>7. GenerationClock'
  <2> SUFFICES ASSUME NEW s \in Slots, NEW g \in Generations, since'[s][g] # Never
               PROVE  /\ since'[s][g] < MaxGeneration
                      /\ \/ capability_table'[s].generation = g + 1 + since'[s][g]
                         \/ capability_table'[s].generation
                              = g + 1 + since'[s][g] - MaxGeneration
    BY DEF GenerationClock
  <2>1. CASE s # slot
    BY <2>1, <1>3 DEF GenerationClock, CapTypeOK
  <2>2. CASE s = slot
    <3>1. /\ capability_table'[s].generation = next_generation(gen)
          /\ since'[s][g] = IF g = gen THEN 0
                            ELSE IF since[s][g] = Never THEN Never
                            ELSE since[s][g] + 1
      BY <2>2, <1>1, <1>3 DEF CapTypeOK, Aged
    <3>2. CASE g = gen
      BY <3>1, <3>2, <1>1 DEF next_generation, Generations
    <3>3. CASE g # gen
      <4>1. /\ since[s][g] # Never
            /\ since'[s][g] = since[s][g] + 1
        BY <3>1, <3>3
      <4>2. /\ since[s][g] < MaxGeneration
            /\ gen = g + 1 + since[s][g] \/ gen = g + 1 + since[s][g] - MaxGeneration
        BY <4>1, <2>2 DEF GenerationClock, gen
      <4>3. since[s][g] \in Nat
        BY <4>1 DEF CapTypeOK
      <4> QED BY <3>1, <3>3, <4>1, <4>2, <4>3, <1>1 DEF next_generation, Generations
    <3> QED BY <3>2, <3>3
  <2> QED BY <2>1, <2>2
<1>8. GrantWhileActive'
  BY <1>1, <1>3 DEF GrantWhileActive, CapTypeOK
<1> QED BY <1>5, <1>6, <1>7, <1>8

LEMMA NextIInv == CapIInv /\ [CapNext]_capVars => CapIInv'
<1> SUFFICES ASSUME CapIInv, [CapNext]_capVars PROVE CapIInv' OBVIOUS
<1>1. CASE UNCHANGED capVars
  BY <1>1 DEF capVars, CapIInv, CapTypeOK, FreeListExact, FreeRegion, FreeSet,
              GenerationClock, GrantWhileActive
<1>2. CASE CapChange
  BY <1>2, CreateIInv, RevokeIInv DEF CapChange
<1>3. CASE CapRefusal
  BY <1>1, <1>3 DEF CapRefusal, CreateRefused, RevokeRefused
<1> QED BY <1>1, <1>2, <1>3 DEF CapNext

\* The inductive invariant holds in every reachable state of the table.
THEOREM CapInductive == CapSpec => []CapIInv
BY InitIInv, NextIInv, PTL DEF CapSpec

\* Type correctness for every table size, the bound on free_slot_count at the
\* unchecked store of lettuce_capability_revoke included.
THEOREM CapTypeCorrect == CapSpec => []CapTypeOK
<1>1. CapIInv => CapTypeOK BY DEF CapIInv
<1> QED BY <1>1, CapInductive, PTL

\* For every table size the free stack lists exactly the inactive slots, each
\* once: no slot is handed out twice and none is lost.
THEOREM FreeListIsExact == CapSpec => []FreeListExact
<1>1. CapIInv => FreeListExact BY DEF CapIInv
<1> QED BY <1>1, CapInductive, PTL

\* For every generation width a revoked handle stays dead for MaxGeneration - 1
\* further revocations of its slot.
THEOREM RevokedHandlesStayDead == CapSpec => []RevokedStaysDead
<1>1. CapIInv => RevokedStaysDead
  <2> SUFFICES ASSUME CapIInv, NEW s \in Slots, NEW g \in Generations,
                      since[s][g] \in 0 .. MaxGeneration - 2
               PROVE  ~Live(make_handle(s, g))
    BY DEF RevokedStaysDead
  <2>1. SlotOf(make_handle(s, g)) = s /\ make_handle(s, g)[1] = g
    BY DEF SlotOf, make_handle, Slots
  <2>2. capability_table[s].generation # g
    BY CapabilityAssumption, SMTT(30)
       DEF CapIInv, CapTypeOK, GenerationClock, Never, Generations
  <2> QED BY <2>1, <2>2 DEF Live
<1> QED BY <1>1, CapInductive, PTL

-----------------------------------------------------------------------------
(***************************************************************************)
(* The table implements Authority, and its check decides it.               *)
(***************************************************************************)
LEMMA CreateRefines ==
    ASSUME CapIInv,
           NEW owner \in Services, NEW target \in Services,
           NEW operation \in Operations, NEW resource \in Resources,
           NEW permissions,
           lettuce_capability_create(owner, target, operation, permissions, resource)
    PROVE  Abstract!Next
<1> DEFINE slot == free_slots[free_slot_count - 1]
           gen == capability_table[slot].generation
           new == make_handle(slot, gen)
           grant == [owner |-> owner, target |-> target, operation |-> operation,
                     resource |-> resource, permissions |-> permissions]
<1>1. slot \in Slots /\ slot \in FreeSet
  BY CapabilityAssumption
     DEF lettuce_capability_create, CapIInv, CapTypeOK, Slots, FreeRegion, FreeSet
<1>2. ~capability_table[slot].active /\ gen \in Generations
  BY <1>1 DEF CapIInv, FreeListExact, CapTypeOK, Entries
<1>3. /\ capability_table' = [capability_table EXCEPT
           ![slot] = [generation |-> gen, active |-> TRUE, grant |-> grant]]
      /\ grant \in Grants
  BY CreatedGrant DEF lettuce_capability_create
<1>4. new \in Handles /\ SlotOf(new) = slot /\ new[1] = gen
  BY <1>1, <1>2, MadeHandle
<1>5. capability_table \in [Slots -> Entries]
  BY DEF CapIInv, CapTypeOK
<1> HIDE DEF slot, gen, new, grant
<1>6. authority[new] = NoGrant
  BY <1>2, <1>4 DEF authority, Live
<1>7. authority' = [authority EXCEPT ![new] = grant]
  <2>1. ASSUME NEW h \in Handles
        PROVE  authority'[h] = IF h = new THEN grant ELSE authority[h]
    <3>1. /\ h[1] \in Generations
          /\ SlotOf(h) \in Slots
          /\ h = make_handle(SlotOf(h), h[1])
      BY HandleParts
    <3>2. CASE SlotOf(h) # slot
      <4>1. capability_table'[SlotOf(h)] = capability_table[SlotOf(h)]
        BY <3>1, <3>2, <1>3, <1>5
      <4> QED BY <4>1, <3>2, <1>4 DEF authority, Live
    <3>3. CASE SlotOf(h) = slot /\ h[1] = gen
      <4>1. h = new
        BY <3>1, <3>3 DEF new
      <4>2. capability_table'[SlotOf(h)]
              = [generation |-> gen, active |-> TRUE, grant |-> grant]
        BY <3>3, <1>1, <1>3, <1>5
      <4> QED BY <4>1, <4>2, <3>3 DEF authority, Live
    <3>4. CASE SlotOf(h) = slot /\ h[1] # gen
      <4>1. h # new
        BY <3>4, <1>4
      <4>2. capability_table'[SlotOf(h)].generation = gen
        BY <3>4, <1>1, <1>3, <1>5
      <4> QED BY <4>1, <4>2, <3>4, <1>2 DEF authority, Live
    <3> QED BY <3>2, <3>3, <3>4
  <2> QED BY <2>1, Zenon DEF authority
<1> QED BY <1>3, <1>4, <1>6, <1>7, Zenon DEF Abstract!Next, Abstract!Grant

LEMMA RevokeRefines ==
    ASSUME CapIInv, NEW handle \in HandleValues, lettuce_capability_revoke(handle)
    PROVE  Abstract!Next
<1> DEFINE slot == SlotOf(handle)
           gen == capability_table[slot].generation
<1>1. /\ slot \in Slots
      /\ handle \in Handles
      /\ Live(handle)
  BY DecodedSlot, LiveIsHandle
     DEF lettuce_capability_revoke, CapIInv, CapTypeOK, TableOK
<1>2. /\ gen \in Generations
      /\ handle[1] = gen
      /\ capability_table[slot].grant \in Grants
  BY <1>1 DEF Live, CapIInv, CapTypeOK, Entries, GrantWhileActive
<1>3. capability_table' = [capability_table EXCEPT
        ![slot] = [generation |-> next_generation(gen),
                   active |-> FALSE, grant |-> NoGrant]]
  BY DEF lettuce_capability_revoke
<1>4. capability_table \in [Slots -> Entries]
  BY DEF CapIInv, CapTypeOK
<1> HIDE DEF gen
<1>5. authority[handle] # NoGrant
  BY <1>1, <1>2, NoGrantIsNone DEF authority
<1>6. authority' = [authority EXCEPT ![handle] = NoGrant]
  <2>1. ASSUME NEW h \in Handles
        PROVE  authority'[h] = IF h = handle THEN NoGrant ELSE authority[h]
    <3>1. /\ SlotOf(h) \in Slots
          /\ h = make_handle(SlotOf(h), h[1])
          /\ handle = make_handle(SlotOf(handle), handle[1])
      BY <1>1, HandleParts
    <3>2. CASE SlotOf(h) # slot
      <4>1. capability_table'[SlotOf(h)] = capability_table[SlotOf(h)]
        BY <3>1, <3>2, <1>3, <1>4
      <4> QED BY <4>1, <3>2 DEF authority, Live
    <3>3. CASE SlotOf(h) = slot
      <4>1. capability_table'[SlotOf(h)].active = FALSE
        BY <3>3, <1>1, <1>3, <1>4
      <4>2. authority'[h] = NoGrant
        BY <4>1 DEF authority, Live
      <4>3. h # handle => ~Live(h)
        BY <3>1, <3>3, <1>2 DEF Live, gen
      <4> QED BY <4>2, <4>3 DEF authority
    <3> QED BY <3>2, <3>3
  <2> QED BY <2>1, Zenon DEF authority
<1> QED BY <1>1, <1>5, <1>6, Zenon DEF Abstract!Next, Abstract!Revoke

\* For every table size and generation width the table implements Authority:
\* create and revoke each change the grant of exactly one handle.
THEOREM TableImplementsAuthority == CapSpec => ImplementsAuthority
<1>1. CapInit => Abstract!Init
  BY HandleParts DEF CapInit, Abstract!Init, Abstract!Idle, authority, Live
<1>2. CapIInv /\ [CapNext]_capVars => [Abstract!Next]_authority
  <2> SUFFICES ASSUME CapIInv, [CapNext]_capVars
               PROVE  Abstract!Next \/ UNCHANGED authority
    OBVIOUS
  <2>1. CASE UNCHANGED capVars
    BY <2>1 DEF capVars, authority, Live
  <2>2. CASE CapChange
    BY <2>2, CreateRefines, RevokeRefines DEF CapChange
  <2>3. CASE CapRefusal
    BY <2>1, <2>3, SMTT(30) DEF CapRefusal, CreateRefused, RevokeRefused
  <2> QED BY <2>1, <2>2, <2>3 DEF CapNext
<1> QED BY <1>1, <1>2, CapInductive, PTL
        DEF CapSpec, ImplementsAuthority, Abstract!Spec

\* For every table and every request, malformed handles included,
\* lettuce_capability_check answers what Authority's grants say.
THEOREM CheckIsExact == CapSpec => []CheckExact
<1>1. CapIInv => CheckExact
  <2> SUFFICES ASSUME CapIInv,
                      NEW caller \in ServiceIds, NEW target \in ServiceIds,
                      NEW operation \in OperationIds, NEW resource \in ResourceIds,
                      NEW handle \in HandleValues,
                      NEW permission \in SUBSET (PermissionBits \cup {UnknownBit})
               PROVE  lettuce_capability_check(caller, handle, target, operation,
                                               permission, resource)
                        <=> /\ handle \in Handles
                            /\ permission # {}
                            /\ \E g \in Grants :
                                 /\ authority[handle] = g
                                 /\ g.owner = caller /\ g.target = target
                                 /\ g.operation = operation /\ g.resource = resource
                                 /\ permission \subseteq g.permissions
    BY SMTT(30) DEF CheckExact
  <2>1. CASE handle \notin Handles
    BY <2>1, LiveIsHandle DEF lettuce_capability_check, CapIInv, CapTypeOK, TableOK
  <2>2. CASE handle \in Handles /\ ~Live(handle)
    BY <2>2, NoGrantIsNone DEF lettuce_capability_check, authority
  <2>3. CASE handle \in Handles /\ Live(handle)
    <3>1. authority[handle] = capability_table[SlotOf(handle)].grant
      BY <2>3 DEF authority
    <3>2. capability_table[SlotOf(handle)].grant \in Grants
      BY <2>3, HandleParts DEF Live, CapIInv, GrantWhileActive
    <3>3. decode_handle(handle)
      BY <2>3, CapabilityAssumption DEF Handles, Slots, decode_handle, Generations
    <3>4. \A g \in Grants : g.owner # InvalidId
      BY CapabilityAssumption DEF Grants
    <3> QED BY <2>3, <3>1, <3>2, <3>3, <3>4 DEF lettuce_capability_check
  <2> QED BY <2>1, <2>2, <2>3
<1> QED BY <1>1, CapInductive, PTL

-----------------------------------------------------------------------------
(***************************************************************************)
(* The shared buffers.                                                     *)
(***************************************************************************)
BufferRecords ==
    [generation : Generations, active : BOOLEAN, owner : ServiceIds, resource : ResourceIds,
     size : 0 .. BufferSize, READ : HandleValues, WRITE : HandleValues, data : ServiceIds]

Histories == [Generations -> Nat \cup {Never}]

\* How far each revoked handle of a slot is behind the slot's generation, as
\* GenerationClock has it for capabilities.
BufferClock(history, generation) ==
    \A g \in Generations :
      history[g] # Never => /\ history[g] < MaxGeneration
                            /\ \/ generation = g + 1 + history[g]
                               \/ generation = g + 1 + history[g] - MaxGeneration

\* What holds of one slot: its buffer, its history and when it was written.
GoodSlot(buffer, history, written) ==
    /\ buffer \in BufferRecords
    /\ history \in Histories
    /\ written \in 0 .. MaxGeneration
    /\ BufferClock(history, buffer.generation)
    /\ buffer.data # 0 => buffer.active /\ written = buffer.generation

BufferInv ==
    /\ buffers \in [BufferSlots -> BufferRecords]
    /\ bufferSince \in [BufferSlots -> Histories]
    /\ writtenIn \in [BufferSlots -> 0 .. MaxGeneration]
    /\ \A i \in BufferSlots : GoodSlot(buffers[i], bufferSince[i], writtenIn[i])
    /\ g_current_service_id \in ServiceIds

\* A revocation moves the clocks of a slot on by one.
LEMMA ClockTicks ==
    ASSUME NEW history \in Histories, NEW generation \in Generations,
           BufferClock(history, generation)
    PROVE  BufferClock(Aged(history, generation), next_generation(generation))
<1> DEFINE aged == Aged(history, generation)
<1> SUFFICES ASSUME NEW g \in Generations, aged[g] # Never
             PROVE  /\ aged[g] < MaxGeneration
                    /\ \/ next_generation(generation) = g + 1 + aged[g]
                       \/ next_generation(generation) = g + 1 + aged[g] - MaxGeneration
  BY DEF BufferClock
<1>1. aged[g] = IF g = generation THEN 0
                ELSE IF history[g] = Never THEN Never ELSE history[g] + 1
  BY DEF Aged
<1> HIDE DEF aged
<1>2. CASE g = generation
  BY <1>1, <1>2, CapabilityAssumption DEF next_generation, Generations
<1>3. CASE g # generation
  <2>1. history[g] # Never /\ aged[g] = history[g] + 1
    BY <1>1, <1>3
  <2>2. history[g] \in Nat
    BY <2>1 DEF Histories
  <2>3. /\ history[g] < MaxGeneration
        /\ \/ generation = g + 1 + history[g]
           \/ generation = g + 1 + history[g] - MaxGeneration
    BY <2>1 DEF BufferClock
  <2> QED BY <1>3, <2>1, <2>2, <2>3, CapabilityAssumption DEF next_generation, Generations
<1> QED BY <1>2, <1>3

\* A step that changes one slot, and leaves it good.
LEMMA SlotChanges ==
    ASSUME BufferInv, NEW i \in BufferSlots, NEW b, NEW h, NEW w, GoodSlot(b, h, w),
           buffers' = [buffers EXCEPT ![i] = b],
           bufferSince' = [bufferSince EXCEPT ![i] = h],
           writtenIn' = [writtenIn EXCEPT ![i] = w],
           g_current_service_id' \in ServiceIds
    PROVE  BufferInv'
<1>1. b \in BufferRecords /\ h \in Histories /\ w \in 0 .. MaxGeneration
  BY DEF GoodSlot
<1>2. /\ buffers' \in [BufferSlots -> BufferRecords]
      /\ bufferSince' \in [BufferSlots -> Histories]
      /\ writtenIn' \in [BufferSlots -> 0 .. MaxGeneration]
  BY <1>1 DEF BufferInv
<1>3. \A j \in BufferSlots :
        /\ buffers'[j] = IF j = i THEN b ELSE buffers[j]
        /\ bufferSince'[j] = IF j = i THEN h ELSE bufferSince[j]
        /\ writtenIn'[j] = IF j = i THEN w ELSE writtenIn[j]
  BY DEF BufferInv
<1>4. \A j \in BufferSlots : GoodSlot(buffers'[j], bufferSince'[j], writtenIn'[j])
  BY <1>3, Zenon DEF BufferInv
<1>5. \A j \in BufferSlots : GoodSlot(buffers[j], bufferSince[j], writtenIn[j])'
  BY <1>4, Zenon DEF GoodSlot, BufferClock
<1> QED BY <1>2, <1>5, Zenon DEF BufferInv

\* A slot number that decode_handle of buffer.c accepts is a buffer's.
LEMMA LiveBuffer ==
    ASSUME NEW handle \in BufferHandles, BufferLive(handle)
    PROVE  /\ handle[2] - 1 \in BufferSlots
           /\ buffers[handle[2] - 1].active
           /\ buffers[handle[2] - 1].generation = handle[1]
BY BufferAssumption DEF BufferHandles, BufferLive, buffer_decode, BufferSlots

\* What the three operations make of the slot they change.
LEMMA CreateStep ==
    ASSUME BufferInv, NEW owner \in Services, NEW resource \in Resources,
           NEW size \in {1, BufferSize}, NEW r \in AttachedHandles,
           NEW w \in AttachedHandles,
           lettuce_shared_buffer_create(owner, resource, size, r, w)
    PROVE  \E i \in BufferSlots, b \in BufferRecords :
             /\ ~buffers[i].active
             /\ buffers' = [buffers EXCEPT ![i] = b]
             /\ b.data = 0 /\ GoodSlot(b, bufferSince[i], writtenIn[i])
             /\ UNCHANGED <<bufferSince, writtenIn>>
<1>1. PICK i \in BufferSlots :
        /\ ~buffers[i].active
        /\ buffers' = [buffers EXCEPT
              ![i] = [generation |-> @.generation, active |-> TRUE, owner |-> owner,
                      resource |-> resource, size |-> size, READ |-> r,
                      WRITE |-> w, data |-> 0]]
  BY Zenon DEF lettuce_shared_buffer_create
<1> DEFINE b == [generation |-> buffers[i].generation, active |-> TRUE, owner |-> owner,
                 resource |-> resource, size |-> size, READ |-> r, WRITE |-> w, data |-> 0]
<1>2. buffers' = [buffers EXCEPT ![i] = b]
  BY <1>1 DEF BufferInv
<1>3. GoodSlot(buffers[i], bufferSince[i], writtenIn[i]) /\ buffers[i].generation \in Generations
  BY DEF BufferInv, BufferRecords
<1>4. /\ owner \in ServiceIds /\ resource \in ResourceIds /\ size \in 0 .. BufferSize
      /\ r \in HandleValues /\ w \in HandleValues /\ 0 \in ServiceIds
  <2>1. AttachedHandles \subseteq HandleValues
    BY CapabilityAssumption
       DEF AttachedHandles, Handles, HandleValues, Generations, Slots
  <2> QED BY <2>1, BufferAssumption DEF ServiceIds, ResourceIds, InvalidId
<1>5. b \in BufferRecords /\ b.generation = buffers[i].generation /\ b.data = 0
  BY <1>3, <1>4 DEF BufferRecords
<1> HIDE DEF b
<1>6. GoodSlot(b, bufferSince[i], writtenIn[i])
  BY <1>3, <1>5 DEF GoodSlot
<1> QED BY <1>1, <1>2, <1>5, <1>6, Zenon DEF lettuce_shared_buffer_create

LEMMA AccessStep ==
    ASSUME BufferInv, NEW handle \in BufferHandles, NEW capability,
           lettuce_shared_buffer_access(handle, capability)
    PROVE  LET i == handle[2] - 1
               b == [buffers[i] EXCEPT !.data = g_current_service_id]
           IN  /\ i \in BufferSlots
               /\ buffers' = [buffers EXCEPT ![i] = b]
               /\ writtenIn' = [writtenIn EXCEPT ![i] = buffers[i].generation]
               /\ bufferSince' = bufferSince
               /\ GoodSlot(b, bufferSince[i], buffers[i].generation)
<1> DEFINE i == handle[2] - 1
           b == [buffers[i] EXCEPT !.data = g_current_service_id]
<1>1. i \in BufferSlots /\ buffers[i].active
  BY LiveBuffer DEF lettuce_shared_buffer_access, AccessOK
<1>2. /\ buffers' = [buffers EXCEPT ![i].data = g_current_service_id]
      /\ writtenIn' = [writtenIn EXCEPT ![i] = buffers[i].generation]
      /\ bufferSince' = bufferSince
  BY DEF lettuce_shared_buffer_access
<1>3. buffers[i] \in BufferRecords /\ g_current_service_id \in ServiceIds
  BY <1>1 DEF BufferInv
<1> HIDE DEF i
<1>4. buffers' = [buffers EXCEPT ![i] = b]
  BY <1>1, <1>2 DEF BufferInv
<1>5. GoodSlot(buffers[i], bufferSince[i], writtenIn[i]) /\ buffers[i].generation \in Generations
  BY <1>1 DEF BufferInv, BufferRecords
<1>6. b \in BufferRecords /\ b.generation = buffers[i].generation /\ b.active = buffers[i].active
  BY <1>3 DEF BufferRecords
<1> HIDE DEF b
<1>7. buffers[i].generation \in 0 .. MaxGeneration
  BY <1>5, CapabilityAssumption DEF Generations
<1>8. GoodSlot(b, bufferSince[i], buffers[i].generation)
  BY <1>1, <1>5, <1>6, <1>7, Zenon DEF GoodSlot
<1> QED BY <1>1, <1>2, <1>4, <1>8 DEF b, i

LEMMA RevokeStep ==
    ASSUME BufferInv, NEW handle \in BufferHandles, lettuce_shared_buffer_revoke(handle)
    PROVE  LET i == handle[2] - 1 IN
           \E b : /\ i \in BufferSlots
                  /\ buffers[i].owner = g_current_service_id
                  /\ ~b.active /\ b.data = 0
                  /\ buffers' = [buffers EXCEPT ![i] = b]
                  /\ bufferSince' = [bufferSince EXCEPT ![i] = Aged(bufferSince[i], handle[1])]
                  /\ writtenIn' = writtenIn
                  /\ GoodSlot(b, Aged(bufferSince[i], handle[1]), writtenIn[i])
<1> DEFINE i == handle[2] - 1
           b1 == [buffers[i] EXCEPT !.active = FALSE]
           b2 == [b1 EXCEPT !.generation = next_generation(handle[1])]
           b == [b2 EXCEPT !.data = 0]
           h == Aged(bufferSince[i], handle[1])
<1>1. /\ i \in BufferSlots /\ buffers[i].active /\ buffers[i].generation = handle[1]
      /\ buffers[i].owner = g_current_service_id
  BY LiveBuffer DEF lettuce_shared_buffer_revoke, RevokeOK
<1>2. /\ buffers' = [buffers EXCEPT ![i] = [buffers[i] EXCEPT !.active = FALSE,
                          !.generation = next_generation(buffers[i].generation), !.data = 0]]
      /\ bufferSince' = [bufferSince EXCEPT ![i] = Aged(@, handle[1])]
      /\ writtenIn' = writtenIn
  BY DEF lettuce_shared_buffer_revoke, Retire
<1>3. /\ GoodSlot(buffers[i], bufferSince[i], writtenIn[i])
      /\ buffers[i] \in BufferRecords /\ bufferSince[i] \in Histories
  BY <1>1 DEF BufferInv
<1>4. handle[1] \in Generations /\ next_generation(handle[1]) \in Generations
  BY <1>1, <1>3, NextGenerationType DEF BufferRecords
<1> HIDE DEF i
<1>5. bufferSince' = [bufferSince EXCEPT ![i] = h]
  BY <1>1, <1>2 DEF BufferInv
<1>6. [buffers[i] EXCEPT !.active = FALSE,
          !.generation = next_generation(buffers[i].generation), !.data = 0] = b
  BY <1>1, <1>3 DEF BufferRecords
<1>7. buffers' = [buffers EXCEPT ![i] = b]
  BY <1>2, <1>6, Zenon
<1>8. b1 \in BufferRecords /\ ~b1.active
  BY <1>3, Zenon DEF BufferRecords
<1> HIDE DEF b1
<1>9. b2 \in BufferRecords /\ ~b2.active /\ b2.generation = next_generation(handle[1])
  BY <1>4, <1>8 DEF BufferRecords
<1> HIDE DEF b2
<1>10. /\ b \in BufferRecords /\ ~b.active /\ b.generation = next_generation(handle[1])
       /\ b.data = 0
  BY <1>9 DEF BufferRecords, ServiceIds, InvalidId
<1> HIDE DEF b
<1>11. BufferClock(h, b.generation)
  BY <1>1, <1>3, <1>4, <1>10, ClockTicks, SMTT(30) DEF GoodSlot
<1>12. h \in Histories
  BY <1>3, SMTT(30) DEF Aged, Histories, Never
<1> HIDE DEF h
<1>13. GoodSlot(b, h, writtenIn[i])
  BY <1>3, <1>10, <1>11, <1>12 DEF GoodSlot
<1> QED BY <1>1, <1>2, <1>5, <1>7, <1>10, <1>13, ZenonT(40) DEF h, i

LEMMA BufferStep ==
    ASSUME BufferInv, Next
    PROVE  BufferInv'
<1>1. ASSUME NEW owner \in Services, NEW resource \in Resources,
             NEW size \in {1, BufferSize}, NEW r \in AttachedHandles,
             NEW w \in AttachedHandles,
             lettuce_shared_buffer_create(owner, resource, size, r, w),
             UNCHANGED g_current_service_id
      PROVE  BufferInv'
  <2>1. PICK i \in BufferSlots, b \in BufferRecords :
          /\ buffers' = [buffers EXCEPT ![i] = b]
          /\ GoodSlot(b, bufferSince[i], writtenIn[i])
          /\ UNCHANGED <<bufferSince, writtenIn>>
    BY <1>1, CreateStep
  <2>2. /\ bufferSince' = [bufferSince EXCEPT ![i] = bufferSince[i]]
        /\ writtenIn' = [writtenIn EXCEPT ![i] = writtenIn[i]]
    BY <2>1 DEF BufferInv
  <2>3. g_current_service_id' \in ServiceIds
    BY <1>1 DEF BufferInv
  <2>4. GoodSlot(b, bufferSince[i], writtenIn[i]) /\ buffers' = [buffers EXCEPT ![i] = b]
    BY <2>1
  <2> QED BY <2>2, <2>3, <2>4, SlotChanges, ZenonT(40)
<1>2. ASSUME NEW handle \in BufferHandles, NEW capability,
             lettuce_shared_buffer_access(handle, capability), UNCHANGED g_current_service_id
      PROVE  BufferInv'
  <2> DEFINE i == handle[2] - 1
             b == [buffers[i] EXCEPT !.data = g_current_service_id]
  <2>1. /\ i \in BufferSlots
        /\ buffers' = [buffers EXCEPT ![i] = b]
        /\ writtenIn' = [writtenIn EXCEPT ![i] = buffers[i].generation]
        /\ bufferSince' = bufferSince
        /\ GoodSlot(b, bufferSince[i], buffers[i].generation)
    BY <1>2, AccessStep, Zenon
  <2> HIDE DEF i, b
  <2>2. bufferSince' = [bufferSince EXCEPT ![i] = bufferSince[i]]
    BY <2>1 DEF BufferInv
  <2>3. g_current_service_id' \in ServiceIds
    BY <1>2 DEF BufferInv
  <2> QED BY <2>1, <2>2, <2>3, SlotChanges, Zenon
<1>3. ASSUME NEW handle \in BufferHandles, lettuce_shared_buffer_revoke(handle),
             UNCHANGED g_current_service_id
      PROVE  BufferInv'
  <2> DEFINE i == handle[2] - 1
             h == Aged(bufferSince[i], handle[1])
  <2>1. PICK b : /\ i \in BufferSlots
                 /\ buffers' = [buffers EXCEPT ![i] = b]
                 /\ bufferSince' = [bufferSince EXCEPT ![i] = h]
                 /\ writtenIn' = writtenIn
                 /\ GoodSlot(b, h, writtenIn[i])
    BY <1>3, RevokeStep, Zenon
  <2> HIDE DEF i, h
  <2>2. writtenIn' = [writtenIn EXCEPT ![i] = writtenIn[i]]
    BY <2>1 DEF BufferInv
  <2>3. g_current_service_id' \in ServiceIds
    BY <1>3 DEF BufferInv
  <2> QED BY <2>1, <2>2, <2>3, SlotChanges, Zenon
<1>4. CASE UNCHANGED bufferVars /\ g_current_service_id' \in ServiceIds
  BY <1>4, Zenon DEF bufferVars, BufferInv, GoodSlot, BufferClock
<1>5. g_current_service_id \in ServiceIds
  BY DEF BufferInv
<1> QED BY <1>1, <1>2, <1>3, <1>4, <1>5, Zenon
        DEF Next, BufferNext, BufferQuery, set_current_service_id

LEMMA BufferInvariant == Spec => []BufferInv
<1>1. Init => BufferInv
  <2> SUFFICES ASSUME Init PROVE BufferInv
    OBVIOUS
  <2> DEFINE b == [generation |-> 1, active |-> FALSE, owner |-> 0, resource |-> 0, size |-> 0,
                   READ |-> <<0, 0>>, WRITE |-> <<0, 0>>, data |-> 0]
             h == [g \in Generations |-> Never]
  <2>1. /\ buffers = [i \in BufferSlots |-> b] /\ bufferSince = [i \in BufferSlots |-> h]
        /\ writtenIn = [i \in BufferSlots |-> 0] /\ g_current_service_id = 0
    BY DEF Init, lettuce_shared_buffer_init
  <2>2. /\ 1 \in Generations /\ 0 \in ServiceIds /\ 0 \in ResourceIds
        /\ 0 \in 0 .. BufferSize /\ 0 \in 0 .. MaxGeneration
        /\ <<0, 0>> \in HandleValues
    BY CapabilityAssumption, BufferAssumption
       DEF Generations, ServiceIds, ResourceIds, InvalidId, HandleValues
  <2>3. b \in BufferRecords /\ b.data = 0
    BY <2>2 DEF BufferRecords
  <2>4. h \in Histories /\ \A g \in Generations : h[g] = Never
    BY DEF Histories
  <2> HIDE DEF b, h
  <2>5. GoodSlot(b, h, 0)
    BY <2>2, <2>3, <2>4 DEF GoodSlot, BufferClock
  <2> QED BY <2>1, <2>2, <2>3, <2>4, <2>5, Zenon DEF BufferInv
<1>2. BufferInv /\ [Next]_vars => BufferInv'
  <2>1. BufferInv /\ UNCHANGED vars => BufferInv'
    BY ZenonT(40) DEF vars, bufferVars, BufferInv, GoodSlot, BufferClock
  <2> QED BY <2>1, BufferStep
<1> QED BY <1>1, <1>2, PTL DEF Spec

\* memory/shared/buffer.c: however buffers are created, written and revoked, in
\* whatever number, no payload outlives the generation it was written in.
THEOREM BuffersCarryNoResidue == Spec => []NoResidue
<1>1. BufferInv => NoResidue
  BY DEF BufferInv, GoodSlot, NoResidue
<1> QED BY <1>1, BufferInvariant, PTL

\* lettuce_shared_buffer_revoke: for every generation width, a revoked buffer
\* handle stays dead for MaxGeneration - 1 further revocations of its slot.
THEOREM RevokedBuffersStayDead == Spec => []RevokedBufferStaysDead
<1>1. BufferInv => RevokedBufferStaysDead
  <2> SUFFICES ASSUME BufferInv, NEW i \in BufferSlots, NEW g \in Generations,
                      bufferSince[i][g] \in 0 .. MaxGeneration - 2
               PROVE  ~BufferLive(<<g, i + 1>>)
    BY DEF RevokedBufferStaysDead
  <2>1. BufferClock(bufferSince[i], buffers[i].generation)
    BY DEF BufferInv, GoodSlot
  <2>2. buffers[i].generation # g
    BY <2>1, CapabilityAssumption DEF BufferClock, Never, Generations
  <2> QED BY <2>2 DEF BufferLive, BufferSlots
<1> QED BY <1>1, BufferInvariant, PTL

LEMMA TableInvariant == Spec => []TableOK
<1>1. Init => TableOK
  BY TableInit DEF Init
<1>2. TableOK /\ [Next]_vars => TableOK'
  <2>1. [Next]_vars => [CapNext]_capVars
    BY Zenon DEF Next, vars, CapNext, set_current_service_id
  <2> QED BY <2>1, TableNext
<1> QED BY <1>1, <1>2, PTL DEF Spec

\* What a step can make of slot i, with the operation that does it.
LEMMA SlotSteps ==
    ASSUME BufferInv, [Next]_vars, NEW i \in BufferSlots
    PROVE  \/ buffers'[i] = buffers[i]
           \/ ~buffers[i].active /\ buffers'[i].data = 0
           \/ \E handle \in BufferHandles, capability \in HandleValues :
                /\ i = handle[2] - 1
                /\ AccessOK(g_current_service_id, handle, capability, "WRITE")
                /\ buffers'[i] = [buffers[i] EXCEPT !.data = g_current_service_id]
           \/ /\ buffers[i].owner = g_current_service_id
              /\ ~buffers'[i].active /\ buffers'[i].data = 0
<1>1. ASSUME NEW owner \in Services, NEW resource \in Resources,
             NEW size \in {1, BufferSize}, NEW r \in AttachedHandles,
             NEW w \in AttachedHandles,
             lettuce_shared_buffer_create(owner, resource, size, r, w)
      PROVE  buffers'[i] = buffers[i] \/ (~buffers[i].active /\ buffers'[i].data = 0)
  <2>1. PICK j \in BufferSlots, b \in BufferRecords :
          ~buffers[j].active /\ buffers' = [buffers EXCEPT ![j] = b] /\ b.data = 0
    BY <1>1, CreateStep
  <2> QED BY <2>1 DEF BufferInv
<1>2. ASSUME NEW handle \in BufferHandles, NEW capability \in HandleValues,
             lettuce_shared_buffer_access(handle, capability), buffers'[i] # buffers[i]
      PROVE  /\ i = handle[2] - 1
             /\ AccessOK(g_current_service_id, handle, capability, "WRITE")
             /\ buffers'[i] = [buffers[i] EXCEPT !.data = g_current_service_id]
  <2> DEFINE j == handle[2] - 1
             b == [buffers[j] EXCEPT !.data = g_current_service_id]
  <2>1. j \in BufferSlots /\ buffers' = [buffers EXCEPT ![j] = b]
    BY <1>2, AccessStep, Zenon
  <2> HIDE DEF j, b
  <2>2. i = j /\ buffers'[i] = b
    BY <1>2, <2>1 DEF BufferInv
  <2> QED BY <1>2, <2>2, Zenon DEF lettuce_shared_buffer_access, j, b
<1>3. ASSUME NEW handle \in BufferHandles, lettuce_shared_buffer_revoke(handle),
             buffers'[i] # buffers[i]
      PROVE  /\ buffers[i].owner = g_current_service_id
             /\ ~buffers'[i].active /\ buffers'[i].data = 0
  <2> DEFINE j == handle[2] - 1
  <2>1. PICK b : /\ j \in BufferSlots
                 /\ buffers[j].owner = g_current_service_id
                 /\ ~b.active /\ b.data = 0
                 /\ buffers' = [buffers EXCEPT ![j] = b]
    BY <1>3, RevokeStep, Zenon
  <2> HIDE DEF j
  <2>2. i = j /\ buffers'[i] = b
    BY <1>3, <2>1 DEF BufferInv
  <2> QED BY <2>1, <2>2, Zenon
<1>4. CASE buffers' = buffers
  BY <1>4
<1> QED BY <1>1, <1>2, <1>3, <1>4, Zenon
        DEF Next, BufferNext, BufferQuery, set_current_service_id, vars, bufferVars

\* lettuce_shared_buffer_access: every write is covered, when it happens, by an
\* unrevoked WRITE grant of the writer that the owner registered.
THEOREM WritesHoldAuthority == Spec => WritesAreAuthorized
<1> DEFINE Step == \A i \in BufferSlots :
         buffers'[i].data \notin {0, buffers[i].data}
           => /\ buffers[i].active
              /\ buffers[i].WRITE \in Handles
              /\ LET grant == authority[buffers[i].WRITE] IN
                   /\ grant.owner = buffers'[i].data
                   /\ grant.owner = g_current_service_id
                   /\ grant.target = buffers[i].owner
                   /\ grant.resource = buffers[i].resource
                   /\ "WRITE" \in grant.permissions
<1>1. TableOK /\ BufferInv /\ [Next]_vars => Step
  <2> SUFFICES ASSUME TableOK, BufferInv, [Next]_vars, NEW i \in BufferSlots,
                      buffers'[i].data \notin {0, buffers[i].data}
               PROVE  /\ buffers[i].active
                      /\ buffers[i].WRITE \in Handles
                      /\ LET grant == authority[buffers[i].WRITE] IN
                           /\ grant.owner = buffers'[i].data
                           /\ grant.owner = g_current_service_id
                           /\ grant.target = buffers[i].owner
                           /\ grant.resource = buffers[i].resource
                           /\ "WRITE" \in grant.permissions
    BY Zenon
  <2> HIDE DEF Step
  <2>1. PICK handle \in BufferHandles, capability \in HandleValues :
          /\ i = handle[2] - 1
          /\ AccessOK(g_current_service_id, handle, capability, "WRITE")
          /\ buffers'[i] = [buffers[i] EXCEPT !.data = g_current_service_id]
    BY SlotSteps, Zenon
  <2>2. /\ BufferLive(handle) /\ capability = buffers[i].WRITE
        /\ lettuce_capability_check(g_current_service_id, capability, buffers[i].owner,
                                    WriteOperation, {"WRITE"}, buffers[i].resource)
    BY <2>1 DEF AccessOK, OperationOf
  <2>3. buffers[i].active
    BY <2>1, <2>2, LiveBuffer, SMTT(30)
  <2>4. g_current_service_id # InvalidId
    BY <2>2, SMTT(30) DEF lettuce_capability_check
  <2>5. /\ capability \in Handles
        /\ authority[capability].owner = g_current_service_id
        /\ authority[capability].target = buffers[i].owner
        /\ authority[capability].resource = buffers[i].resource
        /\ {"WRITE"} \subseteq authority[capability].permissions
    BY <2>2, <2>4, CheckMeaning
  <2>6. buffers'[i].data = g_current_service_id
    BY <2>1 DEF BufferInv, BufferRecords
  <2> QED BY <2>2, <2>3, <2>5, <2>6
<1> QED BY <1>1, TableInvariant, BufferInvariant, PTL DEF Spec, WritesAreAuthorized

\* memory/shared/buffer.c: a buffer in use is its owner's to end, and nobody's
\* to hand over.
THEOREM OwnersDecide == Spec => OwnerDecides
<1> DEFINE Step == \A i \in BufferSlots :
             buffers[i].active
               => \/ [buffers'[i] EXCEPT !.data = 0] = [buffers[i] EXCEPT !.data = 0]
                  \/ ~buffers'[i].active /\ g_current_service_id = buffers[i].owner
<1>1. BufferInv /\ [Next]_vars => Step
  <2> SUFFICES ASSUME BufferInv, [Next]_vars, NEW i \in BufferSlots, buffers[i].active,
                      ~(~buffers'[i].active /\ g_current_service_id = buffers[i].owner)
               PROVE  [buffers'[i] EXCEPT !.data = 0] = [buffers[i] EXCEPT !.data = 0]
    BY Zenon
  <2>1. \/ buffers'[i] = buffers[i]
        \/ buffers'[i] = [buffers[i] EXCEPT !.data = g_current_service_id]
    BY SlotSteps, Zenon
  <2> QED BY <2>1 DEF BufferInv, BufferRecords
<1> QED BY <1>1, BufferInvariant, PTL DEF Spec, OwnerDecides
=============================================================================
