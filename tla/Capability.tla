----------------------------- MODULE Capability -----------------------------
(***************************************************************************)
(* The kernel capability table (kernel/main/capability.c): a fixed table   *)
(* of entries, a stack of free slots kept in an array with a count, and    *)
(* handles that carry a slot and the generation the slot had when the      *)
(* capability was created.                                                 *)
(*                                                                         *)
(* A handle is the pair <<generation, slot + 1>> that the C code packs     *)
(* into the high and the low half of 32 bits; <<0, 0>> is the handle 0.    *)
(* A permission mask is a set of bits.                                     *)
(***************************************************************************)
EXTENDS Integers, FiniteSets

CONSTANTS CapTableSize,    \* LETTUCE_CAPABILITY_TABLE_SIZE (4096)
          MaxGeneration,   \* largest value of the 16-bit generation (65535)
          Services, Operations, Resources,   \* valid ids
          PermissionBits,  \* LETTUCE_CAPABILITY_KNOWN_PERMISSIONS
          UnknownBit       \* stands for the bits outside the known ones

InvalidId == 0   \* LETTUCE_SERVICE_ID_INVALID, _OPERATION_, _RESOURCE_

ASSUME CapabilityAssumption ==
    /\ CapTableSize \in Nat \ {0}
    /\ MaxGeneration \in Nat \ {0}
    /\ InvalidId \notin Services \cup Operations \cup Resources
    /\ UnknownBit \notin PermissionBits

VARIABLES
    capability_table,   \* slot -> LettuceCapabilityEntry
    free_slots,         \* the array; only the first free_slot_count count
    free_slot_count,
    since               \* history: revocations of the slot since the handle
                        \* was revoked, Never if it was not

capVars == <<capability_table, free_slots, free_slot_count, since>>

Slots == 0 .. CapTableSize - 1
Generations == 1 .. MaxGeneration
Never == -1

ServiceIds == Services \cup {InvalidId}
OperationIds == Operations \cup {InvalidId}
ResourceIds == Resources \cup {InvalidId}

Grants == [owner : Services, target : Services, operation : Operations,
           resource : Resources, permissions : (SUBSET PermissionBits) \ {{}}]

NoGrant == [owner |-> InvalidId, target |-> InvalidId, operation |-> InvalidId,
            resource |-> InvalidId, permissions |-> {}]

Entries == [generation : Generations, active : BOOLEAN,
            grant : Grants \cup {NoGrant}]

-----------------------------------------------------------------------------
(***************************************************************************)
(* Handles.                                                                *)
(***************************************************************************)
Handles == Generations \X {s + 1 : s \in Slots}

\* Every value a caller can pass, in and out of range.
HandleValues == (0 .. MaxGeneration) \X (0 .. CapTableSize + 1)

make_handle(slot, generation) == <<generation, slot + 1>>

decode_handle(handle) ==
    /\ handle # <<0, 0>>
    /\ handle[2] # 0
    /\ handle[2] - 1 < CapTableSize

SlotOf(handle) == handle[2] - 1

\* The entry test shared by revoke and check.
LiveIgnoringActive(handle) ==              \* mutant: generation alone decides
    capability_table[SlotOf(handle)].generation = handle[1]
LiveIgnoringGeneration(handle) ==          \* mutant: any generation will do
    capability_table[SlotOf(handle)].active
Live(handle) ==
    LET entry == capability_table[SlotOf(handle)] IN
    /\ entry.active
    /\ entry.generation = handle[1]

\* uint16_t increment that skips 0.
NextGenerationStuck(generation) == generation     \* mutant: no increment
NextGenerationZero(generation) ==          \* mutant: 0 is not skipped
    (generation + 1) % (MaxGeneration + 1)
next_generation(generation) ==
    IF generation = MaxGeneration THEN 1 ELSE generation + 1

-----------------------------------------------------------------------------
CapInit ==
    /\ capability_table =
         [s \in Slots |-> [generation |-> 1, active |-> FALSE, grant |-> NoGrant]]
    /\ free_slots = [i \in Slots |-> CapTableSize - 1 - i]
    /\ free_slot_count = CapTableSize
    /\ since = [s \in Slots |-> [g \in Generations |-> Never]]

\* The arguments lettuce_capability_create accepts.
CreateArgumentsOK(owner, target, operation, permissions, resource) ==
    /\ owner # InvalidId
    /\ target # InvalidId
    /\ operation # InvalidId
    /\ resource # InvalidId
    /\ permissions # {}
    /\ permissions \subseteq PermissionBits

lettuce_capability_create(owner, target, operation, permissions, resource) ==
    /\ CreateArgumentsOK(owner, target, operation, permissions, resource)
    /\ free_slot_count # 0
    /\ LET slot == free_slots[free_slot_count - 1] IN
         capability_table' = [capability_table EXCEPT
            ![slot] = [generation |-> @.generation, active |-> TRUE,
                       grant |-> [owner |-> owner, target |-> target,
                                  operation |-> operation, resource |-> resource,
                                  permissions |-> permissions]]]
    /\ free_slot_count' = free_slot_count - 1
    /\ UNCHANGED <<free_slots, since>>

\* Returns LETTUCE_CAPABILITY_INVALID.
CreateRefused(owner, target, operation, permissions, resource) ==
    /\ \/ ~CreateArgumentsOK(owner, target, operation, permissions, resource)
       \/ free_slot_count = 0
    /\ UNCHANGED capVars

\* How the history ages when the handle of this slot and generation dies.
Aged(history, generation) ==
    [g \in Generations |-> IF g = generation THEN 0
                           ELSE IF history[g] = Never THEN Never
                           ELSE history[g] + 1]

lettuce_capability_revoke(handle) ==
    LET slot == SlotOf(handle) IN
    /\ decode_handle(handle)
    /\ Live(handle)
    /\ capability_table' = [capability_table EXCEPT
         ![slot] = [generation |-> next_generation(@.generation),
                    active |-> FALSE, grant |-> NoGrant]]
    /\ free_slots' = [free_slots EXCEPT ![free_slot_count] = slot]
    /\ free_slot_count' = free_slot_count + 1
    /\ since' = [since EXCEPT ![slot] = Aged(@, handle[1])]

\* Returns false.
RevokeRefused(handle) ==
    /\ ~(decode_handle(handle) /\ Live(handle))
    /\ UNCHANGED capVars

\* mutant: the owner is not compared with the caller
CheckAnyCaller(caller, handle, target, operation, permission, resource) ==
    /\ decode_handle(handle)
    /\ Live(handle)
    /\ permission # {}
    /\ LET grant == capability_table[SlotOf(handle)].grant IN
         /\ <<grant.target, grant.operation, grant.resource>>
              = <<target, operation, resource>>
         /\ permission \subseteq grant.permissions

\* caller is what current_service_id() returns.
lettuce_capability_check(caller, handle, target, operation, permission, resource) ==
    /\ permission # {}
    /\ decode_handle(handle)
    /\ Live(handle)
    /\ caller # InvalidId
    /\ LET grant == capability_table[SlotOf(handle)].grant IN
         /\ grant.owner = caller
         /\ grant.target = target
         /\ grant.operation = operation
         /\ grant.resource = resource
         /\ permission \subseteq grant.permissions

\* The steps that change the table.  The arguments that create and revoke
\* refuse, malformed ones included, are the other steps of CapNext.
CapChange ==
    \/ \E owner, target \in Services, operation \in Operations,
          resource \in Resources, permissions \in SUBSET PermissionBits :
         lettuce_capability_create(owner, target, operation, permissions, resource)
    \/ \E handle \in HandleValues : lettuce_capability_revoke(handle)

CapRefusal ==
    \/ \E owner, target \in ServiceIds, operation \in OperationIds,
          resource \in ResourceIds,
          permissions \in SUBSET (PermissionBits \cup {UnknownBit}) :
         CreateRefused(owner, target, operation, permissions, resource)
    \/ \E handle \in HandleValues : RevokeRefused(handle)

CapNext == CapChange \/ CapRefusal

CapSpec == CapInit /\ [][CapNext]_capVars

-----------------------------------------------------------------------------
\* The kernel's state stays in the ranges its C types and tables give it; in
\* particular free_slot_count never passes the end of free_slots, although
\* lettuce_capability_revoke stores at free_slots[free_slot_count++] unchecked.
CapTypeOK ==
    /\ capability_table \in [Slots -> Entries]
    /\ free_slots \in [Slots -> Slots]
    /\ free_slot_count \in 0 .. CapTableSize
    /\ since \in [Slots -> [Generations -> Nat \cup {Never}]]

FreeRegion == 0 .. free_slot_count - 1
FreeSet == {free_slots[i] : i \in FreeRegion}

\* The live part of free_slots lists every inactive slot exactly once and no
\* active one ("pushes the slot back exactly once"), so create can neither
\* hand out a slot in use nor lose one.
FreeListExact ==
    /\ \A i, j \in FreeRegion : free_slots[i] = free_slots[j] => i = j
    /\ \A s \in Slots : capability_table[s].active <=> s \notin FreeSet

\* A handle that lettuce_capability_revoke accepted is not live again, however
\* often its slot is reused, before the slot's generation has gone round: not
\* until MaxGeneration - 1 further revocations of that slot.
RevokedStaysDead ==
    \A s \in Slots, g \in Generations :
      since[s][g] \in 0 .. MaxGeneration - 2 => ~Live(make_handle(s, g))

\* The documentation's unqualified form of the same: a handle once revoked is
\* never live again.
RevokedUnusable ==
    \A s \in Slots, g \in Generations :
      since[s][g] # Never => ~Live(make_handle(s, g))

\* The grants the table stands for.
authority ==
    [h \in Handles |-> IF Live(h) THEN capability_table[SlotOf(h)].grant
                       ELSE NoGrant]

Abstract == INSTANCE Authority

\* Every step of the table is a step of Authority: create gives one idle handle
\* its grant, revoke removes one handle's grant, and no other handle changes.
ImplementsAuthority == Abstract!Spec

\* lettuce_capability_check says yes to exactly the requests some live grant
\* covers: the owner itself, asking for that target, operation and resource
\* and a non-empty part of the permissions; malformed handles never pass.
CheckExact ==
    \A caller, target \in ServiceIds, operation \in OperationIds,
       resource \in ResourceIds, handle \in HandleValues,
       permission \in SUBSET (PermissionBits \cup {UnknownBit}) :
      lettuce_capability_check(caller, handle, target, operation, permission, resource)
        <=> /\ handle \in Handles
            /\ permission # {}
            /\ \E g \in Grants :
                 /\ authority[handle] = g
                 /\ g.owner = caller /\ g.target = target
                 /\ g.operation = operation /\ g.resource = resource
                 /\ permission \subseteq g.permissions
=============================================================================
