---------------------------- MODULE SharedBuffer ----------------------------
(***************************************************************************)
(* Shared buffers (memory/shared/buffer.c) over the capability table.  A   *)
(* buffer remembers two capability handles, given unchecked at creation;   *)
(* every access checks the one it is about against the table, for the      *)
(* service that runs now.  Handles are <<generation, slot + 1>>.           *)
(*                                                                         *)
(* The payload is reduced to who wrote it last (0 for zeroed), and the     *)
(* pointer that a write access returns is used at once: pointers kept past *)
(* a revocation are outside the API, as the comment in buffer.c says.      *)
(***************************************************************************)
EXTENDS Capability

CONSTANTS BufferCount,      \* LETTUCE_SHARED_BUFFER_COUNT (16)
          BufferSize,       \* LETTUCE_SHARED_BUFFER_SIZE (4096)
          ReadOperation, WriteOperation   \* LETTUCE_SHARED_READ_OPERATION, _WRITE_

ASSUME BufferAssumption ==
    /\ BufferCount \in Nat \ {0}
    /\ BufferSize \in Nat \ {0}
    /\ {"READ", "WRITE"} \subseteq PermissionBits
    /\ {ReadOperation, WriteOperation} \subseteq Operations

VARIABLES
    buffers,                \* slot -> SharedBuffer
    g_current_service_id,   \* kernel/main/context.c
    bufferSince,            \* history, as since in Capability
    writtenIn               \* history: generation the payload was written in

bufferVars == <<buffers, bufferSince, writtenIn>>
vars == <<capVars, bufferVars, g_current_service_id>>

BufferSlots == 0 .. BufferCount - 1
BufferHandles == (0 .. MaxGeneration) \X (0 .. BufferCount + 1)

\* What an owner may register: a handle the table can issue, now or later, or
\* <<0, 0>>, which stands for all those that no lookup accepts.
AttachedHandles == Handles \cup {<<0, 0>>}

lettuce_shared_buffer_init ==
    buffers = [i \in BufferSlots |->
                 [generation |-> 1, active |-> FALSE, owner |-> 0, resource |-> 0,
                  size |-> 0, READ |-> <<0, 0>>, WRITE |-> <<0, 0>>, data |-> 0]]

Init ==
    /\ CapInit
    /\ lettuce_shared_buffer_init
    /\ g_current_service_id = 0
    /\ bufferSince = [i \in BufferSlots |-> [g \in Generations |-> Never]]
    /\ writtenIn = [i \in BufferSlots |-> 0]

\* decode_handle of buffer.c
buffer_decode(handle) == handle[2] # 0 /\ handle[2] - 1 < BufferCount

BufferLiveIgnoringGeneration(handle) ==                     \* mutant
    buffer_decode(handle) /\ buffers[handle[2] - 1].active
BufferLive(handle) ==
    /\ buffer_decode(handle)
    /\ buffers[handle[2] - 1].active
    /\ buffers[handle[2] - 1].generation = handle[1]

CreateOK(owner, resource, size) ==
    /\ owner # 0 /\ resource # 0
    /\ size \in 1 .. BufferSize
    /\ g_current_service_id = owner
    /\ \E i \in BufferSlots : ~buffers[i].active

lettuce_shared_buffer_create(owner, resource, size, read_capability, write_capability) ==
    /\ CreateOK(owner, resource, size)
    /\ \E i \in BufferSlots :
         /\ ~buffers[i].active
         /\ \A j \in BufferSlots : j < i => buffers[j].active
         /\ buffers' = [buffers EXCEPT
              ![i] = [generation |-> @.generation, active |-> TRUE, owner |-> owner,
                      resource |-> resource, size |-> size, READ |-> read_capability,
                      WRITE |-> write_capability, data |-> 0]]
    /\ UNCHANGED <<bufferSince, writtenIn>>

OperationOf(kind) == IF kind = "WRITE" THEN WriteOperation ELSE ReadOperation

\* mutant: the handle need only be the registered one
AccessByHandle(caller, handle, capability, kind) ==
    BufferLive(handle) /\ capability = buffers[handle[2] - 1][kind]
\* lettuce_shared_buffer_access returns OK; kind, the argument write, names the
\* permission that is needed and the registered capability.
AccessOK(caller, handle, capability, kind) ==
    LET buffer == buffers[handle[2] - 1] IN
    /\ BufferLive(handle)
    /\ capability = buffer[kind]
    /\ lettuce_capability_check(caller, capability, buffer.owner,
                                OperationOf(kind), {kind}, buffer.resource)

\* A write access and the write through the pointer it returned.
lettuce_shared_buffer_access(handle, capability) ==
    LET slot == handle[2] - 1 IN
    /\ AccessOK(g_current_service_id, handle, capability, "WRITE")
    /\ buffers' = [buffers EXCEPT ![slot].data = g_current_service_id]
    /\ writtenIn' = [writtenIn EXCEPT ![slot] = buffers[slot].generation]
    /\ UNCHANGED bufferSince

RevokeKeepingData(slot) ==                \* mutant: payload survives revocation
    buffers' = [buffers EXCEPT ![slot].active = FALSE,
                               ![slot].generation = next_generation(@)]
Retire(slot) ==
    LET buffer == buffers[slot] IN
    buffers' = [buffers EXCEPT ![slot] =
      [buffer EXCEPT !.active = FALSE, !.generation = next_generation(buffer.generation),
                     !.data = 0]]

RevokeByAnyone(handle) == BufferLive(handle)          \* mutant: owner not asked
RevokeOK(handle) ==
    BufferLive(handle) /\ g_current_service_id = buffers[handle[2] - 1].owner

lettuce_shared_buffer_revoke(handle) ==
    LET slot == handle[2] - 1 IN
    /\ RevokeOK(handle)
    /\ Retire(slot)
    /\ bufferSince' = [bufferSince EXCEPT ![slot] = Aged(@, handle[1])]
    /\ UNCHANGED writtenIn

\* Read accesses, and the calls that return an error: nothing changes.
BufferQuery ==
    /\ \/ \E handle \in BufferHandles, capability \in HandleValues :
            AccessOK(g_current_service_id, handle, capability, "READ")
       \/ ~ \A handle \in BufferHandles, capability \in HandleValues, kind \in {"READ", "WRITE"} :
              AccessOK(g_current_service_id, handle, capability, kind)
       \/ ~ \A owner \in ServiceIds, resource \in ResourceIds, size \in {0, 1, BufferSize + 1} :
              CreateOK(owner, resource, size)
       \/ ~ \A handle \in BufferHandles : RevokeOK(handle)
    /\ UNCHANGED bufferVars

BufferNext ==
    \/ \E owner \in Services, resource \in Resources, size \in {1, BufferSize},
          r, w \in AttachedHandles :
         lettuce_shared_buffer_create(owner, resource, size, r, w)
    \/ \E handle \in BufferHandles :
         \/ \E capability \in HandleValues :
              lettuce_shared_buffer_access(handle, capability)
         \/ lettuce_shared_buffer_revoke(handle)
    \/ BufferQuery

\* Another service runs: a call gate or the scheduler changed the identity.
set_current_service_id(service_id) ==
    g_current_service_id' = service_id /\ UNCHANGED <<capVars, bufferVars>>

Next ==
    \/ BufferNext /\ UNCHANGED <<capVars, g_current_service_id>>
    \/ CapChange /\ UNCHANGED <<bufferVars, g_current_service_id>>
    \/ \E service_id \in ServiceIds : set_current_service_id(service_id)

Spec == Init /\ [][Next]_vars

-----------------------------------------------------------------------------
\* "Buffers are zeroed on reuse and revocation": a payload that is not zero
\* was written during the buffer's present life, so nobody reads what was
\* written under an earlier generation of the slot.
NoResidue ==
    \A i \in BufferSlots :
      buffers[i].data # 0 => buffers[i].active /\ writtenIn[i] = buffers[i].generation

\* A buffer handle its owner revoked resolves no more until the slot's
\* generation has gone round, however often the slot is reused.
RevokedBufferStaysDead ==
    \A i \in BufferSlots, g \in Generations :
      bufferSince[i][g] \in 0 .. MaxGeneration - 2 => ~BufferLive(<<g, i + 1>>)

\* The payload changes hands only by authority that holds at that moment: the
\* service that writes owns an unrevoked WRITE grant on the buffer owner's
\* resource, and it is the very capability the owner registered; everything
\* else that changes a payload zeroes it.
WritesAreAuthorized ==
    [][\A i \in BufferSlots :
         buffers'[i].data \notin {0, buffers[i].data}
           => /\ buffers[i].active
              /\ buffers[i].WRITE \in Handles
              /\ LET grant == authority[buffers[i].WRITE] IN
                   /\ grant.owner = buffers'[i].data
                   /\ grant.owner = g_current_service_id
                   /\ grant.target = buffers[i].owner
                   /\ grant.resource = buffers[i].resource
                   /\ "WRITE" \in grant.permissions]_vars

\* A buffer that is in use keeps its owner, resource and capabilities, and only
\* a step of the owner itself ends its life.
OwnerDecides ==
    [][\A i \in BufferSlots :
         buffers[i].active
           => \/ [buffers'[i] EXCEPT !.data = 0] = [buffers[i] EXCEPT !.data = 0]
              \/ ~buffers'[i].active /\ g_current_service_id = buffers[i].owner]_vars
=============================================================================
