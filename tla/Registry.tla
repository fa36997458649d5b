------------------------------ MODULE Registry ------------------------------
(***************************************************************************)
(* The service registry (kernel/main/kernel.c) and the operation dispatch  *)
(* table inside each of its entries (kernel/main/dispatch.c).              *)
(*                                                                         *)
(* A descriptor's flags word is reduced to its ACTIVE bit, the only one    *)
(* the kernel reads.  The domain is stored as given: nothing checks it.    *)
(***************************************************************************)
EXTENDS Integers

CONSTANTS ServiceTableSize,   \* LETTUCE_SERVICE_TABLE_SIZE (256)
          DispatchLimit,      \* LETTUCE_DISPATCH_OPERATION_LIMIT (64)
          LayerL4,            \* the highest layer (4)
          DomainIds,          \* domains a descriptor may name
          EntryPoints,        \* entry functions
          NULL

ASSUME RegistryAssumption ==
    /\ ServiceTableSize \in Nat \ {0}
    /\ DispatchLimit \in Nat \ {0}
    /\ LayerL4 \in Nat
    /\ NULL \notin EntryPoints

VARIABLE service_table   \* service id -> descriptor and dispatch entries

\* Values a caller can pass, the first one out of range included.
ServiceArgs == 0 .. ServiceTableSize
OperationArgs == 0 .. DispatchLimit
LayerArgs == 0 .. LayerL4 + 1

Descriptors == [id : ServiceArgs, layer : LayerArgs, domain : DomainIds,
                active : BOOLEAN]
\* (LettuceServiceDescriptor){0} and (LettuceDispatchEntry){0}
ZeroDescriptor == [id |-> 0, layer |-> 0, domain |-> 0, active |-> FALSE]
ZeroDispatch == [entry |-> NULL, active |-> FALSE]
ZeroOperations == [operation \in 0 .. DispatchLimit - 1 |-> ZeroDispatch]

lettuce_service_registry_init ==
    service_table = [s \in 0 .. ServiceTableSize - 1 |->
                       [descriptor |-> ZeroDescriptor,
                        operations |-> ZeroOperations]]

\* The lookup functions answer NULL unless this holds.
Registered(service_id) ==
    /\ service_id # 0
    /\ service_id < ServiceTableSize
    /\ service_table[service_id].descriptor.id = service_id

Descriptor(service_id) == service_table[service_id].descriptor

lettuce_service_registry_is_active(service_id) ==
    Registered(service_id) /\ Descriptor(service_id).active

RegisterAnyLayer(descriptor) ==        \* mutant: the layer is not looked at
    /\ descriptor.id # 0
    /\ descriptor.id < ServiceTableSize
    /\ Descriptor(descriptor.id).id = 0
CanRegister(descriptor) ==
    /\ descriptor.id # 0
    /\ descriptor.id < ServiceTableSize
    /\ descriptor.layer <= LayerL4
    /\ Descriptor(descriptor.id).id = 0

lettuce_service_registry_register(descriptor) ==
    /\ CanRegister(descriptor)
    /\ service_table' =
         [service_table EXCEPT ![descriptor.id].descriptor = descriptor]

\* mutant: the operations of the service stay
UnregisterKeepingOperations(service_id) ==
    service_table' = [service_table EXCEPT ![service_id].descriptor = ZeroDescriptor]
ClearEntry(service_id) ==
    service_table' = [service_table EXCEPT
      ![service_id] = [descriptor |-> ZeroDescriptor, operations |-> ZeroOperations]]

CanUnregister(service_id) ==
    /\ service_id # 0
    /\ service_id < ServiceTableSize
    /\ Descriptor(service_id).id # 0

lettuce_service_registry_unregister(service_id) ==
    CanUnregister(service_id) /\ ClearEntry(service_id)

-----------------------------------------------------------------------------
ValidOperation(operation_id) == operation_id # 0 /\ operation_id < DispatchLimit

CanMap(service_id, operation_id, entry) ==
    /\ service_id # 0
    /\ ValidOperation(operation_id)
    /\ entry # NULL
    /\ lettuce_service_registry_is_active(service_id)
    /\ ~service_table[service_id].operations[operation_id].active

lettuce_dispatch_register(service_id, operation_id, entry) ==
    /\ CanMap(service_id, operation_id, entry)
    /\ service_table' = [service_table EXCEPT
         ![service_id].operations[operation_id] = [entry |-> entry, active |-> TRUE]]

\* lettuce_dispatch_lookup answers NULL unless this holds.
Mapped(service_id, operation_id) ==
    /\ ValidOperation(operation_id)
    /\ Registered(service_id)
    /\ service_table[service_id].operations[operation_id].active

lettuce_dispatch_unregister(service_id, operation_id) ==
    /\ Mapped(service_id, operation_id)
    /\ service_table' = [service_table EXCEPT
         ![service_id].operations[operation_id] = ZeroDispatch]

\* The four operations where they return true, and where they return false.
RegistryChange ==
    \/ \E descriptor \in Descriptors : lettuce_service_registry_register(descriptor)
    \/ \E service_id \in ServiceArgs : lettuce_service_registry_unregister(service_id)
    \/ \E service_id \in ServiceArgs, operation_id \in OperationArgs :
         \/ \E entry \in EntryPoints \cup {NULL} :
              lettuce_dispatch_register(service_id, operation_id, entry)
         \/ lettuce_dispatch_unregister(service_id, operation_id)

RegistryRefusal ==
    /\ ~ /\ \A descriptor \in Descriptors : CanRegister(descriptor)
         /\ \A service_id \in ServiceArgs : CanUnregister(service_id)
         /\ \A service_id \in ServiceArgs, operation_id \in OperationArgs :
              /\ \A entry \in EntryPoints \cup {NULL} :
                   CanMap(service_id, operation_id, entry)
              /\ Mapped(service_id, operation_id)
    /\ UNCHANGED service_table

RegistryNext == RegistryChange \/ RegistryRefusal

-----------------------------------------------------------------------------
\* Table slot s holds either the zero descriptor or one that names s itself,
\* with a layer that exists; this is what lets lookups index by id.
RegistryTypeOK ==
    /\ DOMAIN service_table = 0 .. ServiceTableSize - 1
    /\ \A s \in DOMAIN service_table :
         /\ Descriptor(s) \in Descriptors \cup {ZeroDescriptor}
         /\ Descriptor(s).id \in {0, s}
         /\ Descriptor(s).layer <= LayerL4
         /\ service_table[s].operations \in
              [0 .. DispatchLimit - 1 ->
                 [entry : EntryPoints \cup {NULL}, active : BOOLEAN]]

\* "An operation cannot float independently of its owner": an active dispatch
\* entry has a function and belongs to a registered service with the ACTIVE
\* flag, also after the service was unregistered and its id taken again.
DispatchBacked ==
    \A s \in 0 .. ServiceTableSize - 1, operation \in 0 .. DispatchLimit - 1 :
      service_table[s].operations[operation].active
        => /\ service_table[s].operations[operation].entry # NULL
           /\ ValidOperation(operation)
           /\ lettuce_service_registry_is_active(s)
=============================================================================
