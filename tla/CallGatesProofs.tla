--------------------------- MODULE CallGatesProofs --------------------------
(***************************************************************************)
(* Proofs about CallGates, for every set of services, operations and       *)
(* requests, every size of the tables and every depth of nesting.          *)
(***************************************************************************)
EXTENDS CallGates, ValidateProofs

\* The context a call returns to is the one the frame below entered, and the
\* outermost call returns to the kernel's.
ContextInv ==
    /\ \E S : frames \in Seq(S)
    /\ ContextFollowsCalls
    /\ frames # <<>> => frames[1].service_id = 0 /\ frames[1].domain_id = 0

LEMMA EnterKeepsContext ==
    ASSUME ContextInv, NEW service_id, NEW domain_id,
           lettuce_context_enter(service_id, domain_id)
    PROVE  ContextInv'
<1> DEFINE top == [service_id |-> g_current_service_id, domain_id |-> g_current_domain,
                   callee |-> service_id, home |-> domain_id]
<1>1. PICK S : frames \in Seq(S)
  BY DEF ContextInv
<1>2. frames' = Append(frames, top) /\ g_current_service_id' = service_id
      /\ (domain_id # 0 => g_current_domain' = domain_id)
  BY DEF lettuce_context_enter, lettuce_protection_enter
<1>3. /\ top.service_id = g_current_service_id /\ top.domain_id = g_current_domain
      /\ top.callee = service_id /\ top.home = domain_id
  OBVIOUS
<1> HIDE DEF top
<1>4. frames \in Seq(S \cup {top}) /\ frames' \in Seq(S \cup {top})
  BY <1>1, <1>2
<1>5. /\ Len(frames) \in Nat /\ Len(frames') = Len(frames) + 1
      /\ \A i \in 1 .. Len(frames) : frames'[i] = frames[i]
      /\ frames'[Len(frames) + 1] = top
  BY <1>2, <1>4
<1>6. frames' # <<>> /\ (frames = <<>> <=> Len(frames) = 0)
  BY <1>4, <1>5
<1>7. frames'[1].service_id = 0 /\ frames'[1].domain_id = 0
  BY <1>3, <1>5, <1>6 DEF ContextInv, ContextFollowsCalls
<1>8. ASSUME NEW i \in 1 .. Len(frames')
      PROVE  /\ ContextIn(i)'.service_id = frames'[i].callee
             /\ frames'[i].home # 0 => ContextIn(i)'.domain_id = frames'[i].home
  <2>1. CASE i = Len(frames')
    BY <1>2, <1>3, <1>5, <2>1 DEF ContextIn
  <2>2. CASE i = Len(frames)
    <3>1. ContextIn(i)' = ContextIn(i)
      BY <1>3, <1>5, <2>2 DEF ContextIn
    <3> QED BY <1>5, <1>8, <2>2, <3>1 DEF ContextInv, ContextFollowsCalls
  <2>3. CASE i < Len(frames)
    <3>1. ContextIn(i)' = ContextIn(i)
      BY <1>5, <2>3 DEF ContextIn
    <3> QED BY <1>5, <1>8, <2>3, <3>1 DEF ContextInv, ContextFollowsCalls
  <2> QED BY <1>5, <2>1, <2>2, <2>3
<1> QED BY <1>4, <1>6, <1>7, <1>8 DEF ContextInv, ContextFollowsCalls

LEMMA LeaveKeepsContext ==
    ASSUME ContextInv, EntryReturns
    PROVE  ContextInv'
<1> DEFINE n == Len(frames)
<1>1. PICK S : frames \in Seq(S)
  BY DEF ContextInv
<1>2. n \in Nat /\ n > 0
  BY <1>1 DEF EntryReturns
<1>3. /\ frames' = SubSeq(frames, 1, n - 1)
      /\ g_current_service_id' = frames[n].service_id /\ g_current_domain' = frames[n].domain_id
  BY DEF EntryReturns, lettuce_context_leave, lettuce_protection_leave
<1>4. /\ frames' \in Seq(S) /\ Len(frames') = n - 1
      /\ \A i \in 1 .. n - 1 : frames'[i] = frames[i]
  BY <1>1, <1>2, <1>3, Popped
<1>5. frames' = <<>> <=> n = 1
  BY <1>2, <1>4
<1> HIDE DEF n
<1>6. frames' = <<>> => g_current_service_id' = 0 /\ g_current_domain' = 0
  BY <1>2, <1>3, <1>5 DEF ContextInv, EntryReturns
<1>7. frames' # <<>> => frames'[1].service_id = 0 /\ frames'[1].domain_id = 0
  BY <1>2, <1>4, <1>5 DEF ContextInv, EntryReturns
<1>8. ASSUME NEW i \in 1 .. Len(frames')
      PROVE  /\ ContextIn(i)'.service_id = frames'[i].callee
             /\ frames'[i].home # 0 => ContextIn(i)'.domain_id = frames'[i].home
  <2>1. ContextIn(i)' = ContextIn(i)
    BY <1>2, <1>3, <1>4 DEF ContextIn, n
  <2> QED BY <1>2, <1>4, <1>8, <2>1 DEF ContextInv, ContextFollowsCalls, n
<1> QED BY <1>4, <1>6, <1>7, <1>8 DEF ContextInv, ContextFollowsCalls

\* Only calls and returns touch the context; what the kernel does meanwhile to
\* services, operations and capabilities does not.
LEMMA ContextStep ==
    ASSUME ContextInv, GateNext
    PROVE  ContextInv'
<1>1. CASE UNCHANGED contextVars
  BY <1>1 DEF contextVars, ContextInv, ContextFollowsCalls, ContextIn
<1>2. CASE \E service_id, domain_id : lettuce_context_enter(service_id, domain_id)
  BY <1>2, EnterKeepsContext
<1>3. CASE EntryReturns
  BY <1>3, LeaveKeepsContext
<1> QED
  BY <1>1, <1>2, <1>3, Zenon
     DEF GateNext, Calls, Administration, Start, lettuce_same_layer_gate,
         lettuce_cross_layer_gate, lettuce_elevator_gate, GateEnters, GateRefuses

LEMMA ContextInvariant == GateSpec => []ContextInv
<1>1. GateInit => ContextInv
  <2> SUFFICES ASSUME GateInit PROVE ContextInv
    OBVIOUS
  <2>1. frames = <<>> /\ frames \in Seq({}) /\ Len(frames) = 0
    BY DEF GateInit
  <2> QED BY <2>1 DEF GateInit, ContextInv, ContextFollowsCalls
<1>2. ContextInv /\ [GateNext]_gateVars => ContextInv'
  <2>1. ContextInv /\ UNCHANGED gateVars => ContextInv'
    BY DEF gateVars, contextVars, ContextInv, ContextFollowsCalls, ContextIn
  <2> QED BY <2>1, ContextStep
<1> QED BY <1>1, <1>2, PTL DEF GateSpec

\* lettuce_context_enter and lettuce_context_leave (context.c): calls of any
\* depth, through any gates, leave every caller its own identity and domain.
THEOREM ContextIsRestored == GateSpec => []ContextFollowsCalls
<1>1. ContextInv => ContextFollowsCalls
  BY DEF ContextInv
<1> QED BY <1>1, ContextInvariant, PTL

-----------------------------------------------------------------------------
(***************************************************************************)
(* The registry.                                                           *)
(***************************************************************************)
Dispatches == [entry : EntryPoints \cup {NULL}, active : BOOLEAN]
TableEntries == [descriptor : Descriptors \cup {ZeroDescriptor},
                 operations : [0 .. DispatchLimit - 1 -> Dispatches]]

\* What slot s may hold.  A free slot has no active operation: this is what a
\* service finds when it is registered there.
GoodEntry(s, e) ==
    /\ e \in TableEntries
    /\ e.descriptor.id \in {0, s}
    /\ e.descriptor.layer <= LayerL4
    /\ \A op \in 0 .. DispatchLimit - 1 : e.operations[op].active
         => /\ e.operations[op].entry # NULL /\ op # 0
            /\ s # 0 /\ e.descriptor.id = s /\ e.descriptor.active

RegistryInv ==
    /\ service_table \in [0 .. ServiceTableSize - 1 -> TableEntries]
    /\ \A s \in 0 .. ServiceTableSize - 1 : GoodEntry(s, service_table[s])

LEMMA EntryReplaced ==
    ASSUME RegistryInv, NEW s \in 0 .. ServiceTableSize - 1, NEW e, GoodEntry(s, e),
           service_table' = [service_table EXCEPT ![s] = e]
    PROVE  RegistryInv'
<1>1. e \in TableEntries
  BY DEF GoodEntry
<1>2. \A u \in 0 .. ServiceTableSize - 1 : service_table'[u] = IF u = s THEN e ELSE service_table[u]
  BY DEF RegistryInv
<1>3. service_table' \in [0 .. ServiceTableSize - 1 -> TableEntries]
  BY <1>1 DEF RegistryInv
<1> HIDE DEF GoodEntry
<1>4. \A u \in 0 .. ServiceTableSize - 1 : GoodEntry(u, service_table'[u])
  BY <1>2, Zenon DEF RegistryInv
<1> QED BY <1>3, <1>4, Zenon DEF RegistryInv, GoodEntry

LEMMA ZeroDispatchInactive == ZeroDispatch \in Dispatches /\ ~ZeroDispatch.active
  BY Zenon DEF ZeroDispatch, Dispatches

LEMMA ZeroEntryGood ==
    ASSUME NEW s \in 0 .. ServiceTableSize - 1
    PROVE  GoodEntry(s, [descriptor |-> ZeroDescriptor, operations |-> ZeroOperations])
<1> DEFINE e == [descriptor |-> ZeroDescriptor, operations |-> ZeroOperations]
<1>1. e.descriptor = ZeroDescriptor /\ e.operations = ZeroOperations
  OBVIOUS
<1>2. ZeroDescriptor.id = 0 /\ ZeroDescriptor.layer = 0
  BY DEF ZeroDescriptor
<1>3. ZeroOperations \in [0 .. DispatchLimit - 1 -> Dispatches]
  BY ZeroDispatchInactive DEF ZeroOperations
<1>4. \A op \in 0 .. DispatchLimit - 1 : ~ZeroOperations[op].active
  BY ZeroDispatchInactive, Zenon DEF ZeroOperations
<1>5. e \in TableEntries
  BY <1>3 DEF TableEntries
<1> HIDE DEF e
<1> QED BY <1>1, <1>2, <1>4, <1>5, RegistryAssumption DEF GoodEntry, e

\* A descriptor goes only where none is, and so where no operation is active.
LEMMA RegisterGood ==
    ASSUME RegistryInv, NEW d \in Descriptors, lettuce_service_registry_register(d)
    PROVE  RegistryInv'
<1> DEFINE s == d.id
           old == service_table[s]
           e == [old EXCEPT !.descriptor = d]
<1>1. s \in 0 .. ServiceTableSize - 1 /\ s # 0 /\ d.layer <= LayerL4 /\ old.descriptor.id = 0
  BY RegistryAssumption
     DEF lettuce_service_registry_register, CanRegister, Descriptor, Descriptors, ServiceArgs
<1>2. GoodEntry(s, old) /\ old \in TableEntries
  BY <1>1 DEF RegistryInv
<1>3. service_table' = [service_table EXCEPT ![s] = e]
  BY <1>1 DEF lettuce_service_registry_register, RegistryInv
<1> HIDE DEF s, old
<1>4. e \in TableEntries /\ e.descriptor = d /\ e.operations = old.operations
  BY <1>2 DEF TableEntries
<1>5. \A op \in 0 .. DispatchLimit - 1 : ~old.operations[op].active
  BY <1>1, <1>2 DEF GoodEntry
<1> HIDE DEF e
<1>6. GoodEntry(s, e)
  BY <1>1, <1>4, <1>5 DEF GoodEntry, s
<1> QED BY <1>1, <1>3, <1>6, EntryReplaced, Zenon

\* An operation is added to or removed from a slot.
LEMMA DispatchGood ==
    ASSUME RegistryInv, NEW s \in 0 .. ServiceTableSize - 1, NEW op \in 0 .. DispatchLimit - 1,
           NEW r \in Dispatches,
           r.active => /\ r.entry # NULL /\ op # 0 /\ s # 0
                       /\ Descriptor(s).id = s /\ Descriptor(s).active,
           service_table' = [service_table EXCEPT ![s].operations[op] = r]
    PROVE  RegistryInv'
<1> DEFINE old == service_table[s]
           ops == [old.operations EXCEPT ![op] = r]
           e == [old EXCEPT !.operations = ops]
<1>1. GoodEntry(s, old) /\ old \in TableEntries
  BY DEF RegistryInv
<1>2. service_table' = [service_table EXCEPT ![s] = e]
  BY DEF RegistryInv
<1>3. r.active => r.entry # NULL /\ op # 0 /\ s # 0 /\ old.descriptor.id = s /\ old.descriptor.active
  BY Zenon DEF Descriptor
<1> HIDE DEF old
<1>4. /\ ops \in [0 .. DispatchLimit - 1 -> Dispatches]
      /\ \A o \in 0 .. DispatchLimit - 1 : ops[o] = IF o = op THEN r ELSE old.operations[o]
  BY <1>1, Zenon DEF TableEntries
<1> HIDE DEF ops
<1>5. e \in TableEntries /\ e.descriptor = old.descriptor /\ e.operations = ops
  BY <1>1, <1>4 DEF TableEntries
<1> HIDE DEF e
<1>6. \A o \in 0 .. DispatchLimit - 1 : e.operations[o].active
        => /\ e.operations[o].entry # NULL /\ o # 0
           /\ s # 0 /\ e.descriptor.id = s /\ e.descriptor.active
  BY <1>1, <1>3, <1>4, <1>5, Zenon DEF GoodEntry
<1>7. e.descriptor.id \in {0, s} /\ e.descriptor.layer <= LayerL4
  BY <1>1, <1>5 DEF GoodEntry
<1>8. GoodEntry(s, e)
  BY <1>5, <1>6, <1>7, Zenon DEF GoodEntry
<1> QED BY <1>2, <1>8, EntryReplaced, Zenon

LEMMA RegistryStep ==
    ASSUME RegistryInv, RegistryNext
    PROVE  RegistryInv'
<1>1. CASE \E d \in Descriptors : lettuce_service_registry_register(d)
  BY <1>1, RegisterGood
<1>2. ASSUME NEW s \in ServiceArgs, lettuce_service_registry_unregister(s) PROVE RegistryInv'
  <2>1. s \in 0 .. ServiceTableSize - 1
    BY <1>2, RegistryAssumption
       DEF ServiceArgs, lettuce_service_registry_unregister, CanUnregister
  <2> QED BY <1>2, <2>1, ZeroEntryGood, EntryReplaced, Zenon
             DEF lettuce_service_registry_unregister, ClearEntry
<1>3. ASSUME NEW s \in ServiceArgs, NEW op \in OperationArgs, NEW entry \in EntryPoints \cup {NULL},
             lettuce_dispatch_register(s, op, entry)
      PROVE  RegistryInv'
  <2> DEFINE r == [entry |-> entry, active |-> TRUE]
  <2>1. /\ s \in 0 .. ServiceTableSize - 1 /\ op \in 0 .. DispatchLimit - 1
        /\ s # 0 /\ op # 0 /\ entry # NULL
    BY <1>3, RegistryAssumption
       DEF ServiceArgs, OperationArgs, lettuce_dispatch_register, CanMap, ValidOperation,
           lettuce_service_registry_is_active, Registered
  <2>2. Descriptor(s).id = s /\ Descriptor(s).active
    BY <1>3, Zenon DEF lettuce_dispatch_register, CanMap, lettuce_service_registry_is_active,
                       Registered, Descriptor
  <2>3. service_table' = [service_table EXCEPT ![s].operations[op] = r]
    BY <1>3, Zenon DEF lettuce_dispatch_register
  <2>4. r \in Dispatches /\ r.entry = entry
    BY Zenon DEF Dispatches
  <2> HIDE DEF r
  <2> QED BY <2>1, <2>2, <2>3, <2>4, DispatchGood, Zenon
<1>4. ASSUME NEW s \in ServiceArgs, NEW op \in OperationArgs, lettuce_dispatch_unregister(s, op)
      PROVE  RegistryInv'
  <2>1. s \in 0 .. ServiceTableSize - 1 /\ op \in 0 .. DispatchLimit - 1
    BY <1>4, RegistryAssumption
       DEF ServiceArgs, OperationArgs, lettuce_dispatch_unregister, Mapped, ValidOperation,
           Registered
  <2>2. service_table' = [service_table EXCEPT ![s].operations[op] = ZeroDispatch]
    BY <1>4, Zenon DEF lettuce_dispatch_unregister
  <2> QED BY <2>1, <2>2, ZeroDispatchInactive, DispatchGood, Zenon
<1>5. CASE RegistryRefusal
  BY <1>5, Zenon DEF RegistryRefusal, RegistryInv
<1> QED
  BY <1>1, <1>2, <1>3, <1>4, <1>5, Zenon DEF RegistryNext, RegistryChange

LEMMA RegistryInvariant == GateSpec => []RegistryInv
<1>1. GateInit => RegistryInv
  <2> SUFFICES ASSUME GateInit PROVE RegistryInv
    OBVIOUS
  <2> DEFINE zero == [descriptor |-> ZeroDescriptor, operations |-> ZeroOperations]
  <2>1. service_table = [s \in 0 .. ServiceTableSize - 1 |-> zero]
    BY DEF GateInit, lettuce_service_registry_init
  <2>2. \A s \in 0 .. ServiceTableSize - 1 : GoodEntry(s, zero)
    BY ZeroEntryGood
  <2> HIDE DEF zero
  <2>3. \A s \in 0 .. ServiceTableSize - 1 : zero \in TableEntries
    BY <2>2 DEF GoodEntry
  <2> QED BY <2>1, <2>2, <2>3, Zenon DEF RegistryInv
<1>2. RegistryInv /\ [GateNext]_gateVars => RegistryInv'
  <2>1. [GateNext]_gateVars => RegistryNext \/ UNCHANGED service_table
    BY Zenon DEF GateNext, Calls, Administration, gateVars
  <2>2. RegistryInv /\ UNCHANGED service_table => RegistryInv'
    BY Zenon DEF RegistryInv
  <2> QED BY <2>1, <2>2, RegistryStep
<1> QED BY <1>1, <1>2, PTL DEF GateSpec

LEMMA BackedByRegistry == RegistryInv => DispatchBacked
<1> SUFFICES ASSUME RegistryInv,
                    NEW s \in 0 .. ServiceTableSize - 1, NEW op \in 0 .. DispatchLimit - 1,
                    service_table[s].operations[op].active
             PROVE  /\ service_table[s].operations[op].entry # NULL
                    /\ ValidOperation(op)
                    /\ lettuce_service_registry_is_active(s)
  BY Zenon DEF DispatchBacked
<1>1. /\ service_table[s].operations[op].entry # NULL /\ op # 0 /\ s # 0
      /\ service_table[s].descriptor.id = s /\ service_table[s].descriptor.active
  BY Zenon DEF RegistryInv, GoodEntry
<1>2. s < ServiceTableSize /\ op < DispatchLimit
  BY RegistryAssumption
<1> QED BY <1>1, <1>2, Zenon
           DEF ValidOperation, lettuce_service_registry_is_active, Registered, Descriptor

\* kernel.c and dispatch.c: no order of registering and unregistering services
\* and operations leaves an operation callable without its service.
THEOREM OperationsAreBacked == GateSpec => []DispatchBacked
  BY BackedByRegistry, RegistryInvariant, PTL

\* kernel.c: slot s of the registry only ever holds a descriptor that names s,
\* on a layer that exists, whatever descriptors are offered.
THEOREM RegistryTypeCorrect == GateSpec => []RegistryTypeOK
<1>1. RegistryInv => RegistryTypeOK
  <2> SUFFICES ASSUME RegistryInv, NEW s \in 0 .. ServiceTableSize - 1
               PROVE  /\ Descriptor(s) \in Descriptors \cup {ZeroDescriptor}
                      /\ Descriptor(s).id \in {0, s}
                      /\ Descriptor(s).layer <= LayerL4
                      /\ service_table[s].operations \in
                           [0 .. DispatchLimit - 1 ->
                              [entry : EntryPoints \cup {NULL}, active : BOOLEAN]]
    BY DEF RegistryTypeOK, RegistryInv
  <2>1. GoodEntry(s, service_table[s])
    BY DEF RegistryInv
  <2> QED BY <2>1 DEF GoodEntry, TableEntries, Dispatches, Descriptor
<1> QED BY <1>1, RegistryInvariant, PTL

-----------------------------------------------------------------------------
(***************************************************************************)
(* What the gates decide.                                                  *)
(***************************************************************************)
LEMMA TableInvariant == GateSpec => []TableOK
<1>1. GateInit => TableOK
  BY TableInit DEF GateInit
<1>2. TableOK /\ [GateNext]_gateVars => TableOK'
  <2>1. [GateNext]_gateVars => [CapNext]_capVars
    BY Zenon DEF GateNext, Calls, Administration, gateVars, CapNext
  <2> QED BY <2>1, TableNext
<1> QED BY <1>1, <1>2, PTL DEF GateSpec

\* ipc/same_layer, ipc/cross_layer and ipc/elevator: for every table, registry
\* and request, well formed or not, each gate answers OK exactly when its rule,
\* stated on Authority's grants, holds.
THEOREM GatesDecideByTheRule == GateSpec => []GateDecides
<1>1. TableOK /\ RegistryInv => GateDecides
  <2> SUFFICES ASSUME TableOK, RegistryInv, NEW gate \in Gates, NEW caller \in ServiceArgs,
                      NEW request \in CallRequests
               PROVE  GateStatus(gate, caller, request) = "OK" <=> MayEnter(gate, caller, request)
    BY Zenon DEF GateDecides
  <2>1. request \in Requests /\ DispatchBacked
    BY GateAssumption, BackedByRegistry
  <2> QED BY <2>1, GateRule, Zenon
<1> QED BY <1>1, TableInvariant, RegistryInvariant, PTL

\* ipc/elevator/elevator.c and the other gates: nobody starts to run on a grant
\* that is gone or an operation that is unmapped at that moment.
THEOREM IdentityIsGated == GateSpec => IdentityChangesThroughGates
<1> DEFINE Step == g_current_service_id' # g_current_service_id
                     => \/ frames = <<>> \/ Len(frames') < Len(frames)
                        \/ \E gate \in Gates, request \in CallRequests :
                             /\ MayEnter(gate, g_current_service_id, request)
                             /\ request.target = g_current_service_id'
<1>1. TableOK /\ RegistryInv /\ ContextInv /\ [GateNext]_gateVars => Step
  <2> SUFFICES ASSUME TableOK, RegistryInv, ContextInv, [GateNext]_gateVars,
                      g_current_service_id' # g_current_service_id, frames # <<>>,
                      ~(Len(frames') < Len(frames))
               PROVE  \E gate \in Gates, request \in CallRequests :
                        /\ MayEnter(gate, g_current_service_id, request)
                        /\ request.target = g_current_service_id'
    OBVIOUS
  <2>1. ~EntryReturns
    <3>1. PICK S : frames \in Seq(S)
      BY DEF ContextInv
    <3> QED BY <3>1 DEF EntryReturns, lettuce_context_leave
  <2>2. PICK gate \in Gates, request \in CallRequests : GateEnters(gate, request)
    BY <2>1, Zenon
       DEF GateNext, Calls, Administration, gateVars, contextVars, Start, GateRefuses, Gates,
           lettuce_same_layer_gate, lettuce_cross_layer_gate, lettuce_elevator_gate
  <2>3. MayEnter(gate, g_current_service_id, request)
    BY <2>2, GateRule, BackedByRegistry, GateAssumption DEF GateEnters
  <2>4. request.target = g_current_service_id'
    BY <2>2, <2>3 DEF GateEnters, lettuce_context_enter, MayEnter,
                      lettuce_service_registry_is_active, Registered, Descriptor
  <2> QED BY <2>3, <2>4
<1> QED BY <1>1, TableInvariant, RegistryInvariant, ContextInvariant, PTL
        DEF GateSpec, IdentityChangesThroughGates
=============================================================================
