----------------------------- MODULE El0Proofs ------------------------------
(***************************************************************************)
(* Proofs about El0, for every set of services, domains and requests, and  *)
(* every size of the tables and of the context stack.                      *)
(***************************************************************************)
EXTENDS El0, ValidateProofs

LEMMA DomainAIsKnown == DomainA \in KnownDomains
<1>1. Len(ArchDomains) \in Nat /\ Len(ArchDomains) # 0
  BY MmuAssumption
<1> QED
  BY <1>1 DEF DomainA, KnownDomains

BootIds == {s.id : s \in BootServices}
Codes == [service : ServiceArgs, run : 0 .. 1]
Frames == [service_id : ServiceArgs, domain_id : KnownDomains, elr : Codes, signed : BOOLEAN]

\* The registry is as main.c set it up.
BootInv ==
    /\ DispatchBacked
    /\ \A s \in BootServices : Descriptor(s.id) = s
    /\ \A id \in ServiceArgs : Registered(id) => Descriptor(id) \in BootServices

\* id and domain are those of the service with this code.
Home(service, id, domain) ==
    id = service /\ service \in BootIds /\ domain = Descriptor(service).domain

\* What runs, and what every frame of the stack will resume, is at home; also
\* in frames that a run left behind when a fault ended it.
IdentityInv ==
    /\ g_context_stack \in Seq(Frames) /\ Len(g_context_stack) <= ContextMax
    /\ \A i \in 1 .. Len(g_context_stack) :
         Home(g_context_stack[i].elr.service, g_context_stack[i].service_id,
              g_context_stack[i].domain_id)
    /\ g_current_service_id \in ServiceArgs
    /\ current_domain \in KnownDomains
    /\ ttbr0 = lettuce_arch_domain_ttbr0_val(current_domain)
    /\ code \in Codes /\ run \in 0 .. 1 /\ g_pac_enabled \in BOOLEAN
    /\ mode = "EL0" => Home(code.service, g_current_service_id, current_domain)

LEMMA El0TableInvariant == El0Spec => []TableOK
<1>1. El0Init => TableOK
  BY TableInit DEF El0Init
<1>2. TableOK /\ [El0Next]_el0Vars => TableOK'
  <2> SUFFICES ASSUME TableOK, [El0Next]_el0Vars PROVE TableOK'
    OBVIOUS
  <2>1. CASE CreateCapability
    <3>1. PICK g \in KernelGrants :
            lettuce_capability_create(g.owner, g.target, g.operation, g.permissions, g.resource)
      BY <2>1 DEF CreateCapability
    <3>2. /\ g.owner \in Services /\ g.target \in Services
          /\ g.operation \in Operations /\ g.resource \in Resources
      BY El0Assumption DEF Grants
    <3> QED BY <3>1, <3>2, TableCreate
  <2>2. CASE UNCHANGED capVars
    BY <2>2, TableNext
  <2>3. CreateCapability \/ UNCHANGED capVars
    BY Zenon
       DEF El0Next, el0Vars, run_el0_service, SetFlags, lettuce_arch_sync_el1_handler,
           lettuce_arch_sync_lower_el_handler, SvcCall, SvcCallRefused, SvcReturnToCaller,
           SvcReturnUnauthenticated, SvcReturnToKernel, DataAbort, SysregTrap, Halt
  <2> QED BY <2>1, <2>2, <2>3
<1> QED BY <1>1, <1>2, PTL DEF El0Spec

LEMMA BootInvariant == El0Spec => []BootInv
<1>1. El0Init => BootInv
  <2> SUFFICES ASSUME El0Init PROVE BootInv
    OBVIOUS
  <2> DEFINE Of(s) == CHOOSE d \in BootServices : d.id = s
             first == CHOOSE e \in EntryPoints : TRUE
             r == [entry |-> first, active |-> TRUE]
             ops == [ZeroOperations EXCEPT ![1] = r]
  <2>1. service_table = [s \in 0 .. ServiceTableSize - 1 |->
          IF \E d \in BootServices : d.id = s
          THEN [descriptor |-> Of(s), operations |-> ops]
          ELSE [descriptor |-> ZeroDescriptor, operations |-> ZeroOperations]]
    BY DEF El0Init
  <2>2. first # NULL
    BY El0Assumption, RegistryAssumption
  <2>3. \A op \in 0 .. DispatchLimit - 1 :
          /\ ~ZeroOperations[op].active
          /\ ops[op].active => op = 1 /\ ops[op].entry = first
    BY Zenon DEF ZeroOperations, ZeroDispatch
  <2>4. \A d \in BootServices : /\ d.id \in 0 .. ServiceTableSize - 1 /\ d.id # 0
                                /\ Of(d.id) = d
    BY El0Assumption, RegistryAssumption
  <2> HIDE DEF Of, first, ops
  <2>5. \A d \in BootServices : /\ service_table[d.id].descriptor = d
                                /\ service_table[d.id].operations = ops
    BY <2>1, <2>4
  <2>6. \A s \in 0 .. ServiceTableSize - 1 : (\A d \in BootServices : d.id # s)
          => /\ service_table[s].descriptor = ZeroDescriptor
             /\ service_table[s].operations = ZeroOperations
    BY <2>1
  <2>7. \A s \in BootServices : Descriptor(s.id) = s
    BY <2>5 DEF Descriptor
  <2>8. ASSUME NEW id \in ServiceArgs, Registered(id)
        PROVE  Descriptor(id) \in BootServices
    <3>1. id \in 0 .. ServiceTableSize - 1 /\ id # 0 /\ service_table[id].descriptor.id = id
      BY <2>8, RegistryAssumption DEF ServiceArgs, Registered
    <3> QED BY <2>5, <2>6, <3>1 DEF Descriptor, ZeroDescriptor
  <2>9. ASSUME NEW s \in 0 .. ServiceTableSize - 1, NEW op \in 0 .. DispatchLimit - 1,
               service_table[s].operations[op].active
        PROVE  /\ service_table[s].operations[op].entry # NULL
               /\ ValidOperation(op)
               /\ lettuce_service_registry_is_active(s)
    <3>1. PICK d \in BootServices : d.id = s
      BY <2>3, <2>6, <2>9, Zenon
    <3>2. op = 1 /\ service_table[s].operations[op].entry = first
      BY <2>3, <2>5, <2>9, <3>1, Zenon
    <3>3. service_table[s].descriptor = d /\ d.active /\ s # 0
      BY <2>4, <2>5, <3>1, El0Assumption, Zenon
    <3>4. s < ServiceTableSize /\ op < DispatchLimit
      BY RegistryAssumption
    <3> QED BY <2>2, <3>1, <3>2, <3>3, <3>4
            DEF ValidOperation, lettuce_service_registry_is_active, Registered, Descriptor
  <2> QED BY <2>7, <2>8, <2>9, Zenon DEF BootInv, DispatchBacked
<1>2. BootInv /\ [El0Next]_el0Vars => BootInv'
  <2>1. [El0Next]_el0Vars => UNCHANGED service_table
    BY Zenon
       DEF El0Next, el0Vars, run_el0_service, SetFlags, lettuce_arch_sync_el1_handler,
           lettuce_arch_sync_lower_el_handler, SvcCall, SvcCallRefused, SvcReturnToCaller,
           SvcReturnUnauthenticated, SvcReturnToKernel, DataAbort, SysregTrap, Halt,
           CreateCapability
  <2>2. BootInv /\ UNCHANGED service_table => BootInv'
    BY DEF BootInv, DispatchBacked, Descriptor, Registered, lettuce_service_registry_is_active
  <2> QED BY <2>1, <2>2
<1> QED BY <1>1, <1>2, PTL DEF El0Spec

\* The address space follows the domain that is entered.
LEMMA EnterDomain ==
    ASSUME NEW domain \in KnownDomains, ttbr0 = lettuce_arch_domain_ttbr0_val(current_domain),
           lettuce_mmu_enter(domain)
    PROVE  current_domain' = domain /\ ttbr0' = lettuce_arch_domain_ttbr0_val(current_domain')
<1>1. domain # InvalidDomain
  BY MmuAssumption DEF KnownDomains, InvalidDomain
<1>2. CASE domain = current_domain
  BY <1>2 DEF lettuce_mmu_enter, lettuce_arch_domain_ttbr0_val
<1>3. CASE domain # current_domain
  BY <1>1, <1>3 DEF lettuce_mmu_enter, write_ttbr, lettuce_arch_domain_ttbr0_val, Known
<1> QED BY <1>2, <1>3

\* A step that leaves the stack alone.
LEMMA SameStack ==
    ASSUME IdentityInv, UNCHANGED <<g_context_stack, service_table>>,
           g_current_service_id' \in ServiceArgs, current_domain' \in KnownDomains,
           ttbr0' = lettuce_arch_domain_ttbr0_val(current_domain'),
           code' \in Codes, run' \in 0 .. 1, g_pac_enabled' \in BOOLEAN,
           mode' = "EL0" => Home(code'.service, g_current_service_id', current_domain')
    PROVE  IdentityInv'
<1>1. g_context_stack' \in Seq(Frames) /\ Len(g_context_stack') <= ContextMax
  BY DEF IdentityInv
<1>2. \A i \in 1 .. Len(g_context_stack') :
        Home(g_context_stack[i].elr.service, g_context_stack[i].service_id,
             g_context_stack[i].domain_id)'
  BY Zenon DEF IdentityInv, Home, Descriptor
<1>3. ttbr0' = lettuce_arch_domain_ttbr0_val(current_domain)'
  BY DEF lettuce_arch_domain_ttbr0_val
<1>4. mode' = "EL0" => Home(code.service, g_current_service_id, current_domain)'
  BY Zenon DEF Home, Descriptor
<1> QED BY <1>1, <1>2, <1>3, <1>4 DEF IdentityInv

\* A step that stops EL0 code: a return to the kernel, a fault or a halt.
LEMMA LeaveEl0 ==
    ASSUME IdentityInv, mode' # "EL0", code' = NoCode, run' = run,
           UNCHANGED <<g_context_stack, service_table, g_current_service_id, current_domain,
                       ttbr0, g_pac_enabled>>
    PROVE  IdentityInv'
<1>1. NoCode \in Codes
  BY RegistryAssumption DEF NoCode, Codes, ServiceArgs
<1>2. /\ g_current_service_id \in ServiceArgs /\ current_domain \in KnownDomains
      /\ ttbr0 = lettuce_arch_domain_ttbr0_val(current_domain)
      /\ run \in 0 .. 1 /\ g_pac_enabled \in BOOLEAN
  BY DEF IdentityInv
<1>3. ttbr0' = lettuce_arch_domain_ttbr0_val(current_domain')
  BY <1>2 DEF lettuce_arch_domain_ttbr0_val
<1> QED BY <1>1, <1>2, <1>3, SameStack

LEMMA RunIdentity ==
    ASSUME IdentityInv, BootInv, NEW service \in BootServices, run_el0_service(service)
    PROVE  IdentityInv'
<1>1. /\ service.domain \in KnownDomains /\ service.id \in ServiceArgs
      /\ service.id \in BootIds /\ Descriptor(service.id) = service
  BY El0Assumption, RegistryAssumption DEF ServiceArgs, BootIds, BootInv
<1>2. run' \in 0 .. 1 /\ code' = [service |-> service.id, run |-> run']
  BY DEF run_el0_service, IdentityInv
<1>3. code' \in Codes /\ code'.service = service.id
  BY <1>1, <1>2 DEF Codes
<1>4. current_domain' = service.domain /\ ttbr0' = lettuce_arch_domain_ttbr0_val(current_domain')
  BY <1>1, EnterDomain DEF run_el0_service, IdentityInv
<1>5. /\ g_current_service_id' = service.id
      /\ UNCHANGED <<g_context_stack, service_table, g_pac_enabled>>
  BY DEF run_el0_service, flagVars
<1>6. Home(code'.service, g_current_service_id', current_domain')
  BY <1>1, <1>3, <1>4, <1>5 DEF Home
<1>7. g_pac_enabled' \in BOOLEAN
  BY <1>5 DEF IdentityInv
<1> QED BY <1>1, <1>2, <1>3, <1>4, <1>5, <1>6, <1>7, SameStack

\* What a call that passes validation leads to.
LEMMA CallTarget ==
    ASSUME TableOK, BootInv, NEW gate \in Gates, NEW request \in CallRequests,
           SvcStatus(gate, request) = "OK"
    PROVE  /\ MayEnter(gate, g_current_service_id, request)
           /\ Descriptor(request.target) \in BootServices
           /\ Descriptor(request.target).id = request.target
           /\ request.target \in BootIds
           /\ Descriptor(request.target).domain \in KnownDomains
<1>1. request \in Requests
  BY El0Assumption
<1>2. MayEnter(gate, g_current_service_id, request)
  BY <1>1, GateRule DEF SvcStatus, BootInv
<1>3. Registered(request.target) /\ request.target \in ServiceArgs
  BY <1>1, <1>2 DEF MayEnter, lettuce_service_registry_is_active, Requests
<1>4. Descriptor(request.target) \in BootServices
  BY <1>3 DEF BootInv
<1>5. Descriptor(request.target).id = request.target
  BY <1>3 DEF Registered, Descriptor
<1> QED BY <1>2, <1>4, <1>5, El0Assumption DEF BootIds

\* A frame pushed on the stack, and the callee entered.
LEMMA CallIdentity ==
    ASSUME TableOK, IdentityInv, BootInv, mode = "EL0", NEW gate \in Gates,
           NEW request \in CallRequests, SvcCall(gate, request)
    PROVE  IdentityInv'
<1> DEFINE target == Descriptor(request.target)
           n == Len(g_context_stack)
<1>1. /\ target \in BootServices /\ target.id = request.target /\ request.target \in BootIds
      /\ target.domain \in KnownDomains
  BY CallTarget DEF SvcCall
<1>2. target.id \in ServiceArgs
  BY <1>1, El0Assumption DEF Descriptors
<1>3. SvcFrame \in Frames /\ SvcFrame.elr = code
      /\ SvcFrame.service_id = g_current_service_id /\ SvcFrame.domain_id = current_domain
  BY DEF SvcFrame, Frames, IdentityInv
<1>4. /\ n < ContextMax /\ g_context_stack' = Append(g_context_stack, SvcFrame)
      /\ g_current_service_id' = target.id
      /\ code' = [service |-> target.id, run |-> code.run]
      /\ UNCHANGED <<service_table, mode, run, g_pac_enabled>>
  BY DEF SvcCall, lettuce_arch_context_push, flagVars
<1>5. current_domain' = target.domain /\ ttbr0' = lettuce_arch_domain_ttbr0_val(current_domain')
  <2>1. CASE gate = "elevator" /\ g_elevator_use_asm
    BY <2>1 DEF SvcCall, lettuce_elevator_asm_transition, write_ttbr,
                lettuce_arch_domain_ttbr0_val
  <2>2. CASE ~(gate = "elevator" /\ g_elevator_use_asm)
    <3>1. lettuce_mmu_enter(target.domain)
      BY <2>2 DEF SvcCall
    <3> QED BY <1>1, <3>1, EnterDomain DEF IdentityInv
  <2> QED BY <2>1, <2>2
<1> HIDE DEF target
<1>6. /\ g_context_stack \in Seq(Frames) /\ n \in Nat
      /\ Home(code.service, g_current_service_id, current_domain)
      /\ code \in Codes /\ run \in 0 .. 1 /\ g_pac_enabled \in BOOLEAN
  BY DEF IdentityInv
<1>7. /\ g_context_stack' \in Seq(Frames) /\ Len(g_context_stack') = n + 1
      /\ \A i \in 1 .. n : g_context_stack'[i] = g_context_stack[i]
      /\ g_context_stack'[n + 1] = SvcFrame
  BY <1>3, <1>4, <1>6
<1>8. Len(g_context_stack') <= ContextMax
  BY <1>4, <1>6, <1>7, El0Assumption
<1>9. ASSUME NEW i \in 1 .. Len(g_context_stack')
      PROVE  Home(g_context_stack[i].elr.service, g_context_stack[i].service_id,
                  g_context_stack[i].domain_id)'
  <2>1. Home(g_context_stack'[i].elr.service, g_context_stack'[i].service_id,
             g_context_stack'[i].domain_id)
    <3>1. CASE i \in 1 .. n
      BY <1>7, <3>1 DEF IdentityInv
    <3>2. CASE i = n + 1
      BY <1>3, <1>6, <1>7, <3>2
    <3> QED BY <1>6, <1>7, <3>1, <3>2
  <2> QED BY <1>4, <2>1, Zenon DEF Home, Descriptor
<1>10. code' \in Codes /\ code'.service = target.id
  BY <1>2, <1>4, <1>6 DEF Codes
<1>11. Home(code.service, g_current_service_id, current_domain)'
  BY <1>1, <1>4, <1>5, <1>10 DEF Home, Descriptor, target
<1>12. ttbr0' = lettuce_arch_domain_ttbr0_val(current_domain)'
  BY <1>5 DEF lettuce_arch_domain_ttbr0_val
<1>13. g_current_service_id' \in ServiceArgs /\ current_domain' \in KnownDomains
  BY <1>1, <1>2, <1>4, <1>5
<1>14. run' \in 0 .. 1 /\ g_pac_enabled' \in BOOLEAN
  BY <1>4, <1>6
<1> QED BY <1>7, <1>8, <1>9, <1>10, <1>11, <1>12, <1>13, <1>14 DEF IdentityInv

\* The innermost frame popped, and its caller resumed.
LEMMA ReturnIdentity ==
    ASSUME IdentityInv, mode = "EL0", SvcReturnToCaller
    PROVE  IdentityInv'
<1> DEFINE n == Len(g_context_stack)
           caller == g_context_stack[n]
<1>1. /\ g_context_stack \in Seq(Frames) /\ n \in Nat /\ n # 0 /\ n <= ContextMax
      /\ ttbr0 = lettuce_arch_domain_ttbr0_val(current_domain)
      /\ run \in 0 .. 1 /\ g_pac_enabled \in BOOLEAN
  BY DEF IdentityInv, SvcReturnToCaller
<1>2. /\ caller \in Frames
      /\ Home(caller.elr.service, caller.service_id, caller.domain_id)
  BY <1>1 DEF IdentityInv
<1>3. /\ g_context_stack' = SubSeq(g_context_stack, 1, n - 1)
      /\ g_current_service_id' = caller.service_id /\ code' = caller.elr
      /\ lettuce_mmu_enter(caller.domain_id)
      /\ UNCHANGED <<service_table, mode, run, g_pac_enabled>>
  BY DEF SvcReturnToCaller, ReturnContext, lettuce_mmu_leave, flagVars
<1> HIDE DEF caller
<1>4. /\ caller.domain_id \in KnownDomains /\ caller.service_id \in ServiceArgs
      /\ caller.elr \in Codes
  BY <1>2 DEF Frames
<1>5. /\ current_domain' = caller.domain_id
      /\ ttbr0' = lettuce_arch_domain_ttbr0_val(current_domain')
  BY <1>1, <1>3, <1>4, EnterDomain
<1>6. /\ g_context_stack' \in Seq(Frames) /\ Len(g_context_stack') = n - 1
      /\ \A i \in 1 .. n - 1 : g_context_stack'[i] = g_context_stack[i]
  BY <1>1, <1>3, Popped, Zenon
<1>7. \A i \in 1 .. Len(g_context_stack') :
        Home(g_context_stack'[i].elr.service, g_context_stack'[i].service_id,
             g_context_stack'[i].domain_id)
  BY <1>1, <1>6 DEF IdentityInv
<1>8. \A i \in 1 .. Len(g_context_stack') :
        Home(g_context_stack[i].elr.service, g_context_stack[i].service_id,
             g_context_stack[i].domain_id)'
  BY <1>3, <1>7, Zenon DEF Home, Descriptor
<1>9. Home(code.service, g_current_service_id, current_domain)'
  BY <1>2, <1>3, <1>5 DEF Home, Descriptor
<1>10. ttbr0' = lettuce_arch_domain_ttbr0_val(current_domain)'
  BY <1>5 DEF lettuce_arch_domain_ttbr0_val
<1>11. Len(g_context_stack') <= ContextMax
  BY <1>1, <1>6, El0Assumption
<1>12. /\ g_current_service_id' \in ServiceArgs /\ current_domain' \in KnownDomains
       /\ code' \in Codes /\ run' \in 0 .. 1 /\ g_pac_enabled' \in BOOLEAN
  BY <1>1, <1>3, <1>4, <1>5
<1> QED BY <1>6, <1>8, <1>9, <1>10, <1>11, <1>12 DEF IdentityInv

LEMMA IdentityStep ==
    ASSUME TableOK, BootInv, IdentityInv, El0Next
    PROVE  IdentityInv'
<1>1. CASE \E service \in BootServices : run_el0_service(service)
  BY <1>1, RunIdentity
<1>2. CASE UNCHANGED <<switchVars, g_context_stack, run, service_table>>
           /\ g_pac_enabled' \in BOOLEAN
  BY <1>2, SameStack DEF switchVars, IdentityInv, Home, lettuce_arch_domain_ttbr0_val
<1>3. CASE SetFlags
  BY <1>2, <1>3 DEF SetFlags, historyVars, IdentityInv
<1>4. CASE CreateCapability
  BY <1>2, <1>4 DEF CreateCapability, historyVars, flagVars, IdentityInv
<1>5. CASE Halt
  BY <1>5, LeaveEl0 DEF Halt, flagVars, historyVars
<1>6. CASE lettuce_el0_resume_kernel /\ UNCHANGED <<service_table, g_pac_enabled>>
  BY <1>6, LeaveEl0 DEF lettuce_el0_resume_kernel
<1>7. CASE lettuce_arch_sync_el1_handler
  BY <1>2, <1>5, <1>7 DEF lettuce_arch_sync_el1_handler, historyVars, IdentityInv
<1>8. CASE lettuce_arch_sync_lower_el_handler
  <2>1. CASE \E gate \in Gates, request \in CallRequests : SvcCall(gate, request)
    BY <1>8, <2>1, CallIdentity DEF lettuce_arch_sync_lower_el_handler
  <2>2. CASE SvcCallRefused
    BY <1>2, <2>2 DEF SvcCallRefused, el0Vars, flagVars, historyVars, IdentityInv
  <2>3. CASE SvcReturnToCaller
    BY <1>8, <2>3, ReturnIdentity DEF lettuce_arch_sync_lower_el_handler
  <2>4. CASE SvcReturnToKernel
    BY <1>6, <2>4 DEF SvcReturnToKernel, flagVars
  <2>5. CASE DataAbort \/ SysregTrap
    BY <1>5, <1>6, <2>5 DEF DataAbort, SysregTrap
  <2> QED BY <1>5, <1>8, <2>1, <2>2, <2>3, <2>4, <2>5
          DEF lettuce_arch_sync_lower_el_handler, SvcReturnUnauthenticated
<1> QED BY <1>1, <1>3, <1>4, <1>7, <1>8 DEF El0Next

LEMMA IdentityInvariant == El0Spec => []IdentityInv
<1>1. El0Init => IdentityInv
  <2> SUFFICES ASSUME El0Init PROVE IdentityInv
    OBVIOUS
  <2>1. DomainA \in KnownDomains
    BY DomainAIsKnown
  <2>2. g_context_stack \in Seq(Frames) /\ Len(g_context_stack) = 0
    BY DEF El0Init
  <2>3. NoCode \in Codes /\ 0 \in ServiceArgs
    BY RegistryAssumption DEF NoCode, Codes, ServiceArgs
  <2>4. /\ current_domain = DomainA /\ ttbr0 = lettuce_arch_domain_ttbr0_val(DomainA)
        /\ g_current_service_id = 0 /\ g_pac_enabled = FALSE /\ mode = "EL1"
        /\ code = NoCode /\ run = 0
    BY DEF El0Init, Booted
  <2>5. /\ Len(g_context_stack) <= ContextMax /\ run \in 0 .. 1 /\ mode # "EL0"
        /\ \A i \in 1 .. Len(g_context_stack) : FALSE
    BY <2>2, <2>4, El0Assumption
  <2> QED BY <2>1, <2>2, <2>3, <2>4, <2>5, Zenon DEF IdentityInv
<1>2. TableOK /\ BootInv /\ IdentityInv /\ [El0Next]_el0Vars => IdentityInv'
  <2>1. IdentityInv /\ UNCHANGED el0Vars => IdentityInv'
    BY SameStack DEF el0Vars, switchVars, flagVars, historyVars, IdentityInv, Home,
                     lettuce_arch_domain_ttbr0_val
  <2> QED BY <2>1, IdentityStep
<1> QED BY <1>1, <1>2, El0TableInvariant, BootInvariant, PTL DEF El0Spec

\* kernel/arch/arm64/cpu.c: the stack of contexts never leaves its array, and
\* holds contexts of services only.
THEOREM El0TypeCorrect == El0Spec => []El0TypeOK
<1>1. IdentityInv => El0TypeOK
  BY DEF IdentityInv, El0TypeOK, Frames, Codes
<1> QED BY <1>1, IdentityInvariant, PTL

\* kernel/arch/arm64/cpu.c: whichever services call each other, through
\* whichever gates and however runs end, code at EL0 always runs under its own
\* service's identity, domain and translation tables.
THEOREM El0IdentityIsCodes == El0Spec => []IdentityIsCodes
<1>1. IdentityInv => IdentityIsCodes
  BY DEF IdentityInv, IdentityIsCodes, Home
<1> QED BY <1>1, IdentityInvariant, PTL

\* lettuce_arch_sync_lower_el_handler: a service is entered from EL0 only with a
\* grant that covers the call when it is made, held by the code that makes it.
THEOREM El0CallsHoldAuthority == El0Spec => El0CallsAuthorized
<1> DEFINE Step == mode = "EL0" /\ mode' = "EL0" /\ Len(g_context_stack') > Len(g_context_stack)
                     => \E gate \in Gates, request \in CallRequests :
                          /\ MayEnter(gate, code.service, request)
                          /\ request.target = code'.service
<1>1. TableOK /\ BootInv /\ IdentityInv /\ [El0Next]_el0Vars => Step
  <2> SUFFICES ASSUME TableOK, BootInv, IdentityInv, [El0Next]_el0Vars, mode = "EL0",
                      Len(g_context_stack') > Len(g_context_stack)
               PROVE  \E gate \in Gates, request \in CallRequests :
                        /\ MayEnter(gate, code.service, request)
                        /\ request.target = code'.service
    OBVIOUS
  <2>1. g_context_stack \in Seq(Frames) /\ Len(g_context_stack) \in Nat
    BY DEF IdentityInv
  <2>2. g_context_stack' # g_context_stack /\ ~SvcReturnToCaller
    <3>1. SvcReturnToCaller => Len(g_context_stack') = Len(g_context_stack) - 1
      BY <2>1, Popped DEF SvcReturnToCaller
    <3> QED BY <2>1, <3>1
  <2>3. PICK gate \in Gates, request \in CallRequests : SvcCall(gate, request)
    BY <2>2, Zenon
       DEF El0Next, el0Vars, run_el0_service, SetFlags, lettuce_arch_sync_el1_handler,
           lettuce_arch_sync_lower_el_handler, SvcCallRefused, SvcReturnUnauthenticated,
           SvcReturnToKernel, lettuce_el0_resume_kernel, DataAbort, SysregTrap, Halt,
           CreateCapability
  <2>4. MayEnter(gate, g_current_service_id, request) /\ Descriptor(request.target).id = request.target
    BY <2>3, CallTarget DEF SvcCall
  <2>5. g_current_service_id = code.service
    BY DEF IdentityInv, Home
  <2>6. code'.service = request.target
    BY <2>3, <2>4 DEF SvcCall
  <2> QED BY <2>4, <2>5, <2>6
<1> QED BY <1>1, El0TableInvariant, BootInvariant, IdentityInvariant, PTL
        DEF El0Spec, El0CallsAuthorized

-----------------------------------------------------------------------------
\* StackIsCallChain is inductive with the type of the chain.
ChainInv == chain \in Seq(ServiceArgs) /\ StackIsCallChain

\* The variables StackIsCallChain speaks of.
chainVars == <<abandoned, mode, g_context_stack, chain, code, run, g_pac_enabled>>

LEMMA ChainStutter == ASSUME ChainInv, UNCHANGED chainVars PROVE ChainInv'
<1>1. /\ abandoned' = abandoned /\ mode' = mode /\ g_context_stack' = g_context_stack
      /\ chain' = chain /\ code' = code /\ run' = run /\ g_pac_enabled' = g_pac_enabled
  BY DEF chainVars
<1> QED BY <1>1, Zenon DEF ChainInv, StackIsCallChain

LEMMA RunChain ==
    ASSUME ChainInv, NEW service \in BootServices, run_el0_service(service)
    PROVE  ChainInv'
<1>1. service.id \in ServiceArgs
  BY El0Assumption DEF Descriptors
<1>2. /\ chain' = IF abandoned THEN <<>> ELSE <<service.id>>
      /\ g_context_stack' = g_context_stack /\ abandoned' = abandoned
      /\ mode = "EL1" /\ mode' = "EL0" /\ code' = [service |-> service.id, run |-> run']
  BY DEF run_el0_service
<1>3. chain' \in Seq(ServiceArgs)
  BY <1>1, <1>2
<1>4. ASSUME ~abandoned
      PROVE  /\ g_context_stack = <<>> /\ Len(g_context_stack) = 0
             /\ Len(chain') = 1 /\ chain'[1] = service.id
  BY <1>2, <1>4 DEF ChainInv, StackIsCallChain
<1> QED BY <1>2, <1>3, <1>4 DEF ChainInv, StackIsCallChain

LEMMA CallChain ==
    ASSUME ChainInv, IdentityInv, BootInv, TableOK, mode = "EL0", NEW gate \in Gates,
           NEW request \in CallRequests, SvcCall(gate, request)
    PROVE  ChainInv'
<1> DEFINE target == Descriptor(request.target)
           n == Len(g_context_stack)
<1>1. target.id \in ServiceArgs
  BY CallTarget, El0Assumption DEF SvcCall, Descriptors
<1>2. /\ g_context_stack' = Append(g_context_stack, SvcFrame)
      /\ code' = [service |-> target.id, run |-> code.run]
      /\ chain' = IF abandoned THEN <<>> ELSE Append(chain, target.id)
      /\ UNCHANGED <<mode, run, abandoned, g_pac_enabled>>
  BY DEF SvcCall, lettuce_arch_context_push, flagVars
<1> HIDE DEF target
<1>3. chain \in Seq(ServiceArgs) /\ chain' \in Seq(ServiceArgs)
  BY <1>1, <1>2 DEF ChainInv
<1>4. CASE abandoned
  BY <1>2, <1>3, <1>4 DEF ChainInv, StackIsCallChain
<1>5. CASE ~abandoned
  <2>1. /\ g_context_stack \in Seq(Frames) /\ n \in Nat /\ SvcFrame \in Frames
        /\ g_current_service_id = code.service
    BY DEF IdentityInv, SvcFrame, Frames, Home
  <2>2. /\ SvcFrame.elr = code /\ SvcFrame.service_id = g_current_service_id
        /\ SvcFrame.signed = g_pac_enabled
    BY Zenon DEF SvcFrame
  <2>3. /\ n = Len(chain) - 1 /\ code = [service |-> chain[Len(chain)], run |-> run]
        /\ \A i \in 1 .. n : /\ g_context_stack[i].elr = [service |-> chain[i], run |-> run]
                             /\ g_context_stack[i].service_id = chain[i]
                             /\ g_context_stack[i].signed = g_pac_enabled
    BY <1>5 DEF ChainInv, StackIsCallChain
  <2>4. code.service = chain[n + 1] /\ code.run = run /\ Len(chain) = n + 1
    BY <1>3, <2>1, <2>3
  <2>5. /\ Len(g_context_stack') = n + 1 /\ g_context_stack'[n + 1] = SvcFrame
        /\ \A i \in 1 .. n : g_context_stack'[i] = g_context_stack[i]
    <3>1. g_context_stack' = Append(g_context_stack, SvcFrame)
      BY <1>2
    <3> QED BY <2>1, <3>1
  <2>6. /\ Len(chain') = n + 2 /\ chain'[n + 2] = target.id
        /\ \A i \in 1 .. n + 1 : chain'[i] = chain[i]
    <3>1. chain' = Append(chain, target.id)
      BY <1>2, <1>5, Zenon
    <3>2. /\ Len(chain') = Len(chain) + 1 /\ chain'[Len(chain) + 1] = target.id
          /\ \A i \in 1 .. Len(chain) : chain'[i] = chain[i]
      BY <1>1, <1>3, <3>1
    <3>3. (n + 1) + 1 = n + 2
      BY <2>1
    <3> QED BY <2>4, <3>2, <3>3, Zenon
  <2>7. code' = [service |-> chain'[Len(chain')], run |-> run']
    BY <1>2, <2>4, <2>6, Zenon
  <2>8. ASSUME NEW i \in 1 .. Len(g_context_stack')
        PROVE  /\ g_context_stack'[i].elr = [service |-> chain'[i], run |-> run']
               /\ g_context_stack'[i].service_id = chain'[i]
               /\ g_context_stack'[i].signed = g_pac_enabled'
    <3>1. CASE i = n + 1
      BY <1>2, <2>1, <2>2, <2>3, <2>4, <2>5, <2>6, <3>1
    <3>2. CASE i \in 1 .. n
      <4>1. chain'[i] = chain[i] /\ g_context_stack'[i] = g_context_stack[i]
        BY <2>1, <2>5, <2>6, <3>2
      <4> QED BY <1>2, <2>3, <3>2, <4>1, Zenon
    <3> QED BY <2>1, <2>5, <3>1, <3>2
  <2>9. Len(g_context_stack') = Len(chain') - 1
    BY <2>1, <2>5, <2>6
  <2> QED BY <1>2, <1>3, <1>5, <2>7, <2>8, <2>9 DEF ChainInv, StackIsCallChain
<1> QED BY <1>4, <1>5

LEMMA ReturnChain ==
    ASSUME ChainInv, IdentityInv, mode = "EL0", SvcReturnToCaller
    PROVE  ChainInv'
<1> DEFINE n == Len(g_context_stack)
           caller == g_context_stack[n]
<1>1. /\ g_context_stack \in Seq(Frames) /\ n \in Nat /\ n # 0
  BY DEF IdentityInv, SvcReturnToCaller
<1>2. /\ g_context_stack' = SubSeq(g_context_stack, 1, n - 1)
      /\ chain' = IF abandoned THEN <<>> ELSE SubSeq(chain, 1, Len(chain) - 1)
      /\ code' = caller.elr
      /\ UNCHANGED <<mode, run, abandoned, g_pac_enabled>>
  BY DEF SvcReturnToCaller, flagVars
<1> HIDE DEF caller
<1>3. CASE abandoned
  BY <1>2, <1>3 DEF ChainInv, StackIsCallChain
<1>4. CASE ~abandoned
  <2>1. /\ n = Len(chain) - 1
        /\ \A i \in 1 .. n : /\ g_context_stack[i].elr = [service |-> chain[i], run |-> run]
                             /\ g_context_stack[i].service_id = chain[i]
                             /\ g_context_stack[i].signed = g_pac_enabled
    BY <1>4 DEF ChainInv, StackIsCallChain
  <2>2. chain \in Seq(ServiceArgs) /\ Len(chain) # 0 /\ Len(chain) = n + 1
    BY <1>1, <2>1 DEF ChainInv
  <2>3. /\ Len(g_context_stack') = n - 1
        /\ \A i \in 1 .. n - 1 : g_context_stack'[i] = g_context_stack[i]
    BY <1>1, <1>2, Popped, Zenon
  <2>4. /\ chain' \in Seq(ServiceArgs) /\ Len(chain') = n
        /\ \A i \in 1 .. n : chain'[i] = chain[i]
    <3>1. /\ chain' \in Seq(ServiceArgs) /\ Len(chain') = Len(chain) - 1
          /\ \A i \in 1 .. Len(chain) - 1 : chain'[i] = chain[i]
      BY <1>2, <1>4, <2>2, Popped, Zenon
    <3> QED BY <2>1, <3>1
  <2>5. code' = [service |-> chain'[Len(chain')], run |-> run']
    <3>1. caller.elr = [service |-> chain[n], run |-> run]
      BY <1>1, <2>1 DEF caller
    <3> QED BY <1>1, <1>2, <2>4, <3>1
  <2>6. \A i \in 1 .. Len(g_context_stack') :
          /\ g_context_stack'[i].elr = [service |-> chain'[i], run |-> run']
          /\ g_context_stack'[i].service_id = chain'[i]
          /\ g_context_stack'[i].signed = g_pac_enabled'
    <3>1. \A i \in 1 .. n - 1 : i \in 1 .. n
      BY <1>1
    <3> QED BY <1>2, <2>1, <2>3, <2>4, <3>1, Zenon
  <2> QED BY <1>1, <1>2, <1>4, <2>3, <2>4, <2>5, <2>6 DEF ChainInv, StackIsCallChain
<1> QED BY <1>3, <1>4

LEMMA ChainStep ==
    ASSUME TableOK, BootInv, IdentityInv, ChainInv, El0Next
    PROVE  ChainInv'
<1>1. CASE \E service \in BootServices : run_el0_service(service)
  BY <1>1, RunChain
<1>2. CASE SetFlags
  <2>1. /\ mode = "EL1" /\ UNCHANGED <<mode, g_context_stack, chain, abandoned>>
    BY <1>2 DEF SetFlags, switchVars, historyVars
  <2> QED BY <2>1 DEF ChainInv, StackIsCallChain
<1>3. CASE CreateCapability
  BY <1>3, ChainStutter
     DEF CreateCapability, switchVars, flagVars, historyVars, chainVars
<1>4. CASE Halt
  BY <1>4 DEF Halt, historyVars, ChainInv, StackIsCallChain
<1>5. CASE lettuce_el0_resume_kernel
  <2>1. /\ chain' = <<>> /\ mode' = "EL1" /\ g_context_stack' = g_context_stack
        /\ ~abandoned' => g_context_stack = <<>>
    BY <1>5, Zenon DEF lettuce_el0_resume_kernel
  <2>2. chain' \in Seq(ServiceArgs)
    BY <2>1
  <2> QED BY <2>1, <2>2 DEF ChainInv, StackIsCallChain
<1>6. CASE lettuce_arch_sync_el1_handler
  BY <1>4, <1>6, ChainStutter
     DEF lettuce_arch_sync_el1_handler, switchVars, historyVars, chainVars
<1>7. CASE lettuce_arch_sync_lower_el_handler
  <2>1. CASE \E gate \in Gates, request \in CallRequests : SvcCall(gate, request)
    BY <1>7, <2>1, CallChain DEF lettuce_arch_sync_lower_el_handler
  <2>2. CASE SvcCallRefused
    BY <2>2, ChainStutter
       DEF SvcCallRefused, el0Vars, switchVars, flagVars, historyVars, chainVars
  <2>3. CASE SvcReturnToCaller
    BY <1>7, <2>3, ReturnChain DEF lettuce_arch_sync_lower_el_handler
  <2>4. CASE SvcReturnToKernel \/ DataAbort \/ SysregTrap
    BY <1>4, <1>5, <2>4 DEF SvcReturnToKernel, DataAbort, SysregTrap
  <2> QED BY <1>4, <1>7, <2>1, <2>2, <2>3, <2>4
          DEF lettuce_arch_sync_lower_el_handler, SvcReturnUnauthenticated
<1> QED BY <1>1, <1>2, <1>3, <1>6, <1>7 DEF El0Next

\* lettuce_arch_context_push and the SVC return: until some run ends in the
\* middle of a call, at any depth and with pointer authentication on or off,
\* each return resumes the caller of the service that returns.
THEOREM StackFollowsCalls == El0Spec => []StackIsCallChain
<1>1. El0Init => ChainInv
  <2> SUFFICES ASSUME El0Init PROVE ChainInv
    OBVIOUS
  <2>1. chain = <<>> /\ g_context_stack = <<>> /\ mode = "EL1"
    BY DEF El0Init
  <2> QED BY <2>1 DEF ChainInv, StackIsCallChain
<1>2. TableOK /\ BootInv /\ IdentityInv /\ ChainInv /\ [El0Next]_el0Vars => ChainInv'
  <2>1. ChainInv /\ UNCHANGED el0Vars => ChainInv'
    BY ChainStutter DEF el0Vars, switchVars, flagVars, historyVars, chainVars
  <2> QED BY <2>1, ChainStep
<1>3. ChainInv => StackIsCallChain
  BY DEF ChainInv
<1> QED BY <1>1, <1>2, <1>3, El0TableInvariant, BootInvariant, IdentityInvariant, PTL
        DEF El0Spec
=============================================================================
