-------------------------------- MODULE El0 ---------------------------------
(***************************************************************************)
(* Services at EL0 on ARM64, one run at a time: the kernel enters EL0 for  *)
(* a service (run_el0_service in kernel/arch/arm64/main.c, entry.S), the   *)
(* service makes protected calls to others and returns with SVC, and the   *)
(* handlers in kernel/arch/arm64/cpu.c keep the callers on the stack       *)
(* g_context_stack.  Faults the kernel expects end the run; all others     *)
(* halt the machine.                                                       *)
(*                                                                         *)
(* A saved program counter stands for the run and the service it belongs   *)
(* to, and for whether pointer authentication (PAC) signed it.             *)
(***************************************************************************)
EXTENDS Validate, Mmu

CONSTANTS ContextMax,       \* LETTUCE_ARCH_CONTEXT_MAX (8)
          BootServices,         \* the descriptors main.c registers at boot
          KernelGrants,     \* the capabilities main.c creates
          CallRequests      \* the requests EL0 code makes

ASSUME El0Assumption ==
    /\ ContextMax \in Nat /\ BootServices \subseteq Descriptors
    /\ \A s \in BootServices : s.domain \in KnownDomains /\ s.active
    /\ \A s \in BootServices : s.id \in 1 .. ServiceTableSize - 1
    /\ \A s, t \in BootServices : s.id = t.id => s = t
    /\ EntryPoints # {}
    /\ KernelGrants \subseteq Grants /\ CallRequests \subseteq Requests

VARIABLES
    g_current_service_id,
    g_context_stack,
    g_pac_enabled, g_elevator_use_asm,
    g_expecting_fault, g_expecting_sysreg_trap,
    mode,           \* "EL1" (the kernel runs), "EL0" or "HALTED"
    code,           \* the program counter at EL0
    run, chain,     \* history: the run, and its services from caller to callee,
    abandoned       \* until some run ended with calls still in progress

switchVars == <<g_current_service_id, current_domain, ttbr0, mode, code>>
flagVars == <<g_pac_enabled, g_elevator_use_asm, g_expecting_fault, g_expecting_sysreg_trap>>
historyVars == <<run, chain, abandoned>>
el0Vars == <<capVars, service_table, switchVars, g_context_stack, flagVars, historyVars>>

NoCode == [service |-> 0, run |-> 0]

\* main.c: registry and capabilities are set up, every service is given one
\* operation, and the kernel is in domain A.
El0Init ==
    /\ CapInit
    /\ service_table = [s \in 0 .. ServiceTableSize - 1 |->
         IF \E d \in BootServices : d.id = s
         THEN [descriptor |-> CHOOSE d \in BootServices : d.id = s,
               operations |-> [ZeroOperations EXCEPT
                  ![1] = [entry |-> CHOOSE e \in EntryPoints : TRUE, active |-> TRUE]]]
         ELSE [descriptor |-> ZeroDescriptor, operations |-> ZeroOperations]]
    /\ Booted
    /\ g_current_service_id = 0 /\ g_context_stack = <<>>
    /\ g_pac_enabled = FALSE /\ g_elevator_use_asm = TRUE
    /\ g_expecting_fault = FALSE /\ g_expecting_sysreg_trap = FALSE
    /\ mode = "EL1" /\ code = NoCode
    /\ run = 0 /\ chain = <<>> /\ abandoned = FALSE

-----------------------------------------------------------------------------
(***************************************************************************)
(* The kernel between runs.                                                *)
(***************************************************************************)
run_el0_service(service) ==
    /\ mode = "EL1"
    /\ g_current_service_id' = service.id
    /\ lettuce_mmu_enter(service.domain)
    /\ mode' = "EL0"
    /\ run' = 1 - run
    /\ code' = [service |-> service.id, run |-> run']
    /\ chain' = IF abandoned THEN <<>> ELSE <<service.id>>
    /\ UNCHANGED <<capVars, service_table, g_context_stack, flagVars, abandoned>>

\* lettuce_pac_enable, lettuce_elevator_set_use_asm, lettuce_mmu_expect_fault
\* (or expect_data_abort) and lettuce_arch_expect_sysreg_trap.
SetFlags ==
    /\ mode = "EL1"
    /\ \/ g_pac_enabled' \in BOOLEAN
          /\ UNCHANGED <<g_elevator_use_asm, g_expecting_fault, g_expecting_sysreg_trap>>
       \/ g_elevator_use_asm' \in BOOLEAN
          /\ UNCHANGED <<g_pac_enabled, g_expecting_fault, g_expecting_sysreg_trap>>
       \/ g_expecting_fault' = TRUE
          /\ UNCHANGED <<g_pac_enabled, g_elevator_use_asm, g_expecting_sysreg_trap>>
       \/ g_expecting_sysreg_trap' = TRUE
          /\ UNCHANGED <<g_pac_enabled, g_elevator_use_asm, g_expecting_fault>>
    /\ UNCHANGED <<capVars, service_table, switchVars, g_context_stack, historyVars>>

\* main.c creates capabilities between runs and revokes none.
CreateCapability ==
    /\ mode = "EL1"
    /\ \E g \in KernelGrants :
         lettuce_capability_create(g.owner, g.target, g.operation, g.permissions, g.resource)
    /\ UNCHANGED <<service_table, switchVars, g_context_stack, flagVars, historyVars>>

\* lettuce_el0_resume_kernel: lettuce_el0_enter returns to the kernel, which
\* touches neither the identity nor the domain, nor the context stack.
lettuce_el0_resume_kernel ==
    /\ mode' = "EL1" /\ code' = NoCode
    /\ chain' = <<>>
    /\ abandoned' = (abandoned \/ g_context_stack # <<>>)
    /\ UNCHANGED <<g_current_service_id, current_domain, ttbr0, run, g_context_stack>>

Halt ==
    /\ mode' = "HALTED" /\ code' = NoCode
    /\ UNCHANGED <<capVars, service_table, g_current_service_id, current_domain, ttbr0,
                   g_context_stack, flagVars, historyVars>>

-----------------------------------------------------------------------------
(***************************************************************************)
(* lettuce_arch_sync_lower_el_handler.                                     *)
(***************************************************************************)
PushPastEnd(frame) == g_context_stack' = Append(g_context_stack, frame)     \* mutant
lettuce_arch_context_push(frame) ==
    /\ Len(g_context_stack) < ContextMax
    /\ g_context_stack' = Append(g_context_stack, frame)

SvcFrame == [service_id |-> g_current_service_id, domain_id |-> current_domain,
             elr |-> code, signed |-> g_pac_enabled]

\* The validation of LETTUCE_SVC_CALL, _CROSS_LAYER and _ELEVATOR.
\* mutant: the caller is whoever the capability was made for
SvcStatusOfOwner(gate, request) ==
    IF ~Live(request.handle) THEN "CAPABILITY_DENIED"
    ELSE GateStatus(gate, capability_table[SlotOf(request.handle)].grant.owner, request)
SvcStatus(gate, request) == GateStatus(gate, g_current_service_id, request)

SvcCall(gate, request) ==
    LET target == Descriptor(request.target) IN
    /\ SvcStatus(gate, request) = "OK"
    /\ lettuce_arch_context_push(SvcFrame)
    /\ IF gate = "elevator" /\ g_elevator_use_asm
       THEN lettuce_elevator_asm_transition(target.domain)
       ELSE lettuce_mmu_enter(target.domain)
    /\ g_current_service_id' = target.id
    /\ code' = [service |-> target.id, run |-> code.run]
    /\ chain' = IF abandoned THEN <<>> ELSE Append(chain, target.id)
    /\ UNCHANGED <<capVars, service_table, flagVars, mode, run, abandoned>>

\* The call is not valid, or OVERFLOW: x0 has the status and the caller goes on.
SvcCallRefused ==
    /\ \/ Len(g_context_stack) >= ContextMax
       \/ ~ \A gate \in Gates, request \in CallRequests : SvcStatus(gate, request) = "OK"
    /\ UNCHANGED el0Vars

ReturnKeepingIdentity(caller) ==          \* mutant: only the address space goes back
    lettuce_mmu_leave(caller.domain_id) /\ UNCHANGED g_current_service_id
ReturnContext(caller) ==
    /\ lettuce_mmu_leave(caller.domain_id)
    /\ g_current_service_id' = caller.service_id

\* LETTUCE_SVC_RETURN.  A program counter that was signed when PAC is off now,
\* or the other way round, cannot be executed.
SvcReturnToCaller ==
    /\ g_context_stack # <<>>
    /\ LET caller == g_context_stack[Len(g_context_stack)] IN
         /\ caller.signed = g_pac_enabled
         /\ ReturnContext(caller)
         /\ code' = caller.elr
    /\ g_context_stack' = SubSeq(g_context_stack, 1, Len(g_context_stack) - 1)
    /\ chain' = IF abandoned THEN <<>> ELSE SubSeq(chain, 1, Len(chain) - 1)
    /\ UNCHANGED <<capVars, service_table, flagVars, mode, run, abandoned>>

SvcReturnUnauthenticated ==
    /\ g_context_stack # <<>>
    /\ g_context_stack[Len(g_context_stack)].signed # g_pac_enabled
    /\ Halt

SvcReturnToKernel ==
    /\ g_context_stack = <<>>
    /\ lettuce_el0_resume_kernel
    /\ UNCHANGED <<capVars, service_table, flagVars>>

\* A data abort; lettuce_mmu_handle_fault.
DataAbort ==
    IF g_expecting_fault
    THEN /\ lettuce_el0_resume_kernel
         /\ g_expecting_fault' = FALSE
         /\ UNCHANGED <<capVars, service_table, g_pac_enabled, g_elevator_use_asm,
                        g_expecting_sysreg_trap>>
    ELSE Halt

\* A trapped system register access; lettuce_arch_handle_sysreg_trap.
SysregTrap ==
    IF g_expecting_sysreg_trap
    THEN /\ lettuce_el0_resume_kernel
         /\ g_expecting_sysreg_trap' = FALSE
         /\ UNCHANGED <<capVars, service_table, g_pac_enabled, g_elevator_use_asm,
                        g_expecting_fault>>
    ELSE Halt

\* An exception in the kernel: a data abort it expects is stepped over, any
\* other halts.  (An authentication failure it expects occurs in a self-test
\* only, on a frame pushed and popped there.)
lettuce_arch_sync_el1_handler ==
    /\ mode = "EL1"
    /\ \/ /\ g_expecting_fault
          /\ g_expecting_fault' = FALSE
          /\ UNCHANGED <<capVars, service_table, switchVars, g_context_stack,
                         g_pac_enabled, g_elevator_use_asm, g_expecting_sysreg_trap,
                         historyVars>>
       \/ Halt

lettuce_arch_sync_lower_el_handler ==
    /\ mode = "EL0"
    /\ \/ \E gate \in Gates, request \in CallRequests : SvcCall(gate, request)
       \/ SvcCallRefused
       \/ SvcReturnToCaller \/ SvcReturnUnauthenticated \/ SvcReturnToKernel
       \/ DataAbort \/ SysregTrap
       \/ Halt      \* an instruction abort, an unknown SVC or exception class

El0Next ==
    \/ \E service \in BootServices : run_el0_service(service)
    \/ SetFlags
    \/ CreateCapability
    \/ lettuce_arch_sync_el1_handler
    \/ lettuce_arch_sync_lower_el_handler

El0Spec == El0Init /\ [][El0Next]_el0Vars

-----------------------------------------------------------------------------
\* The context stack stays within its array and holds contexts of services.
El0TypeOK ==
    /\ g_context_stack \in Seq([service_id : ServiceArgs, domain_id : KnownDomains,
                                elr : [service : ServiceArgs, run : 0 .. 1], signed : BOOLEAN])
    /\ Len(g_context_stack) <= ContextMax
    /\ g_current_service_id \in ServiceArgs
    /\ current_domain \in KnownDomains

\* "Caller identity is obtained from kernel-owned execution state": whatever
\* code runs at EL0, at any depth of calls, by either Elevator path and also
\* after faults, the kernel's service id, domain and translation tables are
\* those of the service the code belongs to.
IdentityIsCodes ==
    mode = "EL0" =>
      /\ g_current_service_id = code.service
      /\ current_domain = Descriptor(code.service).domain
      /\ ttbr0 = lettuce_arch_domain_ttbr0_val(current_domain)

\* While no run ended in the middle of a call, the stack is exactly the chain
\* of callers of the present run, signed as returning will require, and is
\* empty when the kernel runs: every return goes to its own caller.
StackIsCallChain ==
    ~abandoned =>
      /\ mode = "EL1" => g_context_stack = <<>>
      /\ mode = "EL0" =>
           /\ Len(g_context_stack) = Len(chain) - 1
           /\ code = [service |-> chain[Len(chain)], run |-> run]
           /\ \A i \in 1 .. Len(g_context_stack) :
                /\ g_context_stack[i].elr = [service |-> chain[i], run |-> run]
                /\ g_context_stack[i].service_id = chain[i]
                /\ g_context_stack[i].signed = g_pac_enabled

\* Code of another service starts only by returning, by the kernel's own
\* choice, or by a call its caller holds the capability for at that moment.
El0CallsAuthorized ==
    [][mode = "EL0" /\ mode' = "EL0" /\ Len(g_context_stack') > Len(g_context_stack)
         => \E gate \in Gates, request \in CallRequests :
              /\ MayEnter(gate, code.service, request)
              /\ request.target = code'.service]_el0Vars

\* "Expected fault verified: recover safely to EL1 continuation": code that runs
\* at EL0 belongs to the run in progress, not to one that ended with a fault.
RecoveryIsSafe == mode = "EL0" => code.run = run
=============================================================================
