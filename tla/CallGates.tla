----------------------------- MODULE CallGates ------------------------------
(***************************************************************************)
(* The three call gates of the host build (ipc/same_layer/gate.c,          *)
(* ipc/cross_layer/call.c, ipc/elevator/elevator.c and the runtime/c       *)
(* wrappers over them), with the execution context they switch             *)
(* (kernel/main/context.c) and the protection domain under it              *)
(* (kernel/main/protection.c).                                             *)
(*                                                                         *)
(* A gate validates, enters the target's context, runs the target's entry  *)
(* function and leaves again.  The entry function is arbitrary code: until *)
(* it returns it may call any gate itself, and create or revoke            *)
(* capabilities and (un)register services and operations.                  *)
(***************************************************************************)
EXTENDS Validate, Sequences

CONSTANTS MaxDepth,       \* bound on nested calls (the C stack in the code)
          CallRequests    \* the requests callers make, of all Requests

ASSUME GateAssumption == MaxDepth \in Nat \ {0} /\ CallRequests \subseteq Requests

VARIABLES
    g_current_service_id,
    g_current_domain,
    frames   \* one per context_enter not left yet, innermost last: the
             \* previous_context it will restore, and (history) who was
             \* entered and the domain that service was registered with

contextVars == <<g_current_service_id, g_current_domain, frames>>
gateVars == <<capVars, service_table, contextVars>>

GateInit ==
    /\ CapInit
    /\ lettuce_service_registry_init
    /\ g_current_service_id = 0
    /\ g_current_domain = 0
    /\ frames = <<>>

lettuce_protection_enter(target_domain) ==
    g_current_domain' = IF target_domain # 0 THEN target_domain ELSE g_current_domain

LeaveNothing(previous_domain) == UNCHANGED g_current_domain     \* mutant
lettuce_protection_leave(previous_domain) == g_current_domain' = previous_domain

lettuce_context_enter(target_service_id, target_domain_id) ==
    /\ frames' = Append(frames, [service_id |-> g_current_service_id,
                                 domain_id |-> g_current_domain,
                                 callee |-> target_service_id,
                                 home |-> target_domain_id])
    /\ g_current_service_id' = target_service_id
    /\ lettuce_protection_enter(target_domain_id)

lettuce_context_leave(previous_context) ==
    /\ lettuce_protection_leave(previous_context.domain_id)
    /\ g_current_service_id' = previous_context.service_id
    /\ frames' = SubSeq(frames, 1, Len(frames) - 1)

\* The kernel starts a registered service in its own context.
Start(service_id) ==
    /\ frames = <<>>
    /\ Registered(service_id)
    /\ lettuce_context_enter(service_id, Descriptor(service_id).domain)

\* A gate up to the call of the entry function.
GateEnters(gate, request) ==
    /\ GateStatus(gate, g_current_service_id, request) = "OK"
    /\ lettuce_context_enter(Descriptor(request.target).id,
                             Descriptor(request.target).domain)

lettuce_same_layer_gate(request) == GateEnters("same", request)
lettuce_cross_layer_gate(request) == GateEnters("cross", request)
lettuce_elevator_gate(request) == GateEnters("elevator", request)

\* A gate that returns the status of its validation.
GateRefuses ==
    /\ ~ \A gate \in Gates, request \in CallRequests :
           GateStatus(gate, g_current_service_id, request) = "OK"
    /\ UNCHANGED contextVars

\* The running entry function returns and its gate leaves the context.
EntryReturns ==
    /\ frames # <<>>
    /\ lettuce_context_leave(frames[Len(frames)])

Calls ==
    /\ \/ \E service_id \in ServiceArgs : Start(service_id)
       \/ /\ frames # <<>> /\ Len(frames) < MaxDepth
          /\ \E request \in CallRequests :
               \/ lettuce_same_layer_gate(request)
               \/ lettuce_cross_layer_gate(request)
               \/ lettuce_elevator_gate(request)
       \/ frames # <<>> /\ GateRefuses
       \/ EntryReturns
    /\ UNCHANGED <<capVars, service_table>>

Administration ==
    /\ \/ CapChange /\ UNCHANGED service_table
       \/ RegistryNext /\ UNCHANGED capVars
    /\ UNCHANGED contextVars

GateNext == Calls \/ Administration

GateSpec == GateInit /\ [][GateNext]_gateVars

-----------------------------------------------------------------------------
\* The three validators agree with the rule: a request, well formed or not,
\* passes its gate exactly when both services are active and on the layers the
\* gate is for, the operation is mapped, and the caller itself holds an
\* unrevoked grant for exactly this target, operation and resource - with
\* CRITICAL as well as CALL for Elevator.
GateDecides ==
    \A gate \in Gates, caller \in ServiceArgs, request \in CallRequests :
      GateStatus(gate, caller, request) = "OK" <=> MayEnter(gate, caller, request)

\* What is current while the callee of frame i is the innermost one: the
\* context that frame i + 1 saved, or the live variables.
ContextIn(i) ==
    IF i = Len(frames)
    THEN [service_id |-> g_current_service_id, domain_id |-> g_current_domain]
    ELSE [service_id |-> frames[i + 1].service_id, domain_id |-> frames[i + 1].domain_id]

\* "A nested call changes both and must restore both": at every depth the
\* context is that of the service entered there - whatever the calls nested in
\* it did and however they ended, and even if the service was unregistered
\* meanwhile - and with no call in progress it is the kernel's own.
ContextFollowsCalls ==
    /\ \A i \in 1 .. Len(frames) :
         /\ ContextIn(i).service_id = frames[i].callee
         /\ frames[i].home # 0 => ContextIn(i).domain_id = frames[i].home
    /\ frames = <<>> => g_current_service_id = 0 /\ g_current_domain = 0

\* A service always runs in the domain it was registered with.
RunsInOwnDomain ==
    \A i \in 1 .. Len(frames) : ContextIn(i).domain_id = frames[i].home

\* Who is running changes only by starting, returning, or through a gate whose
\* rule the step satisfies: the kernel never runs a service on a grant that was
\* revoked, or an operation that was unmapped, while the caller was running.
IdentityChangesThroughGates ==
    [][g_current_service_id' # g_current_service_id
         => \/ frames = <<>> \/ Len(frames') < Len(frames)
            \/ \E gate \in Gates, request \in CallRequests :
                 /\ MayEnter(gate, g_current_service_id, request)
                 /\ request.target = g_current_service_id']_gateVars
=============================================================================
