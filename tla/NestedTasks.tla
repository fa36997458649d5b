---------------------------- MODULE NestedTasks -----------------------------
(***************************************************************************)
(* Scheduled tasks that make protected calls: the scheduler together with  *)
(* the context stack of kernel/arch/arm64/cpu.c, which is one for the      *)
(* whole machine.  A call changes the service, the domain and the program  *)
(* counter; the timer may interrupt the callee and switch tasks.           *)
(*                                                                         *)
(* Which calls are authorized is a constant here (Validate models how that *)
(* is decided), and every service runs in the domain of its task kind.     *)
(***************************************************************************)
EXTENDS Scheduler, Sequences
LOCAL INSTANCE SequencesExt

CONSTANTS ContextMax,    \* LETTUCE_ARCH_CONTEXT_MAX (8)
          Authorized     \* pairs <<caller, target>> of services

VARIABLE g_context_stack

nestedVars == <<vars, g_context_stack>>

NestedInit == Init /\ g_context_stack = <<>>

\* LETTUCE_SVC_CALL and its like, from the code that runs; target is a kind.
SvcCall(target) ==
    /\ InTask
    /\ <<g_current_service_id, target[1]>> \in Authorized
    /\ Len(g_context_stack) < ContextMax
    /\ g_context_stack' = Append(g_context_stack,
         [service_id |-> g_current_service_id, domain_id |-> current_domain,
          task |-> frame.task, code |-> frame.code])
    /\ g_current_service_id' = target[1]
    /\ current_domain' = target[2]
    /\ frame' = [frame EXCEPT !.code = target[1]]
    /\ UNCHANGED <<g_task_table, g_current_task, policyVars, controlVars, history>>

\* LETTUCE_SVC_RETURN with a caller on the stack; the program counter and the
\* stack pointer become those of the caller that was saved last.
SvcReturn ==
    /\ InTask
    /\ g_context_stack # <<>>
    /\ LET caller == Last(g_context_stack) IN
         /\ g_current_service_id' = caller.service_id
         /\ current_domain' = caller.domain_id
         /\ frame' = [frame EXCEPT !.code = caller.code, !.task = caller.task]
    /\ g_context_stack' = Front(g_context_stack)
    /\ UNCHANGED <<g_task_table, g_current_task, policyVars, controlVars, history>>

\* LETTUCE_SVC_RETURN at the top level: the kernel goes on and, as after every
\* use of the scheduler, stops it.
SvcReturnToKernel ==
    /\ InTask
    /\ g_context_stack = <<>>
    /\ lettuce_scheduler_stop
    /\ UNCHANGED g_context_stack

NestedNext ==
    \/ \E target \in TaskKinds : SvcCall(target)
    \/ SvcReturn
    \/ SvcReturnToKernel
    \/ Next /\ UNCHANGED g_context_stack

NestedSpec == NestedInit /\ [][NestedNext]_nestedVars

-----------------------------------------------------------------------------
\* "Caller identity is obtained from kernel-owned execution state": the service
\* id in force is that of the service whose code executes.
IdentityIsCode ==
    InTask => g_current_service_id = frame.code

\* The domain handoff leaves a task in the domain of the service it executes.
DomainIsCode ==
    InTask => <<frame.code, current_domain>> \in TaskKinds

\* A return resumes a caller of the same task: a task that was only preempted
\* is never continued on the program counter and stack of another one.
ReturnsWithinTask ==
    InTask /\ g_current_task \notin slept => frame.task = g_current_task
=============================================================================
