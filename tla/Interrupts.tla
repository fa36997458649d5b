----------------------------- MODULE Interrupts -----------------------------
(***************************************************************************)
(* How the timer interrupt reaches the scheduler on ARM64: the interrupt   *)
(* controller (kernel/arch/arm64/gic.c), the interrupt mask (irq.S), the   *)
(* instructions by which lettuce_el0_enter leaves for EL0 (entry.S) and    *)
(* the two interrupt handlers (cpu.c), in the order in which               *)
(* kernel/arch/arm64/main.c uses them.                                     *)
(*                                                                         *)
(* Taking an interrupt overwrites ELR_EL1 and SPSR_EL1 and masks further   *)
(* ones, so a handler runs to its exception return undisturbed and is one  *)
(* step here.  The timer is reduced to its line: Clock has the arithmetic. *)
(***************************************************************************)
EXTENDS Scheduler

VARIABLES
    at,          \* where the CPU is: the kernel, lettuce_el0_enter, EL0 or halted
    masked,      \* PSTATE.I
    elr, spsr,   \* ELR_EL1, a place, and SPSR_EL1, an exception level
    line,        \* the timer has reached its compare value
    forwarding,  \* the distributor forwards GIC_INTID_VTIMER to the CPU
    active,      \* the timer interrupt is acknowledged and not ended
    irq,         \* the CPU's interrupt input; it follows the GIC with a delay
    disturbed    \* history: an interrupt came between ELR_EL1 and the eret

gicVars == <<forwarding, active>>
cpuVars == <<at, masked, elr, spsr>>
irqVars == <<cpuVars, line, gicVars, irq, disturbed>>
machineVars == <<vars, irqVars>>

\* lettuce_el0_enter before it writes ELR_EL1, after that, and after SPSR_EL1.
EntryPlaces == {"enter", "elr written", "spsr written"}
AtEL1 == at \in {"kernel"} \cup EntryPlaces

MachineInit ==
    /\ Init
    /\ at = "kernel" /\ masked = TRUE /\ elr = "kernel" /\ spsr = "EL1"
    /\ line = FALSE /\ forwarding = FALSE /\ active = FALSE /\ irq = FALSE
    /\ disturbed = FALSE

-----------------------------------------------------------------------------
(***************************************************************************)
(* Hardware.                                                               *)
(***************************************************************************)
\* The timer, programmed once and again at every tick, reaches its value.
Expire ==
    /\ forwarding /\ ~line
    /\ line' = TRUE
    /\ UNCHANGED <<vars, cpuVars, gicVars, irq, disturbed>>

Pending == forwarding /\ line /\ ~active

\* The CPU's input follows, so an interrupt may still be taken for a line that
\* fell meanwhile: acknowledging it finds none.
Propagate ==
    /\ irq # Pending
    /\ irq' = Pending
    /\ UNCHANGED <<vars, cpuVars, line, gicVars, disturbed>>

-----------------------------------------------------------------------------
(***************************************************************************)
(* The kernel, between runs of EL0.                                        *)
(***************************************************************************)
\* lettuce_gic_init, lettuce_timer_init and lettuce_gic_enable_interrupt.
SetUpInterrupts ==
    /\ at = "kernel" /\ ~forwarding /\ Allocated = {}
    /\ forwarding' = TRUE /\ active' = FALSE /\ line' = FALSE
    /\ UNCHANGED <<vars, cpuVars, irq, disturbed>>

\* lettuce_timer_init again, for another use of the scheduler.
lettuce_timer_init ==
    /\ at = "kernel" /\ forwarding
    /\ line' = FALSE
    /\ UNCHANGED <<vars, cpuVars, gicVars, irq, disturbed>>

\* lettuce_arch_irq_enable and lettuce_arch_irq_disable.
SetMask ==
    /\ at = "kernel" /\ Allocated = {}
    /\ masked' = ~masked
    /\ UNCHANGED <<vars, at, elr, spsr, line, gicVars, irq, disturbed>>

\* main.c starts the scheduler, enables interrupts and calls lettuce_el0_enter.
EnterTask(slot) ==
    /\ at = "kernel" /\ forwarding
    /\ Launch(slot)
    /\ at' = "enter" /\ masked' = FALSE
    /\ UNCHANGED <<elr, spsr, line, gicVars, irq, disturbed>>

ManageTasks ==
    /\ forwarding
    /\ \/ at = "kernel" /\ lettuce_scheduler_init
       \/ at = "kernel" /\ \E policy \in Policies : lettuce_scheduler_set_policy(policy)
       \/ at \in {"kernel", "EL0"} /\ Administration
    /\ UNCHANGED irqVars

-----------------------------------------------------------------------------
(***************************************************************************)
(* lettuce_el0_enter.                                                      *)
(***************************************************************************)
WriteElr ==
    /\ at = "enter"
    /\ at' = "elr written" /\ elr' = "EL0"
    /\ UNCHANGED <<vars, masked, spsr, line, gicVars, irq, disturbed>>

LeaveSpsr ==     \* mutant: SPSR_EL1 is left as the last handler set it
    /\ at = "elr written"
    /\ at' = "spsr written"
    /\ UNCHANGED <<vars, masked, elr, spsr, line, gicVars, irq, disturbed>>
WriteSpsr ==
    /\ at = "elr written"
    /\ at' = "spsr written" /\ spsr' = "EL0"
    /\ UNCHANGED <<vars, masked, elr, line, gicVars, irq, disturbed>>

\* The exception return, to the place in ELR_EL1 on the level in SPSR_EL1.  EL0
\* cannot execute the kernel's code: the instruction abort halts the machine.
Eret ==
    /\ at = "spsr written"
    /\ at' = IF spsr = "EL1" \/ elr = "EL0" THEN elr ELSE "halted"
    /\ masked' = FALSE
    /\ UNCHANGED <<vars, elr, spsr, line, gicVars, irq, disturbed>>

\* lettuce_el0_resume_kernel, from a handler: the mask stays set.
lettuce_el0_resume_kernel == at' = "kernel" /\ masked' = TRUE

-----------------------------------------------------------------------------
(***************************************************************************)
(* The interrupt handlers.                                                 *)
(***************************************************************************)
\* lettuce_gic_acknowledge, lettuce_timer_irq_handler if it is the timer, and
\* lettuce_gic_end_of_interrupt unless it is spurious.
AcknowledgeAndEnd ==
    /\ line' = IF Pending THEN FALSE ELSE line
    /\ UNCHANGED gicVars

Ticked == IF Pending THEN Elapse(g_task_table) ELSE g_task_table

TakeIrq == irq /\ ~masked /\ irq' = FALSE

\* Returning to where it was, the kernel finds both registers changed.
lettuce_arch_irq_el1_handler ==
    /\ AtEL1 /\ TakeIrq
    /\ AcknowledgeAndEnd
    /\ g_task_table' = Ticked
    /\ elr' = at /\ spsr' = "EL1"
    /\ disturbed' = (disturbed \/ at \in {"elr written", "spsr written"})
    /\ UNCHANGED <<g_current_task, policyVars, switchVars, controlVars, history,
                   at, masked>>

\* do_schedule at its preemption limit ends the interrupt and leaves for the
\* kernel, never to come back to the handler.
LimitReached == g_scheduler_active /\ ~g_scheduler_active'

ForgetToEnd == active' = LimitReached     \* mutant: the limit's path does not end it
EndOfInterrupt == active' = FALSE

SchedulerTick ==
    /\ at = "EL0" /\ TakeIrq
    /\ Pending /\ g_scheduler_active
    /\ TimerInterrupt
    /\ line' = FALSE
    /\ EndOfInterrupt
    /\ IF LimitReached THEN lettuce_el0_resume_kernel ELSE UNCHANGED <<at, masked>>
    /\ UNCHANGED <<elr, spsr, forwarding, disturbed>>

PlainTick ==
    /\ at = "EL0" /\ TakeIrq
    /\ ~(Pending /\ g_scheduler_active)
    /\ AcknowledgeAndEnd
    /\ g_task_table' = Ticked
    /\ UNCHANGED <<g_current_task, policyVars, switchVars, controlVars, history,
                   cpuVars, disturbed>>

lettuce_arch_irq_lower_el_handler == SchedulerTick \/ PlainTick

-----------------------------------------------------------------------------
(***************************************************************************)
(* System calls from EL0.                                                  *)
(***************************************************************************)
Svc ==
    /\ at = "EL0"
    /\ \/ lettuce_scheduler_yield
       \/ \E ticks \in 0 .. MaxSleep : lettuce_kernel_sys_nanosleep(ticks)
       \/ Execute
    /\ UNCHANGED irqVars

\* LETTUCE_SVC_RETURN at the top level; the kernel then stops the scheduler.
SvcReturn ==
    /\ at = "EL0"
    /\ lettuce_el0_resume_kernel
    /\ lettuce_scheduler_stop
    /\ UNCHANGED <<elr, spsr, line, gicVars, irq, disturbed>>

MachineNext ==
    \/ Expire \/ Propagate
    \/ SetUpInterrupts \/ lettuce_timer_init \/ SetMask
    \/ \E slot \in TaskSlots : EnterTask(slot)
    \/ ManageTasks
    \/ WriteElr \/ WriteSpsr \/ Eret
    \/ lettuce_arch_irq_el1_handler
    \/ lettuce_arch_irq_lower_el_handler
    \/ Svc
    \/ SvcReturn

MachineSpec == MachineInit /\ [][MachineNext]_machineVars

\* The hardware is never idle for ever: the timer counts, the GIC forwards what
\* is pending, and the CPU takes what is not masked and executes the entry.
FairMachine ==
    /\ MachineSpec
    /\ WF_machineVars(Expire) /\ WF_machineVars(Propagate)
    /\ WF_machineVars(lettuce_arch_irq_lower_el_handler)
    /\ WF_machineVars(WriteElr) /\ WF_machineVars(WriteSpsr) /\ WF_machineVars(Eret)

-----------------------------------------------------------------------------
\* "user execution starts only with the intended stack and program counter":
\* when lettuce_el0_enter is about to execute its eret, ELR_EL1 and SPSR_EL1 are
\* the ones it prepared, and EL0 never starts on the kernel's program counter.
EntersAsIntended ==
    /\ at # "halted"
    /\ at = "spsr written" => elr = "EL0" /\ spsr = "EL0"

\* The same, but for an interrupt between the first write and the eret: those
\* that came earlier, whose handlers also left their own values in the two
\* registers, do no harm.
UndisturbedEntry == ~disturbed => EntersAsIntended

\* While EL0 runs, every expiry of the timer reaches a handler, or EL0 is left:
\* in particular after do_schedule has left a handler at the preemption limit,
\* never to return to it, and the kernel has started the scheduler once more.
ExpiryIsServed == (at = "EL0" /\ line) ~> (at # "EL0" \/ ~line)

Excused == ~g_scheduler_active \/ disturbed

\* Round robin, on nothing but the fairness of the hardware: a ready task that
\* the scan can find runs, or the scheduler is stopped, unless an interrupt
\* disturbed the entry of the first task.
ReadyTaskRuns ==
    \A i \in TaskSlots :
      (g_scheduler_active /\ i \in ReadyTasks(Current))
        ~> (Excused \/ g_task_table[i].state # "READY")

\* A sleeper that gave the CPU away is woken, on the same assumptions.
SleeperWakes ==
    \A i \in TaskSlots :
      (g_scheduler_active /\ Found(Current, i) /\ g_task_table[i].state = "SLEEPING")
        ~> (Excused \/ g_task_table[i].state # "SLEEPING" \/ g_current_task = i)
=============================================================================
