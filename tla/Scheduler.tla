----------------------------- MODULE Scheduler ------------------------------
(***************************************************************************)
(* The scheduler core (kernel/scheduler/scheduler.c) on one ARM64 CPU,     *)
(* with the timer interrupt, the yield call and the nanosleep system call  *)
(* that enter it (kernel/arch/arm64/cpu.c) and the way the kernel starts   *)
(* its first task (kernel/arch/arm64/main.c).  frame is the trap frame,    *)
(* that is the registers of whatever runs at EL0.                          *)
(***************************************************************************)
EXTENDS SchedPolicy
LOCAL INSTANCE FiniteSetsExt

CONSTANTS Policies,        \* subset of {"RR", "EEVDF"}
          PreemptLimits,   \* values of g_preempt_limit; 0 is no limit
          MaxSleep,        \* bound: longest sleep asked for, in ticks
          StepCount,       \* bound: a task's progress is counted modulo this
          MaxVirtualTime   \* bound on EEVDF's virtual times

ASSUME SchedulerAssumption ==
    /\ Policies \subseteq {"RR", "EEVDF"} /\ Policies # {}
    /\ PreemptLimits \subseteq Nat
    /\ MaxSleep \in Nat /\ StepCount \in Nat \ {0} /\ MaxVirtualTime \in Nat

VARIABLES
    g_current_policy_type,
    g_rr_last_idx, g_eevdf_vsys,
    g_scheduler_active,
    g_preempt_limit, g_preempt_count,  \* the count stops at the limit
    g_current_service_id,              \* kernel/main/context.c
    current_domain,                    \* kernel/arch/arm64/mmu.c
    frame,
    reached,   \* history: the step each task has really reached
    slept      \* history: the tasks that have called nanosleep

policyVars == <<g_current_policy_type, g_rr_last_idx, g_eevdf_vsys>>
switchVars == <<g_current_service_id, current_domain, frame>>
controlVars == <<g_scheduler_active, g_preempt_limit, g_preempt_count>>
history == <<reached, slept>>
vars == <<g_task_table, g_current_task, policyVars, switchVars, controlVars, history>>

Current == [tasks |-> g_task_table, last_idx |-> g_rr_last_idx, vsys |-> g_eevdf_vsys]
Adopt(S) ==
    g_task_table' = S.tasks /\ g_rr_last_idx' = S.last_idx /\ g_eevdf_vsys' = S.vsys

Init ==
    /\ TaskInit
    /\ g_current_policy_type \in Policies /\ g_rr_last_idx = 0 /\ g_eevdf_vsys = 0
    /\ g_scheduler_active = FALSE /\ g_preempt_limit \in PreemptLimits /\ g_preempt_count = 0
    /\ g_current_service_id = 0 /\ current_domain = 0 /\ frame = NoContext
    /\ reached = [i \in TaskSlots |-> 0] /\ slept = {}

\* scheduler_init, followed by set_preempt_limit as in every use of it.
lettuce_scheduler_init ==
    /\ lettuce_task_init_subsystem
    /\ g_scheduler_active' = FALSE
    /\ g_preempt_count' = 0
    /\ g_preempt_limit' \in PreemptLimits
    /\ IF g_current_policy_type = "RR"
       THEN g_rr_last_idx' = 0 /\ UNCHANGED g_eevdf_vsys
       ELSE g_eevdf_vsys' = 0 /\ UNCHANGED g_rr_last_idx
    /\ reached' = [i \in TaskSlots |-> 0] /\ slept' = {}
    /\ UNCHANGED <<g_current_policy_type, switchVars>>

\* Every caller chooses the policy right after scheduler_init, before there is
\* a task; the policy's private state starts afresh.
lettuce_scheduler_set_policy(policy) ==
    /\ ~g_scheduler_active /\ Allocated = {}
    /\ g_current_policy_type' = policy
    /\ IF policy = "RR"
       THEN g_rr_last_idx' = 0 /\ UNCHANGED g_eevdf_vsys
       ELSE g_eevdf_vsys' = 0 /\ UNCHANGED g_rr_last_idx
    /\ UNCHANGED <<g_task_table, g_current_task, switchVars, controlVars, history>>

lettuce_scheduler_stop ==
    /\ g_scheduler_active' = FALSE
    /\ UNCHANGED <<g_task_table, g_current_task, policyVars, switchVars,
                   g_preempt_limit, g_preempt_count, history>>

\* A task as lettuce_task_create leaves it: it has neither run nor slept.
JustCreated(slot) ==
    LET task == g_task_table[slot] IN
    /\ task.state = "READY" /\ task.context = EntryContext(slot, task.service_id)
    /\ task.time_slice_ticks = DefaultSlice /\ task.vruntime = 0 /\ task.vdeadline = 0

\* The kernel makes a task it has created current, starts the scheduler and
\* enters EL0 where the task begins.
Launch(slot) ==
    /\ ~g_scheduler_active
    /\ g_current_task = NoTask
    /\ JustCreated(slot)
    /\ g_task_table' = [g_task_table EXCEPT ![slot].state = "RUNNING"]
    /\ g_current_task' = slot
    /\ g_scheduler_active' = TRUE
    /\ current_domain' = g_task_table[slot].domain_id
    /\ g_current_service_id' = g_task_table[slot].service_id
    /\ frame' = g_task_table[slot].context
    /\ UNCHANGED <<policyVars, g_preempt_limit, g_preempt_count, history>>

-----------------------------------------------------------------------------
(***************************************************************************)
(* do_schedule, from the task table it is called with.                     *)
(***************************************************************************)
WakeAllButLast(S) ==                  \* mutant: the scan stops a slot early
    [S EXCEPT !.tasks = [i \in TaskSlots |->
       IF Found(S, i) /\ S.tasks[i].state = "SLEEPING" /\ S.tasks[i].sleep = 0
          /\ i < MaxTasks - 1
       THEN on_task_ready(g_current_policy_type, [S.tasks[i] EXCEPT !.state = "READY"], S.vsys)
       ELSE S.tasks[i]]]
Wake(S) ==
    [S EXCEPT !.tasks = [i \in TaskSlots |->
       IF Found(S, i) /\ S.tasks[i].state = "SLEEPING" /\ S.tasks[i].sleep = 0
       THEN on_task_ready(g_current_policy_type, [S.tasks[i] EXCEPT !.state = "READY"], S.vsys)
       ELSE S.tasks[i]]]

SaveNothing(S, curr) ==               \* mutant: the registers are not saved
    [S EXCEPT !.tasks[curr] = on_task_ready(g_current_policy_type,
       [@ EXCEPT !.state = "READY"], S.vsys)]
SaveWhileRunning(S, curr) ==          \* mutant: the task stays RUNNING
    [S EXCEPT !.tasks[curr] = on_task_ready(g_current_policy_type,
       [@ EXCEPT !.context = frame], S.vsys)]
\* The registers are saved and the task joins the ready ones.
Preempted(S, curr) ==
    [S EXCEPT !.tasks[curr] = on_task_ready(g_current_policy_type,
       [@ EXCEPT !.context = frame, !.state = "READY"], S.vsys)]

SwitchKeepingService(slot) ==         \* mutant: the identity is not handed over
    UNCHANGED <<g_current_service_id, current_domain>>
\* The domain is entered only when it is not the one of the task left.
Handoff(slot) ==
    /\ current_domain' = IF g_current_task # NoTask
                            /\ g_task_table[slot].domain_id = g_task_table[g_current_task].domain_id
                         THEN current_domain ELSE g_task_table[slot].domain_id
    /\ g_current_service_id' = g_task_table[slot].service_id

\* At the limit the scheduler stops and the kernel runs on instead of the task.
CountPreemption(is_preemption) ==
    /\ g_preempt_count' = IF is_preemption THEN Min({g_preempt_count + 1, g_preempt_limit})
                          ELSE g_preempt_count
    /\ g_scheduler_active' = ~(is_preemption /\ g_preempt_limit > 0
                               /\ g_preempt_count + 1 >= g_preempt_limit)
    /\ UNCHANGED g_preempt_limit

\* What the trap handler leaves in the frame when do_schedule is back: the
\* result of syscall, the task whose system call this is, goes to x0.  That is
\* of note when the registers are another task's by then.
Return(registers, syscall) ==
    IF syscall \in {NoTask, registers.task} THEN registers
    ELSE [registers EXCEPT !.x0 = syscall]

SwitchTo(S, slot, is_preemption, syscall) ==
    /\ Adopt([S EXCEPT !.tasks[slot].state = "RUNNING"])
    /\ g_current_task' = slot
    /\ Handoff(slot)
    /\ frame' = Return(S.tasks[slot].context, syscall)
    /\ CountPreemption(is_preemption)

\* No switch: the current task, if any, stays in the CPU.
Stay(S, syscall) ==
    /\ Adopt(S)
    /\ frame' = Return(frame, syscall)
    /\ UNCHANGED <<g_current_task, g_current_service_id, current_domain, controlVars>>

Resume(S, slot) == [Renew(S, slot) EXCEPT !.tasks[slot].state = "RUNNING"]

\* From the policy's choice on; \E binds an intermediate state by its value.
PickAndSwitch(S, is_preemption, syscall) ==
    LET curr == g_current_task IN
    \E pick \in pick_next(g_current_policy_type, S, curr) :
      \/ /\ pick.task = NoTask
         /\ Stay(IF curr # NoTask /\ S.tasks[curr].state = "READY"
                 THEN Resume(pick.S, curr) ELSE pick.S, syscall)
      \/ /\ pick.task # NoTask /\ pick.task = curr
         /\ Stay(Resume(pick.S, curr), syscall)
      \/ /\ pick.task \notin {NoTask, curr}
         /\ SwitchTo(pick.S, pick.task, is_preemption, syscall)

do_schedule(tasks, is_preemption, syscall) ==
    LET curr == g_current_task
        called == [Current EXCEPT !.tasks = tasks]
    IN \/ ~g_scheduler_active /\ Stay(called, syscall)
       \/ /\ g_scheduler_active
          /\ \E woken \in {Wake(called)} :
               \/ /\ ~IsRunning(woken, curr)
                  /\ PickAndSwitch(woken, is_preemption, syscall)
               \/ /\ IsRunning(woken, curr)
                  /\ \E ticked \in {on_tick(g_current_policy_type, woken, curr)} :
                       IF is_preemption /\ ticked.tasks[curr].time_slice_ticks > 0
                       THEN Stay(ticked, syscall)
                       ELSE \E saved \in {Preempted(ticked, curr)} :
                              PickAndSwitch(saved, is_preemption, syscall)

-----------------------------------------------------------------------------
InBound ==
    g_eevdf_vsys < MaxVirtualTime /\ \A i \in TaskSlots : g_task_table[i].vruntime < MaxVirtualTime

\* One timer tick passes: every sleeper has one tick less to go.
Elapse(tasks) ==
    [i \in TaskSlots |-> [tasks[i] EXCEPT !.sleep = IF @ > 0 THEN @ - 1 ELSE 0]]

\* lettuce_arch_irq_lower_el_handler: the timer interrupts EL0.
TimerInterrupt ==
    /\ g_scheduler_active
    /\ InBound
    /\ do_schedule(Elapse(g_task_table), TRUE, NoTask)
    /\ UNCHANGED <<g_current_policy_type, history>>

\* lettuce_arch_irq_el1_handler: the timer interrupts the kernel.
TimerInterruptInKernel ==
    /\ ~g_scheduler_active
    /\ g_task_table' = Elapse(g_task_table)
    /\ UNCHANGED <<g_current_task, policyVars, switchVars, controlVars, history>>

\* The two calls below come from EL0; a task that stopped being scheduled may
\* still be current while the kernel runs a service that is no task.
lettuce_scheduler_yield ==
    /\ g_current_task # NoTask
    /\ InBound
    /\ do_schedule([g_task_table EXCEPT ![g_current_task].time_slice_ticks = 0], FALSE, NoTask)
    /\ UNCHANGED <<g_current_policy_type, history>>

\* lettuce_kernel_sys_nanosleep, with lettuce_scheduler_sleep_current.
lettuce_kernel_sys_nanosleep(ticks) ==
    /\ g_current_task # NoTask
    /\ InBound
    /\ do_schedule([g_task_table EXCEPT ![g_current_task].sleep = ticks,
                                        ![g_current_task].state = "SLEEPING"],
                   FALSE, g_current_task)
    /\ slept' = slept \cup {g_current_task}
    /\ UNCHANGED <<g_current_policy_type, reached>>

\* EL0 runs the task that is current: it makes a step and has used x0.
InTask == g_scheduler_active /\ g_current_task # NoTask
Execute ==
    /\ InTask
    /\ LET next == (frame.step + 1) % StepCount IN
         /\ frame' = [frame EXCEPT !.step = next, !.x0 = NoTask]
         /\ reached' = [reached EXCEPT ![g_current_task] = next]
    /\ UNCHANGED <<g_task_table, g_current_task, policyVars, controlVars,
                   g_current_service_id, current_domain, slept>>

\* A slot given to a new task starts its history afresh.
Administration ==
    /\ TaskAdministration
    /\ LET made == {i \in TaskSlots : g_task_table'[i].state = "READY"
                                    /\ i \in Vacant}
       IN /\ reached' = [i \in TaskSlots |-> IF i \in made THEN 0 ELSE reached[i]]
          /\ slept' = slept \ made
    /\ UNCHANGED <<policyVars, switchVars, controlVars>>

Next ==
    \/ lettuce_scheduler_init
    \/ \E policy \in Policies : lettuce_scheduler_set_policy(policy)
    \/ lettuce_scheduler_stop
    \/ \E slot \in TaskSlots : Launch(slot)
    \/ TimerInterrupt
    \/ TimerInterruptInKernel
    \/ lettuce_scheduler_yield
    \/ \E ticks \in 0 .. MaxSleep : lettuce_kernel_sys_nanosleep(ticks)
    \/ Execute
    \/ Administration

Spec == Init /\ [][Next]_vars

\* The generic timer is periodic, so while EL0 runs its interrupt comes again.
FairSpec == Spec /\ WF_vars(TimerInterrupt)

-----------------------------------------------------------------------------
\* At most one task is RUNNING, and it is the current one.
RunningIsCurrent ==
    \A i \in TaskSlots : g_task_table[i].state = "RUNNING" => i = g_current_task

\* The service identity and the protection domain in force are those of the
\* current task, although a switch within a domain does not enter it.
IdentityFollowsTask ==
    InTask => /\ g_current_service_id = g_task_table[g_current_task].service_id
              /\ current_domain = g_task_table[g_current_task].domain_id

\* A task that only ever was preempted or yielded resumes with its own
\* registers, exactly where it stopped.
PreemptionKeepsContext ==
    InTask /\ g_current_task \notin slept
      => frame.task = g_current_task /\ frame.step = reached[g_current_task]

\* "register contexts are strictly preserved in the common scheduler core":
\* whatever made a task stop, it resumes where it stopped.
ContextPreserved ==
    InTask => frame.task = g_current_task /\ frame.step = reached[g_current_task]

\* A system call's result is left in the registers of the task that made it.
ResultGoesToCaller ==
    InTask => frame.x0 = NoTask

\* A task that sleeps does not run: EL0 executes only the RUNNING task.
SleepersWait ==
    InTask => g_task_table[g_current_task].state # "SLEEPING"

\* "Tracks monotonic virtual progression": system virtual time never goes back
\* while tasks are scheduled; only initialising the policy, which leaves the
\* tasks alone or clears them all, sets it to zero.
VirtualTimeMonotonic ==
    [][\/ g_eevdf_vsys' >= g_eevdf_vsys
       \/ g_eevdf_vsys' = 0 /\ g_task_table' \in {g_task_table, [i \in TaskSlots |-> UnusedTask]}]_vars

\* The virtual lengths a slice may have, by the weights and slices asked for.
TaskWeights == {BaseWeight} \cup {AllowedWeight(w) : w \in Weights}
TaskSlices == {DefaultSlice} \cup {AllowedSlice(r) : r \in RequestedSlices}
SliceLengths == {(slice * Scale) \div weight : slice \in TaskSlices, weight \in TaskWeights}

Competing(i) == g_task_table[i].state \in {"READY", "RUNNING"}
InScan(i) == g_task_table[i].generation <= ScanGenerations

\* EEVDF, "lag bounds": no task that the scans find gets ahead of system virtual
\* time by more than a slice, whatever weights and slices are set meanwhile: it
\* is given one only when it is not ahead.
NeverFarAhead ==
    \A i \in TaskSlots :
      Competing(i) /\ InScan(i)
        => \E d \in SliceLengths : g_task_table[i].vruntime - g_eevdf_vsys <= d

\* "If task is new or behind system time, align": nor does a task, new or not,
\* compete from further behind.
NewTaskAligned ==
    \A i \in TaskSlots :
      Competing(i) => \E d \in SliceLengths : g_eevdf_vsys - g_task_table[i].vruntime <= d

\* The slots round robin's circular scan passes from last to slot i.
SlotsBetween(last, i) == IF i > last THEN i - last - 1 ELSE i - last - 1 + MaxTasks
Waiting(i) == g_task_table[i].state = "READY" /\ InScan(i)

\* Round robin, the "circular scan": whatever else tasks do, one that is ready
\* and waits never falls back in the scan's order, and comes strictly nearer
\* with every switch from one task to another; so a switch to it is never more
\* than MaxTasks switches away.
TurnComesNearer ==
    [][g_current_policy_type = "RR" =>
         \A i \in TaskSlots :
           Waiting(i) /\ Waiting(i)' =>
             LET before == SlotsBetween(g_rr_last_idx, i)
                 after == SlotsBetween(g_rr_last_idx', i)
             IN /\ after <= before
                /\ g_current_task # NoTask /\ g_current_task' \notin {g_current_task, NoTask}
                     => after < before]_vars

\* Every ready task runs in the end, in whatever slot and generation it is.
EveryReadyTaskRuns ==
    \A i \in TaskSlots :
      (g_scheduler_active /\ g_task_table[i].state = "READY")
        ~> (~g_scheduler_active \/ g_task_table[i].state # "READY")
=============================================================================
