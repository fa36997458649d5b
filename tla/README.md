# LettuceOs: TLA+ models, model checking and proofs

This directory specifies LettuceOs in TLA+. TLC checks the specifications on
small instances, and TLAPS proves, for every value of their constants,
safety properties of every part. Paths below are relative to `src/`.

## The system and its parts

LettuceOs is a small kernel with two builds: a host build, and an ARM64 image
in which services run at EL0. Services call each other through three gates
(same-layer, cross-layer, Elevator). A gate asks the service registry, the
dispatch table and the capability table, then switches the current service and
its protection domain, runs the target and switches back.

| Part | Source | Module |
|---|---|---|
| Capability table | `kernel/main/capability.c` | `Capability`, promise in `Authority`, proofs in `CapabilityProofs` |
| Service registry, dispatch | `kernel/main/kernel.c`, `dispatch.c` | `Registry`, proofs in `CallGatesProofs` |
| Validation of calls | `ipc/same_layer/validate.c`, `ipc/cross_layer/call.c`, `ipc/elevator/policy.c` | `Validate`, lemmas in `ValidateProofs` |
| Host gates, context, domains | `ipc/*/gate.c`, `elevator.c`, `kernel/main/context.c`, `protection.c` | `CallGates`, proofs in `CallGatesProofs` |
| Page allocator | `memory/allocator/fixed.c` | `Allocator`, promise in `PageOwnership`, proofs in `MemoryProofs` |
| Shared buffers | `memory/shared/buffer.c` | `SharedBuffer` (extends `Capability`), proofs in `CapabilityProofs` |
| Task table | `kernel/main/task.c` | `Task` |
| Scheduling policies | `kernel/scheduler/rr.c`, `eevdf.c` | `SchedPolicy`, proofs in `PolicyProofs` |
| Scheduler core, timer entry, yield, nanosleep | `kernel/scheduler/scheduler.c`, `kernel/arch/arm64/cpu.c` | `Scheduler`, proofs in `SchedulerProofs` |
| Scheduled tasks that make calls | `cpu.c` and `scheduler.c` together | `NestedTasks` |
| Domains and translation tables | `kernel/arch/arm64/mmu.c`, `elevator.S` | `Mmu`, with a TLB in `Tlb`, proofs in `MemoryProofs` |
| Calls, returns and faults at EL0 | `kernel/arch/arm64/cpu.c`, `entry.S`, `pac.S` | `El0` (extends `Validate`, `Mmu`), proofs in `El0Proofs` |
| Interrupt controller, mask, handlers, entry to EL0 | `kernel/arch/arm64/gic.c`, `irq.S`, `entry.S`, `cpu.c` | `Interrupts` (extends `Scheduler`), proofs in `SchedulerProofs` |
| Timer, clock_gettime, nanosleep | `kernel/arch/arm64/timer.c`, `runtime/posix/src/sys.c` | `Clock`, proofs in `PosixProofs` |
| POSIX-lite calls, descriptors, errno | `runtime/posix/src/fd.c`, `sys.c`, `posix.c`, `runtime/rust/src/posix.rs`, `cpu.c` | `Posix` (extends `Clock`), proofs in `PosixProofs` |
| Dynamic array | `shared/dynamic_array/dynamic_array.c` | `DynamicArray`, promise in `Deque`, proofs in `MemoryProofs` |

`MC*` modules only define constants for TLC. Definitions carry the names of the
C functions they stand for; `PROJECT.json` gives the lines of each. An operator
marked `mutant` is a plausible slip in the definition below it and is not part
of any specification.

Not modelled: boot, vectors and console (register access and straight-line
code), MTE and permission overlays (feature probes), the Rust runtime but for
`posix.rs` (forwarding wrappers without state), host stubs, and the self-tests
in `kernel/arch/arm64/main.c` (what they start, and in which order, is the
kernel's part of the models). The authentication self-test at EL1 and the record
of the last fault, which only self-tests read, are left out of `El0`; table
levels, addresses and cacheability out of `Mmu`. `lettuce_preempt_disable`,
`lettuce_gic_disable_interrupt`, interrupt priorities and the save and restore
of the interrupt mask have no caller, so preemption counts as always enabled.

## How state and actions correspond to the code

* **Handles.** A handle is `<<generation, slot + 1>>`, as the code packs it into
  32 bits. A generation wraps from its maximum to 1. The maximum is a constant
  (65535 in the code), so that wrapping happens within the runs.
* **Capability.** `capability_table`, `free_slots` and `free_slot_count` are the
  variables of the C file. `since` is history: how often a slot has been revoked
  since a handle to it was. Each operation has an action where it succeeds and
  one where it is refused.
* **Registry, Validate, CallGates.** Validation is a list of tests in the order
  of the code, of which the first that fails gives the status. `frames` is the C
  stack of `previous_context` values. An entry function is arbitrary: until it
  returns it may call gates, and registry and capabilities may change.
* **Allocator.** One record per page. Sizes are taken modulo `SizeModulus`.
* **SharedBuffer.** Content is reduced to who wrote it last.
* **Task, SchedPolicy, Scheduler.** A task record keeps every field the scheduler
  reads. A register context is reduced to the task it belongs to, the service
  whose code it executes, the task's progress, and whose system call put its
  result in x0. A wake deadline is kept as ticks to go. `do_schedule` is one
  action, from waking sleepers to counting preemptions, as it runs with
  interrupts masked.
* **NestedTasks.** The scheduler with the single `g_context_stack`. Which calls
  are authorized is a constant relation here.
* **Mmu, Tlb.** Pages are named by use. The TLB is hardware: it may cache any
  translation of the tables in force, keep it over switches, and drop it.
* **El0.** One run of a service at a time, as `run_el0_service` starts them. A
  program counter is the service and the run it belongs to. Registry and
  capabilities are set up as `main.c` does.
* **Interrupts.** `at` says where the CPU is, `elr` and `spsr` are the two
  registers an exception overwrites. `lettuce_el0_enter` is three steps, and an
  interrupt may come before each. A handler is one step, since it runs masked
  until it returns or leaves for the kernel. `Pending` is the GIC's view and
  `irq` the CPU's, which follows later, so that spurious acknowledgements occur.
* **Clock.** Counter, compare value and tick count. Interrupts may be late. The
  count and the deadline of nanosleep are taken modulo `Word` (2^64 in the code),
  and `tv_sec`, which the code does not check, is the number it is cast to. One
  task sleeps at a time; two sleepers occur in `Scheduler`.
  `sleep` is the task in nanosleep; `base` and its fields `began`, `since` and
  `wanted` are history.
* **Posix.** Two tasks under round robin. A wrapper is three steps: the SVC, the
  store to errno, and the caller's look at errno. `call` is where each task is,
  `context` the same as of the last time the scheduler saved the task. A task
  that goes to sleep is not saved, so it goes on from `context`, and the result
  of its nanosleep goes to the other task's x0. An address is NULL, the user's
  or the kernel's; a transfer is its length.
* **DynamicArray.** Allocation may fail at any time. Memory given by the
  allocator has arbitrary content.

## What the runs check

Eleven runs pass; one shows a disagreement. Each property has a comment in its
module that says what it means for the code.

| Run | Shows | Bounds |
|---|---|---|
| `capability` | free-slot stack exact; revoked handles dead until generations wrap; checks exact; implements `Authority` | 2 slots, 2 generations: both exhaustion and wrap occur |
| `call_gates` | the three gates decide as an independent rule does; operations never outlive their service; identity and domain are restored at every depth | 2 services on 2 layers in 2 domains, 1 capability slot, depth 2 |
| `allocator` | allocations never overlap; handles resolve for their owner; implements `PageOwnership` | 3 pages, so that fragmentation and multi-page spans occur; 3 generations |
| `shared_buffer` | writes only under a live matching capability; no residue after reuse; the owner decides | slots are reused and generations wrap |
| `scheduler` | one RUNNING task; identity and domain are the task's; preempted registers preserved | 2 tasks from 3 kinds (two services share a domain), slots reused once |
| `interrupts` | an entry to EL0 that no interrupt disturbs starts as prepared; every expiry is served; round robin: ready tasks run, sleepers wake | 3 tasks, one life each, with and without a preemption limit, so that the scheduler is started again after a handler was abandoned |
| `scheduler_policies` | EEVDF: virtual time monotonic, no task more than a slice ahead of it; round robin: the turn of a waiting task comes nearer with every switch | 3 tasks of 2 weights, slices of one tick, virtual time up to 8, twice the longest slice; sleepers wake at the next interrupt |
| `tlb` | cached translations never differ from the tables in force; EL0 isolation; write xor execute | 3 domains, a TLB of 4 entries, left-over entries at boot |
| `el0` | identity, domain and tables are those of the running code; the stack is the call chain; calls are authorized | stack depth 2, both Elevator paths, PAC on and off, faults at any time |
| `dynamic_array` | implements `Deque` in spite of wrap-around, growth and failing allocation | capacity up to 9: two growths |
| `posix` | readings exact; ticks never run ahead of time; sleeps not cut short; standard streams stay open; an undisturbed failure is reported by its own errno | 2 counts and 5 nanoseconds a second, so that divisions round; intervals of one and two counts; a sleep that lasts and two whose count wraps; descriptors one below and one beyond the table |
| `nested_return` | **violated**: a return pops another task's frame | 2 tasks |

A bound is enough when the cases that differ all occur within it: a table that
is full, empty and reused; a generation that wraps; a call within a call; a
virtual time beyond one slice. `CHECK_DEADLOCK FALSE` is set for `el0`, because
an unexpected exception halts the machine for good, and for `interrupts`,
because a disturbed entry to EL0 may.

**Fairness.** Only `interrupts` uses it, in `FairMachine`: weak fairness of the
timer's expiry, of the GIC's signal, of the interrupt taken at EL0 and of the
three instructions of the entry. All are hardware. The timer counts and is
re-armed by every interrupt (`timer.c`), the GIC signals what is pending, and
the CPU executes instructions and takes an interrupt that is not masked; EL0
runs unmasked. Nothing is assumed of what tasks or the kernel do.

## Where code and comments disagree

`nested_return` (`ReturnsWithinTask`): `g_context_stack` in `cpu.c` is one for
all tasks. When the timer switches tasks during a call, the other task's return
pops the first task's frame.

The configurations below belong to no run of `PROJECT.json`. Each gives a
counterexample with `tlc -config <cfg> <module>`; where one names several properties,
TLC stops at the first, and leaving that one out shows the next. The properties that do hold
are stated so that they exclude exactly these cases.

| Configuration | Module | Property | What happens |
|---|---|---|---|
| `CapabilityWrap.cfg` | `Capability` | `RevokedUnusable` | a handle works again once its slot's generations have gone round |
| `CallGatesDomainZero.cfg` | `MCCallGates` | `RunsInOwnDomain` | a service with domain 0 runs in its caller's domain |
| `AllocatorHandles.cfg` | `Allocator` | `IssuedHandlesResolve` | a size near `SIZE_MAX` becomes zero pages |
| | | `StaleHandlesFail` | a multi-page allocation sets generations of inner pages back |
| `SchedulerSleep.cfg` | `MCScheduler` | `ContextPreserved` | a sleeper's registers are not saved |
| | | `ResultGoesToCaller` | the result of nanosleep lands in the next task's x0 |
| | | `SleepersWait` | with nothing else ready a sleeping task keeps running |
| `SchedulerScan.cfg` | `MCScheduler` | `EveryReadyTaskRuns` | tasks beyond generation 10 of a slot are not found |
| `SchedulerNewTask.cfg` | `MCScheduler` | `NewTaskAligned` | a new task starts at virtual time 0, however late it is |
| `NestedTasksResume.cfg` | `MCNestedTasks` | `IdentityIsCode` | a callee resumes under its caller's identity |
| | | `DomainIsCode` | the next task inherits the callee's domain |
| `El0Recovery.cfg` | `MCEl0` | `RecoveryIsSafe` | frames of a faulted run are popped by the next one |
| `InterruptsEntry.cfg` | `MCInterrupts` | `EntersAsIntended` | an interrupt between the writes and the eret of `lettuce_el0_enter` overwrites ELR_EL1 and SPSR_EL1 |
| `ClockSleep.cfg` | `MCPosix` | `SleepEndsOnTime` | sleep in counter units is counted in timer ticks |
| `PosixErrno.cfg` | `MCPosix` | `ErrnoIsOwn` | one errno for all tasks: a caller finds another task's error |
| | | `ResultReturned` | a failed call's result is replaced by another task's nanosleep |

## What is proved

`CapabilityProofs` proves, for every table size, number of generations and set
of ids allowed by `CapabilityAssumption`:

* `CapTypeCorrect`: `CapSpec => []CapTypeOK`
* `FreeListIsExact`: `CapSpec => []FreeListExact`
* `RevokedHandlesStayDead`: `CapSpec => []RevokedStaysDead`
* `CheckIsExact`: `CapSpec => []CheckExact`
* `TableImplementsAuthority`: `CapSpec => ImplementsAuthority`

They rest on the inductive invariant `CapIInv`. `FreeListExact` alone is not
enough for the history property: `GenerationClock` adds that the generation of a
slot has advanced, modulo the maximum, by as much as `since` counts, and
`GrantWhileActive` that a slot holds a grant exactly while it is active. With
these, revoking a slot cannot bring an older handle back before the count
reaches the maximum, and a creation always takes an idle handle of `Authority`.

`CallGatesProofs` proves, for any number of services and operations, any depth
of calls and any capabilities (`RegistryAssumption`, `GateAssumption`):

* `RegistryTypeCorrect`: `GateSpec => []RegistryTypeOK`
* `OperationsAreBacked`: `GateSpec => []DispatchBacked`
* `GatesDecideByTheRule`: `GateSpec => []GateDecides`
* `ContextIsRestored`: `GateSpec => []ContextFollowsCalls`
* `IdentityIsGated`: `GateSpec => IdentityChangesThroughGates`

`DispatchBacked` needs that a slot without a service has no active operation
(`RegistryInv`), as registration reuses slots; unregistering establishes it by
clearing the operations too. That the outermost frame returns to the kernel's
own identity and domain (`ContextInv`) is needed for `ContextFollowsCalls`:
without it the last return could restore anything.

That the gates decide by the rule is the lemma `GateRule` of `ValidateProofs`. A
status is OK when no test of the validator's list fails (`FirstFailureIsOK`; the
first failure exists because a set of numbers has a least element). The tests
then differ from the rule in two ways. They ask the capability table, and the
rule the grants of `Authority`: `CheckMeaning` shows that these agree as long as
entries hold a grant exactly while they are active (`TableOK`). And the gates
ask that a registered operation has a function besides, which `DispatchBacked`
makes no further condition.

`CapabilityProofs` proves of the shared buffers, for every number of buffers and
of capabilities and every generation bound (`BufferAssumption`, `CapabilityAssumption`):

* `BuffersCarryNoResidue`: `Spec => []NoResidue`
* `RevokedBuffersStayDead`: `Spec => []RevokedBufferStaysDead`
* `WritesHoldAuthority`: `Spec => WritesAreAuthorized`
* `OwnersDecide`: `Spec => OwnerDecides`

`BufferInv` says of each slot (`GoodSlot`) that its generation is ahead of a
revoked handle's by as much as the history counts, and that content is there
only while the buffer is in use and was written in its present generation. Each
operation changes at most one slot (`SlotSteps`), so the theorems look at one.
Authority to write comes from `CheckMeaning` again.

`El0Proofs` proves, for any services, grants, requests and stack size
(`El0Assumption`: services have different ids and known domains, as in `main.c`):

* `El0TypeCorrect`: `El0Spec => []El0TypeOK`
* `El0IdentityIsCodes`: `El0Spec => []IdentityIsCodes`
* `StackFollowsCalls`: `El0Spec => []StackIsCallChain`
* `El0CallsHoldAuthority`: `El0Spec => El0CallsAuthorized`

`BootInv` says that the registry stays as `main.c` set it up. `IdentityInv` says
that the identity and domain in force, and those in every frame of the stack,
are those of the service whose code runs or will be resumed. That includes
frames a faulted run has left behind, which is why the identity is right even
where `El0Recovery.cfg` shows the wrong run being resumed. `ChainInv` compares
the stack with the history of calls, until a run ends in the middle of one. The
gate's decision is `GateRule`.

`MemoryProofs` proves, for every number of pages, page size, generation bound
and set of domains (`AllocatorAssumption`):

* `SpansStayIntact`: `AllocSpec => []SpansIntact`
* `HandlesResolve`: `AllocSpec => []IssuedHandlesResolve`, assuming `NoSizeWraps`
* `AllocatorImplementsOwnership`: `AllocSpec => ImplementsOwnership`

`SpansIntact` is inductive by itself: two spans with a page in common have the
same record there, so they are one span. The other two add what the records of
pages hold (`HandleInv`, `OwnerInv`). `NoSizeWraps` says that no size is rounded
to zero pages; `AllocatorHandles.cfg` shows that the theorem needs it. The
refinement does not: such a call changes nothing.

It proves of `Tlb`, for every list of distinct domain ids and every TLB size
(`MmuAssumption`, `TlbAssumption`):

* `TlbStaysCoherent`: `TlbSpec => []TlbCoherent`
* `El0StaysIsolated`: `TlbSpec => []El0Isolated`

The inductive invariant `TlbIInv` says that once the MMU is on, the kernel's
domain is the one in TTBR0 and every cached entry is a translation of some
domain's tables under that domain's ASID, or under the global tag. Coherence
alone is not inductive: it says nothing of entries of domains that are not in
force. That ASIDs differ (`AsidsDiffer`) and that global pages are mapped alike
in all domains (`GlobalPagesAgree`) then leaves an access one translation.

It proves of `DynamicArray`, for every initial capacity, growth factor and limit
(`ArrayAssumption`):

* `ArrayTypeCorrect`: `Spec => []ArrayTypeOK`
* `ArrayImplementsDeque`: `Spec => ImplementsDeque`

`ArrayInv` adds that every place between the head and the last element holds
something that was stored there; with the type alone a removal might return
what the allocator left. The refinement compares the array with `Deque` element
by element: places of different elements differ (`ActualDiffers`), and growth
unrolls a wrapped array in order.

`SchedulerProofs` proves, for every number of tasks, services and domains, every
sleep and either policy, without assuming anything of the constants:

* `OneTaskRuns`: `Spec => []RunningIsCurrent`
* `SwitchHandsOver`: `Spec => []IdentityFollowsTask`
* `PreemptionIsTransparent`: `Spec => []PreemptionKeepsContext`

`IInv` adds that the current task's slot is in use, so that no new task is
created under it (`CurrentInUse`); that the current task is RUNNING unless it has
slept (`CurrentRuns`), as only a RUNNING task's registers are saved; and that a
task out of the CPU keeps the registers it was stopped with (`SavedContexts`).
Of a policy the argument needs only `Choice`: it picks a ready task, the running
one or none, and changes nothing but accounts. So a further policy in
`g_policy_ops` with that much would leave the theorems standing.

It proves of `Interrupts`, for every number of tasks and either policy,
`EntryIsUndisturbed`: `MachineSpec => []UndisturbedEntry`. `EntryInv` adds what
the two registers hold after each write of `lettuce_el0_enter`.

`PolicyProofs` proves, for every number of tasks, all weights and slices asked
for and every scale (`TaskAssumption`, `PolicyAssumption`):

* `TimesAreSound`: `Spec => []TimeInv`
* `TimeMovesForward`: `Spec => VirtualTimeMonotonic`
* `AheadByASliceAtMost`: `Spec => []NeverFarAhead`
* `TurnsComeNearer`: `Spec => TurnComesNearer`

`TimeInv` says that all virtual times are natural numbers and all weights are
positive, which makes each quotient of `eevdf.c` a natural number. That the sum
of the active weights exists and is positive (`WeightSum`) is an induction over
the slots, made by looking at the least slot where it would fail. `do_schedule`
is a chain of operators on one record of tasks, scan position and virtual time.
Each has a lemma that says what it changes of that record, and `Outcome` says
the same of the whole chain (`ScheduleOutcome`). Time is assigned in one place,
`CatchUp`, and only when no ready task is eligible, that is when all of them are
ahead (`EevdfPick`).

`NeverFarAhead` is not inductive: a task may be a slice ahead and still be charged.
`LagInv` adds that the running task has room for what is left of its slice
(`Roomy`). A slice is given to a task that is not ahead, which makes room for all
of it (`RoomyStart`), and each tick charged takes a tick from both (`RoomyTick`).
The room is counted in ticks of the least weight there is, so that a weight
changed in the middle of a slice does not matter; that a slice of such ticks is
no longer than some slice of `SliceLengths` is `SliceFits`. The bound is for the
generations that the scans look at (`gen <= 10` in `eevdf.c`): a task beyond them
keeps the CPU with a new slice whatever its virtual time, and has no bound.

`TurnComesNearer` rests on the arithmetic of the circular scan: the slot chosen is
the first ready one in scan order, so every other ready slot lies behind it, and
is as much nearer to the new position as the scan has moved (`ScanNearer`). It is
the measure that falls until a ready task is chosen, the safety part of
`ReadyTaskRuns`.

There is no such theorem for a task that falls behind under EEVDF, because a
slice is not a bound there. A task made by `lettuce_task_create` competes from
virtual time 0 until it is first put back (`NewTaskAligned`), so it goes before
tasks that wait. And a task that sleeps or ends while it is ahead takes its lead
away with it. System virtual time goes on meanwhile, and the task that waits may
be left more than a slice behind.

`PosixProofs` proves, for every frequency, rate, sleep and table size
(`ClockAssumption`, `PosixAssumption`):

* `PosixImplementsClock`: `PosixSpec => ClockSpec`
* `TicksAreNeverFast`: `PosixSpec => []TicksNeverFast`, with `TickInv`: the next
  compare value lies a whole interval after the ticks counted so far
* `ClockIsExact`: `PosixSpec => []ClockExact`, from what division does
* `SleepsAreNotCutShort`: `PosixSpec => SleepNotCutShort`, for times whose
  deadline is within `Word`, with `SleepInv`: the ticks since a task fell asleep,
  but for the first, took an interval each
* `StreamsAreOpen`: `PosixSpec => []StreamsStayOpen`, with `TableInv`: once the
  table is set up its first three entries are the console's
* `FailuresAreReported`: `PosixSpec => []FailureReported`, with `CallInv`: a call
  that is not disturbed has its own result in x0, and in errno once it failed,
  also in the saved registers it may be set back to

Only model-checked are `ExpiryIsServed`, `ReadyTaskRuns` and `SleeperWakes`:
liveness under fairness is out of the prover's reach.

## Plan

Done: every module of the table above, its runs, and the proofs listed; every
safety property of a passing run is a theorem. Left: a proof of the conditions
under which calls of tasks that are preempted (`NestedTasks`) do return within
their task.
