-------------------------------- MODULE Task --------------------------------
(***************************************************************************)
(* The static task table (kernel/main/task.c).  A task is named by its     *)
(* slot; lettuce_task_get finds it under <<generation, slot>>.             *)
(*                                                                         *)
(* A register context is reduced to the task whose registers they are, the *)
(* service whose code they execute, how far that task has got, and the     *)
(* other task whose system call left its result in x0 (NoTask for a value  *)
(* of its own).  The absolute wake tick is kept as the number of ticks     *)
(* still to go.  Names, stacks, priority and statistics are left out.      *)
(***************************************************************************)
EXTENDS Integers, FiniteSets

CONSTANTS MaxTasks,           \* LETTUCE_MAX_TASKS (16)
          MaxTaskGeneration,  \* bound: a slot's tasks are numbered 1 .. this
          TaskKinds,          \* <<service id, domain id>> tasks are created with
          Weights, MaxWeight, \* weights callers ask for; the cap (10240)
          BaseWeight,         \* LETTUCE_EEVDF_BASE_WEIGHT (1024)
          RequestedSlices, DefaultSlice   \* slices asked for; the default (5)

ASSUME TaskAssumption ==
    /\ MaxTasks \in Nat \ {0} /\ MaxTaskGeneration \in Nat \ {0}
    /\ Weights \cup RequestedSlices \subseteq Nat
    /\ DefaultSlice \in Nat \ {0}
    /\ MaxWeight \in Nat \ {0} /\ BaseWeight \in 1 .. MaxWeight

VARIABLES g_task_table, g_current_task

TaskSlots == 0 .. MaxTasks - 1
NoTask == -1    \* the null LettuceTask pointer

NoContext == [task |-> NoTask, code |-> 0, step |-> 0, x0 |-> NoTask]
EntryContext(slot, service_id) ==
    [task |-> slot, code |-> service_id, step |-> 0, x0 |-> NoTask]

UnusedTask ==
    [generation |-> 1, state |-> "UNUSED", service_id |-> 0, domain_id |-> 0,
     weight |-> BaseWeight, requested_slice_ticks |-> DefaultSlice,
     time_slice_ticks |-> 0, quantum_ticks |-> DefaultSlice,
     vruntime |-> 0, vdeadline |-> 0, sleep |-> 0, context |-> NoContext]

TaskInit ==
    /\ g_task_table = [i \in TaskSlots |-> UnusedTask]
    /\ g_current_task = NoTask

lettuce_task_init_subsystem ==
    /\ g_task_table' = [i \in TaskSlots |-> UnusedTask]
    /\ g_current_task' = NoTask

Vacant == {i \in TaskSlots : g_task_table[i].state \in {"UNUSED", "TERMINATED"}}

lettuce_task_create(service_id, domain_id) ==
    /\ \E i \in Vacant :
         /\ \A j \in Vacant : i <= j
         /\ g_task_table' = [g_task_table EXCEPT
              ![i] = [UnusedTask EXCEPT
                        !.generation = g_task_table[i].generation,
                        !.state = "READY",
                        !.service_id = service_id, !.domain_id = domain_id,
                        !.time_slice_ticks = DefaultSlice,
                        !.context = EntryContext(i, service_id)]]
    /\ UNCHANGED g_current_task

lettuce_task_get(id) ==
    /\ id[2] \in TaskSlots
    /\ g_task_table[id[2]].generation = id[1]
    /\ g_task_table[id[2]].state # "UNUSED"

CurrentAfterTerminate(slot) ==
    IF g_current_task = slot THEN NoTask ELSE g_current_task

\* Generations go up to the bound here; the code wraps after 65535.
lettuce_task_terminate(id) ==
    /\ lettuce_task_get(id)
    /\ id[1] < MaxTaskGeneration
    /\ g_task_table' = [g_task_table EXCEPT ![id[2]].state = "TERMINATED",
                                            ![id[2]].generation = @ + 1]
    /\ g_current_task' = CurrentAfterTerminate(id[2])

Allocated == {i \in TaskSlots : g_task_table[i].state # "UNUSED"}

\* What the setters make of the weight and of the slice they are given.
AllowedWeight(weight) ==
    IF weight = 0 THEN 1 ELSE IF weight > MaxWeight THEN MaxWeight ELSE weight
AllowedSlice(slice_ticks) == IF slice_ticks = 0 THEN 1 ELSE slice_ticks

lettuce_task_set_weight(slot, weight) ==
    /\ g_task_table' = [g_task_table EXCEPT ![slot].weight = AllowedWeight(weight)]
    /\ UNCHANGED g_current_task

lettuce_task_set_slice(slot, slice_ticks) ==
    /\ g_task_table' = [g_task_table EXCEPT
         ![slot].requested_slice_ticks = AllowedSlice(slice_ticks),
         ![slot].quantum_ticks = AllowedSlice(slice_ticks)]
    /\ UNCHANGED g_current_task

TaskAdministration ==
    \/ \E kind \in TaskKinds : lettuce_task_create(kind[1], kind[2])
    \/ \E id \in (1 .. MaxTaskGeneration) \X TaskSlots : lettuce_task_terminate(id)
    \/ \E slot \in Allocated :
         \/ \E weight \in Weights : lettuce_task_set_weight(slot, weight)
         \/ \E slice \in RequestedSlices : lettuce_task_set_slice(slot, slice)
=============================================================================
