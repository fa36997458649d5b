---------------------------- MODULE SchedPolicy -----------------------------
(***************************************************************************)
(* The two scheduling policies, kernel/scheduler/rr.c and eevdf.c, as      *)
(* operators on a record S of what a policy may change: the task table,    *)
(* round robin's g_rr_last_idx and EEVDF's g_eevdf_vsys.  curr is a slot   *)
(* or NoTask.  A pick is a record of S afterwards and the slot chosen; the *)
(* picks a policy allows are a set, of which there is always one.          *)
(***************************************************************************)
EXTENDS Task

CONSTANTS ScanGenerations,   \* every scan tries generations 1 .. this (10)
          Scale              \* LETTUCE_EEVDF_SCALE (65536)

ASSUME PolicyAssumption == ScanGenerations \in Nat /\ Scale \in Nat \ {0}

\* The scan's lettuce_task_get calls find the task in slot.
Found(S, slot) ==
    S.tasks[slot].state # "UNUSED" /\ S.tasks[slot].generation <= ScanGenerations
ReadyTasks(S) == {i \in TaskSlots : Found(S, i) /\ S.tasks[i].state = "READY"}
IsRunning(S, curr) == curr # NoTask /\ S.tasks[curr].state = "RUNNING"

\* Tick accounting shared by both policies; each tick has tick_delta 1.
UseSlice(S, curr) ==
    [S EXCEPT !.tasks[curr].time_slice_ticks = IF @ > 0 THEN @ - 1 ELSE 0]

-----------------------------------------------------------------------------
(***************************************************************************)
(* Round robin.                                                            *)
(***************************************************************************)
rr_on_tick(S, curr) == UseSlice(S, curr)

Renew(S, slot) ==
    [S EXCEPT !.tasks[slot].time_slice_ticks = S.tasks[slot].quantum_ticks]

\* mutant: the scan starts at the first slot every time
ScanFromZero(S, curr) == [i \in TaskSlots |-> i]
\* The slots in the order they are looked at: the last one chosen comes last,
\* or first when no task is current.
ScanOrder(S, curr) ==
    [i \in TaskSlots |->
       (S.last_idx + i + IF curr = NoTask THEN 0 ELSE 1) % MaxTasks]

rr_pick_next(S, curr) ==
    LET order == ScanOrder(S, curr)
        hits == {i \in TaskSlots : order[i] \in ReadyTasks(S)}
        first == {i \in hits : \A j \in hits : i <= j}
    IN IF hits # {}
       THEN {[S |-> [Renew(S, slot) EXCEPT !.last_idx = slot], task |-> slot] :
               slot \in {order[i] : i \in first}}
       ELSE {IF IsRunning(S, curr) THEN [S |-> Renew(S, curr), task |-> curr]
             ELSE [S |-> S, task |-> NoTask]}

-----------------------------------------------------------------------------
(***************************************************************************)
(* Earliest eligible virtual deadline first.                               *)
(***************************************************************************)
lettuce_eevdf_calc_deadline(task) ==
    task.vruntime + (task.requested_slice_ticks * Scale) \div task.weight

\* total[n] is the weight of the tasks found ready or running in slots below n.
get_active_weight_sum(S) ==
    LET weight == [i \in TaskSlots |->
                     IF Found(S, i) /\ S.tasks[i].state \in {"READY", "RUNNING"}
                     THEN S.tasks[i].weight ELSE 0]
        total[n \in 0 .. MaxTasks] == IF n = 0 THEN 0 ELSE total[n - 1] + weight[n - 1]
    IN IF total[MaxTasks] > 0 THEN total[MaxTasks] ELSE BaseWeight

eevdf_on_tick(S, curr) ==
    [UseSlice(S, curr) EXCEPT
       !.tasks[curr].vruntime = @ + Scale \div S.tasks[curr].weight,
       !.vsys = @ + Scale \div get_active_weight_sum(S)]

\* eevdf_on_task_ready and eevdf_on_task_wake, which are the same code.
Align(task, vsys) ==
    LET caught == [task EXCEPT !.vruntime = IF @ < vsys THEN vsys ELSE @] IN
    [caught EXCEPT !.vdeadline = lettuce_eevdf_calc_deadline(caught)]

\* The first slot, in table order, whose value of f is least.
FirstLeast(slots, f) ==
    {i \in slots : \A j \in slots : f[i] < f[j] \/ (f[i] = f[j] /\ i <= j)}

eevdf_start(S, slot) ==
    [S EXCEPT !.tasks[slot].time_slice_ticks = S.tasks[slot].requested_slice_ticks,
              !.tasks[slot].vdeadline = lettuce_eevdf_calc_deadline(S.tasks[slot])]

CatchUpToZero(S, slot) == [S EXCEPT !.vsys = 0]      \* mutant: time starts again
CatchUpNothing(S, slot) == S                         \* mutant: time stands still
CatchUp(S, slot) == [S EXCEPT !.vsys = S.tasks[slot].vruntime]

Eligible(S, slot) == S.tasks[slot].vruntime <= S.vsys

eevdf_pick_next(S, curr) ==
    LET ready == ReadyTasks(S)
        eligible == {i \in ready : Eligible(S, i)}
        \* deadlines left behind by vruntime are recomputed in passing
        fresh == [S EXCEPT !.tasks = [i \in TaskSlots |->
                    IF i \in eligible /\ S.tasks[i].vdeadline < S.tasks[i].vruntime
                    THEN [S.tasks[i] EXCEPT !.vdeadline = lettuce_eevdf_calc_deadline(S.tasks[i])]
                    ELSE S.tasks[i]]]
        earliest == FirstLeast(eligible, [i \in TaskSlots |-> fresh.tasks[i].vdeadline])
        least == FirstLeast(ready, [i \in TaskSlots |-> S.tasks[i].vruntime])
    IN IF eligible # {}
       THEN {[S |-> eevdf_start(fresh, slot), task |-> slot] : slot \in earliest}
       ELSE IF ready # {}
       THEN {[S |-> eevdf_start(CatchUp(S, slot), slot), task |-> slot] : slot \in least}
       ELSE {IF IsRunning(S, curr) THEN [S |-> eevdf_start(S, curr), task |-> curr]
             ELSE [S |-> S, task |-> NoTask]}

-----------------------------------------------------------------------------
(***************************************************************************)
(* g_policy_ops: the hooks of the policy in use.  Round robin's hooks for  *)
(* ready and woken tasks do nothing, and the remaining hooks do nothing in *)
(* either policy.                                                          *)
(***************************************************************************)
on_tick(policy, S, curr) ==
    IF policy = "RR" THEN rr_on_tick(S, curr) ELSE eevdf_on_tick(S, curr)

pick_next(policy, S, curr) ==
    IF policy = "RR" THEN rr_pick_next(S, curr) ELSE eevdf_pick_next(S, curr)

on_task_ready(policy, task, vsys) == IF policy = "RR" THEN task ELSE Align(task, vsys)
=============================================================================
