-------------------------- MODULE SchedulerProofs ---------------------------
(***************************************************************************)
(* Proofs about Scheduler, and about Interrupts around its entry to EL0,   *)
(* for every number of tasks, services, domains and sleeps, and for both   *)
(* policies.                                                               *)
(***************************************************************************)
EXTENDS Interrupts, TLAPS

(***************************************************************************)
(* The shape of records.                                                   *)
(***************************************************************************)
Fields == {"generation", "state", "service_id", "domain_id", "weight", "requested_slice_ticks",
           "time_slice_ticks", "quantum_ticks", "vruntime", "vdeadline", "sleep", "context"}
Registers == {"task", "code", "step", "x0"}

Row(t) == t = [f \in Fields |-> t[f]]
Context(c) == c = [f \in Registers |-> c[f]]

\* u is t but for what the policies and the clock account.
Kept(t, u) ==
    /\ Row(u)
    /\ u.service_id = t.service_id /\ u.domain_id = t.domain_id
    /\ u.context = t.context /\ u.state = t.state

Table(tasks) == tasks = [i \in TaskSlots |-> tasks[i]] /\ \A i \in TaskSlots : Row(tasks[i])
Quiet(a, b) == Table(b) /\ \A i \in TaskSlots : Kept(a[i], b[i])

IsState(S) == S = [tasks |-> S.tasks, last_idx |-> S.last_idx, vsys |-> S.vsys] /\ Table(S.tasks)
QuietState(S, T) == IsState(T) /\ Quiet(S.tasks, T.tasks)

\* A field that only the accounting uses may be set to anything.
LEMMA Accounting ==
    ASSUME NEW t, Row(t), NEW v
    PROVE  /\ Kept(t, [t EXCEPT !.time_slice_ticks = v])
           /\ Kept(t, [t EXCEPT !.vruntime = v])
           /\ Kept(t, [t EXCEPT !.vdeadline = v])
           /\ Kept(t, [t EXCEPT !.sleep = v])
           /\ Kept(t, [t EXCEPT !.weight = v])
           /\ Kept(t, [t EXCEPT !.requested_slice_ticks = v])
           /\ Kept(t, [t EXCEPT !.quantum_ticks = v])
           /\ Kept(t, [t EXCEPT !.generation = v])
BY Zenon DEF Kept, Row, Fields

\* Setting the state leaves the rest of a row alone ...
LEMMA SetState ==
    ASSUME NEW t, Row(t), NEW v
    PROVE  LET u == [t EXCEPT !.state = v]
           IN /\ Row(u) /\ u.state = v /\ u.service_id = t.service_id
              /\ u.domain_id = t.domain_id /\ u.context = t.context
BY DEF Row, Fields

\* ... and so does setting the context.
LEMMA SetContext ==
    ASSUME NEW t, Row(t), NEW v
    PROVE  LET u == [t EXCEPT !.context = v]
           IN /\ Row(u) /\ u.state = t.state /\ u.service_id = t.service_id
              /\ u.domain_id = t.domain_id /\ u.context = v
BY DEF Row, Fields

LEMMA KeptTransitive ==
    ASSUME NEW t, NEW u, NEW v, Kept(t, u), Kept(u, v)
    PROVE  Kept(t, v)
BY DEF Kept

LEMMA QuietReflexive == ASSUME NEW S, IsState(S) PROVE QuietState(S, S)
BY DEF IsState, QuietState, Quiet, Table, Kept

LEMMA QuietTransitive ==
    ASSUME NEW S, NEW T, NEW U, QuietState(S, T), QuietState(T, U)
    PROVE  QuietState(S, U)
<1>1. \A i \in TaskSlots : Kept(S.tasks[i], U.tasks[i])
  BY KeptTransitive DEF QuietState, Quiet
<1> QED BY <1>1 DEF QuietState, Quiet

\* One row of a state replaced by another.
LEMMA Replace ==
    ASSUME NEW S, IsState(S), NEW slot \in TaskSlots, NEW u, Kept(S.tasks[slot], u), NEW T, NEW l, NEW w,
           T = [tasks |-> [S.tasks EXCEPT ![slot] = u], last_idx |-> l, vsys |-> w]
    PROVE  QuietState(S, T)
<1>1. T.tasks = [S.tasks EXCEPT ![slot] = u] /\ T = [tasks |-> T.tasks, last_idx |-> T.last_idx, vsys |-> T.vsys]
  OBVIOUS
<1>2. T.tasks = [i \in TaskSlots |-> IF i = slot THEN u ELSE S.tasks[i]]
  BY <1>1 DEF IsState, Table
<1>3. \A i \in TaskSlots : Kept(S.tasks[i], T.tasks[i])
  BY <1>2 DEF IsState, Table, Kept
<1> QED BY <1>1, <1>2, <1>3 DEF QuietState, Quiet, IsState, Table, Kept

\* UseSlice, Renew, the ticks, eevdf_start and CatchUp only account.
LEMMA SliceUsed ==
    ASSUME NEW S, IsState(S), NEW slot \in TaskSlots
    PROVE  QuietState(S, UseSlice(S, slot))
<1> DEFINE v == IF S.tasks[slot].time_slice_ticks > 0 THEN S.tasks[slot].time_slice_ticks - 1 ELSE 0
           u == [S.tasks[slot] EXCEPT !.time_slice_ticks = v]
<1>1. UseSlice(S, slot) = [tasks |-> [S.tasks EXCEPT ![slot] = u], last_idx |-> S.last_idx, vsys |-> S.vsys]
  BY DEF UseSlice, IsState, Table, Row, Fields
<1>2. Kept(S.tasks[slot], u)
  BY Accounting, Zenon DEF IsState, Table
<1> QED BY <1>1, <1>2, Replace, Zenon

LEMMA Renewed ==
    ASSUME NEW S, IsState(S), NEW slot \in TaskSlots
    PROVE  QuietState(S, Renew(S, slot))
<1> DEFINE u == [S.tasks[slot] EXCEPT !.time_slice_ticks = S.tasks[slot].quantum_ticks]
<1>1. Renew(S, slot) = [tasks |-> [S.tasks EXCEPT ![slot] = u], last_idx |-> S.last_idx, vsys |-> S.vsys]
  BY DEF Renew, IsState, Table, Row, Fields
<1>2. Kept(S.tasks[slot], u)
  BY Accounting, Zenon DEF IsState, Table
<1> QED BY <1>1, <1>2, Replace

LEMMA TickQuiet ==
    ASSUME NEW S, IsState(S), NEW slot \in TaskSlots, NEW policy
    PROVE  QuietState(S, on_tick(policy, S, slot))
<1> DEFINE U == UseSlice(S, slot)
           v == U.tasks[slot].vruntime + (Scale \div S.tasks[slot].weight)
           u == [U.tasks[slot] EXCEPT !.vruntime = v]
           w == U.vsys + (Scale \div get_active_weight_sum(S))
           T == eevdf_on_tick(S, slot)
<1>1. QuietState(S, U) /\ IsState(U)
  BY SliceUsed DEF QuietState
<1>2. T = [tasks |-> [U.tasks EXCEPT ![slot] = u], last_idx |-> U.last_idx, vsys |-> w]
  <2> DEFINE V == U
  <2>1. T = [V EXCEPT !.tasks[slot].vruntime = @ + (Scale \div S.tasks[slot].weight),
                      !.vsys = @ + (Scale \div get_active_weight_sum(S))]
    BY DEF eevdf_on_tick
  <2>2. IsState(V)
    BY <1>1
  <2> HIDE DEF V
  <2>3. T = [tasks |-> [V.tasks EXCEPT ![slot] = [V.tasks[slot] EXCEPT !.vruntime = V.tasks[slot].vruntime + (Scale \div S.tasks[slot].weight)]],
             last_idx |-> V.last_idx, vsys |-> V.vsys + (Scale \div get_active_weight_sum(S))]
    BY <2>1, <2>2, Zenon DEF IsState, Table, Row, Fields
  <2> QED BY <2>3 DEF V
<1>3. Kept(U.tasks[slot], u)
  BY <1>1, Accounting, Zenon DEF IsState, Table
<1>4. QuietState(U, T)
  <2> HIDE DEF U, u, w, T
  <2> QED BY <1>1, <1>2, <1>3, Replace
<1>5. QuietState(S, T)
  BY <1>1, <1>4, QuietTransitive
<1> QED BY <1>1, <1>5 DEF on_tick, rr_on_tick

LEMMA Started ==
    ASSUME NEW S, IsState(S), NEW slot \in TaskSlots
    PROVE  QuietState(S, eevdf_start(S, slot))
<1> DEFINE t == S.tasks[slot]
           v == t.requested_slice_ticks
           d == lettuce_eevdf_calc_deadline(t)
           u == [[t EXCEPT !.time_slice_ticks = v] EXCEPT !.vdeadline = d]
<1>1. eevdf_start(S, slot) = [tasks |-> [S.tasks EXCEPT ![slot] = u], last_idx |-> S.last_idx, vsys |-> S.vsys]
  <2> HIDE DEF d
  <2>1. eevdf_start(S, slot) = [S EXCEPT !.tasks[slot].time_slice_ticks = v, !.tasks[slot].vdeadline = d]
    BY DEF eevdf_start, d
  <2> DEFINE S1 == [S EXCEPT !.tasks[slot].time_slice_ticks = v]
             t1 == [t EXCEPT !.time_slice_ticks = v]
  <2>2. S1 = [tasks |-> [S.tasks EXCEPT ![slot] = t1], last_idx |-> S.last_idx, vsys |-> S.vsys]
    BY DEF IsState, Table, Row, Fields
  <2>3. eevdf_start(S, slot) = [S1 EXCEPT !.tasks[slot].vdeadline = d]
    BY <2>1
  <2> HIDE DEF S1, t1
  <2>4. eevdf_start(S, slot) = [tasks |-> [S.tasks EXCEPT ![slot] = [t1 EXCEPT !.vdeadline = d]],
                                last_idx |-> S.last_idx, vsys |-> S.vsys]
    BY <2>2, <2>3 DEF IsState, Table
  <2> QED BY <2>4 DEF t1
<1>2. Kept(t, [t EXCEPT !.time_slice_ticks = v])
  BY Accounting, Zenon DEF IsState, Table
<1>3. Kept([t EXCEPT !.time_slice_ticks = v], u)
  <2> DEFINE t1 == [t EXCEPT !.time_slice_ticks = v]
  <2>1. Row(t1)
    BY <1>2 DEF Kept
  <2> HIDE DEF t1, d
  <2>2. Kept(t1, [t1 EXCEPT !.vdeadline = d])
    BY <2>1, Accounting, Zenon
  <2> QED BY <2>2 DEF t1
<1>4. Kept(t, u)
  BY <1>2, <1>3, KeptTransitive
<1> QED
  <2> HIDE DEF u
  <2> QED BY <1>1, <1>4, Replace

LEMMA CaughtUp ==
    ASSUME NEW S, IsState(S), NEW slot \in TaskSlots
    PROVE  QuietState(S, CatchUp(S, slot))
<1>1. CatchUp(S, slot) = [tasks |-> S.tasks, last_idx |-> S.last_idx, vsys |-> S.tasks[slot].vruntime]
  BY DEF CatchUp, IsState
<1> QED BY <1>1 DEF QuietState, Quiet, IsState, Table, Kept

\* What a policy's choice leaves alone, and whom it may choose: a task that is
\* ready, or the current one if it is running.
Choice(S, curr, pick) ==
    /\ QuietState(S, pick.S)
    /\ \/ pick.task = NoTask
       \/ pick.task \in TaskSlots /\ S.tasks[pick.task].state = "READY"
       \/ pick.task = curr /\ IsRunning(S, curr)

LEMMA RoundRobinChoice ==
    ASSUME NEW S, IsState(S), NEW curr \in TaskSlots \cup {NoTask}, NEW pick \in rr_pick_next(S, curr)
    PROVE  Choice(S, curr, pick)
<1> DEFINE order == ScanOrder(S, curr)
           hits == {i \in TaskSlots : order[i] \in ReadyTasks(S)}
           first == {i \in hits : \A j \in hits : i <= j}
<1>1. CASE hits # {}
  <2> HIDE DEF order
  <2>1. PICK slot \in {order[i] : i \in first} :
          pick = [S |-> [Renew(S, slot) EXCEPT !.last_idx = slot], task |-> slot]
    BY <1>1 DEF rr_pick_next, order
  <2>2. slot \in TaskSlots /\ S.tasks[slot].state = "READY"
    BY <2>1 DEF ReadyTasks
  <2> DEFINE R == Renew(S, slot)
  <2>3. QuietState(S, R) /\ pick.S = [R EXCEPT !.last_idx = slot] /\ pick.task = slot
    BY <2>1, <2>2, Renewed
  <2> HIDE DEF R
  <2>4. pick.S = [tasks |-> R.tasks, last_idx |-> slot, vsys |-> R.vsys]
    BY <2>3 DEF QuietState, IsState
  <2>5. QuietState(S, pick.S)
    BY <2>3, <2>4 DEF QuietState, Quiet, IsState
  <2> QED BY <2>2, <2>3, <2>5 DEF Choice
<1>2. CASE hits = {}
  <2>1. pick = IF IsRunning(S, curr) THEN [S |-> Renew(S, curr), task |-> curr]
               ELSE [S |-> S, task |-> NoTask]
    BY <1>2 DEF rr_pick_next
  <2> QED BY <2>1, Renewed, QuietReflexive DEF Choice, IsRunning
<1> QED BY <1>1, <1>2

LEMMA EevdfChoice ==
    ASSUME NEW S, IsState(S), NEW curr \in TaskSlots \cup {NoTask}, NEW pick \in eevdf_pick_next(S, curr)
    PROVE  Choice(S, curr, pick)
<1> DEFINE ready == ReadyTasks(S)
           eligible == {i \in ready : Eligible(S, i)}
           stale(i) == i \in eligible /\ S.tasks[i].vdeadline < S.tasks[i].vruntime
           table == [i \in TaskSlots |->
                       IF stale(i)
                       THEN [S.tasks[i] EXCEPT !.vdeadline = lettuce_eevdf_calc_deadline(S.tasks[i])]
                       ELSE S.tasks[i]]
           fresh == [S EXCEPT !.tasks = table]
           earliest == FirstLeast(eligible, [i \in TaskSlots |-> fresh.tasks[i].vdeadline])
           least == FirstLeast(ready, [i \in TaskSlots |-> S.tasks[i].vruntime])
<1>1. \A i \in TaskSlots : Kept(S.tasks[i], table[i])
  <2> SUFFICES ASSUME NEW i \in TaskSlots PROVE Kept(S.tasks[i], table[i])
    OBVIOUS
  <2>1. Row(S.tasks[i])
    BY DEF IsState, Table
  <2> DEFINE d == lettuce_eevdf_calc_deadline(S.tasks[i])
  <2>2. table[i] = IF stale(i) THEN [S.tasks[i] EXCEPT !.vdeadline = d] ELSE S.tasks[i]
    OBVIOUS
  <2> HIDE DEF d, stale, table
  <2>3. Kept(S.tasks[i], [S.tasks[i] EXCEPT !.vdeadline = d])
    BY <2>1, Accounting, Zenon
  <2>4. Kept(S.tasks[i], S.tasks[i])
    BY <2>1 DEF Kept
  <2> QED BY <2>2, <2>3, <2>4
<1>2. table = [i \in TaskSlots |-> table[i]]
  OBVIOUS
<1> HIDE DEF table
<1>3. fresh = [tasks |-> table, last_idx |-> S.last_idx, vsys |-> S.vsys]
  BY DEF IsState
<1>4. QuietState(S, fresh)
  BY <1>1, <1>2, <1>3 DEF QuietState, Quiet, IsState, Table, Kept
<1>5. \A i \in ready : i \in TaskSlots /\ S.tasks[i].state = "READY"
  BY DEF ReadyTasks
<1>6. earliest \subseteq ready /\ least \subseteq ready
  BY DEF FirstLeast
<1>7. CASE eligible # {}
  <2>1. pick \in {[S |-> eevdf_start(fresh, slot), task |-> slot] : slot \in earliest}
    BY <1>7, Zenon DEF eevdf_pick_next, table
  <2> HIDE DEF fresh, ready, earliest
  <2>2. PICK slot \in earliest : pick = [S |-> eevdf_start(fresh, slot), task |-> slot]
    BY <2>1
  <2>3. slot \in TaskSlots /\ S.tasks[slot].state = "READY"
    BY <1>5, <1>6
  <2>4. QuietState(fresh, eevdf_start(fresh, slot))
    BY <1>4, <2>3, Started DEF QuietState
  <2>5. QuietState(S, eevdf_start(fresh, slot))
    BY <1>4, <2>4, QuietTransitive
  <2> QED BY <2>2, <2>3, <2>5 DEF Choice
<1>8. CASE eligible = {} /\ ready # {}
  <2>1. pick \in {[S |-> eevdf_start(CatchUp(S, slot), slot), task |-> slot] : slot \in least}
    BY <1>8 DEF eevdf_pick_next
  <2> HIDE DEF ready, least
  <2>2. PICK slot \in least : pick = [S |-> eevdf_start(CatchUp(S, slot), slot), task |-> slot]
    BY <2>1
  <2>3. slot \in TaskSlots /\ S.tasks[slot].state = "READY"
    BY <1>5, <1>6
  <2> DEFINE C == CatchUp(S, slot)
  <2>4. QuietState(S, C)
    BY <2>3, CaughtUp
  <2>5. QuietState(C, eevdf_start(C, slot))
    BY <2>3, <2>4, Started DEF QuietState
  <2>6. QuietState(S, eevdf_start(C, slot))
    BY <2>4, <2>5, QuietTransitive
  <2> QED BY <2>2, <2>3, <2>6 DEF Choice
<1>9. CASE eligible = {} /\ ready = {}
  <2>1. pick = IF IsRunning(S, curr) THEN [S |-> eevdf_start(S, curr), task |-> curr]
               ELSE [S |-> S, task |-> NoTask]
    BY <1>9 DEF eevdf_pick_next
  <2> QED BY <2>1, Started, QuietReflexive DEF Choice, IsRunning
<1> QED BY <1>7, <1>8, <1>9

\* Whichever policy is in use, it chooses a ready task, or the current one if
\* it is running, or none, and accounts without touching who a task is.
LEMMA PolicyChoice ==
    ASSUME NEW S, IsState(S), NEW curr \in TaskSlots \cup {NoTask}, NEW policy,
           NEW pick \in pick_next(policy, S, curr)
    PROVE  Choice(S, curr, pick)
BY RoundRobinChoice, EevdfChoice DEF pick_next

\* Being aligned by the policy changes no more than a task's accounts.
LEMMA Readied ==
    ASSUME NEW t, Row(t), NEW vsys, NEW policy
    PROVE  Kept(t, on_task_ready(policy, t, vsys))
<1>1. PICK w : Align(t, vsys) = [[t EXCEPT !.vruntime = w] EXCEPT
                                   !.vdeadline = lettuce_eevdf_calc_deadline([t EXCEPT !.vruntime = w])]
  BY Zenon DEF Align
<1> DEFINE caught == [t EXCEPT !.vruntime = w]
           d == lettuce_eevdf_calc_deadline(caught)
<1>2. Kept(t, caught)
  BY Accounting, Zenon
<1>3. Kept(caught, Align(t, vsys))
  <2>1. Align(t, vsys) = [caught EXCEPT !.vdeadline = d]
    BY <1>1
  <2>2. Row(caught)
    BY <1>2 DEF Kept
  <2> HIDE DEF caught, d
  <2>3. Kept(caught, [caught EXCEPT !.vdeadline = d])
    BY <2>2, Accounting, Zenon
  <2> QED BY <2>1, <2>3
<1>4. Kept(t, Align(t, vsys))
  BY <1>2, <1>3, KeptTransitive
<1>5. Kept(t, t)
  BY DEF Kept
<1> QED BY <1>4, <1>5, SMTT(30) DEF on_task_ready

\* u is t but for its accounts and its state.
SameTask(t, u) ==
    /\ Row(u)
    /\ u.service_id = t.service_id /\ u.domain_id = t.domain_id /\ u.context = t.context

\* Wake turns some sleepers into ready tasks and does nothing else.
LEMMA Woken ==
    ASSUME NEW S, IsState(S)
    PROVE  LET T == Wake(S)
           IN /\ IsState(T)
              /\ \A i \in TaskSlots :
                   /\ SameTask(S.tasks[i], T.tasks[i])
                   /\ \/ T.tasks[i].state = S.tasks[i].state
                      \/ S.tasks[i].state = "SLEEPING" /\ T.tasks[i].state = "READY"
<1> DEFINE T == Wake(S)
           due(i) == Found(S, i) /\ S.tasks[i].state = "SLEEPING" /\ S.tasks[i].sleep = 0
           up(i) == [S.tasks[i] EXCEPT !.state = "READY"]
           row(i) == on_task_ready(g_current_policy_type, up(i), S.vsys)
           table == [i \in TaskSlots |-> IF due(i) THEN row(i) ELSE S.tasks[i]]
<1>1. T = [S EXCEPT !.tasks = table]
  BY DEF Wake
<1>2. ASSUME NEW i \in TaskSlots
      PROVE  /\ SameTask(S.tasks[i], table[i])
             /\ \/ table[i].state = S.tasks[i].state
                \/ S.tasks[i].state = "SLEEPING" /\ table[i].state = "READY"
  <2>1. Row(S.tasks[i])
    BY DEF IsState, Table
  <2>2. Row(up(i)) /\ SameTask(S.tasks[i], up(i)) /\ up(i).state = "READY"
    BY <2>1, SetState DEF SameTask
  <2>3. Kept(up(i), row(i))
    BY <2>2, Readied
  <2>4. table[i] = IF due(i) THEN row(i) ELSE S.tasks[i]
    OBVIOUS
  <2>5. due(i) => S.tasks[i].state = "SLEEPING"
    OBVIOUS
  <2> HIDE DEF table, row, up, due
  <2> QED BY <2>1, <2>2, <2>3, <2>4, <2>5 DEF Kept, SameTask
<1>3. table = [i \in TaskSlots |-> table[i]]
  OBVIOUS
<1> HIDE DEF table
<1>4. T = [tasks |-> table, last_idx |-> S.last_idx, vsys |-> S.vsys]
  BY <1>1 DEF IsState
<1> QED BY <1>2, <1>3, <1>4 DEF IsState, Table, SameTask

\* Preempted gives the task the trap frame and makes it ready.
LEMMA SavedContext ==
    ASSUME NEW S, IsState(S), NEW curr \in TaskSlots
    PROVE  LET T == Preempted(S, curr)
           IN /\ IsState(T)
              /\ \A i \in TaskSlots \ {curr} : T.tasks[i] = S.tasks[i]
              /\ T.tasks[curr].state = "READY" /\ T.tasks[curr].context = frame
              /\ T.tasks[curr].service_id = S.tasks[curr].service_id
              /\ T.tasks[curr].domain_id = S.tasks[curr].domain_id
<1> DEFINE T == Preempted(S, curr)
           t == S.tasks[curr]
           u == [t EXCEPT !.context = frame]
           v == [u EXCEPT !.state = "READY"]
           w == on_task_ready(g_current_policy_type, v, S.vsys)
<1>1. Row(t)
  BY DEF IsState, Table
<1>2. T = [tasks |-> [S.tasks EXCEPT ![curr] = w], last_idx |-> S.last_idx, vsys |-> S.vsys]
  <2>1. [t EXCEPT !.context = frame, !.state = "READY"] = v
    OBVIOUS
  <2>2. T = [S EXCEPT !.tasks[curr] = w]
    BY <2>1 DEF Preempted, IsState, Table
  <2> HIDE DEF w
  <2> QED BY <2>2 DEF IsState, Table
<1>3. /\ Row(u) /\ u.context = frame
      /\ u.service_id = t.service_id /\ u.domain_id = t.domain_id
  BY <1>1, SetContext
<1>4. /\ Row(v) /\ v.context = frame /\ v.state = "READY"
      /\ v.service_id = t.service_id /\ v.domain_id = t.domain_id
  <2> HIDE DEF u
  <2> QED BY <1>3, SetState
<1>5. Kept(v, w)
  <2> HIDE DEF v
  <2> QED BY <1>4, Readied
<1> HIDE DEF w, v, T
<1>6. T.tasks = [i \in TaskSlots |-> IF i = curr THEN w ELSE S.tasks[i]]
  BY <1>2 DEF IsState, Table
<1>7. IsState(T)
  BY <1>2, <1>5, <1>6 DEF IsState, Table, Kept
<1> QED BY <1>4, <1>5, <1>6, <1>7 DEF Kept, T

\* One task is made RUNNING, as SwitchTo and Resume do.
LEMMA MadeRunning ==
    ASSUME NEW S, IsState(S), NEW slot \in TaskSlots
    PROVE  LET T == [S EXCEPT !.tasks[slot].state = "RUNNING"]
           IN /\ IsState(T)
              /\ \A i \in TaskSlots \ {slot} : T.tasks[i] = S.tasks[i]
              /\ SameTask(S.tasks[slot], T.tasks[slot]) /\ T.tasks[slot].state = "RUNNING"
<1> DEFINE T == [S EXCEPT !.tasks[slot].state = "RUNNING"]
           u == [S.tasks[slot] EXCEPT !.state = "RUNNING"]
<1>1. T = [tasks |-> [S.tasks EXCEPT ![slot] = u], last_idx |-> S.last_idx, vsys |-> S.vsys]
  BY DEF IsState, Table
<1>2. Row(u) /\ SameTask(S.tasks[slot], u) /\ u.state = "RUNNING"
  BY SetState DEF IsState, Table, SameTask
<1> HIDE DEF u, T
<1>3. T.tasks = [i \in TaskSlots |-> IF i = slot THEN u ELSE S.tasks[i]]
  BY <1>1 DEF IsState, Table
<1>4. IsState(T)
  BY <1>1, <1>2, <1>3 DEF IsState, Table
<1> QED BY <1>2, <1>3, <1>4 DEF T

LEMMA Resumed ==
    ASSUME NEW S, IsState(S), NEW slot \in TaskSlots
    PROVE  LET T == Resume(S, slot)
           IN /\ IsState(T)
              /\ \A i \in TaskSlots \ {slot} : Kept(S.tasks[i], T.tasks[i])
              /\ SameTask(S.tasks[slot], T.tasks[slot]) /\ T.tasks[slot].state = "RUNNING"
<1> DEFINE R == Renew(S, slot)
<1>1. QuietState(S, R)
  BY Renewed
<1>2. Resume(S, slot) = [R EXCEPT !.tasks[slot].state = "RUNNING"]
  BY DEF Resume
<1> HIDE DEF R
<1> DEFINE T == [R EXCEPT !.tasks[slot].state = "RUNNING"]
<1>3. IsState(R) /\ \A i \in TaskSlots : Kept(S.tasks[i], R.tasks[i])
  BY <1>1, Zenon DEF QuietState, Quiet
<1>4. /\ IsState(T)
      /\ \A i \in TaskSlots \ {slot} : T.tasks[i] = R.tasks[i]
      /\ SameTask(R.tasks[slot], T.tasks[slot]) /\ T.tasks[slot].state = "RUNNING"
  BY <1>3, MadeRunning, Zenon
<1> HIDE DEF T
<1>5. SameTask(S.tasks[slot], T.tasks[slot])
  BY <1>3, <1>4, Zenon DEF Kept, SameTask
<1>6. \A i \in TaskSlots \ {slot} : Kept(S.tasks[i], T.tasks[i])
  BY <1>3, <1>4, Zenon
<1> QED BY <1>2, <1>4, <1>5, <1>6, Zenon DEF T

-----------------------------------------------------------------------------
(***************************************************************************)
(* The inductive invariant.                                                *)
(***************************************************************************)
InUse(task) == task.state \notin {"UNUSED", "TERMINATED"}

Shapes ==
    /\ Table(g_task_table) /\ Context(frame)
    /\ \A i \in TaskSlots : Context(g_task_table[i].context)
    /\ reached = [i \in TaskSlots |-> reached[i]]
    /\ g_current_task \in TaskSlots \cup {NoTask}

CurrentInUse == g_current_task # NoTask => InUse(g_task_table[g_current_task])

\* Only a task that called nanosleep is current without being RUNNING.
CurrentRuns ==
    InTask /\ g_current_task \notin slept => g_task_table[g_current_task].state = "RUNNING"

\* The context kept for a task out of the CPU is the one it was stopped with.
SavedContexts ==
    \A i \in TaskSlots :
      i # g_current_task /\ i \notin slept /\ InUse(g_task_table[i])
        => g_task_table[i].context.task = i /\ g_task_table[i].context.step = reached[i]

IInv ==
    /\ Shapes /\ CurrentInUse /\ CurrentRuns /\ SavedContexts
    /\ RunningIsCurrent /\ IdentityFollowsTask /\ PreemptionKeepsContext

\* A state that the scheduler may leave the current task in the CPU with, when
\* sl are the tasks that have slept.
MayStay(T, sl) ==
    /\ IsState(T)
    /\ \A i \in TaskSlots :
         /\ Context(T.tasks[i].context)
         /\ T.tasks[i].service_id = g_task_table[i].service_id
         /\ T.tasks[i].domain_id = g_task_table[i].domain_id
         /\ T.tasks[i].state = "RUNNING" => i = g_current_task
         /\ i # g_current_task /\ i \notin sl /\ InUse(T.tasks[i])
              => T.tasks[i].context.task = i /\ T.tasks[i].context.step = reached[i]
    /\ g_current_task # NoTask => InUse(T.tasks[g_current_task])
    /\ InTask /\ g_current_task \notin sl => T.tasks[g_current_task].state = "RUNNING"

\* A state to choose the next task from: no task is RUNNING any more.
MayPick(S, sl) ==
    /\ IsState(S)
    /\ \A i \in TaskSlots :
         /\ Context(S.tasks[i].context)
         /\ S.tasks[i].service_id = g_task_table[i].service_id
         /\ S.tasks[i].domain_id = g_task_table[i].domain_id
         /\ S.tasks[i].state # "RUNNING"
         /\ i \notin sl /\ InUse(S.tasks[i])
              => S.tasks[i].context.task = i /\ S.tasks[i].context.step = reached[i]
    /\ g_current_task # NoTask => InUse(S.tasks[g_current_task])
    /\ g_current_task # NoTask /\ g_current_task \notin sl => S.tasks[g_current_task].state = "READY"

\* The result of a system call goes to x0 and nowhere else.
LEMMA ReturnKeeps ==
    ASSUME NEW c, Context(c), NEW syscall
    PROVE  LET r == Return(c, syscall) IN Context(r) /\ r.task = c.task /\ r.step = c.step
BY DEF Context, Registers, Return

\* The two ways do_schedule ends: the current task stays in the CPU ...
LEMMA StayKeeps ==
    ASSUME IInv, NEW T, NEW sl, slept \subseteq sl, MayStay(T, sl), NEW syscall,
           Stay(T, syscall), slept' = sl, reached' = reached
    PROVE  IInv'
<1>1. Context(frame') /\ frame'.task = frame.task /\ frame'.step = frame.step
  BY ReturnKeeps DEF Stay, IInv, Shapes
<1>2. /\ g_task_table' = T.tasks /\ g_current_task' = g_current_task
      /\ g_scheduler_active' = g_scheduler_active
      /\ g_current_service_id' = g_current_service_id /\ current_domain' = current_domain
  BY DEF Stay, Adopt, controlVars
<1> USE <1>1, <1>2
<1>3. Shapes'
  BY DEF IInv, Shapes, MayStay, IsState, Table
<1>4. CurrentInUse' /\ CurrentRuns' /\ RunningIsCurrent'
  BY DEF MayStay, CurrentInUse, CurrentRuns, RunningIsCurrent, InTask, InUse
<1>5. SavedContexts'
  BY DEF MayStay, SavedContexts, InUse
<1>6. IdentityFollowsTask'
  BY DEF IInv, MayStay, IdentityFollowsTask, InTask, Shapes
<1>7. PreemptionKeepsContext'
  BY DEF IInv, PreemptionKeepsContext, InTask
<1> QED BY <1>3, <1>4, <1>5, <1>6, <1>7 DEF IInv

\* ... or a ready task is switched to.
LEMMA SwitchKeeps ==
    ASSUME IInv, g_scheduler_active, NEW S, NEW sl, MayPick(S, sl), NEW slot \in TaskSlots,
           slot # g_current_task, S.tasks[slot].state = "READY", NEW is_preemption, NEW syscall,
           SwitchTo(S, slot, is_preemption, syscall), slept' = sl, reached' = reached
    PROVE  IInv'
<1> DEFINE T == [S EXCEPT !.tasks[slot].state = "RUNNING"]
<1>1. /\ IsState(T)
      /\ \A i \in TaskSlots \ {slot} : T.tasks[i] = S.tasks[i]
      /\ SameTask(S.tasks[slot], T.tasks[slot]) /\ T.tasks[slot].state = "RUNNING"
  BY MadeRunning, Zenon DEF MayPick
<1>2. g_task_table' = T.tasks /\ g_current_task' = slot /\ Handoff(slot)
  BY DEF SwitchTo, Adopt
<1>3. /\ Context(frame') /\ frame'.task = S.tasks[slot].context.task
      /\ frame'.step = S.tasks[slot].context.step
  BY ReturnKeeps DEF SwitchTo, MayPick
<1> HIDE DEF T
<1> USE <1>1, <1>2, <1>3
<1>4. slot # NoTask
  BY DEF TaskSlots, NoTask
<1>5. Shapes'
  BY DEF IInv, Shapes, MayPick, IsState, Table, SameTask
<1>6. CurrentInUse' /\ CurrentRuns' /\ RunningIsCurrent'
  BY SMTT(30) DEF MayPick, CurrentInUse, CurrentRuns, RunningIsCurrent, InUse
<1>7. SavedContexts'
  BY DEF MayPick, SavedContexts, InUse
<1>8. IdentityFollowsTask'
  BY <1>4 DEF IInv, MayPick, IdentityFollowsTask, InTask, Shapes, Handoff, SameTask
<1>9. PreemptionKeepsContext'
  BY DEF MayPick, PreemptionKeepsContext, InTask, InUse
<1> QED BY <1>5, <1>6, <1>7, <1>8, <1>9 DEF IInv

\* Accounting does not disturb the choice.
LEMMA QuietPick ==
    ASSUME IInv, NEW S, NEW sl, MayPick(S, sl), NEW T, QuietState(S, T)
    PROVE  MayPick(T, sl)
<1>1. IsState(T) /\ \A i \in TaskSlots : Kept(S.tasks[i], T.tasks[i])
  BY Zenon DEF QuietState, Quiet
<1>2. g_current_task \in TaskSlots \cup {NoTask}
  BY DEF IInv, Shapes
<1>3. ASSUME NEW i \in TaskSlots
      PROVE  /\ Context(T.tasks[i].context)
             /\ T.tasks[i].service_id = g_task_table[i].service_id
             /\ T.tasks[i].domain_id = g_task_table[i].domain_id
             /\ T.tasks[i].state # "RUNNING"
             /\ i \notin sl /\ InUse(T.tasks[i])
                  => T.tasks[i].context.task = i /\ T.tasks[i].context.step = reached[i]
  BY <1>1, ZenonT(40) DEF MayPick, Kept, InUse
<1>4. /\ g_current_task # NoTask => InUse(T.tasks[g_current_task])
      /\ g_current_task # NoTask /\ g_current_task \notin sl => T.tasks[g_current_task].state = "READY"
  BY <1>1, <1>2, Zenon DEF MayPick, Kept, InUse
<1> QED BY <1>1, <1>3, <1>4, Zenon DEF MayPick

\* With nothing to choose, a current task that is not ready stays.
LEMMA NoneStays ==
    ASSUME NEW T, NEW sl, MayPick(T, sl),
           ~(g_current_task # NoTask /\ T.tasks[g_current_task].state = "READY")
    PROVE  MayStay(T, sl)
BY Zenon DEF MayPick, MayStay, InTask

\* The current task goes on with a new slice, ...
LEMMA ResumedStays ==
    ASSUME NEW P, NEW sl, MayPick(P, sl), NEW T, IsState(T), g_current_task \in TaskSlots,
           \A i \in TaskSlots \ {g_current_task} : Kept(P.tasks[i], T.tasks[i]),
           SameTask(P.tasks[g_current_task], T.tasks[g_current_task]),
           T.tasks[g_current_task].state = "RUNNING"
    PROVE  MayStay(T, sl)
BY SMTT(30) DEF MayPick, MayStay, Kept, SameTask, InUse

\* ... or with what it has left of its slice after a tick.
LEMMA TickedStays ==
    ASSUME IInv, NEW W, NEW sl, slept \subseteq sl, IsState(W), g_current_task \in TaskSlots,
           W.tasks[g_current_task].state = "RUNNING",
           \A i \in TaskSlots :
             /\ SameTask(g_task_table[i], W.tasks[i])
             /\ Context(W.tasks[i].context)
             /\ InUse(W.tasks[i]) <=> InUse(g_task_table[i]) \/ i = g_current_task
             /\ W.tasks[i].state = "RUNNING" => g_task_table[i].state = "RUNNING",
           NEW T, QuietState(W, T)
    PROVE  MayStay(T, sl)
BY SMTT(30) DEF QuietState, Quiet, Kept, MayStay, SameTask, InUse, IInv, SavedContexts, RunningIsCurrent

\* do_schedule from the policy's choice on, and as a whole.
LEMMA PickKeeps ==
    ASSUME IInv, g_scheduler_active, NEW S, NEW sl, slept \subseteq sl, MayPick(S, sl),
           NEW is_preemption, NEW syscall,
           PickAndSwitch(S, is_preemption, syscall), slept' = sl, reached' = reached
    PROVE  IInv'
<1> DEFINE curr == g_current_task
<1>1. curr \in TaskSlots \cup {NoTask} /\ IsState(S)
  BY DEF IInv, Shapes, MayPick
<1>2. PICK pick \in pick_next(g_current_policy_type, S, curr) :
        \/ /\ pick.task = NoTask
           /\ Stay(IF curr # NoTask /\ S.tasks[curr].state = "READY"
                   THEN Resume(pick.S, curr) ELSE pick.S, syscall)
        \/ /\ pick.task # NoTask /\ pick.task = curr
           /\ Stay(Resume(pick.S, curr), syscall)
        \/ /\ pick.task \notin {NoTask, curr}
           /\ SwitchTo(pick.S, pick.task, is_preemption, syscall)
  BY DEF PickAndSwitch
<1>3. Choice(S, curr, pick)
  BY <1>1, PolicyChoice, ZenonT(40)
<1>4. MayPick(pick.S, sl)
  BY <1>3, QuietPick, ZenonT(40) DEF Choice
<1>5. \A i \in TaskSlots : pick.S.tasks[i].state = S.tasks[i].state
  BY <1>3 DEF Choice, QuietState, Quiet, Kept
<1>6. pick.task # NoTask => pick.task \in TaskSlots /\ S.tasks[pick.task].state = "READY"
  BY <1>1, <1>3 DEF Choice, IsRunning, MayPick
<1>7. ASSUME curr \in TaskSlots
      PROVE  MayStay(Resume(pick.S, curr), sl)
  <2> DEFINE P == pick.S
             T == Resume(P, curr)
  <2>1. /\ IsState(T)
        /\ \A i \in TaskSlots \ {curr} : Kept(P.tasks[i], T.tasks[i])
        /\ SameTask(P.tasks[curr], T.tasks[curr]) /\ T.tasks[curr].state = "RUNNING"
    BY <1>4, <1>7, Resumed DEF MayPick
  <2>2. MayPick(P, sl)
    BY <1>4, ZenonT(40)
  <2> HIDE DEF P, T
  <2>3. MayStay(T, sl)
    BY <1>7, <2>1, <2>2, ResumedStays, ZenonT(40)
  <2> QED BY <2>3, ZenonT(40) DEF P, T
<1>8. ASSUME ~(curr # NoTask /\ S.tasks[curr].state = "READY")
      PROVE  MayStay(pick.S, sl)
  <2>1. ~(curr # NoTask /\ pick.S.tasks[curr].state = "READY")
    BY <1>1, <1>5, <1>8, ZenonT(40)
  <2> QED BY <1>4, <2>1, NoneStays, ZenonT(40)
<1>9. CASE pick.task = NoTask
  BY <1>1, <1>2, <1>7, <1>8, <1>9, StayKeeps, SMTT(30)
<1>10. CASE pick.task # NoTask /\ pick.task = curr
  BY <1>1, <1>2, <1>7, <1>10, StayKeeps, SMTT(30)
<1>11. CASE pick.task \notin {NoTask, curr}
  BY <1>2, <1>4, <1>5, <1>6, <1>11, SwitchKeeps
<1> QED BY <1>9, <1>10, <1>11

\* The task table do_schedule is called with: the current task may just have
\* gone to sleep.
Called(tasks, sl) ==
    /\ Table(tasks)
    /\ \A i \in TaskSlots :
         /\ SameTask(g_task_table[i], tasks[i])
         /\ \/ tasks[i].state = g_task_table[i].state
            \/ i = g_current_task /\ i \in sl /\ tasks[i].state = "SLEEPING"

LEMMA ScheduleKeeps ==
    ASSUME IInv, NEW tasks, NEW sl, slept \subseteq sl, Called(tasks, sl),
           NEW is_preemption, NEW syscall,
           do_schedule(tasks, is_preemption, syscall), slept' = sl, reached' = reached
    PROVE  IInv'
<1> DEFINE curr == g_current_task
           called == [Current EXCEPT !.tasks = tasks]
           woken == Wake(called)
           ticked == on_tick(g_current_policy_type, woken, curr)
           saved == Preempted(ticked, curr)
<1>1. IsState(called) /\ called.tasks = tasks
  BY DEF Current, IsState, Called
<1>2. CASE ~g_scheduler_active
  <2>1. Stay(called, syscall)
    BY <1>2 DEF do_schedule
  <2> HIDE DEF called
  <2>2. MayStay(called, sl)
    BY <1>1, <1>2 DEF Called, MayStay, SameTask, IInv, Shapes, CurrentInUse, SavedContexts,
                      RunningIsCurrent, InTask, InUse
  <2> QED BY <2>1, <2>2, StayKeeps
<1>3. CASE g_scheduler_active
  <2>1. \/ ~IsRunning(woken, curr) /\ PickAndSwitch(woken, is_preemption, syscall)
        \/ /\ IsRunning(woken, curr)
           /\ \/ Stay(ticked, syscall)
              \/ PickAndSwitch(saved, is_preemption, syscall)
    BY <1>3 DEF do_schedule
  <2>2. /\ IsState(woken)
        /\ \A i \in TaskSlots :
             /\ SameTask(called.tasks[i], woken.tasks[i])
             /\ \/ woken.tasks[i].state = called.tasks[i].state
                \/ called.tasks[i].state = "SLEEPING" /\ woken.tasks[i].state = "READY"
    BY <1>1, Woken, ZenonT(40)
  <2>3. curr \in TaskSlots \cup {NoTask}
    BY DEF IInv, Shapes
  <2> HIDE DEF called, woken
  <2>4. \A i \in TaskSlots :
          /\ SameTask(g_task_table[i], woken.tasks[i])
          /\ Context(woken.tasks[i].context)
          /\ InUse(woken.tasks[i]) <=> InUse(g_task_table[i]) \/ i = curr
          /\ woken.tasks[i].state = "RUNNING" => g_task_table[i].state = "RUNNING"
          /\ i \notin sl /\ g_task_table[i].state = "RUNNING" => woken.tasks[i].state = "RUNNING"
    BY <1>1, <2>2 DEF Called, SameTask, IInv, Shapes, CurrentInUse, InUse, TaskSlots, NoTask
  <2>5. CASE ~IsRunning(woken, curr)
    <3>1. curr # NoTask => curr \in sl
      BY <1>3, <2>3, <2>4, <2>5, SMTT(30) DEF IsRunning, IInv, CurrentRuns, InTask
    <3>2. MayPick(woken, sl)
      BY <2>2, <2>3, <2>4, <2>5, <3>1 DEF MayPick, IsRunning, SameTask, IInv, SavedContexts, RunningIsCurrent,
                                         TaskSlots, NoTask
    <3> QED BY <1>3, <2>1, <2>5, <3>2, PickKeeps, ZenonT(40)
  <2>6. CASE IsRunning(woken, curr)
    <3>1. curr \in TaskSlots /\ curr # NoTask /\ woken.tasks[curr].state = "RUNNING"
      BY <2>3, <2>6 DEF IsRunning
    <3>2. QuietState(woken, ticked)
      BY <2>2, <3>1, TickQuiet, ZenonT(40)
    <3> HIDE DEF ticked
    <3>3. MayStay(ticked, sl)
      BY <2>2, <2>4, <3>1, <3>2, TickedStays, ZenonT(40)
    <3>4. /\ IsState(saved)
          /\ \A i \in TaskSlots \ {curr} : saved.tasks[i] = ticked.tasks[i]
          /\ saved.tasks[curr].state = "READY" /\ saved.tasks[curr].context = frame
          /\ saved.tasks[curr].service_id = ticked.tasks[curr].service_id
          /\ saved.tasks[curr].domain_id = ticked.tasks[curr].domain_id
      BY <3>1, <3>2, SavedContext, ZenonT(40) DEF QuietState
    <3> HIDE DEF saved
    <3>5. MayPick(saved, sl)
      BY <1>3, <3>1, <3>3, <3>4 DEF MayStay, MayPick, InUse, IInv, Shapes, InTask, PreemptionKeepsContext
    <3> QED BY <1>3, <2>1, <2>6, <3>3, <3>5, StayKeeps, PickKeeps
  <2> QED BY <2>5, <2>6
<1> QED BY <1>2, <1>3

LEMMA CurrentIsTask ==
    ASSUME IInv, g_current_task # NoTask
    PROVE  g_current_task \in TaskSlots /\ Row(g_task_table[g_current_task])
BY DEF IInv, Shapes, Table

\* A tick of the clock only accounts.
LEMMA Elapsed ==
    ASSUME Table(g_task_table)
    PROVE  /\ Table(Elapse(g_task_table))
           /\ \A i \in TaskSlots : Kept(g_task_table[i], Elapse(g_task_table)[i])
<1> DEFINE v(i) == IF g_task_table[i].sleep > 0 THEN g_task_table[i].sleep - 1 ELSE 0
           T == Elapse(g_task_table)
<1>1. T = [i \in TaskSlots |-> [g_task_table[i] EXCEPT !.sleep = v(i)]]
  BY DEF Elapse, Table, Row, Fields
<1>2. \A i \in TaskSlots : T[i] = [g_task_table[i] EXCEPT !.sleep = v(i)]
  BY <1>1
<1>3. T = [i \in TaskSlots |-> T[i]]
  BY <1>1
<1> HIDE DEF v, T
<1>4. \A i \in TaskSlots : Kept(g_task_table[i], T[i])
  <2> SUFFICES ASSUME NEW i \in TaskSlots PROVE Kept(g_task_table[i], T[i])
    OBVIOUS
  <2>1. Row(g_task_table[i])
    BY DEF Table
  <2>2. Kept(g_task_table[i], [g_task_table[i] EXCEPT !.sleep = v(i)])
    BY <2>1, Accounting, Zenon
  <2> QED BY <1>2, <2>2
<1> QED BY <1>3, <1>4 DEF Table, Kept, T

\* One row of the table replaced.
LEMMA RowReplaced ==
    ASSUME Table(g_task_table), NEW slot \in TaskSlots, NEW u, Row(u)
    PROVE  LET T == [g_task_table EXCEPT ![slot] = u]
           IN Table(T) /\ T[slot] = u /\ \A i \in TaskSlots \ {slot} : T[i] = g_task_table[i]
BY DEF Table

\* No entry to do_schedule disturbs IInv: the tick, yield and nanosleep.
LEMMA EntriesKeep ==
    ASSUME IInv, \/ TimerInterrupt \/ lettuce_scheduler_yield
                 \/ \E ticks \in 0 .. MaxSleep : lettuce_kernel_sys_nanosleep(ticks)
    PROVE  IInv'
<1> DEFINE curr == g_current_task
           t == g_task_table[curr]
<1>1. CASE TimerInterrupt
  <2>1. Called(Elapse(g_task_table), slept)
    BY Elapsed DEF IInv, Shapes, Called, Kept, SameTask
  <2>2. do_schedule(Elapse(g_task_table), TRUE, NoTask) /\ slept' = slept /\ reached' = reached
    BY <1>1, Zenon DEF TimerInterrupt, history
  <2> QED BY <2>1, <2>2, ScheduleKeeps, Zenon
<1>2. CASE lettuce_scheduler_yield
  <2> DEFINE u == [t EXCEPT !.time_slice_ticks = 0]
             T == [g_task_table EXCEPT ![curr] = u]
  <2>1. curr \in TaskSlots /\ Kept(t, u)
    BY <1>2, CurrentIsTask, Accounting, Zenon DEF lettuce_scheduler_yield
  <2>2. [g_task_table EXCEPT ![curr].time_slice_ticks = 0] = T
    BY <2>1 DEF IInv, Shapes, Table
  <2>3. do_schedule(T, FALSE, NoTask) /\ slept' = slept /\ reached' = reached
    BY <1>2, <2>2, Zenon DEF lettuce_scheduler_yield, history
  <2>4. Called(T, slept)
    <3> HIDE DEF u
    <3> QED BY <2>1, RowReplaced, SMTT(30) DEF IInv, Shapes, Called, Kept, SameTask, Table
  <2> HIDE DEF T
  <2> QED BY <2>3, <2>4, ScheduleKeeps, Zenon
<1>3. ASSUME NEW ticks \in 0 .. MaxSleep, lettuce_kernel_sys_nanosleep(ticks)
      PROVE  IInv'
  <2> DEFINE s == [t EXCEPT !.sleep = ticks]
             u == [s EXCEPT !.state = "SLEEPING"]
             T == [g_task_table EXCEPT ![curr] = u]
             sl == slept \cup {curr}
  <2>1. curr \in TaskSlots /\ Row(t)
    BY <1>3, CurrentIsTask DEF lettuce_kernel_sys_nanosleep
  <2>2. [g_task_table EXCEPT ![curr].sleep = ticks, ![curr].state = "SLEEPING"] = T
    BY <2>1, Zenon DEF IInv, Shapes, Table
  <2>3. do_schedule(T, FALSE, curr) /\ slept' = sl /\ reached' = reached
    BY <1>3, <2>2, Zenon DEF lettuce_kernel_sys_nanosleep
  <2>4. Row(s) /\ SameTask(t, s)
    BY <2>1, Accounting, ZenonT(40) DEF Kept, SameTask
  <2>5. Row(u) /\ SameTask(t, u) /\ u.state = "SLEEPING"
    <3> HIDE DEF s
    <3> QED BY <2>4, SetState DEF SameTask
  <2>6. Called(T, sl)
    <3> HIDE DEF u
    <3> QED BY <2>1, <2>5, RowReplaced DEF IInv, Shapes, Called, SameTask, Table
  <2> HIDE DEF T, sl
  <2>7. slept \subseteq sl
    BY DEF sl
  <2> QED BY <2>3, <2>6, <2>7, ScheduleKeeps, Zenon
<1> QED BY <1>1, <1>2, <1>3

\* Nor does what never enters do_schedule.
LEMMA ControlKeeps ==
    ASSUME IInv, \/ lettuce_scheduler_init
                 \/ \E policy \in Policies : lettuce_scheduler_set_policy(policy)
                 \/ lettuce_scheduler_stop
                 \/ TimerInterruptInKernel
                 \/ Execute
                 \/ \E slot \in TaskSlots : Launch(slot)
                 \/ UNCHANGED vars
    PROVE  IInv'
<1>1. Row(UnusedTask) /\ Context(UnusedTask.context) /\ UnusedTask.state = "UNUSED"
  BY DEF UnusedTask, NoContext, Row, Fields, Context, Registers
<1>2. CASE lettuce_scheduler_init
  <2>1. /\ g_task_table' = [i \in TaskSlots |-> UnusedTask] /\ g_current_task' = NoTask
        /\ frame' = frame /\ reached' = [i \in TaskSlots |-> 0]
    BY <1>2 DEF lettuce_scheduler_init, lettuce_task_init_subsystem, switchVars
  <2> QED BY <1>1, <2>1 DEF IInv, Shapes, Table, CurrentInUse, CurrentRuns, SavedContexts, InUse,
                            RunningIsCurrent, IdentityFollowsTask, PreemptionKeepsContext, InTask
<1>3. CASE \/ \E policy \in Policies : lettuce_scheduler_set_policy(policy)
           \/ lettuce_scheduler_stop
           \/ UNCHANGED vars
  <2>1. /\ UNCHANGED <<g_task_table, g_current_task, switchVars, history>>
        /\ g_scheduler_active' => g_scheduler_active
    BY <1>3, SMTT(30) DEF lettuce_scheduler_set_policy, lettuce_scheduler_stop, vars, controlVars
  <2> QED BY <2>1 DEF IInv, Shapes, CurrentInUse, CurrentRuns, SavedContexts, InUse, switchVars, history,
                      RunningIsCurrent, IdentityFollowsTask, PreemptionKeepsContext, InTask
<1>4. CASE TimerInterruptInKernel
  <2> DEFINE T == Elapse(g_task_table)
  <2>1. /\ g_task_table' = T /\ ~g_scheduler_active'
        /\ UNCHANGED <<g_current_task, frame, reached, slept>>
    BY <1>4 DEF TimerInterruptInKernel, controlVars, switchVars, history
  <2>2. Table(T) /\ \A i \in TaskSlots : Kept(g_task_table[i], T[i])
    BY Elapsed DEF IInv, Shapes
  <2> HIDE DEF T
  <2> QED BY <2>1, <2>2 DEF Kept, IInv, Shapes, CurrentInUse, CurrentRuns, SavedContexts, InUse,
                            RunningIsCurrent, IdentityFollowsTask, PreemptionKeepsContext, InTask
<1>5. CASE Execute
  <2> DEFINE next == (frame.step + 1) % StepCount
  <2>1. /\ InTask /\ frame' = [frame EXCEPT !.step = next, !.x0 = NoTask]
        /\ reached' = [reached EXCEPT ![g_current_task] = next]
        /\ UNCHANGED <<g_task_table, g_current_task, g_scheduler_active,
                       g_current_service_id, current_domain, slept>>
    BY <1>5 DEF Execute, controlVars
  <2> HIDE DEF next
  <2>2. Context(frame') /\ frame'.task = frame.task /\ frame'.step = next
    BY <2>1, Zenon DEF IInv, Shapes, Context, Registers
  <2>3. /\ reached' = [i \in TaskSlots |-> reached'[i]]
        /\ g_current_task \in TaskSlots /\ reached'[g_current_task] = next
        /\ \A i \in TaskSlots \ {g_current_task} : reached'[i] = reached[i]
    BY <2>1 DEF IInv, Shapes, InTask
  <2>4. Shapes' /\ SavedContexts'
    BY <2>1, <2>2, <2>3 DEF IInv, Shapes, SavedContexts, InUse
  <2>5. PreemptionKeepsContext'
    BY <2>1, <2>2, <2>3 DEF IInv, PreemptionKeepsContext, InTask
  <2> QED BY <2>1, <2>4, <2>5 DEF IInv, CurrentInUse, CurrentRuns, InUse, RunningIsCurrent,
                                  IdentityFollowsTask, InTask
<1>6. ASSUME NEW slot \in TaskSlots, Launch(slot)
      PROVE  IInv'
  <2> DEFINE t == g_task_table[slot]
             u == [t EXCEPT !.state = "RUNNING"]
             T == [g_task_table EXCEPT ![slot] = u]
  <2>1. /\ g_task_table' = T /\ g_current_task' = slot /\ frame' = t.context
        /\ current_domain' = t.domain_id /\ g_current_service_id' = t.service_id
        /\ UNCHANGED <<reached, slept>> /\ t.state = "READY" /\ g_current_task = NoTask
    BY <1>6 DEF Launch, JustCreated, history, IInv, Shapes, Table
  <2>2. SameTask(t, u) /\ u.state = "RUNNING"
    BY SetState DEF IInv, Shapes, Table, SameTask
  <2>3. Table(T) /\ T[slot] = u /\ \A i \in TaskSlots \ {slot} : T[i] = g_task_table[i]
    <3> HIDE DEF u
    <3> QED BY <2>2, RowReplaced DEF IInv, Shapes, SameTask
  <2>4. slot # NoTask
    BY DEF TaskSlots, NoTask
  <2> HIDE DEF T, u
  <2>5. Shapes'
    BY <2>1, <2>2, <2>3 DEF IInv, Shapes, SameTask
  <2>6. CurrentInUse' /\ CurrentRuns' /\ IdentityFollowsTask'
    BY <2>1, <2>2, <2>3, SMTT(30) DEF CurrentInUse, CurrentRuns, IdentityFollowsTask, InTask, InUse, SameTask
  <2>7. RunningIsCurrent' /\ SavedContexts'
    BY <2>1, <2>2, <2>3, <2>4, SMTT(30) DEF IInv, RunningIsCurrent, SavedContexts, InUse, TaskSlots, NoTask
  <2>8. PreemptionKeepsContext'
    BY <2>1, <2>4 DEF IInv, PreemptionKeepsContext, SavedContexts, InUse, InTask
  <2> QED BY <2>5, <2>6, <2>7, <2>8 DEF IInv
<1> QED BY <1>2, <1>3, <1>4, <1>5, <1>6

\* Histories are kept where no task is made.
LEMMA NoneMade ==
    ASSUME IInv, Administration, NEW slot \in TaskSlots, NEW u,
           g_task_table' = [g_task_table EXCEPT ![slot] = u],
           u.state = g_task_table[slot].state \/ u.state = "TERMINATED"
    PROVE  reached' = reached /\ slept' = slept
<1> DEFINE made == {i \in TaskSlots : g_task_table'[i].state = "READY" /\ i \in Vacant}
<1>1. /\ reached' = [i \in TaskSlots |-> IF i \in made THEN 0 ELSE reached[i]]
      /\ slept' = slept \ made
  BY DEF Administration
<1>2. made = {}
  BY DEF Vacant, IInv, Shapes, Table
<1> HIDE DEF made
<1>3. reached' = [i \in TaskSlots |-> reached[i]] /\ slept' = slept
  BY <1>1, <1>2
<1> QED BY <1>3 DEF IInv, Shapes

\* A task is given another weight or slice.
LEMMA AccountsKeep ==
    ASSUME IInv, Administration, NEW slot \in TaskSlots, NEW u, Kept(g_task_table[slot], u),
           g_task_table' = [g_task_table EXCEPT ![slot] = u], g_current_task' = g_current_task
    PROVE  IInv'
<1>1. reached' = reached /\ slept' = slept
  BY NoneMade, Zenon DEF Kept
<1>2. UNCHANGED <<g_scheduler_active, g_current_service_id, current_domain, frame>>
  BY DEF Administration, switchVars, controlVars
<1>3. Table(g_task_table') /\ \A i \in TaskSlots : Kept(g_task_table[i], g_task_table'[i])
  BY RowReplaced DEF IInv, Shapes, Table, Kept
<1> QED BY <1>1, <1>2, <1>3 DEF Kept, IInv, Shapes, CurrentInUse, CurrentRuns, SavedContexts, InUse,
                                RunningIsCurrent, IdentityFollowsTask, PreemptionKeepsContext, InTask

\* A terminated task leaves the CPU; a new one starts with its entry context.
LEMMA TerminateKeeps ==
    ASSUME IInv, Administration, NEW id \in (1 .. MaxTaskGeneration) \X TaskSlots, lettuce_task_terminate(id)
    PROVE  IInv'
<1> DEFINE slot == id[2]
           t == g_task_table[slot]
           s == [t EXCEPT !.state = "TERMINATED"]
           u == [s EXCEPT !.generation = t.generation + 1]
<1>1. slot \in TaskSlots /\ Row(t)
  BY DEF IInv, Shapes, Table
<1>2. g_task_table' = [g_task_table EXCEPT ![slot] = u]
  <2>1. g_task_table' = [g_task_table EXCEPT ![slot].state = "TERMINATED", ![slot].generation = @ + 1]
    BY DEF lettuce_task_terminate
  <2> HIDE DEF slot
  <2> QED BY <1>1, <2>1, Zenon DEF IInv, Shapes, Table, Row, Fields
<1>3. Row(s) /\ s.context = t.context /\ s.state = "TERMINATED"
  BY <1>1, SetState
<1>4. Kept(s, u)
  <2> HIDE DEF s
  <2> QED BY <1>3, Accounting, Zenon
<1>5. Row(u) /\ u.context = t.context /\ u.state = "TERMINATED"
  BY <1>3, <1>4 DEF Kept
<1>6. g_current_task' = IF g_current_task = slot THEN NoTask ELSE g_current_task
  BY DEF lettuce_task_terminate, CurrentAfterTerminate
<1> HIDE DEF u, slot
<1>7. reached' = reached /\ slept' = slept
  BY <1>1, <1>2, <1>5, NoneMade, ZenonT(40)
<1>8. UNCHANGED <<g_scheduler_active, g_current_service_id, current_domain, frame>>
  BY DEF Administration, switchVars, controlVars
<1>9. /\ Table(g_task_table') /\ g_task_table'[slot] = u
      /\ \A i \in TaskSlots \ {slot} : g_task_table'[i] = g_task_table[i]
  <2>1. Table(g_task_table)
    BY DEF IInv, Shapes
  <2> QED BY <1>1, <1>2, <1>5, <2>1, RowReplaced DEF Table
<1> USE <1>5, <1>6, <1>7, <1>8, <1>9
<1>10. Shapes'
  BY <1>1 DEF IInv, Shapes
<1>11. CurrentInUse' /\ CurrentRuns' /\ IdentityFollowsTask'
  BY DEF IInv, Shapes, CurrentInUse, CurrentRuns, IdentityFollowsTask, InTask, InUse
<1>12. RunningIsCurrent' /\ SavedContexts'
  BY SMTT(30) DEF IInv, RunningIsCurrent, SavedContexts, InUse
<1>13. PreemptionKeepsContext'
  BY DEF IInv, PreemptionKeepsContext, InTask
<1> QED BY <1>10, <1>11, <1>12, <1>13 DEF IInv

LEMMA CreateKeeps ==
    ASSUME IInv, Administration, NEW service_id, NEW domain_id, lettuce_task_create(service_id, domain_id)
    PROVE  IInv'
<1>1. PICK slot \in Vacant :
        g_task_table' = [g_task_table EXCEPT
              ![slot] = [UnusedTask EXCEPT
                        !.generation = g_task_table[slot].generation,
                        !.state = "READY",
                        !.service_id = service_id, !.domain_id = domain_id,
                        !.time_slice_ticks = DefaultSlice,
                        !.context = EntryContext(slot, service_id)]]
  BY Zenon DEF lettuce_task_create
<1> DEFINE u == [UnusedTask EXCEPT
                        !.generation = g_task_table[slot].generation,
                        !.state = "READY",
                        !.service_id = service_id, !.domain_id = domain_id,
                        !.time_slice_ticks = DefaultSlice,
                        !.context = EntryContext(slot, service_id)]
           made == {i \in TaskSlots : g_task_table'[i].state = "READY" /\ i \in Vacant}
<1>2. slot \in TaskSlots /\ ~InUse(g_task_table[slot])
  BY DEF Vacant, InUse
<1>3. Row(u) /\ u.state = "READY" /\ u.context = EntryContext(slot, service_id)
  BY ZenonT(40) DEF UnusedTask, Row, Fields
<1>4. Context(u.context) /\ u.context.task = slot /\ u.context.step = 0
  BY <1>3 DEF EntryContext, Context, Registers
<1> HIDE DEF u
<1>5. /\ Table(g_task_table') /\ g_task_table'[slot] = u
      /\ \A i \in TaskSlots \ {slot} : g_task_table'[i] = g_task_table[i]
  <2>1. g_task_table' = [g_task_table EXCEPT ![slot] = u]
    BY <1>1 DEF u
  <2>2. Table(g_task_table)
    BY DEF IInv, Shapes
  <2> QED BY <1>2, <1>3, <2>1, <2>2, RowReplaced DEF Table
<1>6. g_current_task' = g_current_task /\ g_current_task # slot
  BY <1>2 DEF lettuce_task_create, IInv, Shapes, CurrentInUse, TaskSlots, NoTask
<1>7. /\ UNCHANGED <<g_scheduler_active, g_current_service_id, current_domain, frame>>
      /\ reached' = [i \in TaskSlots |-> IF i \in made THEN 0 ELSE reached[i]]
      /\ slept' = slept \ made
  BY DEF Administration, switchVars, controlVars
<1>8. made = {slot}
  BY <1>2, <1>3, <1>5 DEF Vacant
<1> HIDE DEF made
<1> USE <1>3, <1>4, <1>5, <1>6, <1>7, <1>8
<1>10. Shapes'
  BY <1>2 DEF IInv, Shapes
<1>11. CurrentInUse' /\ CurrentRuns' /\ IdentityFollowsTask'
  BY SMTT(30) DEF IInv, Shapes, CurrentInUse, CurrentRuns, IdentityFollowsTask, InTask, InUse
<1>12. RunningIsCurrent' /\ SavedContexts'
  BY DEF IInv, RunningIsCurrent, SavedContexts, InUse
<1>13. PreemptionKeepsContext'
  BY SMTT(30) DEF IInv, Shapes, PreemptionKeepsContext, InTask
<1> QED BY <1>10, <1>11, <1>12, <1>13, SMTT(30) DEF IInv

\* The task table's administration as a whole.
LEMMA AdministrationKeeps ==
    ASSUME IInv, Administration
    PROVE  IInv'
<1>1. CASE \E kind \in TaskKinds : lettuce_task_create(kind[1], kind[2])
  BY <1>1, CreateKeeps
<1>2. CASE \E id \in (1 .. MaxTaskGeneration) \X TaskSlots : lettuce_task_terminate(id)
  BY <1>2, TerminateKeeps
<1>3. ASSUME NEW slot \in Allocated, NEW weight \in Weights, lettuce_task_set_weight(slot, weight)
      PROVE  IInv'
  <2>1. PICK w : /\ g_task_table' = [g_task_table EXCEPT ![slot].weight = w]
                 /\ g_current_task' = g_current_task
    BY <1>3, Zenon DEF lettuce_task_set_weight
  <2>2. slot \in TaskSlots /\ Row(g_task_table[slot])
    BY DEF Allocated, IInv, Shapes, Table
  <2> DEFINE u == [g_task_table[slot] EXCEPT !.weight = w]
  <2>3. Kept(g_task_table[slot], u) /\ g_task_table' = [g_task_table EXCEPT ![slot] = u]
    BY <2>1, <2>2, Accounting, Zenon DEF IInv, Shapes, Table
  <2> QED BY <2>1, <2>2, <2>3, AccountsKeep, Zenon
<1>4. ASSUME NEW slot \in Allocated, NEW asked \in RequestedSlices, lettuce_task_set_slice(slot, asked)
      PROVE  IInv'
  <2>1. PICK w : /\ g_task_table' = [g_task_table EXCEPT ![slot].requested_slice_ticks = w,
                                                        ![slot].quantum_ticks = w]
                 /\ g_current_task' = g_current_task
    BY <1>4, Zenon DEF lettuce_task_set_slice
  <2>2. slot \in TaskSlots /\ Row(g_task_table[slot])
    BY DEF Allocated, IInv, Shapes, Table
  <2> DEFINE s == [g_task_table[slot] EXCEPT !.requested_slice_ticks = w]
             u == [s EXCEPT !.quantum_ticks = w]
  <2>3. Kept(g_task_table[slot], s) /\ Row(s)
    BY <2>2, Accounting, ZenonT(40) DEF Kept
  <2>4. Kept(s, u)
    <3> HIDE DEF s
    <3> QED BY <2>3, Accounting, Zenon
  <2>5. Kept(g_task_table[slot], u)
    BY <2>3, <2>4, KeptTransitive
  <2>6. g_task_table' = [g_task_table EXCEPT ![slot] = u]
    BY <2>1, <2>2, Zenon DEF IInv, Shapes, Table
  <2> QED BY <2>1, <2>2, <2>5, <2>6, AccountsKeep, Zenon
<1> QED BY <1>1, <1>2, <1>3, <1>4 DEF Administration, TaskAdministration

\* IInv is inductive.
LEMMA Initially == Init => IInv
<1> SUFFICES ASSUME Init PROVE IInv
  OBVIOUS
<1>1. Row(UnusedTask) /\ Context(UnusedTask.context) /\ UnusedTask.state = "UNUSED"
  BY DEF UnusedTask, NoContext, Row, Fields, Context, Registers
<1>2. /\ g_task_table = [i \in TaskSlots |-> UnusedTask] /\ g_current_task = NoTask
      /\ Context(frame) /\ reached = [i \in TaskSlots |-> 0]
  BY DEF Init, TaskInit, NoContext, Context, Registers
<1> QED BY <1>1, <1>2 DEF IInv, Shapes, Table, CurrentInUse, CurrentRuns, SavedContexts, InUse,
                          RunningIsCurrent, IdentityFollowsTask, PreemptionKeepsContext, InTask

LEMMA Inductive == IInv /\ [Next]_vars => IInv'
BY EntriesKeep, ControlKeeps, AdministrationKeeps DEF Next

\* The task table under do_schedule and lettuce_task_terminate: however wake-ups,
\* preemptions, yields, sleeps and terminations alternate, under either policy,
\* at most one task is RUNNING and it is the current one.
THEOREM OneTaskRuns == Spec => []RunningIsCurrent
<1>1. IInv => RunningIsCurrent
  BY DEF IInv
<1> QED BY <1>1, Initially, Inductive, PTL DEF Spec

\* The switch in do_schedule, which enters a domain only if it is not the one of
\* the task left: the identity and the domain in force are the current task's.
THEOREM SwitchHandsOver == Spec => []IdentityFollowsTask
<1>1. IInv => IdentityFollowsTask
  BY DEF IInv
<1> QED BY <1>1, Initially, Inductive, PTL DEF Spec

\* The trap frame copied out and in by do_schedule: a task that never called
\* nanosleep always runs with its own registers, from where it stopped.
THEOREM PreemptionIsTransparent == Spec => []PreemptionKeepsContext
<1>1. IInv => PreemptionKeepsContext
  BY DEF IInv
<1> QED BY <1>1, Initially, Inductive, PTL DEF Spec

-----------------------------------------------------------------------------
(***************************************************************************)
(* Interrupts around the entry to EL0.                                     *)
(***************************************************************************)
\* What lettuce_el0_enter has established at each of its instructions, if no
\* interrupt came since the first of them.
EntryInv ==
    ~disturbed =>
      /\ at # "halted"
      /\ at \in {"elr written", "spsr written"} => elr = "EL0"
      /\ at = "spsr written" => spsr = "EL0"

\* The part of the state EntryInv speaks of.
entryVars == <<at, elr, spsr, disturbed>>

LEMMA EntryStutter == EntryInv /\ UNCHANGED entryVars => EntryInv'
<1>1. UNCHANGED entryVars =>
        at' = at /\ elr' = elr /\ spsr' = spsr /\ disturbed' = disturbed
  BY DEF entryVars
<1> QED BY <1>1, Zenon DEF EntryInv

\* A handler that leaves for the kernel ends no entry.
LEMMA ToKernel == EntryInv /\ at' = "kernel" => EntryInv'
  BY DEF EntryInv

\* Every step but the three of the entry and the interrupt at EL1 leaves the
\* registers alone, and leads from EL0 to the kernel or from there to the entry.
LEMMA EntryStep ==
    ASSUME EntryInv, MachineNext
    PROVE  EntryInv'
<1>1. CASE Expire \/ Propagate \/ SetUpInterrupts \/ lettuce_timer_init \/ SetMask
           \/ ManageTasks \/ Svc
  BY <1>1, EntryStutter
     DEF Expire, Propagate, SetUpInterrupts, lettuce_timer_init, SetMask, ManageTasks, Svc,
         cpuVars, irqVars, entryVars
<1>2. CASE \E slot \in TaskSlots : EnterTask(slot)
  BY <1>2 DEF EnterTask, EntryInv
<1>3. CASE WriteElr
  BY <1>3 DEF WriteElr, EntryInv
<1>4. CASE WriteSpsr
  BY <1>4 DEF WriteSpsr, EntryInv
<1>5. CASE Eret
  <2>1. ~disturbed => at' = "EL0"
    BY <1>5 DEF Eret, EntryInv
  <2> QED BY <2>1, <1>5 DEF Eret, EntryInv
<1>6. CASE lettuce_arch_irq_el1_handler
  <2>1. ~disturbed' => at \notin {"elr written", "spsr written"} /\ ~disturbed
    BY <1>6 DEF lettuce_arch_irq_el1_handler
  <2> QED BY <2>1, <1>6 DEF lettuce_arch_irq_el1_handler, EntryInv
<1>7. CASE lettuce_arch_irq_lower_el_handler
  <2>1. CASE SchedulerTick
    <3>1. CASE LimitReached
      BY <2>1, <3>1, ToKernel DEF SchedulerTick, lettuce_el0_resume_kernel
    <3>2. CASE ~LimitReached
      BY <2>1, <3>2, EntryStutter DEF SchedulerTick, entryVars
    <3> QED BY <3>1, <3>2
  <2>2. CASE PlainTick
    BY <2>2, EntryStutter DEF PlainTick, cpuVars, entryVars
  <2> QED BY <1>7, <2>1, <2>2 DEF lettuce_arch_irq_lower_el_handler
<1>8. CASE SvcReturn
  BY <1>8, ToKernel DEF SvcReturn, lettuce_el0_resume_kernel
<1> QED
  BY <1>1, <1>2, <1>3, <1>4, <1>5, <1>6, <1>7, <1>8 DEF MachineNext

\* lettuce_el0_enter (entry.S): without an interrupt between its first write and
\* its eret, EL0 starts with the prepared program counter and level, whatever
\* handlers ran before and however often the scheduler was left at its limit.
THEOREM EntryIsUndisturbed == MachineSpec => []UndisturbedEntry
<1>1. MachineInit => EntryInv
  BY DEF MachineInit, EntryInv
<1>2. EntryInv /\ [MachineNext]_machineVars => EntryInv'
  <2>1. UNCHANGED machineVars => UNCHANGED entryVars
    BY DEF machineVars, irqVars, cpuVars, entryVars
  <2> QED BY <2>1, EntryStep, EntryStutter
<1>3. EntryInv => UndisturbedEntry
  BY DEF EntryInv, UndisturbedEntry, EntersAsIntended
<1> QED BY <1>1, <1>2, <1>3, PTL DEF MachineSpec
=============================================================================
