---------------------------- MODULE PolicyProofs ----------------------------
(***************************************************************************)
(* Proofs about the two scheduling policies in Scheduler, for every number *)
(* of tasks, every choice of weights and slices, and every scale.  A step  *)
(* of the scheduler is a chain of policy operators on the record of tasks, *)
(* scan position and system virtual time; what each of them changes in     *)
(* that record is shown once, and the steps are composed from it.          *)
(***************************************************************************)
EXTENDS Scheduler, NaturalsInduction, WellFoundedInduction, TLAPS

Fields == {"generation", "state", "service_id", "domain_id", "weight", "requested_slice_ticks",
           "time_slice_ticks", "quantum_ticks", "vruntime", "vdeadline", "sleep", "context"}

Timed(t) ==
    /\ t = [f \in Fields |-> t[f]]
    /\ t.vruntime \in Nat
    /\ t.weight \in Nat \ {0}

TimedTable(T) == T = [i \in TaskSlots |-> T[i]] /\ \A i \in TaskSlots : Timed(T[i])

TimedState(S) ==
    /\ S = [tasks |-> S.tasks, last_idx |-> S.last_idx, vsys |-> S.vsys]
    /\ TimedTable(S.tasks)
    /\ S.vsys \in Nat

\* What scheduling never changes of a task, and what it mostly changes.
SameTerms(t, u) ==
    /\ u.generation = t.generation /\ u.weight = t.weight
    /\ u.requested_slice_ticks = t.requested_slice_ticks /\ u.quantum_ticks = t.quantum_ticks

Shows(t, state, slice, vruntime) ==
    t.state = state /\ t.time_slice_ticks = slice /\ t.vruntime = vruntime

\* From S to T time has not gone back.
Forward(S, T) ==
    /\ TimedState(T) /\ T.vsys >= S.vsys
    /\ \A i \in TaskSlots : SameTerms(S.tasks[i], T.tasks[i])

\* Only the task in slot has changed.
Changes(S, T, slot, state, slice, vruntime) ==
    /\ Forward(S, T)
    /\ \A i \in TaskSlots \ {slot} : T.tasks[i] = S.tasks[i]
    /\ Shows(T.tasks[slot], state, slice, vruntime)

\* Every virtual time is a natural number, every weight divides and the scan
\* starts from a slot.
TimeInv ==
    /\ TimedTable(g_task_table)
    /\ g_eevdf_vsys \in Nat
    /\ g_current_task \in TaskSlots \cup {NoTask}
    /\ g_rr_last_idx \in TaskSlots

-----------------------------------------------------------------------------
(***************************************************************************)
(* The sum of the active weights.                                          *)
(***************************************************************************)
Sums(f, w, k) == f = [n \in 0 .. k |-> IF n = 0 THEN 0 ELSE f[n - 1] + w[n - 1]]

\* A set of numbers that is not empty has a least one.
LEMMA Least ==
    ASSUME NEW T \in SUBSET Nat, T # {}
    PROVE  \E x \in T : \A y \in T : x <= y
<1>1. PICK x \in T : \A y \in T : ~(<<y, x>> \in OpToRel(<, Nat))
  BY NatLessThanWellFounded, WFMin, Zenon
<1>2. \A y \in T : <<y, x>> \in OpToRel(<, Nat) <=> y < x
  BY DEF OpToRel
<1>3. \A y \in T : ~(y < x)
  BY <1>1, <1>2, Zenon
<1> QED BY <1>3

\* The loop that adds up the weights has a result after any number of slots ...
LEMMA SumsExist ==
    ASSUME NEW w, NEW N \in Nat
    PROVE  \E f : Sums(f, w, N)
<1> DEFINE Bad == {k \in Nat : ~ \E f : Sums(f, w, k)}
<1> SUFFICES ASSUME Bad # {} PROVE FALSE
  OBVIOUS
<1>1. PICK k \in Bad : \A y \in Bad : k <= y
  <2>1. Bad \in SUBSET Nat
    OBVIOUS
  <2> HIDE DEF Bad
  <2> QED BY <2>1, Least
<1>2. k # 0
  <2>1. Sums([n \in 0 .. 0 |-> 0], w, 0)
    BY DEF Sums
  <2> QED BY <2>1
<1>3. PICK f : Sums(f, w, k - 1)
  BY <1>1, <1>2
<1> DEFINE g == [n \in 0 .. k |-> IF n = k THEN f[k - 1] + w[k - 1] ELSE f[n]]
<1>4. \A n \in 0 .. k - 1 : f[n] = IF n = 0 THEN 0 ELSE f[n - 1] + w[n - 1]
  BY <1>3 DEF Sums
<1>5. \A n \in 0 .. k : g[n] = IF n = 0 THEN 0 ELSE g[n - 1] + w[n - 1]
  BY <1>2, <1>4
<1>6. g = [n \in 0 .. k |-> g[n]]
  OBVIOUS
<1> HIDE DEF g
<1>7. Sums(g, w, k)
  BY <1>5, <1>6, Zenon DEF Sums
<1> QED BY <1>7

\* ... and never leaves the natural numbers.
LEMMA SumsNatural ==
    ASSUME NEW N \in Nat, NEW w, \A i \in 0 .. N - 1 : w[i] \in Nat, NEW f, Sums(f, w, N)
    PROVE  f[N] \in Nat
<1> DEFINE Bad == {k \in 0 .. N : f[k] \notin Nat}
<1> SUFFICES ASSUME Bad # {} PROVE FALSE
  OBVIOUS
<1>1. PICK k \in Bad : \A y \in Bad : k <= y
  <2>1. Bad \in SUBSET Nat
    OBVIOUS
  <2> HIDE DEF Bad
  <2> QED BY <2>1, Least
<1>2. f[k] = IF k = 0 THEN 0 ELSE f[k - 1] + w[k - 1]
  BY DEF Sums
<1>3. k # 0
  BY <1>2
<1>4. f[k - 1] \in Nat /\ w[k - 1] \in Nat
  BY <1>1, <1>3
<1> QED BY <1>2, <1>3, <1>4

\* get_active_weight_sum never returns zero, so eevdf_on_tick may divide by it.
LEMMA WeightSum ==
    ASSUME NEW S, TimedState(S)
    PROVE  get_active_weight_sum(S) \in Nat \ {0}
<1> DEFINE weight == [i \in TaskSlots |->
                        IF Found(S, i) /\ S.tasks[i].state \in {"READY", "RUNNING"}
                        THEN S.tasks[i].weight ELSE 0]
           total == CHOOSE f : Sums(f, weight, MaxTasks)
<1>1. get_active_weight_sum(S) = IF total[MaxTasks] > 0 THEN total[MaxTasks] ELSE BaseWeight
  BY DEF get_active_weight_sum, Sums
<1>2. \A i \in 0 .. MaxTasks - 1 : weight[i] \in Nat
  BY Zenon DEF TimedState, TimedTable, Timed, TaskSlots
<1> HIDE DEF weight
<1>3. Sums(total, weight, MaxTasks)
  <2>1. \E f : Sums(f, weight, MaxTasks)
    BY SumsExist, TaskAssumption
  <2> QED BY <2>1, Zenon
<1>4. total[MaxTasks] \in Nat
  <2> HIDE DEF total
  <2> QED BY <1>2, <1>3, SumsNatural, TaskAssumption
<1>5. BaseWeight \in Nat \ {0}
  BY TaskAssumption
<1> HIDE DEF total
<1> QED BY <1>1, <1>4, <1>5

-----------------------------------------------------------------------------
(***************************************************************************)
(* Rows and tables.                                                        *)
(***************************************************************************)

\* Most fields may be set to anything ...
LEMMA SetField ==
    ASSUME NEW t, Timed(t), NEW v
    PROVE  /\ Timed([t EXCEPT !.time_slice_ticks = v])
           /\ Timed([t EXCEPT !.vdeadline = v])
           /\ Timed([t EXCEPT !.sleep = v])
           /\ Timed([t EXCEPT !.state = v])
           /\ Timed([t EXCEPT !.context = v])
           /\ Timed([t EXCEPT !.requested_slice_ticks = v])
           /\ Timed([t EXCEPT !.quantum_ticks = v])
           /\ Timed([t EXCEPT !.generation = v])
BY Zenon DEF Timed, Fields

\* ... but vruntime to a natural number only, and weight to a positive one.
LEMMA SetTime ==
    ASSUME NEW t, Timed(t), NEW v \in Nat
    PROVE  Timed([t EXCEPT !.vruntime = v])
BY Zenon DEF Timed, Fields

LEMMA SetWeight ==
    ASSUME NEW t, Timed(t), NEW v \in Nat \ {0}
    PROVE  Timed([t EXCEPT !.weight = v])
BY Zenon DEF Timed, Fields

\* Setting one field leaves the others.
LEMMA FieldSet ==
    ASSUME NEW t, Timed(t), NEW v
    PROVE  /\ Shows([t EXCEPT !.time_slice_ticks = v], t.state, v, t.vruntime)
           /\ Shows([t EXCEPT !.state = v], v, t.time_slice_ticks, t.vruntime)
           /\ Shows([t EXCEPT !.vruntime = v], t.state, t.time_slice_ticks, v)
           /\ Shows([t EXCEPT !.vdeadline = v], t.state, t.time_slice_ticks, t.vruntime)
           /\ Shows([t EXCEPT !.sleep = v], t.state, t.time_slice_ticks, t.vruntime)
           /\ Shows([t EXCEPT !.context = v], t.state, t.time_slice_ticks, t.vruntime)
BY Zenon DEF Timed, Fields, Shows

LEMMA TermsKept ==
    ASSUME NEW t, Timed(t), NEW v
    PROVE  /\ SameTerms(t, [t EXCEPT !.time_slice_ticks = v])
           /\ SameTerms(t, [t EXCEPT !.state = v])
           /\ SameTerms(t, [t EXCEPT !.vruntime = v])
           /\ SameTerms(t, [t EXCEPT !.vdeadline = v])
           /\ SameTerms(t, [t EXCEPT !.sleep = v])
           /\ SameTerms(t, [t EXCEPT !.context = v])
BY Zenon DEF Timed, Fields, SameTerms

LEMMA SameTransitive ==
    ASSUME NEW t, NEW u, NEW w, SameTerms(t, u), SameTerms(u, w)
    PROVE  SameTerms(t, w)
BY Zenon DEF SameTerms

LEMMA SameReflexive == \A t : SameTerms(t, t)
BY Zenon DEF SameTerms

LEMMA Quotient ==
    ASSUME NEW a \in Nat, NEW b \in Nat \ {0}
    PROVE  (a \div b) \in Nat
OBVIOUS

LEMMA ReplaceInTable ==
    ASSUME NEW T, TimedTable(T), NEW slot \in TaskSlots, NEW u, Timed(u)
    PROVE  TimedTable([T EXCEPT ![slot] = u])
BY DEF TimedTable

LEMMA Replace ==
    ASSUME NEW S, TimedState(S), NEW slot \in TaskSlots, NEW u, Timed(u), SameTerms(S.tasks[slot], u),
           NEW T, NEW l, NEW v \in Nat, v >= S.vsys,
           T = [tasks |-> [S.tasks EXCEPT ![slot] = u], last_idx |-> l, vsys |-> v]
    PROVE  /\ Changes(S, T, slot, u.state, u.time_slice_ticks, u.vruntime)
           /\ T.vsys = v /\ T.last_idx = l
<1>1. TimedTable([S.tasks EXCEPT ![slot] = u]) /\ DOMAIN S.tasks = TaskSlots
  BY ReplaceInTable DEF TimedState, TimedTable
<1>2. T.tasks = [S.tasks EXCEPT ![slot] = u] /\ T.vsys = v /\ T.last_idx = l
  OBVIOUS
<1>3. T.tasks[slot] = u /\ \A i \in TaskSlots \ {slot} : T.tasks[i] = S.tasks[i]
  BY <1>1, <1>2
<1>4. \A i \in TaskSlots : SameTerms(S.tasks[i], T.tasks[i])
  BY <1>3, SameReflexive, Zenon
<1>5. TimedState(T)
  BY <1>1, <1>2 DEF TimedState
<1> QED BY <1>2, <1>3, <1>4, <1>5 DEF Forward, Changes, Shows

LEMMA ForwardReflexive == ASSUME NEW S, TimedState(S) PROVE Forward(S, S)
BY SameReflexive DEF TimedState, Forward

LEMMA ForwardTransitive ==
    ASSUME NEW S, NEW T, NEW U, TimedState(S), Forward(S, T), Forward(T, U)
    PROVE  Forward(S, U)
<1>1. \A i \in TaskSlots : SameTerms(S.tasks[i], U.tasks[i])
  BY SameTransitive, Zenon DEF Forward
<1> QED BY <1>1 DEF TimedState, Forward

-----------------------------------------------------------------------------
(***************************************************************************)
(* The operators of the policies.                                          *)
(***************************************************************************)
Less(ticks) == IF ticks > 0 THEN ticks - 1 ELSE 0

LEMMA SliceUsed ==
    ASSUME NEW S, TimedState(S), NEW slot \in TaskSlots
    PROVE  LET t == S.tasks[slot]
               T == UseSlice(S, slot)
           IN /\ Changes(S, T, slot, t.state, Less(t.time_slice_ticks), t.vruntime)
              /\ T.vsys = S.vsys /\ T.last_idx = S.last_idx
<1> DEFINE t == S.tasks[slot]
           v == Less(t.time_slice_ticks)
           u == [t EXCEPT !.time_slice_ticks = v]
           T == UseSlice(S, slot)
<1>1. T = [tasks |-> [S.tasks EXCEPT ![slot] = u], last_idx |-> S.last_idx, vsys |-> S.vsys]
  BY DEF UseSlice, TimedState, TimedTable, Timed, Fields, Less
<1>2. Timed(t) /\ S.vsys \in Nat
  BY DEF TimedState, TimedTable
<1> HIDE DEF v
<1>3. Timed(u) /\ SameTerms(t, u) /\ Shows(u, t.state, v, t.vruntime)
  BY <1>2, SetField, TermsKept, FieldSet, Zenon
<1> HIDE DEF u, T
<1>4. /\ Changes(S, T, slot, u.state, u.time_slice_ticks, u.vruntime)
      /\ T.vsys = S.vsys /\ T.last_idx = S.last_idx
  BY <1>1, <1>2, <1>3, Replace
<1> QED BY <1>3, <1>4, Zenon DEF Shows, v, T

LEMMA Renewed ==
    ASSUME NEW S, TimedState(S), NEW slot \in TaskSlots
    PROVE  LET t == S.tasks[slot]
               T == Renew(S, slot)
           IN /\ Changes(S, T, slot, t.state, t.quantum_ticks, t.vruntime)
              /\ T.vsys = S.vsys /\ T.last_idx = S.last_idx
<1> DEFINE t == S.tasks[slot]
           v == t.quantum_ticks
           u == [t EXCEPT !.time_slice_ticks = v]
           T == Renew(S, slot)
<1>1. T = [tasks |-> [S.tasks EXCEPT ![slot] = u], last_idx |-> S.last_idx, vsys |-> S.vsys]
  BY DEF Renew, TimedState, TimedTable, Timed, Fields
<1>2. Timed(t) /\ S.vsys \in Nat
  BY DEF TimedState, TimedTable
<1> HIDE DEF v
<1>3. Timed(u) /\ SameTerms(t, u) /\ Shows(u, t.state, v, t.vruntime)
  BY <1>2, SetField, TermsKept, FieldSet, Zenon
<1> HIDE DEF u, T
<1>4. /\ Changes(S, T, slot, u.state, u.time_slice_ticks, u.vruntime)
      /\ T.vsys = S.vsys /\ T.last_idx = S.last_idx
  BY <1>1, <1>2, <1>3, Replace
<1> QED BY <1>3, <1>4, Zenon DEF Shows, v, T

\* What a tick adds to the virtual runtime of the task that runs.
TickLength(policy, t) == IF policy = "RR" THEN 0 ELSE Scale \div t.weight

\* A tick moves the task's time and the system's forward.
LEMMA Ticked ==
    ASSUME NEW S, TimedState(S), NEW slot \in TaskSlots, NEW policy
    PROVE  LET t == S.tasks[slot]
               T == on_tick(policy, S, slot)
           IN /\ Changes(S, T, slot, t.state, Less(t.time_slice_ticks),
                         t.vruntime + TickLength(policy, t))
              /\ T.last_idx = S.last_idx
              /\ TickLength(policy, t) \in Nat
<1> DEFINE t == S.tasks[slot]
           U == UseSlice(S, slot)
           k == Less(t.time_slice_ticks)
           a == Scale \div t.weight
           b == Scale \div get_active_weight_sum(S)
           r == U.tasks[slot]
           u == [r EXCEPT !.vruntime = r.vruntime + a]
           T == eevdf_on_tick(S, slot)
<1>1. /\ Changes(S, U, slot, t.state, k, t.vruntime)
      /\ U.vsys = S.vsys /\ U.last_idx = S.last_idx
  BY SliceUsed, Zenon
<1>2. t.weight \in Nat \ {0} /\ t.vruntime \in Nat
  BY Zenon DEF TimedState, TimedTable, Timed
<1>3. a \in Nat /\ b \in Nat
  <2>1. Scale \in Nat
    BY PolicyAssumption
  <2> QED BY <1>2, <2>1, WeightSum, Quotient
<1>4. T = [U EXCEPT !.tasks[slot].vruntime = @ + a, !.vsys = @ + b]
  BY DEF eevdf_on_tick
<1> HIDE DEF a, b, k, U, T
<1>5. Forward(S, U) /\ TimedState(U) /\ Shows(r, t.state, k, t.vruntime)
  BY <1>1, Zenon DEF Changes, Forward
<1>6. Timed(r) /\ U.vsys \in Nat /\ r.vruntime + a \in Nat
  BY <1>3, <1>5 DEF TimedState, TimedTable, Timed
<1>7. T = [tasks |-> [U.tasks EXCEPT ![slot] = u], last_idx |-> U.last_idx, vsys |-> U.vsys + b]
  BY <1>4, <1>5, Zenon DEF TimedState, TimedTable, Timed, Fields
<1>8. Timed(u) /\ SameTerms(r, u) /\ Shows(u, r.state, r.time_slice_ticks, r.vruntime + a)
  BY <1>6, SetTime, TermsKept, FieldSet, Zenon
<1>9. U.vsys + b \in Nat /\ U.vsys + b >= U.vsys
  BY <1>3, <1>6
<1>10. Changes(U, T, slot, u.state, u.time_slice_ticks, u.vruntime) /\ T.last_idx = U.last_idx
  <2> HIDE DEF u, r
  <2> QED BY <1>5, <1>7, <1>8, <1>9, Replace DEF r
<1>11. Changes(U, T, slot, t.state, k, t.vruntime + a)
  <2>1. u.state = t.state /\ u.time_slice_ticks = k /\ u.vruntime = t.vruntime + a
    BY <1>5, <1>8, Zenon DEF Shows
  <2> QED BY <1>10, <2>1, Zenon
<1>12. Changes(S, T, slot, t.state, k, t.vruntime + a)
  <2>1. Forward(S, T)
    BY <1>5, <1>11, ForwardTransitive, Zenon DEF Changes
  <2> QED BY <1>1, <1>11, <2>1, Zenon DEF Changes
<1>13. CASE policy = "RR"
  <2>1. on_tick(policy, S, slot) = U /\ TickLength(policy, t) = 0
    BY <1>13, Zenon DEF on_tick, rr_on_tick, U, TickLength
  <2>2. t.vruntime + 0 = t.vruntime /\ 0 \in Nat
    BY <1>2
  <2> QED BY <1>1, <2>1, <2>2, Zenon DEF k
<1>14. CASE policy # "RR"
  <2>1. on_tick(policy, S, slot) = T /\ TickLength(policy, t) = a
    BY <1>14, Zenon DEF on_tick, T, TickLength, a
  <2> QED BY <1>1, <1>3, <1>10, <1>12, <2>1, Zenon DEF k
<1> QED BY <1>13, <1>14, Zenon

LEMMA Started ==
    ASSUME NEW S, TimedState(S), NEW slot \in TaskSlots
    PROVE  LET t == S.tasks[slot]
               T == eevdf_start(S, slot)
           IN /\ Changes(S, T, slot, t.state, t.requested_slice_ticks, t.vruntime)
              /\ T.vsys = S.vsys /\ T.last_idx = S.last_idx
<1> DEFINE t == S.tasks[slot]
           v == t.requested_slice_ticks
           d == lettuce_eevdf_calc_deadline(t)
           t1 == [t EXCEPT !.time_slice_ticks = v]
           u == [t1 EXCEPT !.vdeadline = d]
           S1 == [S EXCEPT !.tasks[slot].time_slice_ticks = v]
           T == eevdf_start(S, slot)
<1>1. T = [S1 EXCEPT !.tasks[slot].vdeadline = d]
  BY DEF eevdf_start
<1>2. S1 = [tasks |-> [S.tasks EXCEPT ![slot] = t1], last_idx |-> S.last_idx, vsys |-> S.vsys]
  BY DEF TimedState, TimedTable, Timed, Fields
<1>3. Timed(t) /\ S.vsys \in Nat
  BY DEF TimedState, TimedTable
<1> HIDE DEF d, v
<1>4. Timed(t1) /\ SameTerms(t, t1) /\ Shows(t1, t.state, v, t.vruntime)
  BY <1>3, SetField, TermsKept, FieldSet, Zenon
<1> HIDE DEF t1
<1>5. Timed(u) /\ SameTerms(t1, u) /\ Shows(u, t1.state, t1.time_slice_ticks, t1.vruntime)
  BY <1>4, SetField, TermsKept, FieldSet, Zenon
<1>6. SameTerms(t, u) /\ Shows(u, t.state, v, t.vruntime)
  <2> HIDE DEF u
  <2> QED BY <1>4, <1>5, SameTransitive, Zenon DEF Shows
<1> HIDE DEF S1, T
<1>7. T = [tasks |-> [S.tasks EXCEPT ![slot] = u], last_idx |-> S.last_idx, vsys |-> S.vsys]
  BY <1>1, <1>2 DEF TimedState, TimedTable
<1> HIDE DEF u
<1>8. /\ Changes(S, T, slot, u.state, u.time_slice_ticks, u.vruntime)
      /\ T.vsys = S.vsys /\ T.last_idx = S.last_idx
  BY <1>3, <1>5, <1>6, <1>7, Replace
<1> QED BY <1>6, <1>8, Zenon DEF Shows, v, T

\* Catching up with a task that is not eligible moves the time forward.
LEMMA CaughtUp ==
    ASSUME NEW S, TimedState(S), NEW slot \in TaskSlots, ~Eligible(S, slot)
    PROVE  LET T == CatchUp(S, slot)
           IN /\ Forward(S, T)
              /\ T.tasks = S.tasks /\ T.last_idx = S.last_idx /\ T.vsys = S.tasks[slot].vruntime
<1> DEFINE T == CatchUp(S, slot)
<1>1. T = [tasks |-> S.tasks, last_idx |-> S.last_idx, vsys |-> S.tasks[slot].vruntime]
  BY DEF CatchUp, TimedState
<1>2. S.tasks[slot].vruntime \in Nat /\ S.vsys \in Nat
  BY Zenon DEF TimedState, TimedTable, Timed
<1>3. S.tasks[slot].vruntime >= S.vsys
  BY <1>2 DEF Eligible
<1> HIDE DEF T
<1>4. T.tasks = S.tasks /\ T.last_idx = S.last_idx /\ T.vsys = S.tasks[slot].vruntime
  BY <1>1
<1>5. TimedState(T)
  BY <1>1, <1>2, <1>4 DEF TimedState
<1>6. Forward(S, T)
  BY <1>3, <1>4, <1>5, SameReflexive DEF Forward
<1> QED BY <1>4, <1>6, Zenon DEF T

\* A task that joins the ready ones is not ahead because of it.
LEMMA Readied ==
    ASSUME NEW t, Timed(t), NEW vsys \in Nat, NEW policy
    PROVE  LET u == on_task_ready(policy, t, vsys)
           IN /\ Timed(u) /\ SameTerms(t, u)
              /\ Shows(u, t.state, t.time_slice_ticks, u.vruntime)
              /\ u.vruntime \in {t.vruntime, vsys}
<1> DEFINE v == IF t.vruntime < vsys THEN vsys ELSE t.vruntime
           caught == [t EXCEPT !.vruntime = v]
           d == lettuce_eevdf_calc_deadline(caught)
           u == [caught EXCEPT !.vdeadline = d]
<1>1. Align(t, vsys) = u
  BY DEF Align
<1>2. v \in Nat /\ v \in {t.vruntime, vsys}
  BY DEF Timed
<1> HIDE DEF v, d
<1>3. Timed(caught) /\ SameTerms(t, caught) /\ Shows(caught, t.state, t.time_slice_ticks, v)
  BY <1>2, SetTime, TermsKept, FieldSet, Zenon
<1> HIDE DEF caught
<1>4. Timed(u) /\ SameTerms(caught, u)
      /\ Shows(u, caught.state, caught.time_slice_ticks, caught.vruntime)
  BY <1>3, SetField, TermsKept, FieldSet, Zenon
<1> HIDE DEF u
<1>5. SameTerms(t, u)
  BY <1>3, <1>4, SameTransitive, Zenon
<1>6. CASE policy = "RR"
  <2>1. on_task_ready(policy, t, vsys) = t
    BY <1>6, Zenon DEF on_task_ready
  <2> QED BY <2>1, SameReflexive, Zenon DEF Shows
<1>7. CASE policy # "RR"
  <2>1. on_task_ready(policy, t, vsys) = u
    BY <1>1, <1>7, Zenon DEF on_task_ready
  <2> QED BY <1>2, <1>3, <1>4, <1>5, <2>1, Zenon DEF Shows
<1> QED BY <1>6, <1>7, Zenon

-----------------------------------------------------------------------------
(***************************************************************************)
(* The choice of the next task, which do_schedule asks for when the        *)
(* current one, if any, is no longer RUNNING.                              *)
(***************************************************************************)

\* A choice gives one ready task its slice, and leaves every task's state and
\* virtual runtime alone.
Chosen(S, pick) ==
    /\ Forward(S, pick.S)
    /\ \A i \in TaskSlots :
         Shows(pick.S.tasks[i], S.tasks[i].state, pick.S.tasks[i].time_slice_ticks, S.tasks[i].vruntime)
    /\ \A i \in TaskSlots \ {pick.task} :
         pick.S.tasks[i].time_slice_ticks = S.tasks[i].time_slice_ticks
    /\ pick.task \in ReadyTasks(S)
    /\ pick.S.tasks[pick.task].time_slice_ticks
         \in {S.tasks[pick.task].requested_slice_ticks, S.tasks[pick.task].quantum_ticks}

\* One step of the scan's modulus.
LEMMA Wrap ==
    ASSUME NEW m \in Nat \ {0}, NEW n \in 0 .. 2 * m - 1
    PROVE  (n % m) = IF n < m THEN n ELSE n - m
<1>1. (n % m) \in 0 .. m - 1
  OBVIOUS
<1>2. n = m * (n \div m) + (n % m)
  OBVIOUS
<1>3. (n \div m) \in Nat
  OBVIOUS
<1> DEFINE q == n \div m
           r == n % m
<1> HIDE DEF q, r
<1>4. q \in {0, 1}
  <2> SUFFICES ASSUME q >= 2 PROVE FALSE
    BY <1>3 DEF q
  <2>1. m * q >= m * 2
    BY <1>3 DEF q
  <2> QED BY <1>1, <1>2, <2>1, <1>3 DEF q, r
<1>5. CASE q = 0
  BY <1>1, <1>2, <1>5 DEF q, r
<1>6. CASE q = 1
  BY <1>1, <1>2, <1>6 DEF q, r
<1> QED BY <1>4, <1>5, <1>6

\* rr_pick_next's start_offset, the scan's modulus where it wraps once, and the
\* place of a slot in the scan.
StartOffset(curr) == IF curr = NoTask THEN 0 ELSE 1
Turned(n) == IF n < MaxTasks THEN n ELSE n - MaxTasks
Place(last, offset, i) == IF i >= last + offset THEN i - last - offset
                          ELSE i - last - offset + MaxTasks

LEMMA ScanSlot ==
    ASSUME NEW S, S.last_idx \in TaskSlots, NEW curr, NEW k \in TaskSlots
    PROVE  ScanOrder(S, curr)[k] = Turned(S.last_idx + k + StartOffset(curr))
<1> DEFINE n == S.last_idx + k + StartOffset(curr)
<1>1. ScanOrder(S, curr)[k] = n % MaxTasks
  BY DEF ScanOrder, StartOffset
<1>2. MaxTasks \in Nat \ {0} /\ n \in 0 .. 2 * MaxTasks - 1
  BY TaskAssumption DEF TaskSlots, StartOffset
<1> HIDE DEF n
<1>3. (n % MaxTasks) = Turned(n)
  BY <1>2, Wrap, Zenon DEF Turned
<1>4. ScanOrder(S, curr)[k] = Turned(n)
  BY <1>1, <1>3, Zenon
<1> QED BY <1>4, Zenon DEF n

LEMMA ScanPlace ==
    ASSUME NEW S, S.last_idx \in TaskSlots, NEW curr, NEW i \in TaskSlots
    PROVE  LET place == Place(S.last_idx, StartOffset(curr), i)
           IN place \in TaskSlots /\ ScanOrder(S, curr)[place] = i
<1>1. PICK last \in TaskSlots : last = S.last_idx
  OBVIOUS
<1>2. PICK offset \in {0, 1} : offset = StartOffset(curr)
  BY DEF StartOffset
<1>3. PICK place : place = Place(last, offset, i)
  OBVIOUS
<1>4. place \in TaskSlots
  BY <1>3, TaskAssumption DEF TaskSlots, Place
<1>5. Turned(last + place + offset) = i
  BY <1>3, <1>4, TaskAssumption DEF TaskSlots, Place, Turned
<1>6. ScanOrder(S, curr)[place] = Turned(last + place + offset)
  BY <1>1, <1>2, <1>4, ScanSlot, Zenon
<1> QED BY <1>1, <1>2, <1>3, <1>4, <1>5, <1>6, Zenon

\* The scan brings every ready task it passes by nearer to its turn.
ComesNearer(S, curr, slot) ==
    \A i \in ReadyTasks(S) \ {slot} :
      /\ SlotsBetween(slot, i) <= SlotsBetween(S.last_idx, i)
      /\ curr # NoTask => SlotsBetween(slot, i) < SlotsBetween(S.last_idx, i)

LEMMA ScanNearer ==
    ASSUME NEW S, S.last_idx \in TaskSlots, NEW curr,
           NEW k \in TaskSlots,
           \A j \in TaskSlots : ScanOrder(S, curr)[j] \in ReadyTasks(S) => k <= j
    PROVE  ComesNearer(S, curr, ScanOrder(S, curr)[k])
<1> DEFINE order == ScanOrder(S, curr)
           slot == order[k]
<1>1. PICK last \in TaskSlots : last = S.last_idx
  OBVIOUS
<1>2. PICK offset \in {0, 1} : offset = StartOffset(curr)
  BY DEF StartOffset
<1> SUFFICES ASSUME NEW i \in ReadyTasks(S) \ {slot}
             PROVE  /\ SlotsBetween(slot, i) <= SlotsBetween(last, i)
                    /\ curr # NoTask => SlotsBetween(slot, i) < SlotsBetween(last, i)
  BY <1>1 DEF ComesNearer
<1>3. PICK place : place = Place(last, offset, i)
  OBVIOUS
<1>4. i \in TaskSlots
  BY DEF ReadyTasks
<1>5. place \in TaskSlots /\ order[place] = i
  BY <1>1, <1>2, <1>3, <1>4, ScanPlace, ZenonT(40)
<1>6. slot = Turned(last + k + offset)
  BY <1>1, <1>2, ScanSlot, Zenon
<1>7. k <= place /\ k # place
  BY <1>5
<1> HIDE DEF order, slot
<1>8. /\ SlotsBetween(slot, i) <= SlotsBetween(last, i)
      /\ offset = 1 => SlotsBetween(slot, i) < SlotsBetween(last, i)
  BY <1>3, <1>4, <1>5, <1>6, <1>7, TaskAssumption DEF SlotsBetween, TaskSlots, Turned, Place
<1>9. curr # NoTask => offset = 1
  BY <1>2 DEF StartOffset
<1> QED BY <1>8, <1>9, Zenon

LEMMA RoundRobinPick ==
    ASSUME NEW S, TimedState(S), NEW curr, ~IsRunning(S, curr), NEW pick \in rr_pick_next(S, curr)
    PROVE  \/ pick = [S |-> S, task |-> NoTask]
           \/ /\ Chosen(S, pick) /\ pick.S.last_idx = pick.task
              /\ S.last_idx \in TaskSlots => ComesNearer(S, curr, pick.task)
<1> DEFINE order == ScanOrder(S, curr)
           hits == {i \in TaskSlots : order[i] \in ReadyTasks(S)}
           first == {i \in hits : \A j \in hits : i <= j}
<1>1. CASE hits # {}
  <2> HIDE DEF order
  <2>1. PICK k \in first :
          pick = [S |-> [Renew(S, order[k]) EXCEPT !.last_idx = order[k]], task |-> order[k]]
    BY <1>1 DEF rr_pick_next, order
  <2> DEFINE slot == order[k]
             R == Renew(S, slot)
             t == S.tasks[slot]
  <2>2. slot \in TaskSlots /\ slot \in ReadyTasks(S) /\ k \in TaskSlots
    BY <2>1 DEF ReadyTasks
  <2>3. S.last_idx \in TaskSlots => ComesNearer(S, curr, slot)
    BY <2>2, ScanNearer DEF order
  <2> HIDE DEF slot
  <2>4. Changes(S, R, slot, t.state, t.quantum_ticks, t.vruntime)
    BY <2>2, Renewed, Zenon
  <2> DEFINE P == [R EXCEPT !.last_idx = slot]
  <2>5. pick.S = P /\ pick.task = slot
    BY <2>1 DEF slot
  <2> HIDE DEF R
  <2>6. P = [tasks |-> R.tasks, last_idx |-> slot, vsys |-> R.vsys]
    BY <2>4 DEF Changes, Forward, TimedState
  <2> HIDE DEF P
  <2>7. P.tasks = R.tasks /\ P.vsys = R.vsys /\ P.last_idx = slot
    BY <2>6
  <2>8. Forward(S, P)
    BY <2>4, <2>6, <2>7, SMTT(30) DEF Changes, Forward, TimedState
  <2>9. Chosen(S, [S |-> P, task |-> slot])
    BY <2>2, <2>4, <2>7, <2>8 DEF Chosen, Changes, Shows
  <2>10. pick = [S |-> P, task |-> slot]
    BY <2>1, <2>5
  <2> QED BY <2>3, <2>5, <2>7, <2>9, <2>10, Zenon
<1>2. CASE hits = {}
  BY <1>2 DEF rr_pick_next
<1> QED BY <1>1, <1>2

\* A task that eevdf_pick_next starts is not ahead of the system time, which is
\* set only when no ready task is eligible, and then to the time of one that is
\* ahead of it.
Eligibly(S, pick) ==
    LET u == pick.S.tasks[pick.task] IN
    /\ u.vruntime <= pick.S.vsys
    /\ u.time_slice_ticks = S.tasks[pick.task].requested_slice_ticks

\* From a state B that differs from S in deadlines and system time only.
LEMMA StartedFrom ==
    ASSUME NEW S, TimedState(S), NEW B, Forward(S, B), NEW slot \in ReadyTasks(S),
           \A i \in TaskSlots : Shows(B.tasks[i], S.tasks[i].state, S.tasks[i].time_slice_ticks,
                                      S.tasks[i].vruntime),
           B.last_idx = S.last_idx, S.tasks[slot].vruntime <= B.vsys
    PROVE  LET pick == [S |-> eevdf_start(B, slot), task |-> slot]
           IN Chosen(S, pick) /\ pick.S.last_idx = S.last_idx /\ Eligibly(S, pick)
<1> DEFINE T == eevdf_start(B, slot)
           t == B.tasks[slot]
<1>1. slot \in TaskSlots /\ TimedState(B)
  BY DEF ReadyTasks, Forward
<1>2. /\ Changes(B, T, slot, t.state, t.requested_slice_ticks, t.vruntime)
      /\ T.vsys = B.vsys /\ T.last_idx = B.last_idx
  BY <1>1, Started, Zenon
<1> HIDE DEF T
<1>3. Forward(S, T)
  BY <1>2, ForwardTransitive, Zenon DEF Changes
<1>4. t.requested_slice_ticks = S.tasks[slot].requested_slice_ticks
  BY <1>1, Zenon DEF Forward, SameTerms
<1>5. \A i \in TaskSlots :
        Shows(T.tasks[i], S.tasks[i].state, T.tasks[i].time_slice_ticks, S.tasks[i].vruntime)
  BY <1>2, ZenonT(40) DEF Changes, Shows
<1>6. \A i \in TaskSlots \ {slot} : T.tasks[i].time_slice_ticks = S.tasks[i].time_slice_ticks
  BY <1>2, ZenonT(40) DEF Changes, Shows
<1> DEFINE pick == [S |-> T, task |-> slot]
<1>7. pick.S = T /\ pick.task = slot
  OBVIOUS
<1> HIDE DEF pick
<1>8. Chosen(S, pick)
  <2>1. T.tasks[slot].time_slice_ticks = S.tasks[slot].requested_slice_ticks
    BY <1>2, <1>4, Zenon DEF Changes, Shows
  <2> QED BY <1>3, <1>5, <1>6, <1>7, <2>1, Zenon DEF Chosen
<1>9. Eligibly(S, pick)
  BY <1>1, <1>2, <1>4, <1>5, <1>7, Zenon DEF Eligibly, Changes, Shows
<1>10. pick.S.last_idx = S.last_idx
  BY <1>2, <1>7, Zenon
<1> QED BY <1>8, <1>9, <1>10, Zenon DEF pick, T

LEMMA EevdfPick ==
    ASSUME NEW S, TimedState(S), NEW curr, ~IsRunning(S, curr), NEW pick \in eevdf_pick_next(S, curr)
    PROVE  \/ pick = [S |-> S, task |-> NoTask] /\ ReadyTasks(S) = {}
           \/ Chosen(S, pick) /\ pick.S.last_idx = S.last_idx /\ Eligibly(S, pick)
<1> DEFINE ready == ReadyTasks(S)
           eligible == {i \in ready : Eligible(S, i)}
           stale(i) == i \in eligible /\ S.tasks[i].vdeadline < S.tasks[i].vruntime
           table == [i \in TaskSlots |->
                       IF stale(i)
                       THEN [S.tasks[i] EXCEPT !.vdeadline = lettuce_eevdf_calc_deadline(S.tasks[i])]
                       ELSE S.tasks[i]]
           fresh == [S EXCEPT !.tasks = table]
           earliest == FirstLeast(eligible, [i \in TaskSlots |-> fresh.tasks[i].vdeadline])
           least == FirstLeast(ready, [i \in TaskSlots |-> S.tasks[i].vruntime])
           Same(t, u) == /\ Timed(u) /\ SameTerms(t, u)
                         /\ Shows(u, t.state, t.time_slice_ticks, t.vruntime)
<1>1. \A i \in TaskSlots : Same(S.tasks[i], table[i])
  <2> SUFFICES ASSUME NEW i \in TaskSlots PROVE Same(S.tasks[i], table[i])
    OBVIOUS
  <2>1. Timed(S.tasks[i])
    BY DEF TimedState, TimedTable
  <2> DEFINE d == lettuce_eevdf_calc_deadline(S.tasks[i])
  <2>2. table[i] = [S.tasks[i] EXCEPT !.vdeadline = d] \/ table[i] = S.tasks[i]
    OBVIOUS
  <2> HIDE DEF d, stale, table
  <2>3. Same(S.tasks[i], [S.tasks[i] EXCEPT !.vdeadline = d])
    BY <2>1, SetField, TermsKept, FieldSet, Zenon
  <2>4. Same(S.tasks[i], S.tasks[i])
    BY <2>1, SameReflexive, Zenon DEF Shows
  <2> QED BY <2>2, <2>3, <2>4, Zenon
<1>2. table = [i \in TaskSlots |-> table[i]]
  OBVIOUS
<1> HIDE DEF table
<1>3. fresh = [tasks |-> table, last_idx |-> S.last_idx, vsys |-> S.vsys]
  BY DEF TimedState
<1>4. fresh.tasks = table /\ fresh.last_idx = S.last_idx /\ fresh.vsys = S.vsys
  BY <1>3
<1>5. Forward(S, fresh)
  BY <1>1, <1>2, <1>3, <1>4 DEF Forward, TimedState, TimedTable
<1>6. ready \subseteq TaskSlots /\ earliest \subseteq eligible /\ least \subseteq ready
  BY DEF FirstLeast, ReadyTasks
<1>7. CASE eligible # {}
  <2>1. pick \in {[S |-> eevdf_start(fresh, slot), task |-> slot] : slot \in earliest}
    BY <1>7, Zenon DEF eevdf_pick_next, table
  <2>2. \A i \in eligible : i \in ready /\ S.tasks[i].vruntime <= S.vsys
    BY DEF Eligible
  <2> HIDE DEF fresh, earliest, eligible
  <2>3. PICK slot \in earliest : pick = [S |-> eevdf_start(fresh, slot), task |-> slot]
    BY <2>1
  <2>4. slot \in ReadyTasks(S) /\ S.tasks[slot].vruntime <= fresh.vsys
    BY <1>4, <1>6, <2>2, Zenon
  <2>5. \A i \in TaskSlots : Shows(fresh.tasks[i], S.tasks[i].state, S.tasks[i].time_slice_ticks,
                                   S.tasks[i].vruntime)
    BY <1>1, <1>4, Zenon
  <2> QED BY <1>4, <1>5, <2>3, <2>4, <2>5, StartedFrom, ZenonT(40)
<1>8. CASE eligible = {} /\ ready # {}
  <2>1. pick \in {[S |-> eevdf_start(CatchUp(S, slot), slot), task |-> slot] : slot \in least}
    BY <1>8 DEF eevdf_pick_next
  <2>2. \A i \in ready : ~Eligible(S, i)
    BY <1>8
  <2> HIDE DEF ready, least
  <2>3. PICK slot \in least : pick = [S |-> eevdf_start(CatchUp(S, slot), slot), task |-> slot]
    BY <2>1
  <2>4. slot \in ReadyTasks(S) /\ slot \in TaskSlots /\ ~Eligible(S, slot)
    BY <1>6, <2>2 DEF ready
  <2> DEFINE C == CatchUp(S, slot)
  <2>5. /\ Forward(S, C)
        /\ C.tasks = S.tasks /\ C.last_idx = S.last_idx /\ C.vsys = S.tasks[slot].vruntime
    BY <2>4, CaughtUp, Zenon
  <2> HIDE DEF C
  <2>6. S.tasks[slot].vruntime <= C.vsys
    <3>1. S.tasks[slot].vruntime \in Nat
      BY <2>4, Zenon DEF TimedState, TimedTable, Timed
    <3> QED BY <2>5, <3>1
  <2>7. \A i \in TaskSlots : Shows(C.tasks[i], S.tasks[i].state, S.tasks[i].time_slice_ticks,
                                   S.tasks[i].vruntime)
    BY <2>5, Zenon DEF Shows
  <2>8. pick = [S |-> eevdf_start(C, slot), task |-> slot]
    BY <2>3, Zenon DEF C
  <2> QED BY <2>4, <2>5, <2>6, <2>7, <2>8, StartedFrom, ZenonT(40)
<1>9. CASE eligible = {} /\ ready = {}
  BY <1>9 DEF eevdf_pick_next
<1> QED BY <1>7, <1>8, <1>9

-----------------------------------------------------------------------------
(***************************************************************************)
(* The operators of the scheduler core.                                    *)
(***************************************************************************)

\* What waking may do to a task.
Rises(t, u, vsys) ==
    /\ t.state = "SLEEPING"
    /\ Shows(u, "READY", t.time_slice_ticks, u.vruntime)
    /\ u.vruntime \in {t.vruntime, vsys}

LEMMA Woken ==
    ASSUME NEW S, TimedState(S)
    PROVE  LET T == Wake(S)
           IN /\ Forward(S, T) /\ T.vsys = S.vsys /\ T.last_idx = S.last_idx
              /\ \A i \in TaskSlots :
                   T.tasks[i] = S.tasks[i] \/ Rises(S.tasks[i], T.tasks[i], S.vsys)
<1> DEFINE due(i) == Found(S, i) /\ S.tasks[i].state = "SLEEPING" /\ S.tasks[i].sleep = 0
           raised(i) == [S.tasks[i] EXCEPT !.state = "READY"]
           up(i) == on_task_ready(g_current_policy_type, raised(i), S.vsys)
           table == [i \in TaskSlots |-> IF due(i) THEN up(i) ELSE S.tasks[i]]
           T == Wake(S)
<1>1. T = [S EXCEPT !.tasks = table]
  BY DEF Wake
<1>2. \A i \in TaskSlots :
        /\ Timed(S.tasks[i])
        /\ Timed(up(i)) /\ SameTerms(S.tasks[i], up(i))
        /\ Shows(up(i), "READY", S.tasks[i].time_slice_ticks, up(i).vruntime)
        /\ up(i).vruntime \in {S.tasks[i].vruntime, S.vsys}
  <2> SUFFICES ASSUME NEW i \in TaskSlots
               PROVE  /\ Timed(S.tasks[i])
                      /\ Timed(up(i)) /\ SameTerms(S.tasks[i], up(i))
                      /\ Shows(up(i), "READY", S.tasks[i].time_slice_ticks, up(i).vruntime)
                      /\ up(i).vruntime \in {S.tasks[i].vruntime, S.vsys}
    BY Zenon
  <2> DEFINE t == S.tasks[i]
             r == raised(i)
             u == up(i)
  <2>1. Timed(t) /\ S.vsys \in Nat
    BY DEF TimedState, TimedTable
  <2>2. Timed(r) /\ SameTerms(t, r) /\ Shows(r, "READY", t.time_slice_ticks, t.vruntime)
    BY <2>1, SetField, TermsKept, FieldSet, Zenon
  <2> HIDE DEF raised
  <2>3. /\ Timed(u) /\ SameTerms(r, u)
        /\ Shows(u, r.state, r.time_slice_ticks, u.vruntime) /\ u.vruntime \in {r.vruntime, S.vsys}
    BY <2>1, <2>2, Readied, Zenon
  <2> HIDE DEF up
  <2>4. SameTerms(t, u)
    BY <2>2, <2>3, SameTransitive, Zenon
  <2> QED BY <2>1, <2>2, <2>3, <2>4, Zenon DEF Shows
<1> HIDE DEF up
<1>3. \A i \in TaskSlots :
        /\ Timed(table[i]) /\ SameTerms(S.tasks[i], table[i])
        /\ table[i] = S.tasks[i] \/ Rises(S.tasks[i], table[i], S.vsys)
  <2> SUFFICES ASSUME NEW i \in TaskSlots
               PROVE  /\ Timed(table[i]) /\ SameTerms(S.tasks[i], table[i])
                      /\ table[i] = S.tasks[i] \/ Rises(S.tasks[i], table[i], S.vsys)
    BY Zenon
  <2>1. CASE due(i)
    <3>1. table[i] = up(i) /\ S.tasks[i].state = "SLEEPING"
      BY <2>1, Zenon
    <3> HIDE DEF table, due
    <3> QED BY <1>2, <3>1, Zenon DEF Rises
  <2>2. CASE ~due(i)
    <3>1. table[i] = S.tasks[i]
      BY <2>2, Zenon
    <3> HIDE DEF table, due
    <3> QED BY <1>2, <3>1, SameReflexive, Zenon
  <2> QED BY <2>1, <2>2, Zenon
<1>4. TimedTable(table)
  BY <1>3, Zenon DEF TimedTable
<1> HIDE DEF table, T
<1>5. T = [tasks |-> table, last_idx |-> S.last_idx, vsys |-> S.vsys]
  BY <1>1 DEF TimedState
<1>6. T.tasks = table /\ T.last_idx = S.last_idx /\ T.vsys = S.vsys
  BY <1>5
<1>7. TimedState(T)
  BY <1>4, <1>5, <1>6 DEF TimedState
<1>8. Forward(S, T)
  BY <1>3, <1>6, <1>7 DEF Forward, TimedState
<1> QED BY <1>3, <1>6, <1>8, Zenon DEF T

LEMMA Saved ==
    ASSUME NEW S, TimedState(S), NEW slot \in TaskSlots
    PROVE  LET t == S.tasks[slot]
               T == Preempted(S, slot)
           IN /\ Changes(S, T, slot, "READY", t.time_slice_ticks, T.tasks[slot].vruntime)
              /\ T.tasks[slot].vruntime \in {t.vruntime, S.vsys}
              /\ T.vsys = S.vsys /\ T.last_idx = S.last_idx
<1> DEFINE t == S.tasks[slot]
           t1 == [t EXCEPT !.context = frame]
           t2 == [t1 EXCEPT !.state = "READY"]
           u == on_task_ready(g_current_policy_type, t2, S.vsys)
           T == Preempted(S, slot)
<1>1. Timed(t) /\ S.vsys \in Nat
  BY DEF TimedState, TimedTable
<1>2. Timed(t1) /\ SameTerms(t, t1) /\ Shows(t1, t.state, t.time_slice_ticks, t.vruntime)
  BY <1>1, SetField, TermsKept, FieldSet, Zenon
<1>3. Timed(t2) /\ SameTerms(t1, t2) /\ Shows(t2, "READY", t1.time_slice_ticks, t1.vruntime)
  <2> HIDE DEF t1
  <2> QED BY <1>2, SetField, TermsKept, FieldSet, Zenon
<1>4. T = [S EXCEPT !.tasks[slot] = u]
  BY DEF Preempted
<1> HIDE DEF t2
<1>5. /\ Timed(u) /\ SameTerms(t2, u)
      /\ Shows(u, t2.state, t2.time_slice_ticks, u.vruntime) /\ u.vruntime \in {t2.vruntime, S.vsys}
  BY <1>1, <1>3, Readied, Zenon
<1> HIDE DEF u, T, t1
<1>6. SameTerms(t, u) /\ u.state = "READY" /\ u.time_slice_ticks = t.time_slice_ticks
      /\ u.vruntime \in {t.vruntime, S.vsys}
  <2>1. SameTerms(t, t2)
    BY <1>2, <1>3, SameTransitive, Zenon
  <2>2. SameTerms(t, u)
    BY <1>5, <2>1, SameTransitive, Zenon
  <2> QED BY <1>2, <1>3, <1>5, <2>2, Zenon DEF Shows
<1>7. T = [tasks |-> [S.tasks EXCEPT ![slot] = u], last_idx |-> S.last_idx, vsys |-> S.vsys]
  BY <1>4 DEF TimedState
<1>8. /\ Changes(S, T, slot, u.state, u.time_slice_ticks, u.vruntime)
      /\ T.vsys = S.vsys /\ T.last_idx = S.last_idx
  BY <1>1, <1>5, <1>6, <1>7, Replace
<1>9. T.tasks[slot].vruntime = u.vruntime
  BY <1>8, Zenon DEF Changes, Shows
<1> QED BY <1>6, <1>8, <1>9, Zenon DEF T

LEMMA Running ==
    ASSUME NEW S, TimedState(S), NEW slot \in TaskSlots
    PROVE  LET t == S.tasks[slot]
               T == [S EXCEPT !.tasks[slot].state = "RUNNING"]
           IN /\ Changes(S, T, slot, "RUNNING", t.time_slice_ticks, t.vruntime)
              /\ T.vsys = S.vsys /\ T.last_idx = S.last_idx
<1> DEFINE t == S.tasks[slot]
           u == [t EXCEPT !.state = "RUNNING"]
           T == [S EXCEPT !.tasks[slot].state = "RUNNING"]
<1>1. T = [tasks |-> [S.tasks EXCEPT ![slot] = u], last_idx |-> S.last_idx, vsys |-> S.vsys]
  BY SMTT(30) DEF TimedState, TimedTable, Timed, Fields
<1>2. Timed(t) /\ S.vsys \in Nat
  BY DEF TimedState, TimedTable
<1>3. Timed(u) /\ SameTerms(t, u) /\ Shows(u, "RUNNING", t.time_slice_ticks, t.vruntime)
  BY <1>2, SetField, TermsKept, FieldSet, Zenon
<1> HIDE DEF u, T
<1>4. /\ Changes(S, T, slot, u.state, u.time_slice_ticks, u.vruntime)
      /\ T.vsys = S.vsys /\ T.last_idx = S.last_idx
  BY <1>1, <1>2, <1>3, Replace
<1> QED BY <1>3, <1>4, Zenon DEF Shows, T

LEMMA Resumed ==
    ASSUME NEW S, TimedState(S), NEW slot \in TaskSlots
    PROVE  LET t == S.tasks[slot]
               T == Resume(S, slot)
           IN /\ Changes(S, T, slot, "RUNNING", t.quantum_ticks, t.vruntime)
              /\ T.vsys = S.vsys /\ T.last_idx = S.last_idx
<1> DEFINE t == S.tasks[slot]
           R == Renew(S, slot)
           r == R.tasks[slot]
           T == Resume(S, slot)
<1>1. /\ Changes(S, R, slot, t.state, t.quantum_ticks, t.vruntime)
      /\ R.vsys = S.vsys /\ R.last_idx = S.last_idx
  BY Renewed, Zenon
<1>2. T = [R EXCEPT !.tasks[slot].state = "RUNNING"]
  BY DEF Resume
<1> HIDE DEF R, T
<1>3. TimedState(R)
  BY <1>1, Zenon DEF Changes, Forward
<1>4. /\ Changes(R, T, slot, "RUNNING", r.time_slice_ticks, r.vruntime)
      /\ T.vsys = R.vsys /\ T.last_idx = R.last_idx
  BY <1>2, <1>3, Running, Zenon
<1>5. Forward(S, T)
  BY <1>1, <1>4, ForwardTransitive, Zenon DEF Changes
<1>6. Changes(S, T, slot, "RUNNING", t.quantum_ticks, t.vruntime)
  BY <1>1, <1>4, <1>5, Zenon DEF Changes, Shows
<1> QED BY <1>1, <1>4, <1>6, Zenon DEF T

-----------------------------------------------------------------------------
(***************************************************************************)
(* Slices in virtual time.                                                 *)
(***************************************************************************)
LeastWeight == CHOOSE w \in TaskWeights : \A x \in TaskWeights : w <= x

\* The most virtual time a tick may take.
TickMost == Scale \div LeastWeight

LEMMA Product ==
    ASSUME NEW m \in Nat, NEW x \in Nat, NEW y \in Nat, x <= y
    PROVE  m * x \in Nat /\ m * y \in Nat /\ m * x <= m * y
<1>1. PICK d \in Nat : y = x + d
  <2> WITNESS y - x \in Nat
  <2> QED OBVIOUS
<1>2. m * (x + d) = m * x + m * d
  OBVIOUS
<1>3. m * x \in Nat /\ m * d \in Nat
  OBVIOUS
<1> QED BY <1>1, <1>2, <1>3

\* A product that does not exceed a number divides into it.
LEMMA QuotientMost ==
    ASSUME NEW a \in Nat, NEW m \in Nat \ {0}, NEW x \in Nat, m * x <= a
    PROVE  x <= (a \div m)
<1> DEFINE z == a \div m
<1>1. z \in Nat /\ a < m * (z + 1)
  OBVIOUS
<1> HIDE DEF z
<1> SUFFICES ASSUME z + 1 <= x PROVE FALSE
  BY <1>1 DEF z
<1>2. m * (z + 1) <= m * x /\ m * (z + 1) \in Nat /\ m * x \in Nat
  BY <1>1, Product
<1> QED BY <1>1, <1>2

LEMMA QuotientTimes ==
    ASSUME NEW a \in Nat, NEW m \in Nat \ {0}
    PROVE  (a \div m) \in Nat /\ m * (a \div m) <= a
OBVIOUS

LEMMA WeightsAndSlices ==
    /\ TaskWeights \subseteq Nat \ {0} /\ BaseWeight \in TaskWeights
    /\ TaskSlices \subseteq Nat \ {0} /\ DefaultSlice \in TaskSlices
    /\ \A w \in Weights : AllowedWeight(w) \in TaskWeights
    /\ \A r \in RequestedSlices : AllowedSlice(r) \in TaskSlices
BY TaskAssumption DEF TaskWeights, TaskSlices, AllowedWeight, AllowedSlice

LEMMA LeastWeightDivides ==
    /\ LeastWeight \in TaskWeights /\ LeastWeight \in Nat \ {0}
    /\ \A x \in TaskWeights : LeastWeight <= x
    /\ TickMost \in Nat
<1>1. TaskWeights \in SUBSET Nat /\ TaskWeights # {}
  BY WeightsAndSlices
<1>2. \E w \in TaskWeights : \A x \in TaskWeights : w <= x
  BY <1>1, Least
<1>3. LeastWeight \in TaskWeights /\ \A x \in TaskWeights : LeastWeight <= x
  BY <1>2, Zenon DEF LeastWeight
<1>4. LeastWeight \in Nat \ {0}
  BY <1>3, WeightsAndSlices
<1> QED BY <1>3, <1>4, PolicyAssumption, Quotient DEF TickMost

\* No weight makes a tick longer than TickMost ...
LEMMA TickIsShort ==
    ASSUME NEW w \in TaskWeights
    PROVE  (Scale \div w) \in Nat /\ (Scale \div w) <= TickMost
<1> DEFINE x == Scale \div w
           m == LeastWeight
<1>1. w \in Nat \ {0} /\ m \in Nat \ {0} /\ m <= w /\ Scale \in Nat
  BY WeightsAndSlices, LeastWeightDivides, PolicyAssumption
<1>2. x \in Nat /\ w * x <= Scale
  BY <1>1, QuotientTimes
<1> HIDE DEF x, m
<1>3. x * m <= x * w
  BY <1>1, <1>2, Product
<1>4. m * x <= Scale
  BY <1>1, <1>2, <1>3
<1>5. x <= (Scale \div m)
  BY <1>1, <1>2, <1>4, QuotientMost
<1> QED BY <1>2, <1>5 DEF x, m, TickMost

\* ... and as many of those as a slice has ticks fit into its virtual length.
LEMMA SliceFits ==
    ASSUME NEW s \in TaskSlices
    PROVE  \E d \in SliceLengths : s * TickMost <= d
<1> DEFINE m == LeastWeight
           y == TickMost
           d == (s * Scale) \div m
<1>1. s \in Nat /\ m \in Nat \ {0} /\ m \in TaskWeights /\ y \in Nat /\ Scale \in Nat
  BY WeightsAndSlices, LeastWeightDivides, PolicyAssumption
<1>2. m * y <= Scale
  BY <1>1, QuotientTimes DEF TickMost
<1>3. d \in SliceLengths
  BY <1>1 DEF SliceLengths
<1> HIDE DEF m, y
<1>4. s * (m * y) <= s * Scale /\ s * Scale \in Nat
  BY <1>1, <1>2, Product
<1>5. s * (m * y) = m * (s * y) /\ s * y \in Nat
  BY <1>1
<1>6. s * y <= d
  BY <1>1, <1>4, <1>5, QuotientMost, SMTT(30)
<1> QED BY <1>3, <1>6 DEF y

LEMMA LengthsNatural == SliceLengths \subseteq Nat /\ SliceLengths # {}
<1>1. \A s \in TaskSlices, w \in TaskWeights : ((s * Scale) \div w) \in Nat
  BY WeightsAndSlices, PolicyAssumption, Quotient
<1>2. SliceLengths \subseteq Nat
  <2> SUFFICES ASSUME NEW d \in SliceLengths PROVE d \in Nat
    OBVIOUS
  <2>1. PICK s \in TaskSlices, w \in TaskWeights : d = (s * Scale) \div w
    BY DEF SliceLengths
  <2> QED BY <1>1, <2>1, Zenon
<1>3. SliceLengths # {}
  BY SliceFits, WeightsAndSlices
<1> QED BY <1>2, <1>3

(***************************************************************************)
(* The lag of a task and what it has left of its slice.                    *)
(***************************************************************************)
Fit(t) ==
    /\ t.generation \in Nat /\ t.time_slice_ticks \in Nat
    /\ t.weight \in TaskWeights
    /\ t.requested_slice_ticks \in TaskSlices /\ t.quantum_ticks \in TaskSlices
    /\ t.state = "UNUSED" => t.vruntime = 0

\* The task is at most a slice ahead of time v ...
Within(t, v) ==
    t.generation <= ScanGenerations => \E d \in SliceLengths : t.vruntime <= v + d

\* ... and will not be further ahead when it has used up the slice it has; one
\* that yields is charged a tick more.
Roomy(t, v) ==
    t.generation <= ScanGenerations =>
      \E d \in SliceLengths :
        t.vruntime + (IF t.time_slice_ticks > 0 THEN t.time_slice_ticks ELSE 1) * TickMost <= v + d

LEMMA WithinLater ==
    ASSUME NEW t, Timed(t), NEW v \in Nat, NEW w \in Nat, v <= w, Within(t, v)
    PROVE  Within(t, w)
BY LengthsNatural DEF Within, Timed

LEMMA WithinNow ==
    ASSUME NEW t, Timed(t), NEW v \in Nat, t.vruntime <= v
    PROVE  Within(t, v)
BY LengthsNatural DEF Within, Timed

LEMMA RoomyLater ==
    ASSUME NEW t, Timed(t), Fit(t), NEW v \in Nat, NEW w \in Nat, v <= w, Roomy(t, v)
    PROVE  Roomy(t, w)
<1> DEFINE n == (IF t.time_slice_ticks > 0 THEN t.time_slice_ticks ELSE 1) * TickMost
<1>1. Roomy(t, v) <=> (t.generation <= ScanGenerations => \E d \in SliceLengths : t.vruntime + n <= v + d)
  BY Zenon DEF Roomy
<1>2. Roomy(t, w) <=> (t.generation <= ScanGenerations => \E d \in SliceLengths : t.vruntime + n <= w + d)
  BY Zenon DEF Roomy
<1>3. n \in Nat /\ t.vruntime \in Nat
  BY LeastWeightDivides DEF Fit, Timed
<1> HIDE DEF n
<1> QED BY <1>1, <1>2, <1>3, LengthsNatural

\* A task that is not ahead has room for any slice it is given.
LEMMA RoomyStart ==
    ASSUME NEW t, Timed(t), NEW v \in Nat, t.vruntime <= v, t.time_slice_ticks \in TaskSlices
    PROVE  Roomy(t, v)
<1> DEFINE s == t.time_slice_ticks
           n == s * TickMost
<1>1. s \in Nat \ {0}
  BY WeightsAndSlices, Zenon
<1>2. (IF s > 0 THEN s ELSE 1) = s
  BY <1>1
<1>3. PICK d \in SliceLengths : n <= d
  BY SliceFits
<1>4. n \in Nat /\ d \in Nat /\ t.vruntime \in Nat
  BY <1>1, LeastWeightDivides, LengthsNatural DEF Timed
<1> HIDE DEF n
<1>5. t.vruntime + n <= v + d
  BY <1>3, <1>4
<1> HIDE DEF s
<1> QED BY <1>2, <1>5, Zenon DEF Roomy, n, s

\* A tick uses up the room of one tick.
LEMMA RoomyTick ==
    ASSUME NEW t, Timed(t), Fit(t), NEW u, Timed(u), SameTerms(t, u),
           NEW a \in Nat, a <= TickMost,
           u.vruntime = t.vruntime + a, u.time_slice_ticks = Less(t.time_slice_ticks),
           NEW v \in Nat, NEW w \in Nat, v <= w, Roomy(t, v)
    PROVE  /\ Within(u, w)
           /\ u.time_slice_ticks > 0 => Roomy(u, w)
<1> DEFINE q == TickMost
           s == t.time_slice_ticks
           r == u.time_slice_ticks
           g == t.generation <= ScanGenerations
           span(k) == IF k > 0 THEN k ELSE 1
<1>1. /\ g => \E d \in SliceLengths : t.vruntime + span(s) * q <= v + d
      /\ u.generation = t.generation
  BY Zenon DEF Roomy, SameTerms
<1>2. s \in Nat /\ r = Less(s) /\ q \in Nat /\ t.vruntime \in Nat /\ u.vruntime \in Nat
  BY LeastWeightDivides DEF Fit, Timed
<1> SUFFICES ASSUME g
             PROVE  \E d \in SliceLengths :
                      u.vruntime <= w + d /\ (r > 0 => u.vruntime + span(r) * q <= w + d)
  <2> HIDE DEF span
  <2>1. CASE g
    BY <1>1, <2>1, Zenon DEF Within, Roomy, span
  <2>2. CASE ~g
    BY <1>1, <2>2, Zenon DEF Within, Roomy
  <2> QED BY <2>1, <2>2, Zenon
<1>3. PICK d \in SliceLengths : t.vruntime + span(s) * q <= v + d
  BY <1>1
<1>4. d \in Nat
  BY LengthsNatural
<1> HIDE DEF q, s, r
<1>5. CASE s <= 1
  <2>1. span(s) = 1 /\ r = 0 /\ 1 * q = q
    BY <1>2, <1>5 DEF Less
  <2>2. t.vruntime + q <= v + d
    BY <1>3, <2>1, Zenon
  <2>3. u.vruntime <= w + d /\ ~(r > 0)
    BY <1>2, <1>4, <2>1, <2>2 DEF q
  <2> QED BY <2>3
<1>6. CASE s > 1
  <2>1. span(s) = s /\ r = s - 1 /\ span(r) = r
    BY <1>2, <1>6 DEF Less
  <2>2. s * q = r * q + q /\ r * q \in Nat
    BY <1>2, <1>6, <2>1
  <2>3. t.vruntime + (r * q + q) <= v + d
    BY <1>3, <2>1, <2>2, Zenon
  <2> DEFINE n == r * q
  <2>4. n \in Nat /\ t.vruntime + (n + q) <= v + d
    BY <2>2, <2>3
  <2> HIDE DEF n
  <2>5. u.vruntime <= w + d /\ u.vruntime + n <= w + d
    BY <1>2, <1>4, <2>4 DEF q
  <2> HIDE DEF span
  <2> QED BY <2>1, <2>5, Zenon DEF n
<1> QED BY <1>2, <1>5, <1>6

-----------------------------------------------------------------------------
(***************************************************************************)
(* do_schedule.                                                            *)
(***************************************************************************)

\* Every task is at most a slice ahead ...
Sound(S) == \A i \in TaskSlots : Fit(S.tasks[i]) /\ Within(S.tasks[i], S.vsys)

\* ... and the one that runs has room for the rest of its slice.
RoomyAt(S, curr) ==
    g_current_policy_type # "RR" /\ IsRunning(S, curr) => Roomy(S.tasks[curr], S.vsys)

\* How far the scan is from the tasks that wait in T, having been at last.
Nearer(last, T, curr, next) ==
    \A i \in TaskSlots :
      T.tasks[i].state = "READY" /\ T.tasks[i].generation <= ScanGenerations =>
        /\ SlotsBetween(T.last_idx, i) <= SlotsBetween(last, i)
        /\ curr # NoTask /\ next \notin {curr, NoTask} =>
             SlotsBetween(T.last_idx, i) < SlotsBetween(last, i)

\* What do_schedule, called in state S, makes of it: T, with task next current.
Outcome(S, T, next) ==
    /\ Forward(S, T) /\ T.last_idx \in TaskSlots /\ next \in TaskSlots \cup {NoTask}
    /\ Sound(S) /\ RoomyAt(S, g_current_task) => Sound(T) /\ RoomyAt(T, next)
    /\ g_current_policy_type = "RR" => Nearer(S.last_idx, T, g_current_task, next)

LEMMA FitKept ==
    ASSUME NEW t, Fit(t), NEW u, SameTerms(t, u), u.time_slice_ticks \in Nat,
           u.state = "UNUSED" => u.vruntime = 0
    PROVE  Fit(u)
BY Zenon DEF Fit, SameTerms

LEMMA SoundChange ==
    ASSUME NEW S, TimedState(S), Sound(S), NEW slot \in TaskSlots, NEW T,
           NEW state, NEW slice \in Nat, NEW vruntime,
           Changes(S, T, slot, state, slice, vruntime),
           state = "UNUSED" => vruntime = 0, Within(T.tasks[slot], T.vsys)
    PROVE  Sound(T)
<1> SUFFICES ASSUME NEW i \in TaskSlots
             PROVE  Fit(T.tasks[i]) /\ Within(T.tasks[i], T.vsys)
  BY DEF Sound
<1>1. Fit(S.tasks[i]) /\ Within(S.tasks[i], S.vsys) /\ SameTerms(S.tasks[i], T.tasks[i])
  BY DEF Sound, Changes, Forward
<1>2. CASE i = slot
  BY <1>1, <1>2, FitKept, Zenon DEF Changes, Shows
<1>3. CASE i # slot
  <2>1. T.tasks[i] = S.tasks[i] /\ Timed(S.tasks[i])
    BY <1>3 DEF Changes, TimedState, TimedTable
  <2>2. S.vsys \in Nat /\ T.vsys \in Nat /\ S.vsys <= T.vsys
    BY DEF Changes, Forward, TimedState
  <2> QED BY <1>1, <2>1, <2>2, WithinLater, ZenonT(40)
<1> QED BY <1>2, <1>3, ZenonT(40)

\* A choice leaves the state sound.
LEMMA SoundChoice ==
    ASSUME NEW B, TimedState(B), Sound(B), NEW pick, Chosen(B, pick)
    PROVE  Sound(pick.S)
<1> DEFINE P == pick.S
<1> SUFFICES ASSUME NEW i \in TaskSlots PROVE Fit(P.tasks[i]) /\ Within(P.tasks[i], P.vsys)
  BY DEF Sound
<1> DEFINE t == B.tasks[i]
           u == P.tasks[i]
<1>1. /\ Fit(t) /\ Within(t, B.vsys) /\ SameTerms(t, u) /\ Timed(t) /\ Timed(u)
      /\ u.state = t.state /\ u.vruntime = t.vruntime
      /\ u.time_slice_ticks = t.time_slice_ticks
         \/ u.time_slice_ticks \in {t.requested_slice_ticks, t.quantum_ticks}
  BY ZenonT(40) DEF Sound, Chosen, Forward, Shows, TimedState, TimedTable
<1>2. B.vsys \in Nat /\ P.vsys \in Nat /\ B.vsys <= P.vsys
  BY DEF Chosen, Forward, TimedState
<1> HIDE DEF t, u
<1>3. u.time_slice_ticks \in Nat /\ (u.state = "UNUSED" => u.vruntime = 0)
  BY <1>1, WeightsAndSlices, ZenonT(40) DEF Fit
<1>4. Fit(u)
  BY <1>1, <1>3, FitKept, Zenon
<1>5. Within(t, P.vsys)
  BY <1>1, <1>2, WithinLater, Zenon
<1>6. Within(u, P.vsys)
  BY <1>1, <1>5, Zenon DEF Within, SameTerms
<1> QED BY <1>4, <1>6 DEF t, u

\* The task chosen takes over, or goes on.
LEMMA ChosenOutcome ==
    ASSUME NEW S, TimedState(S), S.last_idx \in TaskSlots, NEW curr, curr = g_current_task,
           NEW B, Forward(S, B), B.last_idx = S.last_idx,
           Sound(S) /\ RoomyAt(S, curr) => Sound(B),
           NEW pick, Chosen(B, pick),
           g_current_policy_type = "RR" =>
             pick.S.last_idx = pick.task /\ ComesNearer(B, curr, pick.task),
           g_current_policy_type # "RR" => pick.S.last_idx = B.last_idx /\ Eligibly(B, pick),
           NEW slot, slot = pick.task, NEW T, NEW slice, NEW t, t = pick.S.tasks[slot],
           slice \in {t.time_slice_ticks, t.quantum_ticks},
           Changes(pick.S, T, slot, "RUNNING", slice, t.vruntime),
           T.vsys = pick.S.vsys, T.last_idx = pick.S.last_idx
    PROVE  Outcome(S, T, slot)
<1> DEFINE P == pick.S
           b == B.tasks[slot]
           u == T.tasks[slot]
<1>1. slot \in TaskSlots /\ slot \in ReadyTasks(B) /\ TimedState(B) /\ TimedState(P) /\ Forward(B, P)
  BY Zenon DEF Chosen, ReadyTasks, Forward
<1>2. Forward(S, P)
  BY <1>1, ForwardTransitive, Zenon
<1>3. Forward(S, T)
  BY <1>2, ForwardTransitive, ZenonT(40) DEF Changes
<1>4. T.last_idx \in TaskSlots
  BY <1>1
<1>5. Timed(u) /\ Timed(t) /\ SameTerms(t, u) /\ SameTerms(b, t)
      /\ Shows(u, "RUNNING", slice, t.vruntime) /\ T.vsys \in Nat
  <2>1. TimedState(T)
    BY ZenonT(40) DEF Changes, Forward
  <2>2. Timed(u) /\ Timed(t) /\ T.vsys \in Nat
    BY <1>1, <2>1 DEF TimedState, TimedTable
  <2> QED BY <1>1, <2>2, Zenon DEF Changes, Forward
<1>6. ASSUME Sound(S), RoomyAt(S, curr)
      PROVE  Sound(T) /\ RoomyAt(T, slot)
  <2>1. Sound(B) /\ Sound(P)
    BY <1>1, <1>6, SoundChoice, ZenonT(40)
  <2>2. Fit(t) /\ Within(t, P.vsys) /\ Fit(b)
    BY <1>1, <2>1, SMTT(30) DEF Sound
  <2>3. slice \in Nat
    BY <2>2, WeightsAndSlices, Zenon DEF Fit
  <2>4. Within(u, T.vsys)
    BY <1>5, <2>2, Zenon DEF Within, SameTerms, Shows
  <2>5. Sound(T)
    <3>1. "RUNNING" # "UNUSED"
      OBVIOUS
    <3> QED BY <1>1, <2>1, <2>3, <2>4, <3>1, SoundChange, ZenonT(40)
  <2>6. ASSUME g_current_policy_type # "RR" PROVE Roomy(u, T.vsys)
    <3>1. t.vruntime <= P.vsys /\ t.time_slice_ticks = b.requested_slice_ticks
      BY <2>6, ZenonT(40) DEF Eligibly
    <3>2. slice \in TaskSlices
      BY <2>2, <3>1, Zenon DEF Fit
    <3>3. u.vruntime <= T.vsys /\ u.time_slice_ticks \in TaskSlices
      BY <1>5, <3>1, <3>2, Zenon DEF Shows
    <3> QED BY <1>5, <3>3, RoomyStart, Zenon
  <2> QED BY <2>5, <2>6, Zenon DEF RoomyAt
<1>7. ASSUME g_current_policy_type = "RR"
      PROVE  Nearer(S.last_idx, T, curr, slot)
  <2>1. T.last_idx = slot /\ ComesNearer(B, curr, slot)
    BY <1>7, SMTT(30)
  <2>2. \A i \in TaskSlots :
          T.tasks[i].state = "READY" /\ T.tasks[i].generation <= ScanGenerations
            => i \in ReadyTasks(B) \ {slot}
    <3> SUFFICES ASSUME NEW i \in TaskSlots,
                        T.tasks[i].state = "READY", T.tasks[i].generation <= ScanGenerations
                 PROVE  i \in ReadyTasks(B) \ {slot}
      BY ZenonT(40)
    <3>1. i # slot
      BY <1>5 DEF Shows
    <3>2. T.tasks[i] = P.tasks[i]
      BY <3>1, Zenon DEF Changes
    <3>3. B.tasks[i].state = "READY" /\ B.tasks[i].generation <= ScanGenerations
      BY <1>1, <3>2, ZenonT(40) DEF Chosen, Shows, Forward, SameTerms
    <3> QED BY <3>1, <3>3 DEF ReadyTasks, Found
  <2> QED BY <2>1, <2>2, ZenonT(40) DEF Nearer, ComesNearer
<1> QED BY <1>1, <1>3, <1>4, <1>6, <1>7, Zenon DEF Outcome

\* Nothing moves when the scan does not.
LEMMA NearerStill ==
    ASSUME NEW S, S.last_idx \in TaskSlots, NEW T, T.last_idx = S.last_idx, NEW curr
    PROVE  Nearer(S.last_idx, T, curr, curr)
BY TaskAssumption DEF Nearer, SlotsBetween, TaskSlots

\* No task is ready: the current one stays, and runs on if it had to wait
\* although the scan does not find it.
LEMMA NoneOutcome ==
    ASSUME NEW S, TimedState(S), S.last_idx \in TaskSlots, NEW curr, curr = g_current_task,
           curr \in TaskSlots \cup {NoTask},
           NEW B, Forward(S, B), B.last_idx = S.last_idx, ~IsRunning(B, curr),
           Sound(S) /\ RoomyAt(S, curr) => Sound(B),
           g_current_policy_type # "RR" => ReadyTasks(B) = {}
    PROVE  /\ Outcome(S, B, curr)
           /\ curr # NoTask /\ B.tasks[curr].state = "READY" => Outcome(S, Resume(B, curr), curr)
<1>1. TimedState(B) /\ B.last_idx \in TaskSlots
  BY DEF Forward
<1>2. Outcome(S, B, curr)
  <2>1. Nearer(S.last_idx, B, curr, curr)
    BY NearerStill, Zenon
  <2>2. RoomyAt(B, curr)
    BY Zenon DEF RoomyAt
  <2> QED BY <1>1, <2>1, <2>2, Zenon DEF Outcome
<1>3. ASSUME curr # NoTask, B.tasks[curr].state = "READY"
      PROVE  Outcome(S, Resume(B, curr), curr)
  <2> DEFINE T == Resume(B, curr)
             t == B.tasks[curr]
             u == T.tasks[curr]
  <2>1. curr \in TaskSlots
    BY <1>3
  <2>2. /\ Changes(B, T, curr, "RUNNING", t.quantum_ticks, t.vruntime)
        /\ T.vsys = B.vsys /\ T.last_idx = B.last_idx
    BY <1>1, <2>1, Resumed, Zenon
  <2> HIDE DEF T
  <2>3. Forward(S, T)
    BY <2>2, ForwardTransitive, Zenon DEF Changes
  <2>4. SameTerms(t, u) /\ u.vruntime = t.vruntime
    BY <2>1, <2>2, Zenon DEF Changes, Forward, Shows
  <2>5. ASSUME Sound(S), RoomyAt(S, curr)
        PROVE  Sound(T)
    <3>1. Sound(B) /\ Fit(t) /\ Within(t, B.vsys)
      BY <2>1, <2>5, SMTT(30) DEF Sound
    <3>2. t.quantum_ticks \in Nat /\ "RUNNING" # "UNUSED"
      BY <3>1, WeightsAndSlices, Zenon DEF Fit
    <3>3. Within(u, T.vsys)
      BY <2>2, <2>4, <3>1, Zenon DEF Within, SameTerms
    <3> QED BY <1>1, <2>1, <2>2, <3>1, <3>2, <3>3, SoundChange, ZenonT(40)
  <2>6. RoomyAt(T, curr)
    <3>1. ASSUME g_current_policy_type # "RR" PROVE ~(u.generation <= ScanGenerations)
      <4>1. curr \notin ReadyTasks(B)
        BY <3>1
      <4>2. ~(t.generation <= ScanGenerations)
        BY <1>3, <2>1, <4>1 DEF ReadyTasks, Found
      <4> QED BY <2>4, <4>2, Zenon DEF SameTerms
    <3> QED BY <3>1, Zenon DEF RoomyAt, Roomy
  <2>7. Nearer(S.last_idx, T, curr, curr)
    BY <2>2, NearerStill, ZenonT(40)
  <2>8. T.last_idx \in TaskSlots
    BY <1>1, <2>2
  <2> QED BY <2>3, <2>5, <2>6, <2>7, <2>8, Zenon DEF Outcome, T
<1> QED BY <1>2, <1>3, Zenon

LEMMA PickOutcome ==
    ASSUME NEW S, TimedState(S), S.last_idx \in TaskSlots, NEW curr, curr = g_current_task,
           curr \in TaskSlots \cup {NoTask},
           NEW B, Forward(S, B), B.last_idx = S.last_idx, ~IsRunning(B, curr),
           Sound(S) /\ RoomyAt(S, curr) => Sound(B),
           NEW pick \in pick_next(g_current_policy_type, B, curr)
    PROVE  /\ pick.task = NoTask =>
                /\ Outcome(S, pick.S, curr)
                /\ curr # NoTask /\ B.tasks[curr].state = "READY" => Outcome(S, Resume(pick.S, curr), curr)
           /\ pick.task # NoTask =>
                /\ Outcome(S, Resume(pick.S, pick.task), pick.task)
                /\ Outcome(S, [pick.S EXCEPT !.tasks[pick.task].state = "RUNNING"], pick.task)
<1> DEFINE P == pick.S
           slot == pick.task
           t == P.tasks[slot]
<1>1. TimedState(B) /\ B.last_idx \in TaskSlots
  BY DEF Forward
<1>2. \/ /\ P = B /\ slot = NoTask
         /\ g_current_policy_type # "RR" => ReadyTasks(B) = {}
      \/ /\ Chosen(B, pick)
         /\ g_current_policy_type = "RR" => P.last_idx = slot /\ ComesNearer(B, curr, slot)
         /\ g_current_policy_type # "RR" => P.last_idx = B.last_idx /\ Eligibly(B, pick)
  <2>1. CASE g_current_policy_type = "RR"
    <3>1. pick \in rr_pick_next(B, curr)
      BY <2>1, Zenon DEF pick_next
    <3>2. \/ pick = [S |-> B, task |-> NoTask]
          \/ Chosen(B, pick) /\ P.last_idx = slot /\ ComesNearer(B, curr, slot)
      BY <1>1, <3>1, RoundRobinPick, ZenonT(40)
    <3> QED BY <2>1, <3>2
  <2>2. CASE g_current_policy_type # "RR"
    <3>1. pick \in eevdf_pick_next(B, curr)
      BY <2>2, Zenon DEF pick_next
    <3>2. \/ pick = [S |-> B, task |-> NoTask] /\ ReadyTasks(B) = {}
          \/ Chosen(B, pick) /\ P.last_idx = B.last_idx /\ Eligibly(B, pick)
      BY <1>1, <3>1, EevdfPick, Zenon
    <3> QED BY <2>2, <3>2
  <2> QED BY <2>1, <2>2, ZenonT(40)
<1>3. CASE P = B /\ slot = NoTask /\ (g_current_policy_type # "RR" => ReadyTasks(B) = {})
  BY <1>3, NoneOutcome, Zenon
<1>4. CASE /\ Chosen(B, pick)
           /\ g_current_policy_type = "RR" => P.last_idx = slot /\ ComesNearer(B, curr, slot)
           /\ g_current_policy_type # "RR" => P.last_idx = B.last_idx /\ Eligibly(B, pick)
  <2>1. slot \in TaskSlots /\ slot # NoTask /\ TimedState(P)
    <3>1. slot \in ReadyTasks(B) /\ TimedState(P)
      BY <1>4, Zenon DEF Chosen, Forward
    <3>2. slot \in TaskSlots
      BY <3>1, Zenon DEF ReadyTasks
    <3>3. NoTask \notin TaskSlots
      BY TaskAssumption DEF TaskSlots, NoTask
    <3> QED BY <3>1, <3>2, <3>3, Zenon
  <2>2. Outcome(S, Resume(P, slot), slot)
    <3> DEFINE T == Resume(P, slot)
    <3>1. /\ Changes(P, T, slot, "RUNNING", t.quantum_ticks, t.vruntime)
          /\ T.vsys = P.vsys /\ T.last_idx = P.last_idx
      BY <2>1, Resumed, Zenon
    <3> HIDE DEF T
    <3>2. Outcome(S, T, slot)
      BY <1>4, <3>1, ChosenOutcome, ZenonT(40)
    <3> QED BY <3>2, Zenon DEF T
  <2>3. Outcome(S, [P EXCEPT !.tasks[slot].state = "RUNNING"], slot)
    <3> DEFINE T == [P EXCEPT !.tasks[slot].state = "RUNNING"]
    <3>1. /\ Changes(P, T, slot, "RUNNING", t.time_slice_ticks, t.vruntime)
          /\ T.vsys = P.vsys /\ T.last_idx = P.last_idx
      BY <2>1, Running, Zenon
    <3> HIDE DEF T
    <3>2. Outcome(S, T, slot)
      BY <1>4, <3>1, ChosenOutcome, ZenonT(40)
    <3> QED BY <3>2, Zenon DEF T
  <2> QED BY <2>1, <2>2, <2>3, ZenonT(40)
<1> QED BY <1>2, <1>3, <1>4, ZenonT(40)

\* The steps before the choice: sleepers wake, ...
LEMMA WokenSound ==
    ASSUME NEW S, TimedState(S), NEW curr, curr \in TaskSlots \cup {NoTask}
    PROVE  /\ Sound(S) => Sound(Wake(S))
           /\ RoomyAt(S, curr) => RoomyAt(Wake(S), curr)
<1> DEFINE W == Wake(S)
<1>1. /\ Forward(S, W) /\ W.vsys = S.vsys
      /\ \A i \in TaskSlots : W.tasks[i] = S.tasks[i] \/ Rises(S.tasks[i], W.tasks[i], S.vsys)
  BY Woken, Zenon
<1> HIDE DEF W
<1>2. ASSUME Sound(S), NEW i \in TaskSlots
      PROVE  Fit(W.tasks[i]) /\ Within(W.tasks[i], W.vsys)
  <2> DEFINE t == S.tasks[i]
             u == W.tasks[i]
  <2>1. Fit(t) /\ Within(t, S.vsys) /\ Timed(u) /\ SameTerms(t, u) /\ S.vsys \in Nat
    BY <1>1, <1>2 DEF Sound, Forward, TimedState, TimedTable
  <2>2. CASE u = t
    BY <1>1, <2>1, <2>2, ZenonT(40)
  <2>3. CASE Rises(t, u, S.vsys)
    <3>1. Fit(u)
      <4>1. u.time_slice_ticks \in Nat /\ u.state # "UNUSED"
        BY <2>1, <2>3 DEF Rises, Shows, Fit
      <4> QED BY <2>1, <4>1, FitKept, ZenonT(40)
    <3>2. CASE u.vruntime = t.vruntime
      BY <1>1, <2>1, <3>1, <3>2, Zenon DEF Within, SameTerms
    <3>3. CASE u.vruntime = S.vsys
      <4>1. u.vruntime <= S.vsys
        BY <2>1, <3>3, SMTT(30)
      <4> QED BY <1>1, <2>1, <3>1, <4>1, WithinNow, ZenonT(40)
    <3> QED BY <2>3, <3>2, <3>3 DEF Rises
  <2> QED BY <1>1, <2>2, <2>3, ZenonT(40)
<1>3. ASSUME IsRunning(W, curr)
      PROVE  IsRunning(S, curr) /\ W.tasks[curr] = S.tasks[curr]
  BY <1>1, <1>3 DEF IsRunning, Rises, Shows
<1>4. RoomyAt(S, curr) => RoomyAt(W, curr)
  BY <1>1, <1>3, Zenon DEF RoomyAt
<1> QED BY <1>2, <1>4, Zenon DEF Sound, W

\* ... the tick is charged, ...
LEMMA TickedSound ==
    ASSUME NEW S, TimedState(S), NEW curr \in TaskSlots, Sound(S), RoomyAt(S, curr), IsRunning(S, curr)
    PROVE  LET K == on_tick(g_current_policy_type, S, curr)
           IN Sound(K) /\ (K.tasks[curr].time_slice_ticks > 0 => RoomyAt(K, curr))
<1> DEFINE t == S.tasks[curr]
           a == TickLength(g_current_policy_type, t)
           K == on_tick(g_current_policy_type, S, curr)
           u == K.tasks[curr]
<1>1. Changes(S, K, curr, t.state, Less(t.time_slice_ticks), t.vruntime + a) /\ a \in Nat
  BY Ticked, Zenon
<1> HIDE DEF K, a
<1>2. Timed(t) /\ Timed(u) /\ SameTerms(t, u) /\ S.vsys \in Nat /\ K.vsys \in Nat /\ S.vsys <= K.vsys
  BY <1>1 DEF Changes, Forward, TimedState, TimedTable
<1>3. /\ Fit(t) /\ Within(t, S.vsys) /\ t.state = "RUNNING"
      /\ u.vruntime = t.vruntime + a /\ u.time_slice_ticks = Less(t.time_slice_ticks)
  BY <1>1, Zenon DEF Sound, IsRunning, Changes, Shows
<1>4. Within(u, K.vsys) /\ (u.time_slice_ticks > 0 => RoomyAt(K, curr))
  <2>1. CASE g_current_policy_type = "RR"
    <3>1. a = 0
      BY <2>1, ZenonT(40) DEF a, TickLength
    <3>2. u.vruntime = t.vruntime
      BY <1>2, <1>3, <3>1 DEF Timed
    <3>3. Within(t, K.vsys)
      BY <1>2, <1>3, WithinLater, Zenon
    <3>4. Within(u, K.vsys)
      BY <1>2, <3>2, <3>3, Zenon DEF Within, SameTerms
    <3> QED BY <2>1, <3>4, Zenon DEF RoomyAt
  <2>2. CASE g_current_policy_type # "RR"
    <3>1. a = Scale \div t.weight
      BY <2>2, ZenonT(40) DEF a, TickLength
    <3>2. a <= TickMost
      BY <1>3, <3>1, TickIsShort DEF Fit
    <3>3. Roomy(t, S.vsys)
      BY <2>2, Zenon DEF RoomyAt
    <3>4. Within(u, K.vsys) /\ (u.time_slice_ticks > 0 => Roomy(u, K.vsys))
      <4> HIDE DEF t, u
      <4> QED BY <1>1, <1>2, <1>3, <3>2, <3>3, RoomyTick, ZenonT(40)
    <3> QED BY <3>4, Zenon DEF RoomyAt
  <2> QED BY <2>1, <2>2, Zenon
<1>5. Less(t.time_slice_ticks) \in Nat /\ t.state # "UNUSED"
  BY <1>3 DEF Fit, Less
<1>6. Sound(K)
  BY <1>1, <1>4, <1>5, SoundChange, Zenon
<1> QED BY <1>4, <1>6, Zenon DEF K

\* ... and the task whose slice is over is put with the ready ones.
LEMMA SavedSound ==
    ASSUME NEW S, TimedState(S), NEW curr \in TaskSlots, Sound(S)
    PROVE  Sound(Preempted(S, curr))
<1> DEFINE t == S.tasks[curr]
           B == Preempted(S, curr)
           u == B.tasks[curr]
<1>1. /\ Changes(S, B, curr, "READY", t.time_slice_ticks, u.vruntime)
      /\ u.vruntime \in {t.vruntime, S.vsys} /\ B.vsys = S.vsys
  BY Saved, Zenon
<1> HIDE DEF B
<1>2. Timed(u) /\ SameTerms(t, u) /\ S.vsys \in Nat
  BY <1>1 DEF Changes, Forward, TimedState, TimedTable
<1>3. Fit(t) /\ Within(t, S.vsys) /\ t.time_slice_ticks \in Nat
  BY SMTT(30) DEF Sound, Fit
<1>4. Within(u, B.vsys)
  <2>1. CASE u.vruntime = t.vruntime
    BY <1>1, <1>2, <1>3, <2>1, Zenon DEF Within, SameTerms
  <2>2. CASE u.vruntime = S.vsys
    <3>1. u.vruntime <= S.vsys
      BY <1>2, <2>2
    <3> QED BY <1>1, <1>2, <3>1, WithinNow, ZenonT(40)
  <2> QED BY <1>1, <2>1, <2>2
<1>5. "READY" # "UNUSED"
  OBVIOUS
<1>6. Sound(B)
  BY <1>1, <1>3, <1>4, <1>5, SoundChange, Zenon
<1> QED BY <1>6, Zenon DEF B

LEMMA ScheduleOutcome ==
    ASSUME TimeInv, NEW tasks, TimedTable(tasks), NEW is_preemption, NEW syscall,
           do_schedule(tasks, is_preemption, syscall)
    PROVE  \E T, next : /\ Outcome([Current EXCEPT !.tasks = tasks], T, next)
                        /\ Adopt(T) /\ g_current_task' = next
<1> DEFINE curr == g_current_task
           called == [Current EXCEPT !.tasks = tasks]
           woken == Wake(called)
           ticked == on_tick(g_current_policy_type, woken, curr)
           saved == Preempted(ticked, curr)
           Done == \E T, next : Outcome(called, T, next) /\ Adopt(T) /\ g_current_task' = next
<1> SUFFICES Done
  BY Zenon
<1>1. TimedState(called) /\ called.last_idx \in TaskSlots /\ curr \in TaskSlots \cup {NoTask}
  <2>1. called = [tasks |-> tasks, last_idx |-> g_rr_last_idx, vsys |-> g_eevdf_vsys]
    BY DEF Current
  <2> HIDE DEF called
  <2> QED BY <2>1 DEF TimeInv, TimedState
<1>2. \/ Stay(called, syscall)
      \/ ~IsRunning(woken, curr) /\ PickAndSwitch(woken, is_preemption, syscall)
      \/ /\ IsRunning(woken, curr) /\ ticked.tasks[curr].time_slice_ticks > 0
         /\ Stay(ticked, syscall)
      \/ IsRunning(woken, curr) /\ PickAndSwitch(saved, is_preemption, syscall)
  BY DEF do_schedule
<1>3. \A T : Stay(T, syscall) => Adopt(T) /\ g_current_task' = curr
  BY Zenon DEF Stay
<1> HIDE DEF called
<1>4. Forward(called, woken) /\ TimedState(woken) /\ woken.last_idx = called.last_idx
  BY <1>1, Woken, Zenon DEF Forward
<1>5. /\ Sound(called) => Sound(woken)
      /\ RoomyAt(called, curr) => RoomyAt(woken, curr)
  BY <1>1, WokenSound, Zenon
<1> HIDE DEF woken
<1>6. ASSUME NEW B, Forward(called, B), B.last_idx = called.last_idx, ~IsRunning(B, curr),
             Sound(called) /\ RoomyAt(called, curr) => Sound(B),
             PickAndSwitch(B, is_preemption, syscall)
      PROVE  Done
  <2>1. PICK pick \in pick_next(g_current_policy_type, B, curr) :
          \/ /\ pick.task = NoTask
             /\ Stay(IF curr # NoTask /\ B.tasks[curr].state = "READY"
                     THEN Resume(pick.S, curr) ELSE pick.S, syscall)
          \/ /\ pick.task # NoTask /\ pick.task = curr
             /\ Stay(Resume(pick.S, curr), syscall)
          \/ /\ pick.task \notin {NoTask, curr}
             /\ SwitchTo(pick.S, pick.task, is_preemption, syscall)
    BY <1>6, Zenon DEF PickAndSwitch
  <2>2. /\ pick.task = NoTask =>
             /\ Outcome(called, pick.S, curr)
             /\ curr # NoTask /\ B.tasks[curr].state = "READY" =>
                  Outcome(called, Resume(pick.S, curr), curr)
        /\ pick.task # NoTask =>
             /\ Outcome(called, Resume(pick.S, pick.task), pick.task)
             /\ Outcome(called, [pick.S EXCEPT !.tasks[pick.task].state = "RUNNING"], pick.task)
    BY <1>1, <1>6, PickOutcome, Zenon
  <2>3. CASE pick.task = NoTask
    <3>1. \/ Stay(pick.S, syscall)
          \/ curr # NoTask /\ B.tasks[curr].state = "READY" /\ Stay(Resume(pick.S, curr), syscall)
      BY <2>1, <2>3
    <3> QED BY <1>3, <2>2, <2>3, <3>1, ZenonT(40)
  <2>4. CASE pick.task # NoTask /\ pick.task = curr
    <3>1. Stay(Resume(pick.S, curr), syscall)
      BY <2>1, <2>4, Zenon
    <3> QED BY <1>3, <2>2, <2>4, <3>1, Zenon
  <2>5. CASE pick.task \notin {NoTask, curr}
    <3>1. /\ Adopt([pick.S EXCEPT !.tasks[pick.task].state = "RUNNING"])
          /\ g_current_task' = pick.task
      BY <2>1, <2>5, Zenon DEF SwitchTo
    <3> QED BY <2>2, <2>5, <3>1, Zenon
  <2> QED BY <2>3, <2>4, <2>5, Zenon
<1>7. CASE Stay(called, syscall)
  <2>1. Outcome(called, called, curr)
    BY <1>1, ForwardReflexive, NearerStill, Zenon DEF Outcome
  <2> QED BY <1>3, <1>7, <2>1, Zenon
<1>8. CASE ~IsRunning(woken, curr) /\ PickAndSwitch(woken, is_preemption, syscall)
  BY <1>4, <1>5, <1>6, <1>8, Zenon
<1>9. ASSUME IsRunning(woken, curr)
      PROVE  /\ curr \in TaskSlots
             /\ Forward(called, ticked) /\ TimedState(ticked) /\ ticked.last_idx = called.last_idx
             /\ Sound(called) /\ RoomyAt(called, curr) =>
                  /\ Sound(ticked)
                  /\ ticked.tasks[curr].time_slice_ticks > 0 => RoomyAt(ticked, curr)
  <2>1. curr \in TaskSlots
    BY <1>1, <1>9 DEF IsRunning
  <2>2. Forward(woken, ticked) /\ TimedState(ticked) /\ ticked.last_idx = woken.last_idx
    BY <1>4, <2>1, Ticked, Zenon DEF Changes, Forward
  <2>3. Forward(called, ticked)
    BY <1>1, <1>4, <2>2, ForwardTransitive, Zenon
  <2>4. Sound(woken) /\ RoomyAt(woken, curr) =>
          /\ Sound(ticked)
          /\ ticked.tasks[curr].time_slice_ticks > 0 => RoomyAt(ticked, curr)
    BY <1>4, <1>9, <2>1, TickedSound, Zenon
  <2> QED BY <1>4, <1>5, <2>1, <2>2, <2>3, <2>4, ZenonT(40)
<1> HIDE DEF ticked
<1>10. CASE /\ IsRunning(woken, curr) /\ ticked.tasks[curr].time_slice_ticks > 0
            /\ Stay(ticked, syscall)
  <2>1. Outcome(called, ticked, curr)
    <3>1. Nearer(called.last_idx, ticked, curr, curr)
      BY <1>1, <1>9, <1>10, NearerStill, Zenon
    <3> QED BY <1>1, <1>9, <1>10, <3>1, Zenon DEF Outcome
  <2> QED BY <1>3, <1>10, <2>1, Zenon
<1>11. CASE IsRunning(woken, curr) /\ PickAndSwitch(saved, is_preemption, syscall)
  <2>1. /\ curr \in TaskSlots /\ Forward(called, ticked) /\ TimedState(ticked)
        /\ ticked.last_idx = called.last_idx
        /\ Sound(called) /\ RoomyAt(called, curr) => Sound(ticked)
    BY <1>9, <1>11, Zenon
  <2>2. /\ Forward(ticked, saved) /\ saved.last_idx = ticked.last_idx
        /\ saved.tasks[curr].state = "READY"
    BY <2>1, Saved, Zenon DEF Changes, Shows
  <2>3. Sound(ticked) => Sound(saved)
    BY <2>1, SavedSound, Zenon
  <2> HIDE DEF saved
  <2>4. Forward(called, saved)
    BY <1>1, <2>1, <2>2, ForwardTransitive, ZenonT(40)
  <2>5. ~IsRunning(saved, curr)
    BY <2>2 DEF IsRunning
  <2> QED BY <1>6, <1>11, <2>1, <2>2, <2>3, <2>4, <2>5, ZenonT(40) DEF saved
<1> QED BY <1>2, <1>7, <1>8, <1>10, <1>11, Zenon

-----------------------------------------------------------------------------
(***************************************************************************)
(* The steps.  LagInv is the inductive invariant behind NeverFarAhead: a   *)
(* task that runs must have room for all that is left of its slice, which  *)
(* is what a bound on its lag alone does not say.                          *)
(***************************************************************************)
LagInv == TimeInv /\ Sound(Current) /\ RoomyAt(Current, g_current_task)

\* What one step may do to system virtual time ...
TimeStep ==
    \/ g_eevdf_vsys' >= g_eevdf_vsys
    \/ g_eevdf_vsys' = 0 /\ g_task_table' \in {g_task_table, [i \in TaskSlots |-> UnusedTask]}

\* ... and to the turns of the tasks that wait.
TurnStep ==
    g_current_policy_type = "RR" =>
      \A i \in TaskSlots :
        Waiting(i) /\ Waiting(i)' =>
          LET before == SlotsBetween(g_rr_last_idx, i)
              after == SlotsBetween(g_rr_last_idx', i)
          IN /\ after <= before
             /\ g_current_task # NoTask /\ g_current_task' \notin {g_current_task, NoTask}
                  => after < before

StepKept ==
    /\ TimeInv' /\ TimeStep
    /\ LagInv => LagInv'
    /\ TurnStep

\* A step to the state T that leaves the policy alone.
LEMMA Moved ==
    ASSUME TimeInv, NEW T, TimedState(T), T.vsys >= g_eevdf_vsys, T.last_idx \in TaskSlots,
           NEW next \in TaskSlots \cup {NoTask}, Adopt(T), g_current_task' = next,
           g_current_policy_type' = g_current_policy_type,
           LagInv => Sound(T) /\ RoomyAt(T, next),
           g_current_policy_type = "RR" => Nearer(g_rr_last_idx, T, g_current_task, next)
    PROVE  StepKept
<1>1. /\ g_task_table' = T.tasks /\ g_rr_last_idx' = T.last_idx /\ g_eevdf_vsys' = T.vsys
      /\ Current' = T
  BY DEF Adopt, TimedState, Current
<1>2. TimeInv' /\ TimeStep
  BY <1>1 DEF TimeInv, TimeStep, TimedState
<1>3. Sound(T) => Sound(Current)'
  BY <1>1
<1>4. RoomyAt(T, next) => RoomyAt(Current, g_current_task)'
  <2>1. IsRunning(Current, g_current_task)' <=> IsRunning(T, next)
    BY <1>1
  <2>2. Roomy(Current.tasks[g_current_task], Current.vsys)' <=> Roomy(T.tasks[next], T.vsys)
    BY <1>1
  <2> QED BY <2>1, <2>2, Zenon DEF RoomyAt
<1>5. TurnStep
  <2> SUFFICES ASSUME g_current_policy_type = "RR", NEW i \in TaskSlots, Waiting(i)'
               PROVE  LET before == SlotsBetween(g_rr_last_idx, i)
                          after == SlotsBetween(g_rr_last_idx', i)
                      IN /\ after <= before
                         /\ g_current_task # NoTask /\ g_current_task' \notin {g_current_task, NoTask}
                              => after < before
    BY Zenon DEF TurnStep
  <2>1. T.tasks[i].state = "READY" /\ T.tasks[i].generation <= ScanGenerations
    BY <1>1 DEF Waiting, InScan
  <2> QED BY <1>1, <2>1, Zenon DEF Nearer
<1> QED BY <1>2, <1>3, <1>4, <1>5, ZenonT(40) DEF StepKept, LagInv

\* A task that has only lost its slice or gone to sleep.
Continues(t, u) ==
    /\ SameTerms(t, u) /\ u.vruntime = t.vruntime
    /\ u.time_slice_ticks \in {t.time_slice_ticks, 0}
    /\ u.state \in {t.state, "SLEEPING"}

LEMMA RoomyLess ==
    ASSUME NEW t, Timed(t), Fit(t), NEW u, Continues(t, u), NEW v \in Nat, Roomy(t, v)
    PROVE  Roomy(u, v)
<1> DEFINE n == IF t.time_slice_ticks > 0 THEN t.time_slice_ticks ELSE 1
           m == IF u.time_slice_ticks > 0 THEN u.time_slice_ticks ELSE 1
<1>1. Roomy(t, v) <=> (t.generation <= ScanGenerations => \E d \in SliceLengths : t.vruntime + n * TickMost <= v + d)
  BY Zenon DEF Roomy
<1>2. Roomy(u, v) <=> (u.generation <= ScanGenerations => \E d \in SliceLengths : u.vruntime + m * TickMost <= v + d)
  BY Zenon DEF Roomy
<1>3. n \in Nat /\ m \in Nat /\ m <= n /\ t.vruntime \in Nat /\ TickMost \in Nat
  BY LeastWeightDivides DEF Fit, Timed, Continues
<1>4. u.generation = t.generation /\ u.vruntime = t.vruntime
  BY Zenon DEF Continues, SameTerms
<1> HIDE DEF n, m
<1>5. m * TickMost \in Nat /\ n * TickMost \in Nat /\ m * TickMost <= n * TickMost
  <2>1. PICK k \in Nat : n = m + k
    <3>1. n - m \in Nat /\ n = m + (n - m)
      BY <1>3
    <3> QED BY <3>1
  <2>2. n * TickMost = m * TickMost + k * TickMost
    BY <1>3, <2>1
  <2>3. m * TickMost \in Nat /\ k * TickMost \in Nat
    BY <1>3
  <2> QED BY <2>2, <2>3
<1> DEFINE x == m * TickMost
           y == n * TickMost
<1>6. x \in Nat /\ y \in Nat /\ x <= y
  BY <1>5
<1> HIDE DEF x, y
<1>7. ASSUME NEW d \in SliceLengths, t.vruntime + y <= v + d PROVE t.vruntime + x <= v + d
  BY <1>3, <1>6, <1>7, LengthsNatural
<1> QED BY <1>1, <1>2, <1>4, <1>7, Zenon DEF x, y

\* The state do_schedule is called in is as good as the one before.
LEMMA CalledSound ==
    ASSUME LagInv, NEW tasks, TimedTable(tasks), \A i \in TaskSlots : Continues(g_task_table[i], tasks[i])
    PROVE  LET C == [Current EXCEPT !.tasks = tasks]
           IN Sound(C) /\ RoomyAt(C, g_current_task)
<1> DEFINE C == [Current EXCEPT !.tasks = tasks]
           curr == g_current_task
<1>1. C.tasks = tasks /\ C.vsys = g_eevdf_vsys
  BY DEF Current
<1>2. Current.tasks = g_task_table /\ Current.vsys = g_eevdf_vsys
  BY DEF Current
<1>3. TimedTable(g_task_table) /\ g_eevdf_vsys \in Nat
  BY DEF LagInv, TimeInv
<1> HIDE DEF C
<1>4. ASSUME NEW i \in TaskSlots
      PROVE  Fit(tasks[i]) /\ Within(tasks[i], g_eevdf_vsys)
  <2> DEFINE t == g_task_table[i]
             u == tasks[i]
  <2>1. Fit(t) /\ Within(t, g_eevdf_vsys) /\ Continues(t, u)
    BY <1>2, ZenonT(40) DEF LagInv, Sound
  <2> HIDE DEF t, u
  <2>2. u.time_slice_ticks \in Nat /\ (u.state = "UNUSED" => u.vruntime = 0)
    BY <2>1 DEF Fit, Continues
  <2>3. Fit(u)
    BY <2>1, <2>2, FitKept, Zenon DEF Continues
  <2>4. Within(u, g_eevdf_vsys)
    BY <2>1, Zenon DEF Within, Continues, SameTerms
  <2> QED BY <2>3, <2>4 DEF t, u
<1>5. ASSUME g_current_policy_type # "RR", IsRunning(C, curr)
      PROVE  Roomy(tasks[curr], g_eevdf_vsys)
  <2>1. curr \in TaskSlots /\ tasks[curr].state = "RUNNING"
    BY <1>1, <1>5 DEF IsRunning, LagInv, TimeInv
  <2>2. Continues(g_task_table[curr], tasks[curr]) /\ Timed(g_task_table[curr]) /\ Fit(g_task_table[curr])
    BY <1>2, <1>3, <2>1, ZenonT(40) DEF TimedTable, LagInv, Sound
  <2>3. IsRunning(Current, curr)
    BY <1>2, <2>1, <2>2 DEF IsRunning, Continues, TaskSlots, NoTask
  <2>4. Roomy(g_task_table[curr], g_eevdf_vsys)
    BY <1>2, <1>5, <2>3, Zenon DEF LagInv, RoomyAt
  <2> QED BY <1>3, <2>2, <2>4, RoomyLess, ZenonT(40)
<1>6. Sound(C) /\ RoomyAt(C, curr)
  BY <1>1, <1>4, <1>5, Zenon DEF Sound, RoomyAt
<1> QED BY <1>6, Zenon DEF C

\* Entering do_schedule with the table tasks.
LEMMA Scheduled ==
    ASSUME TimeInv, NEW tasks, TimedTable(tasks), \A i \in TaskSlots : Continues(g_task_table[i], tasks[i]),
           NEW is_preemption, NEW syscall, do_schedule(tasks, is_preemption, syscall),
           g_current_policy_type' = g_current_policy_type
    PROVE  StepKept
<1> DEFINE C == [Current EXCEPT !.tasks = tasks]
<1>1. PICK T, next : Outcome(C, T, next) /\ Adopt(T) /\ g_current_task' = next
  BY ScheduleOutcome, Zenon
<1>2. C.vsys = g_eevdf_vsys /\ C.last_idx = g_rr_last_idx
  BY DEF Current
<1>3. LagInv => Sound(C) /\ RoomyAt(C, g_current_task)
  BY CalledSound, Zenon
<1> HIDE DEF C
<1>4. /\ TimedState(T) /\ T.vsys >= g_eevdf_vsys /\ T.last_idx \in TaskSlots
      /\ next \in TaskSlots \cup {NoTask}
      /\ LagInv => Sound(T) /\ RoomyAt(T, next)
      /\ g_current_policy_type = "RR" => Nearer(g_rr_last_idx, T, g_current_task, next)
  BY <1>1, <1>2, <1>3, Zenon DEF Outcome, Forward
<1> QED BY <1>1, <1>4, Moved, Zenon

\* Where the scheduler does not decide anything.
LEMMA Passed ==
    ASSUME TimeInv, NEW tasks, TimedTable(tasks), \A i \in TaskSlots : Continues(g_task_table[i], tasks[i]),
           g_task_table' = tasks, UNCHANGED <<g_current_task, policyVars>>
    PROVE  StepKept
<1> DEFINE C == [Current EXCEPT !.tasks = tasks]
<1>1. C = [tasks |-> tasks, last_idx |-> g_rr_last_idx, vsys |-> g_eevdf_vsys]
  BY DEF Current
<1>2. LagInv => Sound(C) /\ RoomyAt(C, g_current_task)
  BY CalledSound, Zenon
<1> HIDE DEF C
<1>3. /\ TimedState(C) /\ C.vsys = g_eevdf_vsys /\ C.last_idx = g_rr_last_idx
      /\ C.last_idx \in TaskSlots /\ C.vsys >= g_eevdf_vsys
      /\ g_current_task \in TaskSlots \cup {NoTask}
  BY <1>1 DEF TimedState, TimeInv
<1>4. Nearer(g_rr_last_idx, C, g_current_task, g_current_task)
  BY <1>3, NearerStill, ZenonT(40)
<1>5. Adopt(C) /\ g_current_task' = g_current_task /\ g_current_policy_type' = g_current_policy_type
  BY <1>1 DEF Adopt, policyVars
<1> QED BY <1>2, <1>3, <1>4, <1>5, Moved, ZenonT(40)

LEMMA Elapsed ==
    ASSUME NEW T, TimedTable(T)
    PROVE  TimedTable(Elapse(T)) /\ \A i \in TaskSlots : Continues(T[i], Elapse(T)[i])
<1> DEFINE v(i) == IF T[i].sleep > 0 THEN T[i].sleep - 1 ELSE 0
           u(i) == [T[i] EXCEPT !.sleep = v(i)]
<1>1. Elapse(T) = [i \in TaskSlots |-> u(i)]
  BY DEF Elapse
<1> HIDE DEF v
<1>2. \A i \in TaskSlots : Timed(u(i)) /\ SameTerms(T[i], u(i))
                            /\ Shows(u(i), T[i].state, T[i].time_slice_ticks, T[i].vruntime)
  BY SetField, TermsKept, FieldSet, Zenon DEF TimedTable
<1> HIDE DEF u
<1>3. \A i \in TaskSlots : Continues(T[i], u(i))
  BY <1>2, Zenon DEF Continues, Shows
<1>4. \A i \in TaskSlots : Elapse(T)[i] = u(i)
  BY <1>1, Zenon
<1> QED BY <1>1, <1>2, <1>3, <1>4, Zenon DEF TimedTable

\* The rows of a table of which one has been replaced.
LEMMA RowContinues ==
    ASSUME NEW T, TimedTable(T), NEW slot \in TaskSlots, NEW u, Timed(u), Continues(T[slot], u)
    PROVE  /\ TimedTable([T EXCEPT ![slot] = u])
           /\ \A i \in TaskSlots : Continues(T[i], [T EXCEPT ![slot] = u][i])
<1> DEFINE X == [T EXCEPT ![slot] = u]
<1>1. TimedTable(X)
  BY ReplaceInTable, Zenon
<1>2. \A i \in TaskSlots : X[i] = T[i] \/ (i = slot /\ X[i] = u)
  BY DEF TimedTable
<1> HIDE DEF X
<1>3. \A t : Continues(t, t)
  BY SameReflexive, Zenon DEF Continues
<1>4. \A i \in TaskSlots : Continues(T[i], X[i])
  BY <1>2, <1>3, Zenon
<1> QED BY <1>1, <1>4, Zenon DEF X

\* The tick, yield and nanosleep, which enter do_schedule.
LEMMA EntriesKeep ==
    ASSUME TimeInv, \/ TimerInterrupt \/ lettuce_scheduler_yield
                    \/ \E ticks \in 0 .. MaxSleep : lettuce_kernel_sys_nanosleep(ticks)
    PROVE  StepKept
<1> DEFINE curr == g_current_task
           t == g_task_table[curr]
<1>1. CASE TimerInterrupt
  <2>1. /\ TimedTable(Elapse(g_task_table))
        /\ \A i \in TaskSlots : Continues(g_task_table[i], Elapse(g_task_table)[i])
    BY Elapsed DEF TimeInv
  <2>2. /\ do_schedule(Elapse(g_task_table), TRUE, NoTask)
        /\ g_current_policy_type' = g_current_policy_type
    BY <1>1, Zenon DEF TimerInterrupt
  <2> QED BY <2>1, <2>2, Scheduled, ZenonT(40)
<1>2. ASSUME curr # NoTask
      PROVE  curr \in TaskSlots /\ Timed(t) /\ TimedTable(g_task_table)
  BY <1>2 DEF TimeInv, TimedTable
<1>3. CASE lettuce_scheduler_yield
  <2> DEFINE u == [t EXCEPT !.time_slice_ticks = 0]
             T == [g_task_table EXCEPT ![curr] = u]
  <2>1. curr \in TaskSlots /\ Timed(t) /\ TimedTable(g_task_table)
    BY <1>2, <1>3, Zenon DEF lettuce_scheduler_yield
  <2>2. Timed(u) /\ SameTerms(t, u) /\ Shows(u, t.state, 0, t.vruntime)
    BY <2>1, SetField, TermsKept, FieldSet, Zenon
  <2>3. [g_task_table EXCEPT ![curr].time_slice_ticks = 0] = T
    BY <2>1 DEF TimedTable
  <2>4. do_schedule(T, FALSE, NoTask) /\ g_current_policy_type' = g_current_policy_type
    BY <1>3, <2>3, Zenon DEF lettuce_scheduler_yield
  <2>5. TimedTable(T) /\ \A i \in TaskSlots : Continues(g_task_table[i], T[i])
    <3> HIDE DEF u
    <3>1. Continues(t, u)
      BY <2>2, Zenon DEF Continues, Shows
    <3> QED BY <2>1, <2>2, <3>1, RowContinues, Zenon
  <2> HIDE DEF T
  <2> QED BY <2>4, <2>5, Scheduled, Zenon
<1>4. ASSUME NEW ticks \in 0 .. MaxSleep, lettuce_kernel_sys_nanosleep(ticks)
      PROVE  StepKept
  <2> DEFINE s == [t EXCEPT !.sleep = ticks]
             u == [s EXCEPT !.state = "SLEEPING"]
             T == [g_task_table EXCEPT ![curr] = u]
  <2>1. curr \in TaskSlots /\ Timed(t) /\ TimedTable(g_task_table)
    BY <1>2, <1>4, Zenon DEF lettuce_kernel_sys_nanosleep
  <2>2. Timed(s) /\ SameTerms(t, s) /\ Shows(s, t.state, t.time_slice_ticks, t.vruntime)
    BY <2>1, SetField, TermsKept, FieldSet, Zenon
  <2>3. Timed(u) /\ SameTerms(s, u) /\ Shows(u, "SLEEPING", s.time_slice_ticks, s.vruntime)
    <3> HIDE DEF s
    <3> QED BY <2>2, SetField, TermsKept, FieldSet, Zenon
  <2>4. [g_task_table EXCEPT ![curr].sleep = ticks, ![curr].state = "SLEEPING"] = T
    BY <2>1, Zenon DEF TimedTable
  <2>5. do_schedule(T, FALSE, curr) /\ g_current_policy_type' = g_current_policy_type
    BY <1>4, <2>4, Zenon DEF lettuce_kernel_sys_nanosleep
  <2>6. TimedTable(T) /\ \A i \in TaskSlots : Continues(g_task_table[i], T[i])
    <3> HIDE DEF u
    <3>1. SameTerms(t, u)
      BY <2>2, <2>3, SameTransitive, Zenon
    <3>2. Continues(t, u)
      <4> HIDE DEF s
      <4> QED BY <2>2, <2>3, <3>1, Zenon DEF Continues, Shows
    <3> QED BY <2>1, <2>3, <3>2, RowContinues, Zenon
  <2> HIDE DEF T
  <2> QED BY <2>5, <2>6, Scheduled, Zenon
<1> QED BY <1>1, <1>3, <1>4

\* Where the table changes in one row and no time is set.
LEMMA RowKept ==
    ASSUME TimeInv, NEW slot \in TaskSlots, NEW u, Timed(u),
           g_task_table' = [g_task_table EXCEPT ![slot] = u], UNCHANGED policyVars,
           \/ g_current_task' \in {g_current_task, NoTask}
           \/ g_current_task = NoTask /\ g_current_task' = slot,
           LagInv => Fit(u) /\ Within(u, g_eevdf_vsys),
           LagInv /\ g_current_policy_type # "RR" /\ u.state = "RUNNING" /\ g_current_task' = slot
             => Roomy(u, g_eevdf_vsys)
    PROVE  StepKept
<1>1. PICK next : next = g_current_task'
  OBVIOUS
<1>2. /\ next \in TaskSlots \cup {NoTask} /\ TimedTable(g_task_table)
      /\ g_eevdf_vsys \in Nat /\ g_rr_last_idx \in TaskSlots
  BY <1>1 DEF TimeInv
<1> DEFINE X == [g_task_table EXCEPT ![slot] = u]
           T == [tasks |-> X, last_idx |-> g_rr_last_idx, vsys |-> g_eevdf_vsys]
<1>3. TimedTable(X)
  BY <1>2, ReplaceInTable, Zenon
<1>4. X[slot] = u /\ \A i \in TaskSlots \ {slot} : X[i] = g_task_table[i]
  BY <1>2 DEF TimedTable
<1>5. Adopt(T) /\ g_current_policy_type' = g_current_policy_type
  BY DEF Adopt, policyVars
<1> HIDE DEF X
<1>6. TimedState(T) /\ T.vsys >= g_eevdf_vsys /\ T.tasks = X /\ T.last_idx = g_rr_last_idx /\ T.vsys = g_eevdf_vsys
  BY <1>2, <1>3 DEF TimedState
<1> HIDE DEF T
<1>7. ASSUME LagInv
      PROVE  Sound(T) /\ RoomyAt(T, next)
  <2>1. /\ \A i \in TaskSlots : Fit(g_task_table[i]) /\ Within(g_task_table[i], g_eevdf_vsys)
        /\ g_current_policy_type # "RR" /\ IsRunning(Current, g_current_task)
             => Roomy(g_task_table[g_current_task], g_eevdf_vsys)
    <3>1. Current.tasks = g_task_table /\ Current.vsys = g_eevdf_vsys
      BY DEF Current
    <3> QED BY <1>7, <3>1, ZenonT(40) DEF LagInv, Sound, RoomyAt
  <2>2. \A i \in TaskSlots : Fit(X[i]) /\ Within(X[i], g_eevdf_vsys)
    BY <1>4, <1>7, <2>1, ZenonT(40)
  <2>3. ASSUME g_current_policy_type # "RR", IsRunning(T, next)
        PROVE  Roomy(X[next], g_eevdf_vsys)
    <3>1. next \in TaskSlots /\ X[next].state = "RUNNING"
      BY <1>2, <1>6, <2>3 DEF IsRunning
    <3>2. CASE next = slot
      BY <1>1, <1>4, <1>7, <2>3, <3>1, <3>2, ZenonT(40)
    <3>3. CASE next # slot
      <4>1. next = g_current_task /\ X[next] = g_task_table[next]
        BY <1>1, <1>4, <3>1, <3>3, SMTT(30) DEF TaskSlots, NoTask
      <4>2. IsRunning(Current, g_current_task)
        BY <3>1, <4>1, SMTT(30) DEF IsRunning, Current, TaskSlots, NoTask
      <4> QED BY <2>1, <2>3, <4>1, <4>2, ZenonT(40)
    <3> QED BY <3>2, <3>3, SMTT(30)
  <2> QED BY <1>6, <2>2, <2>3, Zenon DEF Sound, RoomyAt
<1>8. Nearer(g_rr_last_idx, T, g_current_task, next)
  BY <1>1, <1>2, <1>6, TaskAssumption DEF Nearer, SlotsBetween, TaskSlots
<1> QED BY <1>1, <1>2, <1>5, <1>6, <1>7, <1>8, Moved, ZenonT(40)

\* A new weight or slice: what a task has left is counted in the shortest
\* weight there is, so the room it has does not depend on its own.
LEMMA TermsChanged ==
    ASSUME TimeInv, NEW slot \in TaskSlots, NEW u, Timed(u),
           g_task_table' = [g_task_table EXCEPT ![slot] = u],
           g_current_task' = g_current_task, UNCHANGED policyVars, NEW t, t = g_task_table[slot],
           u.generation = t.generation, Shows(u, t.state, t.time_slice_ticks, t.vruntime),
           Fit(t) => /\ u.weight \in TaskWeights /\ u.requested_slice_ticks \in TaskSlices
                     /\ u.quantum_ticks \in TaskSlices
    PROVE  StepKept
<1>1. ASSUME LagInv
      PROVE  Fit(t) /\ Within(t, g_eevdf_vsys)
  BY <1>1 DEF LagInv, Sound, Current
<1>2. LagInv => Fit(u) /\ Within(u, g_eevdf_vsys)
  BY <1>1, Zenon DEF Fit, Within, Shows
<1>3. ASSUME LagInv, g_current_policy_type # "RR", u.state = "RUNNING", g_current_task' = slot
      PROVE  Roomy(u, g_eevdf_vsys)
  <2>1. IsRunning(Current, slot) /\ slot = g_current_task
    <3>1. slot = g_current_task /\ slot # NoTask
      BY <1>3, TaskAssumption, SMTT(30) DEF TaskSlots, NoTask
    <3>2. Current.tasks[slot].state = "RUNNING"
      BY <1>3, Zenon DEF Current, Shows
    <3> QED BY <3>1, <3>2, ZenonT(40) DEF IsRunning
  <2>2. Roomy(Current.tasks[slot], Current.vsys)
    BY <1>3, <2>1, Zenon DEF LagInv, RoomyAt
  <2>3. Current.tasks[slot] = t /\ Current.vsys = g_eevdf_vsys
    BY DEF Current
  <2> QED BY <2>2, <2>3, Zenon DEF Roomy, Shows
<1>4. UNCHANGED policyVars /\ g_current_task' \in {g_current_task, NoTask}
  OBVIOUS
<1> QED BY <1>2, <1>3, <1>4, RowKept, ZenonT(40)

\* Making, ending, weighing and slicing tasks.
LEMMA AdministrationKeeps ==
    ASSUME TimeInv, Administration
    PROVE  StepKept
<1>1. UNCHANGED policyVars
  BY DEF Administration
<1>2. \A i \in TaskSlots : Timed(g_task_table[i]) /\ g_task_table = [j \in TaskSlots |-> g_task_table[j]]
  BY DEF TimeInv, TimedTable
<1>3. /\ g_eevdf_vsys \in Nat
      /\ LagInv => \A i \in TaskSlots : Fit(g_task_table[i]) /\ Within(g_task_table[i], g_eevdf_vsys)
  BY DEF TimeInv, LagInv, Sound, Current
<1>4. ASSUME NEW service_id, NEW domain_id, lettuce_task_create(service_id, domain_id)
      PROVE  StepKept
  <2>1. PICK slot \in Vacant :
          g_task_table' = [g_task_table EXCEPT
              ![slot] = [UnusedTask EXCEPT
                        !.generation = g_task_table[slot].generation,
                        !.state = "READY",
                        !.service_id = service_id, !.domain_id = domain_id,
                        !.time_slice_ticks = DefaultSlice,
                        !.context = EntryContext(slot, service_id)]]
    BY <1>4, Zenon DEF lettuce_task_create
  <2> DEFINE t == g_task_table[slot]
             u == [UnusedTask EXCEPT
                        !.generation = t.generation,
                        !.state = "READY",
                        !.service_id = service_id, !.domain_id = domain_id,
                        !.time_slice_ticks = DefaultSlice,
                        !.context = EntryContext(slot, service_id)]
  <2>2. u = [f \in Fields |-> u[f]] /\ u.vruntime = 0 /\ u.weight = BaseWeight
    BY ZenonT(40) DEF UnusedTask, Fields
  <2>3. /\ u.generation = t.generation /\ u.state = "READY" /\ u.time_slice_ticks = DefaultSlice
        /\ u.requested_slice_ticks = DefaultSlice /\ u.quantum_ticks = DefaultSlice
    BY ZenonT(40) DEF UnusedTask, Fields
  <2>4. g_task_table' = [g_task_table EXCEPT ![slot] = u]
    BY <2>1, Zenon
  <2> HIDE DEF u
  <2>5. Timed(u)
    BY <2>2, TaskAssumption DEF Timed
  <2>6. slot \in TaskSlots /\ g_current_task' \in {g_current_task, NoTask} /\ u.state # "RUNNING"
    BY <1>4, <2>3 DEF Vacant, lettuce_task_create
  <2>7. ASSUME LagInv PROVE Fit(u) /\ Within(u, g_eevdf_vsys)
    <3>1. Fit(u)
      BY <1>3, <2>2, <2>3, <2>6, <2>7, TaskAssumption, SMTT(30) DEF Fit, TaskWeights, TaskSlices
    <3>2. u.vruntime <= g_eevdf_vsys
      BY <1>3, <2>2
    <3> QED BY <1>3, <2>5, <3>1, <3>2, WithinNow, ZenonT(40)
  <2> QED BY <1>1, <2>4, <2>5, <2>6, <2>7, RowKept, ZenonT(40)
<1>5. ASSUME NEW id \in (1 .. MaxTaskGeneration) \X TaskSlots, lettuce_task_terminate(id)
      PROVE  StepKept
  <2> DEFINE slot == id[2]
             t == g_task_table[slot]
             s == [t EXCEPT !.state = "TERMINATED"]
             u == [s EXCEPT !.generation = t.generation + 1]
  <2>1. slot \in TaskSlots /\ Timed(t) /\ g_task_table = [i \in TaskSlots |-> g_task_table[i]]
    BY <1>2
  <2>2. g_task_table' = [g_task_table EXCEPT ![slot].state = "TERMINATED", ![slot].generation = @ + 1]
    BY <1>5 DEF lettuce_task_terminate
  <2>3. g_current_task' \in {g_current_task, NoTask}
    BY <1>5 DEF lettuce_task_terminate, CurrentAfterTerminate
  <2> HIDE DEF slot
  <2>4. g_task_table' = [g_task_table EXCEPT ![slot] = u]
    BY <2>1, <2>2, Zenon DEF Timed, Fields
  <2>5. Timed(s) /\ SameTerms(t, s) /\ Shows(s, "TERMINATED", t.time_slice_ticks, t.vruntime)
    BY <2>1, SetField, TermsKept, FieldSet, ZenonT(40)
  <2>6. /\ Timed(u) /\ u.generation = t.generation + 1
        /\ u.weight = s.weight /\ u.requested_slice_ticks = s.requested_slice_ticks
        /\ u.quantum_ticks = s.quantum_ticks /\ Shows(u, s.state, s.time_slice_ticks, s.vruntime)
    <3> HIDE DEF s
    <3> QED BY <2>5, SetField, ZenonT(40) DEF Timed, Fields, Shows
  <2> HIDE DEF s, u
  <2>7. u.state = "TERMINATED" /\ u.state # "RUNNING" /\ u.state # "UNUSED"
    BY <2>5, <2>6 DEF Shows
  <2>8. ASSUME LagInv PROVE Fit(u) /\ Within(u, g_eevdf_vsys)
    <3>1. Fit(t) /\ Within(t, g_eevdf_vsys)
      BY <1>3, <2>1, <2>8, SMTT(30)
    <3>2. Fit(u)
      BY <2>5, <2>6, <2>7, <3>1, SMTT(30) DEF Fit, SameTerms, Shows
    <3>3. u.generation <= ScanGenerations => t.generation <= ScanGenerations
      BY <2>6, <3>1, PolicyAssumption DEF Fit
    <3>4. Within(u, g_eevdf_vsys)
      BY <2>5, <2>6, <3>1, <3>3, Zenon DEF Within, Shows
    <3> QED BY <3>2, <3>4
  <2> QED BY <1>1, <2>1, <2>3, <2>4, <2>6, <2>7, <2>8, RowKept, ZenonT(40)
<1>6. ASSUME NEW slot \in Allocated, NEW weight \in Weights, lettuce_task_set_weight(slot, weight)
      PROVE  StepKept
  <2> DEFINE t == g_task_table[slot]
             w == AllowedWeight(weight)
             u == [t EXCEPT !.weight = w]
  <2>1. g_task_table' = [g_task_table EXCEPT ![slot].weight = w] /\ g_current_task' = g_current_task
    BY <1>6, Zenon DEF lettuce_task_set_weight
  <2>2. w \in TaskWeights /\ w \in Nat \ {0}
    BY WeightsAndSlices DEF TaskWeights
  <2> HIDE DEF w
  <2>3. slot \in TaskSlots /\ Timed(t) /\ g_task_table = [i \in TaskSlots |-> g_task_table[i]]
    BY <1>2 DEF Allocated
  <2>4. /\ Timed(u) /\ u.weight = w /\ u.generation = t.generation
        /\ u.requested_slice_ticks = t.requested_slice_ticks /\ u.quantum_ticks = t.quantum_ticks
        /\ Shows(u, t.state, t.time_slice_ticks, t.vruntime)
    BY <2>2, <2>3, SetWeight, Zenon DEF Timed, Fields, Shows
  <2>5. g_task_table' = [g_task_table EXCEPT ![slot] = u]
    BY <2>1, <2>3, Zenon
  <2> HIDE DEF u
  <2>6. Fit(t) => /\ u.weight \in TaskWeights /\ u.requested_slice_ticks \in TaskSlices
                  /\ u.quantum_ticks \in TaskSlices
    BY <2>2, <2>4, Zenon DEF Fit
  <2>7. t = g_task_table[slot]
    OBVIOUS
  <2> HIDE DEF t
  <2>8. slot \in TaskSlots /\ Timed(u) /\ u.generation = t.generation
        /\ Shows(u, t.state, t.time_slice_ticks, t.vruntime)
    BY <2>3, <2>4, Zenon
  <2>9. g_current_task' = g_current_task
    BY <2>1, Zenon
  <2> QED BY <1>1, <2>5, <2>6, <2>7, <2>8, <2>9, TermsChanged, ZenonT(40)
<1>7. ASSUME NEW slot \in Allocated, NEW asked \in RequestedSlices, lettuce_task_set_slice(slot, asked)
      PROVE  StepKept
  <2> DEFINE t == g_task_table[slot]
             w == AllowedSlice(asked)
             s == [t EXCEPT !.requested_slice_ticks = w]
             u == [s EXCEPT !.quantum_ticks = w]
  <2>1. /\ g_task_table' = [g_task_table EXCEPT ![slot].requested_slice_ticks = w,
                                               ![slot].quantum_ticks = w]
        /\ g_current_task' = g_current_task
    BY <1>7, Zenon DEF lettuce_task_set_slice
  <2>2. w \in TaskSlices
    BY DEF TaskSlices
  <2> HIDE DEF w
  <2>3. slot \in TaskSlots /\ Timed(t) /\ g_task_table = [i \in TaskSlots |-> g_task_table[i]]
    BY <1>2 DEF Allocated
  <2>4. /\ Timed(s) /\ s.weight = t.weight /\ s.generation = t.generation
        /\ s.requested_slice_ticks = w /\ Shows(s, t.state, t.time_slice_ticks, t.vruntime)
    BY <2>3, SetField, Zenon DEF Timed, Fields, Shows
  <2>5. /\ Timed(u) /\ u.weight = s.weight /\ u.generation = s.generation
        /\ u.requested_slice_ticks = s.requested_slice_ticks /\ u.quantum_ticks = w
        /\ Shows(u, s.state, s.time_slice_ticks, s.vruntime)
    <3> HIDE DEF s
    <3> QED BY <2>4, SetField, Zenon DEF Timed, Fields, Shows
  <2>6. g_task_table' = [g_task_table EXCEPT ![slot] = u]
    BY <2>1, <2>3, Zenon
  <2> HIDE DEF s, u
  <2>7. /\ u.generation = t.generation /\ Shows(u, t.state, t.time_slice_ticks, t.vruntime)
        /\ Fit(t) => /\ u.weight \in TaskWeights /\ u.requested_slice_ticks \in TaskSlices
                     /\ u.quantum_ticks \in TaskSlices
    BY <2>2, <2>4, <2>5, Zenon DEF Fit, Shows
  <2>8. t = g_task_table[slot]
    OBVIOUS
  <2> HIDE DEF t
  <2>9. slot \in TaskSlots /\ Timed(u) /\ g_current_task' = g_current_task
    BY <2>1, <2>3, <2>5, Zenon
  <2> QED BY <1>1, <2>6, <2>7, <2>8, <2>9, TermsChanged, ZenonT(40)
<1> QED BY <1>4, <1>5, <1>6, <1>7, ZenonT(40) DEF Administration, TaskAdministration

\* A slot that is not in use.
LEMMA UnusedSound ==
    /\ Timed(UnusedTask) /\ Fit(UnusedTask)
    /\ \A v \in Nat : Within(UnusedTask, v)
<1>1. UnusedTask = [f \in Fields |-> UnusedTask[f]] /\ UnusedTask.vruntime = 0 /\ UnusedTask.weight = BaseWeight
  BY ZenonT(40) DEF UnusedTask, Fields
<1>2. Timed(UnusedTask)
  BY <1>1, TaskAssumption, SMTT(30) DEF Timed
<1>3. Fit(UnusedTask)
  BY DEF UnusedTask, Fit, TaskWeights, TaskSlices
<1>4. \A v \in Nat : UnusedTask.vruntime <= v
  BY <1>1
<1> QED BY <1>2, <1>3, <1>4, WithinNow, Zenon

\* Starting afresh: no task is in use, so that none is ahead of the time zero.
LEMMA Afresh ==
    ASSUME \A i \in TaskSlots : /\ g_task_table'[i].state = "UNUSED"
                                /\ Fit(g_task_table'[i]) /\ Within(g_task_table'[i], g_eevdf_vsys'),
           TimeInv'
    PROVE  LagInv'
<1>1. Current'.tasks = g_task_table' /\ Current'.vsys = g_eevdf_vsys'
  BY DEF Current
<1>2. Sound(Current)'
  BY <1>1, Zenon DEF Sound
<1>3. ~IsRunning(Current, g_current_task)'
  BY <1>1 DEF IsRunning, TimeInv
<1> QED BY <1>2, <1>3, ZenonT(40) DEF LagInv, RoomyAt

LEMMA StepKeeps ==
    ASSUME TimeInv, [Next]_vars
    PROVE  StepKept
<1>1. TimedTable(g_task_table) /\ g_eevdf_vsys \in Nat
  BY DEF TimeInv
<1>2. CASE lettuce_scheduler_init
  <2>1. /\ g_task_table' = [i \in TaskSlots |-> UnusedTask] /\ g_current_task' = NoTask
        /\ g_eevdf_vsys' = g_eevdf_vsys \/ g_eevdf_vsys' = 0
        /\ g_rr_last_idx' = g_rr_last_idx \/ g_rr_last_idx' = 0
    BY <1>2 DEF lettuce_scheduler_init, lettuce_task_init_subsystem
  <2>2. TimedTable(g_task_table') /\ \A i \in TaskSlots : g_task_table'[i] = UnusedTask
    BY <2>1, UnusedSound DEF TimedTable
  <2>3. g_eevdf_vsys' \in Nat /\ g_rr_last_idx' \in TaskSlots
    BY <2>1, TaskAssumption DEF TimeInv, TaskSlots
  <2>4. TimeInv'
    BY <2>1, <2>2, <2>3 DEF TimeInv
  <2>5. TimeStep
    BY <2>1 DEF TimeStep, TimeInv
  <2>6. \A i \in TaskSlots : /\ g_task_table'[i].state = "UNUSED"
                             /\ Fit(g_task_table'[i]) /\ Within(g_task_table'[i], g_eevdf_vsys')
    <3>1. UnusedTask.state = "UNUSED"
      BY DEF UnusedTask
    <3> QED BY <2>2, <2>3, <3>1, UnusedSound, ZenonT(40)
  <2>7. LagInv'
    BY <2>4, <2>6, Afresh, Zenon
  <2>8. TurnStep
    <3>1. \A i \in TaskSlots : ~Waiting(i)'
      BY <2>6 DEF Waiting
    <3> QED BY <3>1, Zenon DEF TurnStep
  <2> QED BY <2>4, <2>5, <2>7, <2>8, ZenonT(40) DEF StepKept
<1>3. CASE \E policy \in Policies : lettuce_scheduler_set_policy(policy)
  <2>1. /\ Allocated = {} /\ g_task_table' = g_task_table /\ g_current_task' = g_current_task
        /\ g_eevdf_vsys' = g_eevdf_vsys \/ g_eevdf_vsys' = 0
        /\ g_rr_last_idx' = g_rr_last_idx \/ g_rr_last_idx' = 0
    BY <1>3 DEF lettuce_scheduler_set_policy
  <2>2. \A i \in TaskSlots : g_task_table[i].state = "UNUSED"
    BY <2>1 DEF Allocated
  <2>3. g_eevdf_vsys' \in Nat /\ g_rr_last_idx' \in TaskSlots
    BY <2>1, TaskAssumption DEF TimeInv, TaskSlots
  <2>4. TimeInv'
    BY <2>1, <2>3 DEF TimeInv
  <2>5. TimeStep
    BY <2>1 DEF TimeStep, TimeInv
  <2>6. ASSUME LagInv PROVE LagInv'
    <3>1. \A i \in TaskSlots : Fit(g_task_table[i])
      BY <2>6 DEF LagInv, Sound, Current
    <3>2. \A i \in TaskSlots : g_task_table[i].vruntime <= g_eevdf_vsys' /\ Timed(g_task_table[i])
      BY <1>1, <2>2, <2>3, <3>1 DEF Fit, TimedTable
    <3>3. \A i \in TaskSlots : Within(g_task_table[i], g_eevdf_vsys')
      BY <2>3, <3>2, WithinNow, Zenon
    <3> QED BY <2>1, <2>2, <2>4, <3>1, <3>3, Afresh, ZenonT(40)
  <2>7. TurnStep
    <3>1. \A i \in TaskSlots : ~Waiting(i)
      BY <2>2 DEF Waiting
    <3> QED BY <3>1, ZenonT(40) DEF TurnStep
  <2> QED BY <2>4, <2>5, <2>6, <2>7, ZenonT(40) DEF StepKept
<1>4. CASE lettuce_scheduler_stop \/ Execute \/ UNCHANGED vars
  <2>1. g_task_table' = g_task_table /\ UNCHANGED <<g_current_task, policyVars>>
    BY <1>4 DEF lettuce_scheduler_stop, Execute, vars
  <2>2. \A i \in TaskSlots : Continues(g_task_table[i], g_task_table[i])
    BY SameReflexive, Zenon DEF Continues
  <2> QED BY <1>1, <2>1, <2>2, Passed, Zenon
<1>5. CASE TimerInterruptInKernel
  <2>1. g_task_table' = Elapse(g_task_table) /\ UNCHANGED <<g_current_task, policyVars>>
    BY <1>5 DEF TimerInterruptInKernel
  <2>2. /\ TimedTable(Elapse(g_task_table))
        /\ \A i \in TaskSlots : Continues(g_task_table[i], Elapse(g_task_table)[i])
    BY <1>1, Elapsed
  <2> QED BY <2>1, <2>2, Passed, Zenon
<1>6. ASSUME NEW slot \in TaskSlots, Launch(slot)
      PROVE  StepKept
  <2> DEFINE t == g_task_table[slot]
             u == [t EXCEPT !.state = "RUNNING"]
  <2>1. Timed(t) /\ g_task_table = [i \in TaskSlots |-> g_task_table[i]]
    BY <1>1 DEF TimedTable
  <2>2. Timed(u) /\ SameTerms(t, u) /\ Shows(u, "RUNNING", t.time_slice_ticks, t.vruntime)
    BY <2>1, SetField, TermsKept, FieldSet, ZenonT(40)
  <2>3. /\ g_task_table' = [g_task_table EXCEPT ![slot] = u] /\ UNCHANGED policyVars
        /\ g_current_task = NoTask /\ g_current_task' = slot
    BY <1>6, <2>1 DEF Launch
  <2>4. t.vruntime = 0 /\ t.time_slice_ticks = DefaultSlice
    BY <1>6 DEF Launch, JustCreated
  <2> HIDE DEF t, u
  <2>5. u.vruntime <= g_eevdf_vsys /\ u.time_slice_ticks \in TaskSlices /\ u.time_slice_ticks \in Nat
    BY <1>1, <2>2, <2>4, WeightsAndSlices DEF Shows
  <2>6. Roomy(u, g_eevdf_vsys) /\ Within(u, g_eevdf_vsys)
    BY <1>1, <2>2, <2>5, RoomyStart, WithinNow, ZenonT(40)
  <2>7. ASSUME LagInv PROVE Fit(u)
    <3>1. Fit(t)
      BY <2>7, SMTT(30) DEF LagInv, Sound, Current, t
    <3>2. u.state # "UNUSED"
      BY <2>2, Zenon DEF Shows
    <3> QED BY <2>2, <2>5, <3>1, <3>2, FitKept, ZenonT(40)
  <2> QED BY <2>2, <2>3, <2>6, <2>7, RowKept, ZenonT(40)
<1>7. CASE \/ TimerInterrupt \/ lettuce_scheduler_yield
           \/ \E ticks \in 0 .. MaxSleep : lettuce_kernel_sys_nanosleep(ticks)
  BY <1>7, EntriesKeep, Zenon
<1>8. CASE Administration
  BY <1>8, AdministrationKeeps, Zenon
<1>9. CASE \E slot \in TaskSlots : Launch(slot)
  BY <1>6, <1>9, Zenon
<1> QED BY <1>2, <1>3, <1>4, <1>5, <1>7, <1>8, <1>9, ZenonT(40) DEF Next

LEMMA InitKept ==
    ASSUME Init
    PROVE  LagInv
<1>1. /\ g_task_table = [i \in TaskSlots |-> UnusedTask] /\ g_current_task = NoTask
      /\ g_eevdf_vsys = 0 /\ g_rr_last_idx = 0
  BY DEF Init, TaskInit
<1>2. TimeInv
  <2>1. TimedTable(g_task_table)
    BY <1>1, UnusedSound DEF TimedTable
  <2> QED BY <1>1, <2>1, TaskAssumption DEF TimeInv, TaskSlots
<1>3. \A i \in TaskSlots : g_task_table[i] = UnusedTask
  BY <1>1, Zenon
<1>4. Current.tasks = g_task_table /\ Current.vsys \in Nat
  BY <1>1 DEF Current
<1>5. Sound(Current)
  BY <1>3, <1>4, UnusedSound, Zenon DEF Sound
<1> QED BY <1>1, <1>2, <1>5, ZenonT(40) DEF LagInv, RoomyAt, IsRunning

-----------------------------------------------------------------------------
\* In every state reached, each task's virtual runtime and the system virtual
\* time are natural numbers and each weight is positive: no subtraction or
\* stale row leaves EEVDF a time it cannot compare or a weight it cannot
\* divide by (eevdf_on_tick, lettuce_eevdf_calc_deadline).
THEOREM TimesAreSound == Spec => []TimeInv
<1>1. Init => TimeInv
  BY InitKept DEF LagInv
<1>2. TimeInv /\ [Next]_vars => TimeInv'
  BY StepKeeps DEF StepKept
<1> QED BY <1>1, <1>2, PTL DEF Spec

\* System virtual time never goes back while tasks are scheduled, however many
\* there are and whatever their weights: neither a tick, whose share of the
\* scale is a quotient by the sum of the active weights, nor eevdf_pick_next,
\* which overwrites it with the least virtual runtime, sets it to less.
THEOREM TimeMovesForward == Spec => VirtualTimeMonotonic
<1>1. TimeInv /\ [Next]_vars => [TimeStep]_vars
  BY StepKeeps DEF StepKept
<1>2. Spec => [][TimeStep]_vars
  BY <1>1, TimesAreSound, PTL DEF Spec
<1> QED BY <1>2 DEF VirtualTimeMonotonic, TimeStep

\* No task that the scans find is ever further ahead of system virtual time
\* than the longest slice a task may have, for every number of tasks and every
\* weight and slice, changed at any moment: eevdf_pick_next gives a slice only
\* to a task that is not ahead, eevdf_on_tick charges no tick more than the
\* slice has, and a task that yields or sleeps gives up what it has left.
THEOREM AheadByASliceAtMost == Spec => []NeverFarAhead
<1>1. LagInv /\ [Next]_vars => LagInv'
  BY StepKeeps, Zenon DEF StepKept, LagInv
<1>2. LagInv => NeverFarAhead
  <2> SUFFICES ASSUME LagInv, NEW i \in TaskSlots, InScan(i)
               PROVE  \E d \in SliceLengths : g_task_table[i].vruntime - g_eevdf_vsys <= d
    BY Zenon DEF NeverFarAhead
  <2>1. Within(g_task_table[i], g_eevdf_vsys) /\ g_task_table[i].vruntime \in Nat /\ g_eevdf_vsys \in Nat
    BY DEF LagInv, Sound, Current, TimeInv, TimedTable, Timed
  <2>2. PICK d \in SliceLengths : g_task_table[i].vruntime <= g_eevdf_vsys + d
    BY <2>1, Zenon DEF Within, InScan
  <2> QED BY <2>1, <2>2, LengthsNatural
<1> QED BY <1>1, <1>2, InitKept, PTL DEF Spec

\* Round robin never lets a ready task fall back in the order of its scan, and
\* brings it nearer with every switch from one task to another, whatever the
\* other tasks do meanwhile (rr_pick_next goes on from the slot after the one
\* chosen last): a ready task is passed over by no more than MaxTasks switches.
THEOREM TurnsComeNearer == Spec => TurnComesNearer
<1>1. TimeInv /\ [Next]_vars => [TurnStep]_vars
  BY StepKeeps DEF StepKept
<1>2. Spec => [][TurnStep]_vars
  BY <1>1, TimesAreSound, PTL DEF Spec
<1> QED BY <1>2 DEF TurnComesNearer, TurnStep
=============================================================================
