----------------------------- MODULE PosixProofs ----------------------------
(***************************************************************************)
(* Proofs about Clock and Posix, for every counter frequency, timer rate,  *)
(* set of sleeps, size of the descriptor table and length of a run.        *)
(***************************************************************************)
EXTENDS Posix, TLAPS

(***************************************************************************)
(* Posix moves the clock only as Clock allows.                             *)
(***************************************************************************)
\* Every step of the system calls, the wrappers and the two tasks is a step of
\* the timer and of at most one sleeper, or leaves them alone.
LEMMA PosixStepIsClockStep ==
    ASSUME PosixNext
    PROVE  [ClockNext]_clockVars
<1>1. CASE Count /\ UNCHANGED posixVars
  BY <1>1 DEF ClockNext
<1>2. CASE SetTimer
  BY <1>2 DEF SetTimer, ClockNext
<1>3. CASE Interrupt
  BY <1>3 DEF Interrupt, ClockNext
<1>4. CASE \E t \in Tasks : Nanosleep(t)
  BY <1>4 DEF Nanosleep, ClockNext
<1>5. CASE UNCHANGED clockVars
  BY <1>5
<1>6. CASE \/ lettuce_fd_table_init \/ Enter
           \/ \E i \in Installs : lettuce_fd_install(i[1], i[2], i[3])
           \/ \E t \in Tasks : Syscall(t) \/ Close(t) \/ NanosleepFails(t) \/ Wrapper(t) \/ ReadErrno(t)
  <2>1. UNCHANGED clockVars
    BY <1>6, Zenon DEF lettuce_fd_table_init, Enter, lettuce_fd_install, Syscall, Close,
                NanosleepFails, Wrapper, ReadErrno
  <2> QED BY <2>1
<1> QED
  BY <1>1, <1>2, <1>3, <1>4, <1>5, <1>6 DEF PosixNext

\* sys.c and timer.c under any calls of two tasks behave as the clock alone.
THEOREM PosixImplementsClock == PosixSpec => ClockSpec
<1>1. PosixInit => ClockInit
  BY DEF PosixInit
<1>2. [PosixNext]_<<clockVars, posixVars>> => [ClockNext]_clockVars
  BY PosixStepIsClockStep
<1> QED BY <1>1, <1>2, PTL DEF PosixSpec, ClockSpec

-----------------------------------------------------------------------------
(***************************************************************************)
(* Ticks.                                                                  *)
(***************************************************************************)
LEMMA OneMore ==
    ASSUME NEW n \in Nat, NEW m \in Nat
    PROVE  (n + 1) * m = n * m + m /\ n * m \in Nat
  OBVIOUS

\* The next interrupt is at least a whole interval away from the last tick.
TickInv ==
    /\ counter \in Nat /\ compare \in Nat /\ base \in Nat
    /\ g_timer_interval \in Nat /\ g_timer_ticks \in Nat
    /\ ctl \in BOOLEAN /\ g_timer_enabled \in BOOLEAN
    /\ base + g_timer_ticks * g_timer_interval <= counter
    /\ ctl => g_timer_enabled
    /\ ctl => base + g_timer_ticks * g_timer_interval + g_timer_interval <= compare

LEMMA TickInit == ClockInit => TickInv
<1> SUFFICES ASSUME ClockInit PROVE TickInv
  OBVIOUS
<1>1. ctl = FALSE /\ g_timer_enabled = FALSE
  BY DEF ClockInit
<1>2. base + g_timer_ticks * g_timer_interval <= counter
  BY DEF ClockInit
<1> QED BY <1>1, <1>2, Zenon DEF ClockInit, TickInv

LEMMA TickStep ==
    ASSUME TickInv, [ClockNext]_clockVars
    PROVE  TickInv'
<1>1. CASE Count
  BY <1>1 DEF Count, timerVars, TickInv
<1>2. CASE \E hz \in Rates : lettuce_timer_init(hz)
  <2>1. PICK hz \in Rates : lettuce_timer_init(hz)
    BY <1>2
  <2>2. g_timer_interval' \in Nat
    BY <2>1, ClockAssumption DEF lettuce_timer_init
  <2> QED BY <2>1, <2>2 DEF lettuce_timer_init, TickInv
<1>3. CASE lettuce_timer_disable
  BY <1>3, Zenon DEF lettuce_timer_disable, TickInv
<1>4. CASE lettuce_timer_irq_handler
  <2>1. /\ ctl /\ g_timer_enabled /\ compare <= counter
        /\ g_timer_ticks' = g_timer_ticks + 1
        /\ counter' = counter /\ base' = base
        /\ g_timer_interval' = g_timer_interval /\ g_timer_enabled' = g_timer_enabled
    BY <1>4 DEF lettuce_timer_irq_handler, TickInv
  <2>2. g_timer_ticks' * g_timer_interval = g_timer_ticks * g_timer_interval + g_timer_interval
    BY <2>1, OneMore DEF TickInv
  <2>3. CASE g_timer_interval > 0
    <3>1. compare' = counter + g_timer_interval /\ ctl'
      BY <1>4, <2>1, <2>3 DEF lettuce_timer_irq_handler, lettuce_timer_rearm
    <3> QED BY <2>1, <2>2, <3>1, OneMore DEF TickInv
  <2>4. CASE g_timer_interval = 0
    <3>1. compare' = compare /\ ctl' = ctl
      BY <1>4, <2>1, <2>4 DEF lettuce_timer_irq_handler, lettuce_timer_rearm
    <3> QED BY <2>1, <2>2, <2>4, <3>1, OneMore DEF TickInv
  <2> QED BY <2>3, <2>4 DEF TickInv
<1>5. CASE \E req \in Sleeps : lettuce_kernel_sys_nanosleep(req[1], req[2])
  BY <1>5 DEF lettuce_kernel_sys_nanosleep, timerVars, TickInv
<1>6. CASE UNCHANGED clockVars
  BY <1>6 DEF clockVars, timerVars, TickInv
<1> QED
  BY <1>1, <1>2, <1>3, <1>4, <1>5, <1>6 DEF ClockNext

LEMMA TicksInvariant == PosixSpec => []TickInv
<1>1. PosixInit => TickInv
  BY TickInit DEF PosixInit
<1>2. TickInv /\ [PosixNext]_<<clockVars, posixVars>> => TickInv'
  BY PosixStepIsClockStep, TickStep
<1> QED BY <1>1, <1>2, PTL DEF PosixSpec

\* lettuce_timer_irq_handler: interrupts taken late lose time and never gain it.
THEOREM TicksAreNeverFast == PosixSpec => []TicksNeverFast
<1>1. TickInv => TicksNeverFast
  <2> SUFFICES ASSUME TickInv PROVE TicksNeverFast
    OBVIOUS
  <2>1. g_timer_ticks * g_timer_interval \in Nat
    BY OneMore DEF TickInv
  <2> QED BY <2>1 DEF TickInv, TicksNeverFast
<1> QED BY <1>1, TicksInvariant, PTL
-----------------------------------------------------------------------------
(***************************************************************************)
(* clock_gettime.                                                          *)
(***************************************************************************)
LEMMA Product ==
    ASSUME NEW n \in Nat, NEW m \in Nat
    PROVE  n * m \in Nat
  OBVIOUS

LEMMA Division ==
    ASSUME NEW n \in Nat, NEW d \in Nat \ {0}
    PROVE  /\ n \div d \in Nat
           /\ n % d \in 0 .. d - 1
           /\ n = d * (n \div d) + (n % d)
  OBVIOUS

\* The arithmetic of lettuce_kernel_sys_clock_gettime: s whole seconds of F
\* counts and r counts more are s * N nanoseconds and q more.
LEMMA Split ==
    ASSUME NEW F \in Nat \ {0}, NEW N \in Nat \ {0}, NEW s \in Nat, NEW r \in Nat, NEW q \in Nat
    PROVE  /\ (s * N + q) * F = (F * s) * N + F * q
           /\ (s * N + q + 1) * F = (F * s) * N + F * q + F
           /\ (F * s + r) * N = (F * s) * N + r * N
  OBVIOUS

LEMMA TimespecExact ==
    ASSUME NEW ticks \in Nat
    PROVE  /\ Timespec(ticks).tv_nsec < Nanos
           /\ Reading(Timespec(ticks)) * Frequency <= ticks * Nanos
           /\ ticks * Nanos < (Reading(Timespec(ticks)) + 1) * Frequency
<1> DEFINE s == ticks \div Frequency
           r == ticks % Frequency
           q == (r * Nanos) \div Frequency
           rest == (r * Nanos) % Frequency
<1>1. Frequency \in Nat \ {0} /\ Nanos \in Nat \ {0}
  BY ClockAssumption
<1>2. s \in Nat /\ r \in 0 .. Frequency - 1 /\ ticks = Frequency * s + r
  BY <1>1, Division, Zenon
<1>3. r * Nanos \in Nat
  BY <1>1, <1>2, Product
<1>4. q \in Nat /\ rest \in 0 .. Frequency - 1 /\ r * Nanos = Frequency * q + rest
  BY <1>1, <1>3, Division, Zenon
<1>5. Timespec(ticks) = [tv_sec |-> s, tv_nsec |-> q] /\ Reading(Timespec(ticks)) = s * Nanos + q
  BY DEF Timespec, Reading
<1> HIDE DEF s, r, q, rest
<1>6. /\ (s * Nanos + q) * Frequency = (Frequency * s) * Nanos + Frequency * q
      /\ (s * Nanos + q + 1) * Frequency = (Frequency * s) * Nanos + Frequency * q + Frequency
      /\ ticks * Nanos = (Frequency * s) * Nanos + r * Nanos
  BY <1>1, <1>2, <1>4, Split
<1>7. (Frequency * s) * Nanos \in Nat /\ Frequency * q \in Nat
  BY <1>1, <1>2, <1>4, Product
<1>8. q < Nanos
  <2> SUFFICES ASSUME q >= Nanos PROVE FALSE
    BY <1>1, <1>4
  <2>1. r * Nanos < Frequency * Nanos
    BY <1>1, <1>2
  <2>2. Frequency * Nanos <= Frequency * q
    BY <1>1, <1>4
  <2>3. Frequency * Nanos \in Nat
    BY <1>1, Product
  <2> QED BY <1>1, <1>3, <1>4, <1>7, <2>1, <2>2, <2>3
<1> QED BY <1>1, <1>3, <1>4, <1>5, <1>6, <1>7, <1>8

\* lettuce_kernel_sys_clock_gettime (sys.c): its reading is the counter's time,
\* rounded down to the nanosecond, at any counter and any frequency.
THEOREM ClockIsExact == PosixSpec => []ClockExact
<1>1. TickInv => ClockExact
  BY TimespecExact, ClockAssumption DEF TickInv, ClockExact
<1> QED BY <1>1, TicksInvariant, PTL
-----------------------------------------------------------------------------
(***************************************************************************)
(* The descriptor table.                                                   *)
(***************************************************************************)
Streams ==
    /\ g_fd_table[0] = [type |-> "CONSOLE_IN", ops |-> g_console_in_ops]
    /\ g_fd_table[1] = [type |-> "CONSOLE_OUT", ops |-> g_console_out_ops]
    /\ g_fd_table[2] = [type |-> "CONSOLE_ERR", ops |-> g_console_out_ops]

\* EL0 is entered on an initialised table only.
TableInv ==
    /\ DOMAIN g_fd_table = 0 .. MaxFds - 1
    /\ g_fd_table = [fd \in 0 .. MaxFds - 1 |-> g_fd_table[fd]]
    /\ g_fd_table[0].type # "UNUSED" => Streams
    /\ running # 0 => Streams

LEMMA TableStep ==
    ASSUME TableInv, PosixNext
    PROVE  TableInv'
<1>0. 0 \in 0 .. MaxFds - 1 /\ 1 \in 0 .. MaxFds - 1 /\ 2 \in 0 .. MaxFds - 1
  BY PosixAssumption
<1>1. CASE lettuce_fd_table_init
  BY <1>0, <1>1 DEF lettuce_fd_table_init, TableInv, Streams
<1>2. CASE \E i \in Installs : lettuce_fd_install(i[1], i[2], i[3])
  <2>1. PICK i \in Installs : lettuce_fd_install(i[1], i[2], i[3])
    BY <1>2
  <2>2. i[1] \in Int /\ i[1] # 0 /\ i[1] # 1 /\ i[1] # 2
    BY PosixAssumption
  <2>3. /\ g_fd_table'[0] = g_fd_table[0] /\ g_fd_table'[1] = g_fd_table[1]
        /\ g_fd_table'[2] = g_fd_table[2]
    BY <1>0, <2>1, <2>2 DEF lettuce_fd_install, TableInv
  <2> QED BY <2>1, <2>3, Zenon DEF lettuce_fd_install, TableInv, Streams
<1>3. CASE Enter
  BY <1>3 DEF Enter, TableInv, Streams
<1>4. CASE UNCHANGED g_fd_table /\ (running' # 0 => running # 0)
  BY <1>4 DEF TableInv, Streams
<1>5. CASE \/ Count /\ UNCHANGED posixVars
           \/ SetTimer \/ Interrupt
           \/ \E t \in Tasks : \/ Syscall(t) \/ Close(t) \/ Nanosleep(t) \/ NanosleepFails(t)
                               \/ Wrapper(t) \/ ReadErrno(t)
  BY <1>4, <1>5 DEF posixVars, SetTimer, Interrupt, Syscall, Close, CloseOp, console_close_op,
                    Nanosleep, NanosleepFails, Wrapper, ReadErrno, Calling, Tasks
<1> QED
  BY <1>1, <1>2, <1>3, <1>5 DEF PosixNext

\* fd.c, "Standard streams remain open": for any table and any sequence of calls.
THEOREM StreamsAreOpen == PosixSpec => []StreamsStayOpen
<1>1. PosixInit => TableInv
  BY PosixAssumption DEF PosixInit, TableInv, Unused
<1>2. TableInv /\ [PosixNext]_<<clockVars, posixVars>> => TableInv'
  <2>1. TableInv /\ UNCHANGED posixVars => TableInv'
    BY DEF TableInv, Streams, posixVars
  <2> QED BY <2>1, TableStep
<1>3. TableInv => StreamsStayOpen
  <2> SUFFICES ASSUME TableInv, running # 0 PROVE StreamsStayOpen
    BY DEF StreamsStayOpen
  <2>1. /\ Supports(0, "read") /\ Supports(1, "write") /\ Supports(2, "write")
        /\ \A fd \in 0 .. 2 : Supports(fd, "close")
    BY PosixAssumption DEF TableInv, Streams, Supports, g_console_in_ops, g_console_out_ops
  <2> QED
    BY <2>1 DEF StreamsStayOpen, lettuce_kernel_sys_write, lettuce_kernel_sys_read,
                lettuce_kernel_sys_close, console_write_op, console_read_op
<1> QED BY <1>1, <1>2, <1>3, PTL DEF PosixSpec
-----------------------------------------------------------------------------
(***************************************************************************)
(* Sleep.                                                                  *)
(***************************************************************************)
SleepRecords == [deadline : Nat, since : Nat, began : Nat, wanted : Nat, asleep : BOOLEAN]

\* While a task sleeps the timer is on and its interval fixed; from the second
\* tick on, every tick counted since stands for an interval of the counter.
SleepInv ==
    /\ running \in 0 .. 2
    /\ sleep \in SleepRecords
    /\ ctl => g_timer_interval > 0
    /\ running # 0 => ctl
    /\ sleep.asleep =>
         /\ running # 0
         /\ sleep.since <= g_timer_ticks /\ sleep.since <= sleep.deadline
         /\ sleep.began <= counter
         /\ Fits(sleep) =>
              sleep.wanted * Frequency < (sleep.deadline - sleep.since + 1) * Nanos
         /\ sleep.since < g_timer_ticks =>
              sleep.began + (g_timer_ticks - sleep.since) * g_timer_interval <= compare

LEMMA Remainder ==
    ASSUME NEW n \in Nat, NEW m \in Nat \ {0}
    PROVE  n % m \in Nat /\ (n < m => n % m = n)
<1>1. n \div m \in Nat /\ (n % m) \in 0 .. m - 1 /\ n = m * (n \div m) + (n % m)
  BY Division, Zenon
<1> DEFINE q == n \div m
           d == n % m
<1>2. n < m => q = 0
  <2> HIDE DEF q, d
  <2>1. q \in Nat /\ d \in Nat /\ n = m * q + d
    BY <1>1 DEF q, d
  <2>2. q > 0 => m <= m * q
    BY <2>1
  <2>3. m * q \in Nat
    BY <2>1, Product
  <2> QED BY <2>1, <2>2, <2>3
<1> HIDE DEF q, d
<1>3. q \in Nat /\ d \in Nat /\ n = m * q + d
  BY <1>1 DEF q, d
<1>4. d \in Nat /\ (n < m => d = n)
  BY <1>2, <1>3
<1> QED BY <1>4 DEF d

LEMMA Cancel ==
    ASSUME NEW a \in Int, NEW b \in Int, NEW d \in Nat \ {0}, a * d < b * d
    PROVE  a < b
<1> SUFFICES ASSUME b <= a PROVE FALSE
  OBVIOUS
<1>1. (a - b) * d = a * d - b * d
  OBVIOUS
<1>2. (a - b) * d >= 0
  OBVIOUS
<1> QED BY <1>1, <1>2

\* The deadline of a sleep that fits falls short of it by less than a count.
LEMMA DeltaTicks ==
    ASSUME NEW tv_sec \in Nat, NEW tv_nsec \in Nat, NEW since \in Nat
    PROVE  LET deadline == (since + delta_ticks(tv_sec, tv_nsec)) % Word
               wanted == tv_sec * Nanos + tv_nsec
           IN /\ deadline \in Nat
              /\ wanted * Frequency < (Word - since) * Nanos =>
                   wanted * Frequency < (deadline - since + 1) * Nanos
<1> DEFINE n == tv_nsec * Frequency
           q == n \div Nanos
           s == tv_sec * Frequency
           exact == s + q
           wanted == tv_sec * Nanos + tv_nsec
<1>0. Word \in Nat \ {0} /\ Nanos \in Nat \ {0} /\ Frequency \in Nat \ {0}
  <2>1. Nanos * Frequency \in Nat
    BY Product, ClockAssumption
  <2> QED BY <2>1, ClockAssumption
<1>1. n \in Nat /\ s \in Nat
  BY <1>0, Product
<1>2. wanted * Frequency = s * Nanos + n
  BY <1>0
<1>3. delta_ticks(tv_sec, tv_nsec) = exact % Word
  BY DEF delta_ticks
<1> HIDE DEF n, s
<1>4. q \in Nat /\ q * Nanos <= n /\ n < (q + 1) * Nanos
  BY <1>0, <1>1, Division
<1> HIDE DEF q
<1>5. /\ exact \in Nat
      /\ exact * Nanos = s * Nanos + q * Nanos
      /\ (exact + 1) * Nanos = s * Nanos + (q + 1) * Nanos
  BY <1>0, <1>1, <1>4
<1>6. s * Nanos \in Nat /\ q * Nanos \in Nat /\ (q + 1) * Nanos \in Nat
  BY <1>0, <1>1, <1>4, Product
<1>7. exact * Nanos <= wanted * Frequency /\ wanted * Frequency < (exact + 1) * Nanos
  BY <1>1, <1>2, <1>4, <1>5, <1>6
<1> HIDE DEF exact, wanted
<1>8. (exact % Word) \in Nat /\ (exact < Word => (exact % Word) = exact)
  BY <1>0, <1>5, Remainder
<1> DEFINE delta == exact % Word
<1> HIDE DEF delta
<1>9. delta \in Nat /\ (exact < Word => delta = exact)
  BY <1>8 DEF delta
<1>10. ((since + delta) % Word) \in Nat
       /\ (since + delta < Word => ((since + delta) % Word) = since + delta)
  BY <1>0, <1>9, Remainder
<1> DEFINE deadline == (since + delta) % Word
<1> HIDE DEF deadline
<1>11. deadline \in Nat /\ (since + delta < Word => deadline = since + delta)
  BY <1>10 DEF deadline
<1>12. ASSUME wanted * Frequency < (Word - since) * Nanos
       PROVE  wanted * Frequency < (deadline - since + 1) * Nanos
  <2>1. exact * Nanos \in Nat /\ (Word - since) * Nanos \in Int /\ wanted * Frequency \in Nat
    BY <1>0, <1>1, <1>2, <1>5, <1>6
  <2>2. exact * Nanos < (Word - since) * Nanos
    BY <1>7, <1>12, <2>1
  <2>3. exact < Word - since
    BY <1>0, <1>5, <2>2, Cancel
  <2>4. deadline - since = exact
    BY <1>0, <1>5, <1>9, <1>11, <2>3
  <2> QED BY <1>7, <2>4
<1>13. deadline = (since + delta_ticks(tv_sec, tv_nsec)) % Word
  BY <1>3 DEF deadline, delta
<1> QED BY <1>11, <1>12, <1>13 DEF wanted

LEMMA Grows ==
    ASSUME NEW k \in Nat, NEW i \in Nat, i > 0
    PROVE  k * i \in Nat /\ k <= k * i
  OBVIOUS

LEMMA Monotone ==
    ASSUME NEW a \in Nat, NEW b \in Nat, NEW d \in Nat, a <= b
    PROVE  a * d <= b * d /\ a * d \in Nat /\ b * d \in Nat
  OBVIOUS

\* At an interrupt that finds a sleeper, the intervals counted since it fell
\* asleep, all but the one under way, have passed.
LEMMA TickOfSleeper ==
    ASSUME TickInv, SleepInv, sleep.asleep, ctl, counter >= compare
    PROVE  LET k == g_timer_ticks - sleep.since
           IN /\ k \in Nat /\ k <= k * g_timer_interval /\ k * g_timer_interval \in Nat
              /\ (k + 1) * g_timer_interval = k * g_timer_interval + g_timer_interval
              /\ sleep.began + k * g_timer_interval <= counter
<1> DEFINE k == g_timer_ticks - sleep.since
<1>1. sleep.since \in Nat /\ sleep.began \in Nat
  BY DEF SleepInv, SleepRecords
<1>2. k \in Nat /\ (k = 0 <=> g_timer_ticks = sleep.since)
  BY <1>1 DEF TickInv, SleepInv
<1>3. g_timer_interval \in Nat /\ g_timer_interval > 0
  BY DEF TickInv, SleepInv
<1>4. k <= k * g_timer_interval /\ k * g_timer_interval \in Nat
      /\ (k + 1) * g_timer_interval = k * g_timer_interval + g_timer_interval
  <2> HIDE DEF k
  <2> QED BY <1>2, <1>3, Grows, OneMore
<1>5. sleep.began + k * g_timer_interval <= counter
  <2>1. CASE k = 0
    BY <1>1, <1>3, <2>1 DEF SleepInv, TickInv
  <2>2. CASE k > 0
    <3>1. sleep.began + k * g_timer_interval <= compare
      BY <1>1, <1>2, <2>2 DEF SleepInv, TickInv
    <3> HIDE DEF k
    <3> QED BY <1>1, <1>4, <3>1 DEF TickInv
  <2> QED BY <1>2, <2>1, <2>2
<1> QED BY <1>2, <1>4, <1>5

LEMMA SleepStep ==
    ASSUME TickInv, SleepInv, PosixNext
    PROVE  SleepInv'
<1>1. CASE Count /\ UNCHANGED posixVars
  <2>1. sleep.began \in Nat
    BY DEF SleepInv, SleepRecords
  <2>2. counter' = counter + 1 /\ UNCHANGED <<timerVars, sleep, running>>
    BY <1>1 DEF Count, posixVars
  <2> QED BY <2>1, <2>2 DEF timerVars, SleepInv, TickInv
<1>2. CASE SetTimer
  <2>1. UNCHANGED <<running, sleep>> /\ running = 0
    BY <1>2 DEF SetTimer, posixVars, lettuce_timer_disable, lettuce_timer_init
  <2>2. ctl' => g_timer_interval' > 0
    BY <1>2, ClockAssumption DEF SetTimer, lettuce_timer_disable, lettuce_timer_init
  <2> QED BY <2>1, <2>2 DEF SleepInv
<1>3. CASE Enter
  <2>1. UNCHANGED <<counter, compare, ctl, g_timer_interval, g_timer_ticks, sleep>>
    BY <1>3 DEF Enter, clockVars, timerVars
  <2>2. running = 0 /\ ctl /\ running' = 1
    BY <1>3 DEF Enter
  <2> QED BY <2>1, <2>2 DEF SleepInv
<1>4. CASE Interrupt
  <2>1. /\ ctl /\ counter >= compare /\ g_timer_interval > 0 /\ g_timer_enabled
        /\ g_timer_ticks' = g_timer_ticks + 1
        /\ UNCHANGED <<counter, g_timer_interval>>
        /\ sleep' = IF sleep.asleep /\ g_timer_ticks' >= sleep.deadline THEN Awake ELSE sleep
    BY <1>4 DEF Interrupt, lettuce_timer_irq_handler, SleepInv, TickInv
  <2>2. compare' = counter + g_timer_interval /\ ctl'
    BY <1>4, <2>1 DEF Interrupt, lettuce_timer_irq_handler, lettuce_timer_rearm
  <2>3. running' \in 0 .. 2 /\ (running # 0 => running' # 0)
    BY <1>4 DEF Interrupt, Other, SleepInv
  <2>4. CASE sleep' = Awake
    <3>1. sleep' \in SleepRecords /\ ~sleep'.asleep
      BY <2>4, Zenon DEF Awake, SleepRecords
    <3> QED BY <2>1, <2>2, <2>3, <3>1 DEF SleepInv
  <2>5. CASE sleep' = sleep /\ ~sleep.asleep
    BY <2>1, <2>2, <2>3, <2>5 DEF SleepInv
  <2>6. CASE sleep' = sleep /\ sleep.asleep
    <3> DEFINE k == g_timer_ticks - sleep.since
    <3>1. sleep.since \in Nat /\ sleep.began \in Nat /\ sleep.since <= g_timer_ticks
      BY <2>6 DEF SleepInv, SleepRecords
    <3>2. /\ k \in Nat /\ k * g_timer_interval \in Nat
          /\ (k + 1) * g_timer_interval = k * g_timer_interval + g_timer_interval
          /\ sleep.began + k * g_timer_interval <= counter
      BY <2>1, <2>6, TickOfSleeper
    <3>3. g_timer_ticks' - sleep'.since = k + 1
      BY <2>1, <2>6, <3>1 DEF TickInv
    <3> HIDE DEF k
    <3>4. sleep'.began + (g_timer_ticks' - sleep'.since) * g_timer_interval' <= compare'
      BY <2>1, <2>2, <2>6, <3>1, <3>2, <3>3 DEF TickInv
    <3>5. sleep'.since <= g_timer_ticks'
      BY <2>1, <2>6, <3>1 DEF TickInv
    <3> QED BY <2>1, <2>2, <2>3, <2>6, <3>4, <3>5 DEF SleepInv
  <2> QED BY <2>1, <2>4, <2>5, <2>6
<1>5. ASSUME NEW t \in Tasks, Nanosleep(t) PROVE SleepInv'
  <2>1. PICK time \in Sleeps : lettuce_kernel_sys_nanosleep(time[1], time[2])
    BY <1>5 DEF Nanosleep
  <2>2. time[1] \in Nat /\ time[2] \in Nat
    BY ClockAssumption
  <2> DEFINE d == (g_timer_ticks + delta_ticks(time[1], time[2])) % Word
             w == time[1] * Nanos + time[2]
  <2>3. /\ d \in Nat /\ w \in Nat
        /\ w * Frequency < (Word - g_timer_ticks) * Nanos =>
             w * Frequency < (d - g_timer_ticks + 1) * Nanos
    <3>1. g_timer_ticks \in Nat
      BY DEF TickInv
    <3>2. w \in Nat
      BY <2>2, Product, ClockAssumption
    <3> QED BY <2>2, <3>1, <3>2, DeltaTicks, Zenon
  <2>4. /\ sleep' = IF g_timer_ticks >= d THEN Awake
                    ELSE [deadline |-> d, since |-> g_timer_ticks, began |-> counter,
                          wanted |-> w, asleep |-> TRUE]
        /\ UNCHANGED <<counter, compare, ctl, g_timer_interval, g_timer_ticks>>
    BY <2>1 DEF lettuce_kernel_sys_nanosleep, timerVars
  <2>5. running # 0 /\ running' \in 0 .. 2 /\ running' # 0
    BY <1>5 DEF Nanosleep, Calling, Tasks, Other
  <2> HIDE DEF d, w
  <2>6. CASE g_timer_ticks >= d
    <3>1. sleep' = Awake
      BY <2>4, <2>6
    <3>2. sleep' \in SleepRecords /\ ~sleep'.asleep
      BY <3>1, Zenon DEF Awake, SleepRecords
    <3> QED BY <2>4, <2>5, <3>2 DEF SleepInv
  <2>7. CASE g_timer_ticks < d
    <3>1. sleep' = [deadline |-> d, since |-> g_timer_ticks, began |-> counter,
                    wanted |-> w, asleep |-> TRUE]
      BY <2>3, <2>4, <2>7 DEF TickInv
    <3>2. sleep' \in SleepRecords
      BY <2>3, <3>1 DEF SleepRecords, TickInv
    <3>3. /\ sleep'.since = g_timer_ticks' /\ sleep'.began = counter'
          /\ sleep'.since <= sleep'.deadline
      BY <2>3, <2>4, <2>7, <3>1 DEF TickInv
    <3>4. Fits(sleep)' =>
            sleep'.wanted * Frequency < (sleep'.deadline - sleep'.since + 1) * Nanos
      BY <2>3, <3>1 DEF Fits
    <3> QED BY <2>4, <2>5, <3>2, <3>3, <3>4 DEF SleepInv, TickInv
  <2> QED BY <2>3, <2>6, <2>7 DEF TickInv
<1>6. CASE UNCHANGED <<clockVars, running>>
  BY <1>6 DEF clockVars, timerVars, SleepInv
<1>7. CASE \/ lettuce_fd_table_init
           \/ \E i \in Installs : lettuce_fd_install(i[1], i[2], i[3])
           \/ \E t \in Tasks : Syscall(t) \/ Close(t) \/ NanosleepFails(t) \/ Wrapper(t) \/ ReadErrno(t)
  BY <1>6, <1>7, Zenon DEF lettuce_fd_table_init, lettuce_fd_install, Syscall, Close,
                    NanosleepFails, Wrapper, ReadErrno
<1> QED
  BY <1>1, <1>2, <1>3, <1>4, <1>5, <1>7 DEF PosixNext

\* lettuce_scheduler_sleep_current and the wake-up at a tick: for any frequency,
\* rate and time asked for whose deadline is within a uint64_t, no sleep ends
\* more than a tick and a count early.
THEOREM SleepsAreNotCutShort == PosixSpec => SleepNotCutShort
<1>1. PosixInit => SleepInv
  <2> SUFFICES ASSUME PosixInit PROVE SleepInv
    OBVIOUS
  <2>1. sleep \in SleepRecords /\ ~sleep.asleep
    BY Zenon, 0 \in Nat DEF PosixInit, ClockInit, Awake, SleepRecords
  <2>2. ctl = FALSE /\ running = 0
    BY DEF PosixInit, ClockInit
  <2> QED BY <2>1, <2>2 DEF SleepInv
<1>2. TickInv /\ SleepInv /\ [PosixNext]_<<clockVars, posixVars>> => SleepInv'
  <2>1. SleepInv /\ UNCHANGED <<clockVars, posixVars>> => SleepInv'
    BY DEF SleepInv, clockVars, timerVars, posixVars
  <2> QED BY <2>1, SleepStep
<1>3. TickInv /\ SleepInv /\ [PosixNext]_<<clockVars, posixVars>> =>
        [sleep.asleep /\ ~sleep'.asleep /\ Fits(sleep)
           => (counter - sleep.began + g_timer_interval + 1) * Nanos
                > sleep.wanted * Frequency]_clockVars
  <2> SUFFICES ASSUME TickInv, SleepInv, [ClockNext]_clockVars,
                      sleep.asleep, ~sleep'.asleep, Fits(sleep)
               PROVE  (counter - sleep.began + g_timer_interval + 1) * Nanos
                        > sleep.wanted * Frequency
    BY PosixStepIsClockStep, Zenon
  <2>1. lettuce_timer_irq_handler
    BY DEF ClockNext, Count, lettuce_timer_init, lettuce_timer_disable,
           lettuce_kernel_sys_nanosleep, clockVars
  <2>2. ctl /\ counter >= compare /\ sleep.deadline <= g_timer_ticks + 1
    BY <2>1 DEF lettuce_timer_irq_handler
  <2>3. /\ sleep.since \in Nat /\ sleep.began \in Nat /\ sleep.deadline \in Nat
        /\ sleep.wanted \in Nat /\ sleep.since <= sleep.deadline
        /\ sleep.wanted * Frequency < (sleep.deadline - sleep.since + 1) * Nanos
    BY DEF SleepInv, SleepRecords
  <2>4. sleep.deadline - sleep.since <= counter - sleep.began + g_timer_interval
    <3> DEFINE k == g_timer_ticks - sleep.since
    <3>1. /\ k \in Nat /\ k <= k * g_timer_interval /\ k * g_timer_interval \in Nat
          /\ sleep.began + k * g_timer_interval <= counter
      BY <2>2, TickOfSleeper
    <3>2. sleep.deadline - sleep.since <= k + 1
      BY <2>2, <2>3 DEF TickInv
    <3>3. g_timer_interval \in Nat /\ g_timer_interval > 0
      BY <2>2 DEF SleepInv, TickInv
    <3> HIDE DEF k
    <3> QED BY <2>3, <3>1, <3>2, <3>3 DEF TickInv
  <2> DEFINE a == sleep.deadline - sleep.since + 1
             b == counter - sleep.began + g_timer_interval + 1
  <2>5. a \in Nat /\ b \in Nat /\ a <= b
    BY <2>3, <2>4 DEF TickInv
  <2>6. sleep.wanted * Frequency \in Nat
    BY <2>3, Product, ClockAssumption
  <2> HIDE DEF a, b
  <2>7. a * Nanos <= b * Nanos /\ a * Nanos \in Nat /\ b * Nanos \in Nat
    BY <2>5, Monotone, ClockAssumption
  <2>8. sleep.wanted * Frequency < a * Nanos
    BY <2>3 DEF a
  <2>9. b * Nanos > sleep.wanted * Frequency
    BY <2>6, <2>7, <2>8
  <2> QED BY <2>9 DEF b
<1> QED BY <1>1, <1>2, <1>3, TicksInvariant, PTL DEF PosixSpec, SleepNotCutShort

-----------------------------------------------------------------------------
(***************************************************************************)
(* errno.                                                                  *)
(***************************************************************************)
CallRecords == [stage : {"idle", "returned", "failed"}, result : Int, x0 : Int,
                disturbed : BOOLEAN]

\* A negative x0 in an undisturbed call is that call's result.
Honest(c) == ~c.disturbed /\ c.stage = "returned" /\ c.x0 < 0 => c.x0 = c.result

\* So it is also in the registers a sleeper goes back to.
CallInv ==
    /\ running \in 0 .. 2
    /\ call \in [Tasks -> CallRecords] /\ context \in [Tasks -> CallRecords]
    /\ \A t \in Tasks :
         /\ Honest(call[t]) /\ Honest(context[t])
         /\ ~call[t].disturbed /\ call[t].stage = "failed" => g_lettuce_errno = -call[t].result

LEMMA OtherTask ==
    ASSUME NEW t \in Tasks
    PROVE  Other(t) \in Tasks /\ Other(t) # t /\ \A u \in Tasks : u = t \/ u = Other(t)
  BY DEF Tasks, Other

LEMMA ResultsAreIntegers == running \in 0 .. 2 => Results \subseteq Int
  BY PosixAssumption
     DEF Results, lettuce_kernel_sys_write, lettuce_kernel_sys_read, lettuce_kernel_sys_getpid,
         lettuce_kernel_sys_clock_gettime, console_write_op, console_read_op,
         EBADF, EFAULT, EINVAL, ENOSYS

LEMMA IdleIsRecord == Idle \in CallRecords /\ Honest(Idle) /\ Idle.stage = "idle"
  BY DEF Idle, CallRecords, Honest

LEMMA ReturnedIsRecord ==
    ASSUME NEW result \in Int
    PROVE  /\ Returned(result) \in CallRecords /\ Returned(result).stage = "returned"
           /\ Returned(result).x0 = Returned(result).result
  BY Zenon DEF Returned, Idle, CallRecords

\* The two fields a switch writes in the record of the task it switches to.
LEMMA SwitchedToIsRecord ==
    ASSUME NEW c \in CallRecords, NEW lost \in BOOLEAN
    PROVE  [c EXCEPT !.x0 = 0, !.disturbed = lost] \in CallRecords
<1> DEFINE d == [c EXCEPT !.x0 = 0]
<1>1. d \in CallRecords
  BY DEF CallRecords
<1> HIDE DEF d
<1>2. [d EXCEPT !.disturbed = lost] \in CallRecords
  BY <1>1 DEF CallRecords
<1> QED BY <1>2, Zenon DEF d

\* A sleeper that was saved between the two is set back as disturbed.
LEMMA SetBackIsRecord ==
    ASSUME NEW c \in CallRecords, Honest(c)
    PROVE  /\ SetBack(c) \in CallRecords /\ Honest(SetBack(c))
           /\ SetBack(c).stage = "failed" => SetBack(c).disturbed
<1> DEFINE again == c.disturbed \/ c.stage = "failed"
           d == [c EXCEPT !.disturbed = again]
<1>1. SetBack(c) = d
  BY Zenon DEF SetBack
<1>2. again \in BOOLEAN /\ (~again => ~c.disturbed) /\ (c.stage = "failed" => again)
  BY Zenon
<1> HIDE DEF again
<1>3. /\ d \in CallRecords /\ d.disturbed = again
      /\ d.stage = c.stage /\ d.x0 = c.x0 /\ d.result = c.result
  BY <1>2 DEF CallRecords
<1> HIDE DEF d
<1> QED BY <1>1, <1>2, <1>3, Zenon DEF Honest

\* A service that returns to its caller starts a call with its own result.
LEMMA CallReturns ==
    ASSUME CallInv, NEW t \in Tasks, NEW result \in Int,
           call' = [call EXCEPT ![t] = Returned(result)],
           g_lettuce_errno' = g_lettuce_errno, running' = running, context' = context
    PROVE  CallInv'
<1>1. Honest(Returned(result)) /\ Returned(result).stage = "returned"
  BY ReturnedIsRecord DEF Honest
<1> QED BY <1>1, ReturnedIsRecord DEF CallInv

LEMMA CallStep ==
    ASSUME CallInv, PosixNext
    PROVE  CallInv'
<1>1. CASE \/ Count /\ UNCHANGED posixVars
           \/ SetTimer \/ lettuce_fd_table_init \/ Enter
           \/ \E i \in Installs : lettuce_fd_install(i[1], i[2], i[3])
  <2>1. UNCHANGED <<call, context, g_lettuce_errno>> /\ running' \in {running, 1}
    BY <1>1, Zenon DEF posixVars, SetTimer, lettuce_fd_table_init, Enter, lettuce_fd_install
  <2> QED BY <2>1 DEF CallInv
<1>8. CASE Interrupt
  <2>1. call' = call /\ g_lettuce_errno' = g_lettuce_errno
    BY <1>8 DEF Interrupt
  <2>2. CASE UNCHANGED <<running, context>>
    BY <2>1, <2>2 DEF CallInv
  <2>3. CASE /\ running # 0
             /\ context' = [context EXCEPT ![running] = call[running]]
             /\ running' \in {running, Other(running)}
    <3>1. running \in Tasks /\ running' \in 0 .. 2
      BY <2>3 DEF CallInv, Other, Tasks
    <3> QED BY <2>1, <2>3, <3>1 DEF CallInv
  <2> QED BY <1>8, <2>2, <2>3 DEF Interrupt
<1>2. ASSUME NEW t \in Tasks, Syscall(t) PROVE CallInv'
  BY <1>2, CallReturns, ResultsAreIntegers, Zenon DEF Syscall, CallInv
<1>3. ASSUME NEW t \in Tasks, Close(t) PROVE CallInv'
  <2>1. PICK fd \in Fds : call' = [call EXCEPT ![t] = Returned(lettuce_kernel_sys_close(fd))]
    BY <1>3, Zenon DEF Close
  <2>2. lettuce_kernel_sys_close(fd) \in Int
    BY DEF lettuce_kernel_sys_close, EBADF
  <2> QED BY <1>3, <2>1, <2>2, CallReturns, Zenon DEF Close
<1>4. ASSUME NEW t \in Tasks, NanosleepFails(t) PROVE CallInv'
  <2>1. PICK req \in Addresses, time \in Sleeps :
          call' = [call EXCEPT ![t] = Returned(NanosleepError(req, time[2]))]
    BY <1>4, Zenon DEF NanosleepFails
  <2>2. NanosleepError(req, time[2]) \in Int
    BY DEF NanosleepError, EFAULT, EINVAL
  <2> QED BY <1>4, <2>1, <2>2, CallReturns, Zenon DEF NanosleepFails
<1>5. ASSUME NEW t \in Tasks, Nanosleep(t) PROVE CallInv'
  <2> DEFINE lost == call[Other(t)].disturbed \/ call[Other(t)].stage # "idle"
             mine == SetBack(context[t])
             others == [call[Other(t)] EXCEPT !.x0 = 0, !.disturbed = lost]
  <2>0. /\ call' = [call EXCEPT ![t] = mine, ![Other(t)].x0 = 0, ![Other(t)].disturbed = lost]
        /\ UNCHANGED <<g_lettuce_errno, context>> /\ running' = Other(t)
    BY <1>5, Zenon DEF Nanosleep
  <2>l. lost \in BOOLEAN /\ (~lost => call[Other(t)].stage = "idle")
    BY Zenon
  <2>2. mine \in CallRecords /\ Honest(mine) /\ (mine.stage = "failed" => mine.disturbed)
    BY SetBackIsRecord DEF CallInv
  <2> HIDE DEF lost, mine
  <2>o. others \in CallRecords
    BY <2>l, OtherTask, SwitchedToIsRecord, Zenon DEF CallInv
  <2>p. call' = [call EXCEPT ![t] = mine, ![Other(t)] = others]
    BY <2>0, OtherTask, Zenon DEF CallInv
  <2>1. /\ call' \in [Tasks -> CallRecords]
        /\ call'[t] = mine /\ call'[Other(t)] = others
    BY <2>p, <2>o, <2>2, OtherTask, Zenon DEF CallInv
  <2>3. others.stage = call[Other(t)].stage /\ others.disturbed = lost
    BY OtherTask DEF CallInv, CallRecords
  <2>4. running' \in 0 .. 2
    BY <2>0 DEF Other, Tasks
  <2> HIDE DEF others
  <2>5. Honest(others) /\ (others.stage = "failed" => others.disturbed)
    BY <2>l, <2>3, Zenon DEF Honest
  <2> QED BY <2>0, <2>1, <2>2, <2>4, <2>5, OtherTask, Zenon DEF CallInv
<1>6. ASSUME NEW t \in Tasks, Wrapper(t) PROVE CallInv'
  <2>1. CASE call[t].x0 < 0
    <3> DEFINE lost == call[Other(t)].disturbed \/ call[Other(t)].stage = "failed"
               mine == [call[t] EXCEPT !.stage = "failed"]
               others == [call[Other(t)] EXCEPT !.disturbed = lost]
    <3>0. /\ call' = [call EXCEPT ![t].stage = "failed", ![Other(t)].disturbed = lost]
          /\ g_lettuce_errno' = -call[t].x0 /\ UNCHANGED <<running, context>>
      BY <1>6, <2>1, Zenon DEF Wrapper
    <3>l. lost \in BOOLEAN
      BY Zenon
    <3>m. ~lost => ~call[Other(t)].disturbed /\ call[Other(t)].stage # "failed"
      BY Zenon
    <3> HIDE DEF lost
    <3>o. others \in CallRecords
      BY <3>l, OtherTask DEF CallInv, CallRecords
    <3>i. mine \in CallRecords
      BY DEF CallInv, CallRecords
    <3>p. call' = [call EXCEPT ![t] = mine, ![Other(t)] = others]
      BY <3>0, OtherTask, Zenon DEF CallInv
    <3>1. /\ call' \in [Tasks -> CallRecords]
          /\ call'[t] = mine /\ call'[Other(t)] = others
      BY <3>p, <3>o, <3>i, OtherTask DEF CallInv
    <3>2. mine.stage = "failed" /\ mine.result = call[t].result /\ mine.disturbed = call[t].disturbed
      BY DEF CallInv, CallRecords
    <3>3. /\ others.stage = call[Other(t)].stage /\ others.x0 = call[Other(t)].x0
          /\ others.result = call[Other(t)].result /\ others.disturbed = lost
      BY OtherTask DEF CallInv, CallRecords
    <3>4. call[t].stage = "returned"
      BY <1>6 DEF Wrapper
    <3> HIDE DEF mine, others
    <3>5. ~mine.disturbed => g_lettuce_errno' = -mine.result
      BY <2>1, <3>0, <3>2, <3>4 DEF CallInv, Honest
    <3>6. Honest(mine)
      BY <3>2 DEF Honest
    <3>7. Honest(others) /\ (others.stage = "failed" => others.disturbed)
      <4>1. Honest(call[Other(t)])
        BY OtherTask DEF CallInv
      <4> QED BY <4>1, <3>l, <3>m, <3>3, Zenon DEF Honest
    <3> QED BY <3>0, <3>1, <3>2, <3>5, <3>6, <3>7, OtherTask, Zenon DEF CallInv
  <2>2. CASE ~(call[t].x0 < 0)
    <3>1. call' = [call EXCEPT ![t] = Idle] /\ UNCHANGED <<g_lettuce_errno, running, context>>
      BY <1>6, <2>2 DEF Wrapper
    <3> QED BY <3>1, IdleIsRecord DEF CallInv
  <2> QED BY <2>1, <2>2
<1>7. ASSUME NEW t \in Tasks, ReadErrno(t) PROVE CallInv'
  BY <1>7, IdleIsRecord DEF ReadErrno, CallInv
<1> QED
  BY <1>1, <1>2, <1>3, <1>4, <1>5, <1>6, <1>7, <1>8 DEF PosixNext

\* The wrappers of posix.c and the errno() of posix.rs: a failure is reported by
\* its own name, but for the three ways in which errno or x0 is changed under it.
THEOREM FailuresAreReported == PosixSpec => []FailureReported
<1>1. PosixInit => CallInv
  BY IdleIsRecord DEF PosixInit, CallInv
<1>2. CallInv /\ [PosixNext]_<<clockVars, posixVars>> => CallInv'
  <2>1. CallInv /\ UNCHANGED posixVars => CallInv'
    BY DEF CallInv, posixVars
  <2> QED BY <2>1, CallStep
<1>3. CallInv => FailureReported
  BY DEF CallInv, FailureReported, Failed
<1> QED BY <1>1, <1>2, <1>3, PTL DEF PosixSpec
=============================================================================
