------------------------------- MODULE Clock --------------------------------
(***************************************************************************)
(* Time on the ARM64 machine: the free-running counter, the generic timer  *)
(* that interrupts every interval (kernel/arch/arm64/timer.c) and the two  *)
(* system calls that speak of time, clock_gettime and nanosleep            *)
(* (runtime/posix/src/sys.c).  One task sleeps at a time.                  *)
(***************************************************************************)
EXTENDS Naturals

CONSTANTS Frequency,   \* cntfrq_el0, counts per second
          Word,        \* 2^64, the modulus of a uint64_t
          Nanos,       \* nanoseconds per second, scaled down
          DefaultHz,   \* 100 in the code
          Rates,       \* the rates timer_init is called with
          Sleeps,      \* what nanosleep is asked for, <<tv_sec as a uint64_t, tv_nsec>>
          MaxReading,  \* bound: how far ahead ClockExact looks
          MaxCounter   \* bound: the counter stops here

ASSUME ClockAssumption ==
    /\ Frequency \in Nat \ {0} /\ Nanos \in Nat \ {0}
    /\ DefaultHz \in 1 .. Frequency /\ Rates \subseteq 0 .. Frequency
    /\ Word \in Nat /\ Nanos * Frequency < Word    \* tv_nsec's product does not wrap
    /\ Sleeps \subseteq (0 .. Word - 1) \X Nat
    /\ MaxReading \in Nat /\ MaxCounter \in 0 .. Word - 1

VARIABLES
    counter,         \* cntvct_el0
    compare, ctl,    \* the timer fires when it is on and counter reaches compare
    g_timer_interval, g_timer_ticks, g_timer_enabled,
    sleep,           \* the sleeping task, if any
    base             \* history: the counter when the timer was initialised

timerVars == <<compare, ctl, g_timer_interval, g_timer_ticks, g_timer_enabled, base>>
clockVars == <<counter, timerVars, sleep>>

Awake == [deadline |-> 0, since |-> 0, began |-> 0, wanted |-> 0, asleep |-> FALSE]

ClockInit ==
    /\ counter = 0 /\ compare = 0 /\ ctl = FALSE
    /\ g_timer_interval = 0 /\ g_timer_ticks = 0 /\ g_timer_enabled = FALSE
    /\ sleep = Awake
    /\ base = 0

\* Hardware: the counter counts.
Count ==
    /\ counter < MaxCounter
    /\ counter' = counter + 1
    /\ UNCHANGED <<timerVars, sleep>>

lettuce_timer_init(hz) ==
    /\ g_timer_interval' = Frequency \div (IF hz = 0 THEN DefaultHz ELSE hz)
    /\ g_timer_ticks' = 0
    /\ g_timer_enabled' = TRUE
    /\ compare' = counter + g_timer_interval'
    /\ ctl' = TRUE
    /\ base' = counter
    /\ UNCHANGED <<counter, sleep>>

RearmNothing == UNCHANGED <<compare, ctl>>    \* mutant: the countdown is not renewed
lettuce_timer_rearm ==
    IF g_timer_enabled /\ g_timer_interval > 0
    THEN compare' = counter + g_timer_interval /\ ctl' = TRUE
    ELSE UNCHANGED <<compare, ctl>>

lettuce_timer_disable ==
    /\ g_timer_enabled' = FALSE
    /\ ctl' = FALSE
    /\ UNCHANGED <<counter, compare, g_timer_interval, g_timer_ticks, base, sleep>>

\* The interrupt, taken at once or late, and the wake-up in do_schedule.
lettuce_timer_irq_handler ==
    /\ ctl /\ counter >= compare
    /\ g_timer_ticks' = g_timer_ticks + 1
    /\ lettuce_timer_rearm
    /\ sleep' = IF sleep.asleep /\ g_timer_ticks' >= sleep.deadline THEN Awake ELSE sleep
    /\ UNCHANGED <<counter, g_timer_interval, g_timer_enabled, base>>

\* mutant: nanoseconds of the whole count, not of the second begun
TimespecUnreduced(ticks) ==
    [tv_sec |-> ticks \div Frequency, tv_nsec |-> (ticks * Nanos) \div Frequency]
Timespec(ticks) ==
    [tv_sec |-> ticks \div Frequency,
     tv_nsec |-> ((ticks % Frequency) * Nanos) \div Frequency]

\* delta_ticks is in counts of the counter.
delta_ticks_fraction(tv_sec, tv_nsec) ==    \* mutant: the seconds are forgotten
    (tv_nsec * Frequency) \div Nanos
delta_ticks(tv_sec, tv_nsec) ==
    (tv_sec * Frequency + (tv_nsec * Frequency) \div Nanos) % Word

\* A tv_nsec out of range is refused; else lettuce_scheduler_sleep_current, whose
\* do_schedule wakes the caller at once when the deadline is not ahead.
lettuce_kernel_sys_nanosleep(tv_sec, tv_nsec) ==
    /\ tv_nsec < Nanos
    /\ ~sleep.asleep
    /\ LET deadline == (g_timer_ticks + delta_ticks(tv_sec, tv_nsec)) % Word
       IN sleep' = IF g_timer_ticks >= deadline THEN Awake
                   ELSE [deadline |-> deadline, since |-> g_timer_ticks, began |-> counter,
                         wanted |-> tv_sec * Nanos + tv_nsec, asleep |-> TRUE]
    /\ UNCHANGED <<counter, timerVars>>

ClockNext ==
    \/ Count
    \/ \E hz \in Rates : lettuce_timer_init(hz)
    \/ lettuce_timer_disable
    \/ lettuce_timer_irq_handler
    \/ \E req \in Sleeps : lettuce_kernel_sys_nanosleep(req[1], req[2])

ClockSpec == ClockInit /\ [][ClockNext]_clockVars

-----------------------------------------------------------------------------
Reading(t) == t.tv_sec * Nanos + t.tv_nsec

\* Now and for a while to come, what clock_gettime stores is a well-formed time,
\* the time of the counter to the nanosecond and never ahead of it: so no later
\* reading is an earlier time, seconds compared before nanoseconds.
ClockExact ==
    \A ticks \in counter .. counter + MaxReading :
      LET t == Timespec(ticks)
      IN /\ t.tv_nsec < Nanos
         /\ Reading(t) * Frequency <= ticks * Nanos
         /\ ticks * Nanos < (Reading(t) + 1) * Frequency

\* However late interrupts are taken, the tick count never runs ahead of time:
\* every tick counted since timer_init stands for a whole interval.
TicksNeverFast ==
    g_timer_ticks * g_timer_interval <= counter - base

\* The deadline of a sleeper is within a uint64_t.
Fits(s) == s.wanted * Frequency < (Word - s.since) * Nanos

\* A sleeper is woken at most a tick and a count before the time it asked for,
\* wherever in an interval it fell asleep and whatever the rate of the timer,
\* unless that time, or its deadline, is beyond a uint64_t.
SleepNotCutShort ==
    [][sleep.asleep /\ ~sleep'.asleep /\ Fits(sleep)
         => (counter - sleep.began + g_timer_interval + 1) * Nanos
              > sleep.wanted * Frequency]_clockVars

\* "wakeup tick", at a "10 ms period": a task that is still asleep has been
\* left asleep for no more than an interval beyond the time it asked for.
SleepEndsOnTime ==
    sleep.asleep /\ g_timer_ticks > sleep.since
      => (g_timer_ticks - sleep.since - 1) * g_timer_interval * Nanos
           <= sleep.wanted * Frequency
=============================================================================
