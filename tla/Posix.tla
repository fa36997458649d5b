------------------------------- MODULE Posix --------------------------------
(***************************************************************************)
(* The POSIX-lite interface: the descriptor table (runtime/posix/src/fd.c),*)
(* the services behind SVC #5 (sys.c, and the dispatcher in                *)
(* kernel/arch/arm64/cpu.c), and the wrappers with their one errno         *)
(* (posix.c) that runtime/rust/src/posix.rs reads after a call.            *)
(*                                                                         *)
(* Two tasks call at EL0 under round robin.  The timer interrupt may come  *)
(* between any two instructions of a wrapper, whose steps are: the SVC,    *)
(* the store to errno, the caller's look at errno.  A memory address is    *)
(* "NULL", "user" or "kernel", an I/O transfer is its length.              *)
(***************************************************************************)
EXTENDS Clock, Integers

CONSTANTS MaxFds,      \* LETTUCE_MAX_FDS, 16 in the code
          Counts,      \* the lengths read and write are called with
          Installs     \* what the kernel installs, <<fd, type, ops>>

ASSUME PosixAssumption ==
    /\ MaxFds \in Nat /\ MaxFds > 2
    /\ Counts \subseteq Nat
    /\ \A i \in Installs : i[1] \in Int /\ i[1] > 2   \* no caller replaces a stream

VARIABLES
    g_fd_table,      \* fd -> [type, ops], ops the operations it has, {} for NULL
    running,         \* the task on the CPU, 0 before lettuce_el0_enter
    call,            \* task -> the POSIX call it is in
    context,         \* task -> call as its saved registers have it
    g_lettuce_errno

posixVars == <<g_fd_table, running, call, context, g_lettuce_errno>>

EBADF == 9
EFAULT == 14
EINVAL == 22
ENOSYS == 38

Tasks == {1, 2}
Other(t) == 3 - t
Addresses == {"NULL", "user", "kernel"}
Fds == -1 .. MaxFds        \* one below, one beyond the table

\* result is what the service returned, x0 what the wrapper will find; a call is
\* disturbed (history) when x0 or errno was changed under it.
Idle == [stage |-> "idle", result |-> 0, x0 |-> 0, disturbed |-> FALSE]
Returned(result) == [Idle EXCEPT !.stage = "returned", !.result = result, !.x0 = result]

g_console_in_ops == {"read", "close"}
g_console_out_ops == {"write", "close"}
Unused == [type |-> "UNUSED", ops |-> {}]

PosixInit ==
    /\ ClockInit
    /\ g_fd_table = [fd \in 0 .. MaxFds - 1 |-> Unused]
    /\ running = 0
    /\ call = [t \in Tasks |-> Idle] /\ context = call
    /\ g_lettuce_errno = 0

-----------------------------------------------------------------------------
(***************************************************************************)
(* fd.c                                                                    *)
(***************************************************************************)
lettuce_fd_table_init ==
    /\ running = 0
    /\ g_fd_table' = [fd \in 0 .. MaxFds - 1 |->
                        IF fd = 0 THEN [type |-> "CONSOLE_IN", ops |-> g_console_in_ops]
                        ELSE IF fd = 1 THEN [type |-> "CONSOLE_OUT", ops |-> g_console_out_ops]
                        ELSE IF fd = 2 THEN [type |-> "CONSOLE_ERR", ops |-> g_console_out_ops]
                        ELSE Unused]
    /\ UNCHANGED <<clockVars, running, call, context, g_lettuce_errno>>

\* lettuce_fd_get, and the callers' checks of desc->ops and its member.
Supports(fd, op) ==
    /\ fd \in 0 .. MaxFds - 1
    /\ g_fd_table[fd].type # "UNUSED"
    /\ op \in g_fd_table[fd].ops

\* Out of range it changes nothing.
lettuce_fd_install(fd, type, ops) ==
    /\ running = 0
    /\ fd \in 0 .. MaxFds - 1
    /\ g_fd_table' = [g_fd_table EXCEPT ![fd] = [type |-> type, ops |-> ops]]
    /\ UNCHANGED <<clockVars, running, call, context, g_lettuce_errno>>

\* Every stream is a console's: input is at its end, output takes everything,
\* and "Standard streams remain open".
console_read_op(count) == 0
console_write_op(count) == count
console_close_op(fd) == UNCHANGED g_fd_table

-----------------------------------------------------------------------------
(***************************************************************************)
(* sys.c: the result of each service, a negative one being an error.       *)
(***************************************************************************)
lettuce_kernel_sys_write(fd, buf, count) ==
    IF count = 0 THEN 0
    ELSE IF buf # "user" THEN -EFAULT
    ELSE IF ~Supports(fd, "write") THEN -EBADF
    ELSE console_write_op(count)

lettuce_kernel_sys_read(fd, buf, count) ==
    IF count = 0 THEN 0
    ELSE IF buf # "user" THEN -EFAULT
    ELSE IF ~Supports(fd, "read") THEN -EBADF
    ELSE console_read_op(count)

lettuce_kernel_sys_close(fd) == IF Supports(fd, "close") THEN 0 ELSE -EBADF

lettuce_kernel_sys_clock_gettime(monotonic, tp) ==
    IF ~monotonic THEN -EINVAL
    ELSE IF tp # "user" THEN -EFAULT
    ELSE 0

\* The identifier of the current task, positive.
lettuce_kernel_sys_getpid == running

\* The error of nanosleep, 0 when it sleeps.
NanosleepError(req, tv_nsec) ==
    IF req = "NULL" THEN -EFAULT
    ELSE IF tv_nsec >= Nanos THEN -EINVAL
    ELSE IF req = "kernel" THEN -EFAULT
    ELSE 0

-----------------------------------------------------------------------------
(***************************************************************************)
(* The dispatcher, for the calls that return to their caller.              *)
(***************************************************************************)
Calling(t) == running = t /\ call[t].stage = "idle"

\* What write, read, getpid, clock_gettime and an unknown number may answer.
Results ==
    {lettuce_kernel_sys_write(fd, buf, count) : fd \in Fds, buf \in Addresses, count \in Counts}
    \cup {lettuce_kernel_sys_read(fd, buf, count) : fd \in Fds, buf \in Addresses, count \in Counts}
    \cup {lettuce_kernel_sys_getpid}
    \cup {lettuce_kernel_sys_clock_gettime(b, tp) : b \in BOOLEAN, tp \in Addresses}
    \cup {-ENOSYS}

Syscall(t) ==
    /\ Calling(t)
    /\ \E result \in Results : call' = [call EXCEPT ![t] = Returned(result)]
    /\ UNCHANGED <<clockVars, g_fd_table, running, context, g_lettuce_errno>>

CloseUnused(fd) ==      \* mutant: a close frees the descriptor
    g_fd_table' = [g_fd_table EXCEPT ![fd] = Unused]
CloseOp(fd) == console_close_op(fd)

Close(t) ==
    /\ Calling(t)
    /\ \E fd \in Fds :
         /\ call' = [call EXCEPT ![t] = Returned(lettuce_kernel_sys_close(fd))]
         /\ IF Supports(fd, "close") THEN CloseOp(fd) ELSE UNCHANGED g_fd_table
    /\ UNCHANGED <<clockVars, running, context, g_lettuce_errno>>

NanosleepFails(t) ==
    /\ Calling(t)
    /\ \E req \in Addresses, time \in Sleeps :
         /\ NanosleepError(req, time[2]) # 0
         /\ call' = [call EXCEPT ![t] = Returned(NanosleepError(req, time[2]))]
    /\ UNCHANGED <<clockVars, g_fd_table, running, context, g_lettuce_errno>>

\* do_schedule finds the caller SLEEPING and does not save it: it will go on from
\* its last saved registers, to look again at an errno that may be a later one.
SetBack(c) == [c EXCEPT !.disturbed = @ \/ c.stage = "failed"]

\* The frame becomes the other task's, whose x0 receives the result, 0.
Nanosleep(t) ==
    /\ Calling(t)
    /\ \E time \in Sleeps :
         /\ NanosleepError("user", time[2]) = 0
         /\ lettuce_kernel_sys_nanosleep(time[1], time[2])
    /\ running' = Other(t)
    /\ call' = [call EXCEPT ![t] = SetBack(context[t]),
                            ![Other(t)].x0 = 0,
                            ![Other(t)].disturbed = @ \/ call[Other(t)].stage # "idle"]
    /\ UNCHANGED <<g_fd_table, context, g_lettuce_errno>>

-----------------------------------------------------------------------------
(***************************************************************************)
(* posix.c: after the SVC, and the caller who then looks at errno.         *)
(***************************************************************************)
StoreAlways(t) ==      \* mutant: errno is also set by a call that succeeds
    /\ running = t /\ call[t].stage = "returned"
    /\ g_lettuce_errno' = -call[t].x0
    /\ call' = IF call[t].x0 >= 0 THEN [call EXCEPT ![t] = Idle]
               ELSE [call EXCEPT ![t].stage = "failed",
                                 ![Other(t)].disturbed = @ \/ call[Other(t)].stage = "failed"]
    /\ UNCHANGED <<clockVars, g_fd_table, running, context>>
Wrapper(t) ==
    /\ running = t /\ call[t].stage = "returned"
    /\ IF call[t].x0 < 0
       THEN /\ g_lettuce_errno' = -call[t].x0
            /\ call' = [call EXCEPT ![t].stage = "failed",
                                    ![Other(t)].disturbed = @ \/ call[Other(t)].stage = "failed"]
       ELSE /\ call' = [call EXCEPT ![t] = Idle]
            /\ UNCHANGED g_lettuce_errno
    /\ UNCHANGED <<clockVars, g_fd_table, running, context>>

ReadErrno(t) ==
    /\ running = t /\ call[t].stage = "failed"
    /\ call' = [call EXCEPT ![t] = Idle]
    /\ UNCHANGED <<clockVars, g_fd_table, running, context, g_lettuce_errno>>

-----------------------------------------------------------------------------
(***************************************************************************)
(* The kernel sets the timer up and enters the first task; then interrupts *)
(* pass the CPU on at the end of a slice, unless the other task is asleep. *)
(***************************************************************************)
SetTimer ==
    /\ running = 0
    /\ lettuce_timer_disable \/ \E hz \in Rates : lettuce_timer_init(hz)
    /\ UNCHANGED posixVars

Enter ==
    /\ running = 0 /\ ctl
    /\ g_fd_table[0].type # "UNUSED"
    /\ running' = 1
    /\ UNCHANGED <<clockVars, g_fd_table, call, context, g_lettuce_errno>>

\* When a slice has expired the task is saved, also if it then stays.
Interrupt ==
    /\ lettuce_timer_irq_handler
    /\ \/ UNCHANGED <<running, context>>
       \/ /\ running # 0
          /\ context' = [context EXCEPT ![running] = call[running]]
          /\ running' = IF sleep'.asleep THEN running ELSE Other(running)
    /\ UNCHANGED <<g_fd_table, call, g_lettuce_errno>>

PosixNext ==
    \/ Count /\ UNCHANGED posixVars
    \/ SetTimer
    \/ lettuce_fd_table_init
    \/ \E i \in Installs : lettuce_fd_install(i[1], i[2], i[3])
    \/ Enter
    \/ Interrupt
    \/ \E t \in Tasks :
         Syscall(t) \/ Close(t) \/ Nanosleep(t) \/ NanosleepFails(t) \/ Wrapper(t) \/ ReadErrno(t)

PosixSpec == PosixInit /\ [][PosixNext]_<<clockVars, posixVars>>

-----------------------------------------------------------------------------
\* "Standard streams remain open": once EL0 runs, whatever was installed and
\* closed, and by whichever task, output goes out on both streams, input is at
\* its end, and closing them again succeeds.
StreamsStayOpen ==
    running # 0 =>
      /\ \A fd \in {1, 2}, n \in Counts : lettuce_kernel_sys_write(fd, "user", n) = n
      /\ \A n \in Counts : lettuce_kernel_sys_read(0, "user", n) = 0
      /\ \A fd \in 0 .. 2 : lettuce_kernel_sys_close(fd) = 0

Failed(t) == call[t].stage = "failed"

\* The posix.rs wrappers return Err(errno()): a caller told of a failure finds
\* its own error in errno, however the two tasks interleave.
ErrnoIsOwn == \A t \in Tasks : Failed(t) => g_lettuce_errno = -call[t].result

\* It does unless, while it was off the CPU, the other task's own call failed,
\* nanosleep's result went to its frame, or its own sleep set it back; calls
\* that succeed do no harm.
FailureReported ==
    \A t \in Tasks :
      Failed(t) /\ ~call[t].disturbed => g_lettuce_errno = -call[t].result

\* The result of a call reaches the wrapper that made it.
ResultReturned ==
    \A t \in Tasks : call[t].stage = "returned" /\ call[t].result < 0 => call[t].x0 = call[t].result
=============================================================================
