-------------------------------- MODULE Boot --------------------------------
(***************************************************************************)
(* Who calls the scheduler in the running system.  kernel_main (task 0)    *)
(* creates the init task, gives it the processor once, and calls boot_fail *)
(* should it ever get the processor back.  The init task becomes the shell *)
(* (init_process, exec), whose programs issue the system calls.            *)
(***************************************************************************)
EXTENDS Tasks

VARIABLE kernel_pc   \* where kernel_main stands

bvars == <<vars, kernel_pc>>

BInit == Init /\ kernel_pc = "create"

\* task_create(init_process, "init")
CreateInit ==
    /\ kernel_pc = "create"
    /\ task_create
    /\ kernel_pc' = "schedule"

\* task_schedule()
StartInit ==
    /\ kernel_pc = "schedule"
    /\ task_yield
    /\ kernel_pc' = "returned"

\* boot_fail(): interrupts off, hlt for ever.
boot_fail ==
    /\ kernel_pc = "returned"
    /\ current = 0
    /\ control = "ok"
    /\ control' = "hung"
    /\ kernel_pc' = "failed"
    /\ UNCHANGED <<next_pid, next, state, wakeup_tick, current, eip, ticks,
                   left, skipped>>

\* The system calls of the programs in the init task.
Syscall ==
    /\ current = 1
    /\ \/ task_yield
       \/ task_exit
       \/ \E ms \in SleepArgs : task_sleep(ms)
       \/ \E pid \in Pid : task_kill(pid)
    /\ UNCHANGED kernel_pc

Tick100Hz == timer_callback /\ UNCHANGED kernel_pc

BNext == CreateInit \/ StartInit \/ boot_fail \/ Syscall \/ Tick100Hz

\* The processor executes kernel_main until it halts and the timer keeps
\* interrupting; nothing is assumed about when programs make system calls.
BSpec ==
    /\ BInit /\ [][BNext]_bvars
    /\ WF_bvars(CreateInit) /\ WF_bvars(StartInit)
    /\ WF_bvars(boot_fail) /\ WF_bvars(Tick100Hz)

\* README: sleep is to "Sleep for specified milliseconds", so a program that
\* goes to sleep gets the processor back.
SleepReturns ==
    state[1] = "SLEEPING" ~> current = 1 /\ state[1] = "RUNNING" /\ control = "ok"
=============================================================================
