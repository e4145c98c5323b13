------------------------------- MODULE Tasks --------------------------------
(***************************************************************************)
(* Tasks and the cooperative scheduler: src/kernel/task.c,                 *)
(* src/kernel/scheduler.c, context_switch.asm and the tick counter of      *)
(* src/drivers/timer.c.                                                    *)
(*                                                                         *)
(* A task leaves the processor only by calling task_schedule, directly     *)
(* (SYS_YIELD) or from task_sleep and task_exit.  The calls come from      *)
(* system calls, which run with interrupts disabled, so each is one step   *)
(* and only the timer interrupt interleaves with them.  Any task may call  *)
(* any operation here; module Boot adds who really does.                   *)
(***************************************************************************)
EXTENDS Integers, FiniteSets

CONSTANTS
    MaxTasks,   \* bound: tasks created besides the kernel task
    TICK_MOD,   \* the tick counter is a uint32_t: 2^32 in the code
    MaxTicks,   \* bound: value at which the timer stops (TICK_MOD: never)
    SleepArgs   \* arguments of task_sleep

ASSUME TaskAssumption ==
    /\ MaxTasks \in Nat
    /\ TICK_MOD \in Nat \ {0}
    /\ MaxTicks \in 0 .. TICK_MOD
    /\ SleepArgs \subseteq 0 .. TICK_MOD - 1

Pid == 0 .. MaxTasks
Tick == 0 .. TICK_MOD - 1
TaskState == {"RUNNING", "SLEEPING", "ZOMBIE"}

VARIABLES
    next_pid,   \* pids 0 .. next_pid - 1 have been handed out
    next,       \* the ring: successor of every task
    state,
    wakeup_tick,
    current,
    eip,        \* saved program counter: the entry point, or a stale register
    ticks,
    control,    \* "ok", "hung" inside task_schedule, or "lost" after a wild jump
    left,       \* history: ticks that sleep still has to last
    skipped     \* history: task_schedule calls a ready task has been passed by

vars == <<next_pid, next, state, wakeup_tick, current, eip, ticks, control,
          left, skipped>>

\* The tasks that exist; a zombie is never unlinked.
Task == 0 .. next_pid - 1

\* The task_list pointer never moves from the kernel task.
task_list == 0

\* task_init; a pid not handed out yet holds the zeroed task_t of task_create.
Init ==
    /\ next_pid = 1
    /\ next = [p \in Pid |-> 0]
    /\ state = [p \in Pid |-> "RUNNING"]
    /\ wakeup_tick = [p \in Pid |-> 0]
    /\ current = 0
    /\ eip = [p \in Pid |-> "entry"]
    /\ ticks = 0
    /\ control = "ok"
    /\ left = [p \in Pid |-> 0]
    /\ skipped = [p \in Pid |-> 0]

-----------------------------------------------------------------------------

\* timer_callback.
timer_callback ==
    /\ control = "ok"
    /\ ticks < MaxTicks
    /\ ticks' = (ticks + 1) % TICK_MOD
    /\ left' = [p \in Pid |-> IF left[p] > 0 THEN left[p] - 1 ELSE 0]
    /\ UNCHANGED <<next_pid, next, state, wakeup_tick, current, eip, control,
                   skipped>>

\* The task_t a new task starts with: runnable, at its entry point.
FreshTask(p) ==
    /\ state' = [state EXCEPT ![p] = "RUNNING"]
    /\ wakeup_tick' = [wakeup_tick EXCEPT ![p] = 0]
    /\ eip' = [eip EXCEPT ![p] = "entry"]
    /\ left' = [left EXCEPT ![p] = 0]

\* Mutant of Link: the rest of the list is dropped.
LinkLostTail(p) == [next EXCEPT ![task_list] = p, ![p] = task_list]

\* A new task goes right behind the kernel task.
Link(p) == [next EXCEPT ![task_list] = p, ![p] = next[task_list]]

task_create ==
    /\ control = "ok"
    /\ next_pid <= MaxTasks
    /\ next' = Link(next_pid)
    /\ next_pid' = next_pid + 1
    /\ FreshTask(next_pid)
    /\ UNCHANGED <<current, ticks, control, skipped>>

-----------------------------------------------------------------------------
(***************************************************************************)
(* task_schedule.  The parameters st and wk are the states and wake-up     *)
(* times as the caller has left them.                                      *)
(***************************************************************************)

\* Mutant of IsWalk: the search starts at the head of the list every time.
IsWalkFromHead(w) ==
    /\ w[1] = next[task_list]
    /\ \A k \in 1 .. next_pid - 1 : w[k + 1] = next[w[k]]

\* w lists the tasks in the order the loop meets them: one lap of the ring
\* that ends at the caller.
IsWalk(w) ==
    /\ w[1] = next[current]
    /\ \A k \in 1 .. next_pid - 1 : w[k + 1] = next[w[k]]

\* Mutant of Due: the state is not compared with TASK_SLEEPING.
DueAnyState(st, wk, p) == st[p] # "RUNNING" /\ ticks >= wk[p]

\* Mutant of Due: the comparison is off by one tick.
DueOneTickEarly(st, wk, p) == st[p] = "SLEEPING" /\ ticks + 1 >= wk[p]

\* Mutant of Due: the comparison is strict.
DueStrict(st, wk, p) == st[p] = "SLEEPING" /\ ticks > wk[p]

\* The loop wakes this sleeper when it meets it.
Due(st, wk, p) == st[p] = "SLEEPING" /\ ticks >= wk[p]

Ready(st, wk, p) == st[p] = "RUNNING" \/ Due(st, wk, p)

\* The sleepers among the tasks met are made runnable (and passed over).
Woken(st, wk, met) ==
    [p \in Pid |-> IF p \in met /\ Due(st, wk, p) THEN "RUNNING" ELSE st[p]]

\* A register nobody wrote: context_switch stores ecx as the resume address,
\* and no caller puts the return address there.  Resuming such a task lands
\* wherever the register happened to point.
Resume(t) == IF eip[t] = "entry" THEN {"ok"} ELSE {"ok", "lost"}

\* task_set_current and context_switch, or the early return of task_schedule.
Switch(t) ==
    \/ /\ t = current
       /\ UNCHANGED <<current, eip, control>>
    \/ /\ t # current
       /\ current' = t
       /\ eip' = [eip EXCEPT ![current] = "stale"]
       /\ control' \in Resume(t)

\* Bookkeeping for the bypass bound: t was chosen, the other ready tasks that
\* were waiting have been passed by once more.
PassedBy(st, wk, t) ==
    skipped' = [p \in Pid |->
        IF p \in Task \ {t, current} /\ Ready(st, wk, p)
        THEN skipped[p] + 1 ELSE 0]

\* The first runnable task of the lap gets the processor.
FirstLap(st, wk, w) ==
    \E k \in 1 .. next_pid :
        /\ st[w[k]] = "RUNNING"
        /\ \A j \in 1 .. k - 1 : st[w[j]] # "RUNNING"
        /\ state' = Woken(st, wk, {w[j] : j \in 1 .. k - 1})
        /\ Switch(w[k])
        /\ PassedBy(st, wk, w[k])

\* No task is runnable, but the lap has woken some: the second lap stops at
\* the first of them.
SecondLap(st, wk, w) ==
    /\ \A k \in 1 .. next_pid : st[w[k]] # "RUNNING"
    /\ \E k \in 1 .. next_pid :
        /\ Due(st, wk, w[k])
        /\ \A j \in 1 .. k - 1 : ~ Due(st, wk, w[j])
        /\ state' = Woken(st, wk, {w[j] : j \in 1 .. next_pid})
        /\ Switch(w[k])
        /\ PassedBy(st, wk, w[k])

\* Nobody is runnable or due, and now is read only once: the loop never ends.
EndlessLap(st, wk, w) ==
    /\ \A k \in 1 .. next_pid : ~ Ready(st, wk, w[k])
    /\ control' = "hung"
    /\ state' = st
    /\ UNCHANGED <<current, eip, skipped>>

task_schedule(st, wk) ==
    \E w \in [1 .. next_pid -> Task] :
        /\ IsWalk(w)
        /\ FirstLap(st, wk, w) \/ SecondLap(st, wk, w) \/ EndlessLap(st, wk, w)

-----------------------------------------------------------------------------

\* SYS_YIELD.
task_yield ==
    /\ control = "ok"
    /\ task_schedule(state, wakeup_tick)
    /\ UNCHANGED <<next_pid, next, wakeup_tick, ticks, left>>

\* task_exit, also the address a task's entry point returns to.
task_exit ==
    /\ control = "ok"
    /\ task_schedule([state EXCEPT ![current] = "ZOMBIE"], wakeup_tick)
    /\ UNCHANGED <<next_pid, next, wakeup_tick, ticks, left>>

\* task_sleep adds its argument to the tick counter.
task_sleep(ms) ==
    /\ control = "ok"
    /\ wakeup_tick' = [wakeup_tick EXCEPT ![current] = (ticks + ms) % TICK_MOD]
    /\ left' = [left EXCEPT ![current] = ms]
    /\ task_schedule([state EXCEPT ![current] = "SLEEPING"], wakeup_tick')
    /\ UNCHANGED <<next_pid, next, ticks>>

\* Mutant of task_kill: the current task is marked like any other.
task_killNoExit(pid) ==
    /\ control = "ok"
    /\ pid \in Task
    /\ state' = [state EXCEPT ![pid] = "ZOMBIE"]
    /\ UNCHANGED <<next_pid, next, wakeup_tick, current, eip, ticks, control,
                   left, skipped>>

\* task_kill: a task that kills itself exits, another one becomes a zombie
\* whatever its state was; an unknown pid changes nothing.
task_kill(pid) ==
    /\ control = "ok"
    /\ pid \in Task
    /\ \/ /\ pid = current
          /\ task_exit
       \/ /\ pid # current
          /\ state' = [state EXCEPT ![pid] = "ZOMBIE"]
          /\ UNCHANGED <<next_pid, next, wakeup_tick, current, eip, ticks,
                         control, left, skipped>>

Next ==
    \/ timer_callback
    \/ task_create
    \/ task_yield
    \/ task_exit
    \/ \E ms \in SleepArgs : task_sleep(ms)
    \/ \E pid \in Pid : task_kill(pid)

Spec == Init /\ [][Next]_vars

-----------------------------------------------------------------------------

\* Types.
TypeOK ==
    /\ next_pid \in 1 .. MaxTasks + 1
    /\ next \in [Pid -> Task]
    /\ state \in [Pid -> TaskState]
    /\ wakeup_tick \in [Pid -> Tick]
    /\ current \in Task
    /\ eip \in [Pid -> {"entry", "stale"}]
    /\ ticks \in Tick
    /\ control \in {"ok", "hung", "lost"}
    /\ left \in [Pid -> Tick]
    /\ skipped \in [Pid -> Nat]

\* The circular list the scheduler, SYS_PS and task_kill walk is never broken:
\* it holds every task ever created, newest first behind the kernel task, so
\* each of these loops comes back to where it started.
RingOrder ==
    /\ next[task_list] = next_pid - 1
    /\ \A p \in Task \ {task_list} : next[p] = p - 1

\* The processor is only ever given to a runnable task: after exits, kills and
\* sleeps in any order the current task is neither a zombie nor asleep.
CurrentIsRunnable == control # "hung" => state[current] = "RUNNING"

\* A zombie stays one: no wake-up, late timer or second kill brings a task
\* that exited or was killed back to the processor.
ZombieForever ==
    [][\A p \in Task : state[p] = "ZOMBIE" => state'[p] = "ZOMBIE"]_vars

\* A sleeper is runnable again only when as many ticks as it asked for have
\* passed (the tick counter not wrapping).
NotWokenEarly ==
    \A p \in Task : state[p] = "RUNNING" => left[p] = 0

\* Round robin: a task that is runnable, or whose sleep is over, is passed by
\* at most two laps of task_schedule calls, even while tasks are created,
\* killed and put to sleep around it.
BoundedBypass == \A p \in Task : skipped[p] <= 2 * (next_pid - 1)

\* task_schedule hangs only when no task could run: nobody is runnable and
\* every sleeper still has ticks to wait.
HangOnlyWhenAllBlocked ==
    control = "hung" =>
        \A p \in Task : state[p] = "ZOMBIE" \/ (state[p] = "SLEEPING" /\ left[p] > 0)
=============================================================================
