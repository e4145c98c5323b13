----------------------------- MODULE TasksProofs -----------------------------
(***************************************************************************)
(* Proofs about module Tasks for every number of tasks, tick width and set *)
(* of sleep arguments.                                                     *)
(***************************************************************************)
EXTENDS Tasks, WellFoundedInduction, TLAPS

\* The inductive invariant: the ring keeps its order, and the processor is with
\* a runnable task unless the scheduler hangs.
IndInv == TypeOK /\ RingOrder /\ CurrentIsRunnable

\* The initial state of task_init satisfies the invariant.
LEMMA InitIndInv == Init => IndInv
BY TaskAssumption
   DEF Init, IndInv, TypeOK, RingOrder, CurrentIsRunnable, Pid, Tick, Task,
       TaskState, task_list

\* task_create keeps the ring whole and the processor where it is.
LEMMA CreateIndInv == IndInv /\ task_create => IndInv'
<1> SUFFICES ASSUME IndInv, task_create PROVE IndInv'
  OBVIOUS
<1>1. /\ next_pid \in 1 .. MaxTasks
      /\ next' = [next EXCEPT ![0] = next_pid, ![next_pid] = next[0]]
      /\ next_pid' = next_pid + 1
      /\ next \in [0 .. MaxTasks -> 0 .. next_pid - 1]
      /\ MaxTasks \in Nat
  BY TaskAssumption DEF task_create, Link, IndInv, TypeOK, Pid, Task, task_list
<1>2. TypeOK'
  <2>1. next' \in [Pid -> Task']
    BY ONLY SMTT(30), <1>1 DEF Pid, Task
  <2>2. next_pid' \in 1 .. MaxTasks + 1
    BY ONLY <1>1
  <2>3. next_pid \in Pid
    BY <1>1 DEF Pid
  <2>4. /\ state' \in [Pid -> TaskState]
        /\ eip' \in [Pid -> {"entry", "stale"}]
    BY <2>3 DEF IndInv, TypeOK, TaskState, task_create, FreshTask
  <2>5. /\ wakeup_tick' \in [Pid -> Tick]
        /\ left' \in [Pid -> Tick]
    BY <2>3, TaskAssumption DEF IndInv, TypeOK, Tick, task_create, FreshTask
  <2>6. current' \in Task'
    BY <1>1 DEF IndInv, TypeOK, Task, task_create
  <2>7. UNCHANGED <<ticks, control, skipped>>
    BY DEF task_create
  <2>8. QED
    BY <2>1, <2>2, <2>4, <2>5, <2>6, <2>7 DEF IndInv, TypeOK, Tick
<1>3. RingOrder'
  BY <1>1 DEF RingOrder, IndInv, Task, task_list
<1>4. CurrentIsRunnable'
  <2>1. current \in Pid /\ current # next_pid
    BY <1>1 DEF IndInv, TypeOK, Pid, Task
  <2>2. QED
    BY <2>1 DEF IndInv, TypeOK, CurrentIsRunnable, task_create, FreshTask
<1>5. QED
  BY <1>2, <1>3, <1>4 DEF IndInv

\* What marking the due sleepers does to the states.
LEMMA WokenStates ==
    ASSUME NEW st \in [Pid -> TaskState], NEW wk, NEW met
    PROVE  /\ Woken(st, wk, met) \in [Pid -> TaskState]
           /\ \A p \in Pid :
                 \/ Woken(st, wk, met)[p] = st[p]
                 \/ Due(st, wk, p) /\ Woken(st, wk, met)[p] = "RUNNING"
           /\ \A p \in Pid :
                 \/ st[p] = "RUNNING"
                 \/ p \in met /\ Due(st, wk, p)
                 => Woken(st, wk, met)[p] = "RUNNING"
<1>1. "RUNNING" \in TaskState
  BY DEF TaskState
<1>2. Woken(st, wk, met) \in [Pid -> TaskState]
  BY <1>1 DEF Woken
<1>3. ASSUME NEW p \in Pid
      PROVE  Woken(st, wk, met)[p] =
                IF p \in met /\ Due(st, wk, p) THEN "RUNNING" ELSE st[p]
  BY DEF Woken
<1>4. QED
  BY <1>2, <1>3

\* What giving the processor to t does.
LEMMA SwitchStep ==
    ASSUME TypeOK, NEW t, Switch(t)
    PROVE  /\ current' = t
           /\ eip' \in [Pid -> {"entry", "stale"}]
           /\ control' \in {control, "ok", "lost"}
BY DEF TypeOK, Switch, Resume

\* The bypass counters stay natural numbers.
LEMMA PassedByType ==
    ASSUME TypeOK, NEW st, NEW wk, NEW t, PassedBy(st, wk, t)
    PROVE  skipped' \in [Pid -> Nat]
BY DEF TypeOK, PassedBy

\* task_schedule ends with a runnable current task, or hangs; it wakes only
\* due sleepers and changes no other state its caller hands it.
LEMMA ScheduleStep ==
    ASSUME TypeOK, NEW st \in [Pid -> TaskState], NEW wk,
           task_schedule(st, wk)
    PROVE  /\ state' \in [Pid -> TaskState]
           /\ current' \in Task
           /\ eip' \in [Pid -> {"entry", "stale"}]
           /\ control' \in {control, "ok", "lost", "hung"}
           /\ skipped' \in [Pid -> Nat]
           /\ control' # "hung" => state'[current'] = "RUNNING"
           /\ \A p \in Pid : \/ state'[p] = st[p]
                             \/ Due(st, wk, p) /\ state'[p] = "RUNNING"
<1>1. PICK w \in [1 .. next_pid -> Task] :
         FirstLap(st, wk, w) \/ SecondLap(st, wk, w) \/ EndlessLap(st, wk, w)
  BY DEF task_schedule
<1>2. Task \subseteq Pid
  BY TaskAssumption DEF TypeOK, Task, Pid
<1>3. \A k \in 1 .. next_pid : w[k] \in Task
  OBVIOUS
<1>4. CASE FirstLap(st, wk, w)
  <2>1. PICK k \in 1 .. next_pid :
           /\ st[w[k]] = "RUNNING"
           /\ state' = Woken(st, wk, {w[j] : j \in 1 .. k - 1})
           /\ Switch(w[k])
           /\ PassedBy(st, wk, w[k])
    BY <1>4 DEF FirstLap
  <2>2. current' = w[k] /\ w[k] \in Task /\ w[k] \in Pid
    BY <2>1, <1>2, <1>3, SwitchStep
  <2>3. state'[w[k]] = "RUNNING"
    BY <2>1, <2>2, WokenStates
  <2>4. QED
    BY <2>1, <2>2, <2>3, WokenStates, SwitchStep, PassedByType
<1>5. CASE SecondLap(st, wk, w)
  <2>1. PICK k \in 1 .. next_pid :
           /\ Due(st, wk, w[k])
           /\ state' = Woken(st, wk, {w[j] : j \in 1 .. next_pid})
           /\ Switch(w[k])
           /\ PassedBy(st, wk, w[k])
    BY <1>5 DEF SecondLap
  <2>2. current' = w[k] /\ w[k] \in Task /\ w[k] \in Pid
    BY <2>1, <1>2, <1>3, SwitchStep
  <2>3. w[k] \in {w[j] : j \in 1 .. next_pid}
    OBVIOUS
  <2>4. state'[w[k]] = "RUNNING"
    BY <2>1, <2>2, <2>3, WokenStates
  <2>5. QED
    BY <2>1, <2>2, <2>4, WokenStates, SwitchStep, PassedByType
<1>6. CASE EndlessLap(st, wk, w)
  BY <1>6 DEF EndlessLap, TypeOK
<1>7. QED
  BY <1>1, <1>4, <1>5, <1>6

\* Every call that ends in task_schedule preserves the invariant.
LEMMA ScheduleIndInv ==
    ASSUME IndInv, NEW st \in [Pid -> TaskState], NEW wk,
           task_schedule(st, wk),
           wakeup_tick' \in [Pid -> Tick],
           left' \in [Pid -> Tick],
           UNCHANGED <<next_pid, next, ticks>>
    PROVE  IndInv'
<1>1. TypeOK
  BY DEF IndInv
<1>2. TypeOK'
  <2>1. control' \in {"ok", "hung", "lost"}
    BY <1>1, ScheduleStep DEF TypeOK
  <2>2. Task' = Task
    BY DEF Task
  <2>3. QED
    BY <1>1, <2>1, <2>2, ScheduleStep DEF TypeOK, Tick
<1>3. RingOrder'
  BY DEF IndInv, RingOrder, Task, task_list
<1>4. CurrentIsRunnable'
  BY <1>1, ScheduleStep DEF CurrentIsRunnable
<1>5. QED
  BY <1>2, <1>3, <1>4 DEF IndInv

\* Every step of the system preserves the invariant.
LEMMA NextIndInv == IndInv /\ [Next]_vars => IndInv'
<1> SUFFICES ASSUME IndInv, [Next]_vars PROVE IndInv'
  OBVIOUS
<1>1. TypeOK /\ current \in Pid
  BY TaskAssumption DEF IndInv, TypeOK, Task, Pid
<1>2. \A p \in Pid, s \in TaskState : [state EXCEPT ![p] = s] \in [Pid -> TaskState]
  BY <1>1 DEF TypeOK
<1>3. CASE timer_callback
  <2>1. ticks' \in Tick
    BY <1>3, <1>1, TaskAssumption DEF timer_callback, TypeOK, Tick
  <2>2. left' \in [Pid -> Tick]
    BY <1>3, <1>1, TaskAssumption DEF timer_callback, TypeOK, Tick
  <2>3. UNCHANGED <<next_pid, next, state, wakeup_tick, current, eip, control,
                    skipped>>
    BY <1>3 DEF timer_callback
  <2>4. QED
    BY <2>1, <2>2, <2>3 DEF IndInv, TypeOK, RingOrder, CurrentIsRunnable, Task,
                            task_list, Tick
<1>4. CASE task_create
  BY <1>4, CreateIndInv
<1>5. CASE task_yield
  BY <1>1, <1>5, ScheduleIndInv DEF task_yield, TypeOK
<1>6. ASSUME task_exit PROVE IndInv'
  <2>1. [state EXCEPT ![current] = "ZOMBIE"] \in [Pid -> TaskState]
    BY <1>1, <1>2 DEF TaskState
  <2>2. QED
    BY <1>1, <1>6, <2>1, ScheduleIndInv DEF task_exit, TypeOK
<1>7. ASSUME NEW ms \in SleepArgs, task_sleep(ms) PROVE IndInv'
  <2>1. [state EXCEPT ![current] = "SLEEPING"] \in [Pid -> TaskState]
    BY <1>1, <1>2 DEF TaskState
  <2>2. ms \in Tick /\ (ticks + ms) % TICK_MOD \in Tick
    BY <1>1, TaskAssumption DEF TypeOK, Tick
  <2>3. /\ wakeup_tick' \in [Pid -> Tick]
        /\ left' \in [Pid -> Tick]
    BY <1>1, <1>7, <2>2 DEF task_sleep, TypeOK
  <2>4. QED
    BY <1>7, <2>1, <2>3, ScheduleIndInv DEF task_sleep
<1>8. ASSUME NEW pid \in Pid, task_kill(pid) PROVE IndInv'
  <2>1. CASE task_exit
    BY <1>6, <2>1
  <2>2. CASE /\ pid # current
             /\ state' = [state EXCEPT ![pid] = "ZOMBIE"]
             /\ UNCHANGED <<next_pid, next, wakeup_tick, current, eip, ticks,
                            control, left, skipped>>
    <3>1. state' \in [Pid -> TaskState]
      BY <2>2, <1>2 DEF TaskState
    <3>2. state'[current] = state[current]
      BY <1>1, <2>2 DEF TypeOK
    <3>3. QED
      BY <2>2, <3>1, <3>2 DEF IndInv, TypeOK, RingOrder, CurrentIsRunnable, Task,
                              task_list, Tick
  <2>3. QED
    BY <1>8, <2>1, <2>2 DEF task_kill
<1>9. CASE UNCHANGED vars
  BY <1>9 DEF vars, IndInv, TypeOK, RingOrder, CurrentIsRunnable, Task,
              task_list, Tick
<1>10. QED
  BY <1>3, <1>4, <1>5, <1>6, <1>7, <1>8, <1>9 DEF Next

\* The variables of task.c and timer.c keep their types: every link points to
\* an existing task and the tick arithmetic stays within its width.
THEOREM TypeCorrect == Spec => []TypeOK
<1>1. Spec => []IndInv
  BY InitIndInv, NextIndInv, PTL DEF Spec
<1>2. IndInv => TypeOK
  BY DEF IndInv
<1>3. QED
  BY <1>1, <1>2, PTL

\* The task list stays one ring holding every task, for any number of tasks.
THEOREM RingIsKept == Spec => []RingOrder
<1>1. Spec => []IndInv
  BY InitIndInv, NextIndInv, PTL DEF Spec
<1>2. IndInv => RingOrder
  BY DEF IndInv
<1>3. QED
  BY <1>1, <1>2, PTL

\* Only a runnable task ever has the processor, for any number of tasks and any
\* order of sleeps, exits and kills.
THEOREM RunnableHasProcessor == Spec => []CurrentIsRunnable
<1>1. Spec => []IndInv
  BY InitIndInv, NextIndInv, PTL DEF Spec
<1>2. IndInv => CurrentIsRunnable
  BY DEF IndInv
<1>3. QED
  BY <1>1, <1>2, PTL

\* One step never revives a zombie: the scheduler wakes only sleepers, and a
\* task that goes to sleep was runnable.
LEMMA ZombieStep ==
    ASSUME IndInv, Next, NEW p \in Task, state[p] = "ZOMBIE"
    PROVE  state'[p] = "ZOMBIE"
<1>1. TypeOK /\ p \in Pid /\ current \in Pid
  <2>1. TypeOK /\ Task \subseteq Pid
    BY TaskAssumption DEF IndInv, TypeOK, Task, Pid
  <2>2. QED
    BY <2>1 DEF TypeOK
<1>2. control = "ok" => p # current
  BY DEF IndInv, CurrentIsRunnable
<1>3. ASSUME NEW st \in [Pid -> TaskState], NEW wk, task_schedule(st, wk),
             st[p] = "ZOMBIE"
      PROVE  state'[p] = "ZOMBIE"
  BY <1>1, <1>3, ScheduleStep DEF Due
<1>4. ASSUME NEW s \in TaskState, control = "ok"
      PROVE  /\ [state EXCEPT ![current] = s] \in [Pid -> TaskState]
             /\ [state EXCEPT ![current] = s][p] = "ZOMBIE"
  BY <1>1, <1>2, <1>4 DEF TypeOK
<1>5. CASE timer_callback
  BY <1>5 DEF timer_callback
<1>6. CASE task_create
  <2>1. p # next_pid
    BY TaskAssumption DEF IndInv, TypeOK, Task
  <2>2. QED
    BY <1>1, <1>6, <2>1 DEF task_create, FreshTask, TypeOK
<1>7. CASE task_yield
  BY <1>1, <1>3, <1>7 DEF task_yield, TypeOK
<1>8. ASSUME task_exit PROVE state'[p] = "ZOMBIE"
  BY <1>3, <1>4, <1>8 DEF task_exit, TaskState
<1>9. ASSUME NEW ms \in SleepArgs, task_sleep(ms) PROVE state'[p] = "ZOMBIE"
  BY <1>3, <1>4, <1>9 DEF task_sleep, TaskState
<1>10. ASSUME NEW pid \in Pid, task_kill(pid) PROVE state'[p] = "ZOMBIE"
  BY <1>1, <1>8, <1>10 DEF task_kill, TypeOK
<1>11. QED
  BY <1>5, <1>6, <1>7, <1>8, <1>9, <1>10 DEF Next

\* A task that exited or was killed never runs again.
THEOREM ZombiesStayDead == Spec => ZombieForever
<1>1. Spec => []IndInv
  BY InitIndInv, NextIndInv, PTL DEF Spec
<1>2. IndInv /\ [Next]_vars =>
        [\A p \in Task : state[p] = "ZOMBIE" => state'[p] = "ZOMBIE"]_vars
  BY ZombieStep
<1>3. QED
  BY <1>1, <1>2, PTL DEF Spec, ZombieForever

-----------------------------------------------------------------------------

\* The tick counter and the wake-up times computed from it do not wrap.
NoWrap == /\ MaxTicks < TICK_MOD
          /\ \A ms \in SleepArgs : MaxTicks + ms < TICK_MOD

\* The clock that task_schedule compares agrees with the ticks that have really
\* passed: a sleeper is due exactly when it has no more ticks to wait.
SleepInv ==
    /\ ticks <= MaxTicks
    /\ \A p \in Task :
          /\ state[p] = "RUNNING" => left[p] = 0
          /\ state[p] = "SLEEPING" =>
                IF left[p] > 0 THEN wakeup_tick[p] = ticks + left[p]
                               ELSE wakeup_tick[p] <= ticks

\* A call that ends in task_schedule keeps the two clocks in agreement if its
\* caller's states agree.
LEMMA ScheduleSleepInv ==
    ASSUME IndInv, NEW st \in [Pid -> TaskState], NEW wk \in [Pid -> Tick],
           task_schedule(st, wk), wk = wakeup_tick', left' \in [Pid -> Tick],
           UNCHANGED <<next_pid, ticks>>, ticks <= MaxTicks,
           \A p \in Task :
              /\ st[p] = "RUNNING" => left'[p] = 0
              /\ st[p] = "SLEEPING" =>
                    IF left'[p] > 0 THEN wk[p] = ticks + left'[p]
                                    ELSE wk[p] <= ticks
    PROVE  SleepInv'
<1>1. TypeOK /\ Task' = Task /\ Task \subseteq Pid
  BY TaskAssumption DEF IndInv, TypeOK, Task, Pid
<1>2. ASSUME NEW p \in Task
      PROVE  /\ state'[p] = "RUNNING" => left'[p] = 0
             /\ state'[p] = "SLEEPING" =>
                   IF left'[p] > 0 THEN wakeup_tick'[p] = ticks' + left'[p]
                                   ELSE wakeup_tick'[p] <= ticks'
  <2>1. state'[p] = st[p] \/ (Due(st, wk, p) /\ state'[p] = "RUNNING")
    BY <1>1, ScheduleStep
  <2>2. /\ wk[p] \in Int /\ ticks \in Int /\ left'[p] \in Nat
    BY <1>1, TaskAssumption DEF TypeOK, Tick
  <2>3. CASE state'[p] = st[p]
    BY <2>3
  <2>4. CASE Due(st, wk, p) /\ state'[p] = "RUNNING"
    BY <2>2, <2>4 DEF Due
  <2>5. QED
    BY <2>1, <2>3, <2>4
<1>3. QED
  BY <1>1, <1>2 DEF SleepInv

\* Every step keeps the two clocks in agreement.
LEMMA NextSleepInv ==
    ASSUME NoWrap, IndInv, SleepInv, [Next]_vars
    PROVE  SleepInv'
<1>1. TypeOK /\ current \in Pid /\ current \in Task /\ Task \subseteq Pid
  BY TaskAssumption DEF IndInv, TypeOK, Task, Pid
<1>2. ticks \in Nat /\ ticks <= MaxTicks
  BY <1>1, TaskAssumption DEF TypeOK, Tick, SleepInv
<1>3. \A p \in Task : left[p] \in Nat /\ wakeup_tick[p] \in Nat
  BY <1>1, TaskAssumption DEF TypeOK, Tick
<1>4. CASE timer_callback
  <2>1. ticks' = ticks + 1 /\ ticks' <= MaxTicks
    BY <1>2, <1>4, TaskAssumption DEF timer_callback, NoWrap
  <2>2. \A p \in Task : left'[p] = IF left[p] > 0 THEN left[p] - 1 ELSE 0
    BY <1>1, <1>4 DEF timer_callback
  <2>3. UNCHANGED <<next_pid, state, wakeup_tick>>
    BY <1>4 DEF timer_callback
  <2>4. QED
    BY <1>2, <1>3, <2>1, <2>2, <2>3 DEF SleepInv, Task
<1>5. CASE task_create
  <2>1. /\ next_pid \in Pid /\ Task' = Task \cup {next_pid}
        /\ \A p \in Task : p # next_pid
    BY <1>5, TaskAssumption DEF task_create, IndInv, TypeOK, Task, Pid
  <2>2. state'[next_pid] = "RUNNING" /\ left'[next_pid] = 0
    BY <1>1, <1>5, <2>1 DEF task_create, FreshTask, TypeOK
  <2>3. \A p \in Task : /\ state'[p] = state[p]
                        /\ left'[p] = left[p]
                        /\ wakeup_tick'[p] = wakeup_tick[p]
    BY <1>1, <1>5, <2>1 DEF task_create, FreshTask, TypeOK
  <2>4. ticks' = ticks
    BY <1>5 DEF task_create
  <2>5. QED
    BY <2>1, <2>2, <2>3, <2>4 DEF SleepInv
<1>6. CASE task_yield
  BY <1>1, <1>2, <1>6, ScheduleSleepInv DEF task_yield, TypeOK, SleepInv
<1>7. ASSUME task_exit PROVE SleepInv'
  <2> DEFINE st == [state EXCEPT ![current] = "ZOMBIE"]
  <2>1. st \in [Pid -> TaskState]
    BY <1>1 DEF TypeOK, TaskState
  <2>2. \A p \in Task : st[p] = IF p = current THEN "ZOMBIE" ELSE state[p]
    BY <1>1 DEF TypeOK
  <2>3. /\ task_schedule(st, wakeup_tick)
        /\ UNCHANGED <<next_pid, wakeup_tick, ticks, left>>
    BY <1>7 DEF task_exit
  <2> HIDE DEF st
  <2>4. \A p \in Task :
           /\ st[p] = "RUNNING" => left'[p] = 0
           /\ st[p] = "SLEEPING" =>
                 IF left'[p] > 0 THEN wakeup_tick[p] = ticks + left'[p]
                                 ELSE wakeup_tick[p] <= ticks
    BY <2>2, <2>3 DEF SleepInv
  <2>5. wakeup_tick \in [Pid -> Tick] /\ left' \in [Pid -> Tick]
    BY <1>1, <2>3 DEF TypeOK
  <2>6. QED
    BY <1>2, <2>1, <2>3, <2>4, <2>5, ScheduleSleepInv
<1>8. ASSUME NEW ms \in SleepArgs, task_sleep(ms) PROVE SleepInv'
  <2> DEFINE st == [state EXCEPT ![current] = "SLEEPING"]
  <2>1. st \in [Pid -> TaskState]
    BY <1>1 DEF TypeOK, TaskState
  <2>2. \A p \in Task : st[p] = IF p = current THEN "SLEEPING" ELSE state[p]
    BY <1>1 DEF TypeOK
  <2>3. task_schedule(st, wakeup_tick') /\ UNCHANGED <<next_pid, ticks>>
    BY <1>8 DEF task_sleep
  <2> HIDE DEF st
  <2>4. /\ ms \in Nat /\ ms \in Tick /\ ticks + ms \in Tick
        /\ (ticks + ms) % TICK_MOD = ticks + ms
    BY <1>2, TaskAssumption DEF NoWrap, Tick
  <2>5. /\ wakeup_tick' \in [Pid -> Tick] /\ left' \in [Pid -> Tick]
        /\ \A p \in Task : /\ left'[p] = IF p = current THEN ms ELSE left[p]
                           /\ wakeup_tick'[p] = IF p = current THEN ticks + ms
                                                ELSE wakeup_tick[p]
    BY <1>1, <1>8, <2>4 DEF task_sleep, TypeOK
  <2>6. \A p \in Task :
           /\ st[p] = "RUNNING" => left'[p] = 0
           /\ st[p] = "SLEEPING" =>
                 IF left'[p] > 0 THEN wakeup_tick'[p] = ticks + left'[p]
                                 ELSE wakeup_tick'[p] <= ticks
    BY <1>2, <2>2, <2>4, <2>5 DEF SleepInv
  <2>7. QED
    BY <1>2, <2>1, <2>3, <2>5, <2>6, ScheduleSleepInv
<1>9. ASSUME NEW pid \in Pid, task_kill(pid) PROVE SleepInv'
  <2>1. CASE task_exit
    BY <1>7, <2>1
  <2>2. CASE /\ state' = [state EXCEPT ![pid] = "ZOMBIE"]
             /\ UNCHANGED <<next_pid, wakeup_tick, ticks, left>>
    <3>1. \A p \in Task : state'[p] = state[p] \/ state'[p] = "ZOMBIE"
      BY <1>1, <2>2 DEF TypeOK
    <3>2. QED
      BY <2>2, <3>1 DEF SleepInv, Task
  <2>3. QED
    BY <1>9, <2>1, <2>2 DEF task_kill
<1>10. CASE UNCHANGED vars
  BY <1>10 DEF vars, SleepInv, Task
<1>11. QED
  BY <1>4, <1>5, <1>6, <1>7, <1>8, <1>9, <1>10 DEF Next

\* As long as the counters do not wrap, no task wakes before its ticks have
\* passed.
THEOREM SleepersWaitTheirTime == NoWrap => (Spec => []NotWokenEarly)
<1> SUFFICES ASSUME NoWrap PROVE Spec => []NotWokenEarly
  OBVIOUS
<1>1. Init => SleepInv
  BY TaskAssumption DEF Init, SleepInv, Task, Pid
<1>2. IndInv /\ SleepInv /\ [Next]_vars => SleepInv'
  BY NextSleepInv
<1>3. SleepInv => NotWokenEarly
  BY DEF SleepInv, NotWokenEarly
<1>4. QED
  BY <1>1, <1>2, <1>3, InitIndInv, NextIndInv, PTL DEF Spec

-----------------------------------------------------------------------------

\* Every set of natural numbers that is not empty has a least element; proofs
\* by induction below look at the least counterexample.
LEMMA LeastElement ==
    ASSUME NEW T, T \subseteq Nat, T # {}
    PROVE  \E m \in T : \A k \in T : m <= k
<1>1. IsWellFoundedOn(OpToRel(<, Nat), Nat)
  BY NatLessThanWellFounded, Zenon
<1>2. PICK m \in T : \A k \in T : ~ (<<k, m>> \in OpToRel(<, Nat))
  BY <1>1, WFMin, Zenon
<1>3. ASSUME NEW k \in T PROVE m <= k
  <2>1. ~ (<<k, m>> \in {ss \in Nat \X Nat : ss[1] < ss[2]})
    BY <1>2 DEF OpToRel
  <2>2. QED
    BY <2>1
<1>4. QED
  BY <1>3

\* How many tasks the loop of task_schedule meets, called by task c, until it
\* meets task p: the ring runs from the newest task down to the kernel task.
Laps(c, p) == IF p < c THEN c - p ELSE c - p + next_pid

\* The loop of task_schedule meets every task, each at its place in the ring,
\* and the caller last.
LEMMA WalkPlaces ==
    ASSUME IndInv, NEW w \in [1 .. next_pid -> Task], IsWalk(w)
    PROVE  /\ \A p \in Task : Laps(current, p) \in 1 .. next_pid
           /\ \A k \in 1 .. next_pid : Laps(current, w[k]) = k
           /\ \A p \in Task : w[Laps(current, p)] = p
<1> DEFINE Place(k) == IF k <= current THEN current - k ELSE current - k + next_pid
           Wrong == {k \in 1 .. next_pid : w[k] # Place(k)}
<1>1. /\ next_pid \in Nat /\ next_pid >= 1 /\ current \in 0 .. next_pid - 1
      /\ next[0] = next_pid - 1
      /\ \A p \in 1 .. next_pid - 1 : next[p] = p - 1
  BY TaskAssumption DEF IndInv, TypeOK, RingOrder, Task, task_list
<1>2. w[1] = Place(1)
  BY <1>1 DEF IsWalk
<1>3. ASSUME NEW k \in 1 .. next_pid - 1, w[k] = Place(k)
      PROVE  w[k + 1] = Place(k + 1)
  <2>1. w[k + 1] = next[Place(k)]
    BY <1>3 DEF IsWalk
  <2>2. /\ Place(k) = 0 => Place(k + 1) = next_pid - 1
        /\ Place(k) # 0 => /\ Place(k) \in 1 .. next_pid - 1
                           /\ Place(k + 1) = Place(k) - 1
    BY ONLY <1>1, k \in 1 .. next_pid - 1
  <2> HIDE DEF Place
  <2>3. QED
    BY <1>1, <2>1, <2>2
<1>4. Wrong = {}
  <2>1. SUFFICES ASSUME Wrong # {} PROVE FALSE
    OBVIOUS
  <2> HIDE DEF Place
  <2>2. PICK m \in Wrong : \A k \in Wrong : m <= k
    <3>1. Wrong \subseteq Nat
      BY <1>1
    <3> HIDE DEF Wrong
    <3>2. QED
      BY <2>1, <3>1, LeastElement
  <2>3. m # 1 /\ m \in 1 .. next_pid /\ w[m] # Place(m)
    BY <1>2
  <2>4. m - 1 \in 1 .. next_pid - 1 /\ m - 1 \notin Wrong
    BY <1>1, <2>2, <2>3
  <2>5. w[m - 1] = Place(m - 1)
    BY <1>1, <2>4
  <2>6. w[(m - 1) + 1] = Place((m - 1) + 1)
    BY <1>3, <2>4, <2>5
  <2>7. (m - 1) + 1 = m
    BY <1>1, <2>3
  <2>8. QED
    BY <2>3, <2>6, <2>7
<1>5. \A k \in 1 .. next_pid : w[k] = Place(k)
  BY <1>4
<1> HIDE DEF Wrong
<1>6. ASSUME NEW p \in Task
      PROVE  /\ Laps(current, p) \in 1 .. next_pid
             /\ Place(Laps(current, p)) = p
  BY ONLY <1>1, p \in Task DEF Laps, Task
<1>7. ASSUME NEW k \in 1 .. next_pid PROVE Laps(current, Place(k)) = k
  BY ONLY <1>1, k \in 1 .. next_pid DEF Laps
<1> HIDE DEF Place
<1>8. QED
  BY <1>5, <1>6, <1>7

\* When a call hangs, no task the loop could meet was ready.
LEMMA HangStep ==
    ASSUME IndInv, NEW st, NEW wk, task_schedule(st, wk),
           control = "ok", control' = "hung"
    PROVE  state' = st /\ \A p \in Task : ~ Ready(st, wk, p)
<1>1. PICK w \in [1 .. next_pid -> Task] :
         /\ IsWalk(w)
         /\ FirstLap(st, wk, w) \/ SecondLap(st, wk, w) \/ EndlessLap(st, wk, w)
  BY DEF task_schedule
<1>2. TypeOK
  BY DEF IndInv
<1>3. \A t : Switch(t) => control' # "hung"
  BY <1>2, SwitchStep
<1>4. EndlessLap(st, wk, w)
  BY <1>1, <1>3 DEF FirstLap, SecondLap
<1>5. QED
  BY <1>1, <1>4, WalkPlaces DEF EndlessLap

\* A call that hangs leaves only zombies and sleepers with ticks to wait.
LEMMA HangLeavesBlocked ==
    ASSUME IndInv, NEW st \in [Pid -> TaskState], NEW wk \in [Pid -> Tick],
           task_schedule(st, wk), left' \in [Pid -> Tick],
           control = "ok", UNCHANGED next_pid,
           \A p \in Task :
              st[p] = "SLEEPING" => IF left'[p] > 0 THEN wk[p] = ticks + left'[p]
                                                   ELSE wk[p] <= ticks
    PROVE  HangOnlyWhenAllBlocked'
<1>1. Task' = Task /\ Task \subseteq Pid
  BY TaskAssumption DEF IndInv, TypeOK, Task, Pid
<1>2. SUFFICES ASSUME control' = "hung", NEW p \in Task
               PROVE  \/ state'[p] = "ZOMBIE"
                      \/ state'[p] = "SLEEPING" /\ left'[p] > 0
  BY <1>1 DEF HangOnlyWhenAllBlocked
<1>3. state' = st /\ ~ Ready(st, wk, p)
  BY <1>2, HangStep
<1>4. st[p] \in TaskState /\ wk[p] \in Int /\ ticks \in Int
  BY <1>1, TaskAssumption DEF IndInv, TypeOK, Tick
<1>5. QED
  BY <1>3, <1>4 DEF Ready, Due, TaskState

\* Every step keeps the hang honest: while the scheduler hangs nothing moves,
\* and it starts to hang only in front of blocked tasks.
LEMMA NextHang ==
    ASSUME NoWrap, IndInv, SleepInv, HangOnlyWhenAllBlocked, [Next]_vars
    PROVE  HangOnlyWhenAllBlocked'
<1>1. TypeOK /\ current \in Pid /\ Task \subseteq Pid
  BY TaskAssumption DEF IndInv, TypeOK, Task, Pid
<1>2. ASSUME control = "ok", UNCHANGED control PROVE HangOnlyWhenAllBlocked'
  BY <1>2 DEF HangOnlyWhenAllBlocked
<1>3. CASE timer_callback
  BY <1>2, <1>3 DEF timer_callback
<1>4. CASE task_create
  BY <1>2, <1>4 DEF task_create
<1>5. CASE task_yield
  BY <1>1, <1>5, HangLeavesBlocked DEF task_yield, TypeOK, SleepInv
<1>6. ASSUME task_exit PROVE HangOnlyWhenAllBlocked'
  <2> DEFINE st == [state EXCEPT ![current] = "ZOMBIE"]
  <2>1. st \in [Pid -> TaskState]
    BY <1>1 DEF TypeOK, TaskState
  <2>2. \A p \in Task : st[p] = "SLEEPING" => state[p] = "SLEEPING"
    BY <1>1 DEF TypeOK
  <2>3. /\ task_schedule(st, wakeup_tick) /\ control = "ok"
        /\ UNCHANGED <<next_pid, wakeup_tick, ticks, left>>
    BY <1>6 DEF task_exit
  <2> HIDE DEF st
  <2>4. wakeup_tick \in [Pid -> Tick] /\ left' \in [Pid -> Tick]
    BY <1>1, <2>3 DEF TypeOK
  <2>5. QED
    BY <2>1, <2>2, <2>3, <2>4, HangLeavesBlocked DEF SleepInv
<1>7. ASSUME NEW ms \in SleepArgs, task_sleep(ms) PROVE HangOnlyWhenAllBlocked'
  <2> DEFINE st == [state EXCEPT ![current] = "SLEEPING"]
  <2>1. /\ st \in [Pid -> TaskState]
        /\ \A p \in Task : p # current => st[p] = state[p]
    BY <1>1 DEF TypeOK, TaskState
  <2>2. /\ task_schedule(st, wakeup_tick') /\ control = "ok"
        /\ UNCHANGED <<next_pid, ticks>>
    BY <1>7 DEF task_sleep
  <2> HIDE DEF st
  <2>3. ticks \in Nat /\ ticks <= MaxTicks
    BY <1>1, TaskAssumption DEF TypeOK, Tick, SleepInv
  <2>4. /\ ms \in Nat /\ ms \in Tick /\ ticks + ms \in Tick
        /\ (ticks + ms) % TICK_MOD = ticks + ms
    BY <2>3, TaskAssumption DEF NoWrap, Tick
  <2>5. /\ wakeup_tick' \in [Pid -> Tick] /\ left' \in [Pid -> Tick]
        /\ \A p \in Task : /\ left'[p] = IF p = current THEN ms ELSE left[p]
                           /\ wakeup_tick'[p] = IF p = current THEN ticks + ms
                                                ELSE wakeup_tick[p]
    BY <1>1, <1>7, <2>4 DEF task_sleep, TypeOK
  <2>6. \A p \in Task :
           st[p] = "SLEEPING" =>
              IF left'[p] > 0 THEN wakeup_tick'[p] = ticks + left'[p]
                              ELSE wakeup_tick'[p] <= ticks
    BY <2>1, <2>3, <2>4, <2>5 DEF SleepInv
  <2>7. QED
    BY <2>1, <2>2, <2>5, <2>6, HangLeavesBlocked
<1>8. ASSUME NEW pid \in Pid, task_kill(pid) PROVE HangOnlyWhenAllBlocked'
  BY <1>2, <1>6, <1>8 DEF task_kill
<1>9. CASE UNCHANGED vars
  BY <1>9 DEF vars, HangOnlyWhenAllBlocked, Task
<1>10. QED
  BY <1>3, <1>4, <1>5, <1>6, <1>7, <1>8, <1>9 DEF Next

\* As long as the counters do not wrap, task_schedule loops forever only when
\* every task is dead or has ticks left to sleep.
THEOREM HangsOnlyWhenBlocked == NoWrap => (Spec => []HangOnlyWhenAllBlocked)
<1> SUFFICES ASSUME NoWrap PROVE Spec => []HangOnlyWhenAllBlocked
  OBVIOUS
<1>1. Init => SleepInv /\ HangOnlyWhenAllBlocked
  BY TaskAssumption DEF Init, SleepInv, HangOnlyWhenAllBlocked, Task, Pid
<1>2. IndInv /\ SleepInv /\ [Next]_vars => SleepInv'
  BY NextSleepInv
<1>3. IndInv /\ SleepInv /\ HangOnlyWhenAllBlocked /\ [Next]_vars
        => HangOnlyWhenAllBlocked'
  BY NextHang
<1>4. QED
  BY <1>1, <1>2, <1>3, InitIndInv, NextIndInv, PTL DEF Spec

-----------------------------------------------------------------------------

\* How long a task may still be passed by.  A sleeper whose time has come may be
\* met once by the loop, which wakes it and goes on; from then on, and from the
\* start for a runnable task, every call that passes it by brings the processor
\* nearer to it in the ring.
BypassInv ==
    /\ skipped[current] = 0
    /\ \A p \in Pid \ Task : skipped[p] = 0
    /\ \A p \in Task \ {current} :
          /\ skipped[p] <= 2 * (next_pid - 1)
          /\ state[p] = "RUNNING" =>
                skipped[p] + Laps(current, p) <= 2 * (next_pid - 1)
          /\ state[p] = "SLEEPING" =>
                skipped[p] + Laps(current, p) <= next_pid - 1

\* The claim for one task p other than the current one, after a call that left
\* the processor to t.
After(p, t) ==
    /\ skipped'[p] <= 2 * (next_pid - 1)
    /\ state'[p] = "RUNNING" => skipped'[p] + Laps(t, p) <= 2 * (next_pid - 1)
    /\ state'[p] = "SLEEPING" => skipped'[p] + Laps(t, p) <= next_pid - 1

\* A call in which a runnable task is found keeps the bypass bound.
LEMMA FirstLapBypass ==
    ASSUME IndInv, BypassInv, NEW st \in [Pid -> TaskState], NEW wk,
           NEW w \in [1 .. next_pid -> Task], IsWalk(w),
           FirstLap(st, wk, w),
           \A p \in Task \ {current} : st[p] = state[p],
           NEW p \in Task, p # current'
    PROVE  After(p, current')
<1>1. PICK k \in 1 .. next_pid :
         /\ st[w[k]] = "RUNNING"
         /\ \A j \in 1 .. k - 1 : st[w[j]] # "RUNNING"
         /\ state' = Woken(st, wk, {w[j] : j \in 1 .. k - 1})
         /\ Switch(w[k])
         /\ PassedBy(st, wk, w[k])
  BY DEF FirstLap
<1>2. TypeOK /\ Task \subseteq Pid /\ next_pid \in Nat /\ next_pid >= 1
  BY TaskAssumption DEF IndInv, TypeOK, Task, Pid
<1>3. current' = w[k] /\ w[k] \in Task
  BY <1>1, <1>2, SwitchStep
<1> DEFINE t == w[k]
           i == Laps(current, p)
<1>4. /\ i \in 1 .. next_pid /\ w[i] = p /\ Laps(current, t) = k
      /\ p # current => i # next_pid
  <2>1. current \in 0 .. next_pid - 1 /\ p \in 0 .. next_pid - 1
    BY <1>2 DEF TypeOK, Task
  <2>2. p # current => i # next_pid
    BY ONLY <2>1, <1>2 DEF Laps
  <2>3. QED
    BY <2>2, WalkPlaces
<1>5. Laps(t, p) \in 1 .. next_pid - 1
  BY <1>2, <1>3 DEF Laps, Task
<1>6. /\ skipped'[p] = IF p \in Task \ {t, current} /\ Ready(st, wk, p)
                       THEN skipped[p] + 1 ELSE 0
      /\ state'[p] = IF p \in {w[j] : j \in 1 .. k - 1} /\ Due(st, wk, p)
                     THEN "RUNNING" ELSE st[p]
      /\ skipped[p] \in Nat
  BY <1>1, <1>2 DEF PassedBy, Woken, TypeOK
<1>7. CASE p = current \/ ~ Ready(st, wk, p)
  BY <1>2, <1>3, <1>5, <1>6, <1>7 DEF After
<1>8. CASE p # current /\ Ready(st, wk, p) /\ i < k
  <2>1. st[p] # "RUNNING"
    BY <1>1, <1>4, <1>8
  <2>2. Due(st, wk, p) /\ st[p] = "SLEEPING"
    BY <1>8, <2>1 DEF Ready, Due
  <2>3. p \in {w[j] : j \in 1 .. k - 1}
    BY <1>4, <1>8
  <2>4. skipped[p] + i <= next_pid - 1
    BY <1>8, <2>2 DEF BypassInv
  <2>5. state'[p] = "RUNNING" /\ skipped'[p] <= next_pid - 1
    BY <1>2, <1>3, <1>4, <1>6, <1>8, <2>2, <2>3, <2>4
  <2>6. QED
    BY <1>2, <1>3, <1>5, <1>6, <2>5 DEF After
<1>9. CASE p # current /\ Ready(st, wk, p) /\ i >= k
  <2>1. i # k
    BY <1>3, <1>4
  <2>2. Laps(t, p) = i - k
    <3>1. /\ p \in 0 .. next_pid - 1 /\ current \in 0 .. next_pid - 1
          /\ w[k] \in 0 .. next_pid - 1
      BY <1>2, <1>3 DEF TypeOK, Task
    <3>2. Laps(current, w[k]) = k /\ Laps(current, p) > k
      BY <1>4, <1>9, <2>1
    <3>3. QED
      BY ONLY <1>2, <3>1, <3>2, k \in 1 .. next_pid DEF Laps
  <2>3. p \notin {w[j] : j \in 1 .. k - 1}
    <3>1. \A j \in 1 .. next_pid : Laps(current, w[j]) = j
      BY WalkPlaces
    <3>2. ASSUME NEW j \in 1 .. k - 1 PROVE w[j] # p
      BY <1>2, <1>9, <3>1
    <3>3. QED
      BY <3>2
  <2>4. state'[p] = state[p] /\ skipped'[p] = skipped[p] + 1
    BY <1>3, <1>6, <1>9, <2>3
  <2>5. state[p] = "RUNNING" \/ state[p] = "SLEEPING"
    BY <1>9 DEF Ready, Due
  <2>6. QED
    BY SMTT(30), <1>2, <1>3, <1>4, <1>6, <1>9, <2>2, <2>4, <2>5 DEF After, BypassInv
<1>10. QED
  BY <1>4, <1>7, <1>8, <1>9

\* A call that finds only sleepers whose time has come keeps the bypass bound:
\* all of them are awake afterwards.
LEMMA SecondLapBypass ==
    ASSUME IndInv, BypassInv, NEW st \in [Pid -> TaskState], NEW wk,
           NEW w \in [1 .. next_pid -> Task], IsWalk(w),
           SecondLap(st, wk, w),
           \A p \in Task \ {current} : st[p] = state[p],
           NEW p \in Task, p # current'
    PROVE  After(p, current')
<1>1. PICK k \in 1 .. next_pid :
         /\ Due(st, wk, w[k])
         /\ state' = Woken(st, wk, {w[j] : j \in 1 .. next_pid})
         /\ Switch(w[k])
         /\ PassedBy(st, wk, w[k])
  BY DEF SecondLap
<1>2. TypeOK /\ Task \subseteq Pid /\ next_pid \in Nat /\ next_pid >= 1
  BY TaskAssumption DEF IndInv, TypeOK, Task, Pid
<1>3. current' = w[k] /\ w[k] \in Task
  BY <1>1, <1>2, SwitchStep
<1>4. Laps(w[k], p) \in 1 .. next_pid - 1
  BY SMTT(30), <1>2, <1>3 DEF Laps, Task
<1>5. Laps(current, p) \in 1 .. next_pid /\ w[Laps(current, p)] = p
  BY WalkPlaces
<1>6. st[p] # "RUNNING" /\ p \in {w[j] : j \in 1 .. next_pid}
  BY <1>5 DEF SecondLap
<1>7. /\ skipped'[p] = IF p \in Task \ {w[k], current} /\ Ready(st, wk, p)
                       THEN skipped[p] + 1 ELSE 0
      /\ state'[p] = IF Due(st, wk, p) THEN "RUNNING" ELSE st[p]
      /\ skipped[p] \in Nat
  BY <1>1, <1>2, <1>6 DEF PassedBy, Woken, TypeOK
<1>8. CASE p = current \/ ~ Ready(st, wk, p)
  BY <1>2, <1>3, <1>4, <1>7, <1>8 DEF After
<1>9. CASE p # current /\ Ready(st, wk, p)
  <2>1. Due(st, wk, p) /\ state[p] = "SLEEPING" /\ state'[p] = "RUNNING"
    BY <1>6, <1>7, <1>9 DEF Ready, Due
  <2>2. skipped[p] + Laps(current, p) <= next_pid - 1
    BY <1>9, <2>1 DEF BypassInv
  <2>3. skipped'[p] <= next_pid - 1
    BY <1>2, <1>3, <1>5, <1>7, <1>9, <2>2
  <2>4. QED
    BY <1>2, <1>3, <1>4, <1>7, <2>1, <2>3 DEF After
<1>10. QED
  BY <1>8, <1>9

\* Every call that ends in task_schedule keeps the bypass bound, whatever its
\* caller does to its own state.
LEMMA ScheduleBypass ==
    ASSUME IndInv, BypassInv, NEW st \in [Pid -> TaskState], NEW wk,
           task_schedule(st, wk), UNCHANGED next_pid,
           \A p \in Task \ {current} : st[p] = state[p]
    PROVE  BypassInv'
<1>1. PICK w \in [1 .. next_pid -> Task] :
         /\ IsWalk(w)
         /\ FirstLap(st, wk, w) \/ SecondLap(st, wk, w) \/ EndlessLap(st, wk, w)
  BY DEF task_schedule
<1>2. TypeOK /\ Task' = Task /\ Task \subseteq Pid
  BY TaskAssumption DEF IndInv, TypeOK, Task, Pid
<1>3. CASE EndlessLap(st, wk, w)
  BY <1>2, <1>3 DEF EndlessLap, BypassInv, Laps
<1>4. CASE FirstLap(st, wk, w) \/ SecondLap(st, wk, w)
  <2>1. \A p \in Task : p # current' => After(p, current')
    BY <1>1, <1>4, FirstLapBypass, SecondLapBypass
  <2>2. PICK k \in 1 .. next_pid : Switch(w[k]) /\ PassedBy(st, wk, w[k])
    BY <1>4 DEF FirstLap, SecondLap
  <2>3. current' = w[k] /\ current' \in Task
    BY <1>2, <2>2, SwitchStep
  <2>4. skipped'[current'] = 0 /\ \A p \in Pid \ Task : skipped'[p] = 0
    BY <1>2, <2>2, <2>3 DEF PassedBy
  <2>5. QED
    BY <1>2, <2>1, <2>3, <2>4 DEF BypassInv, After, Laps
<1>5. QED
  BY <1>1, <1>3, <1>4

\* Every step keeps the bypass bound: creation lengthens the ring and the bound
\* alike, a kill and a tick leave the counters alone.
LEMMA NextBypass == IndInv /\ BypassInv /\ [Next]_vars => BypassInv'
<1> SUFFICES ASSUME IndInv, BypassInv, [Next]_vars PROVE BypassInv'
  OBVIOUS
<1>1. /\ TypeOK /\ current \in Pid /\ current \in Task /\ Task \subseteq Pid
      /\ next_pid \in Nat /\ next_pid >= 1
  BY TaskAssumption DEF IndInv, TypeOK, Task, Pid
<1>2. ASSUME NEW s \in TaskState
      PROVE  /\ [state EXCEPT ![current] = s] \in [Pid -> TaskState]
             /\ \A p \in Task \ {current} : [state EXCEPT ![current] = s][p] = state[p]
  BY <1>1 DEF TypeOK
<1>3. CASE timer_callback
  BY <1>3 DEF timer_callback, BypassInv, Laps, Task
<1>4. CASE task_create
  <2>1. /\ next_pid \in Pid /\ next_pid' = next_pid + 1
        /\ Task' = Task \cup {next_pid} /\ next_pid \notin Task
        /\ UNCHANGED <<current, skipped>>
    BY <1>4, TaskAssumption DEF task_create, IndInv, TypeOK, Task, Pid
  <2>2. \A p \in Task : state'[p] = state[p]
    BY <1>1, <1>4, <2>1 DEF task_create, FreshTask, TypeOK
  <2>3. skipped[next_pid] = 0
    BY <2>1 DEF BypassInv
  <2>4. state'[next_pid] = "RUNNING"
    BY <1>1, <1>4, <2>1 DEF task_create, FreshTask, TypeOK
  <2>5. ASSUME NEW p \in Task' \ {current}
        PROVE  /\ Laps(current, p)' \in 1 .. next_pid
               /\ p \in Task => Laps(current, p)' <= Laps(current, p) + 1
    <3>1. current \in 0 .. next_pid - 1 /\ p \in 0 .. next_pid
      BY <1>1, <2>1 DEF Task
    <3>2. QED
      BY ONLY <1>1, <2>1, <3>1, p # current DEF Laps
  <2>6. ASSUME NEW p \in Task' \ {current}
        PROVE  /\ skipped'[p] <= 2 * (next_pid' - 1)
               /\ state'[p] = "RUNNING" =>
                     skipped'[p] + Laps(current, p)' <= 2 * (next_pid' - 1)
               /\ state'[p] = "SLEEPING" =>
                     skipped'[p] + Laps(current, p)' <= next_pid' - 1
    <3>1. CASE p = next_pid
      BY <1>1, <2>1, <2>3, <2>4, <2>5, <3>1
    <3>2. CASE p \in Task \ {current}
      <4>1. skipped[p] \in Nat /\ Laps(current, p) \in Int
        BY <1>1, <3>2 DEF TypeOK, Laps, Task
      <4>2. QED
        BY <1>1, <2>1, <2>2, <2>5, <3>2, <4>1 DEF BypassInv
    <3>3. QED
      BY <2>1, <3>1, <3>2
  <2>7. QED
    BY <2>1, <2>6 DEF BypassInv
<1>5. CASE task_yield
  BY <1>1, <1>5, ScheduleBypass DEF task_yield, TypeOK
<1>6. ASSUME task_exit PROVE BypassInv'
  BY <1>2, <1>6, ScheduleBypass DEF task_exit, TaskState
<1>7. ASSUME NEW ms \in SleepArgs, task_sleep(ms) PROVE BypassInv'
  BY <1>2, <1>7, ScheduleBypass DEF task_sleep, TaskState
<1>8. ASSUME NEW pid \in Pid, task_kill(pid) PROVE BypassInv'
  <2>1. CASE task_exit
    BY <1>6, <2>1
  <2>2. CASE /\ state' = [state EXCEPT ![pid] = "ZOMBIE"]
             /\ UNCHANGED <<next_pid, current, skipped>>
    <3>1. \A p \in Task : state'[p] = state[p] \/ state'[p] = "ZOMBIE"
      BY <1>1, <2>2 DEF TypeOK
    <3>2. QED
      BY <2>2, <3>1 DEF BypassInv, Laps, Task
  <2>3. QED
    BY <1>8, <2>1, <2>2 DEF task_kill
<1>9. CASE UNCHANGED vars
  BY <1>9 DEF vars, BypassInv, Laps, Task
<1>10. QED
  BY <1>3, <1>4, <1>5, <1>6, <1>7, <1>8, <1>9 DEF Next

\* Round robin for any number of tasks: no ready task is passed by for more than
\* two laps, whatever the others do and even if the tick counter wraps.
THEOREM RoundRobin == Spec => []BoundedBypass
<1>1. Init => BypassInv
  BY TaskAssumption DEF Init, BypassInv, Laps, Task, Pid
<1>2. IndInv /\ BypassInv => BoundedBypass
  BY TaskAssumption DEF IndInv, TypeOK, BypassInv, BoundedBypass, Task
<1>3. QED
  BY <1>1, <1>2, InitIndInv, NextIndInv, NextBypass, PTL DEF Spec
=============================================================================
