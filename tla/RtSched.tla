------------------------------ MODULE RtSched -------------------------------
(***************************************************************************)
(* The life of threads on several cores: the scheduler of RT-Thread        *)
(* (rt-thread/src/scheduler.c, as built with RT_USING_SMP), the operations *)
(* on threads (thread.c), the tick (clock.c), the idle thread that frees   *)
(* the memory of dead threads (idle.c), and heap_sem, the semaphore that   *)
(* protects the heap (mem.c, ipc.c).                                       *)
(*                                                                         *)
(* A step holds the kernel lock (rt_cpus_lock) as long as the code does.   *)
(* Where the code holds it and waits for something else the step is split  *)
(* and "cpus_lock" names the core.  An interrupt waits for the lock with   *)
(* the thread below it stopped, wherever that thread is.                   *)
(***************************************************************************)
EXTENDS RtIpc, FiniteSets, FiniteSetsExt

CONSTANTS
  Threads,        \* threads made with rt_thread_create
  Sleepers,       \* those that call rt_thread_sleep, in a loop without end
  Sliced,         \* those whose time slice ends while they run
  Main,           \* the one rt_application_init starts, which makes the others
  Periodic,       \* those of them made with rt_thread_create_periodic
  CPUs, Cpu0,
  Idle,           \* the idle thread of each core, bound to it
  Priority, NoThread,
  NoCpu           \* no core: RT_CPU_DETACHED, or RT_CPUS_NR as a bind_cpu

IdleThreads == {Idle[c] : c \in CPUs}
All == Threads \cup IdleThreads

ASSUME SchedAssumption ==
  /\ Main \in Threads \ Periodic /\ Periodic \subseteq Threads
  /\ Sleepers \subseteq Threads /\ Sliced \subseteq Threads /\ Cpu0 \in CPUs
  /\ Idle \in [CPUs -> IdleThreads] /\ IsInjective(Idle)
  /\ Threads \cap IdleThreads = {} /\ NoThread \notin All /\ NoCpu \notin CPUs
  /\ Priority \in [All -> Nat]
  /\ \A t \in Threads : \A i \in IdleThreads : Priority[t] < Priority[i]

VARIABLES
  s,              \* the scheduler's data, a record:
                  \*   stat, yield     thread->stat and its RT_THREAD_STAT_YIELD
                  \*   oncpu           thread->oncpu
                  \*   ready           the ready lists, in order of insertion
                  \*   group           priority_group, the priorities of a list
                  \*   current         pcpu->current_thread
                  \*   ipi             cores with an RT_SCHEDULE_IPI to take
                  \*   waiters         of heap_sem
                  \*   defunct         rt_thread_defunct
  value,          \* of heap_sem
  timer,          \* threads whose thread_timer is in the timer list
  period_timer,   \* those whose thread_period_timer is
  irq,            \* what a core does in an interrupt, see Phases
  old_stat,       \* in rt_tick_increase, the stat that "stat |= YIELD" read
  irq_switch_flag,
  cpus_lock,      \* the core that holds it from one step to the next
  critical_lock,  \* the thread in rt_enter_critical ... rt_exit_critical
  pc,             \* how far a thread is in its own calls, see Places
  victim,         \* the thread rt_thread_idle_excute frees
  killed,         \* history: threads deleted while they were on a core
  overwritten     \* history: threads whose stat a time slice overwrote

interrupts == <<irq, old_stat, irq_switch_flag>>
locks      == <<cpus_lock, critical_lock>>
timers     == <<timer, period_timer>>
history    == <<killed, overwritten>>
vars == <<s, value, timers, interrupts, locks, pc, victim, history>>

Stats  == {"none", "INIT", "READY", "RUNNING", "SUSPEND", "CLOSE", "freed"}

\* "slice": rt_tick_increase has read the stat of the thread; "exit":
\* before rt_scheduler_do_irq_switch, which waits for the kernel lock.
Phases == {"none", "slice", "exit"}

\* "job": in its own code; "heap": in rt_malloc or rt_free with heap_sem
\* taken; "take", "sched": about to call rt_schedule, after which it is in
\* the heap or in its job; "end": see JobTest; "spin" and "free": see
\* Reclaim.
Places == {"job", "heap", "take", "sched", "end", "spin", "free"}

-----------------------------------------------------------------------------
(***************************************************************************)
(* scheduler.c                                                             *)
(***************************************************************************)
bind_cpu == [t \in All |-> IF t \in IdleThreads THEN CHOOSE c \in CPUs : Idle[c] = t ELSE NoCpu]

\* rt_list_remove(&thread->tlist).
Without(l, t) == ListRemove(l, t)

\* The places of the threads of priority p in a list.
OfPriority(l, p) == {k \in 1 .. Len(l) : Priority[l[k]] = p}

\* Mutant of RemoveThread: priority_group keeps the priority.
RemoveThreadOnly(r, t) ==
  [r EXCEPT !.ready[bind_cpu[t]] = Without(@, t),
            !.waiters = Without(@, t),
            !.defunct = Without(@, t)]

\* rt_schedule_remove_thread, and rt_list_remove, which takes the thread out
\* of whatever list it is in.
RemoveThread(r, t) ==
  LET q == bind_cpu[t]
      l == Without(r.ready[q], t)
  IN  [r EXCEPT !.ready[q] = l,
                !.group[q] = IF OfPriority(l, Priority[t]) = {} THEN @ \ {Priority[t]} ELSE @,
                !.waiters  = Without(@, t),
                !.defunct  = Without(@, t)]

\* Mutant of Interrupted: only the core of a bound thread is told.
InterruptedBound(t, c) == IF bind_cpu[t] = NoCpu THEN {} ELSE {bind_cpu[t]} \ {c}

\* The cores that rt_schedule_insert_thread, run by core c, interrupts.
Interrupted(t, c) == (IF bind_cpu[t] = NoCpu THEN CPUs ELSE {bind_cpu[t]}) \ {c}

\* Mutant of InsertThread: a thread that is still on a core is left as it is.
InsertThreadOff(r, t, c) ==
  IF r.oncpu[t] # NoCpu
    THEN r
    ELSE [r EXCEPT !.stat[t] = "READY",
                   !.ready[bind_cpu[t]] = Append(@, t),
                   !.group[bind_cpu[t]] = @ \cup {Priority[t]},
                   !.ipi = @ \cup Interrupted(t, c)]

\* rt_schedule_insert_thread on core c: a thread that is still on a core just
\* goes on running.
InsertThread(r, t, c) ==
  IF r.oncpu[t] # NoCpu
    THEN [r EXCEPT !.stat[t] = "RUNNING"]
    ELSE [r EXCEPT !.stat[t] = "READY",
                   !.ready[bind_cpu[t]] = Append(@, t),
                   !.group[bind_cpu[t]] = @ \cup {Priority[t]},
                   !.ipi = @ \cup Interrupted(t, c)]

\* _get_highest_priority_thread: the core's own list wins a tie.
Highest(r, c) ==
  LET q == IF \E p \in r.group[NoCpu] : \A o \in r.group[c] : p < o THEN NoCpu ELSE c
      p == Min(r.group[q])
  IN  r.ready[q][Min(OfPriority(r.ready[q], p))]

\* The current thread goes on rather than give way to thread "to".
Stays(r, cur, to) ==
  /\ r.stat[cur] = "RUNNING"
  /\ \/ Priority[cur] < Priority[to]
     \/ Priority[cur] = Priority[to] /\ ~r.yield[cur]

\* The switch from the current thread of core c to thread "to".
Switch(r, c, to) ==
  LET cur == r.current[c]
      off == [r EXCEPT !.oncpu[cur] = NoCpu]
      put == IF r.stat[cur] = "RUNNING"
               THEN InsertThread([off EXCEPT !.yield[cur] = FALSE], cur, c)
               ELSE off
  IN  [RemoveThread(put, to) EXCEPT !.oncpu[to] = c, !.stat[to] = "RUNNING", !.current[c] = to]

\* What rt_schedule does, outside an interrupt and with the scheduler not
\* locked, and rt_scheduler_do_irq_switch at the end of one.
Schedule(r, c) ==
  IF r.group[NoCpu] \cup r.group[c] = {} \/ Stays(r, r.current[c], Highest(r, c))
    THEN r
    ELSE Switch(r, c, Highest(r, c))

-----------------------------------------------------------------------------
(***************************************************************************)
(* thread.c, and heap_sem.  Thread t takes a step on core c, on which it   *)
(* runs; u is a thread that "main" makes.                                  *)
(***************************************************************************)
Suspended(r, t) == [RemoveThread(r, t) EXCEPT !.stat[t] = "SUSPEND"]

\* rt_thread_resume of a suspended thread.
Resumed(r, t, c) == InsertThread([r EXCEPT !.waiters = Without(@, t)], t, c)

\* The end of rt_thread_delete and rt_thread_exit.
Closed(r, t) == [RemoveThread(r, t) EXCEPT !.stat[t] = "CLOSE", !.defunct = <<t>> \o @]

\* Thread t runs its own code on core c.
Runs(t, c) == s.current[c] = t /\ irq[c] = "none" /\ s.stat[t] # "freed"

Unlocked == cpus_lock = NoCpu

At(t, place) == pc[t] = place
Goto(t, place) == pc' = [pc EXCEPT ![t] = place]

\* The end of rt_thread_create and rt_thread_create_periodic.  Its use of the
\* heap before that is TakeHeap and ReleaseHeap.
Create(t, c, u) ==
  /\ At(t, "job") /\ critical_lock # t /\ Unlocked
  /\ s.stat[u] = "none"
  /\ s' = [s EXCEPT !.stat[u] = "INIT", !.yield[u] = FALSE]
  /\ Goto(u, "job")
  /\ UNCHANGED <<value, timers, interrupts, locks, victim, history>>

\* rt_thread_startup.  A periodic thread stays in RT_THREAD_INIT until its
\* period timer expires.
Startup(t, c, u) ==
  /\ At(t, "job") /\ critical_lock # t /\ Unlocked
  /\ s.stat[u] = "INIT" /\ u \notin period_timer
  /\ IF u \in Periodic
       THEN /\ period_timer' = period_timer \cup {u}
            /\ UNCHANGED <<s, pc>>
       ELSE /\ s' = Resumed(Suspended(s, u), u, c)
            /\ Goto(t, "sched")
            /\ UNCHANGED period_timer
  /\ UNCHANGED <<value, timer, interrupts, locks, victim, history>>

\* rt_thread_delete of a thread that was not started, as in sps_init.
DeleteInit(t, c, u) ==
  /\ At(t, "job") /\ critical_lock # t /\ Unlocked
  /\ s.stat[u] = "INIT" /\ u \notin period_timer
  /\ s' = Closed(s, u)
  /\ UNCHANGED <<value, timers, interrupts, locks, pc, victim, history>>

\* Mutant of Exit: the kernel lock is given back before rt_schedule.
ExitUnlocked(t, c) ==
  /\ At(t, "job") /\ critical_lock # t /\ Unlocked
  /\ t \in Threads \ (Periodic \cup Sleepers)
  /\ s' = Closed(s, t)
  /\ timer' = timer \ {t}
  /\ Goto(t, "sched")
  /\ UNCHANGED <<value, period_timer, interrupts, locks, victim, history>>

\* rt_thread_exit: the entry function of a thread has returned.
Exit(t, c) ==
  /\ At(t, "job") /\ critical_lock # t /\ Unlocked
  /\ t \in Threads \ (Periodic \cup Sleepers)
  /\ s' = Schedule(Closed(s, t), c)
  /\ timer' = timer \ {t}
  /\ UNCHANGED <<value, period_timer, interrupts, locks, pc, victim, history>>

\* rt_thread_sleep, up to the call of rt_schedule.
Sleep(t, c) ==
  /\ At(t, "job") /\ t \in Sleepers \ killed /\ critical_lock # t /\ Unlocked
  /\ s' = Suspended(s, t)
  /\ timer' = timer \cup {t}
  /\ Goto(t, "sched")
  /\ UNCHANGED <<value, period_timer, interrupts, locks, victim, history>>

\* rt_periodic_task_f suspends the thread after the job: rt_thread_suspend
\* refuses if the thread was deleted meanwhile, which it tests with no lock,
JobTest(t, c) ==
  /\ At(t, "job") /\ t \in Periodic
  /\ Goto(t, IF s.stat[t] = "RUNNING" THEN "end" ELSE "sched")
  /\ UNCHANGED <<s, value, timers, interrupts, locks, victim, history>>

\* and suspends the thread with the lock.
JobEnd(t, c) ==
  /\ At(t, "end") /\ Unlocked
  /\ s' = Suspended(s, t)
  /\ timer' = timer \ {t}
  /\ Goto(t, "sched")
  /\ UNCHANGED <<value, period_timer, interrupts, locks, victim, history>>

\* rt_sem_take(&heap_sem, RT_WAITING_FOREVER), up to the call of rt_schedule.
TakeHeap(t, c) ==
  /\ t \notin Periodic /\ critical_lock # t /\ Unlocked
  /\ At(t, IF t \in IdleThreads THEN "free" ELSE "job")
  /\ IF value > 0
       THEN /\ value' = value - 1
            /\ Goto(t, "heap")
            /\ UNCHANGED <<s, timer>>
       ELSE /\ s' = [Suspended(s, t) EXCEPT !.waiters = Append(@, t)]
            /\ timer' = timer \ {t}
            /\ Goto(t, "take")
            /\ UNCHANGED value
  /\ UNCHANGED <<period_timer, interrupts, locks, victim, history>>

\* Mutant of ReleaseHeap: the value is increased also when a thread is resumed.
ReleaseHeapTwice(t, c) ==
  /\ At(t, "heap") /\ Unlocked
  /\ value' = value + 1
  /\ LET r == IF t \in IdleThreads THEN [s EXCEPT !.stat[victim] = "freed"] ELSE s
     IN  s' = IF s.waiters = <<>> THEN r ELSE Resumed(r, Head(s.waiters), c)
  /\ Goto(t, IF s.waiters = <<>> THEN "job" ELSE "sched")
  /\ victim' = IF t \in IdleThreads THEN NoThread ELSE victim
  /\ UNCHANGED <<timers, interrupts, locks, history>>

\* rt_sem_release(&heap_sem), up to the call of rt_schedule.  The idle thread
\* has then freed the dead thread, its stack and its object being one here.
ReleaseHeap(t, c) ==
  /\ At(t, "heap") /\ Unlocked
  /\ LET r == IF t \in IdleThreads THEN [s EXCEPT !.stat[victim] = "freed"] ELSE s
     IN  IF s.waiters = <<>>
           THEN /\ value' = value + 1
                /\ s' = r
                /\ Goto(t, "job")
                /\ UNCHANGED timer
           ELSE /\ s' = Resumed(r, Head(s.waiters), c)
                /\ timer' = timer \ {Head(s.waiters)}
                /\ Goto(t, "sched")
                /\ UNCHANGED value
  /\ victim' = IF t \in IdleThreads THEN NoThread ELSE victim
  /\ UNCHANGED <<period_timer, interrupts, locks, history>>

\* rt_schedule, called by thread t, and its return when t runs again.
CallSchedule(t, c) ==
  /\ pc[t] \in {"take", "sched"} /\ Unlocked
  /\ s' = Schedule(s, c)
  /\ Goto(t, IF At(t, "take") THEN "heap" ELSE "job")
  /\ UNCHANGED <<value, timers, interrupts, locks, victim, history>>

\* rt_enter_critical and rt_exit_critical, which calls rt_schedule.  Neither
\* needs the kernel lock.
EnterCritical(t, c) ==
  /\ At(t, "job") /\ critical_lock = NoThread
  /\ critical_lock' = t
  /\ UNCHANGED <<s, value, timers, interrupts, cpus_lock, pc, victim, history>>

ExitCritical(t, c) ==
  /\ critical_lock = t
  /\ critical_lock' = NoThread
  /\ Goto(t, "sched")
  /\ UNCHANGED <<s, value, timers, interrupts, cpus_lock, victim, history>>

-----------------------------------------------------------------------------
(***************************************************************************)
(* idle.c, on core 0: rt_thread_idle_excute takes a thread from            *)
(* rt_thread_defunct, waits for rt_enter_critical with the kernel lock     *)
(* held, and then frees the memory, for which it needs heap_sem.           *)
(***************************************************************************)
Reclaim(t, c) ==
  /\ t = Idle[Cpu0] /\ At(t, "job") /\ Unlocked /\ s.defunct # <<>>
  /\ victim' = Head(s.defunct)
  /\ s' = [s EXCEPT !.defunct = Tail(@)]
  /\ cpus_lock' = c
  /\ Goto(t, "spin")
  /\ UNCHANGED <<value, timers, interrupts, critical_lock, history>>

ReclaimUnlock(t, c) ==
  /\ At(t, "spin") /\ critical_lock = NoThread
  /\ cpus_lock' = NoCpu
  /\ Goto(t, "free")
  /\ UNCHANGED <<s, value, timers, interrupts, critical_lock, victim, history>>

-----------------------------------------------------------------------------
(***************************************************************************)
(* Interrupts of core c: the tick, with the timeout functions of threads,  *)
(* and the request of another core to schedule.                            *)
(***************************************************************************)
Enter(c, phase) == irq[c] = "none" /\ cpus_lock # c /\ irq' = [irq EXCEPT ![c] = phase]
Phase(c, from, to) == irq[c] = from /\ irq' = [irq EXCEPT ![c] = to]

\* A tick at which no time slice ends and no timer expires.  It matters only
\* to a core that has yet to switch or whose thread is in rt_enter_critical,
\* and is left out elsewhere.
Tick(c) ==
  /\ Enter(c, "exit") /\ (critical_lock = s.current[c] \/ c \in irq_switch_flag)
  /\ UNCHANGED <<s, value, timers, old_stat, irq_switch_flag, locks, pc, victim, history>>

\* rt_tick_increase sets RT_THREAD_STAT_YIELD with no lock: it reads stat,
SliceRead(c) ==
  /\ Enter(c, "slice") /\ s.current[c] \in Sliced
  /\ old_stat' = [old_stat EXCEPT ![c] = s.stat[s.current[c]]]
  /\ UNCHANGED <<s, value, timers, irq_switch_flag, locks, pc, victim, history>>

\* and writes it back.
SliceWrite(c) ==
  LET t == s.current[c] IN
  /\ Phase(c, "slice", "exit")
  /\ s' = [s EXCEPT !.stat[t] = old_stat[c], !.yield[t] = TRUE]
  /\ overwritten' = IF s.stat[t] = old_stat[c] THEN overwritten ELSE overwritten \cup {t}
  /\ irq_switch_flag' = irq_switch_flag \cup {c}
  /\ old_stat' = [old_stat EXCEPT ![c] = "none"]
  /\ UNCHANGED <<value, timers, locks, pc, victim, killed>>

\* rt_thread_timeout: the thread_timer of thread u, which was in the list,
\* expires.
Timeout(c, u) ==
  /\ Enter(c, "exit") /\ Unlocked
  /\ s' = Resumed(s, u, c)
  /\ timer' = timer \ {u}
  /\ irq_switch_flag' = irq_switch_flag \cup {c}
  /\ UNCHANGED <<value, period_timer, old_stat, locks, pc, victim, history>>

\* rt_thread_timer_f: the period of thread u ends, and it is started or
\* resumed.
Period(c, u) ==
  /\ Enter(c, "exit") /\ Unlocked /\ s.stat[u] \in {"INIT", "SUSPEND"}
  /\ s' = Resumed(IF s.stat[u] = "INIT" THEN Suspended(s, u) ELSE s, u, c)
  /\ timer' = timer \ {u}
  /\ irq_switch_flag' = irq_switch_flag \cup {c}
  /\ UNCHANGED <<value, period_timer, old_stat, locks, pc, victim, history>>

\* rt_thread_timer_f: the period ends before the job of thread u does.
Overrun(c, u) ==
  /\ Enter(c, "exit") /\ Unlocked /\ s.stat[u] \notin {"INIT", "SUSPEND"}
  /\ period_timer' = period_timer \ {u}
  /\ s' = Closed(s, u)
  /\ timer' = timer \ {u}
  /\ killed' = IF s.oncpu[u] = NoCpu THEN killed ELSE killed \cup {u}
  /\ UNCHANGED <<value, old_stat, irq_switch_flag, locks, pc, victim, overwritten>>

\* rt_scheduler_ipi_handler
Ipi(c) ==
  /\ Enter(c, "exit") /\ c \in s.ipi
  /\ s' = [s EXCEPT !.ipi = @ \ {c}]
  /\ irq_switch_flag' = irq_switch_flag \cup {c}
  /\ UNCHANGED <<value, timers, old_stat, locks, pc, victim, history>>

\* Mutant of IrqExit: the lock on the scheduler is not looked at.
IrqExitAlways(c) ==
  /\ Phase(c, "exit", "none") /\ Unlocked
  /\ IF c \in irq_switch_flag
       THEN s' = Schedule(s, c) /\ irq_switch_flag' = irq_switch_flag \ {c}
       ELSE UNCHANGED <<s, irq_switch_flag>>
  /\ UNCHANGED <<value, timers, old_stat, locks, pc, victim, history>>

\* rt_scheduler_do_irq_switch
IrqExit(c) ==
  /\ Phase(c, "exit", "none") /\ Unlocked
  /\ IF c \in irq_switch_flag /\ critical_lock # s.current[c]
       THEN s' = Schedule(s, c) /\ irq_switch_flag' = irq_switch_flag \ {c}
       ELSE UNCHANGED <<s, irq_switch_flag>>
  /\ UNCHANGED <<value, timers, old_stat, locks, pc, victim, history>>

-----------------------------------------------------------------------------
\* The system as rt_application_init leaves it: thread "main" on core 0.
Init ==
  /\ LET on == [c \in CPUs |-> IF c = Cpu0 THEN Main ELSE Idle[c]]
         running == {on[c] : c \in CPUs}
     IN  s = [stat    |-> [t \in All |-> IF t \in running THEN "RUNNING"
                                         ELSE IF t \in IdleThreads THEN "READY" ELSE "none"],
              yield   |-> [t \in All |-> FALSE],
              oncpu   |-> [t \in All |-> IF t \in running THEN CHOOSE c \in CPUs : on[c] = t
                                         ELSE NoCpu],
              ready   |-> [q \in CPUs \cup {NoCpu} |-> IF q = Cpu0 THEN <<Idle[Cpu0]>> ELSE <<>>],
              group   |-> [q \in CPUs \cup {NoCpu} |-> IF q = Cpu0 THEN {Priority[Idle[Cpu0]]} ELSE {}],
              current |-> on,
              ipi     |-> {},
              waiters |-> <<>>,
              defunct |-> <<>>]
  /\ value = 1
  /\ timer = {} /\ period_timer = {}
  /\ irq = [c \in CPUs |-> "none"]
  /\ old_stat = [c \in CPUs |-> "none"]
  /\ irq_switch_flag = {}
  /\ cpus_lock = NoCpu /\ critical_lock = NoThread
  /\ pc = [t \in All |-> "job"]
  /\ victim = NoThread
  /\ killed = {} /\ overwritten = {}

\* What the code does from here on is undefined: a thread went on although
\* it is suspended or closed, because rt_schedule found no thread for the
\* core, or a deleted thread has the stat of a living one.
Undefined ==
  \/ \E c \in CPUs : LET t == s.current[c] IN
       /\ pc[t] \in {"job", "heap"} /\ irq[c] = "none"
       /\ s.stat[t] = "SUSPEND" \/ (s.stat[t] = "CLOSE" /\ t \notin killed)
  \/ killed \cap overwritten # {}

\* Main makes the threads and is the one to lock the scheduler.
MainStep(t, c) ==
  \/ \E u \in Threads : Create(t, c, u) \/ Startup(t, c, u) \/ DeleteInit(t, c, u)
  \/ EnterCritical(t, c)
  \/ ExitCritical(t, c)

ThreadStep(t, c) ==
  \/ Exit(t, c)
  \/ Sleep(t, c)
  \/ JobTest(t, c)
  \/ JobEnd(t, c)
  \/ TakeHeap(t, c)
  \/ ReleaseHeap(t, c)
  \/ CallSchedule(t, c)
  \/ Reclaim(t, c)
  \/ ReclaimUnlock(t, c)

IrqStep(c) ==
  \/ Tick(c)
  \/ SliceRead(c)
  \/ SliceWrite(c)
  \/ \E u \in timer : Timeout(c, u)
  \/ \E u \in period_timer : Period(c, u) \/ Overrun(c, u)
  \/ Ipi(c)
  \/ IrqExit(c)

Next ==
  /\ ~Undefined
  /\ \E c \in CPUs : \/ IrqStep(c)
                    \/ LET t == s.current[c] IN
                       Runs(t, c) /\ (ThreadStep(t, c) \/ (t = Main /\ MainStep(t, c)))

Spec == Init /\ [][Next]_vars

-----------------------------------------------------------------------------
In(t, l) == Contains(l, t)

\* What the lists, the states and the bit maps say of the threads agrees: a
\* thread is in the ready list of its core or of all cores, once, exactly if
\* it is ready; a core runs the thread whose oncpu names it; a priority is in
\* priority_group exactly if a thread of the list has it, so that
\* _get_highest_priority_thread finds one.  rt_schedule relies on all of it.
ListsAgree ==
  /\ \A q \in CPUs \cup {NoCpu} : LET l == s.ready[q] IN
       /\ {l[k] : k \in DOMAIN l} = {t \in All : s.stat[t] = "READY" /\ bind_cpu[t] = q}
       /\ IsInjective(l)
       /\ s.group[q] = {Priority[l[k]] : k \in DOMAIN l}
  /\ \A c \in CPUs : {t \in All : s.oncpu[t] = c} = {s.current[c]}
  /\ \A t \in All : s.stat[t] = "RUNNING" => s.oncpu[t] # NoCpu

\* rt_schedule "will select one thread with the highest priority level": no
\* ready thread is more urgent than the one a core runs, unless the core is
\* about to schedule (an interrupt, or a call of rt_schedule to come) or runs
\* with the scheduler locked.  Every rt_schedule_insert_thread is followed by
\* a call of rt_schedule on this core and announced to the others.
MostUrgentRuns ==
  \A c \in CPUs : LET t == s.current[c] IN
    \/ c \in s.ipi \/ irq[c] # "none"
    \/ pc[t] \in {"take", "sched"} \/ critical_lock = t
    \/ s.stat[t] # "RUNNING"
    \/ \A p \in s.group[NoCpu] \cup s.group[c] : Priority[t] <= p

\* Whoever is suspended will be resumed: it waits for heap_sem, or for a
\* timer.  The window between rt_thread_suspend and rt_schedule, in which
\* another core may resume the thread, loses nothing.  Two others do: the time
\* slice that ends in this window (rt_tick_increase, "thread->stat |= ..."),
\* and the end of a period between the test and the lock in rt_thread_suspend,
\* which takes the thread out of rt_thread_defunct again.
SuspendedIsAwaited ==
  \A t \in All : s.stat[t] = "SUSPEND" =>
    \/ In(t, s.waiters) \/ t \in timer \cup period_timer
    \/ t \in overwritten \cup (killed \cap Periodic)

\* rt_thread_timeout asserts that its thread is suspended, and nothing of a
\* thread whose memory is freed is still in use: it is on no core, in no list,
\* and has no timer.  rt_thread_exit gives the core up before the idle thread
\* can free the stack; rt_thread_timer_f, which deletes a thread that runs on
\* a core, does not see to that.
FreedIsUnused ==
  /\ \A t \in timer : s.stat[t] = "SUSPEND"
  /\ \A t \in Threads : s.stat[t] = "freed" =>
       /\ s.oncpu[t] = NoCpu \/ t \in killed
       /\ t \notin timer \cup period_timer
       /\ ~In(t, s.waiters) /\ ~In(t, s.defunct)

\* The threads that have heap_sem: they took it, or it was handed to them.
Holders == {t \in All : pc[t] \in {"heap", "take"} /\ ~In(t, s.waiters)}

\* heap_sem "protects the heap from concurrent access": it is available or
\* one thread has it, and no other thread works on the heap.  The exception is
\* the idle thread, which frees the memory of dead threads and may have to
\* wait: rt_schedule then finds no other thread for the core and returns, and
\* rt_sem_take takes that for the hand-over.
HeapExclusive ==
  /\ value + Cardinality(Holders) = 1
  /\ \A c \in CPUs : LET t == s.current[c] IN
       pc[t] = "heap" /\ In(t, s.waiters) => s.stat[Idle[c]] = "SUSPEND"

\* An interrupt keeps the thread in rt_enter_critical from running and waits
\* for the kernel lock, whose holder waits for that thread.
Inverted ==
  \E c \in CPUs : irq[c] = "exit" /\ critical_lock = s.current[c] /\ cpus_lock \notin {NoCpu, c}

\* When the idle thread waits in rt_enter_critical with the kernel lock held,
\* the thread it waits for is on the other core and runs, so that the wait
\* ends.  The exception is a deadlock of the two cores: that thread is
\* interrupted, and the interrupt waits for the kernel lock.
SpinEnds ==
  cpus_lock # NoCpu =>
    \/ critical_lock = NoThread
    \/ \E c \in CPUs \ {cpus_lock} : Runs(critical_lock, c)
    \/ \E c \in CPUs : irq[c] = "slice" /\ s.current[c] = critical_lock
    \/ Inverted

=============================================================================
