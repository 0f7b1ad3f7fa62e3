# Verification of the Smart Power Switch

TLA+ models of the Smart Power Switch (SPS), an application on the RT-Thread
4.0.2 kernel, and of the kernel objects it rests on. TLC checks small
instances of them; TLAPS proves the main invariants for every value of the
constants. Paths below are relative to the repository.

## The system

The application (`applications/`, about 800 lines) simulates a power switch for
a farm of four machines. It has nine threads, which `main` creates and starts:

| thread | code | kind | what it does |
|---|---|---|---|
| host_action | `host.c` action_thread | periodic, 500 ticks | toggles machines in host->targets, mails the command |
| host_irq_out | `host.c` feedback_irq_out | handler | marks machines the SPS reports as down |
| sps_irq_in | `sps.c` irq_in_handler | handler | applies a command: drives the power lines, records the status |
| sps_ping | `sps.c` ping_thread | periodic, 100 ticks | pings machines, counts missing answers, declares machines frozen |
| sps_irq_out | `sps.c` irq_out_handler | handler | forwards a status report to the host |
| target0..3 | `target.c` simulation_thread_entry | periodic, 10..99 ticks | answers pings, obeys its power line, freezes at random |

They share two mutexes (host->target_mutex, sps->target_mutex) and twelve
mailboxes: irq_in (host to SPS, one place), irq_out (SPS to host, one place),
mb_ping_irq (four places), mb_ping_ack (four places, all machines), and for
each machine mb_ping and gpio (one place each). Every send is `rt_mb_send`,
which does not wait: a mail that finds its mailbox full is lost.

The kernel (`rt-thread/src`) is built for two cores (`rtconfig.h`: RT_USING_SMP,
RT_CPUS_NR 2). `rt_hw_interrupt_disable` takes the one kernel lock
(rt_cpus_lock), so a critical section of the kernel is one atomic step, and a
call is one step up to the point where it suspends its thread. This repository
adds periodic threads to `thread.c` (rt_thread_create_periodic,
rt_periodic_task_f, rt_thread_timer_f).

`PROJECT.json` lists every part of the repository, modelled or not, the source
lines of every definition, and the hazards the properties were chosen for.

## The modules

| module | models | state and actions |
|---|---|---|
| `Sps` | host, SPS and machines | the status arrays, counters, mutexes, mailboxes and a label per thread; one action per step of a thread between two points another thread can observe. Jobs start at any time. |
| `SpsTimed` | the same under the periods | adds which jobs the timers have released (`Tick`) |
| `SpsVerdict` | history for verdicts | how many ping jobs overlooked a frozen machine; whether the counter was 0 at power-on |
| `MCSpsAckFull` | some behaviours of SpsVerdict | four machines, releases after a script |
| `SpsStartup` | `main`, the init, start and delete functions | which kernel objects exist, what is left to undo |
| `RtList` | rt_list_t (`rtservice.h`) | insertion into and removal from a list, as sequences |
| `RtIpc` | suspend lists (`ipc.c`) | operators on sequences of threads, by arrival or by priority |
| `RtMailbox` | rt_mb_* | ring, offsets, counter, two suspend lists, the calls threads are in |
| `BoundedFifo` | what a mailbox promises | a bounded queue; abstract specification of RtMailbox |
| `RtMutex` | rt_mutex_take, rt_mutex_release | owner, count, nesting, priorities, suspend list |
| `PeriodicMutex` | rt_thread_timer_f on users of a mutex | RtMutex and the life of the threads |
| `RtTimer` | hard timers (`timer.c`), the tick (`clock.c`) | the sorted list, the tick that wraps, each timer's flag and times, how far a thread is in a call and a core in rt_timer_check |
| `Countdown` | what timers promise | ticks left of each running timer; abstract specification of RtTimer |
| `RtMem` | rt_malloc, rt_free, rt_realloc (`mem.c`) | the headers with their links, lfree, used_mem, the pointers callers hold, the locals of rt_realloc |
| `Heap` | what a heap promises | address and size of each block handed out; abstract specification of RtMem |
| `RtSched` | threads on two cores (`scheduler.c`, `thread.c`, `clock.c`, `idle.c`, `cpu.c`, heap_sem of `mem.c`) | ready lists and bit maps, stat and core of each thread, interrupts, the kernel lock, the scheduler lock, heap_sem, the defunct list, timers; one action per stretch of code under the kernel lock |
| `SpsProof`, `RtIpcProof`, `RtMailboxProof`, `RtMutexProof`, `RtTimerProof`, `RtMemProof`, `RtSchedProof`, `RtSchedUrgency` | | lemmas and theorems |
| `MCRtMailbox`, `MCRtMutex`, `MCPeriodicMutex`, `MCRtTimer`, `MCRtSched` | | threads, priorities, timers and their times for TLC |

How they fit together: `Sps` uses its mailboxes and mutexes through `Sent`,
`Take` and `Release`, that is, as a bounded queue and as an exclusive lock. That
RT-Thread's objects are these is what `RtMailbox` (it implements `BoundedFifo`)
and `RtMutex` (TakenMeansOwned) show. What becomes of the lock when a period
ends too early is the subject of `PeriodicMutex`; in `SpsTimed` it does not.
`RtSched` and `SpsTimed` let a timer that was started expire some time later and
in the order of deadlines; that the list of `timer.c` does this although the
tick wraps is what `RtTimer` shows (it implements `Countdown`). `RtMem` makes each
critical section of the heap one step; that heap_sem allows it, and the one case
in which it does not, is HeapExclusive of `RtSched`. The suspend and resume that
`RtMailbox` and `RtMutex` take as a change of a list are in `RtSched` what they
are in the kernel: a state that is set, and a call of rt_schedule that follows.

Abstractions. A mail with one bit per machine is the set of machines whose bit
is 1. `rand()` is a choice. Texts printed to the console are left out.
The counter targets_pong keeps its width (PongRange = 256), as do mutex->hold
(HoldRange) and the loop variable of `__sps_init_mailboxes` (ByteRange). In
`RtMailbox` the ticks left of a timeout are abstracted to none, some, some of
which a part is used, and forever. A thread that `rt_thread_timer_f` deletes
takes no more steps in `PeriodicMutex`. `RtMem` counts addresses in units of
RT_ALIGN_SIZE and has no contents of blocks. `RtTimer` keeps the width of
rt_tick_t (TickRange) and lets any thread use a timer, one at a time. In `RtSched`
the code between kernel calls is a place ("job", "heap"), and a thread's stack
and its object, which the idle thread frees one after the other, are one block.

`Tick` of `SpsTimed` is the one place where scheduling is assumed: a tick is
10 ms and a job a few microseconds, so the jobs released in a tick and the
handlers they wake are done before the next release. Within a tick everything
interleaves. Between two releases of sps_ping each machine is released at least
once, since its period is at most 99 ticks.

## The runs

| run | module | bounds | states | shows |
|---|---|---|---|---|
| sps_timed | SpsTimed | 2 machines | 2.5 M | TypeOK, TargetsGuarded, ReportsNameAFailure, PowerLineAgrees, DisplayedOnIsOn, AckBacklog, PowerTransitions |
| sps_verdict | SpsVerdict | 1 machine | 32 k | DetectionBound, CleanVerdictIsTrue, FrozenIsDisplayed, SwitchedOnComesUp |
| sps_verdict_stale | SpsVerdict | 1 machine | | VerdictIsTrue is violated |
| sps_verdict_ack_full | MCSpsAckFull | 4 machines, scripted releases | | CleanVerdictIsTrue is violated |
| sps_display_down | SpsTimed | 2 machines | | DisplayedDownIsDown is violated |
| sps_startup | SpsStartup | 4 machines | 256 | DeletesWhatExists, StartedFindsObjects, FailureLeavesTargets |
| rt_mailbox | MCRtMailbox | 3 threads of 2 priorities, 2 places, 2 mails | 756 k | RingConsistent, NoLostWakeup, ImplementsFifo |
| rt_mutex | MCRtMutex | 3 threads, 3 priorities, nesting 2, both orders of waiting | 1540 | TakenMeansOwned, NoStrandedOwner, PriorityRestored, NoInversion, WaitEnds |
| periodic_overrun | MCPeriodicMutex | 3 threads, 2 of them periodic | | TakenIsOwned is violated |
| rt_timer | MCRtTimer | 2 timers, 2 cores, TickRange 11, times up to 2, MaxLate 1 | 359 k | TypeOK, StopSticks, FlagTellsTheTruth, ImplementsCountdown |
| rt_mem | RtMem | 9 units, headers of 1, smallest block 2, 2 clients in rt_realloc | 138 k | TypeOK, Tiled, NoFreeNeighbours, UsedMemCounts, LfreeIsLowest, WalkFindsFirst, CopyFits, ImplementsHeap |
| rt_sched | MCRtSched | 3 threads (1 periodic) and 2 idle threads, 2 cores | 1.5 M | ListsAgree, MostUrgentRuns, SuspendedIsAwaited, FreedIsUnused, HeapExclusive, SpinEnds |

Why the bounds are enough. All numbers of the application other than the number
of machines are those of the code: three missing answers, four places in
mb_ping_ack and mb_ping_irq, five pings per host job. The machines meet only in
the words on irq_in, irq_out and mb_ping_irq and in mb_ping_ack. Two machines
are the four-machine system with two that are never switched on: each word can
then speak of one machine and disturb the other. They cannot overfill
mb_ping_ack, as no machine has more than two answers in it (AckBacklog); that
case needs four and has a run of its own. A machine's verdict and its liveness
depend on its own answers and lines as long as mb_ping_ack is not full, hence
one machine there; that a report is not lost to reports about another machine
is DisplayedOnIsOn, checked with two. For the kernel objects three threads allow one to be inside,
one resumed and one waiting or arriving, which is what races need; two places
make the ring wrap, and a mutex nested twice tells a last release from others.

For the timers, the assumption of the proofs (MaxInit + MaxLate + 1 below half
of the range) leaves 11 as the smallest range with times up to 2 and a lateness
of 1. A counter that small wraps every few steps. One timer changes between
one-shot and periodic and may have time 0, the other expires with every tick, so
equal deadlines, deadlines on both sides of the wrap and restarts in between
occur. Nine units of heap hold three blocks of the smallest size with a header,
which is what it takes to free the middle one before, between and after its
neighbours; two clients make another thread's rt_free and rt_malloc come between
the critical sections of rt_realloc. For the scheduler, main and work have the
same priority and compete for cores and heap, ping is more urgent and periodic:
there are more threads than cores, one preempts, one yields, and the idle
threads have dead ones to free. Who sleeps, is sliced or exits is fixed for each
thread (Sleepers, Sliced) to keep the number of states in bounds. An interrupt
can come between any two steps of a thread.

Deadlock is checked except in SpsStartup, where `main` returns, in
PeriodicMutex, where a thread deleted with the mutex held really leaves the
others waiting forever, in the scripted MCSpsAckFull, which ends, and in
RtSched: there the two cores can really stop (`Inverted`), and the model ends
where the code's behaviour is undefined (`Undefined`: a thread goes on although
it is suspended or closed, or a deleted thread has the state of a living one).

Fairness. In `FairVerdictSpec` some enabled step is always taken and each period
timer expires again and again: the timer interrupt never stops and
rt_timer_check starts a periodic timer again after each expiry. (Strong fairness
of a tick, because a tick waits until nothing is left to do.) In `RtMutex` a
ready thread eventually runs, and the owner releases its last hold in the end,
as the sections of the application do, which contain no wait.

## What the violated properties mean

* **VerdictIsTrue** (`sps.c:161`): irq_in_handler does not reset targets_pong, so
  a machine that is switched off with missing answers on its count and on again
  can be declared frozen before it had a chance to answer.
* **CleanVerdictIsTrue** with four machines (`sps.c:195`): answers to the previous
  ping that came after the ping job drained mb_ping_ack wait there for the next
  job. Together with early answers to the next ping they fill the four places
  and the fourth machine's answer is refused. If the periods shift the machines
  suitably (75, 80, 80 and 50 ticks do) this happens in two jobs running, and a
  machine that answered every ping is declared frozen.
* **DisplayedDownIsDown** (`host.c:82`): a report made before a power-on command
  and received after the host recorded it makes the host show the machine as
  down. The next command then switches the running machine off, because its
  bit is 0.
* **TakenIsOwned** (`thread.c:462`): rt_thread_timer_f resumes a thread that waits
  in rt_mutex_take. The call finds error RT_EOK and reports success while another
  thread owns the mutex. The application is exposed only if a job waits for
  longer than its period, which `SpsTimed` assumes not to happen.

Smaller differences between documents and code, without a run: `README.md`
says an answer to a ping is one-hot, `target.c:38` sends the index; `target.c:107`
says the period is 10-100, the code draws 10..99; the gpio that `sps.c:233` says
"has not been created yet" does exist if it was an mb_ping whose creation
failed, and the loop it is in never ends, as j is an rt_uint8_t and j >= 0 always
holds (`UndoBeyond`; see DeletesWhatExists).

## The exceptions the properties name

Some properties hold but for a case that the property itself spells out. Each
case is reachable in the run, and without it the property would be violated.

* **SuspendedIsAwaited**, `overwritten` (`clock.c:92`): rt_tick_increase sets
  RT_THREAD_STAT_YIELD with a read and a write and no lock. If another core
  resumes the thread in between, the old state, suspended, is written back. The
  thread is in a ready list or on a core, and its state says it is suspended.
* **SuspendedIsAwaited**, `killed` (`thread.c:807`): rt_thread_suspend tests the
  state before it takes the lock. If the period of the thread ends in between,
  rt_thread_timer_f puts it on the defunct list and rt_thread_suspend takes it
  out again: it is suspended forever and its memory is lost.
* **FreedIsUnused**, `killed` (`thread.c:473`): rt_thread_timer_f deletes a thread
  that still runs. The idle thread of the other core can free its stack while
  it is on its core. The application is exposed only if a job is longer
  than its period, which `SpsTimed` assumes not to happen.
* **HeapExclusive** (`idle.c:224`, `mem.c:578`): the idle thread frees the memory of
  dead threads and thereby takes heap_sem. If it has to wait, rt_schedule
  finds no other thread for the core and returns, and rt_sem_take reports
  success. The idle thread then works on the heap together with the thread that
  has the semaphore.
* **SpinEnds**, `Inverted` (`idle.c:183`): the idle thread waits in
  rt_enter_critical with interrupts disabled, that is, with the kernel lock held.
  If the thread that has the scheduler lock is interrupted and the interrupt
  needs the kernel lock, both cores wait for each other.
* **FlagTellsTheTruth**, `restarted` (`timer.c:542`): after the timeout function of a
  one-shot timer rt_timer_check clears ACTIVATED, also if the function has
  started the timer again. rt_timer_stop then refuses to stop it.
* **LfreeIsLowest**, `shrunk` (`mem.c:131`, `mem.c:493`): lfree is the "pointer to the
  lowest free block"; rt_realloc that shortens a block leaves the rest of it free
  and does not lower lfree. rt_malloc may fail to find it, nothing else.

## What is proved

All theorems hold for every value of the constants that satisfies the ASSUMEs
of the modules (sizes positive, PongCount below PongRange, more than one ping per
host job, nesting below the range of hold, MaxInit + MaxLate + 1 below half of the
ticks, idle threads less urgent than all others), for any sets of threads, timers,
cores and clients. Only the count of threads in `RtMailbox` needs that they are
finitely many. One theorem, RunningIsNotGivenUp, has conditions of its own.

* `SpsProof`, for `Sps` and thus for any timing: **TypeCorrect**, **MutualExclusion**
  (TargetsGuarded), **ReportsAreTrue** (ReportsNameAFailure) and
  **PowerStatusTransitions** (PowerTransitions). The inductive invariant `IInv` adds
  `Pending`: loop indices are in range where they index an array, and what
  irq_in_handler is about to record, two steps after it looked, is still a
  change from OFF or to it, since it holds the mutex. PowerTransitions needs the mutex: the machine that a
  ping job declares frozen is still ON since irq_in_handler cannot be in between.
* `SpsProof`, for `SpsTimed`: **LinesAgree** (PowerLineAgrees), **DisplayIsTrue**
  (DisplayedOnIsOn) and **AnswersBounded** (AckBacklog). All three rest on what the
  periods exclude, and `TimedInv` says what that is. `OneCommand`: a command is in one
  place at a time, at the host, on irq_in or at irq_in_handler, and all of it
  before the first ping release after the host's. `LineInv`: a power line that
  the command has yet to reach is empty, because the machine was released
  between two pings and read it; the last word sent to a machine and the status
  recorded agree. This is where more than one ping per host job is needed: with
  one, the next command could meet a line that is not read yet. `OneReport`: likewise a
  report is in one place, so that no mailbox is full when it is sent. `DisplayInv`
  relates the display, the command in flight and the report in flight: a machine
  displayed as on and recorded as frozen is named by a report that is still to
  arrive. `AnswerInv`: a machine has at most one ping unanswered or answer waiting, or two
  between the ping and the drain of the same job.
* `SpsProof`, for `SpsVerdict`: **FreezeIsNoticed** (DetectionBound). `OverlookedInv`
  says that n jobs which overlooked a frozen machine have left n - 1 of its pings
  counted in targets_pong, or that the count is about to be cleared by an answer
  from before the freeze, and then n is 1. It holds whatever
  the capacity of mb_ping_ack: a lost answer only makes the verdict come sooner.
* `SpsProof`, for `SpsVerdict`: **RunningIsNotGivenUp** (CleanVerdictIsTrue), if
  PongCount is at least 3 and mb_ping_ack has two places for every machine. The
  code has PongCount 3 but only one place for every machine, and there the
  property is violated (sps_verdict_ack_full); the theorem says what would be
  enough, and with PongCount 2 it would fail for any capacity. `CleanInv`: from a
  counter of 0 the first ping may find the machine still off; it reads its line
  before the next ping, and from then on at most two pings are counted
  once the answers are read, since an answer that came too late for one job is
  there for the next. `RoomForAnswer` counts the places: no
  machine has more than two answers waiting and the one about to answer has at
  most one (AnswerInv), so the mailbox is not full.
* `RtMailboxProof`: **RingStaysConsistent** (RingConsistent) and **MailboxIsFifo**
  (ImplementsFifo). Every step of the mailbox puts a mail, takes one, clears the
  ring, prepares a mail or leaves ring and buffers alone (`StepKinds`);
  `PutAppends` and `TakeRemovesOldest` show what the first two do to the sequence
  of mails that the refinement mapping reads out of the ring. RingInv, the types
  of the ring with RingConsistent, is inductive.
* `RtMailboxProof`: **WakeupsAreNotLost** (NoLostWakeup). `WaitInv` adds that a
  suspended thread is in one list, that of its call, once, and without an error
  (`QueueInv`). Each call changes the number of mails by at most one and resumes
  one thread for it; `AwakeCount` does the counting.
* `RtIpcProof`: what insertion into and removal from a list do to its elements, its
  order and the absence of duplicates. The lemmas serve RtMailbox, RtMutex, RtTimer and
  RtSched.
* `RtMutexProof`: **MutexExcludes** (TakenMeansOwned), **MutexNotStranded**
  (NoStrandedOwner), **PriorityComesBack** (PriorityRestored) and
  **MutexNotInverted** (NoInversion). The invariant adds `CallInv`, which says what
  a thread inside rt_mutex_take can be (waiting, resumed as the owner, or timed
  out), and `PriorityInv`: the suspend list is sorted by priority with
  RT_IPC_FLAG_PRIO, original_priority is the owner's own, and the owner is as
  urgent as the first in the list. Sortedness is what makes the hand-over keep
  NoInversion without raising the new owner.
* `RtMutexProof`, for `PeriodicMutex`: **MutexSurvivesPeriods** (ObjectSound of `PeriodicMutex`).
  However periods end, the mutex is free exactly if it has no owner, nobody
  waits for a free mutex, and no raised priority outlives the ownership. What is
  lost is only the caller's belief (TakenIsOwned). `SoundInv` adds that a
  suspended thread is in a call and not the owner.
* `RtTimerProof`: **TypesPreserved**, **StopsStick** (StopSticks),
  **FlagsTellTheTruth** (FlagTellsTheTruth) and **TimersCountDown**
  (ImplementsCountdown). The invariant `IInv` says that one core at a time is
  in the loop of rt_timer_check (`LockInv`), that a timer which a call has taken
  out is not in the list (`OpInv`), that the list is sorted by the ticks left
  and nothing in it is overdue by more than MaxLate and one (`ListInv`), and
  that a tick read earlier is at most MaxLate old (`TickInv`). The last two keep
  all deadlines within half of the range of each other, where comparison by
  subtraction agrees with the order of time. `HistInv` adds what the flag says
  of stopped and restarted timers.
* `RtMemProof`: **HeapTypes**, **HeapStaysTiled** (Tiled), **HolesArePlugged** (NoFreeNeighbours), **LfreeStaysLowest** (LfreeIsLowest), **CopiesFit** (CopyFits)
  and **HeapKeepsItsPromise** (ImplementsHeap). `HeapOK` is the shape of the heap,
  kept by splitting and by joining in plug_holes, each a lemma; `OwnInv` says the
  pointers of callers are the used blocks; `MoveInv` that blocks between
  the critical sections of rt_realloc belong to one client and keep their size.
* `RtMemProof`: **UsedMemIsExact** (UsedMemCounts) and **WalkEnds** (WalkFindsFirst).
  The used memory is the number of units that used blocks cover, so that a step
  which splits, joins or hands out a block changes it by the length of an
  interval. The walk along the links is a recursive function; that it ends where
  the search by addresses does is shown on the highest block for which it would
  not, since every link leads to a higher address.
* `RtSchedProof`: **ListsStayConsistent** (ListsAgree), **SleepersWake**
  (SuspendedIsAwaited) and **FreedStaysUnused** (FreedIsUnused). Each operation of
  `scheduler.c` and `thread.c` has a lemma on what it does to lists, bit maps and
  cores (`SchedOK`); `rt_schedule` is at most a put back and a switch. The invariant
  `SInv` adds, for each thread, where it can be in each state (`ThreadOK`), what
  may have become of a state since rt_tick_increase read it without the lock
  (`SliceOK`), and that one idle thread reclaims the dead ones (`IdleOK`). The
  exceptions for `overwritten` and `killed` threads in the properties are the ones
  ThreadOK has to make to be inductive.
* `RtSchedUrgency`: **UrgentThreadsRun** (MostUrgentRuns), **HeapHasOneHolder**
  (HeapExclusive) and **IdleWaitEnds** (SpinEnds). `UInv` is a second layer, inductive
  given SInv. `UrgentAt`: a core that runs a thread less urgent than a ready one has
  an interrupt pending, has one that will switch when it ends, or is about to call
  rt_schedule; this is stronger than MostUrgentRuns, which is content with any
  interrupt in progress. `HeapCount` with `WaitsAt`: heap_sem is available or
  has one holder, and who goes on without it runs where the idle thread is
  suspended. `SpinOK`: the scheduler lock is that of main, which is in its own code and on a
  core, and the kernel lock stays with the reclaiming idle thread.

Only model-checked: the liveness properties (FrozenIsDisplayed,
SwitchedOnComesUp, WaitEnds), which the prover does not reach, and the three
invariants of `SpsStartup`, a sequential program with 256 states whose loops the
run covers for the four machines of the code.

## What is not modelled

* Soft timers and their thread (`timer.c` with RT_TIMER_FLAG_SOFT_TIMER), which no
  part of the application uses; several timers that expire in the same
  interrupt of `RtSched` (they are in `RtTimer`).
* Of threads: static ones, rt_thread_control, rt_thread_delay_until, and
  rt_thread_delete of a started thread by another thread, which has no caller in
  the application. That every ready thread of a priority gets its turn
  (liveness of the scheduler) needs fairness for each thread and each interrupt
  and was too large for TLC on the instance that shows the rest.
  rt_thread_delete of a started thread, taken out of the ready list before the
  lock is taken (`thread.c:524`), could meet a timeout in between.
* A nesting of 256 takes of a mutex, which would make hold 0 again
  (`ipc.c:684`): the models stay below, the application does not nest.
* That the loop of rt_timer_check ends: a timer with time 0 that its timeout
  function starts again would keep it going. RtTimer allows it, no timer of the
  application does it.
* Deletion of mailboxes and mutexes with threads waiting, signals that interrupt
  a wait, events, message queues, memory pools, semaphores other than heap_sem:
  the application does not use them.
* Of the heap: the maximum in the statistics, names and magic numbers, sizes so
  large that RT_ALIGN wraps, and the shell command memcheck, which walks the
  heap without heap_sem.
* Object lists, devices, drivers, processor ports, file systems, network, shell,
  C library and the other components: not used by the application, or register
  and text I/O.

## Plan

1. RtMutex with signals (the retry at `ipc.c:758` runs with interrupts enabled)
   and with deletion; the same for RtMailbox.
2. Semaphores, events and message queues on RtIpc; the copy of a message outside
   the critical sections.
3. Soft timers: rt_soft_timer_check calls timeout functions without the lock.
4. Priorities and affinities that change (rt_thread_control) in RtSched.
5. Proofs: DeletesWhatExists for any number of machines; refinement of a scheduler
   without lists by RtSched.
