--------------------------- MODULE RtSchedUrgency ---------------------------
(***************************************************************************)
(* More proofs about RtSched: no core is left with a thread that a ready   *)
(* one is more urgent than (MostUrgentRuns), heap_sem has one holder       *)
(* (HeapExclusive), and the idle thread's wait with the kernel lock held   *)
(* ends (SpinEnds).                                                        *)
(*                                                                         *)
(* The invariant UInv is a second layer: it is inductive given SInv of     *)
(* RtSchedProof, which says nothing of priorities, of heap_sem or of the   *)
(* locks.                                                                  *)
(***************************************************************************)
EXTENDS RtSchedProof

\* The thread is about to call rt_schedule.
Asking(t) == pc[t] \in {"take", "sched"}

\* Where a thread that waits for heap_sem is; one not started is nowhere yet.
HeapThread(t) ==
  /\ In(t, s.waiters) => pc[t] \in {"heap", "take"} /\ t \notin timer
  /\ s.stat[t] \in {"none", "INIT"} => pc[t] = "job"

\* heap_sem is available or has one holder.
HeapCount ==
  \/ value = 1 /\ Holders = {}
  \/ value = 0 /\ \E h \in All : Holders = {h}

\* The idle threads neither end nor leave their cores.
IdleThread(t) ==
  /\ s.stat[t] \in {"READY", "RUNNING", "SUSPEND"}
  /\ s.oncpu[t] # NoCpu => s.oncpu[t] = bind_cpu[t]

\* A thread is on the heap while it still waits for heap_sem only if
\* rt_schedule found nobody to switch to.
WaitsAt(c) ==
  LET t == s.current[c] IN
  pc[t] = "heap" /\ In(t, s.waiters) => Undefined /\ s.stat[Idle[c]] = "SUSPEND"

\* A thread that is suspended on its core is about to call rt_schedule, also
\* if a time slice is about to write that stat back.
SuspendAt(c) ==
  LET t == s.current[c] IN
  /\ s.stat[t] = "SUSPEND" => Asking(t) \/ Undefined
  /\ irq[c] = "slice" => t \in Sliced /\ (old_stat[c] = "SUSPEND" => Asking(t))

\* MostUrgentRuns, with what brings the core to rt_schedule.
UrgentAt(c) ==
  LET t == s.current[c] IN
  \/ c \in s.ipi \/ irq[c] = "slice" \/ (irq[c] = "exit" /\ c \in irq_switch_flag)
  \/ Asking(t) \/ critical_lock = t \/ s.stat[t] # "RUNNING"
  \/ \A p \in Levels(s, c) : Priority[t] <= p

CoreAt(c) == WaitsAt(c) /\ SuspendAt(c) /\ UrgentAt(c)

\* Who has the two locks, and where that thread is.
SpinOK ==
  /\ critical_lock # NoThread => /\ critical_lock = Main /\ pc[Main] = "job"
                                 /\ \E c \in CPUs : s.current[c] = Main
  /\ cpus_lock # NoCpu => cpus_lock \in CPUs /\ s.current[cpus_lock] = Idle[Cpu0]

\* The second layer of the invariant.
UInv ==
  /\ \A t \in All : HeapThread(t)
  /\ HeapCount
  /\ \A t \in IdleThreads : IdleThread(t)
  /\ \A c \in CPUs : CoreAt(c)
  /\ SpinOK

\* What a step does to thread t that leaves heap_sem alone.
HeapSame(t) ==
  /\ In(t, s'.waiters) <=> In(t, s.waiters)
  /\ pc'[t] \in {"heap", "take"} <=> pc[t] \in {"heap", "take"}
  /\ In(t, s.waiters) /\ t \in timer' => t \in timer
  /\ s'.stat[t] \in {"none", "INIT"} => pc'[t] = "job" \/ (s.stat[t] \in {"none", "INIT"} /\ pc'[t] = pc[t])

LEMMA HeapFrame ==
  ASSUME \A t \in All : HeapThread(t), HeapCount, value' = value, \A t \in All : HeapSame(t)
  PROVE  (\A t \in All : HeapThread(t)') /\ HeapCount'
<1>1. \A t \in All : HeapThread(t)'
  BY Zenon DEF HeapThread, HeapSame
<1>2. Holders' = Holders
  BY Zenon DEF Holders, HeapSame
<1> QED
  BY <1>1, <1>2, Zenon DEF HeapCount

IdleSame(t) ==
  /\ s'.stat[t] = s.stat[t] \/ s'.stat[t] \in {"READY", "RUNNING", "SUSPEND"}
  /\ s'.oncpu[t] = s.oncpu[t] \/ s'.oncpu[t] \in {NoCpu, bind_cpu[t]}

LEMMA IdleFrame ==
  ASSUME NEW t, IdleThread(t), IdleSame(t)
  PROVE  IdleThread(t)'
<1>1. bind_cpu' = bind_cpu
  BY Zenon DEF bind_cpu, All
<1> QED
  BY <1>1, Zenon DEF IdleThread, IdleSame

\* A core that a step leaves alone, except that its thread may be resumed or
\* closed, may go on in its own calls, and may be interrupted.
Calm(d) ==
  /\ s'.current[d] = s.current[d]
  /\ \A t \in All : t = s.current[d] =>
       /\ MayBecome(s.stat[t], s'.stat[t])
       /\ \/ pc'[t] = pc[t] /\ (In(t, s'.waiters) => In(t, s.waiters))
          \/ ~Asking(t) /\ (pc'[t] = "heap" => ~In(t, s'.waiters))
       /\ critical_lock = t => critical_lock' = t
  /\ \/ irq'[d] = irq[d] /\ old_stat'[d] = old_stat[d]
     \/ irq[d] = "none" /\ irq'[d] = "exit"
  /\ d \in irq_switch_flag => d \in irq_switch_flag'
  /\ d \in s.ipi => d \in s'.ipi
  /\ d \in s'.ipi \/ Levels(s', d) \subseteq Levels(s, d)

\* Such a core stays as CoreAt says.
LEMMA CalmKeeps ==
  ASSUME SInv, ~Undefined, NEW d \in CPUs, CoreAt(d), Calm(d)
  PROVE  CoreAt(d)'
<1>1. PICK t \in All : t = s.current[d]
  BY Zenon DEF SInv, SchedOK, LinksOK, SchedType
<1>2. t = s'.current[d]
  BY <1>1, Zenon DEF Calm
<1>3. /\ ~(pc[t] = "heap" /\ In(t, s.waiters))
      /\ s.stat[t] = "SUSPEND" => Asking(t)
      /\ irq[d] = "slice" => t \in Sliced /\ (old_stat[d] = "SUSPEND" => Asking(t))
  BY <1>1, Zenon DEF CoreAt, WaitsAt, SuspendAt
<1>4. /\ MayBecome(s.stat[t], s'.stat[t])
      /\ \/ pc'[t] = pc[t] /\ (In(t, s'.waiters) => In(t, s.waiters))
         \/ ~Asking(t) /\ (pc'[t] = "heap" => ~In(t, s'.waiters))
      /\ critical_lock = t => critical_lock' = t
  BY <1>1, Zenon DEF Calm
<1>5. Asking(t) => Asking(t)'
  BY <1>4, Zenon DEF Asking
<1>6. WaitsAt(d)'
  BY <1>2, <1>3, <1>4, Zenon DEF WaitsAt
<1>7. SuspendAt(d)'
  <2>1. s'.stat[t] = "SUSPEND" => Asking(t)'
    BY <1>3, <1>4, <1>5, Zenon DEF MayBecome
  <2>2. irq'[d] = "slice" => t \in Sliced /\ (old_stat'[d] = "SUSPEND" => Asking(t)')
    BY <1>3, <1>5, Zenon DEF Calm
  <2> QED
    BY <1>2, <2>1, <2>2, Zenon DEF SuspendAt
<1>8. UrgentAt(d)'
  <2>1. \/ d \in s.ipi \/ irq[d] = "slice" \/ (irq[d] = "exit" /\ d \in irq_switch_flag)
        \/ Asking(t) \/ critical_lock = t \/ s.stat[t] # "RUNNING"
        \/ \A p \in Levels(s, d) : Priority[t] <= p
    BY <1>1, Zenon DEF CoreAt, UrgentAt
  <2>2. s.stat[t] # "RUNNING" => Asking(t) \/ s'.stat[t] # "RUNNING"
    BY <1>3, <1>4, Zenon DEF MayBecome
  <2>3. \/ d \in s'.ipi \/ irq'[d] = "slice" \/ (irq'[d] = "exit" /\ d \in irq_switch_flag')
        \/ Asking(t)' \/ critical_lock' = t \/ s'.stat[t] # "RUNNING"
        \/ \A p \in Levels(s', d) : Priority[t] <= p
    BY <1>4, <1>5, <2>1, <2>2, Zenon DEF Calm
  <2>4. Levels(s', d) = Levels(s, d)'
    BY Zenon DEF Levels
  <2> QED
    BY <1>2, <2>3, <2>4, Zenon DEF UrgentAt
<1> QED
  BY <1>6, <1>7, <1>8, Zenon DEF CoreAt

\* The thread of core c is about to call rt_schedule.
LEMMA AskingKeeps ==
  ASSUME NEW c \in CPUs, NEW t, s'.current[c] = t, pc'[t] \in {"take", "sched"}, irq'[c] = "none"
  PROVE  CoreAt(c)'
<1>1. WaitsAt(c)'
  BY Zenon DEF WaitsAt
<1>2. SuspendAt(c)' /\ UrgentAt(c)'
  BY Zenon DEF SuspendAt, UrgentAt, Asking
<1> QED
  BY <1>1, <1>2, Zenon DEF CoreAt

\* Core c is in an interrupt that ends in rt_scheduler_do_irq_switch.
LEMMA FlaggedKeeps ==
  ASSUME NEW c \in CPUs, NEW t, s'.current[c] = t, irq'[c] = "exit", c \in irq_switch_flag',
         s'.stat[t] = "SUSPEND" => pc'[t] \in {"take", "sched"},
         ~(pc'[t] = "heap" /\ In(t, s'.waiters))
  PROVE  CoreAt(c)'
<1>1. WaitsAt(c)'
  BY Zenon DEF WaitsAt
<1>2. SuspendAt(c)' /\ UrgentAt(c)'
  BY Zenon DEF SuspendAt, UrgentAt, Asking
<1> QED
  BY <1>1, <1>2, Zenon DEF CoreAt

LEMMA SpinFrame ==
  ASSUME SpinOK, UNCHANGED locks, critical_lock = Main => pc'[Main] = pc[Main],
         \/ s'.current = s.current
         \/ Unlocked /\ \E c \in CPUs : /\ critical_lock # s.current[c]
                                        /\ \A d \in CPUs \ {c} : s'.current[d] = s.current[d]
  PROVE  SpinOK'
<1>1. critical_lock' = critical_lock /\ cpus_lock' = cpus_lock
  BY Zenon DEF locks
<1> QED
  BY <1>1, Zenon DEF SpinOK, Unlocked

LEMMA MainIsThread == Main \in All /\ Main # NoThread /\ Main \notin IdleThreads /\ Main \notin Periodic
BY SchedAssumption, Zenon DEF All

\* The thread that takes a step.
LEMMA Here ==
  ASSUME SInv, UInv, ~Undefined, NEW c \in CPUs, NEW t, Runs(t, c)
  PROVE  /\ t \in All /\ s.current[c] = t /\ irq[c] = "none" /\ s.oncpu[t] # NoCpu
         /\ s.stat[t] \in {"RUNNING", "SUSPEND", "CLOSE"}
         /\ s.stat[t] = "CLOSE" => t \in killed
         /\ ~Asking(t) => s.stat[t] # "SUSPEND" /\ ~In(t, s.waiters)
         /\ \A d \in CPUs \ {c} : s.current[d] # t
<1>1. /\ t \in All /\ s.current[c] = t /\ irq[c] = "none" /\ s.oncpu[t] # NoCpu
      /\ s.stat[t] \in {"RUNNING", "SUSPEND", "CLOSE"}
      /\ s.stat[t] = "CLOSE" => t \in killed
      /\ \A d \in CPUs \ {c} : s.current[d] # t
  BY OnCore DEF Runs
<1>2. ThreadOK(t) /\ SuspendAt(c)
  BY <1>1, Zenon DEF SInv, UInv, CoreAt
<1>3. s.stat[t] = "SUSPEND" => Asking(t)
  BY <1>1, <1>2, Zenon DEF SuspendAt
<1>4. In(t, s.waiters) => s.stat[t] = "SUSPEND"
  BY <1>2, Zenon DEF ThreadOK
<1> QED
  BY <1>1, <1>3, <1>4, Zenon

\* The threads of the other cores are other threads.
LEMMA OthersKeep ==
  ASSUME SInv, UInv, ~Undefined, NEW c \in CPUs, Announced(s, s', c),
         \A d \in CPUs \ {c} : /\ irq'[d] = irq[d] /\ old_stat'[d] = old_stat[d]
                               /\ d \in irq_switch_flag => d \in irq_switch_flag'
                               /\ s'.current[d] = s.current[d],
         \A t \in All : (\E d \in CPUs \ {c} : s.current[d] = t) =>
           /\ pc'[t] = pc[t] /\ MayBecome(s.stat[t], s'.stat[t]) /\ (In(t, s'.waiters) => In(t, s.waiters))
           /\ critical_lock = t => critical_lock' = t
  PROVE  \A d \in CPUs \ {c} : CoreAt(d)'
<1> SUFFICES ASSUME NEW d \in CPUs \ {c} PROVE Calm(d)
  BY CalmKeeps, Zenon DEF UInv
<1>1. (d \in s.ipi => d \in s'.ipi) /\ (d \in s'.ipi \/ Levels(s', d) \subseteq Levels(s, d))
  BY Zenon DEF Announced
<1> QED
  BY <1>1, Zenon DEF Calm

-----------------------------------------------------------------------------
LEMMA SleepUrges == SInv /\ UInv /\ ~Undefined /\ (SleepStep \/ JobEndStep) => UInv'
<1> SUFFICES ASSUME SInv, UInv, ~Undefined, NEW c \in CPUs, NEW t, Runs(t, c), Sleep(t, c) \/ JobEnd(t, c)
             PROVE  UInv'
  BY Zenon DEF SleepStep, JobEndStep
<1>0. /\ VarType /\ SchedOK(s) /\ s.stat \in [All -> Stats] /\ pc \in [All -> Places]
      /\ (\A u \in All : HeapThread(u)) /\ HeapCount /\ (\A u \in IdleThreads : IdleThread(u)) /\ SpinOK
  BY Zenon DEF SInv, SchedOK, LinksOK, SchedType, VarType, UInv
<1>1. /\ t \in All /\ s.current[c] = t /\ irq[c] = "none" /\ ~In(t, s.waiters)
      /\ \A d \in CPUs \ {c} : s.current[d] # t
  BY Here, Zenon DEF Sleep, JobEnd, At, Asking
<1>2. /\ s' = Suspended(s, t) /\ Goto(t, "sched") /\ timer' \subseteq timer \cup {t}
      /\ UNCHANGED <<value, interrupts, locks>> /\ pc[t] \in {"job", "end"}
      /\ critical_lock = t => pc[t] = "end"
  BY Zenon DEF Sleep, JobEnd, At
<1>3. SuspendedStep(s, s', t) /\ Quieter(s, s')
  BY <1>0, <1>1, <1>2, SuspendedEffect, SuspendedQuiet, Zenon
<1>4. /\ s'.stat[t] = "SUSPEND" /\ s'.current = s.current /\ s'.oncpu = s.oncpu
      /\ \A u \in All \ {t} : s'.stat[u] = s.stat[u] /\ pc'[u] = pc[u]
      /\ pc'[t] = "sched"
      /\ \A u \in All : In(u, s'.waiters) <=> In(u, s.waiters)
  BY <1>0, <1>1, <1>2, <1>3, Zenon DEF SuspendedStep, In, Goto
<1>5. (\A u \in All : HeapThread(u)') /\ HeapCount'
  <2>1. \A u \in All : HeapSame(u)
    BY <1>1, <1>2, <1>4, Zenon DEF HeapSame
  <2> QED
    BY <1>0, <1>2, <2>1, HeapFrame, Zenon
<1>6. \A u \in IdleThreads : IdleThread(u)'
  <2>1. \A u \in IdleThreads : IdleSame(u)
    BY <1>4, Zenon DEF IdleSame, All
  <2> QED
    BY <1>0, <2>1, IdleFrame, Zenon
<1>7. CoreAt(c)'
  BY <1>1, <1>2, <1>4, AskingKeeps, Zenon DEF interrupts
<1>8. \A d \in CPUs \ {c} : CoreAt(d)'
  <2>1. Announced(s, s', c)
    BY <1>3, QuietIsAnnounced, Zenon
  <2> QED
    BY <1>1, <1>2, <1>4, <2>1, OthersKeep, ZenonT(30) DEF interrupts, locks, MayBecome
<1>9. SpinOK'
  <2>1. critical_lock = Main => t # Main
    BY <1>0, <1>2, MainIsThread, Zenon DEF SpinOK
  <2> QED
    BY <1>0, <1>2, <1>4, <2>1, MainIsThread, SpinFrame, Zenon
<1> QED
  BY <1>5, <1>6, <1>7, <1>8, <1>9, Zenon DEF UInv

\* Steps that only move the thread on.
LEMMA MoveUrges ==
  ASSUME SInv, UInv, ~Undefined, NEW c \in CPUs, NEW t, Runs(t, c), ~Asking(t),
         NEW place, Goto(t, place), UNCHANGED <<s, interrupts>>,
         critical_lock' = critical_lock \/ (critical_lock = t /\ place = "sched")
  PROVE  (\A u \in IdleThreads : IdleThread(u)') /\ (\A d \in CPUs : CoreAt(d)')
<1>0. VarType /\ pc \in [All -> Places] /\ (\A u \in IdleThreads : IdleThread(u)) /\ CoreAt(c)
  BY Zenon DEF SInv, VarType, UInv
<1>1. /\ t \in All /\ s.current[c] = t /\ irq[c] = "none" /\ ~In(t, s.waiters)
      /\ \A d \in CPUs \ {c} : s.current[d] # t
  BY Here, Zenon
<1>2. pc'[t] = place /\ \A u \in All \ {t} : pc'[u] = pc[u]
  BY <1>0, <1>1, Zenon DEF Goto
<1>3. \A u \in IdleThreads : IdleThread(u)'
  <2>1. \A u \in IdleThreads : IdleSame(u)
    BY Zenon DEF IdleSame
  <2> QED
    BY <1>0, <2>1, IdleFrame, Zenon
<1>4. CoreAt(c)'
  <2>1. CASE place = "sched"
    BY <1>1, <1>2, <2>1, AskingKeeps, Zenon DEF interrupts
  <2>2. CASE place # "sched"
    <3>1. Calm(c)
      BY <1>1, <1>2, <2>2, Zenon DEF Calm, MayBecome, interrupts
    <3> QED
      BY <1>0, <3>1, CalmKeeps, Zenon
  <2> QED
    BY <2>1, <2>2, Zenon
<1>5. \A d \in CPUs \ {c} : CoreAt(d)'
  <2>1. Announced(s, s', c)
    BY Zenon DEF Announced
  <2> QED
    BY <1>1, <1>2, <2>1, OthersKeep, Zenon DEF interrupts, MayBecome
<1> QED
  BY <1>3, <1>4, <1>5, Zenon

LEMMA JobTestUrges == SInv /\ UInv /\ ~Undefined /\ (JobTestStep \/ ExitCriticalStep \/ ReclaimUnlockStep) => UInv'
<1> SUFFICES ASSUME SInv, UInv, ~Undefined, NEW c \in CPUs, NEW t, Runs(t, c),
               JobTest(t, c) \/ ExitCritical(t, c) \/ ReclaimUnlock(t, c)
             PROVE  UInv'
  BY Zenon DEF JobTestStep, ExitCriticalStep, ReclaimUnlockStep
<1>0. /\ pc \in [All -> Places] /\ (\A u \in All : HeapThread(u)) /\ HeapCount /\ SpinOK
  BY Zenon DEF SInv, VarType, UInv
<1>1. t \in All /\ s.stat[t] \notin {"none", "INIT"} /\ s.current[c] = t
  BY Here DEF Runs
<1>2. PICK place \in {"end", "sched", "free"} : Goto(t, place)
  BY Zenon DEF JobTest, ExitCritical, ReclaimUnlock
<1>3. UNCHANGED <<s, interrupts, timer, value>>
  BY Zenon DEF JobTest, ExitCritical, ReclaimUnlock, timers
<1>4. pc[t] \in {"job", "spin"}
  BY <1>0, <1>1, MainIsThread, SchedAssumption, ZenonT(30) DEF JobTest, ExitCritical, ReclaimUnlock, At, SpinOK, All
<1>5. critical_lock' = critical_lock \/ (critical_lock = t /\ place = "sched")
  <2>1. CASE JobTest(t, c) \/ ReclaimUnlock(t, c)
    BY <2>1, Zenon DEF JobTest, ReclaimUnlock, locks
  <2>2. CASE ExitCritical(t, c)
    <3>1. pc' = [pc EXCEPT ![t] = "sched"] /\ pc' = [pc EXCEPT ![t] = place] /\ critical_lock = t
      BY <1>2, <2>2, Zenon DEF ExitCritical, Goto
    <3> QED
      BY <1>0, <1>1, <3>1, Zenon
  <2> QED
    BY <2>1, <2>2, Zenon
<1>6. (\A u \in IdleThreads : IdleThread(u)') /\ (\A d \in CPUs : CoreAt(d)')
  <2>1. ~Asking(t)
    BY <1>4, Zenon DEF Asking
  <2> QED
    BY <1>2, <1>3, <1>5, <2>1, MoveUrges, Zenon
<1>7. (\A u \in All : HeapThread(u)') /\ HeapCount'
  <2>1. pc'[t] = place /\ \A u \in All \ {t} : pc'[u] = pc[u]
    BY <1>0, <1>1, <1>2, Zenon DEF Goto
  <2>2. \A u \in All : HeapSame(u)
    BY <1>1, <1>3, <1>4, <2>1, Zenon DEF HeapSame
  <2> QED
    BY <1>0, <1>3, <2>2, HeapFrame, Zenon
<1>8. SpinOK'
  <2>1. CASE JobTest(t, c)
    <3>1. t # Main /\ UNCHANGED locks
      BY <2>1, MainIsThread, Zenon DEF JobTest
    <3> QED
      BY <1>0, <1>1, <1>2, <1>3, <3>1, MainIsThread, SpinFrame, ZenonT(30) DEF Goto
  <2>2. CASE ExitCritical(t, c) \/ ReclaimUnlock(t, c)
    <3>1. critical_lock' = NoThread /\ (cpus_lock' = cpus_lock \/ cpus_lock' = NoCpu)
      BY <2>2, Zenon DEF ExitCritical, ReclaimUnlock
    <3> QED
      BY <1>0, <1>3, <3>1, Zenon DEF SpinOK
  <2> QED
    BY <2>1, <2>2, Zenon
<1> QED
  BY <1>6, <1>7, <1>8, Zenon DEF UInv

LEMMA TakeHeapUrges == SInv /\ UInv /\ ~Undefined /\ TakeHeapStep => UInv'
<1> SUFFICES ASSUME SInv, UInv, ~Undefined, NEW c \in CPUs, NEW t, Runs(t, c), TakeHeap(t, c)
             PROVE  UInv'
  BY Zenon DEF TakeHeapStep
<1>0. /\ SchedOK(s) /\ s.stat \in [All -> Stats] /\ pc \in [All -> Places]
      /\ (\A u \in All : HeapThread(u)) /\ HeapCount /\ (\A u \in IdleThreads : IdleThread(u)) /\ SpinOK
  BY Zenon DEF SInv, SchedOK, LinksOK, SchedType, VarType, UInv
<1>1. pc[t] \in {"job", "free"} /\ ~Asking(t)
  BY Zenon DEF TakeHeap, At, Asking
<1>2. /\ t \in All /\ s.current[c] = t /\ irq[c] = "none" /\ ~In(t, s.waiters)
      /\ \A d \in CPUs \ {c} : s.current[d] # t
  BY <1>1, Here, Zenon
<1>s. s.stat[t] \notin {"none", "INIT"}
  BY Here
<1>3. critical_lock # t /\ UNCHANGED <<locks, interrupts>>
  BY Zenon DEF TakeHeap
<1>4. CASE value > 0
  <2>1. value' = value - 1 /\ Goto(t, "heap") /\ UNCHANGED <<s, timer>>
    BY <1>4, Zenon DEF TakeHeap
  <2>2. pc'[t] = "heap" /\ \A u \in All \ {t} : pc'[u] = pc[u]
    BY <1>0, <1>2, <2>1, Zenon DEF Goto
  <2>3. value = 1 /\ value' = 0 /\ Holders = {}
    BY <1>0, <1>4, <2>1, SMTT(30) DEF HeapCount
  <2>4. Holders' = {t}
    <3>1. \A u \in All : u \in Holders' <=> u \in Holders \/ u = t
      BY <1>2, <2>1, <2>2, Zenon DEF Holders
    <3>2. \A u \in Holders' : u \in All
      BY Zenon DEF Holders
    <3> QED
      BY <1>2, <2>3, <3>1, <3>2, Zenon
  <2>5. \A u \in All : HeapThread(u)'
    BY <1>0, <1>2, <1>s, <2>1, <2>2, ZenonT(30) DEF HeapThread
  <2>6. (\A u \in IdleThreads : IdleThread(u)') /\ (\A d \in CPUs : CoreAt(d)')
    BY <1>1, <1>3, <2>1, MoveUrges, ZenonT(30) DEF locks
  <2>7. SpinOK'
    BY <1>0, <1>3, <2>1, <2>2, MainIsThread, SpinFrame, ZenonT(30)
  <2> QED
    BY <1>2, <2>3, <2>4, <2>5, <2>6, <2>7, ZenonT(30) DEF UInv, HeapCount
<1>5. CASE ~(value > 0)
  <2> DEFINE r == Suspended(s, t)
  <2>1. s' = [r EXCEPT !.waiters = Append(@, t)]
    BY <1>5, Zenon DEF TakeHeap
  <2>2. timer' = timer \ {t} /\ Goto(t, "take") /\ value' = value
    BY <1>5, Zenon DEF TakeHeap
  <2>3. SchedOK(r) /\ SuspendedStep(s, r, t) /\ Quieter(s, r)
    BY <1>0, <1>2, SuspendedEffect, SuspendedQuiet, Zenon
  <2> HIDE DEF r
  <2>4. /\ s'.stat = r.stat /\ s'.current = r.current /\ s'.oncpu = r.oncpu
        /\ s'.ipi = r.ipi /\ s'.group = r.group /\ s'.waiters = Append(r.waiters, t)
    BY <2>1, <2>3, Zenon DEF SchedOK, LinksOK, SchedType
  <2>5. \A u \in All : In(u, s'.waiters) <=> In(u, s.waiters) \/ u = t
    <3>1. r.waiters \in Seq(All) /\ IsInjective(r.waiters) /\ ~Contains(r.waiters, t)
      BY <1>2, <2>3, Zenon DEF SuspendedStep, SchedOK, LinksOK, SchedType
    <3>2. \A u \in All : Contains(s'.waiters, u) <=> Contains(r.waiters, u) \/ u = t
      BY <1>2, <2>4, <3>1, AppendList, SMTT(30)
    <3> QED
      BY <2>3, <3>2, Zenon DEF SuspendedStep, In
  <2>6. /\ s'.stat[t] = "SUSPEND" /\ s'.current = s.current /\ s'.oncpu = s.oncpu
        /\ \A u \in All \ {t} : s'.stat[u] = s.stat[u] /\ pc'[u] = pc[u]
        /\ pc'[t] = "take"
    <3>1. s'.stat = [s.stat EXCEPT ![t] = "SUSPEND"] /\ s'.current = s.current /\ s'.oncpu = s.oncpu
      BY <2>3, <2>4, Zenon DEF SuspendedStep
    <3>2. pc' = [pc EXCEPT ![t] = "take"]
      BY <2>2, Zenon DEF Goto
    <3> QED
      BY <1>0, <1>2, <3>1, <3>2, ZenonT(30)
  <2>7. \A u \in All : HeapThread(u)'
    BY <1>0, <2>2, <2>5, <2>6, ZenonT(30) DEF HeapThread
  <2>8. HeapCount'
    <3>1. Holders' = Holders
      BY <1>1, <2>5, <2>6, Zenon DEF Holders
    <3> QED
      BY <1>0, <2>2, <3>1, Zenon DEF HeapCount
  <2>9. \A u \in IdleThreads : IdleThread(u)'
    <3>1. \A u \in IdleThreads : IdleSame(u)
      BY <2>6, Zenon DEF IdleSame, All
    <3> QED
      BY <1>0, <3>1, IdleFrame, Zenon
  <2>10. CoreAt(c)'
    BY <1>2, <1>3, <2>6, AskingKeeps, ZenonT(30) DEF interrupts
  <2>11. \A d \in CPUs \ {c} : CoreAt(d)'
    <3>1. Announced(s, s', c)
      BY <2>3, <2>4, QuietIsAnnounced, Zenon DEF Quieter
    <3> QED
      BY <1>2, <1>3, <2>5, <2>6, <3>1, OthersKeep, ZenonT(30) DEF interrupts, locks, MayBecome
  <2>12. SpinOK'
    BY <1>0, <1>3, <2>6, MainIsThread, SpinFrame, ZenonT(30)
  <2> QED
    BY <2>7, <2>8, <2>9, <2>10, <2>11, <2>12, ZenonT(30) DEF UInv
<1> QED
  BY <1>4, <1>5, Zenon

LEMMA ReleaseHeapUrges == SInv /\ UInv /\ ~Undefined /\ ReleaseHeapStep => UInv'
<1> SUFFICES ASSUME SInv, UInv, ~Undefined, NEW c \in CPUs, NEW t, Runs(t, c), ReleaseHeap(t, c)
             PROVE  UInv'
  BY Zenon DEF ReleaseHeapStep
<1>0. /\ SchedOK(s) /\ s.stat \in [All -> Stats] /\ pc \in [All -> Places] /\ \A u \in All : ThreadOK(u)
      /\ (\A u \in All : HeapThread(u)) /\ HeapCount /\ (\A u \in IdleThreads : IdleThread(u)) /\ SpinOK
      /\ CoreOK(s.stat, s.oncpu, s.current) /\ CoreAt(c)
  BY Zenon DEF SInv, SchedOK, LinksOK, SchedType, VarType, UInv
<1>1. pc[t] = "heap" /\ ~Asking(t)
  BY Zenon DEF ReleaseHeap, At, Asking
<1>2. /\ t \in All /\ s.current[c] = t /\ irq[c] = "none" /\ ~In(t, s.waiters)
      /\ \A d \in CPUs \ {c} : s.current[d] # t
  BY <1>1, Here, Zenon
<1>s. s.stat[t] \notin {"none", "INIT", "SUSPEND"}
  BY <1>1, Here, SMTT(30)
<1>3. UNCHANGED <<locks, interrupts>>
  BY Zenon DEF ReleaseHeap
<1>4. value = 0 /\ Holders = {t}
  <2>1. t \in Holders
    BY <1>1, <1>2, Zenon DEF Holders
  <2> QED
    BY <1>0, <2>1, Zenon DEF HeapCount
<1> DEFINE r == Freed(t)
<1>5. /\ t \in IdleThreads => victim \in Threads /\ s.stat[victim] \in {"CLOSE", "SUSPEND"} /\ ~In(victim, s.waiters)
      /\ SchedOK(r) /\ r.oncpu = s.oncpu /\ r.current = s.current
      /\ r.stat = (IF t \in IdleThreads THEN [s.stat EXCEPT ![victim] = "freed"] ELSE s.stat)
      /\ r.waiters = s.waiters /\ r.ipi = s.ipi /\ r.group = s.group
  BY <1>1, <1>2, FreedEffect, Zenon
<1>6. \A u \in All : r.stat[u] = s.stat[u] \/ (r.stat[u] = "freed" /\ u \in Threads)
  BY <1>0, <1>5, Zenon
<1>7. \A u \in IdleThreads : u \in All /\ u \notin Threads
  BY SchedAssumption, Zenon DEF All
<1>m. critical_lock = Main => pc'[Main] = pc[Main]
  <2>1. critical_lock = Main => t # Main
    BY <1>0, <1>1, MainIsThread, Zenon DEF SpinOK
  <2> QED
    BY <1>0, <2>1, MainIsThread, Zenon DEF ReleaseHeap, Goto
<1>8. CASE s.waiters = <<>>
  <2>1. s' = r /\ Goto(t, "job") /\ timer' = timer /\ value' = value + 1
    BY <1>8, Zenon DEF ReleaseHeap, Freed
  <2> HIDE DEF r
  <2>2. pc'[t] = "job" /\ \A u \in All \ {t} : pc'[u] = pc[u]
    BY <1>0, <1>2, <2>1, Zenon DEF Goto
  <2>3. HeapCount'
    <3>1. Holders' = {}
      <4>1. \A u \in All : u \in Holders' => u \in Holders /\ u # t
        BY <1>5, <2>1, <2>2, ZenonT(30) DEF Holders
      <4>2. \A u \in Holders' : u \in All
        BY Zenon DEF Holders
      <4> QED
        BY <1>4, <4>1, <4>2, Zenon
    <3>2. value' = 1
      BY <1>4, <2>1, SMTT(30)
    <3> QED
      BY <3>1, <3>2, Zenon DEF HeapCount
  <2>4. \A u \in All : HeapThread(u)'
    BY <1>0, <1>2, <1>5, <1>6, <2>1, <2>2, ZenonT(30) DEF HeapThread
  <2>5. \A u \in IdleThreads : IdleThread(u)'
    <3>1. \A u \in IdleThreads : IdleSame(u)
      BY <1>5, <1>6, <1>7, <2>1, Zenon DEF IdleSame
    <3> QED
      BY <1>0, <3>1, IdleFrame, Zenon
  <2>6. CoreAt(c)'
    <3>1. Calm(c)
      BY <1>1, <1>2, <1>3, <1>5, <1>6, <2>1, <2>2, ZenonT(30) DEF Calm, MayBecome, interrupts, locks, Levels
    <3> QED
      BY <1>0, <3>1, CalmKeeps, Zenon
  <2>7. \A d \in CPUs \ {c} : CoreAt(d)'
    <3>1. Announced(s, s', c)
      BY <1>5, <2>1, Zenon DEF Announced, Levels
    <3>2. \A d \in CPUs \ {c} : /\ irq'[d] = irq[d] /\ old_stat'[d] = old_stat[d]
                                /\ d \in irq_switch_flag => d \in irq_switch_flag'
                                /\ s'.current[d] = s.current[d]
      BY <1>3, <1>5, <2>1, Zenon DEF interrupts
    <3>3. ASSUME NEW u \in All, \E d \in CPUs \ {c} : s.current[d] = u
          PROVE  /\ pc'[u] = pc[u] /\ MayBecome(s.stat[u], s'.stat[u]) /\ (In(u, s'.waiters) => In(u, s.waiters))
                 /\ critical_lock = u => critical_lock' = u
      <4>1. u # t
        BY <1>2, <3>3, Zenon
      <4> QED
        BY <1>3, <1>5, <1>6, <2>1, <2>2, <4>1, ZenonT(30) DEF locks, MayBecome
    <3> QED
      BY <3>1, <3>2, <3>3, OthersKeep, ZenonT(30)
  <2>8. SpinOK'
    BY <1>0, <1>3, <1>5, <1>m, <2>1, SpinFrame, ZenonT(30)
  <2> QED
    BY <2>3, <2>4, <2>5, <2>6, <2>7, <2>8, ZenonT(30) DEF UInv
<1>9. CASE s.waiters # <<>>
  <2>1. PICK h \in All : h = Head(s.waiters) /\ In(h, s.waiters)
    <3>1. s.waiters \in Seq(All) /\ IsInjective(s.waiters)
      BY <1>0, Zenon DEF SchedOK, LinksOK, SchedType
    <3> QED
      BY <1>9, <3>1, TailList, Zenon DEF In
  <2>2. s' = Resumed(r, h, c) /\ Goto(t, "sched") /\ timer' = timer \ {h} /\ value' = value
    BY <1>9, <2>1, Zenon DEF ReleaseHeap, Freed
  <2> HIDE DEF r
  <2>3. s.stat[h] = "SUSPEND" /\ h # t /\ (t \in IdleThreads => h # victim)
    BY <1>0, <1>2, <1>5, <2>1, ZenonT(30) DEF ThreadOK
  <2>4. r.stat[h] = "SUSPEND"
    BY <1>0, <1>5, <2>1, <2>3, ZenonT(30)
  <2>5. ResumedStep(r, s', h) /\ Announced(r, s', c)
    BY <1>5, <2>1, <2>2, <2>4, ResumedEffect, ResumedAnnounced, ZenonT(30)
  <2>6. s' \in SchedType /\ r \in SchedType
    BY <1>5, <2>1, <2>2, <2>4, ResumedEffect, ZenonT(30) DEF SchedOK, LinksOK
  <2>7. /\ s'.stat[h] = (IF s.oncpu[h] # NoCpu THEN "RUNNING" ELSE "READY")
        /\ \A u \in All \ {h} : s'.stat[u] = r.stat[u]
    <3>1. s'.stat = [r.stat EXCEPT ![h] = IF s.oncpu[h] # NoCpu THEN "RUNNING" ELSE "READY"] /\ r.stat \in [All -> Stats]
      BY <1>5, <2>5, <2>6, ZenonT(30) DEF ResumedStep, SchedType
    <3> QED
      BY <2>1, <3>1, Zenon
  <2>8. /\ s'.current = s.current /\ s'.oncpu = s.oncpu
        /\ \A u \in All : In(u, s'.waiters) <=> In(u, s.waiters) /\ u # h
    BY <1>5, <2>5, Zenon DEF ResumedStep, In
  <2>9. pc'[t] = "sched" /\ \A u \in All \ {t} : pc'[u] = pc[u]
    BY <1>0, <1>2, <2>2, Zenon DEF Goto
  <2>10. HeapCount'
    <3>1. Holders' = {h}
      <4>1. pc[h] \in {"heap", "take"}
        BY <1>0, <2>1, Zenon DEF HeapThread
      <4>2. h \in Holders'
        BY <2>1, <2>3, <2>8, <2>9, <4>1, ZenonT(30) DEF Holders
      <4>3. \A u \in All : u \in Holders' => u = h \/ (u \in Holders /\ u # t)
        BY <2>8, <2>9, Zenon DEF Holders
      <4>4. \A u \in Holders' : u \in All
        BY Zenon DEF Holders
      <4> QED
        BY <1>4, <4>2, <4>3, <4>4, ZenonT(30)
    <3> QED
      BY <1>4, <2>1, <2>2, <3>1, ZenonT(30) DEF HeapCount
  <2>11. \A u \in All : HeapThread(u)'
    <3> SUFFICES ASSUME NEW u \in All PROVE HeapThread(u)'
      BY Zenon
    <3>1. HeapThread(u) /\ (In(u, s.waiters) => u # t)
      BY <1>0, <1>2, Zenon
    <3>2. s'.stat[u] \in {"none", "INIT"} => s.stat[u] \in {"none", "INIT"} /\ u # t
      BY <1>6, <1>s, <2>1, <2>7, Zenon
    <3> QED
      BY <2>2, <2>8, <2>9, <3>1, <3>2, ZenonT(30) DEF HeapThread
  <2>12. \A u \in IdleThreads : IdleThread(u)'
    <3>1. \A u \in IdleThreads : IdleSame(u)
      BY <1>6, <1>7, <2>7, <2>8, ZenonT(30) DEF IdleSame
    <3> QED
      BY <1>0, <3>1, IdleFrame, Zenon
  <2>13. CoreAt(c)'
    BY <1>2, <1>3, <2>8, <2>9, AskingKeeps, ZenonT(30) DEF interrupts
  <2>14. \A d \in CPUs \ {c} : CoreAt(d)'
    <3>1. Announced(s, s', c)
      BY <1>5, <2>5, Zenon DEF Announced, Levels
    <3>2. \A d \in CPUs : s.current[d] = h => s.oncpu[h] # NoCpu
      BY <1>0, <2>1, NoCoreIsNone, SMTT(30) DEF CoreOK
    <3>3. \A u \in All : (\E d \in CPUs \ {c} : s.current[d] = u) =>
            u # t /\ MayBecome(s.stat[u], s'.stat[u])
      BY <1>2, <1>6, <2>3, <2>7, <3>2, ZenonT(30) DEF MayBecome
    <3> QED
      BY <1>3, <2>8, <2>9, <3>1, <3>3, OthersKeep, ZenonT(30) DEF interrupts, locks
  <2>15. SpinOK'
    BY <1>0, <1>3, <1>m, <2>8, SpinFrame, ZenonT(30)
  <2> QED
    BY <2>10, <2>11, <2>12, <2>13, <2>14, <2>15, ZenonT(30) DEF UInv
<1> QED
  BY <1>8, <1>9, Zenon

LEMMA CreateUrges == SInv /\ UInv /\ ~Undefined /\ (CreateStep \/ DeleteInitStep) => UInv'
<1> SUFFICES ASSUME SInv, UInv, ~Undefined, NEW c \in CPUs, NEW t, NEW u \in Threads,
               Create(t, c, u) \/ DeleteInit(t, c, u)
             PROVE  UInv'
  BY Zenon DEF CreateStep, DeleteInitStep
<1>0. /\ SchedOK(s) /\ s \in SchedType /\ s.stat \in [All -> Stats] /\ pc \in [All -> Places]
      /\ (\A v \in All : HeapThread(v) /\ ThreadOK(v)) /\ HeapCount
      /\ (\A v \in IdleThreads : IdleThread(v)) /\ (\A d \in CPUs : CoreAt(d)) /\ SpinOK
  BY Zenon DEF SInv, SchedOK, LinksOK, SchedType, VarType, UInv
<1>1. u \in All /\ s.stat[u] \in {"none", "INIT"}
  BY Zenon DEF Create, DeleteInit, All
<1>2. \A d \in CPUs : s.current[d] # u
  BY <1>1, OffCore, Zenon
<1>3. pc[u] = "job" /\ ~In(u, s.waiters)
  BY <1>0, <1>1, Zenon DEF HeapThread, ThreadOK
<1>4. UNCHANGED <<value, timer, interrupts, locks>> /\ (pc' = pc \/ pc' = [pc EXCEPT ![u] = "job"])
  BY Zenon DEF Create, DeleteInit, timers, Goto
<1>5. \A v \in All : pc'[v] = pc[v]
  BY <1>0, <1>1, <1>3, <1>4, Zenon
<1>6. /\ s'.oncpu = s.oncpu /\ s'.current = s.current /\ Quieter(s, s')
      /\ \A v \in All \ {u} : s'.stat[v] = s.stat[v]
      /\ \A v \in All : In(v, s'.waiters) <=> In(v, s.waiters)
  <2>1. CASE Create(t, c, u)
    <3>1. s' = [s EXCEPT !.stat[u] = "INIT", !.yield[u] = FALSE]
      BY <2>1, Zenon DEF Create
    <3>2. /\ s'.stat = [s.stat EXCEPT ![u] = "INIT"] /\ s'.oncpu = s.oncpu /\ s'.current = s.current
          /\ s'.waiters = s.waiters /\ s'.ipi = s.ipi /\ s'.group = s.group
      BY <1>0, <1>1, <3>1, Zenon DEF SchedType
    <3> QED
      BY <1>0, <3>2, Zenon DEF Quieter
  <2>2. CASE DeleteInit(t, c, u)
    <3>1. s' = Closed(s, u)
      BY <2>2, Zenon DEF DeleteInit
    <3>2. ClosedStep(s, s', u) /\ Quieter(s, s')
      BY <1>0, <1>1, <3>1, ClosedEffect, ClosedQuiet, ZenonT(30)
    <3> QED
      BY <1>0, <1>3, <3>2, Zenon DEF ClosedStep, In
  <2> QED
    BY <2>1, <2>2, Zenon
<1>7. (\A v \in All : HeapThread(v)') /\ HeapCount'
  <2>1. \A v \in All : HeapSame(v)
    BY <1>1, <1>3, <1>4, <1>5, <1>6, ZenonT(30) DEF HeapSame
  <2> QED
    BY <1>0, <1>4, <2>1, HeapFrame, Zenon
<1>8. \A v \in IdleThreads : IdleThread(v)'
  <2>1. \A v \in IdleThreads : v \in All /\ v # u
    BY SchedAssumption, Zenon DEF All
  <2>2. \A v \in IdleThreads : IdleSame(v)
    BY <1>6, <2>1, Zenon DEF IdleSame
  <2> QED
    BY <1>0, <2>2, IdleFrame, Zenon
<1>9. \A d \in CPUs : CoreAt(d)'
  <2> SUFFICES ASSUME NEW d \in CPUs PROVE Calm(d)
    BY <1>0, CalmKeeps, Zenon
  <2>1. Levels(s', d) \subseteq Levels(s, d) /\ s'.ipi = s.ipi
    BY <1>6, QuietIsAnnounced, Zenon DEF Quieter
  <2> QED
    BY <1>2, <1>4, <1>5, <1>6, <2>1, Zenon DEF Calm, MayBecome, interrupts, locks
<1>10. SpinOK'
  BY <1>0, <1>4, <1>5, <1>6, MainIsThread, SpinFrame, ZenonT(30)
<1> QED
  BY <1>7, <1>8, <1>9, <1>10, Zenon DEF UInv

\* UInv is about these variables.
LEMMA UrgeFrame ==
  ASSUME UInv, UNCHANGED <<s, pc, timer, value, irq, old_stat, irq_switch_flag, locks, history>>
  PROVE  UInv'
<1>1. UNCHANGED <<cpus_lock, critical_lock, killed, overwritten>> /\ bind_cpu' = bind_cpu
  BY Zenon DEF locks, history, bind_cpu, All
<1>2. Undefined' <=> Undefined
  BY <1>1, Zenon DEF Undefined
<1>3. (\A t \in All : HeapThread(t)') /\ HeapCount'
  BY Zenon DEF UInv, HeapThread, HeapCount, Holders
<1>4. (\A t \in IdleThreads : IdleThread(t)') /\ SpinOK'
  BY <1>1, Zenon DEF UInv, IdleThread, SpinOK
<1>5. \A c \in CPUs : CoreAt(c)'
  BY <1>1, <1>2, Zenon DEF UInv, CoreAt, WaitsAt, SuspendAt, UrgentAt, Asking, Levels
<1> QED
  BY <1>3, <1>4, <1>5, Zenon DEF UInv

LEMMA StartupUrges == SInv /\ UInv /\ ~Undefined /\ StartupStep => UInv'
<1> SUFFICES ASSUME SInv, UInv, ~Undefined, NEW c \in CPUs, NEW t, NEW u \in Threads, Runs(t, c), t = Main,
               Startup(t, c, u)
             PROVE  UInv'
  BY Zenon DEF StartupStep
<1>0. /\ SchedOK(s) /\ s.stat \in [All -> Stats] /\ pc \in [All -> Places]
      /\ (\A v \in All : HeapThread(v) /\ ThreadOK(v)) /\ HeapCount
      /\ (\A v \in IdleThreads : IdleThread(v)) /\ SpinOK
  BY Zenon DEF SInv, SchedOK, LinksOK, SchedType, VarType, UInv
<1>1. u \in All /\ s.stat[u] = "INIT" /\ s.oncpu[u] = NoCpu /\ \A d \in CPUs : s.current[d] # u
  BY OffCore, Zenon DEF Startup, All
<1>2. /\ t \in All /\ s.current[c] = t /\ irq[c] = "none" /\ t # u
      /\ \A d \in CPUs \ {c} : s.current[d] # t
  BY <1>1, Here, SMTT(30)
<1>3. pc[u] = "job" /\ ~In(u, s.waiters)
  BY <1>0, <1>1, Zenon DEF HeapThread, ThreadOK
<1>4. UNCHANGED <<value, timer, interrupts, locks, history>> /\ pc[t] = "job" /\ critical_lock # t
  BY Zenon DEF Startup, At
<1>5. CASE u \in Periodic
  BY <1>4, <1>5, UrgeFrame, ZenonT(30) DEF Startup, interrupts
<1>6. CASE u \notin Periodic
  <2> DEFINE r == Suspended(s, u)
  <2>1. s' = Resumed(r, u, c) /\ Goto(t, "sched")
    BY <1>6, Zenon DEF Startup
  <2>2. SchedOK(r) /\ SuspendedStep(s, r, u) /\ Quieter(s, r)
    BY <1>0, <1>1, SuspendedEffect, SuspendedQuiet, Zenon
  <2> HIDE DEF r
  <2>3. r.stat[u] # "READY" /\ r.oncpu[u] = NoCpu
    BY <1>0, <1>1, <2>2, Zenon DEF SuspendedStep
  <2>4. ResumedStep(r, s', u) /\ Announced(r, s', c)
    BY <1>1, <2>1, <2>2, <2>3, ResumedEffect, ResumedAnnounced, ZenonT(30)
  <2>5. s'.stat = [s.stat EXCEPT ![u] = "READY"] /\ s'.oncpu = s.oncpu /\ s'.current = s.current
    BY <1>0, <2>2, <2>3, <2>4, ZenonT(30) DEF SuspendedStep, ResumedStep
  <2>6. \A v \in All : In(v, s'.waiters) <=> In(v, s.waiters)
    BY <1>3, <2>2, <2>4, Zenon DEF SuspendedStep, ResumedStep, In
  <2>7. /\ s'.stat[u] = "READY" /\ \A v \in All \ {u} : s'.stat[v] = s.stat[v]
        /\ pc'[t] = "sched" /\ \A v \in All \ {t} : pc'[v] = pc[v]
    BY <1>0, <1>1, <1>2, <2>1, <2>5, ZenonT(30) DEF Goto
  <2>8. (\A v \in All : HeapThread(v)') /\ HeapCount'
    <3>1. s.stat[t] \notin {"none", "INIT"}
      BY Here, SMTT(30)
    <3>2. \A v \in All : HeapSame(v)
      BY <1>2, <1>4, <2>6, <2>7, <3>1, ZenonT(30) DEF HeapSame
    <3> QED
      BY <1>0, <1>4, <3>2, HeapFrame, ZenonT(30)
  <2>9. \A v \in IdleThreads : IdleThread(v)'
    <3>1. \A v \in IdleThreads : IdleSame(v)
      BY <2>5, <2>7, Zenon DEF IdleSame, All
    <3> QED
      BY <1>0, <3>1, IdleFrame, Zenon
  <2>10. CoreAt(c)'
    BY <1>2, <1>4, <2>5, <2>7, AskingKeeps, ZenonT(30) DEF interrupts
  <2>11. \A d \in CPUs \ {c} : CoreAt(d)'
    <3>1. Announced(s, s', c)
      BY <2>2, <2>4, QuietThenAnnounced, Zenon
    <3>2. \A v \in All : (\E d \in CPUs \ {c} : s.current[d] = v) => v # t /\ v # u
      BY <1>1, <1>2, Zenon
    <3> QED
      BY <1>4, <2>5, <2>6, <2>7, <3>1, <3>2, OthersKeep, Zenon DEF interrupts, locks, MayBecome
  <2>12. SpinOK'
    BY <1>0, <1>4, <2>5, SpinFrame, ZenonT(30)
  <2> QED
    BY <2>8, <2>9, <2>10, <2>11, <2>12, ZenonT(30) DEF UInv
<1> QED
  BY <1>5, <1>6, Zenon

LEMMA EnterCriticalUrges == SInv /\ UInv /\ ~Undefined /\ EnterCriticalStep => UInv'
<1> SUFFICES ASSUME SInv, UInv, ~Undefined, NEW c \in CPUs, NEW t, Runs(t, c), t = Main, EnterCritical(t, c)
             PROVE  UInv'
  BY Zenon DEF EnterCriticalStep
<1>0. /\ (\A v \in All : HeapThread(v)) /\ HeapCount
      /\ (\A v \in IdleThreads : IdleThread(v)) /\ (\A d \in CPUs : CoreAt(d)) /\ SpinOK
  BY Zenon DEF UInv
<1>1. /\ UNCHANGED <<s, value, timer, irq, old_stat, irq_switch_flag, cpus_lock, pc>>
      /\ critical_lock = NoThread /\ critical_lock' = t /\ pc[t] = "job"
  BY Zenon DEF EnterCritical, timers, interrupts, At
<1>2. (\A v \in All : HeapThread(v)') /\ HeapCount'
  BY <1>0, <1>1, HeapFrame, Zenon DEF HeapSame
<1>3. \A v \in IdleThreads : IdleThread(v)'
  BY <1>0, <1>1, IdleFrame, Zenon DEF IdleSame
<1>4. \A d \in CPUs : CoreAt(d)'
  <2>1. \A v \in All : critical_lock # v
    BY <1>1, SchedAssumption, Zenon
  <2>2. \A d \in CPUs : Calm(d)
    BY <1>1, <2>1, Zenon DEF Calm, MayBecome
  <2> QED
    BY <1>0, <2>2, CalmKeeps, Zenon
<1>5. SpinOK'
  BY <1>0, <1>1, Zenon DEF SpinOK, Runs
<1> QED
  BY <1>2, <1>3, <1>4, <1>5, Zenon DEF UInv

LEMMA ReclaimUrges == SInv /\ UInv /\ ~Undefined /\ ReclaimStep => UInv'
<1> SUFFICES ASSUME SInv, UInv, ~Undefined, NEW c \in CPUs, NEW t, Runs(t, c), Reclaim(t, c)
             PROVE  UInv'
  BY Zenon DEF ReclaimStep
<1>0. /\ s \in SchedType /\ pc \in [All -> Places] /\ (\A v \in All : HeapThread(v)) /\ HeapCount
      /\ (\A v \in IdleThreads : IdleThread(v)) /\ (\A d \in CPUs : CoreAt(d)) /\ SpinOK
  BY Zenon DEF SInv, SchedOK, LinksOK, VarType, UInv
<1>1. /\ UNCHANGED <<value, timer, irq, old_stat, irq_switch_flag, critical_lock>> /\ cpus_lock' = c
      /\ Goto(t, "spin") /\ t = Idle[Cpu0] /\ pc[t] = "job"
      /\ s' = [s EXCEPT !.defunct = Tail(@)]
  BY Zenon DEF Reclaim, timers, interrupts, At
<1>2. t \in All /\ s.current[c] = t /\ ~Asking(t) /\ \A d \in CPUs \ {c} : s.current[d] # t
  BY <1>1, Here, SMTT(30) DEF Asking
<1>s. s.stat[t] \notin {"none", "INIT"} /\ ~In(t, s.waiters)
  BY <1>2, Here, SMTT(30)
<1>3. /\ s'.stat = s.stat /\ s'.oncpu = s.oncpu /\ s'.current = s.current /\ s'.waiters = s.waiters
      /\ s'.ipi = s.ipi /\ s'.group = s.group
  BY <1>0, <1>1, Zenon DEF SchedType
<1>4. pc'[t] = "spin" /\ \A v \in All \ {t} : pc'[v] = pc[v]
  BY <1>0, <1>1, <1>2, Zenon DEF Goto
<1>5. (\A v \in All : HeapThread(v)') /\ HeapCount'
  <2>1. \A v \in All : HeapSame(v)
    BY <1>1, <1>s, <1>3, <1>4, Zenon DEF HeapSame
  <2> QED
    BY <1>0, <1>1, <2>1, HeapFrame, Zenon
<1>6. \A v \in IdleThreads : IdleThread(v)'
  BY <1>0, <1>3, IdleFrame, Zenon DEF IdleSame
<1>7. \A d \in CPUs : CoreAt(d)'
  <2>1. \A d \in CPUs : Levels(s', d) = Levels(s, d)
    BY <1>3, Zenon DEF Levels
  <2>2. \A d \in CPUs : Calm(d)
    BY <1>1, <1>2, <1>s, <1>3, <1>4, <2>1, ZenonT(30) DEF Calm, MayBecome
  <2> QED
    BY <1>0, <2>2, CalmKeeps, Zenon
<1>8. SpinOK'
  <2>1. t # Main
    BY <1>1, MainIsThread, SchedAssumption, Zenon DEF IdleThreads
  <2> QED
    BY <1>0, <1>1, <1>2, <1>3, <1>4, <2>1, MainIsThread, ZenonT(30) DEF SpinOK
<1> QED
  BY <1>5, <1>6, <1>7, <1>8, ZenonT(30) DEF UInv

-----------------------------------------------------------------------------
LEMMA IdleBound ==
  /\ \A u \in IdleThreads : u \in All /\ bind_cpu[u] \in CPUs
  /\ \A c \in CPUs : Idle[c] \in IdleThreads /\ bind_cpu[Idle[c]] = c
<1>1. \A c \in CPUs : Idle[c] \in IdleThreads
  BY Zenon DEF IdleThreads
<1>2. ASSUME NEW u \in IdleThreads PROVE u \in All /\ bind_cpu[u] \in CPUs /\ Idle[bind_cpu[u]] = u
  <2>1. u \in All /\ \E c \in CPUs : Idle[c] = u
    BY Zenon DEF IdleThreads, All
  <2>2. bind_cpu[u] = CHOOSE c \in CPUs : Idle[c] = u
    BY <2>1, Zenon DEF bind_cpu
  <2> QED
    BY <2>1, <2>2, Zenon
<1>3. \A c, d \in CPUs : Idle[c] = Idle[d] => c = d
  BY SchedAssumption, SMTT(30) DEF IsInjective
<1> QED
  BY <1>1, <1>2, <1>3, Zenon

\* rt_schedule on core c, after a step that took the record of the scheduler
\* from s to r.
LEMMA ScheduleUrges ==
  ASSUME SInv, UInv, ~Undefined, NEW c \in CPUs, NEW t, t = s.current[c],
         NEW r, SchedOK(r), Quieter(s, r), s' = Schedule(r, c),
         r.current = s.current, r.oncpu = s.oncpu,
         \A u \in All : /\ In(u, r.waiters) <=> In(u, s.waiters)
                        /\ u # t => r.stat[u] = s.stat[u] /\ pc'[u] = pc[u],
         r.stat[t] = s.stat[t] \/ (r.stat[t] = "CLOSE" /\ t \notin IdleThreads),
         pc'[t] \in {"heap", "take"} <=> pc[t] \in {"heap", "take"},
         value' = value, timer' \subseteq timer,
         UNCHANGED locks, Unlocked, critical_lock # t,
         irq'[c] = "none",
         \A d \in CPUs \ {c} : /\ irq'[d] = irq[d] /\ old_stat'[d] = old_stat[d]
                               /\ d \in irq_switch_flag => d \in irq_switch_flag',
         s' = r => WaitsAt(c)' /\ SuspendAt(c)'
  PROVE  UInv'
<1>0. /\ s.stat \in [All -> Stats] /\ \A u \in All : ThreadOK(u)
      /\ (\A u \in All : HeapThread(u)) /\ HeapCount
      /\ (\A u \in IdleThreads : IdleThread(u)) /\ SpinOK
      /\ r.stat \in [All -> Stats] /\ r.oncpu \in [All -> Queues] /\ r.current \in [CPUs -> All]
  BY Zenon DEF SInv, SchedOK, LinksOK, SchedType, UInv
<1>1. t \in All /\ s.stat[t] \notin {"none", "INIT", "READY"} /\ \A d \in CPUs \ {c} : s.current[d] # t
  BY OnCore, SMTT(30)
<1>r. r.stat[t] \notin {"none", "INIT", "READY"}
  BY <1>1, Zenon
<1>2. s' = r \/ \E to \in All : r.stat[to] = "READY" /\ SwitchStep(r, s', c, to)
  BY ScheduleEffect, Zenon
<1>3. ScheduleStep(r, s', c)
  BY ScheduleUrgent, Zenon
<1>4. Announced(s, s', c)
  BY <1>3, QuietThenAnnounced, Zenon DEF ScheduleStep
<1>5. \A u \in All : In(u, s.waiters) => s.stat[u] # "READY"
  BY <1>0, Zenon DEF ThreadOK
<1> DEFINE Effect ==
      /\ \A d \in CPUs \ {c} : s'.current[d] = s.current[d]
      /\ \A u \in All : (\E d \in CPUs \ {c} : s.current[d] = u) => s'.stat[u] = s.stat[u]
      /\ \A u \in All : In(u, s'.waiters) <=> In(u, s.waiters)
      /\ \A u \in All : s'.stat[u] \in {"none", "INIT"} => s.stat[u] \in {"none", "INIT"} /\ u # t
      /\ \A u \in IdleThreads : IdleSame(u)
      /\ s' = r \/ (s'.stat[s'.current[c]] = "RUNNING" /\ ~In(s'.current[c], s'.waiters))
<1>6. ASSUME s' = r PROVE Effect
  <2>1. \A u \in IdleThreads : IdleSame(u)
    BY <1>6, IdleBound, ZenonT(30) DEF IdleSame
  <2> QED
    BY <1>1, <1>6, <1>r, <2>1, ZenonT(30)
<1>7. ASSUME NEW to \in All, r.stat[to] = "READY", SwitchStep(r, s', c, to) PROVE Effect
  <2>1. to # t /\ s.stat[to] = "READY"
    BY <1>7, <1>r, Zenon
  <2>2. \A d \in CPUs : s.current[d] # to
    BY <2>1, OffCore, Zenon
  <2>3. /\ s'.stat = [r.stat EXCEPT ![t] = IF @ = "RUNNING" THEN "READY" ELSE @, ![to] = "RUNNING"]
        /\ s'.oncpu = [r.oncpu EXCEPT ![t] = NoCpu, ![to] = c]
        /\ s'.current = [r.current EXCEPT ![c] = to]
        /\ \A u \in All : Contains(s'.waiters, u) <=> Contains(r.waiters, u) /\ u # to
    BY <1>7, ZenonT(30) DEF SwitchStep
  <2>4. /\ s'.stat[to] = "RUNNING" /\ s'.oncpu[to] = c /\ s'.current[c] = to
        /\ s'.stat[t] = (IF r.stat[t] = "RUNNING" THEN "READY" ELSE r.stat[t]) /\ s'.oncpu[t] = NoCpu
        /\ \A u \in All \ {to, t} : s'.stat[u] = s.stat[u] /\ s'.oncpu[u] = s.oncpu[u]
        /\ \A d \in CPUs \ {c} : s'.current[d] = s.current[d]
    <3>1. s'.stat[to] = "RUNNING" /\ s'.stat[t] = (IF r.stat[t] = "RUNNING" THEN "READY" ELSE r.stat[t])
      BY <1>0, <1>1, <2>1, <2>3, ZenonT(30)
    <3>2. \A u \in All \ {to, t} : s'.stat[u] = s.stat[u]
      BY <1>0, <2>3, SMTT(30)
    <3>3. s'.oncpu[to] = c /\ s'.oncpu[t] = NoCpu /\ \A u \in All \ {to, t} : s'.oncpu[u] = s.oncpu[u]
      BY <1>0, <1>1, <2>1, <2>3, SMTT(30)
    <3>4. s'.current[c] = to /\ \A d \in CPUs \ {c} : s'.current[d] = s.current[d]
      BY <1>0, <2>3, SMTT(30)
    <3> QED
      BY <3>1, <3>2, <3>3, <3>4, Zenon
  <2>5. \A u \in All : In(u, s'.waiters) <=> In(u, s.waiters)
    BY <1>5, <2>1, <2>3, ZenonT(30) DEF In
  <2>6. s' # r
    BY <2>1, <2>4, ZenonT(30)
  <2>7. to \in IdleThreads => bind_cpu[to] = c
    BY <1>3, <2>4, <2>6, IdleBound, NoCoreIsNone, ZenonT(30) DEF ScheduleStep
  <2>8. \A u \in IdleThreads : IdleSame(u)
    <3> SUFFICES ASSUME NEW u \in IdleThreads PROVE IdleSame(u)
      BY Zenon
    <3>1. CASE u = to
      BY <2>4, <2>7, <3>1, ZenonT(30) DEF IdleSame
    <3>2. CASE u = t
      BY <2>4, <3>2, Zenon DEF IdleSame
    <3>3. CASE u \notin {to, t}
      BY <2>4, <3>3, IdleBound, ZenonT(30) DEF IdleSame
    <3> QED
      BY <3>1, <3>2, <3>3, ZenonT(30)
  <2>9. \A u \in All : s'.stat[u] \in {"none", "INIT"} => s.stat[u] \in {"none", "INIT"} /\ u # t
    BY <1>r, <2>4, SMTT(30)
  <2>10. \A u \in All : (\E d \in CPUs \ {c} : s.current[d] = u) => s'.stat[u] = s.stat[u]
    <3> SUFFICES ASSUME NEW d \in CPUs \ {c}, NEW u \in All, s.current[d] = u PROVE s'.stat[u] = s.stat[u]
      BY Zenon
    <3>1. u \notin {to, t}
      BY <1>1, <2>2, Zenon
    <3> QED
      BY <2>4, <3>1, Zenon
  <2>11. ~In(s'.current[c], s'.waiters)
    BY <2>3, <2>4, Zenon DEF In
  <2> QED
    BY <2>4, <2>5, <2>8, <2>9, <2>10, <2>11, Zenon
<1>8. Effect
  BY <1>2, <1>6, <1>7, ZenonT(30)
<1> HIDE DEF Effect
<1>9. (\A u \in All : HeapThread(u)') /\ HeapCount'
  <2>1. \A u \in All : HeapSame(u)
    BY <1>8, Zenon DEF HeapSame, Effect
  <2> QED
    BY <1>0, <2>1, HeapFrame, Zenon
<1>10. \A u \in IdleThreads : IdleThread(u)'
  BY <1>0, <1>8, IdleFrame, Zenon DEF Effect
<1>11. \A d \in CPUs \ {c} : CoreAt(d)'
  <2>1. \A u \in All : (\E d \in CPUs \ {c} : s.current[d] = u) =>
          /\ pc'[u] = pc[u] /\ MayBecome(s.stat[u], s'.stat[u]) /\ (In(u, s'.waiters) => In(u, s.waiters))
          /\ critical_lock = u => critical_lock' = u
    <3> SUFFICES ASSUME NEW d \in CPUs \ {c}, NEW u \in All, s.current[d] = u
                 PROVE  /\ pc'[u] = pc[u] /\ MayBecome(s.stat[u], s'.stat[u])
                        /\ In(u, s'.waiters) => In(u, s.waiters)
                        /\ critical_lock = u => critical_lock' = u
      BY Zenon
    <3>1. u # t
      BY <1>1, Zenon
    <3>2. s'.stat[u] = s.stat[u] /\ (In(u, s'.waiters) => In(u, s.waiters))
      BY <1>8, Zenon DEF Effect
    <3> QED
      BY <3>1, <3>2, Zenon DEF MayBecome, locks
  <2>2. \A d \in CPUs \ {c} : s'.current[d] = s.current[d]
    BY <1>8, Zenon DEF Effect
  <2> QED
    BY <1>4, <2>1, <2>2, OthersKeep, ZenonT(30)
<1>12. CoreAt(c)'
  <2>1. UrgentAt(c)'
    <3>1. Levels(s', c) = Levels(s, c)'
      BY Zenon DEF Levels
    <3> QED
      BY <1>3, <3>1, Zenon DEF ScheduleStep, UrgentAt
  <2>2. WaitsAt(c)' /\ SuspendAt(c)'
    <3>1. CASE s' = r
      BY <3>1, Zenon
    <3>2. CASE s'.stat[s'.current[c]] = "RUNNING" /\ ~In(s'.current[c], s'.waiters)
      BY <3>2, Zenon DEF WaitsAt, SuspendAt
    <3> QED
      BY <1>8, <3>1, <3>2, Zenon DEF Effect
  <2> QED
    BY <2>1, <2>2, Zenon DEF CoreAt
<1>13. SpinOK'
  <2>1. critical_lock = Main => pc'[Main] = pc[Main]
    BY MainIsThread, Zenon
  <2> QED
    BY <1>0, <1>8, <2>1, SpinFrame, ZenonT(30) DEF Effect
<1> QED
  BY <1>9, <1>10, <1>11, <1>12, <1>13, ZenonT(30) DEF UInv

\* The idle thread of a core with nobody ready and a suspended thread.
LEMMA IdleSuspended ==
  ASSUME SInv, UInv, NEW c \in CPUs, Levels(s, c) = {}, s.stat[s.current[c]] = "SUSPEND"
  PROVE  s.stat[Idle[c]] = "SUSPEND"
<1>1. PICK i \in IdleThreads : i = Idle[c] /\ bind_cpu[i] = c /\ i \in All
  BY IdleBound, Zenon
<1>2. s.stat[i] \in {"READY", "RUNNING", "SUSPEND"} /\ (s.oncpu[i] # NoCpu => s.oncpu[i] = c)
  BY <1>1, Zenon DEF UInv, IdleThread
<1>3. CoreOK(s.stat, s.oncpu, s.current) /\ ReadyOK(s.stat, s.ready, s.group)
  BY Zenon DEF SInv, SchedOK, LinksOK
<1>4. s.stat[i] # "READY"
  <2>1. s.group[c] = {Priority[t] : t \in ReadyAt(s.stat, c)}
    BY <1>3, Zenon DEF ReadyOK, QueueOK, Queues
  <2>2. s.stat[i] = "READY" => i \in ReadyAt(s.stat, c)
    BY <1>1, Zenon DEF ReadyAt
  <2>3. s.group[c] = {}
    BY Zenon DEF Levels
  <2> QED
    BY <2>1, <2>2, <2>3, Zenon
<1>5. s.stat[i] # "RUNNING"
  <2>1. s.stat[i] = "RUNNING" => s.current[c] = i
    BY <1>1, <1>2, <1>3, ZenonT(30) DEF CoreOK
  <2> QED
    BY <2>1, SMTT(30)
<1> QED
  BY <1>1, <1>2, <1>4, <1>5, Zenon

LEMMA CallScheduleUrges == SInv /\ UInv /\ ~Undefined /\ CallScheduleStep => UInv'
<1> SUFFICES ASSUME SInv, UInv, ~Undefined, NEW c \in CPUs, NEW t, Runs(t, c), CallSchedule(t, c)
             PROVE  UInv'
  BY Zenon DEF CallScheduleStep
<1>0. /\ SchedOK(s) /\ pc \in [All -> Places] /\ SpinOK /\ \A u \in All : ThreadOK(u)
  BY Zenon DEF SInv, VarType, UInv
<1>1. t \in All /\ s.current[c] = t /\ irq[c] = "none"
  BY Here, Zenon
<1>2. /\ s' = Schedule(s, c) /\ UNCHANGED <<value, timer, irq, old_stat, irq_switch_flag, locks, history>>
      /\ pc[t] \in {"take", "sched"} /\ pc' = [pc EXCEPT ![t] = IF pc[t] = "take" THEN "heap" ELSE "job"] /\ Unlocked
  BY Zenon DEF CallSchedule, timers, interrupts, At, Goto
<1>3. /\ pc'[t] \in {"heap", "job"} /\ \A u \in All : u # t => pc'[u] = pc[u]
      /\ pc'[t] \in {"heap", "take"} <=> pc[t] \in {"heap", "take"}
  BY <1>0, <1>1, <1>2, Zenon
<1>4. critical_lock # t
  BY <1>0, <1>1, <1>2, SchedAssumption, ZenonT(30) DEF SpinOK
<1>5. Quieter(s, s)
  BY Zenon DEF Quieter
<1>6. ASSUME s' = s PROVE WaitsAt(c)' /\ SuspendAt(c)'
  <2>1. s'.current[c] = t /\ irq'[c] = "none"
    BY <1>1, <1>2, <1>6, ZenonT(30)
  <2>2. s'.stat[t] = "SUSPEND" => Undefined'
    BY <1>3, <2>1, ZenonT(30) DEF Undefined
  <2>3. In(t, s'.waiters) => s'.stat[t] = "SUSPEND"
    BY <1>0, <1>1, <1>6, ZenonT(30) DEF ThreadOK
  <2>4. s'.stat[t] = "SUSPEND" => s'.stat[Idle[c]] = "SUSPEND"
    <3> SUFFICES ASSUME s.stat[t] = "SUSPEND" PROVE s.stat[Idle[c]] = "SUSPEND"
      BY <1>6, Zenon
    <3>1. ScheduleStep(s, s, c)
      BY <1>0, <1>2, <1>6, ScheduleUrgent, ZenonT(30)
    <3>2. Levels(s, c) = {}
      BY <1>1, <3>1, SMTT(30) DEF ScheduleStep
    <3> QED
      BY <1>1, <3>2, IdleSuspended, ZenonT(30)
  <2> QED
    BY <2>1, <2>2, <2>3, <2>4, ZenonT(30) DEF WaitsAt, SuspendAt
<1> QED
  BY <1>0, <1>1, <1>2, <1>3, <1>4, <1>5, <1>6, ScheduleUrges, ZenonT(30)

LEMMA IrqExitUrges == SInv /\ UInv /\ ~Undefined /\ IrqExitStep => UInv'
<1> SUFFICES ASSUME SInv, UInv, ~Undefined, NEW c \in CPUs, IrqExit(c)
             PROVE  UInv'
  BY Zenon DEF IrqExitStep
<1>0. /\ VarType /\ SchedOK(s) /\ SpinOK /\ (\A u \in All : HeapThread(u)) /\ HeapCount
      /\ (\A u \in IdleThreads : IdleThread(u)) /\ (\A d \in CPUs : CoreAt(d)) /\ s.current \in [CPUs -> All]
  BY Zenon DEF SInv, VarType, UInv, SchedOK, LinksOK, SchedType
<1>1. PICK t \in All : t = s.current[c]
  BY <1>0, Zenon
<1>2. /\ irq[c] = "exit" /\ irq' = [irq EXCEPT ![c] = "none"] /\ Unlocked
      /\ UNCHANGED <<value, timer, old_stat, locks, pc, history>>
  BY Zenon DEF IrqExit, Phase, timers
<1>3. irq'[c] = "none" /\ \A d \in CPUs \ {c} : irq'[d] = irq[d]
  BY <1>0, <1>2, ZenonT(30) DEF VarType
<1>p. /\ ~(pc[t] = "heap" /\ In(t, s.waiters)) /\ (s.stat[t] = "SUSPEND" => Asking(t)) /\ UrgentAt(c)
  BY <1>0, <1>1, Zenon DEF CoreAt, WaitsAt, SuspendAt
<1>w. ASSUME s' = s PROVE WaitsAt(c)' /\ SuspendAt(c)'
  <2>1. s'.current[c] = t /\ pc' = pc /\ (s'.stat[t] = "SUSPEND" => Asking(t)')
    BY <1>1, <1>2, <1>p, <1>w, ZenonT(30) DEF Asking
  <2> QED
    BY <1>2, <1>3, <1>p, <1>w, <2>1, ZenonT(30) DEF WaitsAt, SuspendAt
<1>4. CASE c \in irq_switch_flag /\ critical_lock # s.current[c]
  <2>1. s' = Schedule(s, c) /\ irq_switch_flag' = irq_switch_flag \ {c} /\ critical_lock # t
    BY <1>1, <1>4, Zenon DEF IrqExit
  <2>2. Quieter(s, s)
    BY Zenon DEF Quieter
  <2> QED
    BY <1>0, <1>1, <1>2, <1>3, <1>w, <2>1, <2>2, ScheduleUrges, ZenonT(30)
<1>5. CASE ~(c \in irq_switch_flag /\ critical_lock # s.current[c])
  <2>1. s' = s /\ irq_switch_flag' = irq_switch_flag
    BY <1>5, Zenon DEF IrqExit
  <2>2. (\A u \in All : HeapThread(u)') /\ HeapCount'
    BY <1>0, <1>2, <2>1, HeapFrame, ZenonT(30) DEF HeapSame
  <2>3. \A u \in IdleThreads : IdleThread(u)'
    BY <1>0, <2>1, IdleFrame, ZenonT(30) DEF IdleSame
  <2>4. \A d \in CPUs \ {c} : CoreAt(d)'
    <3>1. \A d \in CPUs \ {c} : Calm(d)
      BY <1>2, <1>3, <2>1, Zenon DEF Calm, MayBecome, locks
    <3> QED
      BY <1>0, <3>1, CalmKeeps, ZenonT(30)
  <2>5. UrgentAt(c)'
    <3>1. critical_lock' = critical_lock /\ s'.current[c] = t /\ Asking(t)' = Asking(t)
      BY <1>1, <1>2, <2>1, ZenonT(30) DEF locks, Asking
    <3>2. \/ c \in s.ipi \/ Asking(t) \/ critical_lock = t \/ s.stat[t] # "RUNNING"
          \/ \A p \in Levels(s, c) : Priority[t] <= p
      BY <1>1, <1>2, <1>5, <1>p, ZenonT(30) DEF UrgentAt
    <3>3. Levels(s, c)' = Levels(s, c)
      BY <2>1, Zenon DEF Levels
    <3> QED
      BY <2>1, <3>1, <3>2, <3>3, ZenonT(30) DEF UrgentAt
  <2>6. SpinOK'
    BY <1>0, <1>2, <2>1, SpinFrame, Zenon
  <2> QED
    BY <1>w, <2>1, <2>2, <2>3, <2>4, <2>5, <2>6, ZenonT(30) DEF UInv, CoreAt
<1> QED
  BY <1>4, <1>5, Zenon

LEMMA ExitUrges == SInv /\ UInv /\ ~Undefined /\ ExitStep => UInv'
<1> SUFFICES ASSUME SInv, UInv, ~Undefined, NEW c \in CPUs, NEW t, Runs(t, c), Exit(t, c)
             PROVE  UInv'
  BY Zenon DEF ExitStep
<1>0. SchedOK(s) /\ s.stat \in [All -> Stats] /\ \A u \in All : ThreadOK(u)
  BY Zenon DEF SInv, SchedOK, LinksOK, SchedType
<1>1. /\ s' = Schedule(Closed(s, t), c) /\ timer' = timer \ {t} /\ Unlocked /\ critical_lock # t /\ t \in Threads
      /\ UNCHANGED <<value, irq, old_stat, irq_switch_flag, locks, pc, history>> /\ pc[t] = "job"
  BY Zenon DEF Exit, interrupts, At
<1>2. t \in All /\ s.current[c] = t /\ irq[c] = "none" /\ ~In(t, s.waiters)
  BY <1>1, Here, Zenon DEF Asking
<1> DEFINE r == Closed(s, t)
<1>3. SchedOK(r) /\ ClosedStep(s, r, t) /\ Quieter(s, r) /\ s' = Schedule(r, c)
  BY <1>0, <1>1, <1>2, ClosedEffect, ClosedQuiet, Zenon
<1> HIDE DEF r
<1>4. /\ r.current = s.current /\ r.oncpu = s.oncpu /\ r.stat[t] = "CLOSE"
      /\ \A u \in All : /\ In(u, r.waiters) <=> In(u, s.waiters)
                        /\ u # t => r.stat[u] = s.stat[u]
  BY <1>0, <1>2, <1>3, Zenon DEF ClosedStep, In
<1>5. t \notin IdleThreads
  BY <1>1, SchedAssumption, Zenon
<1>6. ASSUME s' = r PROVE WaitsAt(c)' /\ SuspendAt(c)'
  BY <1>1, <1>2, <1>4, <1>6, Zenon DEF WaitsAt, SuspendAt
<1> QED
  BY <1>1, <1>2, <1>3, <1>4, <1>5, <1>6, ScheduleUrges, ZenonT(30)

\* rt_thread_resume of thread u in an interrupt of core c, r being the record
\* of the scheduler after the start of a thread, or s.
LEMMA ResumeUrges ==
  ASSUME SInv, UInv, ~Undefined, NEW c \in CPUs, NEW u \in Threads, ~In(u, s.waiters),
         s.stat[u] \in {"INIT", "SUSPEND"},
         NEW r, SchedOK(r), Quieter(s, r), r.stat[u] # "READY", s' = Resumed(r, u, c),
         r.current = s.current, r.oncpu = s.oncpu,
         \A v \in All : /\ In(v, r.waiters) <=> In(v, s.waiters)
                        /\ v # u => r.stat[v] = s.stat[v],
         value' = value, timer' \subseteq timer, UNCHANGED <<old_stat, locks, pc>>,
         irq' = [irq EXCEPT ![c] = "exit"], irq_switch_flag' = irq_switch_flag \cup {c}
  PROVE  UInv'
<1>0. /\ VarType /\ s.stat \in [All -> Stats] /\ s.current \in [CPUs -> All] /\ u \in All
      /\ CoreOK(s.stat, s.oncpu, s.current)
      /\ (\A v \in All : HeapThread(v)) /\ HeapCount
      /\ (\A v \in IdleThreads : IdleThread(v)) /\ (\A d \in CPUs : CoreAt(d)) /\ SpinOK
      /\ r.stat \in [All -> Stats]
  BY Zenon DEF SInv, SchedOK, LinksOK, SchedType, UInv, All
<1>1. ResumedStep(r, s', u) /\ Announced(r, s', c)
  BY <1>0, ResumedEffect, ResumedAnnounced, ZenonT(30)
<1>2. Announced(s, s', c)
  BY <1>1, QuietThenAnnounced, Zenon
<1>3. /\ s'.current = s.current /\ s'.oncpu = s.oncpu
      /\ \A v \in All : In(v, s'.waiters) <=> In(v, s.waiters)
      /\ s'.stat = [r.stat EXCEPT ![u] = IF s.oncpu[u] # NoCpu THEN "RUNNING" ELSE "READY"]
  BY <1>1, Zenon DEF ResumedStep, In
<1>4. /\ s'.stat[u] = (IF s.oncpu[u] # NoCpu THEN "RUNNING" ELSE "READY")
      /\ \A v \in All \ {u} : s'.stat[v] = s.stat[v]
  BY <1>0, <1>3, SMTT(30)
<1>5. irq'[c] = "exit" /\ (\A d \in CPUs \ {c} : irq'[d] = irq[d]) /\ c \in irq_switch_flag'
  BY <1>0, Zenon DEF VarType
<1>6. (\A v \in All : HeapThread(v)') /\ HeapCount'
  <2>1. \A v \in All : HeapSame(v)
    <3>1. s'.stat[u] \notin {"none", "INIT"}
      BY <1>4, SMTT(30)
    <3> QED
      BY <1>3, <1>4, <3>1, ZenonT(30) DEF HeapSame
  <2> QED
    BY <1>0, <2>1, HeapFrame, ZenonT(30)
<1>7. \A v \in IdleThreads : IdleThread(v)'
  <2>1. \A v \in IdleThreads : v \in All /\ v # u
    BY SchedAssumption, Zenon DEF All
  <2>2. \A v \in IdleThreads : IdleSame(v)
    BY <1>3, <1>4, <2>1, ZenonT(30) DEF IdleSame
  <2> QED
    BY <1>0, <2>2, IdleFrame, ZenonT(30)
<1>8. CoreAt(c)'
  <2>1. PICK t \in All : t = s.current[c]
    BY <1>0, Zenon
  <2>2. CoreAt(c)
    BY <1>0, Zenon
  <2>3. /\ ~(pc[t] = "heap" /\ In(t, s.waiters))
        /\ s.stat[t] = "SUSPEND" => pc[t] \in {"take", "sched"}
    BY <2>1, <2>2, ZenonT(30) DEF CoreAt, WaitsAt, SuspendAt, Asking
  <2>4. s'.stat[t] = "SUSPEND" => s.stat[t] = "SUSPEND"
    BY <1>4, SMTT(30)
  <2>5. s'.current[c] = t /\ pc' = pc
    BY <1>3, <2>1, ZenonT(30)
  <2>6. /\ s'.stat[t] = "SUSPEND" => pc'[t] \in {"take", "sched"}
        /\ ~(pc'[t] = "heap" /\ In(t, s'.waiters))
    BY <1>3, <2>3, <2>4, <2>5, ZenonT(30)
  <2> QED
    BY <1>5, <2>5, <2>6, FlaggedKeeps, ZenonT(30)
<1>9. \A d \in CPUs \ {c} : CoreAt(d)'
  <2>1. \A v \in All : (\E d \in CPUs \ {c} : s.current[d] = v) =>
          /\ pc'[v] = pc[v] /\ MayBecome(s.stat[v], s'.stat[v]) /\ (In(v, s'.waiters) => In(v, s.waiters))
          /\ critical_lock = v => critical_lock' = v
    <3> SUFFICES ASSUME NEW d \in CPUs \ {c}, NEW v \in All, s.current[d] = v
                 PROVE  MayBecome(s.stat[v], s'.stat[v])
      BY <1>3, ZenonT(30) DEF locks
    <3>1. s.oncpu[v] # NoCpu /\ s.stat[v] # "INIT"
      BY <1>0, NoCoreIsNone, SMTT(30) DEF CoreOK
    <3> QED
      BY <1>4, <3>1, SMTT(30) DEF MayBecome
  <2> QED
    BY <1>2, <1>3, <1>5, <2>1, OthersKeep, ZenonT(30)
<1>10. SpinOK'
  BY <1>0, <1>3, SpinFrame, ZenonT(30)
<1> QED
  BY <1>6, <1>7, <1>8, <1>9, <1>10, ZenonT(30) DEF UInv

LEMMA TimeoutUrges == SInv /\ UInv /\ ~Undefined /\ TimeoutStep => UInv'
<1> SUFFICES ASSUME SInv, UInv, ~Undefined, NEW c \in CPUs, NEW u \in timer, Timeout(c, u)
             PROVE  UInv'
  BY Zenon DEF TimeoutStep
<1>1. /\ s' = Resumed(s, u, c) /\ timer' \subseteq timer /\ irq' = [irq EXCEPT ![c] = "exit"]
      /\ value' = value /\ irq_switch_flag' = irq_switch_flag \cup {c} /\ UNCHANGED <<old_stat, locks, pc>>
  BY Zenon DEF Timeout, Enter
<1>2. u \in Threads /\ u \in All /\ ThreadOK(u) /\ HeapThread(u) /\ SchedOK(s)
  BY Zenon DEF SInv, UInv, VarType, All
<1>3. s.stat[u] = "SUSPEND" /\ ~In(u, s.waiters) /\ Quieter(s, s)
  BY <1>2, Zenon DEF ThreadOK, HeapThread, Quieter
<1> QED
  BY <1>1, <1>2, <1>3, ResumeUrges

LEMMA PeriodUrges == SInv /\ UInv /\ ~Undefined /\ PeriodStep => UInv'
<1> SUFFICES ASSUME SInv, UInv, ~Undefined, NEW c \in CPUs, NEW u \in period_timer, Period(c, u)
             PROVE  UInv'
  BY Zenon DEF PeriodStep
<1>1. /\ timer' \subseteq timer /\ irq' = [irq EXCEPT ![c] = "exit"] /\ s.stat[u] \in {"INIT", "SUSPEND"}
      /\ value' = value /\ irq_switch_flag' = irq_switch_flag \cup {c} /\ UNCHANGED <<old_stat, locks, pc>>
  BY Zenon DEF Period, Enter
<1>2. u \in Threads /\ u \in All /\ ThreadOK(u) /\ SchedOK(s) /\ u \in Periodic /\ s.stat \in [All -> Stats]
  BY SchedAssumption, Zenon DEF SInv, VarType, All, SchedOK, LinksOK, SchedType
<1>3. ~In(u, s.waiters) /\ Quieter(s, s)
  BY <1>2, ZenonT(30) DEF ThreadOK, Quieter
<1>4. CASE s.stat[u] = "SUSPEND"
  <2>1. s' = Resumed(s, u, c)
    BY <1>4, Zenon DEF Period
  <2> QED
    BY <1>1, <1>2, <1>3, <1>4, <2>1, ResumeUrges
<1>5. CASE s.stat[u] = "INIT"
  <2> DEFINE r == Suspended(s, u)
  <2>1. s' = Resumed(r, u, c)
    BY <1>5, Zenon DEF Period
  <2>2. SchedOK(r) /\ SuspendedStep(s, r, u) /\ Quieter(s, r)
    BY <1>2, SuspendedEffect, SuspendedQuiet, ZenonT(30)
  <2> HIDE DEF r
  <2>3. /\ r.current = s.current /\ r.oncpu = s.oncpu /\ r.stat[u] # "READY"
        /\ \A v \in All : /\ In(v, r.waiters) <=> In(v, s.waiters)
                          /\ v # u => r.stat[v] = s.stat[v]
    BY <1>2, <1>3, <2>2, ZenonT(30) DEF SuspendedStep, In
  <2> QED
    BY <1>1, <1>2, <1>3, <2>1, <2>2, <2>3, ResumeUrges, ZenonT(30)
<1> QED
  BY <1>1, <1>4, <1>5, ZenonT(30)

LEMMA OverrunUrges == SInv /\ UInv /\ ~Undefined /\ OverrunStep => UInv'
<1> SUFFICES ASSUME SInv, UInv, ~Undefined, NEW c \in CPUs, NEW u \in period_timer, Overrun(c, u)
             PROVE  UInv'
  BY Zenon DEF OverrunStep
<1>0. /\ VarType /\ SchedOK(s) /\ s.stat \in [All -> Stats]
      /\ (\A v \in All : HeapThread(v)) /\ HeapCount
      /\ (\A v \in IdleThreads : IdleThread(v)) /\ (\A d \in CPUs : CoreAt(d)) /\ SpinOK
  BY Zenon DEF SInv, SchedOK, LinksOK, SchedType, UInv
<1>1. /\ s' = Closed(s, u) /\ timer' = timer \ {u} /\ irq[c] = "none" /\ irq' = [irq EXCEPT ![c] = "exit"]
      /\ UNCHANGED <<value, old_stat, irq_switch_flag, locks, pc>>
  BY Zenon DEF Overrun, Enter
<1>2. u \in Threads /\ u \in All /\ u \in Periodic /\ ThreadOK(u)
  BY <1>0, SchedAssumption, ZenonT(30) DEF VarType, All, SInv
<1>3. ~In(u, s.waiters)
  BY <1>2, Zenon DEF ThreadOK
<1>4. ClosedStep(s, s', u) /\ Quieter(s, s')
  BY <1>0, <1>1, <1>2, ClosedEffect, ClosedQuiet, ZenonT(30)
<1>5. /\ s'.current = s.current /\ s'.oncpu = s.oncpu /\ s'.stat[u] = "CLOSE"
      /\ \A v \in All \ {u} : s'.stat[v] = s.stat[v]
      /\ \A v \in All : In(v, s'.waiters) <=> In(v, s.waiters)
  BY <1>0, <1>2, <1>3, <1>4, ZenonT(30) DEF ClosedStep, In
<1>6. (\A v \in All : HeapThread(v)') /\ HeapCount'
  <2>1. \A v \in All : HeapSame(v)
    BY <1>1, <1>5, Zenon DEF HeapSame
  <2> QED
    BY <1>0, <1>1, <2>1, HeapFrame, ZenonT(30)
<1>7. \A v \in IdleThreads : IdleThread(v)'
  <2>1. \A v \in IdleThreads : v \in All /\ v # u
    BY <1>2, SchedAssumption, ZenonT(30) DEF All
  <2>2. \A v \in IdleThreads : IdleSame(v)
    BY <1>5, <2>1, ZenonT(30) DEF IdleSame
  <2> QED
    BY <1>0, <2>2, IdleFrame, ZenonT(30)
<1>8. \A d \in CPUs : CoreAt(d)'
  <2> SUFFICES ASSUME NEW d \in CPUs PROVE Calm(d)
    BY <1>0, CalmKeeps, Zenon
  <2>1. Levels(s', d) \subseteq Levels(s, d) /\ s'.ipi = s.ipi
    BY <1>4, QuietIsAnnounced, Zenon DEF Quieter
  <2>2. irq'[d] = irq[d] \/ (irq[d] = "none" /\ irq'[d] = "exit")
    BY <1>0, <1>1, Zenon DEF VarType
  <2>3. \A v \in All : MayBecome(s.stat[v], s'.stat[v])
    <3>1. s.stat[u] # "freed"
      BY <1>2, Zenon DEF ThreadOK
    <3> QED
      BY <1>5, <3>1, Zenon DEF MayBecome
  <2> QED
    BY <1>1, <1>5, <2>1, <2>2, <2>3, ZenonT(30) DEF Calm, locks
<1>9. SpinOK'
  BY <1>0, <1>1, <1>5, SpinFrame, Zenon
<1> QED
  BY <1>6, <1>7, <1>8, <1>9, ZenonT(30) DEF UInv

LEMMA TickUrges == SInv /\ UInv /\ ~Undefined /\ (TickStep \/ IpiStep \/ SliceReadStep) => UInv'
<1> SUFFICES ASSUME SInv, UInv, ~Undefined, NEW c \in CPUs, Tick(c) \/ Ipi(c) \/ SliceRead(c)
             PROVE  UInv'
  BY Zenon DEF TickStep, IpiStep, SliceReadStep
<1>0. /\ VarType /\ s \in SchedType
      /\ (\A v \in All : HeapThread(v)) /\ HeapCount
      /\ (\A v \in IdleThreads : IdleThread(v)) /\ (\A d \in CPUs : CoreAt(d)) /\ SpinOK
  BY Zenon DEF SInv, SchedOK, LinksOK, SchedType, UInv
<1>1. /\ irq[c] = "none" /\ UNCHANGED <<value, timer, locks, pc>>
      /\ s' = s \/ s' = [s EXCEPT !.ipi = @ \ {c}]
  BY Zenon DEF Tick, Ipi, SliceRead, Enter, timers
<1>2. /\ s'.stat = s.stat /\ s'.oncpu = s.oncpu /\ s'.current = s.current /\ s'.waiters = s.waiters
      /\ s'.group = s.group /\ s'.ipi \subseteq s.ipi /\ s.ipi \subseteq s'.ipi \cup {c}
  BY <1>0, <1>1, ZenonT(30) DEF SchedType
<1>3. (\A v \in All : HeapThread(v)') /\ HeapCount'
  BY <1>0, <1>1, <1>2, HeapFrame, Zenon DEF HeapSame
<1>4. \A v \in IdleThreads : IdleThread(v)'
  BY <1>0, <1>2, IdleFrame, Zenon DEF IdleSame
<1>5. SpinOK'
  BY <1>0, <1>1, <1>2, SpinFrame, ZenonT(30)
<1>6. \A d \in CPUs : Levels(s', d) = Levels(s, d)
  BY <1>2, Zenon DEF Levels
<1>7. /\ \A d \in CPUs \ {c} : irq'[d] = irq[d] /\ old_stat'[d] = old_stat[d]
      /\ irq_switch_flag \subseteq irq_switch_flag'
  BY <1>0, Zenon DEF Tick, Ipi, SliceRead, Enter, VarType
<1>8. \A d \in CPUs \ {c} : CoreAt(d)'
  <2>1. \A d \in CPUs \ {c} : Calm(d)
    BY <1>1, <1>2, <1>6, <1>7, ZenonT(30) DEF Calm, MayBecome, locks
  <2> QED
    BY <1>0, <2>1, CalmKeeps, ZenonT(30)
<1>9. CoreAt(c)'
  <2>1. PICK t \in All : t = s.current[c]
    BY <1>0, Zenon DEF SchedType
  <2>2. CoreAt(c)
    BY <1>0, Zenon
  <2>3. /\ ~(pc[t] = "heap" /\ In(t, s.waiters))
        /\ s.stat[t] = "SUSPEND" => pc[t] \in {"take", "sched"}
    BY <2>1, <2>2, Zenon DEF CoreAt, WaitsAt, SuspendAt, Asking
  <2>4. s'.current[c] = t /\ pc' = pc
    BY <1>1, <1>2, <2>1, ZenonT(30)
  <2>5. CASE Tick(c)
    <3>1. irq'[c] = "exit" /\ UNCHANGED <<s, irq_switch_flag, locks>>
      BY <1>0, <2>5, ZenonT(30) DEF Tick, Enter, VarType
    <3>2. Calm(c)
      BY <1>1, <3>1, <2>4, ZenonT(30) DEF Calm, MayBecome, locks
    <3> QED
      BY <2>2, <3>2, CalmKeeps, ZenonT(30)
  <2>6. CASE Ipi(c)
    <3>1. irq'[c] = "exit" /\ c \in irq_switch_flag'
      BY <1>0, <2>6, ZenonT(30) DEF Ipi, Enter, VarType
    <3> QED
      BY <1>2, <2>3, <2>4, <3>1, FlaggedKeeps, ZenonT(30)
  <2>7. CASE SliceRead(c)
    <3>1. irq'[c] = "slice" /\ t \in Sliced /\ old_stat'[c] = s.stat[t]
      BY <1>0, <2>1, <2>7, ZenonT(30) DEF SliceRead, Enter, VarType
    <3>2. WaitsAt(c)'
      BY <1>2, <2>3, <2>4, ZenonT(30) DEF WaitsAt
    <3>3. s.stat[t] = "SUSPEND" => Asking(t)'
      BY <2>3, <2>4, ZenonT(30) DEF Asking
    <3>4. SuspendAt(c)' /\ UrgentAt(c)'
      BY <1>2, <2>4, <3>1, <3>3, ZenonT(30) DEF SuspendAt, UrgentAt
    <3> QED
      BY <3>2, <3>4, Zenon DEF CoreAt
  <2> QED
    BY <2>5, <2>6, <2>7, ZenonT(30)
<1> QED
  BY <1>3, <1>4, <1>5, <1>8, <1>9, ZenonT(30) DEF UInv

LEMMA SliceWriteUrges == SInv /\ UInv /\ ~Undefined /\ SliceWriteStep => UInv'
<1> SUFFICES ASSUME SInv, UInv, ~Undefined, NEW c \in CPUs, SliceWrite(c)
             PROVE  UInv'
  BY Zenon DEF SliceWriteStep
<1>0. /\ VarType /\ s \in SchedType /\ SliceOK /\ CoreAt(c)
      /\ (\A v \in All : HeapThread(v)) /\ HeapCount
      /\ (\A v \in IdleThreads : IdleThread(v)) /\ SpinOK
  BY Zenon DEF SInv, SchedOK, LinksOK, SchedType, UInv
<1>1. PICK t \in All : t = s.current[c]
  BY <1>0, ZenonT(30) DEF SchedType
<1>2. PICK x \in Stats : x = old_stat[c]
  BY <1>0, Zenon DEF VarType
<1>3. /\ irq[c] = "slice" /\ irq' = [irq EXCEPT ![c] = "exit"]
      /\ s' = [s EXCEPT !.stat[t] = x, !.yield[t] = TRUE]
      /\ irq_switch_flag' = irq_switch_flag \cup {c}
      /\ old_stat' = [old_stat EXCEPT ![c] = "none"]
      /\ UNCHANGED <<value, timer, locks, pc>>
  BY <1>1, <1>2, ZenonT(30) DEF SliceWrite, Phase, timers
<1>4. x \notin {"none", "INIT"}
  BY <1>0, <1>2, <1>3, SMTT(30) DEF SliceOK
<1>5. /\ ~(pc[t] = "heap" /\ In(t, s.waiters)) /\ t \in Sliced
      /\ x = "SUSPEND" => pc[t] \in {"take", "sched"}
  BY <1>0, <1>1, <1>2, <1>3, ZenonT(30) DEF CoreAt, WaitsAt, SuspendAt, Asking
<1>6. /\ s'.stat = [s.stat EXCEPT ![t] = x] /\ s'.oncpu = s.oncpu /\ s'.current = s.current
      /\ s'.group = s.group /\ s'.ipi = s.ipi /\ s'.waiters = s.waiters
  BY <1>0, <1>3, ZenonT(30) DEF SchedType
<1>7. s'.stat[t] = x /\ \A v \in All \ {t} : s'.stat[v] = s.stat[v]
  BY <1>0, <1>6, Zenon DEF SchedType
<1>8. (\A v \in All : HeapThread(v)') /\ HeapCount'
  <2>1. \A v \in All : HeapSame(v)
    BY <1>3, <1>4, <1>6, <1>7, ZenonT(30) DEF HeapSame
  <2> QED
    BY <1>0, <1>3, <2>1, HeapFrame, ZenonT(30)
<1>9. \A v \in IdleThreads : IdleThread(v)'
  <2>1. \A v \in IdleThreads : v \in All /\ v # t
    BY <1>5, SchedAssumption, ZenonT(30) DEF All
  <2>2. \A v \in IdleThreads : IdleSame(v)
    BY <1>6, <1>7, <2>1, ZenonT(30) DEF IdleSame
  <2> QED
    BY <1>0, <2>2, IdleFrame, ZenonT(30)
<1>10. CoreAt(c)'
  <2>1. irq'[c] = "exit" /\ c \in irq_switch_flag' /\ s'.current[c] = t
    BY <1>0, <1>1, <1>3, <1>6, ZenonT(30) DEF VarType
  <2> QED
    BY <1>3, <1>5, <1>6, <1>7, <2>1, FlaggedKeeps, ZenonT(30)
<1>11. \A d \in CPUs \ {c} : CoreAt(d)'
  <2>1. Announced(s, s', c)
    BY <1>6, Zenon DEF Announced, Levels
  <2>2. \A d \in CPUs \ {c} : s.current[d] # t
    BY <1>1, OnCore, ZenonT(30)
  <2>3. \A d \in CPUs \ {c} : irq'[d] = irq[d] /\ old_stat'[d] = old_stat[d]
    BY <1>0, <1>3, ZenonT(30) DEF VarType
  <2> QED
    <3>1. \A v \in All : (\E d \in CPUs \ {c} : s.current[d] = v) => v # t
      BY <2>2, Zenon
    <3> QED
      BY <1>3, <1>6, <1>7, <2>1, <2>3, <3>1, OthersKeep, ZenonT(30) DEF MayBecome, locks
<1>12. SpinOK'
  BY <1>0, <1>3, <1>6, SpinFrame, ZenonT(30)
<1> QED
  BY <1>8, <1>9, <1>10, <1>11, <1>12, ZenonT(30) DEF UInv

-----------------------------------------------------------------------------
LEMMA UrgeNext == SInv /\ UInv /\ [Next]_vars => UInv'
<1> SUFFICES ASSUME SInv, UInv, [Next]_vars PROVE UInv'
  BY Zenon
<1>1. CASE UNCHANGED vars
  BY <1>1, UrgeFrame, Zenon DEF vars, timers, interrupts
<1>2. CASE Next
  BY <1>2, Steps, SleepUrges, JobTestUrges, TakeHeapUrges, ReleaseHeapUrges, CreateUrges, StartupUrges,
     EnterCriticalUrges, ReclaimUrges, CallScheduleUrges, IrqExitUrges, ExitUrges, TimeoutUrges, PeriodUrges,
     OverrunUrges, TickUrges, SliceWriteUrges, ZenonT(30)
<1> QED
  BY <1>1, <1>2, Zenon

LEMMA UrgeInit == Init => UInv
<1> SUFFICES ASSUME Init PROVE UInv
  BY Zenon
<1> DEFINE on == [c \in CPUs |-> IF c = Cpu0 THEN Main ELSE Idle[c]]
           running == {on[c] : c \in CPUs}
<1>1. /\ s.stat = [t \in All |-> IF t \in running THEN "RUNNING"
                                ELSE IF t \in IdleThreads THEN "READY" ELSE "none"]
      /\ s.oncpu = [t \in All |-> IF t \in running THEN CHOOSE c \in CPUs : on[c] = t ELSE NoCpu]
      /\ s.group = [q \in CPUs \cup {NoCpu} |-> IF q = Cpu0 THEN {Priority[Idle[Cpu0]]} ELSE {}]
      /\ s.current = on /\ s.waiters = <<>>
  BY Zenon DEF Init
<1>2. /\ value = 1 /\ timer = {} /\ irq = [c \in CPUs |-> "none"] /\ pc = [t \in All |-> "job"]
      /\ cpus_lock = NoCpu /\ critical_lock = NoThread
  BY Zenon DEF Init
<1>3. \A t \in All : ~In(t, s.waiters)
  BY <1>1, SMTT(30) DEF In, Contains
<1>4. (\A t \in All : HeapThread(t)) /\ HeapCount
  BY <1>2, <1>3, Zenon DEF HeapThread, HeapCount, Holders
<1>5. \A t \in IdleThreads : IdleThread(t)
  <2> SUFFICES ASSUME NEW t \in IdleThreads PROVE IdleThread(t)
    BY Zenon
  <2>1. t \in All /\ t # Main
    BY IdleBound, MainIsThread, ZenonT(30)
  <2>2. CASE t \in running
    <3>1. PICK c \in CPUs : on[c] = t /\ c # Cpu0 /\ Idle[c] = t
      BY <2>1, <2>2, ZenonT(30)
    <3>2. \A d \in CPUs : on[d] = t => d = c
      BY <2>1, <3>1, IdleBound, SMTT(30)
    <3>3. s.oncpu[t] = CHOOSE d \in CPUs : on[d] = t
      BY <1>1, <2>1, <2>2, Zenon
    <3>4. s.oncpu[t] = c
      BY <3>1, <3>2, <3>3, ZenonT(30)
    <3>5. bind_cpu[t] = c /\ s.stat[t] = "RUNNING"
      BY <1>1, <2>1, <2>2, <3>1, IdleBound, ZenonT(30)
    <3> QED
      BY <3>4, <3>5, ZenonT(30) DEF IdleThread
  <2>3. CASE t \notin running
    BY <1>1, <2>1, <2>3, ZenonT(30) DEF IdleThread
  <2> QED
    BY <2>2, <2>3, Zenon
<1>6. ASSUME NEW c \in CPUs PROVE CoreAt(c)
  <2>1. PICK t \in All : t = s.current[c] /\ t = (IF c = Cpu0 THEN Main ELSE Idle[c])
    BY <1>1, IdleBound, MainIsThread, ZenonT(30)
  <2>2. s.stat[t] = "RUNNING"
    <3>1. t \in running
      BY <1>1, <2>1, Zenon
    <3> QED
      BY <1>1, <3>1, ZenonT(30)
  <2>3. irq[c] = "none"
    BY <1>2, Zenon
  <2>4. WaitsAt(c) /\ SuspendAt(c)
    BY <1>2, <2>1, <2>2, <2>3, ZenonT(30) DEF WaitsAt, SuspendAt
  <2>5. \A p \in Levels(s, c) : Priority[t] <= p
    <3>1. CASE c = Cpu0
      <4>1. Levels(s, c) = {Priority[Idle[Cpu0]]}
        BY <1>1, <3>1, NoCoreIsNone, Zenon DEF Levels
      <4>2. Priority[Main] < Priority[Idle[Cpu0]] /\ Priority[Main] \in Nat /\ Priority[Idle[Cpu0]] \in Nat
        BY <3>1, IdleBound, PriorityType, SchedAssumption, MainIsThread, ZenonT(30)
      <4> QED
        BY <2>1, <3>1, <4>1, <4>2, SMTT(30)
    <3>2. CASE c # Cpu0
      BY <1>1, <3>2, SchedAssumption, ZenonT(30) DEF Levels
    <3> QED
      BY <3>1, <3>2, Zenon
  <2>6. UrgentAt(c)
    BY <2>1, <2>5, Zenon DEF UrgentAt
  <2> QED
    BY <2>4, <2>6, Zenon DEF CoreAt
<1>7. SpinOK
  BY <1>2, Zenon DEF SpinOK
<1> QED
  BY <1>4, <1>5, <1>6, <1>7, ZenonT(30) DEF UInv

LEMMA UrgeInv == Spec => [](SInv /\ UInv)
<1>1. Init => SInv /\ UInv
  BY SchedInit, UrgeInit, Zenon
<1>2. SInv /\ UInv /\ [Next]_vars => SInv' /\ UInv'
  BY SchedNext, UrgeNext, Zenon
<1> QED
  BY <1>1, <1>2, PTL DEF Spec

\* No core is left with a thread that a ready one is more urgent than:
\* whoever gets ready is announced to every other core that may run it
\* (rt_schedule_insert_thread), and the core that made it ready calls
\* rt_schedule next, or rt_scheduler_do_irq_switch.
THEOREM UrgentThreadsRun == Spec => []MostUrgentRuns
<1>1. UInv => MostUrgentRuns
  BY Zenon DEF UInv, CoreAt, UrgentAt, MostUrgentRuns, Asking, Levels
<1> QED
  BY <1>1, UrgeInv, PTL

\* The idle thread's wait in rt_enter_critical with the kernel lock held ends,
\* unless an interrupt stops the thread it waits for: that thread is "main",
\* in its own code and on another core.
THEOREM IdleWaitEnds == Spec => []SpinEnds
<1>1. SInv /\ UInv => SpinEnds
  <2> SUFFICES ASSUME SInv, UInv, cpus_lock # NoCpu, critical_lock # NoThread
               PROVE  \/ \E c \in CPUs \ {cpus_lock} : Runs(critical_lock, c)
                      \/ \E c \in CPUs : irq[c] = "slice" /\ s.current[c] = critical_lock
                      \/ Inverted
    BY Zenon DEF SpinEnds
  <2>1. SpinOK /\ VarType /\ ThreadOK(Main) /\ CoreOK(s.stat, s.oncpu, s.current)
    BY MainIsThread, Zenon DEF SInv, UInv, SchedOK
  <2>2. PICK d \in CPUs : s.current[d] = Main /\ critical_lock = Main
    BY <2>1, Zenon DEF SpinOK
  <2>3. cpus_lock # d
    <3>1. Idle[Cpu0] # Main
      <4>1. Idle[Cpu0] \in IdleThreads
        BY IdleBound, SchedAssumption, ZenonT(30)
      <4> QED
        BY <4>1, MainIsThread, SMTT(30)
    <3> QED
      BY <2>1, <2>2, <3>1, ZenonT(30) DEF SpinOK
  <2>4. s.stat[Main] # "freed"
    <3>1. s.oncpu[Main] = d /\ d # NoCpu
      BY <2>1, <2>2, MainIsThread, NoCoreIsNone, ZenonT(30) DEF CoreOK
    <3> QED
      BY <2>1, <3>1, MainIsThread, ZenonT(30) DEF ThreadOK, VarType
  <2>5. irq[d] \in {"none", "slice", "exit"}
    BY <2>1, ZenonT(30) DEF VarType, Phases
  <2> QED
    BY <2>2, <2>3, <2>4, <2>5, ZenonT(30) DEF Runs, Inverted
<1> QED
  BY <1>1, UrgeInv, PTL

-----------------------------------------------------------------------------
INSTANCE FiniteSetTheorems

\* heap_sem is a lock on the heap: rt_sem_take and rt_sem_release keep value
\* and holders in step, whatever the cores interleave.  The one thread that
\* may be on the heap without it is there because the idle thread of its core
\* is suspended, so that rt_schedule had nobody to switch to.
THEOREM HeapHasOneHolder == Spec => []HeapExclusive
<1>1. UInv => HeapExclusive
  <2> SUFFICES ASSUME UInv PROVE HeapExclusive
    BY Zenon
  <2>1. value + Cardinality(Holders) = 1
    <3>1. CASE value = 1 /\ Holders = {}
      BY <3>1, FS_EmptySet, SMTT(30)
    <3>2. ASSUME value = 0, NEW h \in All, Holders = {h} PROVE value + Cardinality(Holders) = 1
      <4>1. Cardinality(Holders) = 1
        BY <3>2, FS_Singleton, Zenon
      <4> QED
        BY <3>2, <4>1, SMTT(30)
    <3> QED
      BY <3>1, <3>2, ZenonT(30) DEF UInv, HeapCount
  <2> QED
    BY <2>1, ZenonT(30) DEF HeapExclusive, UInv, CoreAt, WaitsAt
<1> QED
  BY <1>1, UrgeInv, PTL

=============================================================================
