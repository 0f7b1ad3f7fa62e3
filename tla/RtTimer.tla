------------------------------ MODULE RtTimer -------------------------------
(***************************************************************************)
(* The timers of RT-Thread (rt-thread/src/timer.c) that the tick interrupt *)
(* serves: a list sorted by timeout_tick, the tick at which a timer        *)
(* expires, in the arithmetic of a counter that wraps.                     *)
(*                                                                         *)
(* Threads start and stop timers.  Their calls hold the kernel lock only   *)
(* in parts and are split where they do not.  rt_timer_check runs in the   *)
(* tick interrupt of each core, holding the lock for the whole loop, while *)
(* the other core can still read what needs no lock.  A timer is used by   *)
(* one thread at a time, besides the timeout functions.                    *)
(***************************************************************************)
EXTENDS RtList

CONSTANTS
  Timers, NoTimer,
  CPUs, Cpu0,     \* rt_tick_get reads the tick of core 0
  TickRange,      \* number of values of rt_tick_t, 2^32
  MaxInit,        \* bound on init_tick
  MaxLate,        \* bound on the ticks that pass while a call or an interrupt
                  \* is between reading the tick and using it
  Settings        \* the times and modes each timer is used with

RT_TICK_MAX == TickRange - 1
Half == RT_TICK_MAX \div 2

ASSUME TimerAssumption ==
  /\ NoTimer \notin Timers
  /\ Cpu0 \in CPUs
  /\ TickRange \in Nat /\ MaxInit \in Nat /\ MaxLate \in Nat \ {0}
  /\ MaxInit + MaxLate + 1 < Half
  /\ \A t \in Timers : Settings[t] \subseteq [time : 0 .. MaxInit, periodic : BOOLEAN]
  /\ \A t \in Timers : \A s \in Settings[t] : s.periodic => s.time > 0

VARIABLES
  tick,           \* rt_cpu_index(0)->tick
  list,           \* rt_timer_list
  timeout_tick, init_tick,
  activated, periodic,   \* RT_TIMER_FLAG_ACTIVATED, RT_TIMER_FLAG_PERIODIC
  op,             \* how far a thread is in a call for the timer, see Ops
  isr,            \* how far a core is in rt_timer_check, see Phases
  current_tick,   \* its local variables current_tick and t
  expiring,
  stopped,        \* history: timers stopped with RT_EOK, not started since
  restarted       \* history: one-shot timers in the list because their own
                  \* timeout function started them

flags == <<activated, periodic>>
check == <<isr, current_tick, expiring>>
vars  == <<tick, list, timeout_tick, init_tick, flags, op, check, stopped, restarted>>

\* rt_timer_start: the timer is out of the list, its timeout_tick computed;
\* rt_timer_stop: the flag was tested, the timer is out of the list.  A timer
\* is "gone" after rt_timer_detach or rt_timer_delete.
Ops == {"none", "removed", "computed", "tested", "unlinked", "gone"}
Phases == {"none", "read", "loop", "callback", "restart"}
Locks == {"loop", "callback", "restart"}

\* rt_tick_t arithmetic.
TickAdd(a, b) == IF a + b < TickRange THEN a + b ELSE a + b - TickRange
TickSub(a, b) == IF b <= a THEN a - b ELSE a - b + TickRange

Setting(n, p) == [time |-> n, periodic |-> p]

\* rt_timer_create
Init ==
  /\ tick = 0 /\ list = <<>>
  /\ timeout_tick = [t \in Timers |-> 0]
  /\ init_tick \in [Timers -> 0 .. MaxInit]
  /\ periodic \in [Timers -> BOOLEAN]
  /\ \A t \in Timers : Setting(init_tick[t], periodic[t]) \in Settings[t]
  /\ activated = [t \in Timers |-> FALSE]
  /\ op = [t \in Timers |-> "none"]
  /\ isr = [c \in CPUs |-> "none"]
  /\ current_tick = [c \in CPUs |-> 0]
  /\ expiring = NoTimer
  /\ stopped = {} /\ restarted = {}

Listed(t) == Contains(list, t)
Locked == \E c \in CPUs : isr[c] \in Locks

\* Mutant of Removed: the timer stays in the list.
RemovedNot(l, t) == l

\* _rt_timer_remove: nothing happens to a timer that is in no list.
Removed(l, t) == ListRemove(l, t)

\* The timeout_tick of a timer that is taken out of the list: rt_timer_check
\* does not read it before it is computed again, and the model forgets it.
Forgotten(t) == [timeout_tick EXCEPT ![t] = 0]

\* Mutant of Before: the operands of the difference are swapped.
BeforeSwapped(a, b) == TickSub(a, b) # 0 /\ TickSub(a, b) < Half

\* Whether rt_timer_start puts a timer due at a before one due at b.
Before(a, b) == TickSub(b, a) # 0 /\ TickSub(b, a) < Half

\* The list with t before the first timer that is due later.
Inserted(l, t, due) ==
  LET later == {k \in 1 .. Len(l) : Before(due[t], due[l[k]])}
  IN  InsertAt(l, IF later = {} THEN Len(l) + 1
                  ELSE CHOOSE k \in later : \A j \in later : k <= j, t)

\* Whether rt_timer_check finds that the first timer of the list has expired.
FirstExpired(c) == list # <<>> /\ TickSub(current_tick[c], timeout_tick[Head(list)]) < Half

-----------------------------------------------------------------------------
\* rt_timer_start by a thread: the timer is taken out of the list.
StartRemove(t) ==
  /\ op[t] = "none" /\ ~Locked
  /\ list' = Removed(list, t)
  /\ timeout_tick' = Forgotten(t)
  /\ activated' = [activated EXCEPT ![t] = FALSE]
  /\ op' = [op EXCEPT ![t] = "removed"]
  /\ stopped' = stopped \ {t} /\ restarted' = restarted \ {t}
  /\ UNCHANGED <<tick, init_tick, periodic, check>>

\* It reads the tick.  The kernel lock is not held.
StartCompute(t) ==
  /\ op[t] = "removed"
  /\ timeout_tick' = [timeout_tick EXCEPT ![t] = TickAdd(tick, init_tick[t])]
  /\ op' = [op EXCEPT ![t] = "computed"]
  /\ UNCHANGED <<tick, list, init_tick, flags, check, stopped, restarted>>

\* The timer is put into the list.
StartInsert(t) ==
  /\ op[t] = "computed" /\ ~Locked
  /\ list' = Inserted(list, t, timeout_tick)
  /\ activated' = [activated EXCEPT ![t] = TRUE]
  /\ op' = [op EXCEPT ![t] = "none"]
  /\ UNCHANGED <<tick, timeout_tick, init_tick, periodic, check, stopped, restarted>>

\* rt_timer_stop by a thread.  It returns -RT_ERROR if the flag is clear; the
\* flag is read without the lock.
StopTest(t) ==
  /\ op[t] = "none" /\ activated[t]
  /\ op' = [op EXCEPT ![t] = "tested"]
  /\ UNCHANGED <<tick, list, timeout_tick, init_tick, flags, check, stopped, restarted>>

StopRemove(t) ==
  /\ op[t] = "tested" /\ ~Locked
  /\ list' = Removed(list, t)
  /\ timeout_tick' = Forgotten(t)
  /\ op' = [op EXCEPT ![t] = "unlinked"]
  /\ restarted' = restarted \ {t}
  /\ UNCHANGED <<tick, init_tick, flags, check, stopped>>

\* Mutant of StopClear: the flag stays.
StopClearNot(t) ==
  /\ op[t] = "unlinked"
  /\ op' = [op EXCEPT ![t] = "none"]
  /\ stopped' = stopped \cup {t}
  /\ UNCHANGED <<tick, list, timeout_tick, init_tick, flags, check, restarted>>

\* The flag is cleared after the lock was given back.
StopClear(t) ==
  /\ op[t] = "unlinked"
  /\ activated' = [activated EXCEPT ![t] = FALSE]
  /\ op' = [op EXCEPT ![t] = "none"]
  /\ stopped' = stopped \cup {t}
  /\ UNCHANGED <<tick, list, timeout_tick, init_tick, periodic, check, restarted>>

\* rt_timer_control with RT_TIMER_CTRL_SET_TIME.
SetTime(t, n) ==
  /\ op[t] = "none" /\ Setting(n, periodic[t]) \in Settings[t]
  /\ init_tick' = [init_tick EXCEPT ![t] = n]
  /\ UNCHANGED <<tick, list, timeout_tick, flags, op, check, stopped, restarted>>

\* rt_timer_control with RT_TIMER_CTRL_SET_ONESHOT or _SET_PERIODIC.
SetMode(t, p) ==
  /\ op[t] = "none" /\ Setting(init_tick[t], p) \in Settings[t]
  /\ periodic' = [periodic EXCEPT ![t] = p]
  /\ UNCHANGED <<tick, list, timeout_tick, init_tick, activated, op, check, stopped, restarted>>

\* rt_timer_detach or rt_timer_delete, not by the timer's own timeout function.
Detach(t) ==
  /\ op[t] = "none" /\ ~Locked
  /\ list' = Removed(list, t)
  /\ timeout_tick' = Forgotten(t)
  /\ op' = [op EXCEPT ![t] = "gone"]
  /\ restarted' = restarted \ {t}
  /\ UNCHANGED <<tick, init_tick, flags, check, stopped>>

\* rt_timer_init or rt_timer_create: _rt_timer_init.
Create(t, n, p) ==
  /\ op[t] = "gone" /\ Setting(n, p) \in Settings[t]
  /\ timeout_tick' = [timeout_tick EXCEPT ![t] = 0]
  /\ init_tick' = [init_tick EXCEPT ![t] = n]
  /\ activated' = [activated EXCEPT ![t] = FALSE]
  /\ periodic' = [periodic EXCEPT ![t] = p]
  /\ op' = [op EXCEPT ![t] = "none"]
  /\ stopped' = stopped \ {t}
  /\ UNCHANGED <<tick, list, check, restarted>>

ThreadStep(t) ==
  \/ StartRemove(t)
  \/ StartCompute(t)
  \/ StartInsert(t)
  \/ StopTest(t)
  \/ StopRemove(t)
  \/ StopClear(t)
  \/ Detach(t)
  \/ \E n \in 0 .. MaxInit, p \in BOOLEAN : SetTime(t, n) \/ SetMode(t, p) \/ Create(t, n, p)

-----------------------------------------------------------------------------
\* Nothing is left behind by more than MaxLate ticks: neither a thread in
\* rt_timer_start nor the other core in rt_timer_check.
InTime ==
  /\ \A t \in Timers : op[t] = "computed" => TickSub(timeout_tick[t], tick) # TickRange - MaxLate
  /\ \A c \in CPUs : isr[c] # "none" => TickSub(tick, current_tick[c]) # MaxLate

\* The tick interrupt of core 0: rt_tick_increase counts the tick and
\* rt_timer_check reads it.
TickIncrease ==
  /\ isr[Cpu0] = "none" /\ InTime
  /\ tick' = TickAdd(tick, 1)
  /\ isr' = [isr EXCEPT ![Cpu0] = "read"]
  /\ current_tick' = [current_tick EXCEPT ![Cpu0] = tick']
  /\ UNCHANGED <<list, timeout_tick, init_tick, flags, op, expiring, stopped, restarted>>

\* The tick interrupt of another core, which counts a tick of its own.
CheckRead(c) ==
  /\ c # Cpu0 /\ isr[c] = "none"
  /\ isr' = [isr EXCEPT ![c] = "read"]
  /\ current_tick' = [current_tick EXCEPT ![c] = tick]
  /\ UNCHANGED <<tick, list, timeout_tick, init_tick, flags, op, expiring, stopped, restarted>>

CheckLock(c) ==
  /\ isr[c] = "read" /\ ~Locked
  /\ isr' = [isr EXCEPT ![c] = "loop"]
  /\ UNCHANGED <<tick, list, timeout_tick, init_tick, flags, op, current_tick, expiring,
                 stopped, restarted>>

\* The first timer of the list has expired: it is taken out, and its timeout
\* function is called.
CheckExpire(c) ==
  /\ isr[c] = "loop" /\ FirstExpired(c)
  /\ list' = Tail(list)
  /\ timeout_tick' = Forgotten(Head(list))
  /\ expiring' = Head(list)
  /\ isr' = [isr EXCEPT ![c] = "callback"]
  /\ restarted' = restarted \ {Head(list)}
  /\ UNCHANGED <<tick, init_tick, flags, op, current_tick, stopped>>

\* The timeout function starts a timer, perhaps its own.  No thread has taken
\* that timer out of the list to start or to stop it.
CallbackStart(c, t) ==
  /\ isr[c] = "callback" /\ op[t] \in {"none", "tested"}
  /\ timeout_tick' = [timeout_tick EXCEPT ![t] = TickAdd(tick, init_tick[t])]
  /\ list' = Inserted(Removed(list, t), t, timeout_tick')
  /\ activated' = [activated EXCEPT ![t] = TRUE]
  /\ stopped' = stopped \ {t} /\ restarted' = restarted \ {t}
  /\ UNCHANGED <<tick, init_tick, periodic, op, check>>

\* The timeout function stops a timer, perhaps its own.
CallbackStop(c, t) ==
  /\ isr[c] = "callback" /\ op[t] \in {"none", "tested"} /\ activated[t]
  /\ list' = Removed(list, t)
  /\ timeout_tick' = Forgotten(t)
  /\ activated' = [activated EXCEPT ![t] = FALSE]
  /\ stopped' = stopped \cup {t} /\ restarted' = restarted \ {t}
  /\ UNCHANGED <<tick, init_tick, periodic, op, check>>

\* Mutant of Repeats: a timer stopped by its timeout function starts again.
RepeatsAlways(t) == periodic[t]

\* Whether rt_timer_check starts a timer again.
Repeats(t) == periodic[t] /\ activated[t]

\* The timeout function has returned: a periodic timer that is still
\* activated will be started again.  A one-shot timer that its timeout
\* function has started loses its flag.
CheckReturn(c) ==
  /\ isr[c] = "callback"
  /\ current_tick' = [current_tick EXCEPT ![c] = tick]
  /\ activated' = [activated EXCEPT ![expiring] = FALSE]
  /\ IF Repeats(expiring)
       THEN isr' = [isr EXCEPT ![c] = "restart"] /\ UNCHANGED <<expiring, restarted>>
       ELSE /\ isr' = [isr EXCEPT ![c] = "loop"]
            /\ expiring' = NoTimer
            /\ restarted' = IF Listed(expiring) THEN restarted \cup {expiring} ELSE restarted
  /\ UNCHANGED <<tick, list, timeout_tick, init_tick, periodic, op, stopped>>

\* rt_timer_start by rt_timer_check.  Until the flag is set again
\* rt_timer_stop on another core finds the timer inactive.
CheckRestart(c) ==
  /\ isr[c] = "restart"
  /\ timeout_tick' = [timeout_tick EXCEPT ![expiring] = TickAdd(tick, init_tick[expiring])]
  /\ list' = Inserted(Removed(list, expiring), expiring, timeout_tick')
  /\ activated' = [activated EXCEPT ![expiring] = TRUE]
  /\ isr' = [isr EXCEPT ![c] = "loop"]
  /\ expiring' = NoTimer
  /\ UNCHANGED <<tick, init_tick, periodic, op, current_tick, stopped, restarted>>

\* No timer is left, or the first has not expired.
CheckDone(c) ==
  /\ isr[c] = "loop" /\ ~FirstExpired(c)
  /\ isr' = [isr EXCEPT ![c] = "none"]
  /\ current_tick' = [current_tick EXCEPT ![c] = 0]
  /\ UNCHANGED <<tick, list, timeout_tick, init_tick, flags, op, expiring, stopped, restarted>>

CheckStep(c) ==
  \/ CheckLock(c)
  \/ CheckExpire(c)
  \/ CheckReturn(c)
  \/ CheckRestart(c)
  \/ CheckDone(c)

Next ==
  \/ TickIncrease
  \/ \E c \in CPUs : \/ CheckRead(c)
                     \/ CheckStep(c)
                     \/ \E t \in Timers : CallbackStart(c, t) \/ CallbackStop(c, t)
  \/ \E t \in Timers : ThreadStep(t)

Spec == Init /\ [][Next]_vars

-----------------------------------------------------------------------------
\* Ticks from now until a, below 0 if a has passed.
Until(a, now) == IF TickSub(a, now) < Half THEN TickSub(a, now) ELSE TickSub(a, now) - TickRange

\* Ticks until a timer is due.
Left(t) == Until(timeout_tick[t], tick)

Calling == \E c \in CPUs : isr[c] = "callback"

Abstract == INSTANCE Countdown WITH
              left <- [t \in {list[k] : k \in 1 .. Len(list)} |-> Left(t)],
              calling <- IF Calling THEN expiring ELSE NoTimer

TypeOK ==
  /\ tick \in 0 .. RT_TICK_MAX
  /\ list \in Seq(Timers) /\ IsInjective(list)
  /\ timeout_tick \in [Timers -> 0 .. RT_TICK_MAX]
  /\ init_tick \in [Timers -> 0 .. MaxInit]
  /\ activated \in [Timers -> BOOLEAN] /\ periodic \in [Timers -> BOOLEAN]
  /\ op \in [Timers -> Ops]
  /\ isr \in [CPUs -> Phases]
  /\ current_tick \in [CPUs -> 0 .. RT_TICK_MAX]
  /\ expiring \in Timers \cup {NoTimer}
  /\ stopped \subseteq Timers /\ restarted \subseteq Timers

\* The sorted list with its wrapping ticks implements timers that count down
\* on their own: none is called early, the one due first is called first,
\* and rt_timer_check leaves none behind, although a thread may be held up in
\* the middle of rt_timer_start and a core may use an old tick.
ImplementsCountdown == Abstract!Spec

\* rt_timer_stop that returns RT_EOK sticks: the timer is neither in the list
\* nor about to be put there by rt_timer_check, also when the other core was
\* just expiring it or the stop came from the timer's own timeout function.
StopSticks ==
  \A t \in stopped : ~Listed(t) /\ ~(expiring = t /\ \E c \in CPUs : isr[c] = "restart")

\* rt_timer_stop can tell running timers from others by their flag, outside
\* the call of a timeout function and the restart that follows.  The
\* exception are one-shot timers that their own timeout function started.
FlagTellsTheTruth ==
  \A t \in Timers : (op[t] = "none" /\ expiring # t) =>
    (activated[t] <=> Listed(t) /\ t \notin restarted)

=============================================================================
