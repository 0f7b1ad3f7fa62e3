------------------------------ MODULE RtMutex -------------------------------
(***************************************************************************)
(* One mutex of RT-Thread (rt_mutex_* in rt-thread/src/ipc.c): recursive,  *)
(* handed over to a waiting thread on release, with the priority of its    *)
(* owner raised to that of the threads that begin to wait for it.          *)
(***************************************************************************)
EXTENDS RtIpc

CONSTANTS
  Threads,      \* the threads that use the mutex
  NoThread,     \* RT_NULL as mutex->owner
  Priority,     \* init_priority of each thread, a small number is urgent
  HoldRange,    \* number of values of mutex->hold, an rt_uint8_t: 256
  MaxHold       \* bound on the nesting of takes by one thread

ASSUME MutexAssumption ==
  /\ NoThread \notin Threads
  /\ Priority \in [Threads -> Nat]
  /\ HoldRange \in Nat /\ MaxHold \in Nat \ {0} /\ MaxHold < HoldRange

VARIABLES
  flag,               \* mutex->parent.parent.flag
  owner, value, hold, original_priority,
  waiters,            \* mutex->parent.suspend_thread
  current_priority,   \* thread->current_priority
  error,              \* thread->error
  call,               \* the thread is "out" of rt_mutex_take, or suspended
                      \* in it for some "ticks" or "forever"
  depth               \* takes of the thread that returned RT_EOK, less its
                      \* releases: what the thread relies on

mutex == <<flag, owner, value, hold, original_priority>>
vars  == <<mutex, waiters, current_priority, error, call, depth>>

Times == {"zero", "ticks", "forever"}
Errors == {"EOK", "ETIMEOUT", "ERROR"}
NoPriority == 255

\* rt_mutex_create
Init ==
  /\ flag \in {RT_IPC_FLAG_FIFO, RT_IPC_FLAG_PRIO}
  /\ owner = NoThread /\ value = 1 /\ hold = 0 /\ original_priority = NoPriority
  /\ waiters = <<>>
  /\ current_priority = Priority
  /\ error = [t \in Threads |-> "EOK"]
  /\ call = [t \in Threads |-> "out"]
  /\ depth = [t \in Threads |-> 0]

Suspended(t) == Contains(waiters, t)

\* The mutex becomes the thread's.
Own(t, priority) ==
  /\ owner' = t
  /\ original_priority' = priority

\* rt_mutex_take by the owner.
TakeAgain(t) ==
  /\ call[t] = "out" /\ owner = t /\ depth[t] < MaxHold
  /\ error' = [error EXCEPT ![t] = "EOK"]
  /\ hold' = (hold + 1) % HoldRange
  /\ depth' = [depth EXCEPT ![t] = @ + 1]
  /\ UNCHANGED <<flag, owner, value, original_priority, waiters, current_priority, call>>

\* rt_mutex_take finds the mutex free.
TakeFree(t) ==
  /\ call[t] = "out" /\ owner # t /\ value > 0
  /\ error' = [error EXCEPT ![t] = "EOK"]
  /\ value' = value - 1
  /\ Own(t, current_priority[t])
  /\ hold' = (hold + 1) % HoldRange
  /\ depth' = [depth EXCEPT ![t] = @ + 1]
  /\ UNCHANGED <<flag, waiters, current_priority, call>>

\* Mutant of Raised: the owner keeps its priority.
NotRaised(t) == current_priority

\* The priorities once thread t waits: the owner's is at least as urgent.
Raised(t) ==
  IF current_priority[t] < current_priority[owner]
    THEN [current_priority EXCEPT ![owner] = current_priority[t]]
    ELSE current_priority

\* rt_mutex_take by another thread than the owner: it returns -RT_ETIMEOUT
\* at once, or the thread is suspended, with its timer started for "ticks".
TakeBusy(t, time) ==
  /\ call[t] = "out" /\ owner # t /\ value = 0
  /\ IF time = "zero"
       THEN /\ error' = [error EXCEPT ![t] = "ETIMEOUT"]
            /\ UNCHANGED <<waiters, current_priority, call>>
       ELSE /\ error' = [error EXCEPT ![t] = "EOK"]
            /\ current_priority' = Raised(t)
            /\ waiters' = ListSuspend(waiters, t, flag, current_priority)
            /\ call' = [call EXCEPT ![t] = time]
  /\ UNCHANGED <<mutex, depth>>

\* Mutant of Timeout: the timer still runs after the thread was resumed.
TimeoutAfterResume(t) ==
  /\ call[t] = "ticks"
  /\ error' = [error EXCEPT ![t] = "ETIMEOUT"]
  /\ waiters' = ListRemove(waiters, t)
  /\ UNCHANGED <<mutex, current_priority, call, depth>>

\* rt_thread_timeout: the timer of a waiting thread expires.
Timeout(t) ==
  /\ Suspended(t) /\ call[t] = "ticks"
  /\ error' = [error EXCEPT ![t] = "ETIMEOUT"]
  /\ waiters' = ListRemove(waiters, t)
  /\ UNCHANGED <<mutex, current_priority, call, depth>>

\* A thread that was suspended in rt_mutex_take runs again and returns: with
\* its error, or with RT_EOK, "the mutex is taken successfully".
TakeReturn(t) ==
  /\ call[t] # "out" /\ ~Suspended(t)
  /\ depth' = [depth EXCEPT ![t] = IF error[t] = "EOK" THEN @ + 1 ELSE @]
  /\ call' = [call EXCEPT ![t] = "out"]
  /\ UNCHANGED <<mutex, waiters, current_priority, error>>

\* Mutant of Restored: the raised priority stays.
NotRestored(t) == current_priority

\* The priorities once the owner has given the mutex up.
Restored(t) == [current_priority EXCEPT ![t] = original_priority]

\* Mutant of PassOn: the mutex is set free, and the first waiting thread is
\* resumed as if it were its own.
SetFreeAndResume ==
  /\ owner' = NoThread /\ original_priority' = NoPriority
  /\ value' = value + 1
  /\ hold' = 0
  /\ waiters' = IF waiters = <<>> THEN <<>> ELSE Tail(waiters)

\* Mutant of PassOn: the mutex is set free and nobody is resumed.
SetFree ==
  /\ owner' = NoThread /\ original_priority' = NoPriority
  /\ value' = value + 1
  /\ hold' = 0
  /\ UNCHANGED waiters

\* The last release: the first waiting thread becomes the owner before it is
\* resumed; if nobody waits the mutex is free.
PassOn ==
  IF waiters # <<>>
    THEN /\ Own(Head(waiters), current_priority[Head(waiters)])
         /\ hold' = 1
         /\ waiters' = Tail(waiters)
         /\ UNCHANGED value
    ELSE /\ owner' = NoThread /\ original_priority' = NoPriority
         /\ value' = value + 1
         /\ hold' = 0
         /\ UNCHANGED waiters

\* rt_mutex_release by the owner: one of several holds, or the last.
Release(t) ==
  /\ call[t] = "out" /\ owner = t
  /\ depth' = [depth EXCEPT ![t] = @ - 1]
  /\ \/ /\ hold # 1
        /\ hold' = (hold - 1) % HoldRange
        /\ UNCHANGED <<owner, value, original_priority, waiters, current_priority>>
     \/ /\ hold = 1
        /\ current_priority' = Restored(t)
        /\ PassOn
  /\ UNCHANGED <<flag, error, call>>

\* rt_mutex_release by another thread returns -RT_ERROR; if that thread took
\* itself for the owner it no longer does.
ReleaseByOther(t) ==
  /\ call[t] = "out" /\ owner # t
  /\ error' = [error EXCEPT ![t] = "ERROR"]
  /\ depth' = [depth EXCEPT ![t] = IF @ > 0 THEN @ - 1 ELSE 0]
  /\ UNCHANGED <<mutex, waiters, current_priority, call>>

Step(t) ==
  \/ TakeAgain(t)
  \/ TakeFree(t)
  \/ \E time \in Times : TakeBusy(t, time)
  \/ TakeReturn(t)
  \/ Release(t)
  \/ ReleaseByOther(t)

Next == \E t \in Threads : Step(t) \/ Timeout(t)

Spec == Init /\ [][Next]_vars

\* The scheduler runs every thread that is ready, and whoever owns the mutex
\* gives it up in the end, however often it is taken again in between.
FairSpec ==
  /\ Spec
  /\ \A t \in Threads : /\ WF_vars(TakeReturn(t))
                        /\ WF_vars(Release(t))
                        /\ SF_vars(Release(t) /\ hold = 1)

-----------------------------------------------------------------------------
\* Every variable keeps its C type, and a waiting thread is in one place of
\* the list.
TypeOK ==
  /\ flag \in {RT_IPC_FLAG_FIFO, RT_IPC_FLAG_PRIO}
  /\ owner \in Threads \cup {NoThread}
  /\ value \in {0, 1}
  /\ hold \in 0 .. MaxHold
  /\ original_priority \in Nat
  /\ waiters \in Seq(Threads) /\ IsInjective(waiters)
  /\ current_priority \in [Threads -> Nat]
  /\ error \in [Threads -> Errors]
  /\ call \in [Threads -> {"out", "ticks", "forever"}]
  /\ depth \in [Threads -> 0 .. MaxHold]

\* A thread whose rt_mutex_take returned RT_EOK, be it at once, by recursion
\* or after a wait in which the mutex was handed over to it, is the owner,
\* with as many holds as it has takes to release.  No two threads can be.
TakenMeansOwned == \A t \in Threads : depth[t] > 0 => owner = t /\ hold = depth[t]

\* Ownership is never stranded, although it is handed over before the new
\* owner runs and a timer may be about to give the wait of that thread up:
\* the owner holds the mutex or is about to return from rt_mutex_take with
\* RT_EOK.  Nobody waits for a free mutex.
NoStrandedOwner ==
  /\ owner = NoThread <=> value = 1
  /\ owner = NoThread => waiters = <<>> /\ hold = 0
  /\ owner # NoThread =>
       \/ depth[owner] > 0
       \/ call[owner] # "out" /\ ~Suspended(owner) /\ error[owner] = "EOK" /\ hold = 1

\* A raised priority ends with the release: a thread that does not own the
\* mutex runs with the priority it was created with, whatever mix of takes,
\* timeouts and hand-overs went before.
PriorityRestored == \A t \in Threads : t # owner => current_priority[t] = Priority[t]

\* With RT_IPC_FLAG_PRIO the owner is at least as urgent as every thread that
\* waits for it, also when it was handed the mutex while others wait on.
NoInversion ==
  flag = RT_IPC_FLAG_PRIO =>
    \A k \in 1 .. Len(waiters) : current_priority[owner] <= current_priority[waiters[k]]

\* With RT_IPC_FLAG_FIFO a thread in rt_mutex_take gets out of it.
WaitEnds ==
  \A t \in Threads : flag = RT_IPC_FLAG_FIFO /\ call[t] # "out" ~> call[t] = "out"

=============================================================================
