--------------------------- MODULE PeriodicMutex ----------------------------
(***************************************************************************)
(* A mutex shared by periodic threads (rt_thread_create_periodic in        *)
(* rt-thread/src/thread.c) and plain ones, as sps->target_mutex is by      *)
(* ping_thread and irq_in_handler, when nothing keeps a period from ending *)
(* before the job does.  rt_thread_timer_f, run by the period timer, looks *)
(* only at the state of the thread: one that is suspended is resumed,      *)
(* whatever it waits for, and one that is ready or running is deleted.     *)
(*                                                                         *)
(* A deleted thread takes no more steps here.  If it runs on the other     *)
(* core it goes on until that core schedules, which the properties below   *)
(* do not need.                                                            *)
(***************************************************************************)
EXTENDS RtMutex

CONSTANT Periodic   \* the threads with a period

VARIABLE life   \* "init": created; "idle": suspended between two jobs;
                \* "job": in the entry function; "close": deleted

periodicVars == <<vars, life>>

\* rt_thread_create_periodic and rt_thread_startup: a periodic thread stays
\* in RT_THREAD_INIT until its timer expires for the first time.
PeriodicInit ==
  /\ Init
  /\ life = [t \in Threads |-> IF t \in Periodic THEN "init" ELSE "job"]

\* A call of rt_mutex_take or rt_mutex_release in a job.  MaxHold bounds the
\* takes of a job that takes itself for the owner, too.
JobStep(t) ==
  /\ life[t] = "job" /\ Step(t)
  /\ depth'[t] <= MaxHold /\ (call'[t] # "out" => depth[t] < MaxHold)
  /\ UNCHANGED life

JobTimeout(t) == life[t] = "job" /\ Timeout(t) /\ UNCHANGED life

\* rt_periodic_task_f: the job returns, having released what it took, and
\* the thread suspends itself.
JobEnd(t) ==
  /\ t \in Periodic /\ life[t] = "job" /\ call[t] = "out" /\ depth[t] = 0
  /\ life' = [life EXCEPT ![t] = "idle"]
  /\ UNCHANGED vars

\* rt_thread_timer_f starts the thread or its next job.
Begin(t) ==
  /\ t \in Periodic /\ life[t] \in {"init", "idle"}
  /\ life' = [life EXCEPT ![t] = "job"]
  /\ UNCHANGED vars

\* rt_thread_timer_f finds the thread suspended in rt_mutex_take: it takes
\* the thread out of the list and leaves thread->error as it is.
ResumeWaiting(t) ==
  /\ t \in Periodic /\ life[t] = "job" /\ Suspended(t)
  /\ waiters' = ListRemove(waiters, t)
  /\ UNCHANGED <<mutex, current_priority, error, call, depth, life>>

\* rt_thread_timer_f finds the thread ready or running: the timer is stopped
\* and the thread deleted, whatever it holds.
Overrun(t) ==
  /\ t \in Periodic /\ life[t] = "job" /\ ~Suspended(t)
  /\ life' = [life EXCEPT ![t] = "close"]
  /\ UNCHANGED vars

PeriodicNext ==
  \E t \in Threads :
    \/ JobStep(t)
    \/ JobTimeout(t)
    \/ JobEnd(t)
    \/ Begin(t)
    \/ ResumeWaiting(t)
    \/ Overrun(t)

PeriodicSpec == PeriodicInit /\ [][PeriodicNext]_periodicVars

-----------------------------------------------------------------------------
\* What TakenMeansOwned of RtMutex becomes when a period may end during a
\* job: rt_mutex_take says "the mutex is taken successfully" to a thread that
\* was resumed without an error, which rt_thread_timer_f also does.
TakenIsOwned == \A t \in Threads : depth[t] > 0 => owner = t

\* However badly the periods are chosen, the mutex itself stays sound: it is
\* counted as free exactly when nobody owns it, nobody waits for a free
\* mutex, and a raised priority does not outlive the ownership.
ObjectSound ==
  /\ owner = NoThread <=> value = 1
  /\ owner = NoThread => waiters = <<>> /\ hold = 0
  /\ PriorityRestored

=============================================================================
