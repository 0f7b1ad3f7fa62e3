------------------------------- MODULE RtIpc --------------------------------
(***************************************************************************)
(* The suspend lists of RT-Thread's IPC objects (rt-thread/src/ipc.c and   *)
(* thread.c): sequences of threads, the first to be resumed first.  Every  *)
(* operation here runs with interrupts disabled, which on this two-core    *)
(* build also holds the one kernel lock (rt_cpus_lock), so each critical   *)
(* section of a kernel call is one step.                                   *)
(***************************************************************************)
EXTENDS RtList

RT_IPC_FLAG_FIFO == 0
RT_IPC_FLAG_PRIO == 1

\* Position rt_ipc_list_suspend gives a thread of priority p: the end of the
\* list, or with RT_IPC_FLAG_PRIO before the first thread of lower priority
\* (a larger number).  prio maps threads to their current_priority.
InsertPosition(list, p, flag, prio) ==
  LET lower == {k \in 1 .. Len(list) : p < prio[list[k]]}
  IN  IF flag = RT_IPC_FLAG_FIFO \/ lower = {} THEN Len(list) + 1
      ELSE CHOOSE k \in lower : \A j \in lower : k <= j

\* rt_ipc_list_suspend
ListSuspend(list, t, flag, prio) == InsertAt(list, InsertPosition(list, prio[t], flag, prio), t)

=============================================================================
