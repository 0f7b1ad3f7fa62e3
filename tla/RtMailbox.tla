----------------------------- MODULE RtMailbox ------------------------------
(***************************************************************************)
(* One mailbox of RT-Thread (rt_mb_* in rt-thread/src/ipc.c): a ring of    *)
(* mails, a list of threads waiting to receive and one of threads waiting  *)
(* to send.  A call runs with interrupts disabled up to its return or to   *)
(* the point where it suspends its thread; a thread that was resumed runs  *)
(* on from there in a step of its own, so other calls and the timers of    *)
(* the threads may come in between.                                        *)
(***************************************************************************)
EXTENDS RtIpc, FiniteSets

CONSTANTS
  Threads,      \* the threads that use the mailbox
  Mails,        \* the values a mail can have
  Size,         \* mb->size
  Flag,         \* mb->parent.parent.flag
  Priority      \* current_priority of each thread

ASSUME MailboxAssumption ==
  /\ Size \in Nat \ {0}
  /\ Flag \in {RT_IPC_FLAG_FIFO, RT_IPC_FLAG_PRIO}
  /\ Priority \in [Threads -> Nat]

ASSUME FiniteThreads == IsFiniteSet(Threads)

VARIABLES
  msg_pool, entry, in_offset, out_offset,
  receivers,    \* mb->parent.suspend_thread
  senders,      \* mb->suspend_sender_thread
  buffer,       \* the value argument of the thread's last call
  call,         \* the call a thread is in: "none", "send" or "recv"
  timeout,      \* what that call may still wait, see Timeouts
  error         \* thread->error

ring   == <<msg_pool, entry, in_offset, out_offset>>
locals == <<buffer, call, timeout, error>>
vars   == <<ring, receivers, senders, locals>>

\* Calls may not wait, wait some ticks, or wait forever; "part" is a number
\* of ticks some of which the thread has already waited.
Timeouts == {"zero", "ticks", "forever"}
Errors == {"EOK", "ETIMEOUT", "ERROR"}

\* rt_mb_create
Init ==
  /\ msg_pool \in [0 .. Size - 1 -> Mails]
  /\ entry = 0 /\ in_offset = 0 /\ out_offset = 0
  /\ receivers = <<>> /\ senders = <<>>
  /\ buffer \in [Threads -> Mails]
  /\ call = [t \in Threads |-> "none"]
  /\ timeout = [t \in Threads |-> "zero"]
  /\ error = [t \in Threads |-> "EOK"]

Suspended(t) == Contains(receivers, t) \/ Contains(senders, t)

\* A thread calls rt_mb_send_wait(mb, m, w); rt_mb_send has w = "zero".
SendCall(t, m, w) ==
  /\ call[t] = "none"
  /\ call' = [call EXCEPT ![t] = "send"]
  /\ buffer' = [buffer EXCEPT ![t] = m]
  /\ timeout' = [timeout EXCEPT ![t] = w]
  /\ UNCHANGED <<ring, receivers, senders, error>>

\* A thread calls rt_mb_recv(mb, &value, w).
RecvCall(t, w) ==
  /\ call[t] = "none"
  /\ call' = [call EXCEPT ![t] = "recv"]
  /\ timeout' = [timeout EXCEPT ![t] = w]
  /\ UNCHANGED <<ring, receivers, senders, buffer, error>>

\* The call returns.  thread->error is set before every wait, so what it is
\* between two calls does not matter.
Return(t) ==
  /\ call' = [call EXCEPT ![t] = "none"]
  /\ timeout' = [timeout EXCEPT ![t] = "zero"]
  /\ error' = [error EXCEPT ![t] = "EOK"]

\* A suspended thread with a limited timeout has its timer running.
Wait(t) ==
  /\ timeout' = [timeout EXCEPT ![t] = IF @ = "forever" THEN @ ELSE "part"]
  /\ error' = [error EXCEPT ![t] = "EOK"]
  /\ UNCHANGED call

\* What is left of the timeout when the loop is tried again.
Left(t) == IF timeout[t] = "part" THEN {"part", "zero"} ELSE {timeout[t]}

\* An offset after it has been increased.
Advance(offset) == IF offset + 1 >= Size THEN 0 ELSE offset + 1

\* Mutant of ResumeFirst: nobody is woken up.
ResumeNobody(list) == list

\* rt_ipc_list_resume, if anybody is waiting.
ResumeFirst(list) == IF list = <<>> THEN list ELSE Tail(list)

\* A thread in rt_mb_send_wait runs: a wait that failed returns its error;
\* a full mailbox makes the call return -RT_EFULL or the thread wait (again);
\* otherwise the mail goes into the ring and the first receiver is resumed.
SendStep(t) ==
  /\ call[t] = "send" /\ ~Suspended(t)
  /\ \/ /\ error[t] # "EOK"
        /\ Return(t)
        /\ UNCHANGED <<ring, receivers, senders>>
     \/ /\ error[t] = "EOK" /\ entry = Size /\ "zero" \in Left(t)
        /\ Return(t)
        /\ UNCHANGED <<ring, receivers, senders>>
     \/ /\ error[t] = "EOK" /\ entry = Size /\ timeout[t] # "zero"
        /\ senders' = ListSuspend(senders, t, Flag, Priority)
        /\ Wait(t)
        /\ UNCHANGED <<ring, receivers>>
     \/ /\ error[t] = "EOK" /\ entry # Size
        /\ msg_pool' = [msg_pool EXCEPT ![in_offset] = buffer[t]]
        /\ in_offset' = Advance(in_offset)
        /\ entry' = entry + 1
        /\ receivers' = ResumeFirst(receivers)
        /\ Return(t)
        /\ UNCHANGED <<out_offset, senders>>
  /\ UNCHANGED buffer

\* Mutant of OldestMail: the offset of the writer is used.
MailAtWriter == msg_pool[in_offset]

\* The mail rt_mb_recv copies to its caller.
OldestMail == msg_pool[out_offset]

\* A thread in rt_mb_recv runs: a wait that failed returns its error; an
\* empty mailbox makes the call return -RT_ETIMEOUT or the thread wait
\* (again); otherwise the oldest mail is taken and the first sender resumed.
RecvStep(t) ==
  /\ call[t] = "recv" /\ ~Suspended(t)
  /\ \/ /\ error[t] # "EOK"
        /\ Return(t)
        /\ UNCHANGED <<ring, receivers, senders, buffer>>
     \/ /\ error[t] = "EOK" /\ entry = 0 /\ "zero" \in Left(t)
        /\ Return(t)
        /\ UNCHANGED <<ring, receivers, senders, buffer>>
     \/ /\ error[t] = "EOK" /\ entry = 0 /\ timeout[t] # "zero"
        /\ receivers' = ListSuspend(receivers, t, Flag, Priority)
        /\ Wait(t)
        /\ UNCHANGED <<ring, senders, buffer>>
     \/ /\ error[t] = "EOK" /\ entry # 0
        /\ buffer' = [buffer EXCEPT ![t] = OldestMail]
        /\ out_offset' = Advance(out_offset)
        /\ entry' = entry - 1
        /\ senders' = ResumeFirst(senders)
        /\ Return(t)
        /\ UNCHANGED <<msg_pool, in_offset, receivers>>

\* rt_thread_timeout: the timer of a waiting thread expires.
Timeout(t) ==
  /\ Suspended(t) /\ timeout[t] = "part"
  /\ error' = [error EXCEPT ![t] = "ETIMEOUT"]
  /\ receivers' = ListRemove(receivers, t)
  /\ senders' = ListRemove(senders, t)
  /\ UNCHANGED <<ring, buffer, call, timeout>>

\* Mutant of Reset: the offset of the reader is forgotten.
ResetWriter ==
  /\ error' = [t \in Threads |-> IF Suspended(t) THEN "ERROR" ELSE error[t]]
  /\ receivers' = <<>> /\ senders' = <<>>
  /\ entry' = 0 /\ in_offset' = 0
  /\ UNCHANGED <<msg_pool, out_offset, buffer, call, timeout>>

\* rt_mb_control(mb, RT_IPC_CMD_RESET): all waiting threads are resumed with
\* an error (rt_ipc_list_resume_all), all mails are dropped.
Reset ==
  /\ error' = [t \in Threads |-> IF Suspended(t) THEN "ERROR" ELSE error[t]]
  /\ receivers' = <<>> /\ senders' = <<>>
  /\ entry' = 0 /\ in_offset' = 0 /\ out_offset' = 0
  /\ UNCHANGED <<msg_pool, buffer, call, timeout>>

Next ==
  \/ Reset
  \/ \E t \in Threads :
       \/ \E m \in Mails, w \in Timeouts : SendCall(t, m, w)
       \/ \E w \in Timeouts : RecvCall(t, w)
       \/ SendStep(t)
       \/ RecvStep(t)
       \/ Timeout(t)

Spec == Init /\ [][Next]_vars

-----------------------------------------------------------------------------
\* Every variable keeps its C type and every suspended thread is in one
\* place of one list, the one of its call.
TypeOK ==
  /\ msg_pool \in [0 .. Size - 1 -> Mails]
  /\ entry \in 0 .. Size
  /\ in_offset \in 0 .. Size - 1 /\ out_offset \in 0 .. Size - 1
  /\ receivers \in Seq(Threads) /\ IsInjective(receivers)
  /\ senders \in Seq(Threads) /\ IsInjective(senders)
  /\ buffer \in [Threads -> Mails]
  /\ call \in [Threads -> {"none", "send", "recv"}]
  /\ timeout \in [Threads -> Timeouts \cup {"part"}]
  /\ error \in [Threads -> Errors]
  /\ \A k \in 1 .. Len(receivers) : call[receivers[k]] = "recv"
  /\ \A k \in 1 .. Len(senders) : call[senders[k]] = "send"

\* The two offsets and the counter, which rt_mb_send_wait and rt_mb_recv
\* update separately, stay consistent: the writer is entry places ahead of
\* the reader.
RingConsistent ==
  in_offset = IF out_offset + entry < Size THEN out_offset + entry
                                           ELSE out_offset + entry - Size

\* Threads in a call that will look at the mailbox again.
Awake(c) == {t \in Threads : call[t] = c /\ ~Suspended(t) /\ error[t] = "EOK"}

\* A call resumes only one waiting thread, and that one may find that a
\* newcomer was faster.  Still no thread is left waiting for nothing: as long
\* as somebody waits to receive, each mail in the mailbox has a thread awake
\* to take it, and as long as somebody waits to send, so has each free place.
NoLostWakeup ==
  /\ receivers # <<>> => entry <= Cardinality(Awake("recv"))
  /\ senders # <<>> => Size - entry <= Cardinality(Awake("send"))

\* The mails in the ring, oldest first.
Slot(k) == IF out_offset + k - 1 < Size THEN out_offset + k - 1 ELSE out_offset + k - 1 - Size
Contents == [k \in 1 .. entry |-> msg_pool[Slot(k)]]

\* The mailbox implements a bounded first-in first-out queue.
Fifo == INSTANCE BoundedFifo WITH queue <- Contents, Capacity <- Size
ImplementsFifo == Fifo!FifoSpec

=============================================================================
