--------------------------- MODULE RtMailboxProof ---------------------------
(***************************************************************************)
(* The mailbox implements a bounded first-in first-out queue, for every    *)
(* size, any set of threads and mails, and both orders of waiting.  With   *)
(* finitely many threads, no thread that waits misses what it waits for.   *)
(***************************************************************************)
EXTENDS RtMailbox, RtIpcProof, SequenceTheorems, FiniteSetTheorems, TLAPS

\* The part of the type invariant that is about the ring and the mails.
RingType ==
  /\ msg_pool \in [0 .. Size - 1 -> Mails]
  /\ entry \in 0 .. Size
  /\ in_offset \in 0 .. Size - 1
  /\ out_offset \in 0 .. Size - 1
  /\ buffer \in [Threads -> Mails]

\* The inductive invariant: the counter alone does not tell where the writer
\* is, so the ring must be consistent for a put not to hit a mail.
RingInv == RingType /\ RingConsistent

\* The calls and steps that leave the ring and the mails alone.
LEMMA RingUntouched ==
  ASSUME RingInv, UNCHANGED <<ring, buffer>>
  PROVE  RingInv' /\ Contents' = Contents
BY Zenon DEF RingInv, RingType, RingConsistent, ring, Contents, Slot

LEMMA RingInit == Init => RingInv
BY MailboxAssumption DEF Init, RingInv, RingType, RingConsistent

\* What a thread that puts a mail into the ring does.
PutMail(t) ==
  /\ entry # Size
  /\ msg_pool' = [msg_pool EXCEPT ![in_offset] = buffer[t]]
  /\ in_offset' = Advance(in_offset)
  /\ entry' = entry + 1
  /\ UNCHANGED <<out_offset, buffer>>

\* What a thread that takes a mail out of the ring does.
TakeMail(t) ==
  /\ entry # 0
  /\ buffer' = [buffer EXCEPT ![t] = OldestMail]
  /\ out_offset' = Advance(out_offset)
  /\ entry' = entry - 1
  /\ UNCHANGED <<msg_pool, in_offset>>

\* Every step is one of these for the ring and the mails.
LEMMA StepKinds ==
  ASSUME [Next]_vars
  PROVE  \/ UNCHANGED <<ring, buffer>>
         \/ \E t \in Threads, m \in Mails : buffer' = [buffer EXCEPT ![t] = m] /\ UNCHANGED ring
         \/ \E t \in Threads : PutMail(t) \/ TakeMail(t)
         \/ entry' = 0 /\ in_offset' = 0 /\ out_offset' = 0 /\ UNCHANGED <<msg_pool, buffer>>
<1>1. CASE Reset
  BY <1>1, Zenon DEF Reset
<1>2. ASSUME NEW t \in Threads, NEW m \in Mails, NEW w \in Timeouts, SendCall(t, m, w)
      PROVE  buffer' = [buffer EXCEPT ![t] = m] /\ UNCHANGED ring
  BY <1>2, Zenon DEF SendCall
<1>3. ASSUME NEW t \in Threads, NEW w \in Timeouts, RecvCall(t, w) PROVE UNCHANGED <<ring, buffer>>
  BY <1>3, Zenon DEF RecvCall
<1>4. ASSUME NEW t \in Threads, SendStep(t) PROVE UNCHANGED <<ring, buffer>> \/ PutMail(t)
  BY <1>4, Zenon DEF SendStep, PutMail
<1>5. ASSUME NEW t \in Threads, RecvStep(t) PROVE UNCHANGED <<ring, buffer>> \/ TakeMail(t)
  BY <1>5, Zenon DEF RecvStep, TakeMail
<1>6. ASSUME NEW t \in Threads, Timeout(t) PROVE UNCHANGED <<ring, buffer>>
  BY <1>6, Zenon DEF Timeout
<1>7. CASE UNCHANGED vars
  BY <1>7, Zenon DEF vars, locals
<1> QED
  BY <1>1, <1>2, <1>3, <1>4, <1>5, <1>6, <1>7, Zenon DEF Next

\* A put fills the place behind the newest mail and touches no other.
LEMMA PutAppends ==
  ASSUME RingInv, NEW t \in Threads, PutMail(t)
  PROVE  RingInv' /\ Contents' = Append(Contents, buffer[t]) /\ Len(Contents) < Size
<1> USE MailboxAssumption DEF RingInv, RingType
<1>1. RingType'
  BY DEF PutMail, Advance
<1>2. RingConsistent'
  BY DEF PutMail, Advance, RingConsistent
<1>3. \A k \in 1 .. entry : Slot(k) \in 0 .. Size - 1 /\ Slot(k) # in_offset
  BY DEF RingConsistent, PutMail, Slot
<1>4. \A k \in 1 .. entry + 1 : Slot(k)' = Slot(k)
  BY Zenon DEF PutMail, Slot
<1>5. Slot(entry + 1) = in_offset
  BY DEF PutMail, Slot, RingConsistent
<1>6. Contents \in Seq(Mails) /\ Len(Contents) = entry
  BY <1>3 DEF Contents
<1>7. Contents' = [k \in 1 .. entry + 1 |-> IF k = entry + 1 THEN buffer[t] ELSE Contents[k]]
  BY <1>3, <1>4, <1>5 DEF Contents, PutMail
<1> HIDE DEF RingInv
<1>8. Contents' = Append(Contents, buffer[t])
  BY <1>6, <1>7
<1> QED
  BY <1>1, <1>2, <1>6, <1>8 DEF PutMail, RingInv

\* A get takes the oldest mail and leaves the others in their order.
LEMMA TakeRemovesOldest ==
  ASSUME RingInv, NEW t \in Threads, TakeMail(t)
  PROVE  /\ RingInv' /\ Contents # <<>> /\ Contents' = Tail(Contents)
         /\ buffer' = [buffer EXCEPT ![t] = Head(Contents)]
<1> USE MailboxAssumption DEF RingInv, RingType
<1>1. RingType'
  BY DEF TakeMail, Advance, OldestMail
<1>2. RingConsistent'
  BY DEF TakeMail, Advance, RingConsistent
<1>3. \A k \in 1 .. entry : Slot(k) \in 0 .. Size - 1
  BY DEF Slot
<1>4. Contents \in Seq(Mails) /\ Len(Contents) = entry
  BY <1>3 DEF Contents
<1>5. \A k \in 1 .. entry - 1 : Slot(k)' = Slot(k + 1)
  BY DEF TakeMail, Slot, Advance
<1>6. Contents' = [k \in 1 .. entry - 1 |-> Contents[k + 1]]
  BY <1>5 DEF Contents, TakeMail
<1>7. Contents # <<>> /\ Head(Contents) = OldestMail
  <2>1. entry \in 1 .. Size
    BY DEF TakeMail
  <2>2. Slot(1) = out_offset
    BY DEF Slot
  <2>3. Contents[1] = OldestMail
    BY <2>1, <2>2 DEF Contents, OldestMail
  <2> HIDE DEF RingInv, RingType
  <2> QED
    BY <1>4, <2>1, <2>3
<1>8. Contents' = Tail(Contents)
  <2>1. entry \in Nat \ {0}
    BY DEF TakeMail
  <2> HIDE DEF RingInv, RingType
  <2>2. \A k \in 1 .. entry - 1 : k + 1 \in 1 .. entry /\ Contents[k + 1] \in Mails
    BY <1>4, <2>1
  <2>3. Contents' \in Seq(Mails) /\ Len(Contents') = entry - 1
    BY <1>6, <2>1, <2>2
  <2>4. /\ Tail(Contents) \in Seq(Mails)
        /\ Len(Tail(Contents)) = entry - 1
        /\ \A k \in 1 .. entry - 1 : Tail(Contents)[k] = Contents[k + 1]
    BY <1>4, <1>7, <2>1
  <2>5. \A k \in 1 .. entry - 1 : Contents'[k] = Tail(Contents)[k]
    BY <1>6, <2>4, Zenon
  <2> QED
    BY <2>3, <2>4, <2>5, SeqEqual, Zenon
<1> QED
  BY <1>1, <1>2, <1>7, <1>8, Zenon DEF TakeMail

LEMMA RingNext == RingInv /\ [Next]_vars => RingInv'
<1> SUFFICES ASSUME RingInv, [Next]_vars PROVE RingInv'
  BY Zenon
<1>1. ASSUME NEW t \in Threads, NEW m \in Mails, buffer' = [buffer EXCEPT ![t] = m], UNCHANGED ring
      PROVE  RingInv'
  BY <1>1, Zenon DEF RingInv, RingType, RingConsistent, ring
<1>2. CASE entry' = 0 /\ in_offset' = 0 /\ out_offset' = 0 /\ UNCHANGED <<msg_pool, buffer>>
  BY <1>2, MailboxAssumption DEF RingInv, RingType, RingConsistent
<1> QED
  BY <1>1, <1>2, StepKinds, RingUntouched, PutAppends, TakeRemovesOldest, Zenon

-----------------------------------------------------------------------------
\* in_offset, out_offset and entry of rt_mb_send_wait and rt_mb_recv stay
\* consistent in every behaviour.
THEOREM RingStaysConsistent == Spec => []RingConsistent
<1>1. RingInv => RingConsistent
  BY Zenon DEF RingInv
<1> QED
  BY RingInit, RingNext, <1>1, PTL DEF Spec

\* The mailbox of ipc.c implements the bounded queue of BoundedFifo: no mail
\* is lost, duplicated, altered or reordered, whoever waits and however the
\* waits end.
THEOREM MailboxIsFifo == Spec => ImplementsFifo
<1>1. Init => Fifo!FifoInit
  <2> SUFFICES ASSUME Init PROVE Contents = <<>> /\ buffer \in [Threads -> Mails]
    BY Zenon DEF Fifo!FifoInit
  <2> QED
    BY DEF Init, Contents
<1>2. RingInv /\ [Next]_vars => [Fifo!FifoNext]_Fifo!fifoVars
  <2> SUFFICES ASSUME RingInv, [Next]_vars PROVE [Fifo!FifoNext]_Fifo!fifoVars
    BY Zenon
  <2>1. CASE UNCHANGED <<ring, buffer>>
    BY <2>1, RingUntouched, Zenon DEF Fifo!fifoVars
  <2>2. ASSUME NEW t \in Threads, NEW m \in Mails, buffer' = [buffer EXCEPT ![t] = m], UNCHANGED ring
        PROVE  Fifo!FifoNext
    <3>1. Contents' = Contents
      BY <2>2, Zenon DEF Contents, Slot, ring
    <3> QED
      BY <2>2, <3>1, Zenon DEF Fifo!FifoNext, Fifo!Prepare
  <2>3. ASSUME NEW t \in Threads, PutMail(t) PROVE Fifo!FifoNext
    <3>1. buffer' = buffer
      BY <2>3, Zenon DEF PutMail
    <3> QED
      BY <2>3, <3>1, PutAppends, Zenon DEF Fifo!FifoNext, Fifo!Put
  <2>4. ASSUME NEW t \in Threads, TakeMail(t) PROVE Fifo!FifoNext
    BY <2>4, TakeRemovesOldest, Zenon DEF Fifo!FifoNext, Fifo!Get
  <2>5. CASE entry' = 0 /\ in_offset' = 0 /\ out_offset' = 0 /\ UNCHANGED <<msg_pool, buffer>>
    <3>1. Contents' = <<>>
      BY <2>5 DEF Contents
    <3> QED
      BY <2>5, <3>1, Zenon DEF Fifo!FifoNext, Fifo!Clear
  <2> QED
    BY StepKinds, <2>1, <2>2, <2>3, <2>4, <2>5, Zenon
<1> QED
  BY RingInit, RingNext, <1>1, <1>2, PTL DEF Spec, ImplementsFifo, Fifo!FifoSpec

-----------------------------------------------------------------------------
(***************************************************************************)
(* The threads in calls and the lists of those that wait.                  *)
(***************************************************************************)

\* A suspended thread is in one place of the list of its call, and no error is
\* recorded for it yet.
QueueInv ==
  /\ receivers \in Seq(Threads) /\ IsInjective(receivers)
  /\ senders \in Seq(Threads) /\ IsInjective(senders)
  /\ \A t \in Threads :
       /\ Contains(receivers, t) => call[t] = "recv" /\ error[t] = "EOK"
       /\ Contains(senders, t) => call[t] = "send" /\ error[t] = "EOK"

LocalsType ==
  /\ call \in [Threads -> {"none", "send", "recv"}]
  /\ timeout \in [Threads -> Timeouts \cup {"part"}]
  /\ error \in [Threads -> Errors]

WaitInv == RingInv /\ QueueInv /\ LocalsType /\ NoLostWakeup

\* What Awake(c) may become, and what that does to the number of its threads.
LEMMA AwakeCount ==
  ASSUME NEW S \in SUBSET Threads, NEW S1 \in SUBSET Threads, NEW t
  PROVE  /\ Cardinality(S) \in Nat /\ Cardinality(S1) \in Nat
         /\ S \subseteq S1 => Cardinality(S) <= Cardinality(S1)
         /\ S \ {t} \subseteq S1 => Cardinality(S) - 1 <= Cardinality(S1)
         /\ t \notin S /\ S \cup {t} \subseteq S1 => Cardinality(S) + 1 <= Cardinality(S1)
<1>1. IsFiniteSet(S) /\ IsFiniteSet(S1)
  BY FS_Subset, FiniteThreads, Zenon
<1>2. Cardinality(S) \in Nat /\ Cardinality(S1) \in Nat
  BY <1>1, FS_CardinalityType, Zenon
<1>3. \A U \in SUBSET S1 : Cardinality(U) <= Cardinality(S1)
  BY <1>1, FS_Subset, Zenon
<1>4. Cardinality(S \ {t}) = IF t \in S THEN Cardinality(S) - 1 ELSE Cardinality(S)
  BY <1>1, FS_RemoveElement, Zenon
<1>5. Cardinality(S \cup {t}) = IF t \in S THEN Cardinality(S) ELSE Cardinality(S) + 1
  BY <1>1, FS_AddElement, Zenon
<1>6. S \ {t} \subseteq S1 => Cardinality(S \ {t}) <= Cardinality(S1)
  BY <1>3, Zenon
<1>7. S \cup {t} \subseteq S1 => Cardinality(S \cup {t}) <= Cardinality(S1)
  BY <1>3, Zenon
<1> QED
  BY <1>2, <1>3, <1>4, <1>5, <1>6, <1>7

LEMMA WaitInit == Init => WaitInv
<1> SUFFICES ASSUME Init PROVE WaitInv
  BY Zenon
<1>1. <<>> \in Seq(Threads) /\ IsInjective(<<>>) /\ \A t \in Threads : ~Contains(<<>>, t)
  BY DEF IsInjective, Contains
<1> QED
  BY <1>1, RingInit, Zenon DEF Init, WaitInv, QueueInv, LocalsType, NoLostWakeup, Timeouts, Errors

\* A step after which the lists are shorter or the same and every thread that
\* was awake is awake keeps NoLostWakeup if the ring stays as it is.
LEMMA StillAwake ==
  ASSUME WaitInv, UNCHANGED entry, \A c \in {"send", "recv"} : Awake(c) \subseteq Awake(c)',
         receivers' # <<>> => receivers # <<>>, senders' # <<>> => senders # <<>>
  PROVE  NoLostWakeup'
<1>1. \A c : Awake(c) \in SUBSET Threads /\ Awake(c)' \in SUBSET Threads
  BY Zenon DEF Awake
<1>2. \A c \in {"send", "recv"} : /\ Cardinality(Awake(c)) \in Nat /\ Cardinality(Awake(c)') \in Nat
                                  /\ Cardinality(Awake(c)) <= Cardinality(Awake(c)')
  <2> TAKE c \in {"send", "recv"}
  <2> QED
    BY <1>1, AwakeCount, Zenon
<1>3. entry \in Nat /\ Size \in Nat
  BY MailboxAssumption DEF WaitInv, RingInv, RingType
<1> QED
  BY <1>2, <1>3 DEF WaitInv, NoLostWakeup

\* The call of thread t ends, nobody is resumed.
LEMMA ReturnKeeps ==
  ASSUME WaitInv, NEW t \in Threads, ~Suspended(t), Return(t), UNCHANGED <<receivers, senders>>
  PROVE  QueueInv' /\ LocalsType'
<1>1. /\ call' = [call EXCEPT ![t] = "none"] /\ error' = [error EXCEPT ![t] = "EOK"]
      /\ timeout' = [timeout EXCEPT ![t] = "zero"]
  BY Zenon DEF Return
<1>2. LocalsType'
  BY <1>1, Zenon DEF WaitInv, LocalsType, Timeouts, Errors
<1>3. \A u \in Threads : u # t => call'[u] = call[u] /\ error'[u] = error[u]
  BY <1>1, Zenon DEF WaitInv, LocalsType
<1>4. QueueInv'
  BY <1>3, Zenon DEF WaitInv, QueueInv, Suspended
<1> QED
  BY <1>2, <1>4, Zenon

LEMMA SendKeeps == ASSUME WaitInv, NEW t \in Threads, SendStep(t) PROVE QueueInv' /\ LocalsType' /\ NoLostWakeup'
<1>a. QueueInv /\ LocalsType /\ NoLostWakeup /\ entry \in 0 .. Size /\ Size \in Nat
  BY MailboxAssumption, Zenon DEF WaitInv, RingInv, RingType
<1>b. call[t] = "send" /\ ~Suspended(t)
  BY Zenon DEF SendStep
<1>1. CASE error[t] # "EOK" /\ Return(t) /\ UNCHANGED <<ring, receivers, senders>>
  <2>1. \A c \in {"send", "recv"} : Awake(c) \subseteq Awake(c)'
    BY <1>a, <1>1, Zenon DEF Awake, Return, LocalsType, Suspended
  <2> QED
    BY <1>1, <1>b, <2>1, ReturnKeeps, StillAwake, Zenon DEF ring
<1>2. CASE error[t] = "EOK" /\ entry = Size /\ Return(t) /\ UNCHANGED <<ring, receivers, senders>>
  <2>1. Awake("recv") \subseteq Awake("recv")'
    BY <1>a, <1>b, <1>2, Zenon DEF Awake, Return, LocalsType, Suspended
  <2>2. Cardinality(Awake("recv")) <= Cardinality(Awake("recv")') /\ Cardinality(Awake("send")') \in Nat
        /\ Cardinality(Awake("recv")) \in Nat /\ Cardinality(Awake("recv")') \in Nat
    <3>1. \A c : Awake(c) \in SUBSET Threads /\ Awake(c)' \in SUBSET Threads
      BY Zenon DEF Awake
    <3> QED
      BY <2>1, <3>1, AwakeCount, Zenon
  <2>3. NoLostWakeup'
    BY <1>a, <1>2, <2>2 DEF NoLostWakeup, ring
  <2> QED
    BY <1>2, <1>b, <2>3, ReturnKeeps, Zenon
<1>3. CASE /\ error[t] = "EOK" /\ entry = Size /\ Wait(t)
           /\ senders' = ListSuspend(senders, t, Flag, Priority) /\ UNCHANGED <<ring, receivers>>
  <2>1. /\ ListSuspend(senders, t, Flag, Priority) \in Seq(Threads)
        /\ IsInjective(ListSuspend(senders, t, Flag, Priority))
        /\ \A u \in Threads : Contains(senders', u) <=> Contains(senders, u) \/ u = t
    BY <1>3, <1>a, <1>b, MailboxAssumption, SuspendProperties DEF QueueInv, Suspended
  <2>2. LocalsType' /\ call' = call /\ error' = error
    BY <1>3, <1>a, Zenon DEF Wait, LocalsType, Timeouts, Errors
  <2>3. QueueInv'
    BY <1>3, <1>a, <1>b, <2>1, <2>2, Zenon DEF QueueInv
  <2>4. Awake("recv") \subseteq Awake("recv")'
    BY <1>3, <1>b, <2>1, <2>2, Zenon DEF Awake, Suspended
  <2>5. Cardinality(Awake("recv")) <= Cardinality(Awake("recv")') /\ Cardinality(Awake("send")') \in Nat
        /\ Cardinality(Awake("recv")) \in Nat /\ Cardinality(Awake("recv")') \in Nat
    <3>1. \A c : Awake(c) \in SUBSET Threads /\ Awake(c)' \in SUBSET Threads
      BY Zenon DEF Awake
    <3> QED
      BY <2>4, <3>1, AwakeCount, Zenon
  <2> QED
    BY <1>3, <1>a, <2>2, <2>3, <2>5 DEF NoLostWakeup, ring
<1>4. CASE /\ error[t] = "EOK" /\ entry # Size /\ entry' = entry + 1
           /\ receivers' = ResumeFirst(receivers) /\ Return(t) /\ UNCHANGED senders
  <2>1. /\ receivers' \in Seq(Threads) /\ IsInjective(receivers')
        /\ \A u \in Threads : Contains(receivers', u) => Contains(receivers, u)
    BY <1>4, <1>a, TailProperties, Zenon DEF QueueInv, ResumeFirst
  <2>2. /\ LocalsType' /\ call' = [call EXCEPT ![t] = "none"]
        /\ error' = [error EXCEPT ![t] = "EOK"] /\ error' = error
    BY <1>4, <1>a, Zenon DEF Return, LocalsType, Timeouts, Errors
  <2>3. QueueInv'
    BY <1>4, <1>a, <1>b, <2>1, <2>2 DEF QueueInv, Suspended, LocalsType
  <2>4. Awake("send") \ {t} \subseteq Awake("send")' /\ Awake("recv") \subseteq Awake("recv")'
    BY <1>4, <1>a, <1>b, <2>1, <2>2 DEF Awake, Suspended, LocalsType
  <2>5. receivers # <<>> => /\ Head(receivers) \in Threads /\ Head(receivers) \notin Awake("recv")
                            /\ Awake("recv") \cup {Head(receivers)} \subseteq Awake("recv")'
    <3> SUFFICES ASSUME receivers # <<>>
                 PROVE  /\ Head(receivers) \in Threads /\ Head(receivers) \notin Awake("recv")
                        /\ Head(receivers) \in Awake("recv")'
      BY <2>4, Zenon
    <3>1. /\ Head(receivers) \in Threads /\ Contains(receivers, Head(receivers))
          /\ ~Contains(receivers', Head(receivers))
      BY <1>4, <1>a, TailProperties, Zenon DEF QueueInv, ResumeFirst
    <3>2. call[Head(receivers)] = "recv" /\ error[Head(receivers)] = "EOK"
      BY <1>a, <3>1, Zenon DEF QueueInv
    <3>3. ~Contains(senders, Head(receivers)) /\ Head(receivers) # t
      BY <1>a, <1>b, <3>1, <3>2, Zenon DEF QueueInv
    <3> QED
      BY <1>4, <1>a, <2>2, <3>1, <3>2, <3>3, Zenon DEF Awake, Suspended, LocalsType
  <2>6. /\ Cardinality(Awake("send")) - 1 <= Cardinality(Awake("send")')
        /\ receivers # <<>> => Cardinality(Awake("recv")) + 1 <= Cardinality(Awake("recv")')
        /\ \A c : Cardinality(Awake(c)) \in Nat /\ Cardinality(Awake(c)') \in Nat
    <3>1. \A c : Awake(c) \in SUBSET Threads /\ Awake(c)' \in SUBSET Threads
      BY Zenon DEF Awake
    <3> QED
      BY <2>4, <2>5, <3>1, AwakeCount, Zenon
  <2>7. receivers' # <<>> => receivers # <<>>
    BY <1>4, Zenon DEF ResumeFirst
  <2> QED
    BY <1>4, <1>a, <2>2, <2>3, <2>6, <2>7 DEF NoLostWakeup
<1> QED
  BY <1>1, <1>2, <1>3, <1>4, Zenon DEF SendStep

LEMMA RecvKeeps == ASSUME WaitInv, NEW t \in Threads, RecvStep(t) PROVE QueueInv' /\ LocalsType' /\ NoLostWakeup'
<1>a. QueueInv /\ LocalsType /\ NoLostWakeup /\ entry \in 0 .. Size /\ Size \in Nat
  BY MailboxAssumption, Zenon DEF WaitInv, RingInv, RingType
<1>b. call[t] = "recv" /\ ~Suspended(t)
  BY Zenon DEF RecvStep
<1>1. CASE error[t] # "EOK" /\ Return(t) /\ UNCHANGED <<ring, receivers, senders>>
  <2>1. \A c \in {"send", "recv"} : Awake(c) \subseteq Awake(c)'
    BY <1>a, <1>1, Zenon DEF Awake, Return, LocalsType, Suspended
  <2> QED
    BY <1>1, <1>b, <2>1, ReturnKeeps, StillAwake, Zenon DEF ring
<1>2. CASE error[t] = "EOK" /\ entry = 0 /\ Return(t) /\ UNCHANGED <<ring, receivers, senders>>
  <2>1. Awake("send") \subseteq Awake("send")'
    BY <1>a, <1>b, <1>2, Zenon DEF Awake, Return, LocalsType, Suspended
  <2>2. Cardinality(Awake("send")) <= Cardinality(Awake("send")') /\ Cardinality(Awake("recv")') \in Nat
        /\ Cardinality(Awake("send")) \in Nat /\ Cardinality(Awake("send")') \in Nat
    <3>1. \A c : Awake(c) \in SUBSET Threads /\ Awake(c)' \in SUBSET Threads
      BY Zenon DEF Awake
    <3> QED
      BY <2>1, <3>1, AwakeCount, Zenon
  <2>3. NoLostWakeup'
    BY <1>a, <1>2, <2>2 DEF NoLostWakeup, ring
  <2> QED
    BY <1>2, <1>b, <2>3, ReturnKeeps, Zenon
<1>3. CASE /\ error[t] = "EOK" /\ entry = 0 /\ Wait(t)
           /\ receivers' = ListSuspend(receivers, t, Flag, Priority) /\ UNCHANGED <<ring, senders>>
  <2>1. /\ ListSuspend(receivers, t, Flag, Priority) \in Seq(Threads)
        /\ IsInjective(ListSuspend(receivers, t, Flag, Priority))
        /\ \A u \in Threads : Contains(receivers', u) <=> Contains(receivers, u) \/ u = t
    BY <1>3, <1>a, <1>b, MailboxAssumption, SuspendProperties DEF QueueInv, Suspended
  <2>2. LocalsType' /\ call' = call /\ error' = error
    BY <1>3, <1>a, Zenon DEF Wait, LocalsType, Timeouts, Errors
  <2>3. QueueInv'
    BY <1>3, <1>a, <1>b, <2>1, <2>2, Zenon DEF QueueInv
  <2>4. Awake("send") \subseteq Awake("send")'
    BY <1>3, <1>b, <2>1, <2>2, Zenon DEF Awake, Suspended
  <2>5. Cardinality(Awake("send")) <= Cardinality(Awake("send")') /\ Cardinality(Awake("recv")') \in Nat
        /\ Cardinality(Awake("send")) \in Nat /\ Cardinality(Awake("send")') \in Nat
    <3>1. \A c : Awake(c) \in SUBSET Threads /\ Awake(c)' \in SUBSET Threads
      BY Zenon DEF Awake
    <3> QED
      BY <2>4, <3>1, AwakeCount, Zenon
  <2> QED
    BY <1>3, <1>a, <2>2, <2>3, <2>5 DEF NoLostWakeup, ring
<1>4. CASE /\ error[t] = "EOK" /\ entry # 0 /\ entry' = entry - 1
           /\ senders' = ResumeFirst(senders) /\ Return(t) /\ UNCHANGED receivers
  <2>1. /\ senders' \in Seq(Threads) /\ IsInjective(senders')
        /\ \A u \in Threads : Contains(senders', u) => Contains(senders, u)
    BY <1>4, <1>a, TailProperties, Zenon DEF QueueInv, ResumeFirst
  <2>2. /\ LocalsType' /\ call' = [call EXCEPT ![t] = "none"]
        /\ error' = [error EXCEPT ![t] = "EOK"] /\ error' = error
    BY <1>4, <1>a, Zenon DEF Return, LocalsType, Timeouts, Errors
  <2>3. QueueInv'
    BY <1>4, <1>a, <1>b, <2>1, <2>2 DEF QueueInv, Suspended, LocalsType
  <2>4. Awake("recv") \ {t} \subseteq Awake("recv")' /\ Awake("send") \subseteq Awake("send")'
    BY <1>4, <1>a, <1>b, <2>1, <2>2, Zenon DEF Awake, Suspended, LocalsType
  <2>5. senders # <<>> => /\ Head(senders) \in Threads /\ Head(senders) \notin Awake("send")
                            /\ Awake("send") \cup {Head(senders)} \subseteq Awake("send")'
    <3> SUFFICES ASSUME senders # <<>>
                 PROVE  /\ Head(senders) \in Threads /\ Head(senders) \notin Awake("send")
                        /\ Head(senders) \in Awake("send")'
      BY <2>4, Zenon
    <3>1. /\ Head(senders) \in Threads /\ Contains(senders, Head(senders))
          /\ ~Contains(senders', Head(senders))
      BY <1>4, <1>a, TailProperties, Zenon DEF QueueInv, ResumeFirst
    <3>2. call[Head(senders)] = "send" /\ error[Head(senders)] = "EOK"
      BY <1>a, <3>1, Zenon DEF QueueInv
    <3>3. ~Contains(receivers, Head(senders)) /\ Head(senders) # t
      BY <1>a, <1>b, <3>1, <3>2, Zenon DEF QueueInv
    <3> QED
      BY <1>4, <1>a, <2>2, <3>1, <3>2, <3>3, Zenon DEF Awake, Suspended, LocalsType
  <2>6. /\ Cardinality(Awake("recv")) - 1 <= Cardinality(Awake("recv")')
        /\ senders # <<>> => Cardinality(Awake("send")) + 1 <= Cardinality(Awake("send")')
        /\ \A c : Cardinality(Awake(c)) \in Nat /\ Cardinality(Awake(c)') \in Nat
    <3>1. \A c : Awake(c) \in SUBSET Threads /\ Awake(c)' \in SUBSET Threads
      BY Zenon DEF Awake
    <3> QED
      BY <2>4, <2>5, <3>1, AwakeCount, Zenon
  <2>7. senders' # <<>> => senders # <<>>
    BY <1>4, Zenon DEF ResumeFirst
  <2> QED
    BY <1>4, <1>a, <2>2, <2>3, <2>6, <2>7 DEF NoLostWakeup
<1> QED
  BY <1>1, <1>2, <1>3, <1>4, Zenon DEF RecvStep

LEMMA CallKeeps ==
  ASSUME WaitInv, NEW t \in Threads, NEW c \in {"send", "recv"}, NEW w \in Timeouts, call[t] = "none",
         call' = [call EXCEPT ![t] = c], timeout' = [timeout EXCEPT ![t] = w],
         UNCHANGED <<ring, receivers, senders, error>>
  PROVE  QueueInv' /\ LocalsType' /\ NoLostWakeup'
<1>1. LocalsType' /\ \A u \in Threads : u # t => call'[u] = call[u]
  BY Zenon DEF WaitInv, LocalsType
<1>2. ~Contains(receivers, t) /\ ~Contains(senders, t)
  BY Zenon DEF WaitInv, QueueInv
<1>3. QueueInv'
  BY <1>1, <1>2, Zenon DEF WaitInv, QueueInv
<1>4. \A d \in {"send", "recv"} : Awake(d) \subseteq Awake(d)'
  BY <1>1, Zenon DEF Awake, Suspended
<1> QED
  BY <1>1, <1>3, <1>4, StillAwake, Zenon DEF ring

LEMMA TimeoutKeeps == ASSUME WaitInv, NEW t \in Threads, Timeout(t) PROVE QueueInv' /\ LocalsType' /\ NoLostWakeup'
<1>1. \A list \in {receivers, senders} :
         /\ ListRemove(list, t) \in Seq(Threads) /\ IsInjective(ListRemove(list, t))
         /\ \A u \in Threads : Contains(ListRemove(list, t), u) <=> Contains(list, u) /\ u # t
  <2> TAKE list \in {receivers, senders}
  <2>1. list \in Seq(Threads) /\ IsInjective(list)
    BY Zenon DEF WaitInv, QueueInv
  <2>2. CASE Contains(list, t)
    BY <2>1, <2>2, RemoveProperties, Zenon
  <2>3. CASE ~Contains(list, t)
    BY <2>1, <2>3, Zenon DEF ListRemove
  <2> QED
    BY <2>2, <2>3, Zenon
<1>2. receivers' = ListRemove(receivers, t) /\ senders' = ListRemove(senders, t)
  BY Zenon DEF Timeout
<1>3. LocalsType' /\ (\A u \in Threads : u # t => error'[u] = error[u]) /\ UNCHANGED <<call, entry>>
  BY Zenon DEF WaitInv, LocalsType, Timeout, ring, Errors
<1>4. QueueInv'
  BY <1>1, <1>2, <1>3, Zenon DEF WaitInv, QueueInv
<1>5. \A d \in {"send", "recv"} : Awake(d) \subseteq Awake(d)'
  BY <1>1, <1>2, <1>3, Zenon DEF Awake, Suspended, Timeout
<1>6. \A list \in {receivers, senders} : list = <<>> => ListRemove(list, t) = <<>>
  BY DEF ListRemove, Contains
<1>7. (receivers' # <<>> => receivers # <<>>) /\ (senders' # <<>> => senders # <<>>)
  BY <1>2, <1>6, Zenon
<1> QED
  BY <1>3, <1>4, <1>5, <1>7, StillAwake, Zenon

LEMMA WaitNext == WaitInv /\ [Next]_vars => WaitInv'
<1> SUFFICES ASSUME WaitInv, [Next]_vars PROVE QueueInv' /\ LocalsType' /\ NoLostWakeup'
  BY RingNext, Zenon DEF WaitInv
<1>1. CASE Reset
  <2>1. receivers' = <<>> /\ senders' = <<>> /\ LocalsType'
    BY <1>1, Zenon DEF Reset, WaitInv, LocalsType, Errors
  <2>2. <<>> \in Seq(Threads) /\ IsInjective(<<>>) /\ \A t \in Threads : ~Contains(<<>>, t)
    BY DEF IsInjective, Contains
  <2> QED
    BY <2>1, <2>2, Zenon DEF QueueInv, NoLostWakeup
<1>2. ASSUME NEW t \in Threads, NEW m \in Mails, NEW w \in Timeouts, SendCall(t, m, w)
      PROVE  QueueInv' /\ LocalsType' /\ NoLostWakeup'
  BY <1>2, CallKeeps, Zenon DEF SendCall
<1>3. ASSUME NEW t \in Threads, NEW w \in Timeouts, RecvCall(t, w)
      PROVE  QueueInv' /\ LocalsType' /\ NoLostWakeup'
  BY <1>3, CallKeeps, Zenon DEF RecvCall
<1>4. CASE UNCHANGED vars
  BY <1>4, Zenon DEF vars, ring, locals, WaitInv, QueueInv, LocalsType, NoLostWakeup, Awake, Suspended
<1> QED
  BY <1>1, <1>2, <1>3, <1>4, SendKeeps, RecvKeeps, TimeoutKeeps, Zenon DEF Next

\* rt_mb_send_wait and rt_mb_recv resume one waiting thread per mail or place,
\* and no wake-up is lost: for any threads, mails, size and order of waiting.
THEOREM WakeupsAreNotLost == Spec => []NoLostWakeup
<1>1. WaitInv => NoLostWakeup
  BY Zenon DEF WaitInv
<1> QED
  BY WaitInit, WaitNext, <1>1, PTL DEF Spec

\* The variables keep their C types, and a suspended thread is in one place of
\* the list of its call.
THEOREM MailboxTypes == Spec => []TypeOK
<1>1. WaitInv => TypeOK
  <2> SUFFICES ASSUME WaitInv PROVE TypeOK
    BY Zenon
  <2>1. \A k \in 1 .. Len(receivers) : receivers[k] \in Threads /\ Contains(receivers, receivers[k])
    BY DEF WaitInv, QueueInv, Contains
  <2>2. \A k \in 1 .. Len(senders) : senders[k] \in Threads /\ Contains(senders, senders[k])
    BY DEF WaitInv, QueueInv, Contains
  <2> QED
    BY <2>1, <2>2, Zenon DEF TypeOK, WaitInv, RingInv, RingType, QueueInv, LocalsType
<1> QED
  BY WaitInit, WaitNext, <1>1, PTL DEF Spec

=============================================================================
