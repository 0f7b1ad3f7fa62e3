---------------------------- MODULE BoundedFifo -----------------------------
(***************************************************************************)
(* What a mailbox promises its users: a bounded first-in first-out queue.  *)
(* A mail put into it is got out once, by one thread, unchanged, in the    *)
(* order of the puts, unless the mailbox is reset in between.              *)
(***************************************************************************)
EXTENDS Naturals, Sequences

CONSTANTS Threads, Mails, Capacity

VARIABLES
  queue,    \* the mails in the mailbox, oldest first
  buffer    \* the mail each thread is about to send or has received last

fifoVars == <<queue, buffer>>

FifoInit == queue = <<>> /\ buffer \in [Threads -> Mails]

\* A thread prepares a mail.
Prepare(t) ==
  /\ \E m \in Mails : buffer' = [buffer EXCEPT ![t] = m]
  /\ queue' = queue

Put(t) ==
  /\ Len(queue) < Capacity
  /\ queue' = Append(queue, buffer[t])
  /\ buffer' = buffer

Get(t) ==
  /\ queue # <<>>
  /\ buffer' = [buffer EXCEPT ![t] = Head(queue)]
  /\ queue' = Tail(queue)

Clear == queue' = <<>> /\ buffer' = buffer

FifoNext == Clear \/ \E t \in Threads : Prepare(t) \/ Put(t) \/ Get(t)

FifoSpec == FifoInit /\ [][FifoNext]_fifoVars

=============================================================================
