------------------------------ MODULE SpsProof ------------------------------
(***************************************************************************)
(* Proofs about the application, for any number of machines and any        *)
(* capacity of the mailboxes.  First about Sps, where the threads          *)
(* interleave freely: the inductive invariant IInv, the invariants and the *)
(* action property that follow from it.  Then about SpsTimed, where the    *)
(* periods order the jobs: at most one command is on its way to the        *)
(* machines (OneCommand) and one report on its way to the host             *)
(* (OneReport), and with them the lines, the display and the answers stay  *)
(* within bounds (LineInv, DisplayInv, AnswerInv).  Last about SpsVerdict: *)
(* how often a frozen machine is overlooked (OverlookedInv), and when a    *)
(* running one is not given up (CleanInv).                                 *)
(***************************************************************************)
EXTENDS SpsVerdict, TLAPS

\* Loop indices are in range where they index an array, and the status that
\* irq_in_handler is about to record is the one it found necessary: holding
\* the mutex, nobody has changed sps->targets in between.
Pending ==
  /\ pc["sps_ping"] = "send" => ping_i < NumTargets
  /\ pc["sps_irq_in"] = "record" =>
       /\ irq_i < NumTargets
       /\ (NewTarget = SPS_ON) = (sps_targets[irq_i] = SPS_OFF)

\* The inductive invariant.
IInv == TypeOK /\ TargetsGuarded /\ ReportsNameAFailure /\ Pending

-----------------------------------------------------------------------------
LEMMA ThreadNames ==
  /\ "host_action" \in Threads /\ "host_irq_out" \in Threads
  /\ "sps_irq_in" \in Threads /\ "sps_ping" \in Threads /\ "sps_irq_out" \in Threads
BY Zenon DEF Threads

\* rt_mb_send never makes a mailbox longer than its capacity, and puts only
\* the mail sent into it.
LEMMA SentType ==
  ASSUME NEW S, NEW size \in Nat, NEW mb \in Mailbox(S, size), NEW m \in S
  PROVE  Sent(mb, size, m) \in Mailbox(S, size)
BY DEF Sent, Mailbox

LEMMA SentMails ==
  ASSUME NEW S, NEW size \in Nat, NEW mb \in Mailbox(S, size), NEW m \in S,
         NEW k \in 1 .. Len(Sent(mb, size, m))
  PROVE  \/ Sent(mb, size, m)[k] = m
         \/ k \in 1 .. Len(mb) /\ Sent(mb, size, m)[k] = mb[k]
BY DEF Sent, Mailbox

\* Receiving from a mailbox that is not empty yields its first mail and
\* leaves the others.
LEMMA RecvType ==
  ASSUME NEW S, NEW size \in Nat, NEW mb \in Mailbox(S, size), mb # <<>>
  PROVE  Head(mb) \in S /\ Tail(mb) \in Mailbox(S, size)
BY DEF Mailbox

LEMMA RecvMails ==
  ASSUME NEW S, NEW size \in Nat, NEW mb \in Mailbox(S, size), mb # <<>>
  PROVE  /\ 1 \in 1 .. Len(mb) /\ Head(mb) = mb[1]
         /\ \A k \in 1 .. Len(Tail(mb)) : k + 1 \in 1 .. Len(mb) /\ Tail(mb)[k] = mb[k + 1]
BY DEF Mailbox

\* An empty mailbox is a mailbox.
LEMMA EmptyType == ASSUME NEW S, NEW size \in Nat PROVE <<>> \in Mailbox(S, size)
BY DEF Mailbox

LEMMA InitIInv == Init => IInv
<1> SUFFICES ASSUME Init PROVE IInv
  BY Zenon
<1> USE SpsAssumption, ThreadNames DEF Init
<1>1. TypeOK
  <2>1. StatusType
    BY DEF StatusType, PowerStatus, SPS_OFF, NoOwner
  <2>2. MailboxType
    BY EmptyType, Zenon DEF MailboxType
  <2>3. ThreadType
    <3>1. {} \in StatusWord /\ "idle" \in Labels
      BY Zenon DEF StatusWord, Labels
    <3> QED
      BY <3>1 DEF ThreadType
  <2> QED
    BY <2>1, <2>2, <2>3, Zenon DEF TypeOK
<1>2. TargetsGuarded
  BY Zenon DEF TargetsGuarded, InHostSection, InSpsSection
<1>3. ReportsNameAFailure
  BY DEF ReportsNameAFailure, ReportsInFlight
<1>4. Pending
  BY Zenon DEF Pending
<1> QED
  BY <1>1, <1>2, <1>3, <1>4, Zenon DEF IInv

-----------------------------------------------------------------------------
\* Every step keeps the types of the statuses, the mutexes and the counters.
LEMMA NextStatusType == IInv /\ [Next]_vars => StatusType'
<1> SUFFICES ASSUME IInv, [Next]_vars PROVE StatusType'
  BY Zenon
<1> USE SpsAssumption DEF IInv, TypeOK, StatusType, Take, Release, hostVars, spsVars, targetVars
<1>1. CASE ActionTake \/ ActionRelease \/ ActionSend \/ FeedbackRecv \/ FeedbackTake \/ FeedbackRelease
  BY <1>1, Zenon DEF ActionTake, ActionRelease, ActionSend, FeedbackRecv, FeedbackTake, FeedbackRelease
<1>2. CASE ActionToggle
  BY <1>2, Zenon DEF ActionToggle, PowerStatus
<1>3. CASE FeedbackUpdate
  BY <1>3, Zenon DEF FeedbackUpdate, DisplayAfter, PowerStatus
<1>4. CASE IrqInRecv \/ IrqInTake \/ IrqInDrive \/ IrqInRelease \/ IrqOutRecv \/ IrqOutSend
  BY <1>4, Zenon DEF NoOwner, IrqInRecv, IrqInTake, IrqInDrive, IrqInRelease, IrqOutRecv, IrqOutSend
<1>5. CASE IrqInRecord
  BY <1>5, Zenon DEF IrqInRecord, NewTarget, PowerStatus
<1>6. CASE PingStart \/ PingScan \/ PingTake \/ PingRelease
  BY <1>6, Zenon DEF PingStart, PingScan, PingTake, PingRelease
<1>7. CASE PingSend
  <2>1. \A n \in 0 .. PongRange - 1 : (n + 1) % PongRange \in 0 .. PongRange - 1
    OBVIOUS
  <2>2. targets_pong' \in [Targets -> 0 .. PongRange - 1]
    BY <1>7, <2>1, Zenon DEF PingSend
  <2> QED
    BY <1>7, <2>2, Zenon DEF PingSend
<1>8. CASE PingDrain
  BY <1>8 DEF PingDrain
<1>9. CASE PingEvaluate
  BY <1>9 DEF PingEvaluate, PowerStatus
<1>10. ASSUME NEW i \in Targets, TargetPing(i) \/ TargetAck(i) PROVE StatusType'
  BY <1>10, Zenon DEF TargetPing, TargetAck
<1>11. ASSUME NEW i \in Targets, TargetGpio(i) PROVE StatusType'
  BY <1>11, Zenon DEF TargetGpio, NextStatus, PowerStatus
<1>12. CASE UNCHANGED vars
  BY <1>12, Zenon DEF vars
<1> QED
  BY <1>1, <1>2, <1>3, <1>4, <1>5, <1>6, <1>7, <1>8, <1>9, <1>10, <1>11, <1>12, Zenon
     DEF Next, HostStep, SpsStep, TargetStep

\* Every step keeps each mailbox within its capacity.
LEMMA NextMailboxType == IInv /\ [Next]_vars => MailboxType'
<1> SUFFICES ASSUME IInv, [Next]_vars PROVE MailboxType'
  BY Zenon
<1> USE SpsAssumption, ThreadNames DEF IInv, TypeOK, MailboxType, mailboxes
<1>1. CASE ActionTake \/ ActionToggle \/ ActionRelease \/ FeedbackTake \/ FeedbackUpdate \/ FeedbackRelease
  BY <1>1, Zenon DEF ActionTake, ActionToggle, ActionRelease, FeedbackTake, FeedbackUpdate, FeedbackRelease
<1>2. CASE ActionSend
  <2>1. Sent(irq_in, 1, mail["host_action"]) \in Mailbox(StatusWord, 1)
    BY SentType, Zenon DEF ThreadType
  <2> QED
    BY <1>2, <2>1, Zenon DEF ActionSend
<1>3. CASE FeedbackRecv
  <2>1. Tail(irq_out) \in Mailbox(StatusWord, 1)
    BY <1>3, RecvType, Zenon DEF FeedbackRecv
  <2> QED
    BY <1>3, <2>1, Zenon DEF FeedbackRecv
<1>4. CASE IrqInRecv
  <2>1. Tail(irq_in) \in Mailbox(StatusWord, 1)
    BY <1>4, RecvType, Zenon DEF IrqInRecv
  <2> QED
    BY <1>4, <2>1, Zenon DEF IrqInRecv
<1>5. CASE IrqOutRecv
  <2>1. Tail(mb_ping_irq) \in Mailbox(StatusWord, PingIrqSize)
    BY <1>5, RecvType, Zenon DEF IrqOutRecv
  <2> QED
    BY <1>5, <2>1, Zenon DEF IrqOutRecv
<1>6. CASE IrqInTake \/ IrqInRecord \/ IrqInRelease
  BY <1>6, Zenon DEF IrqInTake, IrqInRecord, IrqInRelease
<1>7. CASE IrqInDrive
  <2>1. NewTarget \in {SPS_OFF, SPS_ON}
    BY Zenon DEF NewTarget
  <2>2. irq_i \in Targets
    BY <1>7 DEF IrqInDrive, ThreadType, Targets
  <2>3. Sent(gpio[irq_i], 1, NewTarget) \in Mailbox({SPS_OFF, SPS_ON}, 1)
    BY <2>1, <2>2, SentType, Zenon
  <2> QED
    BY <1>7, <2>3, Zenon DEF IrqInDrive
<1>8. CASE IrqOutSend
  <2>1. Sent(irq_out, 1, mail["sps_irq_out"]) \in Mailbox(StatusWord, 1)
    BY SentType, Zenon DEF ThreadType
  <2> QED
    BY <1>8, <2>1, Zenon DEF IrqOutSend
<1>9. CASE PingStart \/ PingScan \/ PingTake \/ PingRelease
  BY <1>9, Zenon DEF PingStart, PingScan, PingTake, PingRelease
<1>10. CASE PingSend
  <2>1. ping_i \in Targets
    BY <1>10 DEF PingSend, ThreadType, Targets, Pending
  <2>2. Sent(mb_ping[ping_i], 1, 1) \in Mailbox({1}, 1)
    BY <2>1, SentType, Zenon
  <2> QED
    BY <1>10, <2>2, Zenon DEF PingSend
<1>11. CASE PingDrain
  <2>1. mb_ping_ack # <<>> => Tail(mb_ping_ack) \in Mailbox(Targets, PingAckSize)
    BY RecvType, Zenon
  <2> QED
    BY <1>11, <2>1, Zenon DEF PingDrain
<1>12. CASE PingEvaluate
  <2>1. {i \in Targets : sps_targets[i] = SPS_ON} \ Unresponsive \in StatusWord
    BY Zenon DEF StatusWord
  <2> QED
    BY <1>12, <2>1, SentType, Zenon DEF PingEvaluate, Report
<1>13. ASSUME NEW i \in Targets, TargetPing(i) PROVE MailboxType'
  <2>1. mb_ping[i] # <<>> => Tail(mb_ping[i]) \in Mailbox({1}, 1)
    BY RecvType, Zenon
  <2> QED
    BY <1>13, <2>1, Zenon DEF TargetPing
<1>14. ASSUME NEW i \in Targets, TargetAck(i) PROVE MailboxType'
  BY <1>14, SentType, Zenon DEF TargetAck
<1>15. ASSUME NEW i \in Targets, TargetGpio(i) PROVE MailboxType'
  BY <1>15, EmptyType, Zenon DEF TargetGpio
<1>16. CASE UNCHANGED vars
  BY <1>16, Zenon DEF vars
<1> QED
  BY <1>1, <1>2, <1>3, <1>4, <1>5, <1>6, <1>7, <1>8,
     <1>9, <1>10, <1>11, <1>12, <1>13, <1>14, <1>15, <1>16, Zenon
     DEF Next, HostStep, SpsStep, TargetStep

\* Every step keeps the control state of the threads and their local words
\* within their types, and every loop index within its loop.
LEMMA NextThreadType == IInv /\ [Next]_vars => ThreadType'
<1> SUFFICES ASSUME IInv, [Next]_vars PROVE ThreadType'
  BY Zenon
<1>0. {} \in StatusWord
  BY Zenon DEF StatusWord
<1> USE SpsAssumption, ThreadNames, <1>0 DEF IInv, TypeOK, ThreadType, Goto, Labels,
        hostVars, spsVars, targetVars
<1>1. CASE ActionTake \/ ActionRelease \/ ActionSend
  BY <1>1 DEF ActionTake, ActionRelease, ActionSend
<1>2. CASE ActionToggle
  BY <1>2 DEF ActionToggle, StatusWord
<1>3. CASE FeedbackRecv
  BY <1>3, RecvType, Zenon DEF FeedbackRecv, MailboxType
<1>4. CASE FeedbackTake \/ FeedbackUpdate \/ FeedbackRelease
  BY <1>4 DEF FeedbackTake, FeedbackUpdate, FeedbackRelease
<1>5. CASE IrqInRecv
  BY <1>5, RecvType, Zenon DEF IrqInRecv, MailboxType
<1>6. CASE IrqInTake \/ IrqInRelease
  BY <1>6 DEF IrqInTake, IrqInRelease
<1>7. CASE IrqInDrive
  BY <1>7 DEF IrqInDrive
<1>8. CASE IrqInRecord
  BY <1>8 DEF IrqInRecord, Pending
<1>9. CASE IrqOutRecv
  BY <1>9, RecvType, Zenon DEF IrqOutRecv, MailboxType
<1>10. CASE IrqOutSend
  BY <1>10, Zenon DEF IrqOutSend
<1>11. CASE PingStart \/ PingScan \/ PingTake \/ PingRelease
  BY <1>11 DEF PingStart, PingScan, PingTake, PingRelease
<1>12. CASE PingSend
  BY <1>12 DEF PingSend, Pending
<1>13. CASE PingDrain \/ PingEvaluate
  BY <1>13 DEF PingDrain, PingEvaluate
<1>14. ASSUME NEW i \in Targets, TargetPing(i) \/ TargetAck(i) \/ TargetGpio(i) PROVE ThreadType'
  BY <1>14, Zenon DEF TargetPing, TargetAck, TargetGpio
<1>15. CASE UNCHANGED vars
  BY <1>15 DEF vars
<1> QED
  BY <1>1, <1>2, <1>3, <1>4, <1>5, <1>6, <1>7, <1>8, <1>9, <1>10, <1>11, <1>12, <1>13, <1>14, <1>15, Zenon
     DEF Next, HostStep, SpsStep, TargetStep

\* A step that enters a section takes its mutex, which was free; a step that
\* leaves it gives back the mutex of the leaving thread only.
LEMMA NextGuarded == IInv /\ [Next]_vars => TargetsGuarded'
<1> SUFFICES ASSUME IInv, [Next]_vars PROVE TargetsGuarded'
  BY Zenon
<1> USE ThreadNames DEF IInv, TypeOK, ThreadType, StatusType, TargetsGuarded, InHostSection,
        InSpsSection, Goto, Take, Release, NoOwner, hostVars, spsVars
<1>1. CASE ActionTake \/ ActionToggle
  BY <1>1 DEF ActionTake, ActionToggle
<1>2. CASE ActionRelease \/ ActionSend
  BY <1>2 DEF ActionRelease, ActionSend
<1>3. CASE FeedbackRecv \/ FeedbackTake
  BY <1>3 DEF FeedbackRecv, FeedbackTake
<1>4. CASE FeedbackUpdate \/ FeedbackRelease
  BY <1>4 DEF FeedbackUpdate, FeedbackRelease
<1>5. CASE IrqInRecv \/ IrqInTake
  BY <1>5 DEF IrqInRecv, IrqInTake
<1>6. CASE IrqInDrive \/ IrqInRecord \/ IrqInRelease
  BY <1>6 DEF IrqInDrive, IrqInRecord, IrqInRelease
<1>7. CASE IrqOutRecv \/ IrqOutSend
  BY <1>7 DEF IrqOutRecv, IrqOutSend
<1>8. CASE PingStart \/ PingScan \/ PingSend \/ PingDrain
  BY <1>8 DEF PingStart, PingScan, PingSend, PingDrain
<1>9. CASE PingTake \/ PingEvaluate \/ PingRelease
  BY <1>9 DEF PingTake, PingEvaluate, PingRelease
<1>10. ASSUME NEW i \in Targets, TargetPing(i) \/ TargetAck(i) \/ TargetGpio(i) PROVE TargetsGuarded'
  BY <1>10, Zenon DEF TargetPing, TargetAck, TargetGpio
<1>11. CASE UNCHANGED vars
  BY <1>11, Zenon DEF vars
<1> QED
  BY <1>1, <1>2, <1>3, <1>4, <1>5, <1>6, <1>7, <1>8, <1>9, <1>10, <1>11, Zenon
     DEF Next, HostStep, SpsStep, TargetStep

\* The mutex keeps ping_thread out of sps->targets while irq_in_handler is
\* between driving a line and recording it.
LEMMA NextPending == IInv /\ [Next]_vars => Pending'
<1> SUFFICES ASSUME IInv, [Next]_vars PROVE Pending'
  BY Zenon
<1> USE SpsAssumption, ThreadNames DEF IInv, TypeOK, ThreadType, StatusType, Pending, NewTarget, Goto,
        hostVars, spsVars
<1>1. CASE ActionTake \/ ActionToggle \/ ActionRelease \/ ActionSend
  BY <1>1 DEF ActionTake, ActionToggle, ActionRelease, ActionSend
<1>2. CASE FeedbackRecv \/ FeedbackTake \/ FeedbackUpdate \/ FeedbackRelease
  BY <1>2 DEF FeedbackRecv, FeedbackTake, FeedbackUpdate, FeedbackRelease
<1>3. CASE IrqInRecv \/ IrqInTake \/ IrqInRecord \/ IrqInRelease
  BY <1>3 DEF IrqInRecv, IrqInTake, IrqInRecord, IrqInRelease
<1>4. CASE IrqInDrive
  BY <1>4 DEF IrqInDrive, SPS_ON, SPS_OFF
<1>5. CASE IrqOutRecv \/ IrqOutSend
  BY <1>5 DEF IrqOutRecv, IrqOutSend
<1>6. CASE PingStart \/ PingScan \/ PingSend \/ PingDrain \/ PingTake \/ PingRelease
  <2>1. /\ UNCHANGED <<sps_targets, irq_i, mail>>
        /\ pc'["sps_irq_in"] = pc["sps_irq_in"]
    BY <1>6, Zenon DEF PingStart, PingScan, PingSend, PingDrain, PingTake, PingRelease
  <2>2. pc'["sps_ping"] = "send" => ping_i' < NumTargets
    <3>1. CASE PingScan
      BY <3>1 DEF PingScan
    <3>2. CASE PingStart \/ PingSend \/ PingDrain \/ PingTake \/ PingRelease
      BY <3>2, Zenon DEF PingStart, PingSend, PingDrain, PingTake, PingRelease
    <3> QED
      BY <1>6, <3>1, <3>2, Zenon
  <2> QED
    BY <2>1, <2>2, Zenon
<1>7. CASE PingEvaluate
  <2>1. pc["sps_irq_in"] # "record"
    BY <1>7, Zenon DEF PingEvaluate, TargetsGuarded, InSpsSection
  <2> QED
    BY <1>7, <2>1, Zenon DEF PingEvaluate
<1>8. ASSUME NEW i \in Targets, TargetPing(i) \/ TargetAck(i) \/ TargetGpio(i) PROVE Pending'
  <2>1. UNCHANGED <<spsVars, pc, mail>>
    BY <1>8, Zenon DEF TargetPing, TargetAck, TargetGpio
  <2> QED
    BY <2>1, Zenon
<1>9. CASE UNCHANGED vars
  BY <1>9, Zenon DEF vars
<1> QED
  BY <1>1, <1>2, <1>3, <1>4, <1>5, <1>6, <1>7, <1>8, <1>9, Zenon DEF Next, HostStep, SpsStep, TargetStep

\* ReportsNameAFailure place by place, in this state and in the next.
Truthful ==
  /\ \A k \in 1 .. Len(mb_ping_irq) : mb_ping_irq[k] # Targets
  /\ \A k \in 1 .. Len(irq_out) : irq_out[k] # Targets
  /\ pc["sps_irq_out"] = "send" => mail["sps_irq_out"] # Targets
  /\ pc["host_irq_out"] \in {"take", "update"} => mail["host_irq_out"] # Targets

LEMMA ReportsTruthful == ReportsNameAFailure => Truthful
BY Zenon DEF Truthful, ReportsNameAFailure, ReportsInFlight

LEMMA TruthfulReports == Truthful' => ReportsNameAFailure'
BY Zenon DEF Truthful, ReportsNameAFailure, ReportsInFlight

\* A new report names the machines just found frozen as not running; every
\* other step moves a report or drops it.
LEMMA NextReports == IInv /\ [Next]_vars => ReportsNameAFailure'
<1> SUFFICES ASSUME IInv, [Next]_vars, Truthful PROVE Truthful'
  BY ReportsTruthful, TruthfulReports, Zenon DEF IInv
<1>a. pc \in [Threads -> Labels] /\ mail \in [Threads -> StatusWord]
  BY Zenon DEF IInv, TypeOK, ThreadType
<1>b. irq_out \in Mailbox(StatusWord, 1) /\ mb_ping_irq \in Mailbox(StatusWord, PingIrqSize)
  BY Zenon DEF IInv, TypeOK, MailboxType
<1> USE ThreadNames DEF Goto, mailboxes
<1> DEFINE Quiet ==
      /\ UNCHANGED <<mb_ping_irq, irq_out>>
      /\ pc'["sps_irq_out"] = "send" =>
           pc["sps_irq_out"] = "send" /\ mail'["sps_irq_out"] = mail["sps_irq_out"]
      /\ pc'["host_irq_out"] \in {"take", "update"} =>
           /\ pc["host_irq_out"] \in {"take", "update"}
           /\ mail'["host_irq_out"] = mail["host_irq_out"]
<1>0. Quiet => Truthful'
  BY Zenon DEF Truthful
<1>1. CASE ActionTake \/ ActionToggle \/ ActionRelease \/ ActionSend
  <2>1. CASE ActionToggle
    BY <1>0, <1>a, <2>1, Zenon DEF ActionToggle
  <2>2. CASE ActionTake \/ ActionRelease \/ ActionSend
    <3>1. Quiet
      BY <1>a, <2>2, Zenon DEF ActionTake, ActionRelease, ActionSend
    <3> QED
      BY <1>0, <3>1, Zenon
  <2> QED
    BY <1>1, <2>1, <2>2, Zenon
<1>2. CASE FeedbackTake \/ FeedbackUpdate \/ FeedbackRelease
  <2>1. Quiet
    BY <1>a, <1>2, Zenon DEF FeedbackTake, FeedbackUpdate, FeedbackRelease
  <2> QED
    BY <1>0, <2>1, Zenon
<1>3. CASE FeedbackRecv
  <2>1. /\ 1 \in 1 .. Len(irq_out) /\ Head(irq_out) = irq_out[1]
        /\ \A k \in 1 .. Len(Tail(irq_out)) :
             k + 1 \in 1 .. Len(irq_out) /\ Tail(irq_out)[k] = irq_out[k + 1]
    BY <1>3, <1>b, RecvMails DEF FeedbackRecv
  <2>2. /\ irq_out' = Tail(irq_out) /\ mb_ping_irq' = mb_ping_irq
        /\ mail'["host_irq_out"] = Head(irq_out)
        /\ mail'["sps_irq_out"] = mail["sps_irq_out"]
        /\ pc'["sps_irq_out"] = pc["sps_irq_out"]
    BY <1>3, <1>a, Zenon DEF FeedbackRecv
  <2> QED
    BY <2>1, <2>2, Zenon DEF Truthful
<1>4. CASE IrqInRecv \/ IrqInTake \/ IrqInDrive \/ IrqInRecord \/ IrqInRelease
  <2>1. CASE IrqInRecv \/ IrqInTake
    <3>1. Quiet
      BY <1>a, <2>1, Zenon DEF IrqInRecv, IrqInTake
    <3> QED
      BY <1>0, <3>1, Zenon
  <2>2. CASE IrqInDrive \/ IrqInRecord \/ IrqInRelease
    <3>1. Quiet
      BY <1>a, <2>2, Zenon DEF IrqInDrive, IrqInRecord, IrqInRelease
    <3> QED
      BY <1>0, <3>1, Zenon
  <2> QED
    BY <1>4, <2>1, <2>2, Zenon
<1>5. CASE IrqOutRecv
  <2>1. /\ 1 \in 1 .. Len(mb_ping_irq) /\ Head(mb_ping_irq) = mb_ping_irq[1]
        /\ \A k \in 1 .. Len(Tail(mb_ping_irq)) :
             k + 1 \in 1 .. Len(mb_ping_irq) /\ Tail(mb_ping_irq)[k] = mb_ping_irq[k + 1]
    BY <1>5, <1>b, RecvMails DEF IrqOutRecv
  <2>2. /\ mb_ping_irq' = Tail(mb_ping_irq) /\ irq_out' = irq_out
        /\ mail'["sps_irq_out"] = Head(mb_ping_irq)
        /\ mail'["host_irq_out"] = mail["host_irq_out"]
        /\ pc'["host_irq_out"] = pc["host_irq_out"]
    BY <1>5, <1>a, Zenon DEF IrqOutRecv
  <2> QED
    BY <2>1, <2>2, Zenon DEF Truthful
<1>6. CASE IrqOutSend
  <2> DEFINE word == mail["sps_irq_out"]
  <2>1. \A k \in 1 .. Len(Sent(irq_out, 1, word)) :
          \/ Sent(irq_out, 1, word)[k] = word
          \/ k \in 1 .. Len(irq_out) /\ Sent(irq_out, 1, word)[k] = irq_out[k]
    BY <1>a, <1>b, SentMails
  <2>2. /\ irq_out' = Sent(irq_out, 1, word) /\ mb_ping_irq' = mb_ping_irq
        /\ mail'["host_irq_out"] = mail["host_irq_out"]
        /\ pc["sps_irq_out"] = "send" /\ pc'["sps_irq_out"] = "idle"
        /\ pc'["host_irq_out"] = pc["host_irq_out"]
    BY <1>6, <1>a, Zenon DEF IrqOutSend
  <2>3. word # Targets
    BY <2>2, Zenon DEF Truthful
  <2> HIDE DEF word
  <2> QED
    BY <2>1, <2>2, <2>3, Zenon DEF Truthful
<1>7. CASE PingStart \/ PingScan \/ PingSend \/ PingDrain \/ PingTake \/ PingRelease
  <2>1. Quiet
    BY <1>a, <1>7, Zenon DEF PingStart, PingScan, PingSend, PingDrain, PingTake, PingRelease
  <2> QED
    BY <1>0, <2>1, Zenon
<1>8. CASE PingEvaluate
  <2> DEFINE down == Unresponsive
             up == {i \in Targets : sps_targets[i] = SPS_ON} \ down
  <2>1. up \in StatusWord
    BY Zenon DEF StatusWord
  <2>2. down # {} => up # Targets
    BY Zenon DEF Unresponsive
  <2>3. mb_ping_irq' = IF down # {} THEN Sent(mb_ping_irq, PingIrqSize, up) ELSE mb_ping_irq
    BY <1>8, Zenon DEF PingEvaluate, Report
  <2>4. /\ UNCHANGED <<irq_out, mail>>
        /\ pc'["sps_irq_out"] = pc["sps_irq_out"] /\ pc'["host_irq_out"] = pc["host_irq_out"]
    BY <1>8, <1>a, Zenon DEF PingEvaluate
  <2> HIDE DEF down, up
  <2>5. \A k \in 1 .. Len(Sent(mb_ping_irq, PingIrqSize, up)) :
          \/ Sent(mb_ping_irq, PingIrqSize, up)[k] = up
          \/ k \in 1 .. Len(mb_ping_irq) /\ Sent(mb_ping_irq, PingIrqSize, up)[k] = mb_ping_irq[k]
    BY <1>b, <2>1, SpsAssumption, SentMails
  <2> QED
    BY <2>2, <2>3, <2>4, <2>5, Zenon DEF Truthful
<1>9. ASSUME NEW i \in Targets, TargetPing(i) \/ TargetAck(i) \/ TargetGpio(i)
      PROVE  Truthful'
  <2>1. Quiet
    BY <1>a, <1>9, Zenon DEF TargetPing, TargetAck, TargetGpio
  <2> QED
    BY <1>0, <2>1, Zenon
<1>10. CASE UNCHANGED vars
  <2>1. Quiet
    BY <1>a, <1>10, Zenon DEF vars
  <2> QED
    BY <1>0, <2>1, Zenon
<1> QED
  BY <1>1, <1>2, <1>3, <1>4, <1>5, <1>6, <1>7, <1>8, <1>9, <1>10, Zenon DEF Next, HostStep, SpsStep, TargetStep

-----------------------------------------------------------------------------
LEMMA NextIInv == IInv /\ [Next]_vars => IInv'
BY NextStatusType, NextMailboxType, NextThreadType, NextGuarded, NextReports, NextPending, Zenon
   DEF IInv, TypeOK

\* The inductive invariant holds in every behaviour of the application.
THEOREM Invariance == Spec => []IInv
BY InitIInv, NextIInv, PTL DEF Spec

\* For every number of machines and all capacities, every variable keeps its
\* type and no mailbox of the application overflows.
THEOREM TypeCorrect == Spec => []TypeOK
<1>1. IInv => TypeOK
  BY Zenon DEF IInv
<1> QED
  BY Invariance, <1>1, PTL

\* target_mutex guards the targets: at no time do two threads work on
\* host->targets, or on sps->targets, at once, and whoever does is the owner.
THEOREM MutualExclusion == Spec => []TargetsGuarded
<1>1. IInv => TargetsGuarded
  BY Zenon DEF IInv
<1> QED
  BY Invariance, <1>1, PTL

\* Whatever feedback_irq_out receives names a machine as not running.
THEOREM ReportsAreTrue == Spec => []ReportsNameAFailure
<1>1. IInv => ReportsNameAFailure
  BY Zenon DEF IInv
<1> QED
  BY Invariance, <1>1, PTL

\* sps->targets moves only along the transitions of a machine's power
\* status, whatever irq_in_handler and ping_thread do at the same time.
THEOREM PowerStatusTransitions == Spec => PowerTransitions
<1> DEFINE Allowed ==
      \A i \in Targets :
        sps_targets'[i] # sps_targets[i] =>
          <<sps_targets[i], sps_targets'[i]>> \in
             {<<SPS_OFF, SPS_ON>>, <<SPS_ON, SPS_OFF>>,
              <<SPS_ON, SPS_FROZEN>>, <<SPS_FROZEN, SPS_OFF>>}
<1>1. IInv /\ [Next]_vars => [Allowed]_sps_targets
  <2> SUFFICES ASSUME IInv, [Next]_vars, sps_targets' # sps_targets PROVE Allowed
    BY Zenon
  <2> USE DEF IInv, TypeOK, StatusType, ThreadType
  <2>1. IrqInRecord \/ PingEvaluate
    BY Zenon DEF Next, HostStep, SpsStep, TargetStep, vars, spsVars, ActionTake, ActionToggle, ActionRelease,
       ActionSend, FeedbackRecv, FeedbackTake, FeedbackUpdate, FeedbackRelease, IrqInRecv, IrqInTake,
       IrqInDrive, IrqInRelease, IrqOutRecv, IrqOutSend, PingStart, PingScan, PingSend, PingDrain,
       PingTake, PingRelease, TargetPing, TargetAck, TargetGpio
  <2>2. CASE IrqInRecord
    BY <2>2, Zenon DEF IrqInRecord, Pending, NewTarget, PowerStatus, SPS_OFF, SPS_ON, SPS_FROZEN
  <2>3. CASE PingEvaluate
    BY <2>3, Zenon DEF PingEvaluate, Unresponsive
  <2> QED
    BY <2>1, <2>2, <2>3, Zenon
<1> QED
  BY Invariance, <1>1, PTL DEF Spec, PowerTransitions

-----------------------------------------------------------------------------
(***************************************************************************)
(* The application under its periods (SpsTimed).                           *)
(***************************************************************************)

TimingType ==
  /\ due \subseteq Jobs /\ due_target \subseteq Targets /\ served \subseteq Targets
  /\ pings \in Nat

\* The places where a command of the host can be on its way to the lines.
CommandAtHost == "host_action" \in due \/ pc["host_action"] # "idle"
CommandSent == irq_in # <<>>
CommandTaken == pc["sps_irq_in"] # "idle"

\* A command is in one place at a time, and is carried out before the next
\* ping job is released.
OneCommand ==
  /\ "host_action" \in due => pc["host_action"] = "idle"
  /\ CommandAtHost => ~CommandSent /\ ~CommandTaken
  /\ CommandSent => ~CommandTaken
  /\ CommandAtHost \/ CommandSent \/ CommandTaken => pings = 0
  /\ pc["host_action"] = "send" => changed = 1

\* A step under the periods is a step of the application, or only time passes.
LEMMA TimedStep == [TimedNext]_timedVars => [Next]_vars
BY Zenon DEF TimedNext, timedVars, Next, AnyTick, Tick, BeginAction, BeginPing, BeginTarget

LEMMA NextTiming == TimingType /\ [TimedNext]_timedVars => TimingType'
<1> SUFFICES ASSUME TimingType, [TimedNext]_timedVars PROVE TimingType'
  BY Zenon
<1>1. CASE AnyTick
  <2> PICK jobs \in SUBSET Jobs, machines \in SUBSET Targets : Tick(jobs, machines)
    BY <1>1, Zenon DEF AnyTick
  <2> QED
    BY DEF Tick, TimingType
<1>2. CASE ~AnyTick
  BY <1>2, Zenon DEF TimedNext, timedVars, timing, BeginAction, BeginPing, BeginTarget, TimingType
<1> QED
  BY <1>1, <1>2, Zenon

LEMMA EmptySequence == ASSUME NEW S, NEW q \in Seq(S), Len(q) = 0 PROVE q = <<>>
OBVIOUS

\* A mailbox of capacity one is empty or holds one mail, which a receiver
\* takes out.
LEMMA OneMail ==
  ASSUME NEW S, NEW mb \in Mailbox(S, 1), mb # <<>>
  PROVE  Len(mb) = 1 /\ Head(mb) \in S /\ mb[1] = Head(mb) /\ Tail(mb) = <<>>
<1>0. mb \in Seq(S) /\ Len(mb) <= 1
  BY Zenon DEF Mailbox
<1>1. Len(mb) = 1 /\ Head(mb) \in S /\ mb[1] = Head(mb)
  BY <1>0
<1>2. Tail(mb) \in Seq(S) /\ Len(Tail(mb)) = 0
  BY <1>0, <1>1
<1>3. Tail(mb) = <<>>
  BY <1>2, EmptySequence, Zenon
<1> QED
  BY <1>1, <1>3, Zenon

LEMMA SentToEmpty ==
  ASSUME NEW m, NEW size \in Nat \ {0}
  PROVE  Sent(<<>>, size, m) = <<m>>
BY DEF Sent

-----------------------------------------------------------------------------
\* The steps in three groups: those that carry out a command of the user,
\* those of a ping job and its report, and those of the machines.
CommandStep ==
  \/ BeginAction
  \/ /\ \/ ActionToggle \/ ActionRelease \/ ActionSend
        \/ IrqInRecv \/ IrqInTake \/ IrqInDrive \/ IrqInRecord \/ IrqInRelease
     /\ UNCHANGED timing

ReportStep ==
  \/ BeginPing
  \/ /\ \/ PingScan \/ PingSend \/ PingDrain \/ PingTake \/ PingEvaluate \/ PingRelease
        \/ IrqOutRecv \/ IrqOutSend
        \/ FeedbackRecv \/ FeedbackTake \/ FeedbackUpdate \/ FeedbackRelease
     /\ UNCHANGED timing

MachineStep(i) == BeginTarget(i) \/ (TargetStep(i) /\ UNCHANGED timing)

LEMMA StepKinds ==
  ASSUME [TimedNext]_timedVars
  PROVE  \/ AnyTick \/ CommandStep \/ ReportStep
         \/ \E i \in Targets : MachineStep(i)
         \/ UNCHANGED timedVars
BY Zenon DEF TimedNext, CommandStep, ReportStep, MachineStep, HostStep, SpsStep

\* What each group leaves alone.
SameCommand ==
  /\ UNCHANGED <<irq_in, changed, irq_i, pings>>
  /\ pc'["host_action"] = pc["host_action"] /\ pc'["sps_irq_in"] = pc["sps_irq_in"]
  /\ mail'["host_action"] = mail["host_action"] /\ mail'["sps_irq_in"] = mail["sps_irq_in"]
  /\ "host_action" \in due' <=> "host_action" \in due

SameReport ==
  /\ UNCHANGED <<targets_pong, ping_i, mb_ping_irq, irq_out, served>>
  /\ pc'["sps_ping"] = pc["sps_ping"] /\ pc'["sps_irq_out"] = pc["sps_irq_out"]
  /\ pc'["host_irq_out"] = pc["host_irq_out"]
  /\ mail'["sps_irq_out"] = mail["sps_irq_out"] /\ mail'["host_irq_out"] = mail["host_irq_out"]
  /\ "sps_ping" \in due' <=> "sps_ping" \in due

SameMachines == UNCHANGED <<status, tpc, due_target>>

LEMMA CommandFrame ==
  ASSUME IInv, CommandStep
  PROVE  SameReport /\ SameMachines /\ UNCHANGED <<mb_ping, mb_ping_ack, pings>>
<1>1. pc \in [Threads -> Labels] /\ mail \in [Threads -> StatusWord]
  BY Zenon DEF IInv, TypeOK, ThreadType
<1> USE ThreadNames, <1>1
    DEF SameReport, SameMachines, Goto, timing, hostVars, spsVars, targetVars, mailboxes
<1>2. CASE BeginAction
  BY <1>2, Zenon DEF BeginAction, ActionTake
<1>3. CASE ActionToggle /\ UNCHANGED timing
  BY <1>3, Zenon DEF ActionToggle
<1>4. CASE (ActionRelease \/ ActionSend) /\ UNCHANGED timing
  BY <1>4, Zenon DEF ActionRelease, ActionSend
<1>5. CASE (IrqInRecv \/ IrqInTake) /\ UNCHANGED timing
  BY <1>5, Zenon DEF IrqInRecv, IrqInTake
<1>6. CASE (IrqInDrive \/ IrqInRecord \/ IrqInRelease) /\ UNCHANGED timing
  BY <1>6, Zenon DEF IrqInDrive, IrqInRecord, IrqInRelease
<1> QED
  BY <1>2, <1>3, <1>4, <1>5, <1>6, Zenon DEF CommandStep

LEMMA ReportFrame ==
  ASSUME IInv, ReportStep
  PROVE  SameCommand /\ SameMachines /\ UNCHANGED <<gpio, served>>
<1>1. pc \in [Threads -> Labels] /\ mail \in [Threads -> StatusWord]
  BY Zenon DEF IInv, TypeOK, ThreadType
<1> USE ThreadNames, <1>1
    DEF SameCommand, SameMachines, Goto, timing, hostVars, spsVars, targetVars, mailboxes
<1>2. CASE BeginPing
  BY <1>2, Zenon DEF BeginPing, PingStart
<1>3. CASE (PingScan \/ PingSend \/ PingDrain) /\ UNCHANGED timing
  BY <1>3, Zenon DEF PingScan, PingSend, PingDrain
<1>4. CASE (PingTake \/ PingEvaluate \/ PingRelease) /\ UNCHANGED timing
  BY <1>4, Zenon DEF PingTake, PingEvaluate, PingRelease
<1>5. CASE (IrqOutRecv \/ IrqOutSend) /\ UNCHANGED timing
  BY <1>5, Zenon DEF IrqOutRecv, IrqOutSend
<1>6. CASE (FeedbackRecv \/ FeedbackTake) /\ UNCHANGED timing
  BY <1>6, Zenon DEF FeedbackRecv, FeedbackTake
<1>7. CASE (FeedbackUpdate \/ FeedbackRelease) /\ UNCHANGED timing
  BY <1>7, Zenon DEF FeedbackUpdate, FeedbackRelease
<1> QED
  BY <1>2, <1>3, <1>4, <1>5, <1>6, <1>7, Zenon DEF ReportStep

LEMMA MachineFrame ==
  ASSUME NEW i \in Targets, MachineStep(i)
  PROVE  SameCommand /\ SameReport /\ UNCHANGED <<hostVars, spsVars, due, pc, mail>>
BY Zenon DEF MachineStep, BeginTarget, TargetStep, TargetPing, TargetAck, TargetGpio,
   SameCommand, SameReport, timing, hostVars, spsVars

\* In a settled state every thread is idle.
LEMMA SettledIdle ==
  ASSUME Settled
  PROVE  /\ pc["host_action"] = "idle" /\ pc["host_irq_out"] = "idle"
         /\ pc["sps_irq_in"] = "idle" /\ pc["sps_ping"] = "idle" /\ pc["sps_irq_out"] = "idle"
         /\ due = {} /\ due_target = {} /\ irq_in = <<>> /\ irq_out = <<>> /\ mb_ping_irq = <<>>
         /\ \A i \in Targets : tpc[i] = "idle"
BY ThreadNames, Zenon DEF Settled

LEMMA NextOneCommand == IInv /\ OneCommand /\ [TimedNext]_timedVars => OneCommand'
<1> SUFFICES ASSUME IInv, OneCommand, [TimedNext]_timedVars PROVE OneCommand'
  BY Zenon
<1>a. pc \in [Threads -> Labels] /\ mail \in [Threads -> StatusWord]
  BY Zenon DEF IInv, TypeOK, ThreadType
<1>b. irq_in \in Mailbox(StatusWord, 1)
  BY Zenon DEF IInv, TypeOK, MailboxType
<1> USE DEF CommandAtHost, CommandSent, CommandTaken
<1>1. CASE AnyTick
  <2>1. PICK jobs \in SUBSET Jobs, machines \in SUBSET Targets : Settled /\ Tick(jobs, machines)
    BY <1>1, Zenon DEF AnyTick
  <2>2. /\ UNCHANGED <<pc, irq_in, changed>>
        /\ "host_action" \in due' => pings' = 0
    BY <2>1, Zenon DEF Tick, vars, hostVars, mailboxes
  <2> QED
    BY <2>1, <2>2, SettledIdle, Zenon DEF OneCommand
<1>2. CASE CommandStep
  <2> USE <1>a, ThreadNames DEF Goto, timing, OneCommand
  <2>1. CASE BeginAction
    BY <2>1, Zenon DEF BeginAction, ActionTake, mailboxes
  <2>2. CASE ActionToggle /\ UNCHANGED timing
    BY <2>2, Zenon DEF ActionToggle, mailboxes
  <2>3. CASE ActionRelease /\ UNCHANGED timing
    BY <2>3, Zenon DEF ActionRelease, mailboxes
  <2>4. CASE ActionSend /\ UNCHANGED timing
    BY <2>4, Zenon DEF ActionSend
  <2>5. CASE IrqInRecv /\ UNCHANGED timing
    <3>1. irq_in' = <<>>
      BY <2>5, <1>b, OneMail, Zenon DEF IrqInRecv
    <3> QED
      BY <2>5, <3>1, Zenon DEF IrqInRecv, hostVars
  <2>6. CASE (IrqInTake \/ IrqInDrive \/ IrqInRecord \/ IrqInRelease) /\ UNCHANGED timing
    BY <2>6, Zenon DEF IrqInTake, IrqInDrive, IrqInRecord, IrqInRelease, hostVars, mailboxes
  <2> QED
    BY <1>2, <2>1, <2>2, <2>3, <2>4, <2>5, <2>6, Zenon DEF CommandStep
<1>3. CASE ReportStep
  BY <1>3, ReportFrame, Zenon DEF SameCommand, OneCommand
<1>4. ASSUME NEW i \in Targets, MachineStep(i) PROVE OneCommand'
  BY <1>4, MachineFrame, Zenon DEF SameCommand, OneCommand
<1>5. CASE UNCHANGED timedVars
  BY <1>5, Zenon DEF timedVars, timing, vars, hostVars, mailboxes, OneCommand
<1> QED
  BY <1>1, <1>2, <1>3, <1>4, <1>5, StepKinds, Zenon

-----------------------------------------------------------------------------
\* Machine i is still to be looked at by the command under way.
Undriven(i) ==
  \/ CommandAtHost \/ CommandSent \/ pc["sps_irq_in"] = "take"
  \/ pc["sps_irq_in"] = "apply" /\ irq_i <= i
  \/ pc["sps_irq_in"] = "record" /\ irq_i < i

\* sps->targets[i], or what irq_in_handler is about to write there.
Recorded(i) == IF pc["sps_irq_in"] = "record" /\ irq_i = i THEN NewTarget ELSE sps_targets[i]

\* A command finds the lines of the machines it has not looked at empty: a
\* machine that has a mail on its line reads it in the job that is released
\* or under way, or in one released before the second ping job.  The mail, or
\* without one the status of the machine, is what the SPS has on record.
Line(i) ==
  /\ Undriven(i) => gpio[i] = <<>>
  /\ gpio[i] # <<>> => \/ i \in due_target \/ tpc[i] # "idle" \/ pings = 0
                       \/ pings = 1 /\ i \notin served
  /\ gpio[i] = <<>> => (status[i] = SPS_OFF <=> Recorded(i) = SPS_OFF)
  /\ gpio[i] # <<>> => (Head(gpio[i]) = SPS_OFF <=> Recorded(i) = SPS_OFF)

LineInv == \A i \in Targets : Line(i)

\* A tick releases the host only when every line has been read.
LEMMA TickLine ==
  ASSUME TimingType, OneCommand, NEW i \in Targets, Line(i), AnyTick
  PROVE  Line(i)'
<1>1. PICK jobs \in SUBSET Jobs, machines \in SUBSET Targets : Settled /\ Tick(jobs, machines)
  BY Zenon DEF AnyTick
<1>2. /\ UNCHANGED <<gpio, status, sps_targets, tpc, pc, irq_in, irq_i, mail>>
      /\ due' = jobs /\ due_target' = machines
  BY <1>1, Zenon DEF Tick, vars, spsVars, targetVars, mailboxes
<1>3. /\ pc["host_action"] = "idle" /\ pc["sps_irq_in"] = "idle" /\ irq_in = <<>>
      /\ i \notin due_target /\ tpc[i] = "idle"
  BY <1>1, SettledIdle, Zenon
<1>4. Recorded(i)' = Recorded(i)
  BY <1>2, <1>3, Zenon DEF Recorded
<1>5. CASE gpio[i] = <<>>
  BY <1>2, <1>4, <1>5, Zenon DEF Line
<1>6. CASE gpio[i] # <<>>
  <2>1. pings = 0 \/ (pings = 1 /\ i \notin served)
    BY <1>3, <1>6, Zenon DEF Line
  <2>2. "sps_ping" \in jobs => pings = 0 /\ pings' \in {0, 1} /\ served' = {}
    BY <1>1, <2>1, ActionPingsAssumption DEF Tick
  <2>3. "sps_ping" \notin jobs => pings' \in {0, pings} /\ served' = served \cup machines
    BY <1>1, Zenon DEF Tick
  <2>4. "host_action" \notin jobs
    BY <1>1, <2>1, ActionPingsAssumption DEF Tick
  <2>5. ~Undriven(i)'
    BY <1>2, <1>3, <2>4, Zenon DEF Undriven, CommandAtHost, CommandSent
  <2> QED
    BY <1>2, <1>4, <1>6, <2>1, <2>2, <2>3, <2>5, Zenon DEF Line
<1> QED
  BY <1>5, <1>6, Zenon

\* The host's own steps and the receipt of a command touch no line.
LEMMA HostLine ==
  ASSUME IInv, OneCommand, NEW i \in Targets, Line(i),
         \/ BeginAction
         \/ (ActionToggle \/ ActionRelease \/ ActionSend \/ IrqInRecv \/ IrqInTake) /\ UNCHANGED timing
  PROVE  Line(i)'
<1>a. pc \in [Threads -> Labels]
  BY Zenon DEF IInv, TypeOK, ThreadType
<1>b. UNCHANGED <<gpio, sps_targets>>
  BY Zenon DEF BeginAction, ActionTake, ActionToggle, ActionRelease, ActionSend, IrqInRecv, IrqInTake,
     spsVars, mailboxes
<1>c. SameMachines /\ UNCHANGED <<pings, served>>
  BY CommandFrame, Zenon DEF CommandStep, SameReport
<1>1. pc["sps_irq_in"] \in {"idle", "take"} /\ Undriven(i)
  BY Zenon DEF BeginAction, ActionTake, ActionToggle, ActionRelease, ActionSend, IrqInRecv, IrqInTake,
     OneCommand, CommandAtHost, CommandSent, CommandTaken, Undriven
<1>2. pc'["sps_irq_in"] # "record"
  BY <1>a, <1>1, ThreadNames, Zenon DEF BeginAction, ActionTake, ActionToggle, ActionRelease, ActionSend,
     IrqInRecv, IrqInTake, Goto
<1> QED
  BY <1>b, <1>c, <1>1, <1>2, Zenon DEF Line, SameMachines, Recorded

\* irq_in_handler drives an empty line and records what it sent.
LEMMA IrqInLine ==
  ASSUME IInv, OneCommand, NEW i \in Targets, Line(i),
         (IrqInDrive \/ IrqInRecord \/ IrqInRelease) /\ UNCHANGED timing
  PROVE  Line(i)'
<1>a. /\ pc \in [Threads -> Labels] /\ irq_i \in 0 .. NumTargets /\ NumTargets \in Nat
      /\ mail \in [Threads -> StatusWord]
  BY SpsAssumption, Zenon DEF IInv, TypeOK, ThreadType
<1>b. gpio \in [Targets -> Mailbox({SPS_OFF, SPS_ON}, 1)] /\ sps_targets \in [Targets -> PowerStatus]
  BY Zenon DEF IInv, TypeOK, MailboxType, StatusType
<1>c. SameMachines /\ UNCHANGED <<pings, served>>
  BY CommandFrame, Zenon DEF CommandStep, SameReport
<1>d. pings = 0 /\ ~CommandAtHost /\ ~CommandSent
  BY Zenon DEF IrqInDrive, IrqInRecord, IrqInRelease, OneCommand, CommandTaken
<1>e. ~CommandAtHost' /\ ~CommandSent'
  <2>1. pc'["host_action"] = pc["host_action"] /\ UNCHANGED <<irq_in, due>>
    BY <1>a, ThreadNames, Zenon DEF IrqInDrive, IrqInRecord, IrqInRelease, Goto, mailboxes, timing
  <2> QED
    BY <1>d, <2>1, Zenon DEF CommandAtHost, CommandSent
<1>1. CASE IrqInDrive
  <2>1. /\ pc["sps_irq_in"] = "apply" /\ UNCHANGED <<sps_targets, mail>>
        /\ irq_i \in Targets /\ i \in Int
    BY <1>1, <1>a DEF IrqInDrive, Targets
  <2>2. CASE (NewTarget = SPS_ON) = (sps_targets[irq_i] # SPS_OFF)
    <3>1. irq_i' = irq_i + 1 /\ UNCHANGED <<gpio, pc>>
      BY <1>1, <2>2, Zenon DEF IrqInDrive
    <3>2. Undriven(i)' => Undriven(i)
      BY <1>a, <1>e, <2>1, <3>1 DEF Undriven, Targets
    <3>3. Recorded(i)' = Recorded(i)
      BY <2>1, <3>1, Zenon DEF Recorded
    <3> QED
      BY <1>c, <3>1, <3>2, <3>3, Zenon DEF Line, SameMachines
  <2>3. CASE ~((NewTarget = SPS_ON) = (sps_targets[irq_i] # SPS_OFF))
    <3>1. /\ gpio' = [gpio EXCEPT ![irq_i] = Sent(gpio[irq_i], 1, NewTarget)]
          /\ pc'["sps_irq_in"] = "record" /\ irq_i' = irq_i
      BY <1>1, <1>a, <2>3, ThreadNames, Zenon DEF IrqInDrive, Goto
    <3>2. CASE i = irq_i
      <4>1. gpio[i] = <<>>
        BY <1>a, <2>1, <3>2 DEF Line, Undriven
      <4>2. gpio'[i] = <<NewTarget>>
        <5>1. gpio'[i] = Sent(<<>>, 1, NewTarget)
          BY <1>b, <3>1, <3>2, <4>1, Zenon
        <5> QED
          BY <5>1, SentToEmpty
      <4>3. Recorded(i)' = NewTarget
        BY <2>1, <3>1, <3>2, Zenon DEF Recorded, NewTarget
      <4>4. ~Undriven(i)'
        BY <1>a, <1>e, <2>1, <3>1, <3>2 DEF Undriven
      <4> QED
        BY <1>c, <1>d, <4>2, <4>3, <4>4, SMTT(30) DEF Line
    <3>3. CASE i # irq_i
      <4>1. gpio'[i] = gpio[i]
        BY <1>b, <3>1, <3>3, Zenon
      <4>2. Recorded(i)' = Recorded(i)
        BY <2>1, <3>1, <3>3, Zenon DEF Recorded
      <4>3. Undriven(i)' => Undriven(i)
        BY <1>a, <1>e, <2>1, <3>1 DEF Undriven
      <4> QED
        BY <1>c, <4>1, <4>2, <4>3, Zenon DEF Line, SameMachines
    <3> QED
      BY <3>2, <3>3, Zenon
  <2> QED
    BY <2>2, <2>3, Zenon
<1>2. CASE IrqInRecord
  <2>1. /\ pc["sps_irq_in"] = "record" /\ pc'["sps_irq_in"] = "apply" /\ irq_i' = irq_i + 1
        /\ sps_targets' = [sps_targets EXCEPT ![irq_i] = NewTarget]
        /\ UNCHANGED gpio /\ i \in Int
    BY <1>2, <1>a, ThreadNames DEF IrqInRecord, Goto, mailboxes, Targets
  <2>2. Recorded(i)' = Recorded(i)
    BY <1>b, <2>1, Zenon DEF Recorded
  <2>3. Undriven(i)' => Undriven(i)
    BY <1>a, <1>e, <2>1 DEF Undriven
  <2> QED
    BY <1>c, <2>1, <2>2, <2>3, Zenon DEF Line, SameMachines
<1>3. CASE IrqInRelease
  <2>1. /\ pc["sps_irq_in"] = "apply" /\ pc'["sps_irq_in"] = "idle"
        /\ UNCHANGED <<gpio, sps_targets>>
    BY <1>3, <1>a, ThreadNames, Zenon DEF IrqInRelease, Goto, mailboxes
  <2>2. Recorded(i)' = Recorded(i)
    BY <2>1, Zenon DEF Recorded
  <2>3. ~Undriven(i)'
    BY <1>e, <2>1, Zenon DEF Undriven
  <2> QED
    BY <1>c, <2>1, <2>2, <2>3, Zenon DEF Line, SameMachines
<1> QED
  BY <1>1, <1>2, <1>3, Zenon

\* A ping job changes on into frozen and nothing else the line is about.
LEMMA ReportLine ==
  ASSUME IInv, NEW i \in Targets, Line(i), ReportStep
  PROVE  Line(i)'
<1>1. SameCommand /\ SameMachines /\ UNCHANGED <<gpio, served>>
  BY ReportFrame, Zenon
<1>2. sps_targets'[i] = SPS_OFF <=> sps_targets[i] = SPS_OFF
  <2>1. CASE PingEvaluate
    BY <2>1 DEF PingEvaluate, Unresponsive, SPS_OFF, SPS_ON, SPS_FROZEN
  <2>2. CASE ~PingEvaluate
    BY <2>2, Zenon DEF ReportStep, BeginPing, PingStart, PingScan, PingSend, PingDrain, PingTake, PingRelease,
       IrqOutRecv, IrqOutSend, FeedbackRecv, FeedbackTake, FeedbackUpdate, FeedbackRelease, spsVars
  <2> QED
    BY <2>1, <2>2, Zenon
<1>3. Recorded(i)' = SPS_OFF <=> Recorded(i) = SPS_OFF
  BY <1>1, <1>2, Zenon DEF Recorded, NewTarget, SameCommand
<1>4. Undriven(i)' <=> Undriven(i)
  BY <1>1, Zenon DEF Undriven, CommandAtHost, CommandSent, SameCommand
<1> QED
  BY <1>1, <1>3, <1>4, Zenon DEF Line, SameCommand, SameMachines

\* A machine that reads its line does as it is told.
LEMMA MachineLine ==
  ASSUME IInv, NEW i \in Targets, Line(i), NEW j \in Targets, MachineStep(j)
  PROVE  Line(i)'
<1>a. /\ gpio \in [Targets -> Mailbox({SPS_OFF, SPS_ON}, 1)] /\ status \in [Targets -> PowerStatus]
      /\ tpc \in [Targets -> {"idle", "ack", "gpio"}]
  BY Zenon DEF IInv, TypeOK, MailboxType, StatusType, ThreadType
<1>b. SameCommand /\ UNCHANGED <<sps_targets, irq_i, pings, served, mail>>
  BY MachineFrame, Zenon DEF SameCommand, SameReport, spsVars
<1>c. Recorded(i)' = Recorded(i)
  BY <1>b, Zenon DEF Recorded, NewTarget, SameCommand
<1>d. Undriven(i)' <=> Undriven(i)
  BY <1>b, Zenon DEF Undriven, CommandAtHost, CommandSent, SameCommand
<1>1. CASE TargetGpio(j) /\ UNCHANGED timing
  <2>1. CASE i = j
    <3>1. gpio'[i] = <<>>
      BY <1>1, <1>a, <2>1, Zenon DEF TargetGpio
    <3>2. status'[i] \in NextStatus(status[i], gpio[i])
      BY <1>1, <1>a, <2>1, Zenon DEF TargetGpio
    <3>3. CASE gpio[i] = <<>>
      <4>1. status'[i] = SPS_OFF <=> status[i] = SPS_OFF
        BY <3>2, <3>3 DEF NextStatus, SPS_OFF, SPS_ON, SPS_FROZEN
      <4> QED
        BY <1>c, <3>1, <3>3, <4>1, Zenon DEF Line
    <3>4. CASE gpio[i] # <<>>
      <4>1. Head(gpio[i]) \in {SPS_OFF, SPS_ON} /\ gpio[i] = <<Head(gpio[i])>>
        <5>1. gpio[i] \in Seq({SPS_OFF, SPS_ON}) /\ Len(gpio[i]) <= 1
          BY <1>a, Zenon DEF Mailbox
        <5> QED
          BY <5>1, <3>4
      <4>2. status'[i] = SPS_OFF <=> Head(gpio[i]) = SPS_OFF
        BY <3>2, <4>1, <1>a DEF NextStatus, SPS_OFF, SPS_ON, SPS_FROZEN, PowerStatus
      <4> QED
        BY <1>c, <3>1, <3>4, <4>2, Zenon DEF Line
    <3> QED
      BY <3>3, <3>4, Zenon
  <2>2. CASE i # j
    <3>1. gpio'[i] = gpio[i] /\ status'[i] = status[i] /\ tpc'[i] = tpc[i] /\ UNCHANGED due_target
      BY <1>1, <1>a, <2>2, Zenon DEF TargetGpio, timing
    <3> QED
      BY <1>b, <1>c, <1>d, <3>1, Zenon DEF Line
  <2> QED
    BY <2>1, <2>2, Zenon
<1>2. CASE BeginTarget(j) \/ (TargetAck(j) /\ UNCHANGED timing)
  <2>1. UNCHANGED <<gpio, status>>
    BY <1>2, Zenon DEF BeginTarget, TargetPing, TargetAck
  <2>2. i \in due_target \/ tpc[i] # "idle" => i \in due_target' \/ tpc'[i] # "idle"
    <3>1. CASE i = j
      BY <1>2, <1>a, <3>1, Zenon DEF BeginTarget, TargetPing, TargetAck
    <3>2. CASE i # j
      BY <1>2, <1>a, <3>2, Zenon DEF BeginTarget, TargetPing, TargetAck, timing
    <3> QED
      BY <3>1, <3>2, Zenon
  <2> QED
    BY <1>b, <1>c, <1>d, <2>1, <2>2, Zenon DEF Line
<1> QED
  BY <1>1, <1>2, Zenon DEF MachineStep, TargetStep

LEMMA NextLine == IInv /\ TimingType /\ OneCommand /\ LineInv /\ [TimedNext]_timedVars => LineInv'
<1> SUFFICES ASSUME IInv, TimingType, OneCommand, LineInv, [TimedNext]_timedVars,
                    NEW i \in Targets
             PROVE  Line(i)'
  BY Zenon DEF LineInv
<1>0. Line(i)
  BY Zenon DEF LineInv
<1>1. CASE AnyTick
  BY <1>0, <1>1, TickLine, Zenon
<1>2. CASE CommandStep
  BY <1>0, <1>2, HostLine, IrqInLine, Zenon DEF CommandStep
<1>3. CASE ReportStep
  BY <1>0, <1>3, ReportLine, Zenon
<1>4. ASSUME NEW j \in Targets, MachineStep(j) PROVE Line(i)'
  BY <1>0, <1>4, MachineLine, Zenon
<1>5. CASE UNCHANGED timedVars
  BY <1>0, <1>5, Zenon DEF timedVars, timing, vars, hostVars, spsVars, targetVars, mailboxes, Line, Undriven,
     CommandAtHost, CommandSent, Recorded, NewTarget
<1> QED
  BY <1>1, <1>2, <1>3, <1>4, <1>5, StepKinds, Zenon

-----------------------------------------------------------------------------
\* The places where a report of a frozen machine can be on its way to the
\* display, from the ping job that may write it on.
ReportDue == "sps_ping" \in due \/ pc["sps_ping"] \in {"scan", "send", "drain", "take", "evaluate"}
ReportMailed == mb_ping_irq # <<>>
ReportTaken == pc["sps_irq_out"] # "idle"
ReportSent == irq_out # <<>>
ReportRead == pc["host_irq_out"] \in {"take", "update"}

\* A report is in one place at a time: it reaches the display before the next
\* ping job is released, so that none of the mailboxes is ever full.
OneReport ==
  /\ "sps_ping" \in due => pc["sps_ping"] = "idle"
  /\ ReportDue => ~ReportMailed /\ ~ReportTaken /\ ~ReportSent /\ ~ReportRead
  /\ ReportMailed => ~ReportTaken /\ ~ReportSent /\ ~ReportRead /\ Len(mb_ping_irq) = 1
  /\ ReportTaken => ~ReportSent /\ ~ReportRead
  /\ ReportSent => ~ReportRead

\* A mailbox that holds one mail is empty once it is received.
LEMMA LastMail ==
  ASSUME NEW S, NEW size \in Nat, NEW mb \in Mailbox(S, size), Len(mb) = 1
  PROVE  Head(mb) \in S /\ Tail(mb) = <<>>
<1>1. mb \in Seq(S) /\ Head(mb) \in S /\ Tail(mb) \in Seq(S) /\ Len(Tail(mb)) = 0
  BY DEF Mailbox
<1> QED
  BY <1>1, EmptySequence, Zenon

LEMMA NextOneReport == IInv /\ OneReport /\ [TimedNext]_timedVars => OneReport'
<1> SUFFICES ASSUME IInv, OneReport, [TimedNext]_timedVars PROVE OneReport'
  BY Zenon
<1>a. pc \in [Threads -> Labels] /\ mail \in [Threads -> StatusWord]
  BY Zenon DEF IInv, TypeOK, ThreadType
<1>b. /\ irq_out \in Mailbox(StatusWord, 1) /\ mb_ping_irq \in Mailbox(StatusWord, PingIrqSize)
      /\ PingIrqSize \in Nat \ {0}
  BY SpsAssumption, Zenon DEF IInv, TypeOK, MailboxType
<1> USE DEF ReportDue, ReportMailed, ReportTaken, ReportSent, ReportRead
<1>1. CASE AnyTick
  <2>1. PICK jobs \in SUBSET Jobs, machines \in SUBSET Targets : Settled /\ Tick(jobs, machines)
    BY <1>1, Zenon DEF AnyTick
  <2>2. UNCHANGED <<pc, mb_ping_irq, irq_out>>
    BY <2>1, Zenon DEF Tick, vars, mailboxes
  <2> QED
    BY <2>1, <2>2, SettledIdle, Zenon DEF OneReport
<1>2. CASE CommandStep
  BY <1>2, CommandFrame, Zenon DEF SameReport, OneReport
<1>3. CASE ReportStep
  <2> USE <1>a, ThreadNames DEF Goto, timing
  <2>1. CASE BeginPing
    BY <2>1, Zenon DEF BeginPing, PingStart, mailboxes, OneReport
  <2>2. CASE (PingScan \/ PingSend \/ PingDrain \/ PingTake \/ PingRelease) /\ UNCHANGED timing
    <3>1. /\ UNCHANGED <<mb_ping_irq, irq_out, due>>
          /\ pc'["sps_irq_out"] = pc["sps_irq_out"] /\ pc'["host_irq_out"] = pc["host_irq_out"]
      BY <2>2, Zenon DEF PingScan, PingSend, PingDrain, PingTake, PingRelease, mailboxes
    <3>2. /\ "sps_ping" \notin due
          /\ pc'["sps_ping"] \in {"scan", "send", "drain", "take", "evaluate"} =>
               pc["sps_ping"] \in {"scan", "send", "drain", "take", "evaluate"}
      BY <2>2, Zenon DEF PingScan, PingSend, PingDrain, PingTake, PingRelease, OneReport
    <3> QED
      BY <3>1, <3>2, Zenon DEF OneReport
  <2>3. CASE PingEvaluate /\ UNCHANGED timing
    <3>1. /\ "sps_ping" \notin due' /\ pc'["sps_ping"] = "release" /\ UNCHANGED irq_out
          /\ pc'["sps_irq_out"] = pc["sps_irq_out"] /\ pc'["host_irq_out"] = pc["host_irq_out"]
      BY <2>3, Zenon DEF PingEvaluate, OneReport
    <3>2. mb_ping_irq = <<>> /\ ~ReportTaken /\ ~ReportSent /\ ~ReportRead
      BY <2>3, Zenon DEF PingEvaluate, OneReport
    <3>3. mb_ping_irq' = <<>> \/ \E up : mb_ping_irq' = Sent(<<>>, PingIrqSize, up)
      BY <2>3, <3>2, Zenon DEF PingEvaluate, Report
    <3>4. mb_ping_irq' = <<>> \/ Len(mb_ping_irq') = 1
      BY <3>3, <1>b, SentToEmpty
    <3> QED
      BY <3>1, <3>2, <3>4, Zenon DEF OneReport
  <2>4. CASE IrqOutRecv /\ UNCHANGED timing
    <3>1. mb_ping_irq' = <<>>
      BY <2>4, <1>b, LastMail, Zenon DEF IrqOutRecv, OneReport
    <3> QED
      BY <2>4, <3>1, Zenon DEF IrqOutRecv, OneReport
  <2>5. CASE IrqOutSend /\ UNCHANGED timing
    BY <2>5, Zenon DEF IrqOutSend, OneReport
  <2>6. CASE FeedbackRecv /\ UNCHANGED timing
    <3>1. irq_out' = <<>>
      BY <2>6, <1>b, OneMail, Zenon DEF FeedbackRecv
    <3> QED
      BY <2>6, <3>1, Zenon DEF FeedbackRecv, OneReport
  <2>7. CASE (FeedbackTake \/ FeedbackUpdate \/ FeedbackRelease) /\ UNCHANGED timing
    BY <2>7, Zenon DEF FeedbackTake, FeedbackUpdate, FeedbackRelease, mailboxes, OneReport
  <2> QED
    BY <1>3, <2>1, <2>2, <2>3, <2>4, <2>5, <2>6, <2>7, Zenon DEF ReportStep
<1>4. ASSUME NEW i \in Targets, MachineStep(i) PROVE OneReport'
  BY <1>4, MachineFrame, Zenon DEF SameReport, OneReport
<1>5. CASE UNCHANGED timedVars
  BY <1>5, Zenon DEF timedVars, timing, vars, mailboxes, OneReport
<1> QED
  BY <1>1, <1>2, <1>3, <1>4, <1>5, StepKinds, Zenon

-----------------------------------------------------------------------------
\* The display shows machine i as commanded and the SPS has yet to follow.
InFlight(i) ==
  \/ pc["host_action"] \in {"release", "send"} /\ changed = 1
  \/ CommandSent \/ pc["sps_irq_in"] = "take"
  \/ pc["sps_irq_in"] \in {"apply", "record"} /\ irq_i <= i

\* The command under way is to switch machine i on.
CommandOn(i) ==
  \/ pc["host_action"] \in {"release", "send"} /\ i \in mail["host_action"]
  \/ CommandSent /\ i \in Head(irq_in)
  \/ CommandTaken /\ i \in mail["sps_irq_in"]

\* A report is under way that does not have machine i as on.
ReportedDown(i) ==
  \/ ReportMailed /\ i \notin Head(mb_ping_irq)
  \/ ReportTaken /\ i \notin mail["sps_irq_out"]
  \/ ReportSent /\ i \notin Head(irq_out)
  \/ ReportRead /\ i \notin mail["host_irq_out"]

\* What the host displays for machine i is what its command says, or, when
\* the SPS has carried it out, what the SPS has on record; a machine shown as
\* on that the SPS has found frozen is the subject of a report.
Display(i) ==
  /\ InFlight(i) => /\ host_targets[i] = SPS_ON => CommandOn(i)
                    /\ host_targets[i] = SPS_OFF => ~CommandOn(i)
  /\ ~InFlight(i) => /\ host_targets[i] = SPS_ON => sps_targets[i] # SPS_OFF
                     /\ host_targets[i] = SPS_OFF => sps_targets[i] = SPS_OFF
  /\ host_targets[i] = SPS_ON /\ sps_targets[i] = SPS_FROZEN => ReportedDown(i)

DisplayInv == \A i \in Targets : Display(i)

\* The user toggles only what no earlier command is under way for.
LEMMA HostDisplay ==
  ASSUME IInv, OneCommand, NEW i \in Targets, Display(i),
         \/ BeginAction
         \/ (ActionToggle \/ ActionRelease \/ ActionSend) /\ UNCHANGED timing
  PROVE  Display(i)'
<1>a. pc \in [Threads -> Labels] /\ mail \in [Threads -> StatusWord] /\ changed \in {0, 1}
  BY Zenon DEF IInv, TypeOK, ThreadType
<1>b. SameReport
  BY CommandFrame, Zenon DEF CommandStep
<1>c. ReportedDown(i)' <=> ReportedDown(i)
  BY <1>b, Zenon DEF SameReport, ReportedDown, ReportMailed, ReportTaken, ReportSent, ReportRead
<1>d. /\ UNCHANGED sps_targets /\ irq_in = <<>> /\ pc["sps_irq_in"] = "idle"
      /\ pc'["sps_irq_in"] = "idle"
  BY <1>a, ThreadNames, Zenon DEF BeginAction, ActionTake, ActionToggle, ActionRelease, ActionSend, Goto,
     spsVars, OneCommand, CommandAtHost, CommandSent, CommandTaken
<1> USE <1>d DEF InFlight, CommandOn, CommandSent, CommandTaken
<1>1. CASE BeginAction
  <2>1. /\ pc["host_action"] = "idle" /\ pc'["host_action"] = "toggle"
        /\ UNCHANGED <<host_targets, irq_in>>
    BY <1>1, <1>a, ThreadNames, Zenon DEF BeginAction, ActionTake, Goto, mailboxes
  <2> QED
    BY <1>c, <2>1, Zenon DEF Display
<1>2. CASE ActionToggle
  <2>1. PICK flipped \in SUBSET Targets :
          LET new == [j \in Targets |->
                        IF j \notin flipped THEN host_targets[j]
                        ELSE IF host_targets[j] = SPS_OFF THEN SPS_ON ELSE SPS_OFF]
          IN  /\ host_targets' = new
              /\ changed' = IF flipped # {} THEN 1 ELSE 0
              /\ mail' = [mail EXCEPT !["host_action"] = {j \in Targets : new[j] = SPS_ON}]
    BY <1>2, Zenon DEF ActionToggle
  <2>2. pc["host_action"] = "toggle" /\ pc'["host_action"] = "release" /\ irq_in' = <<>>
    BY <1>2, <1>a, ThreadNames, Zenon DEF ActionToggle, Goto, mailboxes
  <2>3. host_targets'[i] = IF i \notin flipped THEN host_targets[i]
                           ELSE IF host_targets[i] = SPS_OFF THEN SPS_ON ELSE SPS_OFF
    BY <2>1, Zenon
  <2>4. i \in mail'["host_action"] <=> host_targets'[i] = SPS_ON
    BY <2>1, <1>a, ThreadNames, Zenon
  <2>5. changed' = 1 \/ (changed' = 0 /\ i \notin flipped)
    BY <2>1, Zenon
  <2>6. host_targets'[i] = SPS_ON /\ sps_targets[i] = SPS_FROZEN => host_targets[i] = SPS_ON
    BY <2>2, <2>3 DEF Display, SPS_ON, SPS_OFF, SPS_FROZEN
  <2> QED
    BY <1>c, <2>2, <2>3, <2>4, <2>5, <2>6 DEF Display, SPS_ON, SPS_OFF
<1>3. CASE ActionRelease
  <2>1. /\ pc["host_action"] = "release" /\ UNCHANGED <<host_targets, irq_in, changed>>
        /\ changed = 1 => pc'["host_action"] = "send" /\ UNCHANGED mail
        /\ changed = 0 => pc'["host_action"] = "idle"
    BY <1>3, <1>a, ThreadNames DEF ActionRelease, Goto, mailboxes
  <2> QED
    BY <1>a, <1>c, <2>1, Zenon DEF Display
<1>4. CASE ActionSend
  <2>1. /\ pc["host_action"] = "send" /\ pc'["host_action"] = "idle" /\ UNCHANGED host_targets
        /\ changed = 1 /\ irq_in' = Sent(<<>>, 1, mail["host_action"])
    BY <1>4, <1>a, ThreadNames, Zenon DEF ActionSend, Goto, OneCommand
  <2>2. irq_in' = <<mail["host_action"]>>
    BY <2>1, SentToEmpty
  <2>3. irq_in' # <<>> /\ Head(irq_in') = mail["host_action"]
    BY <2>2
  <2> QED
    BY <1>c, <2>1, <2>3, Zenon DEF Display
<1> QED
  BY <1>1, <1>2, <1>3, <1>4, Zenon

\* irq_in_handler carries out for machine i what is displayed.
LEMMA IrqInDisplay ==
  ASSUME IInv, OneCommand, NEW i \in Targets, Display(i),
         (IrqInRecv \/ IrqInTake \/ IrqInDrive \/ IrqInRecord \/ IrqInRelease) /\ UNCHANGED timing
  PROVE  Display(i)'
<1>a. /\ pc \in [Threads -> Labels] /\ mail \in [Threads -> StatusWord]
      /\ irq_i \in 0 .. NumTargets /\ NumTargets \in Nat /\ i \in Int /\ 0 <= i /\ i < NumTargets
  BY SpsAssumption DEF IInv, TypeOK, ThreadType, Targets
<1>b. irq_in \in Mailbox(StatusWord, 1) /\ sps_targets \in [Targets -> PowerStatus]
  BY Zenon DEF IInv, TypeOK, MailboxType, StatusType
<1>c. SameReport
  BY CommandFrame, Zenon DEF CommandStep
<1>d. ReportedDown(i)' <=> ReportedDown(i)
  BY <1>c, Zenon DEF SameReport, ReportedDown, ReportMailed, ReportTaken, ReportSent, ReportRead
<1>e. pc["host_action"] = "idle" /\ pc'["host_action"] = "idle" /\ UNCHANGED host_targets
  BY <1>a, ThreadNames, Zenon DEF IrqInRecv, IrqInTake, IrqInDrive, IrqInRecord, IrqInRelease, Goto,
     hostVars, OneCommand, CommandAtHost, CommandSent, CommandTaken
<1> USE <1>e DEF InFlight, CommandOn, CommandSent, CommandTaken
<1>1. CASE IrqInRecv
  <2>1. /\ irq_in # <<>> /\ pc["sps_irq_in"] = "idle" /\ pc'["sps_irq_in"] = "take"
        /\ mail'["sps_irq_in"] = Head(irq_in) /\ irq_in' = Tail(irq_in) /\ UNCHANGED sps_targets
    BY <1>1, <1>a, ThreadNames, Zenon DEF IrqInRecv, Goto, spsVars
  <2>2. irq_in' = <<>>
    BY <2>1, <1>b, OneMail, Zenon
  <2> QED
    BY <1>d, <2>1, <2>2, Zenon DEF Display
<1>2. CASE IrqInTake
  <2>1. /\ pc["sps_irq_in"] = "take" /\ pc'["sps_irq_in"] = "apply" /\ irq_i' = 0
        /\ UNCHANGED <<irq_in, mail, sps_targets>>
    BY <1>2, <1>a, ThreadNames, Zenon DEF IrqInTake, Goto, mailboxes
  <2> QED
    BY <1>a, <1>d, <2>1, Zenon DEF Display
<1>3. CASE IrqInDrive
  <2>1. /\ pc["sps_irq_in"] = "apply" /\ UNCHANGED <<irq_in, mail, sps_targets>>
        /\ irq_in = <<>>
    BY <1>3, Zenon DEF IrqInDrive, OneCommand
  <2>2. CASE (NewTarget = SPS_ON) = (sps_targets[irq_i] # SPS_OFF)
    <3>1. irq_i' = irq_i + 1 /\ UNCHANGED pc
      BY <1>3, <2>2, Zenon DEF IrqInDrive
    <3>2. CASE i = irq_i
      BY <1>a, <1>d, <2>1, <2>2, <3>1, <3>2, Zenon DEF Display, NewTarget, SPS_ON, SPS_OFF
    <3>3. CASE i # irq_i
      BY <1>a, <1>d, <2>1, <3>1, <3>3 DEF Display
    <3> QED
      BY <3>2, <3>3, Zenon
  <2>3. CASE ~((NewTarget = SPS_ON) = (sps_targets[irq_i] # SPS_OFF))
    <3>1. pc'["sps_irq_in"] = "record" /\ irq_i' = irq_i
      BY <1>3, <1>a, <2>3, ThreadNames, Zenon DEF IrqInDrive, Goto
    <3> QED
      BY <1>d, <2>1, <3>1, Zenon DEF Display
  <2> QED
    BY <2>2, <2>3, Zenon
<1>4. CASE IrqInRecord
  <2>1. /\ pc["sps_irq_in"] = "record" /\ pc'["sps_irq_in"] = "apply" /\ irq_i' = irq_i + 1
        /\ sps_targets' = [sps_targets EXCEPT ![irq_i] = NewTarget]
        /\ UNCHANGED <<irq_in, mail>> /\ irq_in = <<>>
    BY <1>4, <1>a, ThreadNames, Zenon DEF IrqInRecord, Goto, mailboxes, OneCommand
  <2>2. CASE i = irq_i
    <3>1. sps_targets'[i] = NewTarget
      BY <1>b, <2>1, <2>2, Zenon
    <3> QED
      BY <1>a, <1>d, <2>1, <2>2, <3>1 DEF Display, NewTarget, SPS_ON, SPS_OFF, SPS_FROZEN
  <2>3. CASE i # irq_i
    <3>1. sps_targets'[i] = sps_targets[i]
      BY <1>b, <2>1, <2>3, Zenon
    <3> QED
      BY <1>a, <1>d, <2>1, <2>3, <3>1 DEF Display
  <2> QED
    BY <2>2, <2>3, Zenon
<1>5. CASE IrqInRelease
  <2>1. /\ pc["sps_irq_in"] = "apply" /\ pc'["sps_irq_in"] = "idle" /\ irq_i = NumTargets
        /\ UNCHANGED <<irq_in, sps_targets>> /\ irq_in = <<>>
    BY <1>5, <1>a, ThreadNames, Zenon DEF IrqInRelease, Goto, mailboxes, OneCommand
  <2> QED
    BY <1>a, <1>d, <2>1 DEF Display
<1> QED
  BY <1>1, <1>2, <1>3, <1>4, <1>5, Zenon

\* A report moves from place to place and keeps its word until the display
\* follows it.
LEMMA ReportDisplay ==
  ASSUME IInv, OneReport, NEW i \in Targets, Display(i), ReportStep
  PROVE  Display(i)'
<1>a. pc \in [Threads -> Labels] /\ mail \in [Threads -> StatusWord]
  BY Zenon DEF IInv, TypeOK, ThreadType
<1>b. /\ irq_out \in Mailbox(StatusWord, 1) /\ mb_ping_irq \in Mailbox(StatusWord, PingIrqSize)
      /\ PingIrqSize \in Nat \ {0}
  BY SpsAssumption, Zenon DEF IInv, TypeOK, MailboxType
<1>c. SameCommand
  BY ReportFrame, Zenon
<1>d. (InFlight(i)' <=> InFlight(i)) /\ (CommandOn(i)' <=> CommandOn(i))
  BY <1>c, Zenon DEF SameCommand, InFlight, CommandOn, CommandSent, CommandTaken
<1>e. ASSUME UNCHANGED <<host_targets, sps_targets>>, ReportedDown(i) => ReportedDown(i)'
      PROVE  Display(i)'
  BY <1>d, <1>e, Zenon DEF Display
<1> USE <1>a, ThreadNames DEF ReportedDown, ReportDue, ReportMailed, ReportTaken, ReportSent, ReportRead, Goto
<1>1. CASE \/ BeginPing
           \/ (PingScan \/ PingSend \/ PingDrain \/ PingTake \/ PingRelease) /\ UNCHANGED timing
  <2>1. /\ UNCHANGED <<mb_ping_irq, irq_out, mail, host_targets, sps_targets>>
        /\ pc'["sps_irq_out"] = pc["sps_irq_out"] /\ pc'["host_irq_out"] = pc["host_irq_out"]
    BY <1>1, Zenon DEF BeginPing, PingStart, PingScan, PingSend, PingDrain, PingTake, PingRelease, hostVars,
       mailboxes
  <2> QED
    BY <1>e, <2>1, Zenon
<1>2. CASE PingEvaluate /\ UNCHANGED timing
  <2> DEFINE up == {j \in Targets : sps_targets[j] = SPS_ON} \ Unresponsive
  <2>1. /\ mb_ping_irq = <<>> /\ ~ReportTaken /\ ~ReportSent /\ ~ReportRead /\ UNCHANGED host_targets
        /\ sps_targets' = [j \in Targets |-> IF j \in Unresponsive THEN SPS_FROZEN ELSE sps_targets[j]]
        /\ Unresponsive # {} => mb_ping_irq' = Sent(mb_ping_irq, PingIrqSize, up)
    BY <1>2, Zenon DEF PingEvaluate, Report, OneReport, hostVars
  <2>2. ~ReportedDown(i)
    BY <2>1, Zenon
  <2>3. CASE i \in Unresponsive
    <3>1. i \notin up /\ sps_targets[i] = SPS_ON /\ sps_targets'[i] = SPS_FROZEN
      BY <2>1, <2>3, Zenon DEF Unresponsive
    <3> HIDE DEF up
    <3>2. mb_ping_irq' = <<up>>
      BY <1>b, <2>1, <2>3, SentToEmpty, Zenon
    <3>3. mb_ping_irq' # <<>> /\ i \notin Head(mb_ping_irq')
      BY <3>1, <3>2
    <3>4. ReportedDown(i)'
      BY <3>3, Zenon
    <3> QED
      BY <1>d, <2>1, <3>1, <3>4 DEF Display, SPS_ON, SPS_OFF, SPS_FROZEN
  <2>4. CASE i \notin Unresponsive
    <3>1. sps_targets'[i] = sps_targets[i]
      BY <2>1, <2>4, Zenon
    <3> QED
      BY <1>d, <2>1, <2>2, <3>1, Zenon DEF Display
  <2> QED
    BY <2>3, <2>4, Zenon
<1>3. CASE IrqOutRecv
  <2>1. /\ UNCHANGED <<host_targets, sps_targets>> /\ ~ReportTaken /\ ~ReportSent /\ ~ReportRead
        /\ mail'["sps_irq_out"] = Head(mb_ping_irq) /\ pc'["sps_irq_out"] = "send"
    BY <1>3, Zenon DEF IrqOutRecv, OneReport, hostVars, spsVars
  <2> QED
    BY <1>e, <2>1, Zenon
<1>4. CASE IrqOutSend
  <2>1. /\ UNCHANGED <<host_targets, sps_targets>> /\ ReportTaken
        /\ irq_out' = Sent(irq_out, 1, mail["sps_irq_out"])
    BY <1>4, Zenon DEF IrqOutSend, hostVars, spsVars
  <2>2. ~ReportMailed /\ irq_out = <<>> /\ ~ReportRead
    BY <2>1, Zenon DEF OneReport
  <2>3. irq_out' = <<mail["sps_irq_out"]>>
    BY <2>1, <2>2, SentToEmpty
  <2>4. irq_out' # <<>> /\ Head(irq_out') = mail["sps_irq_out"]
    BY <2>3
  <2> QED
    BY <1>e, <2>1, <2>2, <2>4, Zenon
<1>5. CASE FeedbackRecv
  <2>1. /\ UNCHANGED <<host_targets, sps_targets>> /\ ReportSent
        /\ mail'["host_irq_out"] = Head(irq_out) /\ pc'["host_irq_out"] = "take"
    BY <1>5, Zenon DEF FeedbackRecv, hostVars, spsVars
  <2>2. ~ReportMailed /\ ~ReportTaken /\ ~ReportRead
    BY <2>1, Zenon DEF OneReport
  <2> QED
    BY <1>e, <2>1, <2>2, Zenon
<1>6. CASE FeedbackTake
  <2>1. /\ UNCHANGED <<host_targets, sps_targets, mb_ping_irq, irq_out, mail>>
        /\ pc["host_irq_out"] = "take" /\ pc'["host_irq_out"] = "update"
        /\ pc'["sps_irq_out"] = pc["sps_irq_out"]
    BY <1>6, Zenon DEF FeedbackTake, spsVars, mailboxes
  <2> QED
    BY <1>e, <2>1, Zenon
<1>7. CASE FeedbackUpdate
  <2>1. /\ host_targets' = DisplayAfter(mail["host_irq_out"]) /\ UNCHANGED sps_targets /\ ReportRead
    BY <1>7, Zenon DEF FeedbackUpdate, spsVars
  <2>2. ~ReportMailed /\ ~ReportTaken /\ ~ReportSent
    BY <2>1, Zenon DEF OneReport
  <2>3. host_targets'[i] = IF i \notin mail["host_irq_out"] /\ host_targets[i] = SPS_ON
                           THEN SPS_FROZEN ELSE host_targets[i]
    BY <2>1, Zenon DEF DisplayAfter
  <2> QED
    BY <1>d, <2>1, <2>2, <2>3 DEF Display, SPS_ON, SPS_OFF, SPS_FROZEN
<1>8. CASE FeedbackRelease
  <2>1. /\ UNCHANGED <<host_targets, sps_targets, mb_ping_irq, irq_out>>
        /\ pc["host_irq_out"] = "release" /\ pc'["sps_irq_out"] = pc["sps_irq_out"]
        /\ mail'["sps_irq_out"] = mail["sps_irq_out"]
    BY <1>8, Zenon DEF FeedbackRelease, spsVars, mailboxes
  <2> QED
    BY <1>e, <2>1, Zenon
<1> QED
  BY <1>1, <1>2, <1>3, <1>4, <1>5, <1>6, <1>7, <1>8, Zenon DEF ReportStep

LEMMA NextDisplay == IInv /\ OneCommand /\ OneReport /\ DisplayInv /\ [TimedNext]_timedVars => DisplayInv'
<1> SUFFICES ASSUME IInv, OneCommand, OneReport, DisplayInv, [TimedNext]_timedVars, NEW i \in Targets
             PROVE  Display(i)'
  BY Zenon DEF DisplayInv
<1>0. Display(i)
  BY Zenon DEF DisplayInv
<1>a. ASSUME SameCommand, SameReport, UNCHANGED <<host_targets, sps_targets>> PROVE Display(i)'
  <2>1. (InFlight(i)' <=> InFlight(i)) /\ (CommandOn(i)' <=> CommandOn(i))
    BY <1>a, Zenon DEF SameCommand, InFlight, CommandOn, CommandSent, CommandTaken
  <2>2. ReportedDown(i)' <=> ReportedDown(i)
    BY <1>a, Zenon DEF SameReport, ReportedDown, ReportMailed, ReportTaken, ReportSent, ReportRead
  <2> QED
    BY <1>0, <1>a, <2>1, <2>2, Zenon DEF Display
<1>1. CASE AnyTick
  <2>1. UNCHANGED vars
    BY <1>1, Zenon DEF AnyTick, Tick
  <2> QED
    BY <1>0, <2>1, Zenon DEF vars, hostVars, spsVars, mailboxes, Display, InFlight, CommandOn, CommandSent,
       CommandTaken, ReportedDown, ReportMailed, ReportTaken, ReportSent, ReportRead
<1>2. CASE CommandStep
  BY <1>0, <1>2, HostDisplay, IrqInDisplay, Zenon DEF CommandStep
<1>3. CASE ReportStep
  BY <1>0, <1>3, ReportDisplay, Zenon
<1>4. ASSUME NEW j \in Targets, MachineStep(j) PROVE Display(i)'
  BY <1>a, <1>4, MachineFrame, Zenon DEF hostVars, spsVars
<1>5. CASE UNCHANGED timedVars
  BY <1>a, <1>5, Zenon DEF timedVars, timing, vars, hostVars, spsVars, mailboxes, SameCommand, SameReport
<1> QED
  BY <1>1, <1>2, <1>3, <1>4, <1>5, StepKinds, Zenon

-----------------------------------------------------------------------------
\* A set without three different elements has at most two.
LEMMA AtMostTwo ==
  ASSUME NEW S, \A a, b, c \in S : a = b \/ b = c \/ a = c
  PROVE  Cardinality(S) <= 2
<1> DEFINE Rest(T) == T \ {CHOOSE x : x \in T}
           Eq(f) == f = [T \in SUBSET S |-> IF T = {} THEN 0 ELSE 1 + f[T \ {CHOOSE x : x \in T}]]
           g == [T \in SUBSET S |-> IF T = {} THEN 0 ELSE IF \E a, b \in T : a # b THEN 2 ELSE 1]
           CS == CHOOSE f : Eq(f)
<1>1. Cardinality(S) = CS[S]
  BY Zenon DEF Cardinality
<1>2. ASSUME NEW T \in SUBSET S, T # {}
      PROVE  /\ Rest(T) \in SUBSET S
             /\ (\E a, b \in T : a # b) => Rest(T) # {} /\ ~(\E a, b \in Rest(T) : a # b)
             /\ ~(\E a, b \in T : a # b) => Rest(T) = {}
  <2>1. PICK x \in T : x = CHOOSE y : y \in T
    BY <1>2, Zenon
  <2>2. Rest(T) = T \ {x}
    BY <2>1, Zenon
  <2> HIDE DEF Rest
  <2> QED
    BY <2>2
<1>3. Eq(g)
  <2>1. ASSUME NEW T \in SUBSET S PROVE g[T] = IF T = {} THEN 0 ELSE 1 + g[Rest(T)]
    <3> HIDE DEF Rest
    <3>1. CASE T = {}
      BY <3>1, Zenon
    <3>2. CASE T # {}
      BY <3>2, <1>2
    <3> QED
      BY <3>1, <3>2, Zenon
  <2> HIDE DEF g
  <2>2. g = [T \in SUBSET S |-> g[T]]
    BY Zenon DEF g
  <2> QED
    BY <2>1, <2>2, Zenon
<1>4. Eq(CS)
  <2> HIDE DEF Eq, g
  <2> QED
    BY <1>3, Zenon
<1>5. \A T \in SUBSET S : CS[T] = IF T = {} THEN 0 ELSE 1 + CS[Rest(T)]
  <2> HIDE DEF CS
  <2> QED
    BY <1>4, Zenon
<1> HIDE DEF CS, Rest
<1>6. CASE S = {}
  BY <1>1, <1>5, <1>6
<1>7. CASE S # {}
  BY <1>1, <1>2, <1>5, <1>7
<1> QED
  BY <1>6, <1>7, Zenon

\* Where the answers of machine i are in mb_ping_ack.
Places(mb, i) == {k \in 1 .. Len(mb) : mb[k] = i}

One(S) == \A a, b \in S : a = b
Two(S) == \A a, b, c \in S : a = b \/ b = c \/ a = c

\* An answer that is sent, if the mailbox takes it, makes one more of its
\* machine and of no other.
LEMMA PlacesSent ==
  ASSUME NEW mb \in Mailbox(Targets, PingAckSize), NEW j \in Targets, NEW i \in Targets
  PROVE  LET new == Sent(mb, PingAckSize, j)
         IN  /\ i # j => Places(new, i) = Places(mb, i)
             /\ Places(mb, i) = {} => One(Places(new, i))
             /\ One(Places(mb, i)) => Two(Places(new, i))
<1>1. mb \in Seq(Targets) /\ Len(mb) \in Nat
  BY DEF Mailbox
<1>2. \/ Sent(mb, PingAckSize, j) = mb
      \/ Sent(mb, PingAckSize, j) = Append(mb, j)
  BY Zenon DEF Sent
<1>3. CASE Sent(mb, PingAckSize, j) = mb
  BY <1>3, Zenon DEF One, Two
<1>4. CASE Sent(mb, PingAckSize, j) = Append(mb, j)
  <2>1. i # j => Places(Append(mb, j), i) = Places(mb, i)
    BY <1>1 DEF Places
  <2>2. \A k \in Places(Append(mb, j), i) : k \in Places(mb, i) \/ k = Len(mb) + 1
    BY <1>1 DEF Places
  <2> QED
    BY <1>4, <2>1, <2>2, Zenon DEF One, Two
<1> QED
  BY <1>2, <1>3, <1>4, Zenon

\* Reading an answer adds none.
LEMMA PlacesTail ==
  ASSUME NEW mb \in Mailbox(Targets, PingAckSize), mb # <<>>, NEW i \in Targets
  PROVE  /\ Places(mb, i) = {} => Places(Tail(mb), i) = {}
         /\ One(Places(mb, i)) => One(Places(Tail(mb), i))
         /\ Two(Places(mb, i)) => Two(Places(Tail(mb), i))
<1>1. \A k \in Places(Tail(mb), i) : k \in Int /\ k + 1 \in Places(mb, i)
  BY DEF Places, Mailbox
<1> QED
  BY <1>1 DEF One, Two

\* A ping of machine i that is not answered yet.
Pinged(i) == mb_ping[i] # <<>> \/ tpc[i] = "ack"

\* A ping job under way is yet to ping machine i, or has pinged it and is yet
\* to read the answers.
Unpinged(i) == "sps_ping" \in due \/ (pc["sps_ping"] \in {"scan", "send"} /\ ping_i <= i)
Undrained(i) == (pc["sps_ping"] \in {"scan", "send"} /\ ping_i > i) \/ pc["sps_ping"] = "drain"

\* A machine reads a ping before the next one is due, while it runs, and a
\* ping job reads all the answers to the pings before its own.
Answer(i) ==
  /\ mb_ping[i] # <<>> => tpc[i] # "ack" /\ (i \in due_target \/ i \notin served)
  /\ tpc[i] = "ack" => status[i] = SPS_ON
  /\ Unpinged(i) => ~Pinged(i)
  /\ Pinged(i) /\ ~Undrained(i) => Places(mb_ping_ack, i) = {}
  /\ Pinged(i) \/ ~Undrained(i) => One(Places(mb_ping_ack, i))
  /\ Two(Places(mb_ping_ack, i))

AnswerInv ==
  /\ "sps_ping" \in due \/ pc["sps_ping"] # "idle" => served = {}
  /\ \A i \in Targets : Answer(i)

LEMMA NextServed ==
  ASSUME IInv, OneReport, AnswerInv, [TimedNext]_timedVars
  PROVE  "sps_ping" \in due' \/ pc'["sps_ping"] # "idle" => served' = {}
<1>a. pc \in [Threads -> Labels]
  BY Zenon DEF IInv, TypeOK, ThreadType
<1>1. CASE AnyTick
  <2>1. PICK jobs \in SUBSET Jobs, machines \in SUBSET Targets : Settled /\ Tick(jobs, machines)
    BY <1>1, Zenon DEF AnyTick
  <2>2. pc'["sps_ping"] = "idle"
    BY <2>1, SettledIdle, Zenon DEF Tick, vars
  <2>3. due' = jobs /\ ("sps_ping" \in jobs => served' = {})
    BY <2>1, Zenon DEF Tick
  <2> QED
    BY <2>2, <2>3, Zenon
<1>2. CASE CommandStep
  BY <1>2, CommandFrame, Zenon DEF SameReport, AnswerInv
<1>3. CASE ReportStep
  <2>1. served' = served
    BY <1>3, ReportFrame, Zenon
  <2>2. "sps_ping" \in due' \/ pc'["sps_ping"] # "idle" => "sps_ping" \in due \/ pc["sps_ping"] # "idle"
    <3>1. CASE BeginPing
      BY <3>1, Zenon DEF BeginPing
    <3>2. CASE PingScan \/ PingSend \/ PingDrain \/ PingTake \/ PingEvaluate \/ PingRelease
      BY <3>2, Zenon DEF PingScan, PingSend, PingDrain, PingTake, PingEvaluate, PingRelease
    <3>3. CASE /\ IrqOutRecv \/ IrqOutSend \/ FeedbackRecv \/ FeedbackTake \/ FeedbackUpdate \/ FeedbackRelease
               /\ UNCHANGED timing
      BY <3>3, <1>a, ThreadNames, Zenon DEF IrqOutRecv, IrqOutSend, FeedbackRecv, FeedbackTake, FeedbackUpdate,
         FeedbackRelease, Goto, timing
    <3> QED
      BY <1>3, <3>1, <3>2, <3>3, Zenon DEF ReportStep
  <2> QED
    BY <2>1, <2>2, Zenon DEF AnswerInv
<1>4. ASSUME NEW i \in Targets, MachineStep(i)
      PROVE  "sps_ping" \in due' \/ pc'["sps_ping"] # "idle" => served' = {}
  BY <1>4, MachineFrame, Zenon DEF SameReport, AnswerInv
<1>5. CASE UNCHANGED timedVars
  BY <1>5, Zenon DEF timedVars, timing, vars, AnswerInv
<1> QED
  BY <1>1, <1>2, <1>3, <1>4, <1>5, StepKinds, Zenon

\* A tick releases a ping job only when every machine has read its ping.
LEMMA TickAnswer ==
  ASSUME NEW i \in Targets, Answer(i), AnyTick
  PROVE  Answer(i)'
<1>1. PICK jobs \in SUBSET Jobs, machines \in SUBSET Targets : Settled /\ Tick(jobs, machines)
  BY Zenon DEF AnyTick
<1>2. UNCHANGED <<mb_ping, mb_ping_ack, status, tpc, pc, ping_i>> /\ due' = jobs /\ due_target' = machines
  BY <1>1, Zenon DEF Tick, vars, spsVars, targetVars, mailboxes
<1>3. pc["sps_ping"] = "idle" /\ i \notin due_target /\ tpc[i] = "idle" /\ "sps_ping" \notin due
  BY <1>1, SettledIdle, Zenon
<1>4. CASE "sps_ping" \in jobs
  <2>1. served = Targets /\ served' = {}
    BY <1>1, <1>4, Zenon DEF Tick
  <2>2. mb_ping[i] = <<>>
    BY <1>3, <2>1, Zenon DEF Answer
  <2> QED
    BY <1>2, <1>3, <2>1, <2>2, Zenon DEF Answer, Pinged, Unpinged, Undrained
<1>5. CASE "sps_ping" \notin jobs
  <2>1. served' = served \cup machines
    BY <1>1, <1>5, Zenon DEF Tick
  <2> QED
    BY <1>2, <1>3, <1>5, <2>1, Zenon DEF Answer, Pinged, Unpinged, Undrained
<1> QED
  BY <1>4, <1>5, Zenon

LEMMA PingAnswer ==
  ASSUME IInv, OneReport, AnswerInv, NEW i \in Targets, Answer(i), ReportStep
  PROVE  Answer(i)'
<1>a. /\ pc \in [Threads -> Labels] /\ ping_i \in 0 .. NumTargets /\ NumTargets \in Nat
      /\ i \in Int /\ 0 <= i /\ i < NumTargets
  BY SpsAssumption DEF IInv, TypeOK, ThreadType, Targets
<1>b. mb_ping \in [Targets -> Mailbox({1}, 1)] /\ mb_ping_ack \in Mailbox(Targets, PingAckSize)
  BY Zenon DEF IInv, TypeOK, MailboxType
<1>c. UNCHANGED <<status, tpc, due_target, served>>
  BY ReportFrame, Zenon DEF SameMachines
<1>d. pc["sps_ping"] # "idle" => "sps_ping" \notin due
  BY Zenon DEF OneReport
<1>e. ASSUME mb_ping'[i] = mb_ping[i], UNCHANGED mb_ping_ack,
             Unpinged(i)' => Unpinged(i), Undrained(i) => Undrained(i)'
      PROVE  Answer(i)'
  BY <1>c, <1>e, Zenon DEF Answer, Pinged
<1>1. CASE BeginPing
  <2>1. /\ UNCHANGED <<mb_ping, mb_ping_ack>> /\ "sps_ping" \in due /\ pc["sps_ping"] = "idle"
    BY <1>1, Zenon DEF BeginPing, PingStart, mailboxes
  <2> QED
    BY <1>e, <2>1, Zenon DEF Unpinged, Undrained
<1>2. CASE PingScan /\ UNCHANGED timing
  <2>1. UNCHANGED <<mb_ping, mb_ping_ack, due>> /\ pc["sps_ping"] = "scan"
    BY <1>2, Zenon DEF PingScan, mailboxes, timing
  <2>2. \/ pc'["sps_ping"] = "drain"
        \/ pc'["sps_ping"] \in {"scan", "send"} /\ ping_i' \in {ping_i, ping_i + 1}
    BY <1>2, <1>a, ThreadNames, Zenon DEF PingScan, Goto
  <2> QED
    BY <1>a, <1>d, <1>e, <2>1, <2>2 DEF Unpinged, Undrained
<1>3. CASE PingSend /\ UNCHANGED timing
  <2>1. /\ pc["sps_ping"] = "send" /\ pc'["sps_ping"] = "scan" /\ ping_i' = ping_i + 1
        /\ mb_ping' = [mb_ping EXCEPT ![ping_i] = Sent(mb_ping[ping_i], 1, 1)]
        /\ UNCHANGED <<mb_ping_ack, due>> /\ "sps_ping" \notin due
    BY <1>3, <1>a, <1>d, ThreadNames, Zenon DEF PingSend, Goto, timing
  <2>2. CASE i # ping_i
    <3>1. mb_ping'[i] = mb_ping[i]
      BY <1>b, <2>1, <2>2, Zenon
    <3> QED
      BY <1>a, <1>e, <2>1, <3>1 DEF Unpinged, Undrained
  <2>3. CASE i = ping_i
    <3>1. Unpinged(i) /\ ~Undrained(i) /\ ~Unpinged(i)' /\ Undrained(i)'
      BY <1>a, <2>1, <2>3 DEF Unpinged, Undrained
    <3>2. served = {}
      BY <2>1, Zenon DEF AnswerInv
    <3> QED
      BY <1>c, <2>1, <3>1, <3>2, Zenon DEF Answer, Pinged
  <2> QED
    BY <2>2, <2>3, Zenon
<1>4. CASE PingDrain /\ UNCHANGED timing
  <2>1. pc["sps_ping"] = "drain" /\ UNCHANGED <<mb_ping, due, ping_i>> /\ "sps_ping" \notin due
    BY <1>4, <1>d, Zenon DEF PingDrain, timing
  <2>2. CASE mb_ping_ack = <<>>
    <3>1. Places(mb_ping_ack, i) = {}
      BY <2>2 DEF Places
    <3>2. mb_ping_ack' = mb_ping_ack /\ pc'["sps_ping"] = "take"
      BY <1>4, <1>a, <2>2, ThreadNames, Zenon DEF PingDrain, Goto
    <3> QED
      BY <1>c, <2>1, <3>1, <3>2, Zenon DEF Answer, Pinged, Unpinged, One, Two
  <2>3. CASE mb_ping_ack # <<>>
    <3>1. mb_ping_ack' = Tail(mb_ping_ack) /\ UNCHANGED pc
      BY <1>4, <2>3, Zenon DEF PingDrain
    <3>2. /\ Places(mb_ping_ack, i) = {} => Places(mb_ping_ack', i) = {}
          /\ One(Places(mb_ping_ack, i)) => One(Places(mb_ping_ack', i))
          /\ Two(Places(mb_ping_ack, i)) => Two(Places(mb_ping_ack', i))
      BY <1>b, <2>3, <3>1, PlacesTail, Zenon
    <3>3. (Undrained(i)' <=> Undrained(i)) /\ (Unpinged(i)' <=> Unpinged(i))
      BY <2>1, <3>1, Zenon DEF Undrained, Unpinged
    <3> QED
      BY <1>c, <2>1, <3>2, <3>3, Zenon DEF Answer, Pinged
  <2> QED
    BY <2>2, <2>3, Zenon
<1>5. CASE (PingTake \/ PingEvaluate \/ PingRelease) /\ UNCHANGED timing
  <2>1. /\ UNCHANGED <<mb_ping, mb_ping_ack, due, ping_i>>
        /\ pc["sps_ping"] \in {"take", "evaluate", "release"}
        /\ pc'["sps_ping"] \in {"evaluate", "release", "idle"}
    BY <1>5, <1>a, ThreadNames, Zenon DEF PingTake, PingEvaluate, PingRelease, Goto, mailboxes, timing
  <2> QED
    BY <1>e, <2>1, Zenon DEF Unpinged, Undrained
<1>6. CASE /\ IrqOutRecv \/ IrqOutSend \/ FeedbackRecv \/ FeedbackTake \/ FeedbackUpdate \/ FeedbackRelease
           /\ UNCHANGED timing
  <2>1. UNCHANGED <<mb_ping, mb_ping_ack, due, ping_i>> /\ pc'["sps_ping"] = pc["sps_ping"]
    BY <1>6, <1>a, ThreadNames, Zenon DEF IrqOutRecv, IrqOutSend, FeedbackRecv, FeedbackTake, FeedbackUpdate,
       FeedbackRelease, Goto, mailboxes, spsVars, timing
  <2> QED
    BY <1>e, <2>1, Zenon DEF Unpinged, Undrained
<1> QED
  BY <1>1, <1>2, <1>3, <1>4, <1>5, <1>6, Zenon DEF ReportStep

\* A machine turns a ping into an answer.
LEMMA MachineAnswer ==
  ASSUME IInv, NEW i \in Targets, Answer(i), NEW j \in Targets, MachineStep(j)
  PROVE  Answer(i)'
<1>a. /\ tpc \in [Targets -> {"idle", "ack", "gpio"}] /\ status \in [Targets -> PowerStatus]
      /\ mb_ping \in [Targets -> Mailbox({1}, 1)] /\ mb_ping_ack \in Mailbox(Targets, PingAckSize)
  BY Zenon DEF IInv, TypeOK, ThreadType, StatusType, MailboxType
<1>b. (Unpinged(i)' <=> Unpinged(i)) /\ (Undrained(i)' <=> Undrained(i)) /\ UNCHANGED served
  BY MachineFrame, Zenon DEF SameReport, Unpinged, Undrained
<1>1. CASE i # j
  <2>1. /\ tpc'[i] = tpc[i] /\ status'[i] = status[i] /\ mb_ping'[i] = mb_ping[i]
        /\ i \in due_target' <=> i \in due_target
    BY <1>a, <1>1, Zenon DEF MachineStep, BeginTarget, TargetStep, TargetPing, TargetAck, TargetGpio, timing
  <2>2. Places(mb_ping_ack', i) = Places(mb_ping_ack, i)
    <3>1. mb_ping_ack' = mb_ping_ack \/ mb_ping_ack' = Sent(mb_ping_ack, PingAckSize, j)
      BY Zenon DEF MachineStep, BeginTarget, TargetStep, TargetPing, TargetAck, TargetGpio
    <3> QED
      BY <1>a, <1>1, <3>1, PlacesSent
  <2> QED
    BY <1>b, <2>1, <2>2, Zenon DEF Answer, Pinged
<1>2. CASE i = j /\ BeginTarget(i)
  <2>1. mb_ping'[i] = <<>>
    BY <1>a, <1>2, OneMail, SMTT(30) DEF BeginTarget, TargetPing
  <2>2. /\ tpc'[i] = "ack" => mb_ping[i] # <<>> /\ status[i] = SPS_ON
        /\ UNCHANGED <<status, mb_ping_ack>>
    BY <1>a, <1>2, Zenon DEF BeginTarget, TargetPing
  <2> QED
    BY <1>b, <2>1, <2>2, Zenon DEF Answer, Pinged
<1>3. CASE i = j /\ TargetAck(i) /\ UNCHANGED timing
  <2>1. /\ tpc[i] = "ack" /\ tpc'[i] = "gpio" /\ UNCHANGED mb_ping
        /\ mb_ping_ack' = Sent(mb_ping_ack, PingAckSize, i)
    BY <1>a, <1>3, Zenon DEF TargetAck
  <2>2. Pinged(i) /\ ~Pinged(i)' /\ mb_ping'[i] = <<>>
    BY <2>1, Zenon DEF Answer, Pinged
  <2>3. /\ Places(mb_ping_ack, i) = {} => One(Places(mb_ping_ack', i))
        /\ One(Places(mb_ping_ack, i)) => Two(Places(mb_ping_ack', i))
    BY <1>a, <2>1, PlacesSent, Zenon
  <2> QED
    BY <1>b, <2>1, <2>2, <2>3, Zenon DEF Answer
<1>4. CASE i = j /\ TargetGpio(i) /\ UNCHANGED timing
  <2>1. tpc[i] = "gpio" /\ tpc'[i] = "idle" /\ UNCHANGED <<mb_ping, mb_ping_ack, due_target>>
    BY <1>a, <1>4, Zenon DEF TargetGpio, timing
  <2> QED
    BY <1>b, <2>1, Zenon DEF Answer, Pinged
<1> QED
  BY <1>1, <1>2, <1>3, <1>4, Zenon DEF MachineStep, TargetStep

LEMMA NextAnswer == IInv /\ OneReport /\ AnswerInv /\ [TimedNext]_timedVars => AnswerInv'
<1> SUFFICES ASSUME IInv, OneReport, AnswerInv, [TimedNext]_timedVars, NEW i \in Targets
             PROVE  Answer(i)'
  BY NextServed, Zenon DEF AnswerInv
<1>0. Answer(i)
  BY Zenon DEF AnswerInv
<1>a. ASSUME SameReport, SameMachines, UNCHANGED <<mb_ping, mb_ping_ack>> PROVE Answer(i)'
  BY <1>0, <1>a, Zenon DEF Answer, Pinged, Unpinged, Undrained, SameReport, SameMachines
<1>1. CASE AnyTick
  BY <1>0, <1>1, TickAnswer, Zenon
<1>2. CASE CommandStep
  BY <1>2, <1>a, CommandFrame, Zenon
<1>3. CASE ReportStep
  BY <1>0, <1>3, PingAnswer, Zenon
<1>4. ASSUME NEW j \in Targets, MachineStep(j) PROVE Answer(i)'
  BY <1>0, <1>4, MachineAnswer, Zenon
<1>5. CASE UNCHANGED timedVars
  BY <1>a, <1>5, Zenon DEF timedVars, timing, vars, spsVars, targetVars, mailboxes, SameReport, SameMachines
<1> QED
  BY <1>1, <1>2, <1>3, <1>4, <1>5, StepKinds, Zenon

-----------------------------------------------------------------------------
\* Everything the timed application keeps to.
TimedInv == IInv /\ TimingType /\ OneCommand /\ LineInv /\ OneReport /\ DisplayInv /\ AnswerInv

LEMMA InitTimed == TimedInit => TimedInv
<1> SUFFICES ASSUME TimedInit PROVE TimedInv
  BY Zenon
<1>1. Init /\ due = {} /\ due_target = {} /\ served = {} /\ pings = 0
  BY Zenon DEF TimedInit
<1>2. IInv
  BY <1>1, InitIInv, Zenon
<1>3. /\ pc["host_action"] = "idle" /\ pc["host_irq_out"] = "idle" /\ pc["sps_irq_in"] = "idle"
      /\ pc["sps_ping"] = "idle" /\ pc["sps_irq_out"] = "idle"
      /\ irq_in = <<>> /\ irq_out = <<>> /\ mb_ping_irq = <<>> /\ mb_ping_ack = <<>>
  BY <1>1, ThreadNames, Zenon DEF Init
<1>4. TimingType
  BY <1>1, Zenon DEF TimingType
<1>5. OneCommand /\ OneReport
  BY <1>1, <1>3, Zenon DEF OneCommand, CommandAtHost, CommandSent, CommandTaken, OneReport, ReportDue,
     ReportMailed, ReportTaken, ReportSent, ReportRead
<1>6. ASSUME NEW i \in Targets PROVE Line(i) /\ Display(i) /\ Answer(i)
  <2>1. /\ host_targets[i] = SPS_OFF /\ sps_targets[i] = SPS_OFF /\ status[i] = SPS_OFF
        /\ mb_ping[i] = <<>> /\ gpio[i] = <<>> /\ tpc[i] = "idle"
    BY <1>1, Zenon DEF Init
  <2>2. Line(i)
    BY <1>1, <1>3, <2>1, Zenon DEF Line, Recorded
  <2>3. Display(i)
    BY <1>3, <2>1 DEF Display, InFlight, CommandSent, SPS_OFF, SPS_ON
  <2>4. Places(mb_ping_ack, i) = {}
    BY <1>3 DEF Places
  <2>5. Answer(i)
    BY <2>1, <2>4, Zenon DEF Answer, Pinged, One, Two
  <2> QED
    BY <2>2, <2>3, <2>5, Zenon
<1> QED
  BY <1>1, <1>2, <1>3, <1>4, <1>5, <1>6, Zenon DEF TimedInv, LineInv, DisplayInv, AnswerInv

LEMMA NextTimed == TimedInv /\ [TimedNext]_timedVars => TimedInv'
<1> SUFFICES ASSUME TimedInv, [TimedNext]_timedVars PROVE TimedInv'
  BY Zenon
<1>1. IInv'
  BY TimedStep, NextIInv, Zenon DEF TimedInv
<1> QED
  BY <1>1, NextTiming, NextOneCommand, NextLine, NextOneReport, NextDisplay, NextAnswer, Zenon DEF TimedInv

\* The inductive invariant of the application under its periods.
THEOREM TimedInvariance == TimedSpec => []TimedInv
BY InitTimed, NextTimed, PTL DEF TimedSpec

\* Under the periods no command to a machine is lost on a full power line: a
\* machine that has read its line is off exactly when sps->targets says so.
THEOREM LinesAgree == TimedSpec => []PowerLineAgrees
<1>1. TimedInv => PowerLineAgrees
  <2> SUFFICES ASSUME TimedInv, Settled, NEW i \in Targets, gpio[i] = <<>>
               PROVE  status[i] = SPS_OFF <=> sps_targets[i] = SPS_OFF
    BY Zenon DEF PowerLineAgrees
  <2>1. pc["sps_irq_in"] = "idle"
    BY SettledIdle, Zenon
  <2> QED
    BY <2>1, Zenon DEF TimedInv, LineInv, Line, Recorded
<1> QED
  BY <1>1, TimedInvariance, PTL

\* Between the releases the host displays as on only machines the SPS has on
\* record as running.
THEOREM DisplayIsTrue == TimedSpec => []DisplayedOnIsOn
<1>1. TimedInv => DisplayedOnIsOn
  <2> SUFFICES ASSUME TimedInv, Settled, NEW i \in Targets, host_targets[i] = SPS_ON
               PROVE  sps_targets[i] = SPS_ON
    BY Zenon DEF DisplayedOnIsOn
  <2>1. ~InFlight(i) /\ ~ReportedDown(i)
    BY SettledIdle, Zenon DEF InFlight, CommandSent, ReportedDown, ReportMailed, ReportTaken, ReportSent, ReportRead
  <2>2. sps_targets[i] \in PowerStatus
    BY Zenon DEF TimedInv, IInv, TypeOK, StatusType
  <2> QED
    BY <2>1, <2>2, Zenon DEF TimedInv, DisplayInv, Display, PowerStatus
<1> QED
  BY <1>1, TimedInvariance, PTL

\* No machine has more than two answers waiting in mb_ping_ack.
THEOREM AnswersBounded == TimedSpec => []AckBacklog
<1>1. TimedInv => AckBacklog
  <2> SUFFICES ASSUME TimedInv, NEW i \in Targets PROVE Cardinality(Places(mb_ping_ack, i)) <= 2
    BY Zenon DEF AckBacklog, Places
  <2>1. Two(Places(mb_ping_ack, i))
    BY Zenon DEF TimedInv, AnswerInv, Answer
  <2> QED
    BY <2>1, AtMostTwo, Zenon DEF Two
<1> QED
  BY <1>1, TimedInvariance, PTL

-----------------------------------------------------------------------------
(***************************************************************************)
(* How long a frozen machine goes unnoticed (SpsVerdict).                  *)
(***************************************************************************)

\* An answer of machine i is waiting to be read.
Waiting(i) == Places(mb_ping_ack, i) # {}

\* The ping that the next evaluation counts for machine i is not yet sent.
Uncounted(i) ==
  \/ pc["sps_ping"] \in {"idle", "release"}
  \/ pc["sps_ping"] \in {"scan", "send"} /\ ping_i <= i

\* A frozen machine that n jobs have overlooked left n - 1 pings unanswered,
\* counted in targets_pong; at most one answer, from before it froze, is still
\* to be read, and then it has been overlooked once.
Overlooked(i) ==
  unnoticed[i] > 0 =>
    /\ status[i] = SPS_FROZEN /\ sps_targets[i] = SPS_ON
    /\ targets_pong[i] <= PongCount /\ unnoticed[i] <= PongCount + 1
    /\ Waiting(i) => unnoticed[i] = 1
    /\ pc["sps_ping"] \in {"take", "evaluate"} => ~Waiting(i)
    /\ Uncounted(i) => targets_pong[i] < PongCount
    /\ ~Waiting(i) /\ Uncounted(i) => unnoticed[i] <= targets_pong[i] + 2
    /\ ~Waiting(i) /\ ~Uncounted(i) => unnoticed[i] <= targets_pong[i] + 1

OverlookedInv == unnoticed \in [Targets -> Nat] /\ \A i \in Targets : Overlooked(i)

\* What Record does to the count of machine i.
LEMMA RecordedCount ==
  ASSUME OverlookedInv, Record, NEW i \in Targets
  PROVE  /\ unnoticed[i] \in Nat /\ unnoticed'[i] \in Nat /\ unnoticed' \in [Targets -> Nat]
         /\ unnoticed'[i] > 0 => status'[i] = SPS_FROZEN /\ sps_targets'[i] = SPS_ON
         /\ ~Evaluated => unnoticed'[i] \in {0, unnoticed[i]}
         /\ Evaluated => unnoticed'[i] \in {0, unnoticed[i] + 1}
BY SMTT(30) DEF OverlookedInv, Record

LEMMA PingOverlooked ==
  ASSUME TimedInv, OverlookedInv, Record, NEW i \in Targets, ReportStep
  PROVE  Overlooked(i)'
<1>a. /\ pc \in [Threads -> Labels] /\ ping_i \in 0 .. NumTargets /\ NumTargets \in Nat
      /\ i \in Int /\ 0 <= i /\ i < NumTargets
  BY SpsAssumption, SMTT(30) DEF TimedInv, IInv, TypeOK, ThreadType, Targets
<1>b. /\ mb_ping_ack \in Mailbox(Targets, PingAckSize) /\ targets_pong \in [Targets -> 0 .. PongRange - 1]
      /\ targets_pong[i] \in Nat /\ PongCount \in Nat \ {0} /\ PongRange \in Nat /\ PongCount < PongRange
  BY SpsAssumption, SMTT(30) DEF TimedInv, IInv, TypeOK, MailboxType, StatusType
<1>c. Overlooked(i)
  BY ZenonT(30) DEF OverlookedInv
<1>d. ASSUME ~Evaluated, targets_pong'[i] = targets_pong[i], Waiting(i)' <=> Waiting(i),
             Uncounted(i)' <=> Uncounted(i),
             pc'["sps_ping"] \in {"take", "evaluate"} /\ unnoticed[i] > 0 => ~Waiting(i)
      PROVE  Overlooked(i)'
  BY <1>b, <1>c, <1>d, RecordedCount, SMTT(30) DEF Overlooked
<1>1. CASE BeginPing
  <2>1. /\ pc["sps_ping"] = "idle" /\ pc'["sps_ping"] = "scan" /\ ping_i' = 0
        /\ UNCHANGED <<mb_ping_ack, targets_pong>>
    BY <1>1, <1>a, ThreadNames, Zenon DEF BeginPing, PingStart, Goto, mailboxes
  <2> QED
    BY <1>a, <1>d, <2>1, Zenon DEF Evaluated, Waiting, Uncounted
<1>2. CASE PingScan
  <2>1. UNCHANGED <<mb_ping_ack, targets_pong, sps_targets>> /\ pc["sps_ping"] = "scan"
    BY <1>2, Zenon DEF PingScan, mailboxes
  <2>2. \/ ping_i = NumTargets /\ pc'["sps_ping"] = "drain"
        \/ sps_targets[ping_i] = SPS_ON /\ pc'["sps_ping"] = "send" /\ ping_i' = ping_i
        \/ sps_targets[ping_i] # SPS_ON /\ pc'["sps_ping"] = "scan" /\ ping_i' = ping_i + 1
    BY <1>2, <1>a, ThreadNames, Zenon DEF PingScan, Goto
  <2>3. ~Evaluated /\ (Waiting(i)' <=> Waiting(i))
    BY <2>1, Zenon DEF Evaluated, Waiting
  <2>4. CASE sps_targets[i] = SPS_ON
    BY <1>a, <1>d, <2>1, <2>2, <2>3, <2>4, SMTT(30) DEF Uncounted
  <2>5. CASE sps_targets[i] # SPS_ON
    BY <2>1, <2>5, RecordedCount, Zenon DEF Overlooked
  <2> QED
    BY <2>4, <2>5, Zenon
<1>3. CASE PingSend
  <2>1. /\ pc["sps_ping"] = "send" /\ pc'["sps_ping"] = "scan" /\ ping_i' = ping_i + 1
        /\ targets_pong' = [targets_pong EXCEPT ![ping_i] = (targets_pong[ping_i] + 1) % PongRange]
        /\ UNCHANGED mb_ping_ack
    BY <1>3, <1>a, ThreadNames, Zenon DEF PingSend, Goto
  <2>2. ~Evaluated /\ (Waiting(i)' <=> Waiting(i))
    BY <2>1, Zenon DEF Evaluated, Waiting
  <2>3. CASE i # ping_i
    <3>1. targets_pong'[i] = targets_pong[i]
      BY <1>b, <2>1, <2>3, ZenonT(30)
    <3> QED
      BY <1>a, <1>d, <2>1, <2>2, <2>3, <3>1, SMTT(30) DEF Uncounted
  <2>4. CASE i = ping_i
    <3>1. Uncounted(i) /\ ~Uncounted(i)'
      BY <1>a, <2>1, <2>4, SMTT(30) DEF Uncounted
    <3>2. unnoticed[i] > 0 => targets_pong'[i] = targets_pong[i] + 1
      <4>1. targets_pong'[i] = (targets_pong[i] + 1) % PongRange
        BY <1>b, <2>1, <2>4, Zenon
      <4>2. unnoticed[i] > 0 => targets_pong[i] + 1 \in 0 .. PongRange - 1
        BY <1>b, <1>c, <3>1, SMTT(30) DEF Overlooked
      <4> QED
        BY <1>b, <4>1, <4>2, SMTT(30)
    <3>3. /\ pc'["sps_ping"] \notin {"take", "evaluate"}
          /\ unnoticed'[i] > 0 => unnoticed[i] > 0 /\ unnoticed'[i] = unnoticed[i]
      BY <2>1, <2>2, RecordedCount, SMTT(30)
    <3> QED
      BY <1>b, <1>c, <2>2, <3>1, <3>2, <3>3, RecordedCount, SMTT(30) DEF Overlooked
  <2> QED
    BY <2>3, <2>4, Zenon
<1>4. CASE PingDrain
  <2>1. pc["sps_ping"] = "drain" /\ UNCHANGED ping_i
    BY <1>4, Zenon DEF PingDrain
  <2>2. CASE mb_ping_ack = <<>>
    <3>1. /\ UNCHANGED <<mb_ping_ack, targets_pong>> /\ pc'["sps_ping"] = "take" /\ ~Waiting(i)
      BY <1>4, <1>a, <2>2, ThreadNames, SMTT(30) DEF PingDrain, Goto, Waiting, Places
    <3>2. Waiting(i)' <=> Waiting(i)
      BY <3>1, Zenon DEF Waiting
    <3> QED
      BY <1>d, <2>1, <3>1, <3>2, Zenon DEF Evaluated, Uncounted
  <2>3. CASE mb_ping_ack # <<>>
    <3>1. /\ mb_ping_ack' = Tail(mb_ping_ack) /\ UNCHANGED pc
          /\ targets_pong'[i] = IF i = Head(mb_ping_ack) THEN 0 ELSE targets_pong[i]
      BY <1>4, <2>3, Zenon DEF PingDrain
    <3>2. ~Evaluated /\ ~Uncounted(i) /\ ~Uncounted(i)'
      BY <2>1, <3>1, Zenon DEF Evaluated, Uncounted
    <3>3. /\ Waiting(i)' => Waiting(i)
          /\ i = Head(mb_ping_ack) => Waiting(i)
          /\ i # Head(mb_ping_ack) => (Waiting(i)' <=> Waiting(i))
      <4>1. /\ 1 \in 1 .. Len(mb_ping_ack) /\ Head(mb_ping_ack) = mb_ping_ack[1]
            /\ Len(mb_ping_ack) \in Nat /\ Len(Tail(mb_ping_ack)) = Len(mb_ping_ack) - 1
            /\ \A k \in 1 .. Len(mb_ping_ack) - 1 : Tail(mb_ping_ack)[k] = mb_ping_ack[k + 1]
        BY <1>b, <2>3, SMTT(30) DEF Mailbox
      <4>2. /\ \A k \in Places(Tail(mb_ping_ack), i) : k + 1 \in Places(mb_ping_ack, i)
            /\ i = Head(mb_ping_ack) => 1 \in Places(mb_ping_ack, i)
            /\ \A k \in Places(mb_ping_ack, i) : k # 1 => k - 1 \in Places(Tail(mb_ping_ack), i)
            /\ i # Head(mb_ping_ack) => 1 \notin Places(mb_ping_ack, i)
        BY <4>1, SMTT(30) DEF Places
      <4> QED
        BY <3>1, <4>2, Zenon DEF Waiting
    <3>4. CASE i # Head(mb_ping_ack)
      BY <1>d, <2>1, <3>1, <3>2, <3>3, <3>4, Zenon
    <3>5. CASE i = Head(mb_ping_ack)
      <4>1. targets_pong'[i] = 0 /\ pc'["sps_ping"] = "drain"
        BY <2>1, <3>1, <3>5, ZenonT(30)
      <4>2. unnoticed'[i] > 0 => unnoticed'[i] = 1
        BY <1>c, <3>2, <3>3, <3>5, RecordedCount, SMTT(30) DEF Overlooked
      <4> QED
        BY <1>b, <3>2, <4>1, <4>2, RecordedCount, SMTT(30) DEF Overlooked
    <3> QED
      BY <3>4, <3>5, Zenon
  <2> QED
    BY <2>2, <2>3, Zenon
<1>5. CASE PingTake
  <2>1. /\ pc["sps_ping"] = "take" /\ pc'["sps_ping"] = "evaluate"
        /\ UNCHANGED <<mb_ping_ack, targets_pong, ping_i>>
    BY <1>5, <1>a, ThreadNames, Zenon DEF PingTake, Goto, mailboxes
  <2> QED
    BY <1>c, <1>d, <2>1, Zenon DEF Evaluated, Waiting, Uncounted, Overlooked
<1>6. CASE PingEvaluate
  <2>1. /\ pc["sps_ping"] = "evaluate" /\ pc'["sps_ping"] = "release"
        /\ UNCHANGED <<mb_ping_ack, ping_i>>
        /\ sps_targets' = [j \in Targets |-> IF j \in Unresponsive THEN SPS_FROZEN ELSE sps_targets[j]]
        /\ targets_pong' = [j \in Targets |-> IF j \in Unresponsive THEN 0 ELSE targets_pong[j]]
    BY <1>6, <1>a, ThreadNames, Zenon DEF PingEvaluate, Goto
  <2>2. Evaluated /\ ~Uncounted(i) /\ Uncounted(i)' /\ (Waiting(i)' <=> Waiting(i))
    BY <2>1, ZenonT(30) DEF Evaluated, Uncounted, Waiting
  <2>3. CASE unnoticed'[i] > 0
    <3>1. unnoticed'[i] = unnoticed[i] + 1 /\ status'[i] = SPS_FROZEN /\ sps_targets'[i] = SPS_ON
      BY <2>2, <2>3, RecordedCount, SMTT(30)
    <3>2. i \notin Unresponsive /\ sps_targets[i] = SPS_ON /\ targets_pong'[i] = targets_pong[i]
      BY <2>1, <3>1, SMTT(30) DEF SPS_ON, SPS_FROZEN
    <3>3. targets_pong[i] < PongCount
      BY <1>b, <3>2, SMTT(30) DEF Unresponsive
    <3>4. unnoticed[i] > 0 => ~Waiting(i) /\ unnoticed[i] <= targets_pong[i] + 1
      BY <1>c, <2>1, <2>2, Zenon DEF Overlooked
    <3>5. unnoticed[i] \in Nat
      BY RecordedCount, Zenon
    <3> QED
      BY <1>b, <2>1, <2>2, <3>1, <3>2, <3>3, <3>4, <3>5, SMTT(30) DEF Overlooked
  <2> QED
    BY <2>3, Zenon DEF Overlooked
<1>7. CASE PingRelease
  <2>1. /\ pc["sps_ping"] = "release" /\ pc'["sps_ping"] = "idle"
        /\ UNCHANGED <<mb_ping_ack, targets_pong, ping_i>>
    BY <1>7, <1>a, ThreadNames, Zenon DEF PingRelease, Goto, mailboxes
  <2> QED
    BY <1>d, <2>1, Zenon DEF Evaluated, Waiting, Uncounted
<1>8. CASE IrqOutRecv \/ IrqOutSend \/ FeedbackRecv \/ FeedbackTake \/ FeedbackUpdate \/ FeedbackRelease
  <2>1. UNCHANGED <<mb_ping_ack, targets_pong, ping_i>> /\ pc'["sps_ping"] = pc["sps_ping"]
    BY <1>8, <1>a, ThreadNames, Zenon DEF IrqOutRecv, IrqOutSend, FeedbackRecv, FeedbackTake, FeedbackUpdate,
       FeedbackRelease, Goto, mailboxes, spsVars
  <2> QED
    BY <1>c, <1>d, <2>1, Zenon DEF Evaluated, Waiting, Uncounted, Overlooked
<1> QED
  BY <1>1, <1>2, <1>3, <1>4, <1>5, <1>6, <1>7, <1>8, Zenon DEF ReportStep

LEMMA NextOverlooked ==
  TimedInv /\ OverlookedInv /\ [VerdictNext]_verdictVars => OverlookedInv'
<1> SUFFICES ASSUME TimedInv, OverlookedInv, [VerdictNext]_verdictVars PROVE OverlookedInv'
  BY Zenon
<1>1. CASE UNCHANGED verdictVars
  BY <1>1, Zenon DEF verdictVars, timedVars, vars, spsVars, targetVars, mailboxes, history, OverlookedInv,
     Overlooked, Waiting, Uncounted
<1>2. CASE VerdictNext
  <2>1. Record /\ [TimedNext]_timedVars
    BY <1>2, Zenon DEF VerdictNext
  <2>2. unnoticed' \in [Targets -> Nat]
    BY <2>1, SMTT(30) DEF Record, OverlookedInv
  <2>3. ASSUME NEW i \in Targets PROVE Overlooked(i)'
    <3>1. Overlooked(i)
      BY ZenonT(30) DEF OverlookedInv
    <3>2. ASSUME UNCHANGED <<targets_pong, ping_i>>, pc'["sps_ping"] = pc["sps_ping"],
                 status'[i] = SPS_FROZEN => (Waiting(i)' <=> Waiting(i))
          PROVE  Overlooked(i)'
      BY <2>1, <3>1, <3>2, RecordedCount, SMTT(30) DEF Overlooked, Evaluated, Uncounted
    <3>3. CASE AnyTick
      BY <3>2, <3>3, Zenon DEF AnyTick, Tick, vars, spsVars, mailboxes, Waiting
    <3>4. CASE CommandStep
      BY <3>2, <3>4, CommandFrame, Zenon DEF SameReport, Waiting, TimedInv
    <3>5. CASE ReportStep
      BY <2>1, <3>5, PingOverlooked, Zenon
    <3>6. ASSUME NEW j \in Targets, MachineStep(j) PROVE Overlooked(i)'
      <4>1. UNCHANGED <<targets_pong, ping_i>> /\ pc'["sps_ping"] = pc["sps_ping"]
        BY <3>6, MachineFrame, Zenon DEF SameReport
      <4>2. status'[i] = SPS_FROZEN => (Waiting(i)' <=> Waiting(i))
        <5>1. mb_ping_ack \in Mailbox(Targets, PingAckSize) /\ Answer(i)
          BY Zenon DEF TimedInv, IInv, TypeOK, MailboxType, AnswerInv
        <5>2. \/ mb_ping_ack' = mb_ping_ack
              \/ /\ mb_ping_ack' = Sent(mb_ping_ack, PingAckSize, j)
                 /\ tpc[j] = "ack" /\ UNCHANGED status
          BY <3>6, Zenon DEF MachineStep, BeginTarget, TargetStep, TargetPing, TargetAck, TargetGpio
        <5>3. CASE mb_ping_ack' = mb_ping_ack
          BY <5>3, Zenon DEF Waiting
        <5>4. CASE /\ mb_ping_ack' = Sent(mb_ping_ack, PingAckSize, j)
                   /\ tpc[j] = "ack" /\ UNCHANGED status
          <6>1. SPS_ON # SPS_FROZEN
            BY SMTT(30) DEF SPS_ON, SPS_FROZEN
          <6>2. status'[i] = SPS_FROZEN => i # j
            BY <5>1, <5>4, <6>1, Zenon DEF Answer
          <6>3. i # j => Places(mb_ping_ack', i) = Places(mb_ping_ack, i)
            BY <5>1, <5>4, PlacesSent, Zenon
          <6> QED
            BY <6>2, <6>3, Zenon DEF Waiting
        <5> QED
          BY <5>2, <5>3, <5>4, Zenon
      <4> QED
        BY <3>2, <4>1, <4>2, Zenon
    <3>7. CASE UNCHANGED timedVars
      BY <3>2, <3>7, Zenon DEF timedVars, vars, spsVars, mailboxes, Waiting
    <3> QED
      BY <2>1, <3>3, <3>4, <3>5, <3>6, <3>7, StepKinds, Zenon
  <2> QED
    BY <2>2, <2>3, Zenon DEF OverlookedInv
<1> QED
  BY <1>1, <1>2, Zenon

\* ping_thread overlooks a frozen machine in at most PongCount + 1 jobs.
THEOREM FreezeIsNoticed == VerdictSpec => []DetectionBound
<1>1. VerdictInit => TimedInv /\ OverlookedInv
  BY InitTimed, SMTT(30) DEF VerdictInit, OverlookedInv, Overlooked
<1>2. [VerdictNext]_verdictVars => [TimedNext]_timedVars
  BY Zenon DEF VerdictNext, verdictVars
<1>3. TimedInv /\ OverlookedInv /\ [VerdictNext]_verdictVars => TimedInv' /\ OverlookedInv'
  BY <1>2, NextTimed, NextOverlooked, Zenon
<1>4. OverlookedInv => DetectionBound
  BY SpsAssumption, SMTT(30) DEF OverlookedInv, Overlooked, DetectionBound
<1> QED
  BY <1>1, <1>3, <1>4, PTL DEF VerdictSpec

-----------------------------------------------------------------------------
(***************************************************************************)
(* Running machines are not given up (CleanVerdictIsTrue).                 *)
(***************************************************************************)

\* The pings of machine i that are counted, from a counter of 0 on.  The
\* first one may find the machine off, which then reads its line before the
\* next ping is due; the answer to one more may be read late, but then it is
\* there when the next job reads the answers.
Counted(i) ==
  /\ status[i] = SPS_OFF =>
       \/ targets_pong[i] = 0
       \/ targets_pong[i] = 1 /\ ~Unpinged(i) /\ (i \notin served \/ i \in due_target \/ tpc[i] # "idle")
  /\ status[i] = SPS_ON =>
       \/ targets_pong[i] <= 1
       \/ targets_pong[i] <= 2 /\ (Pinged(i) \/ Waiting(i))
       \/ targets_pong[i] <= 3 /\ Waiting(i) /\ Undrained(i)

\* Machine i is on record as on and is not about to be recorded as off.
On(i) == sps_targets[i] = SPS_ON /\ Recorded(i) = SPS_ON

CleanInv == \A i \in Targets : clean[i] /\ On(i) => Counted(i)

\* A machine comes on record as on with a counter of 0, or was so before.
LEMMA StaysOn ==
  ASSUME IInv, OneCommand, Record, [TimedNext]_timedVars, NEW i \in Targets, clean'[i], On(i)'
  PROVE  targets_pong'[i] = 0 \/ (clean[i] /\ On(i))
<1>a. /\ pc \in [Threads -> Labels] /\ mail \in [Threads -> StatusWord]
      /\ sps_targets \in [Targets -> PowerStatus]
  BY Zenon DEF IInv, TypeOK, ThreadType, StatusType
<1>b. SPS_ON # SPS_OFF /\ SPS_ON # SPS_FROZEN
  BY SMTT(30) DEF SPS_ON, SPS_OFF, SPS_FROZEN
<1>c. sps_targets'[i] = SPS_ON /\ Recorded(i)' = SPS_ON
  BY Zenon DEF On
<1>1. CASE sps_targets'[i] = sps_targets[i]
  <2>1. clean[i]
    BY <1>1, <1>b, <1>c, Zenon DEF Record
  <2>2. ASSUME pc["sps_irq_in"] = "record", irq_i = i PROVE FALSE
    <3>1. NewTarget # SPS_ON
      BY <1>1, <1>b, <1>c, <2>2, Zenon DEF IInv, Pending
    <3>2. CASE IrqInRecord
      BY <1>a, <1>c, <2>2, <3>1, <3>2, Zenon DEF IrqInRecord
    <3>3. CASE ~IrqInRecord
      <4>1. /\ UNCHANGED irq_i /\ pc'["sps_irq_in"] = pc["sps_irq_in"]
            /\ mail'["sps_irq_in"] = mail["sps_irq_in"]
        <5>1. CASE AnyTick \/ UNCHANGED timedVars
          BY <5>1, Zenon DEF AnyTick, Tick, timedVars, vars, spsVars
        <5>2. CASE CommandStep
          BY <1>a, <2>2, <3>3, <5>2, ThreadNames, Zenon DEF CommandStep, BeginAction, ActionTake, ActionToggle,
             ActionRelease, ActionSend, IrqInRecv, IrqInTake, IrqInDrive, IrqInRelease, Goto, spsVars
        <5>3. CASE ReportStep
          BY <5>3, ReportFrame, Zenon DEF SameCommand
        <5>4. ASSUME NEW j \in Targets, MachineStep(j)
              PROVE  /\ UNCHANGED irq_i /\ pc'["sps_irq_in"] = pc["sps_irq_in"]
                     /\ mail'["sps_irq_in"] = mail["sps_irq_in"]
          BY <5>4, MachineFrame, Zenon DEF SameCommand
        <5> QED
          BY <5>1, <5>2, <5>3, <5>4, StepKinds, Zenon
      <4> QED
        BY <1>c, <2>2, <3>1, <4>1, Zenon DEF Recorded, NewTarget
    <3> QED
      BY <3>2, <3>3, Zenon
  <2> QED
    BY <1>1, <1>c, <2>1, <2>2, Zenon DEF On, Recorded
<1>2. CASE sps_targets'[i] # sps_targets[i]
  <2>1. IrqInRecord \/ PingEvaluate
    BY <1>2, TimedStep, Zenon DEF Next, HostStep, SpsStep, TargetStep, vars, spsVars, ActionTake, ActionToggle,
       ActionRelease, ActionSend, FeedbackRecv, FeedbackTake, FeedbackUpdate, FeedbackRelease, IrqInRecv,
       IrqInTake, IrqInDrive, IrqInRelease, IrqOutRecv, IrqOutSend, PingStart, PingScan, PingSend, PingDrain,
       PingTake, PingRelease, TargetPing, TargetAck, TargetGpio
  <2>2. ~PingEvaluate
    BY <1>2, <1>b, <1>c, Zenon DEF PingEvaluate
  <2>3. IrqInRecord
    BY <2>1, <2>2, Zenon
  <2>4. irq_i = i /\ NewTarget = SPS_ON /\ pc["sps_irq_in"] = "record" /\ targets_pong' = targets_pong
    BY <1>2, <1>a, <1>c, <2>3, Zenon DEF IrqInRecord
  <2>5. sps_targets[i] = SPS_OFF
    BY <2>4, Zenon DEF IInv, Pending
  <2>6. clean'[i] = (targets_pong[i] = 0)
    BY <1>c, <2>5, Zenon DEF Record
  <2> QED
    BY <2>4, <2>6, Zenon
<1> QED
  BY <1>1, <1>2, Zenon

\* A ping job is released only once a machine that was off has read its line.
LEMMA TickCounted ==
  ASSUME NEW i \in Targets, Counted(i), AnyTick
  PROVE  Counted(i)'
<1>1. PICK jobs \in SUBSET Jobs, machines \in SUBSET Targets : Settled /\ Tick(jobs, machines)
  BY Zenon DEF AnyTick
<1>2. /\ UNCHANGED <<targets_pong, mb_ping, mb_ping_ack, status, tpc, pc, ping_i>>
      /\ due' = jobs /\ due_target' = machines
  BY <1>1, Zenon DEF Tick, vars, spsVars, targetVars, mailboxes
<1>3. pc["sps_ping"] = "idle" /\ i \notin due_target /\ tpc[i] = "idle" /\ "sps_ping" \notin due
  BY <1>1, SettledIdle, Zenon
<1>4. /\ "sps_ping" \in jobs => served = Targets
      /\ "sps_ping" \notin jobs => served' = served \cup machines
  BY <1>1, Zenon DEF Tick
<1>5. ~Undrained(i) /\ (Unpinged(i)' => "sps_ping" \in jobs)
  BY <1>2, <1>3, Zenon DEF Undrained, Unpinged
<1> QED
  BY <1>2, <1>3, <1>4, <1>5, Zenon DEF Counted, Pinged, Waiting

\* An answer that is read clears the counter.
LEMMA ClearedCounted ==
  ASSUME NEW i, targets_pong'[i] = 0
  PROVE  Counted(i)'
<1>1. targets_pong'[i] <= 1
  BY SMTT(30)
<1> QED
  BY <1>1, Zenon DEF Counted

\* A ping is one more in the counter; with an answer waiting, reading the
\* answers ends it.
LEMMA PingCounted ==
  ASSUME TimedInv, NEW i \in Targets, Counted(i), On(i), On(i)', ReportStep, 3 <= PongCount
  PROVE  Counted(i)'
<1>a. /\ pc \in [Threads -> Labels] /\ ping_i \in 0 .. NumTargets /\ NumTargets \in Nat
      /\ i \in Int /\ 0 <= i /\ i < NumTargets
  BY SpsAssumption, SMTT(30) DEF TimedInv, IInv, TypeOK, ThreadType, Targets
<1>b. /\ mb_ping_ack \in Mailbox(Targets, PingAckSize) /\ mb_ping \in [Targets -> Mailbox({1}, 1)]
      /\ targets_pong \in [Targets -> 0 .. PongRange - 1] /\ targets_pong[i] \in Nat
      /\ PongRange \in Nat /\ 3 < PongRange
  BY SpsAssumption, SMTT(30) DEF TimedInv, IInv, TypeOK, MailboxType, StatusType
<1>c. UNCHANGED <<status, tpc, due_target, served>>
  BY ReportFrame, Zenon DEF SameMachines, TimedInv
<1>d. /\ pc["sps_ping"] # "idle" => "sps_ping" \notin due /\ served = {}
      /\ Answer(i) /\ sps_targets[i] = SPS_ON /\ sps_targets'[i] = SPS_ON
  BY Zenon DEF TimedInv, OneReport, AnswerInv, On
<1>e. ASSUME targets_pong'[i] = targets_pong[i], mb_ping'[i] = mb_ping[i], UNCHANGED mb_ping_ack,
             Unpinged(i)' => Unpinged(i), Undrained(i) => Undrained(i)'
      PROVE  Counted(i)'
  BY <1>c, <1>e, Zenon DEF Counted, Pinged, Waiting
<1>1. CASE BeginPing
  <2>1. /\ UNCHANGED <<targets_pong, mb_ping, mb_ping_ack>> /\ "sps_ping" \in due /\ pc["sps_ping"] = "idle"
    BY <1>1, ZenonT(30) DEF BeginPing, PingStart, mailboxes
  <2> QED
    BY <1>e, <2>1, Zenon DEF Unpinged, Undrained
<1>2. CASE PingScan /\ UNCHANGED timing
  <2>1. UNCHANGED <<targets_pong, mb_ping, mb_ping_ack, due>> /\ pc["sps_ping"] = "scan"
    BY <1>2, Zenon DEF PingScan, mailboxes, timing
  <2>2. \/ pc'["sps_ping"] = "drain"
        \/ pc'["sps_ping"] \in {"scan", "send"} /\ ping_i' \in {ping_i, ping_i + 1}
    BY <1>2, <1>a, ThreadNames, Zenon DEF PingScan, Goto
  <2> QED
    BY <1>a, <1>d, <1>e, <2>1, <2>2, SMTT(30) DEF Unpinged, Undrained
<1>3. CASE PingSend /\ UNCHANGED timing
  <2>1. /\ pc["sps_ping"] = "send" /\ pc'["sps_ping"] = "scan" /\ ping_i' = ping_i + 1
        /\ targets_pong' = [targets_pong EXCEPT ![ping_i] = (targets_pong[ping_i] + 1) % PongRange]
        /\ mb_ping' = [mb_ping EXCEPT ![ping_i] = Sent(mb_ping[ping_i], 1, 1)]
        /\ UNCHANGED <<mb_ping_ack, due>> /\ "sps_ping" \notin due
    BY <1>3, <1>a, <1>d, ThreadNames, Zenon DEF PingSend, Goto, timing
  <2>2. CASE i # ping_i
    <3>1. mb_ping'[i] = mb_ping[i] /\ targets_pong'[i] = targets_pong[i]
      BY <1>b, <2>1, <2>2, Zenon
    <3> QED
      BY <1>a, <1>e, <2>1, <3>1, SMTT(30) DEF Unpinged, Undrained
  <2>3. CASE i = ping_i
    <3>1. Unpinged(i) /\ ~Undrained(i) /\ ~Unpinged(i)' /\ Undrained(i)'
      BY <1>a, <2>1, <2>3, SMTT(30) DEF Unpinged, Undrained
    <3>2. ~Pinged(i) /\ i \notin served'
      BY <1>c, <1>d, <2>1, <3>1, Zenon DEF Answer
    <3>3. Pinged(i)'
      <4>1. mb_ping'[i] = Sent(<<>>, 1, 1)
        BY <1>b, <2>1, <2>3, <3>2, Zenon DEF Pinged
      <4>2. mb_ping'[i] # <<>>
        BY <4>1, SentToEmpty, SMTT(30)
      <4> QED
        BY <4>2, Zenon DEF Pinged
    <3>4. /\ status[i] = SPS_OFF => targets_pong[i] = 0
          /\ status[i] = SPS_ON => targets_pong[i] <= 1 \/ (targets_pong[i] <= 2 /\ Waiting(i))
      BY <3>1, <3>2, Zenon DEF Counted
    <3>5. targets_pong[i] <= 2 => targets_pong'[i] = targets_pong[i] + 1
      <4>1. targets_pong'[i] = (targets_pong[i] + 1) % PongRange
        BY <1>b, <2>1, <2>3, Zenon
      <4>2. targets_pong[i] <= 2 => targets_pong[i] + 1 \in 0 .. PongRange - 1
        BY <1>b, SMTT(30)
      <4> QED
        BY <1>b, <4>1, <4>2, SMTT(30)
    <3>6. Waiting(i)' <=> Waiting(i)
      BY <2>1, Zenon DEF Waiting
    <3>7. status[i] = SPS_OFF => targets_pong'[i] = 1
      BY <3>4, <3>5, SMTT(30)
    <3>8. status[i] = SPS_ON => targets_pong'[i] <= 2 \/ (targets_pong'[i] <= 3 /\ Waiting(i))
      BY <1>b, <3>4, <3>5, SMTT(30)
    <3> QED
      BY <1>c, <3>1, <3>2, <3>3, <3>6, <3>7, <3>8, Zenon DEF Counted
  <2> QED
    BY <2>2, <2>3, Zenon
<1>4. CASE PingDrain /\ UNCHANGED timing
  <2>1. pc["sps_ping"] = "drain" /\ UNCHANGED <<mb_ping, due, ping_i>> /\ "sps_ping" \notin due
    BY <1>4, <1>d, Zenon DEF PingDrain, timing
  <2>2. CASE mb_ping_ack = <<>>
    <3>1. UNCHANGED <<mb_ping_ack, targets_pong>> /\ pc'["sps_ping"] = "take"
      BY <1>4, <1>a, <2>2, ThreadNames, Zenon DEF PingDrain, Goto
    <3>2. ~Waiting(i) /\ ~Unpinged(i)'
      BY <2>1, <2>2, <3>1, SMTT(30) DEF Waiting, Places, Unpinged
    <3> QED
      BY <1>c, <2>1, <3>1, <3>2, Zenon DEF Counted, Pinged
  <2>3. CASE mb_ping_ack # <<>>
    <3>1. /\ mb_ping_ack' = Tail(mb_ping_ack) /\ UNCHANGED pc
          /\ targets_pong'[i] = IF i = Head(mb_ping_ack) THEN 0 ELSE targets_pong[i]
      BY <1>4, <2>3, Zenon DEF PingDrain
    <3>2. (Undrained(i)' <=> Undrained(i)) /\ (Unpinged(i)' <=> Unpinged(i))
      BY <2>1, <3>1, Zenon DEF Undrained, Unpinged
    <3>3. CASE i = Head(mb_ping_ack)
      BY <3>1, <3>3, ClearedCounted, Zenon
    <3>4. CASE i # Head(mb_ping_ack)
      <4>1. Waiting(i) => Waiting(i)'
        <5>1. /\ Head(mb_ping_ack) = mb_ping_ack[1] /\ Len(mb_ping_ack) \in Nat
              /\ Len(Tail(mb_ping_ack)) = Len(mb_ping_ack) - 1
              /\ \A k \in 1 .. Len(mb_ping_ack) - 1 : Tail(mb_ping_ack)[k] = mb_ping_ack[k + 1]
          BY <1>b, <2>3, SMTT(30) DEF Mailbox
        <5>2. \A k \in Places(mb_ping_ack, i) : k - 1 \in Places(Tail(mb_ping_ack), i)
          BY <3>4, <5>1, SMTT(30) DEF Places
        <5> QED
          BY <3>1, <5>2, Zenon DEF Waiting
      <4> QED
        BY <1>c, <2>1, <3>1, <3>2, <3>4, <4>1, Zenon DEF Counted, Pinged
    <3> QED
      BY <3>3, <3>4, Zenon
  <2> QED
    BY <2>2, <2>3, Zenon
<1>5. CASE (PingTake \/ PingEvaluate \/ PingRelease) /\ UNCHANGED timing
  <2>1. /\ UNCHANGED <<mb_ping, mb_ping_ack, due, ping_i>>
        /\ pc["sps_ping"] \in {"take", "evaluate", "release"}
        /\ pc'["sps_ping"] \in {"evaluate", "release", "idle"}
    BY <1>5, <1>a, ThreadNames, Zenon DEF PingTake, PingEvaluate, PingRelease, Goto, mailboxes, timing
  <2>2. targets_pong'[i] = targets_pong[i]
    <3>1. SPS_ON # SPS_FROZEN
      BY SMTT(30) DEF SPS_ON, SPS_FROZEN
    <3>2. CASE PingEvaluate
      BY <1>d, <3>1, <3>2, Zenon DEF PingEvaluate
    <3>3. CASE ~PingEvaluate
      BY <1>5, <3>3, Zenon DEF PingTake, PingRelease
    <3> QED
      BY <3>2, <3>3, Zenon
  <2> QED
    BY <1>e, <2>1, <2>2, Zenon DEF Unpinged, Undrained
<1>6. CASE /\ IrqOutRecv \/ IrqOutSend \/ FeedbackRecv \/ FeedbackTake \/ FeedbackUpdate \/ FeedbackRelease
           /\ UNCHANGED timing
  <2>1. UNCHANGED <<targets_pong, mb_ping, mb_ping_ack, due, ping_i>> /\ pc'["sps_ping"] = pc["sps_ping"]
    BY <1>6, <1>a, ThreadNames, Zenon DEF IrqOutRecv, IrqOutSend, FeedbackRecv, FeedbackTake, FeedbackUpdate,
       FeedbackRelease, Goto, mailboxes, spsVars, timing
  <2> QED
    BY <1>e, <2>1, Zenon DEF Unpinged, Undrained
<1> QED
  BY <1>1, <1>2, <1>3, <1>4, <1>5, <1>6, Zenon DEF ReportStep

\* mb_ping_ack takes an answer that is about to be sent.
Room == \A j \in Targets : tpc[j] = "ack" => Len(mb_ping_ack) < PingAckSize

\* A machine comes up by its line, and its answer to a ping is taken.
LEMMA MachineCounted ==
  ASSUME TimedInv, Room, NEW i \in Targets, Counted(i), On(i), NEW j \in Targets, MachineStep(j)
  PROVE  Counted(i)'
<1>a. /\ tpc \in [Targets -> {"idle", "ack", "gpio"}] /\ status \in [Targets -> PowerStatus]
      /\ mb_ping \in [Targets -> Mailbox({1}, 1)] /\ mb_ping_ack \in Mailbox(Targets, PingAckSize)
      /\ gpio \in [Targets -> Mailbox({SPS_OFF, SPS_ON}, 1)]
  BY Zenon DEF TimedInv, IInv, TypeOK, ThreadType, StatusType, MailboxType
<1>b. /\ (Unpinged(i)' <=> Unpinged(i)) /\ (Undrained(i)' <=> Undrained(i))
      /\ UNCHANGED <<served, targets_pong>>
  BY MachineFrame, Zenon DEF SameReport, Unpinged, Undrained
<1>c. Answer(i) /\ Line(i) /\ Recorded(i) = SPS_ON
  BY Zenon DEF TimedInv, AnswerInv, LineInv, On
<1>d. SPS_ON # SPS_OFF
  BY SMTT(30) DEF SPS_ON, SPS_OFF
<1>1. CASE i # j
  <2>1. /\ tpc'[i] = tpc[i] /\ status'[i] = status[i] /\ mb_ping'[i] = mb_ping[i]
        /\ i \in due_target' <=> i \in due_target
    BY <1>a, <1>1, Zenon DEF MachineStep, BeginTarget, TargetStep, TargetPing, TargetAck, TargetGpio, timing
  <2>2. Waiting(i)' <=> Waiting(i)
    <3>1. mb_ping_ack' = mb_ping_ack \/ mb_ping_ack' = Sent(mb_ping_ack, PingAckSize, j)
      BY Zenon DEF MachineStep, BeginTarget, TargetStep, TargetPing, TargetAck, TargetGpio
    <3>2. Places(mb_ping_ack', i) = Places(mb_ping_ack, i)
      BY <1>a, <1>1, <3>1, PlacesSent, SMTT(30)
    <3> QED
      BY <3>2, Zenon DEF Waiting
  <2> QED
    BY <1>b, <2>1, <2>2, Zenon DEF Counted, Pinged
<1>2. CASE i = j /\ BeginTarget(i)
  <2>1. UNCHANGED <<status, mb_ping_ack>> /\ tpc[i] = "idle" /\ tpc'[i] \in {"ack", "gpio"}
    BY <1>a, <1>2, Zenon DEF BeginTarget, TargetPing
  <2>2. status[i] = SPS_ON /\ mb_ping[i] # <<>> => tpc'[i] = "ack"
    <3>1. mb_ping[i] # <<>> => Head(mb_ping[i]) = 1
      BY <1>a, OneMail, SMTT(30)
    <3> QED
      BY <1>a, <1>2, <3>1, Zenon DEF BeginTarget, TargetPing
  <2>3. Waiting(i)' <=> Waiting(i)
    BY <2>1, Zenon DEF Waiting
  <2>4. status[i] = SPS_ON /\ Pinged(i) => Pinged(i)'
    BY <2>1, <2>2, Zenon DEF Pinged
  <2>5. tpc'[i] # "idle"
    BY <2>1, Zenon
  <2> QED
    BY <1>b, <2>1, <2>3, <2>4, <2>5, Zenon DEF Counted
<1>3. CASE i = j /\ TargetAck(i) /\ UNCHANGED timing
  <2>1. /\ tpc[i] = "ack" /\ UNCHANGED status /\ mb_ping_ack' = Sent(mb_ping_ack, PingAckSize, i)
    BY <1>3, Zenon DEF TargetAck
  <2>2. mb_ping_ack' = Append(mb_ping_ack, i)
    BY <2>1, Zenon DEF Room, Sent
  <2>3. Waiting(i)'
    <3>1. mb_ping_ack \in Seq(Targets)
      BY <1>a, Zenon DEF Mailbox
    <3>2. Len(mb_ping_ack) + 1 \in Places(Append(mb_ping_ack, i), i)
      BY <3>1, SMTT(30) DEF Places
    <3> QED
      BY <2>2, <3>2, Zenon DEF Waiting
  <2>4. status[i] = SPS_ON
    BY <1>c, <2>1, Zenon DEF Answer
  <2> QED
    BY <1>b, <1>d, <2>1, <2>3, <2>4, Zenon DEF Counted
<1>4. CASE i = j /\ TargetGpio(i) /\ UNCHANGED timing
  <2>1. /\ tpc[i] = "gpio" /\ tpc'[i] = "idle" /\ UNCHANGED <<mb_ping, mb_ping_ack, due_target>>
        /\ status'[i] \in NextStatus(status[i], gpio[i])
    BY <1>a, <1>4, Zenon DEF TargetGpio, timing
  <2>2. (Pinged(i)' <=> Pinged(i)) /\ (Waiting(i)' <=> Waiting(i))
    BY <2>1, Zenon DEF Pinged, Waiting
  <2>3. gpio[i] # <<>> => gpio[i] = <<SPS_ON>>
    <3>1. gpio[i] \in Seq({SPS_OFF, SPS_ON}) /\ Len(gpio[i]) <= 1
      BY <1>a, ZenonT(30) DEF Mailbox
    <3>2. gpio[i] # <<>> => Head(gpio[i]) \in {SPS_OFF, SPS_ON} /\ gpio[i] = <<Head(gpio[i])>>
      BY <3>1, SMTT(30)
    <3>3. gpio[i] # <<>> => Head(gpio[i]) # SPS_OFF
      BY <1>c, <1>d, Zenon DEF Line
    <3> QED
      BY <3>2, <3>3, Zenon
  <2>4. status[i] = SPS_OFF => gpio[i] = <<SPS_ON>>
    BY <1>c, <1>d, <2>3, Zenon DEF Line
  <2>5. CASE status[i] = SPS_OFF
    <3>1. status'[i] = SPS_ON
      BY <1>d, <2>1, <2>4, <2>5, SMTT(30) DEF NextStatus
    <3>2. targets_pong[i] = 0 \/ targets_pong[i] = 1
      BY <2>5, Zenon DEF Counted
    <3>3. targets_pong[i] <= 1
      BY <3>2, SMTT(30)
    <3> QED
      BY <1>b, <1>d, <3>1, <3>3, Zenon DEF Counted
  <2>6. CASE status[i] # SPS_OFF
    <3>0. /\ <<SPS_OFF>> # <<>> /\ Head(<<SPS_OFF>>) = SPS_OFF
          /\ SPS_OFF # SPS_FROZEN /\ SPS_ON # SPS_FROZEN
      BY SMTT(30) DEF SPS_OFF, SPS_ON, SPS_FROZEN
    <3>1. gpio[i] # <<SPS_OFF>>
      BY <1>c, <1>d, <3>0, Zenon DEF Line
    <3>2. /\ status'[i] # SPS_OFF
          /\ status'[i] = SPS_ON => status[i] = SPS_ON
      BY <1>d, <2>1, <2>6, <3>0, <3>1, Zenon DEF NextStatus
    <3> QED
      BY <1>b, <2>2, <3>2, Zenon DEF Counted
  <2> QED
    BY <2>5, <2>6, Zenon
<1> QED
  BY <1>1, <1>2, <1>3, <1>4, Zenon DEF MachineStep, TargetStep

\* Every step keeps CleanInv, if there is room for answers.
LEMMA NextClean ==
  ASSUME TimedInv, Room, CleanInv, [VerdictNext]_verdictVars, 3 <= PongCount
  PROVE  CleanInv'
<1>1. CASE UNCHANGED verdictVars
  BY <1>1, Zenon DEF verdictVars, timedVars, timing, vars, spsVars, targetVars, mailboxes, history, CleanInv,
     On, Recorded, NewTarget, Counted, Waiting, Pinged, Unpinged, Undrained
<1>2. CASE VerdictNext
  <2>1. Record /\ [TimedNext]_timedVars /\ IInv /\ OneCommand
    BY <1>2, Zenon DEF VerdictNext, TimedInv
  <2> SUFFICES ASSUME NEW i \in Targets, clean'[i], On(i)' PROVE Counted(i)'
    BY Zenon DEF CleanInv
  <2>2. CASE targets_pong'[i] = 0
    BY <2>2, ClearedCounted, Zenon
  <2>3. CASE clean[i] /\ On(i)
    <3>1. Counted(i) /\ On(i)
      BY <2>3, Zenon DEF CleanInv
    <3>2. ASSUME SameReport, SameMachines, UNCHANGED <<mb_ping, mb_ping_ack>> PROVE Counted(i)'
      BY <3>1, <3>2, Zenon DEF Counted, Pinged, Waiting, Unpinged, Undrained, SameReport, SameMachines
    <3>3. CASE AnyTick
      BY <3>1, <3>3, TickCounted, Zenon
    <3>4. CASE CommandStep
      BY <2>1, <3>2, <3>4, CommandFrame, Zenon
    <3>5. CASE ReportStep
      BY <3>1, <3>5, PingCounted, Zenon
    <3>6. ASSUME NEW j \in Targets, MachineStep(j) PROVE Counted(i)'
      BY <3>1, <3>6, MachineCounted, Zenon
    <3>7. CASE UNCHANGED timedVars
      BY <3>2, <3>7, Zenon DEF timedVars, timing, vars, spsVars, targetVars, mailboxes, SameReport, SameMachines
    <3> QED
      BY <2>1, <3>3, <3>4, <3>5, <3>6, <3>7, StepKinds, Zenon
  <2> QED
    BY <2>1, <2>2, <2>3, StaysOn, Zenon
<1> QED
  BY <1>1, <1>2, Zenon

LOCAL INSTANCE FiniteSetTheorems

\* With two places for every machine, mb_ping_ack has room for the answer of
\* a machine that has at most one in it.
LEMMA RoomForAnswer ==
  ASSUME NEW mb \in Seq(Targets), \A j \in Targets : Two(Places(mb, j)), NEW i \in Targets, One(Places(mb, i)),
         2 * NumTargets <= PingAckSize
  PROVE  Len(mb) < PingAckSize
<1>0. NumTargets \in Nat /\ NumTargets > 0 /\ PingAckSize \in Nat /\ Len(mb) \in Nat
  BY SpsAssumption, SMTT(30)
<1> DEFINE Again(k) == \E m \in 1 .. k - 1 : mb[m] = mb[k]
           Slots == (0 .. 2 * NumTargets - 1) \ {2 * i + 1}
           slot == [k \in 1 .. Len(mb) |-> IF Again(k) THEN 2 * mb[k] + 1 ELSE 2 * mb[k]]
<1>1. \A k \in 1 .. Len(mb) : mb[k] \in Int /\ 0 <= mb[k] /\ mb[k] <= NumTargets - 1 /\ mb[k] \in Targets
  BY <1>0, SMTT(30) DEF Targets
<1>2. \A k \in 1 .. Len(mb) : Again(k) => mb[k] # i
  <2> SUFFICES ASSUME NEW k \in 1 .. Len(mb), NEW m \in 1 .. k - 1, mb[m] = mb[k], mb[k] = i PROVE FALSE
    BY Zenon
  <2>1. k \in Places(mb, i) /\ m \in Places(mb, i) /\ m # k
    BY <1>0, SMTT(30) DEF Places
  <2> QED
    BY <2>1, Zenon DEF One
<1>3. \A a, b \in 1 .. Len(mb) : Again(a) /\ mb[a] = mb[b] => ~(a < b)
  <2> SUFFICES ASSUME NEW a \in 1 .. Len(mb), NEW b \in 1 .. Len(mb), NEW m \in 1 .. a - 1,
                      mb[m] = mb[a], mb[a] = mb[b], a < b
               PROVE  FALSE
    BY Zenon
  <2>1. /\ m \in Places(mb, mb[a]) /\ a \in Places(mb, mb[a]) /\ b \in Places(mb, mb[a])
        /\ m # a /\ a # b /\ m # b
    BY <1>0, SMTT(30) DEF Places
  <2> QED
    BY <1>1, <2>1, Zenon DEF Two
<1>4. \A a, b \in 1 .. Len(mb) : mb[a] = mb[b] /\ a < b => Again(b)
  BY <1>0, SMTT(30)
<1>5. \A a, b \in 1 .. Len(mb) : mb[a] = mb[b] /\ (Again(a) <=> Again(b)) => a = b
  <2> HIDE DEF Again
  <2> QED
    BY <1>0, <1>3, <1>4, SMTT(30)
<1>6. slot \in Injection(1 .. Len(mb), Slots)
  <2>1. ASSUME NEW k \in 1 .. Len(mb) PROVE slot[k] \in Slots
    <3> HIDE DEF Again
    <3>1. slot[k] = IF Again(k) THEN 2 * mb[k] + 1 ELSE 2 * mb[k]
      BY Zenon
    <3>2. i \in Int
      BY SMTT(30) DEF Targets
    <3> QED
      BY <1>0, <1>1, <1>2, <3>1, <3>2, SMTT(30)
  <2>2. ASSUME NEW a \in 1 .. Len(mb), NEW b \in 1 .. Len(mb), slot[a] = slot[b] PROVE a = b
    <3> HIDE DEF Again
    <3>1. /\ slot[a] = IF Again(a) THEN 2 * mb[a] + 1 ELSE 2 * mb[a]
          /\ slot[b] = IF Again(b) THEN 2 * mb[b] + 1 ELSE 2 * mb[b]
      BY Zenon
    <3>2. mb[a] = mb[b] /\ (Again(a) <=> Again(b))
      BY <1>1, <2>2, <3>1, SMTT(30)
    <3> QED
      BY <1>5, <3>2, Zenon
  <2>3. slot \in [1 .. Len(mb) -> Slots]
    <3>1. slot = [k \in 1 .. Len(mb) |-> slot[k]]
      BY ZenonT(30)
    <3> HIDE DEF slot, Slots
    <3> QED
      BY <2>1, <3>1, Zenon
  <2> HIDE DEF slot, Slots
  <2> QED
    BY <2>2, <2>3, Zenon DEF Injection, IsInjective
<1>7. IsFiniteSet(Slots) /\ Cardinality(Slots) = 2 * NumTargets - 1
  <2>1. IsFiniteSet(0 .. 2 * NumTargets - 1) /\ Cardinality(0 .. 2 * NumTargets - 1) = 2 * NumTargets
    BY <1>0, FS_Interval, SMTT(30)
  <2>2. 2 * i + 1 \in 0 .. 2 * NumTargets - 1
    BY <1>0, SMTT(30) DEF Targets
  <2> QED
    BY <2>1, <2>2, FS_RemoveElement, ZenonT(30)
<1>8. Cardinality(1 .. Len(mb)) = Len(mb)
  <2>1. ASSUME NEW n \in Nat PROVE Cardinality(1 .. n) = n
    <3>1. Cardinality(1 .. n) = IF 1 > n THEN 0 ELSE n - 1 + 1
      BY FS_Interval, SMTT(30)
    <3> QED
      BY <3>1, SMTT(30)
  <2> QED
    BY <1>0, <2>1, Zenon
<1>9. Cardinality(1 .. Len(mb)) <= Cardinality(Slots)
  <2> HIDE DEF slot, Slots
  <2> QED
    BY <1>6, <1>7, FS_Injection, SMTT(30)
<1> QED
  BY <1>0, <1>7, <1>8, <1>9, SMTT(30)

\* A machine that is on record as on since its counter was 0 is given up only
\* when it is frozen, if PongCount is 3 or more and mb_ping_ack has two places
\* for every machine.  The second is what the code's one place for every
\* machine lacks.
THEOREM RunningIsNotGivenUp ==
  ASSUME 3 <= PongCount, 2 * NumTargets <= PingAckSize
  PROVE  VerdictSpec => []CleanVerdictIsTrue
<1>1. VerdictInit => TimedInv /\ CleanInv
  <2> SUFFICES ASSUME VerdictInit PROVE TimedInv /\ CleanInv
    BY Zenon
  <2>1. TimedInv
    BY InitTimed, Zenon DEF VerdictInit
  <2>2. \A i \in Targets : targets_pong[i] = 0
    BY Zenon DEF VerdictInit, TimedInit, Init
  <2>3. \A i \in Targets : targets_pong[i] <= 1
    BY <2>2, SMTT(30)
  <2> QED
    BY <2>1, <2>2, <2>3, Zenon DEF CleanInv, Counted
<1>2. [VerdictNext]_verdictVars => [TimedNext]_timedVars
  BY Zenon DEF VerdictNext, verdictVars
<1>3. TimedInv => Room
  <2> SUFFICES ASSUME TimedInv, NEW j \in Targets, tpc[j] = "ack" PROVE Len(mb_ping_ack) < PingAckSize
    BY Zenon DEF Room
  <2>1. mb_ping_ack \in Seq(Targets)
    BY Zenon DEF TimedInv, IInv, TypeOK, MailboxType, Mailbox
  <2>2. One(Places(mb_ping_ack, j)) /\ \A i \in Targets : Two(Places(mb_ping_ack, i))
    BY Zenon DEF TimedInv, AnswerInv, Answer, Pinged
  <2> QED
    BY <2>1, <2>2, RoomForAnswer, Zenon
<1>4. TimedInv /\ CleanInv /\ [VerdictNext]_verdictVars => TimedInv' /\ CleanInv'
  BY <1>2, <1>3, NextTimed, NextClean, ZenonT(30)
<1>5. TimedInv /\ CleanInv => CleanVerdictIsTrue
  <2> SUFFICES ASSUME TimedInv, CleanInv, pc["sps_ping"] = "evaluate",
                      NEW i \in Unresponsive, clean[i]
               PROVE  status[i] = SPS_FROZEN
    BY Zenon DEF CleanVerdictIsTrue
  <2>1. /\ i \in Targets /\ sps_targets[i] = SPS_ON /\ PongCount <= targets_pong[i]
        /\ targets_pong[i] \in Nat /\ status[i] \in PowerStatus
    BY SpsAssumption, SMTT(30) DEF Unresponsive, TimedInv, IInv, TypeOK, StatusType
  <2>2. Recorded(i) = SPS_ON
    <3>1. pc["sps_irq_in"] # "record"
      BY SMTT(30) DEF TimedInv, IInv, TargetsGuarded, InSpsSection
    <3> QED
      BY <2>1, <3>1, Zenon DEF Recorded
  <2>3. Counted(i)
    BY <2>1, <2>2, Zenon DEF CleanInv, On
  <2>4. ~Undrained(i)
    BY Zenon DEF Undrained
  <2>5. ~(targets_pong[i] <= 2) /\ targets_pong[i] # 0 /\ targets_pong[i] # 1 /\ ~(targets_pong[i] <= 1)
    BY <2>1, SpsAssumption, SMTT(30)
  <2>6. status[i] # SPS_OFF /\ status[i] # SPS_ON
    BY <2>3, <2>4, <2>5, Zenon DEF Counted
  <2> QED
    BY <2>1, <2>6, Zenon DEF PowerStatus
<1> QED
  BY <1>1, <1>4, <1>5, PTL DEF VerdictSpec

=============================================================================
