-------------------------------- MODULE Sps --------------------------------
(***************************************************************************)
(* The smart power switch application: host, SPS and the target machines   *)
(* (src/applications).  Nine threads run on a two-core RT-Thread kernel    *)
(* and talk through mailboxes:                                             *)
(*                                                                         *)
(*   host_action   periodic   toggles machines, mails the command to SPS   *)
(*   host_irq_out  handler    marks machines the SPS reports as down       *)
(*   sps_irq_in    handler    applies a command, drives the power lines    *)
(*   sps_ping      periodic   pings the machines, detects the frozen ones  *)
(*   sps_irq_out   handler    forwards a status report to the host         *)
(*   target i      periodic   answers pings, obeys its power line, freezes *)
(*                                                                         *)
(* A step is what a thread does between two points where another thread    *)
(* can see the difference: one mailbox operation, one mutex operation, or  *)
(* one access to an unguarded shared variable.  Nothing here limits how    *)
(* the steps interleave or when a periodic job starts; SpsTimed adds the   *)
(* periods.  Mailboxes and mutexes behave as RtMailbox and RtMutex show.   *)
(***************************************************************************)
EXTENDS Integers, Sequences, FiniteSets

CONSTANTS
  NumTargets,      \* SPS_NUM_TARGETS, 4 in main.h
  PongCount,       \* SPS_PONG_COUNT, 3 in sps.c
  PongRange,       \* number of values of the rt_uint8_t counter, 256
  PingAckSize,     \* capacity of mb_ping_ack, sizeof(rt_uint32_t) = 4
  PingIrqSize      \* capacity of mb_ping_irq, sizeof(rt_uint32_t) = 4

ASSUME SpsAssumption ==
  /\ NumTargets \in Nat \ {0}
  /\ PongCount \in Nat \ {0}
  /\ PongRange \in Nat /\ PongCount < PongRange
  /\ PingAckSize \in Nat \ {0}
  /\ PingIrqSize \in Nat \ {0}

Targets == 0 .. NumTargets - 1

\* enum sps_pwr_status
SPS_OFF == 0
SPS_ON == 1
SPS_FROZEN == 2
PowerStatus == {SPS_OFF, SPS_ON, SPS_FROZEN}

\* A mail on irq_in, irq_out and mb_ping_irq is a word with one bit per
\* machine; it is modelled by the set of machines whose bit is 1.
StatusWord == SUBSET Targets

VARIABLES
  host_targets,    \* host->targets
  host_mutex,      \* owner of host->target_mutex
  sps_targets,     \* sps->targets
  sps_mutex,       \* owner of sps->target_mutex
  targets_pong,    \* sps->targets_pong
  status,          \* target[i].status
  irq_in, irq_out, mb_ping_irq, mb_ping_ack,   \* shared mailboxes
  mb_ping, gpio,   \* mailboxes of each machine
  pc,              \* where each host and SPS thread is
  tpc,             \* where each machine's thread is
  mail,            \* local word of a thread: targets, msg_targets_status
  changed,         \* action_thread's local flag
  ping_i, irq_i    \* loop indices of ping_thread and irq_in_handler

hostVars   == <<host_targets, host_mutex, changed>>
spsVars    == <<sps_targets, sps_mutex, targets_pong, ping_i, irq_i>>
targetVars == <<status, tpc>>
mailboxes  == <<irq_in, irq_out, mb_ping_irq, mb_ping_ack, mb_ping, gpio>>
vars == <<hostVars, spsVars, targetVars, mailboxes, pc, mail>>

NoOwner == "none"
Threads == {"host_action", "host_irq_out", "sps_irq_in", "sps_ping", "sps_irq_out"}

Goto(t, label) == pc' = [pc EXCEPT ![t] = label]

(***************************************************************************)
(* Kernel operations as the application uses them.                         *)
(***************************************************************************)

\* rt_mb_send: the mailbox after a non-blocking send; a full one is left
\* alone and the call returns -RT_EFULL, which no caller acts upon.
Sent(mb, size, m) == IF Len(mb) < size THEN Append(mb, m) ELSE mb

\* Mutant of Take: a call on a busy mutex returns RT_EOK without ownership.
TakeWithoutWaiting(mutex, t) == mutex' = IF mutex = NoOwner THEN t ELSE mutex

\* rt_mutex_take(.., RT_WAITING_FOREVER) when it returns RT_EOK.
Take(mutex, t) == mutex = NoOwner /\ mutex' = t

\* rt_mutex_release: only the owner's call has an effect.
Release(mutex, t) == mutex' = IF mutex = t THEN NoOwner ELSE mutex

-----------------------------------------------------------------------------
(***************************************************************************)
(* host.c: action_thread, one job per period.                              *)
(***************************************************************************)
ActionTake ==
  /\ pc["host_action"] = "idle"
  /\ Take(host_mutex, "host_action")
  /\ Goto("host_action", "toggle")
  /\ UNCHANGED <<host_targets, changed, spsVars, targetVars, mailboxes, mail>>

\* Each machine is toggled with probability 1/10: any set of them may be.
ActionToggle ==
  /\ pc["host_action"] = "toggle"
  /\ \E flipped \in SUBSET Targets :
       LET new == [i \in Targets |->
                     IF i \notin flipped THEN host_targets[i]
                     ELSE IF host_targets[i] = SPS_OFF THEN SPS_ON ELSE SPS_OFF]
       IN  /\ host_targets' = new
           /\ changed' = IF flipped # {} THEN 1 ELSE 0
           /\ mail' = [mail EXCEPT !["host_action"] = {i \in Targets : new[i] = SPS_ON}]
  /\ Goto("host_action", "release")
  /\ UNCHANGED <<host_mutex, spsVars, targetVars, mailboxes>>

ActionRelease ==
  /\ pc["host_action"] = "release"
  /\ Release(host_mutex, "host_action")
  /\ Goto("host_action", IF changed = 1 THEN "send" ELSE "idle")
  /\ mail' = IF changed = 1 THEN mail ELSE [mail EXCEPT !["host_action"] = {}]
  /\ UNCHANGED <<host_targets, changed, spsVars, targetVars, mailboxes>>

ActionSend ==
  /\ pc["host_action"] = "send"
  /\ irq_in' = Sent(irq_in, 1, mail["host_action"])
  /\ changed' = 0
  /\ mail' = [mail EXCEPT !["host_action"] = {}]
  /\ Goto("host_action", "idle")
  /\ UNCHANGED <<host_targets, host_mutex, spsVars, targetVars,
                 irq_out, mb_ping_irq, mb_ping_ack, mb_ping, gpio>>

(***************************************************************************)
(* host.c: feedback_irq_out.                                               *)
(***************************************************************************)
FeedbackRecv ==
  /\ pc["host_irq_out"] = "idle"
  /\ irq_out # <<>>
  /\ mail' = [mail EXCEPT !["host_irq_out"] = Head(irq_out)]
  /\ irq_out' = Tail(irq_out)
  /\ Goto("host_irq_out", "take")
  /\ UNCHANGED <<hostVars, spsVars, targetVars,
                 irq_in, mb_ping_irq, mb_ping_ack, mb_ping, gpio>>

FeedbackTake ==
  /\ pc["host_irq_out"] = "take"
  /\ Take(host_mutex, "host_irq_out")
  /\ Goto("host_irq_out", "update")
  /\ UNCHANGED <<host_targets, changed, spsVars, targetVars, mailboxes, mail>>

\* Mutant of DisplayAfter: the loop over the machines starts at 1.
DisplayAfterSkippingFirst(word) ==
  [i \in Targets |-> IF i # 0 /\ i \notin word /\ host_targets[i] = SPS_ON
                     THEN SPS_FROZEN ELSE host_targets[i]]

\* A machine displayed as on whose bit is 0 is DOWN.
DisplayAfter(word) ==
  [i \in Targets |-> IF i \notin word /\ host_targets[i] = SPS_ON
                     THEN SPS_FROZEN ELSE host_targets[i]]

FeedbackUpdate ==
  /\ pc["host_irq_out"] = "update"
  /\ host_targets' = DisplayAfter(mail["host_irq_out"])
  /\ Goto("host_irq_out", "release")
  /\ UNCHANGED <<host_mutex, changed, spsVars, targetVars, mailboxes, mail>>

FeedbackRelease ==
  /\ pc["host_irq_out"] = "release"
  /\ Release(host_mutex, "host_irq_out")
  /\ mail' = [mail EXCEPT !["host_irq_out"] = {}]
  /\ Goto("host_irq_out", "idle")
  /\ UNCHANGED <<host_targets, changed, spsVars, targetVars, mailboxes>>

-----------------------------------------------------------------------------
(***************************************************************************)
(* sps.c: irq_in_handler.                                                  *)
(***************************************************************************)
IrqInRecv ==
  /\ pc["sps_irq_in"] = "idle"
  /\ irq_in # <<>>
  /\ mail' = [mail EXCEPT !["sps_irq_in"] = Head(irq_in)]
  /\ irq_in' = Tail(irq_in)
  /\ Goto("sps_irq_in", "take")
  /\ UNCHANGED <<hostVars, spsVars, targetVars,
                 irq_out, mb_ping_irq, mb_ping_ack, mb_ping, gpio>>

IrqInTake ==
  /\ pc["sps_irq_in"] = "take"
  /\ Take(sps_mutex, "sps_irq_in")
  /\ irq_i' = 0
  /\ Goto("sps_irq_in", "apply")
  /\ UNCHANGED <<hostVars, sps_targets, targets_pong, ping_i, targetVars, mailboxes, mail>>

\* Mutant of NewTarget: the bit of the next machine is read.
NewTargetShifted == IF irq_i + 1 \in mail["sps_irq_in"] THEN SPS_ON ELSE SPS_OFF

\* The command for the machine the loop is at.
NewTarget == IF irq_i \in mail["sps_irq_in"] THEN SPS_ON ELSE SPS_OFF

\* One iteration: nothing for a machine already as commanded (a frozen one
\* counts as on), otherwise drive its line ...
IrqInDrive ==
  /\ pc["sps_irq_in"] = "apply"
  /\ irq_i < NumTargets
  /\ IF (NewTarget = SPS_ON) = (sps_targets[irq_i] # SPS_OFF)
     THEN irq_i' = irq_i + 1 /\ UNCHANGED <<gpio, pc>>
     ELSE /\ gpio' = [gpio EXCEPT ![irq_i] = Sent(@, 1, NewTarget)]
          /\ Goto("sps_irq_in", "record")
          /\ UNCHANGED irq_i
  /\ UNCHANGED <<hostVars, sps_targets, sps_mutex, targets_pong, ping_i, targetVars,
                 irq_in, irq_out, mb_ping_irq, mb_ping_ack, mb_ping, mail>>

\* ... and record the new status, whether or not the line took the mail.
IrqInRecord ==
  /\ pc["sps_irq_in"] = "record"
  /\ sps_targets' = [sps_targets EXCEPT ![irq_i] = NewTarget]
  /\ irq_i' = irq_i + 1
  /\ Goto("sps_irq_in", "apply")
  /\ UNCHANGED <<hostVars, sps_mutex, targets_pong, ping_i, targetVars, mailboxes, mail>>

IrqInRelease ==
  /\ pc["sps_irq_in"] = "apply"
  /\ irq_i = NumTargets
  /\ Release(sps_mutex, "sps_irq_in")
  /\ irq_i' = 0
  /\ mail' = [mail EXCEPT !["sps_irq_in"] = {}]
  /\ Goto("sps_irq_in", "idle")
  /\ UNCHANGED <<hostVars, sps_targets, targets_pong, ping_i, targetVars, mailboxes>>

(***************************************************************************)
(* sps.c: irq_out_handler.                                                 *)
(***************************************************************************)
IrqOutRecv ==
  /\ pc["sps_irq_out"] = "idle"
  /\ mb_ping_irq # <<>>
  /\ mail' = [mail EXCEPT !["sps_irq_out"] = Head(mb_ping_irq)]
  /\ mb_ping_irq' = Tail(mb_ping_irq)
  /\ Goto("sps_irq_out", "send")
  /\ UNCHANGED <<hostVars, spsVars, targetVars,
                 irq_in, irq_out, mb_ping_ack, mb_ping, gpio>>

\* The result of this send is not even stored: a full irq_out drops the
\* report silently.
IrqOutSend ==
  /\ pc["sps_irq_out"] = "send"
  /\ irq_out' = Sent(irq_out, 1, mail["sps_irq_out"])
  /\ mail' = [mail EXCEPT !["sps_irq_out"] = {}]
  /\ Goto("sps_irq_out", "idle")
  /\ UNCHANGED <<hostVars, spsVars, targetVars,
                 irq_in, mb_ping_irq, mb_ping_ack, mb_ping, gpio>>

-----------------------------------------------------------------------------
(***************************************************************************)
(* sps.c: ping_thread, one job per period.                                 *)
(***************************************************************************)
PingStart ==
  /\ pc["sps_ping"] = "idle"
  /\ ping_i' = 0
  /\ Goto("sps_ping", "scan")
  /\ UNCHANGED <<hostVars, sps_targets, sps_mutex, targets_pong, irq_i,
                 targetVars, mailboxes, mail>>

\* Send loop, the test of sps->targets[i]: read without the mutex.
PingScan ==
  /\ pc["sps_ping"] = "scan"
  /\ IF ping_i = NumTargets
     THEN Goto("sps_ping", "drain") /\ ping_i' = 0
     ELSE IF sps_targets[ping_i] = SPS_ON
          THEN Goto("sps_ping", "send") /\ UNCHANGED ping_i
          ELSE ping_i' = ping_i + 1 /\ UNCHANGED pc
  /\ UNCHANGED <<hostVars, sps_targets, sps_mutex, targets_pong, irq_i,
                 targetVars, mailboxes, mail>>

\* Send loop, the body: count the ping, then mail it.
PingSend ==
  /\ pc["sps_ping"] = "send"
  /\ targets_pong' = [targets_pong EXCEPT ![ping_i] = (@ + 1) % PongRange]
  /\ mb_ping' = [mb_ping EXCEPT ![ping_i] = Sent(@, 1, 1)]
  /\ ping_i' = ping_i + 1
  /\ Goto("sps_ping", "scan")
  /\ UNCHANGED <<hostVars, sps_targets, sps_mutex, irq_i, targetVars,
                 irq_in, irq_out, mb_ping_irq, mb_ping_ack, gpio, mail>>

\* Mutant of PingDrain: an if instead of a loop, one answer per job.
PingDrainOne ==
  /\ pc["sps_ping"] = "drain"
  /\ Goto("sps_ping", "take")
  /\ IF mb_ping_ack = <<>>
     THEN UNCHANGED <<mb_ping_ack, targets_pong>>
     ELSE /\ mb_ping_ack' = Tail(mb_ping_ack)
          /\ targets_pong' = [targets_pong EXCEPT ![Head(mb_ping_ack)] = 0]
  /\ UNCHANGED <<hostVars, sps_targets, sps_mutex, ping_i, irq_i, targetVars,
                 irq_in, irq_out, mb_ping_irq, mb_ping, gpio, mail>>

\* Read loop: one answer, or the end of the loop when there is none.  Only
\* this thread receives from mb_ping_ack, so the receive cannot fail.
PingDrain ==
  /\ pc["sps_ping"] = "drain"
  /\ IF mb_ping_ack = <<>>
     THEN Goto("sps_ping", "take") /\ UNCHANGED <<mb_ping_ack, targets_pong>>
     ELSE /\ mb_ping_ack' = Tail(mb_ping_ack)
          /\ targets_pong' = [i \in Targets |->
                                IF i = Head(mb_ping_ack) THEN 0 ELSE targets_pong[i]]
          /\ UNCHANGED pc
  /\ UNCHANGED <<hostVars, sps_targets, sps_mutex, ping_i, irq_i, targetVars,
                 irq_in, irq_out, mb_ping_irq, mb_ping, gpio, mail>>

PingTake ==
  /\ pc["sps_ping"] = "take"
  /\ Take(sps_mutex, "sps_ping")
  /\ Goto("sps_ping", "evaluate")
  /\ UNCHANGED <<hostVars, sps_targets, targets_pong, ping_i, irq_i,
                 targetVars, mailboxes, mail>>

\* Mutants of Unresponsive: the status of the machine is not looked at
\* again under the mutex; the comparison is off by one either way.
UnresponsiveWhateverStatus == {i \in Targets : targets_pong[i] >= PongCount}
UnresponsiveTooLate == {i \in Targets : sps_targets[i] = SPS_ON /\ targets_pong[i] > PongCount}
UnresponsiveTooEarly == {i \in Targets : sps_targets[i] = SPS_ON /\ targets_pong[i] >= PongCount - 1}

\* Machines on record as on that left PongCount pings unanswered.
Unresponsive == {i \in Targets : sps_targets[i] = SPS_ON /\ targets_pong[i] >= PongCount}

\* Mutant of Report: has_changed is not tested.
ReportAlways(down, up) == Sent(mb_ping_irq, PingIrqSize, up)

\* Mutant of Report: the bits of the word are counted from 1.
ReportShifted(down, up) ==
  IF down # {} THEN Sent(mb_ping_irq, PingIrqSize, {i + 1 : i \in up}) ELSE mb_ping_irq

\* mb_ping_irq after the report: a mail only when a machine changed.
Report(down, up) == IF down # {} THEN Sent(mb_ping_irq, PingIrqSize, up) ELSE mb_ping_irq

\* The loop over the machines under the mutex, and the report to
\* irq_out_handler, sent before the mutex is released.
PingEvaluate ==
  /\ pc["sps_ping"] = "evaluate"
  /\ LET down == Unresponsive
         up == {i \in Targets : sps_targets[i] = SPS_ON} \ down
     IN  /\ sps_targets' = [i \in Targets |-> IF i \in down THEN SPS_FROZEN ELSE sps_targets[i]]
         /\ targets_pong' = [i \in Targets |-> IF i \in down THEN 0 ELSE targets_pong[i]]
         /\ mb_ping_irq' = Report(down, up)
  /\ Goto("sps_ping", "release")
  /\ UNCHANGED <<hostVars, sps_mutex, ping_i, irq_i, targetVars,
                 irq_in, irq_out, mb_ping_ack, mb_ping, gpio, mail>>

PingRelease ==
  /\ pc["sps_ping"] = "release"
  /\ Release(sps_mutex, "sps_ping")
  /\ Goto("sps_ping", "idle")
  /\ UNCHANGED <<hostVars, sps_targets, targets_pong, ping_i, irq_i,
                 targetVars, mailboxes, mail>>

-----------------------------------------------------------------------------
(***************************************************************************)
(* target.c: simulation_thread_entry, one job per period.                  *)
(***************************************************************************)

\* Read a ping if there is one.  Only this thread receives from mb_ping[i].
TargetPing(i) ==
  /\ tpc[i] = "idle"
  /\ IF mb_ping[i] = <<>>
     THEN /\ tpc' = [tpc EXCEPT ![i] = "gpio"]
          /\ UNCHANGED mb_ping
     ELSE /\ tpc' = [tpc EXCEPT ![i] = IF Head(mb_ping[i]) = 1 /\ status[i] = SPS_ON
                                       THEN "ack" ELSE "gpio"]
          /\ mb_ping' = [mb_ping EXCEPT ![i] = Tail(@)]
  /\ UNCHANGED <<hostVars, spsVars, status,
                 irq_in, irq_out, mb_ping_irq, mb_ping_ack, gpio, pc, mail>>

\* Answer with the machine's own number; a full mailbox drops the answer.
TargetAck(i) ==
  /\ tpc[i] = "ack"
  /\ mb_ping_ack' = Sent(mb_ping_ack, PingAckSize, i)
  /\ tpc' = [tpc EXCEPT ![i] = "gpio"]
  /\ UNCHANGED <<hostVars, spsVars, status,
                 irq_in, irq_out, mb_ping_irq, mb_ping, gpio, pc, mail>>

\* Mutant of NextStatus: a frozen machine does not obey its power line.
NextStatusDeafWhenFrozen(s, line) ==
  IF s = SPS_ON /\ line = <<SPS_OFF>> THEN {SPS_OFF}
  ELSE IF s = SPS_OFF /\ line = <<SPS_ON>> THEN {SPS_ON}
  ELSE IF s = SPS_ON THEN {SPS_ON, SPS_FROZEN}
  ELSE {s}

\* The statuses a machine may be in after reading its power line, where
\* line is <<>> when there is no command.  A running machine that is not
\* switched off may freeze; a frozen one only obeys a power-off.
NextStatus(s, line) ==
  IF s # SPS_OFF /\ line = <<SPS_OFF>> THEN {SPS_OFF}
  ELSE IF s = SPS_OFF /\ line = <<SPS_ON>> THEN {SPS_ON}
  ELSE IF s = SPS_ON THEN {SPS_ON, SPS_FROZEN}
  ELSE {s}

TargetGpio(i) ==
  /\ tpc[i] = "gpio"
  /\ \E s \in NextStatus(status[i], gpio[i]) : status' = [status EXCEPT ![i] = s]
  /\ gpio' = [gpio EXCEPT ![i] = <<>>]
  /\ tpc' = [tpc EXCEPT ![i] = "idle"]
  /\ UNCHANGED <<hostVars, spsVars,
                 irq_in, irq_out, mb_ping_irq, mb_ping_ack, mb_ping, pc, mail>>

-----------------------------------------------------------------------------
\* After main has run: every structure is zeroed static data, every mailbox
\* is new, every machine is off.
Init ==
  /\ host_targets = [i \in Targets |-> SPS_OFF]
  /\ host_mutex = NoOwner
  /\ sps_targets = [i \in Targets |-> SPS_OFF]
  /\ sps_mutex = NoOwner
  /\ targets_pong = [i \in Targets |-> 0]
  /\ status = [i \in Targets |-> SPS_OFF]
  /\ irq_in = <<>> /\ irq_out = <<>> /\ mb_ping_irq = <<>> /\ mb_ping_ack = <<>>
  /\ mb_ping = [i \in Targets |-> <<>>]
  /\ gpio = [i \in Targets |-> <<>>]
  /\ pc = [t \in Threads |-> "idle"]
  /\ tpc = [i \in Targets |-> "idle"]
  /\ mail = [t \in Threads |-> {}]
  /\ changed = 0
  /\ ping_i = 0
  /\ irq_i = 0

\* Steps of a job under way, and of the handlers.
HostStep == \/ ActionToggle \/ ActionRelease \/ ActionSend
            \/ FeedbackRecv \/ FeedbackTake \/ FeedbackUpdate \/ FeedbackRelease
SpsStep  == \/ IrqInRecv \/ IrqInTake \/ IrqInDrive \/ IrqInRecord \/ IrqInRelease
            \/ IrqOutRecv \/ IrqOutSend
            \/ PingScan \/ PingSend \/ PingDrain
            \/ PingTake \/ PingEvaluate \/ PingRelease
TargetStep(i) == TargetAck(i) \/ TargetGpio(i)

Next ==
  \/ ActionTake \/ HostStep
  \/ PingStart \/ SpsStep
  \/ \E i \in Targets : TargetPing(i) \/ TargetStep(i)

Spec == Init /\ [][Next]_vars

-----------------------------------------------------------------------------
Labels == {"idle", "toggle", "release", "send", "take", "update", "apply", "record",
           "scan", "drain", "evaluate"}

Mailbox(S, size) == {q \in Seq(S) : Len(q) <= size}

StatusType ==
  /\ host_targets \in [Targets -> PowerStatus]
  /\ host_mutex \in {NoOwner, "host_action", "host_irq_out"}
  /\ sps_targets \in [Targets -> PowerStatus]
  /\ sps_mutex \in {NoOwner, "sps_irq_in", "sps_ping"}
  /\ targets_pong \in [Targets -> 0 .. PongRange - 1]
  /\ status \in [Targets -> PowerStatus]

MailboxType ==
  /\ irq_in \in Mailbox(StatusWord, 1)
  /\ irq_out \in Mailbox(StatusWord, 1)
  /\ mb_ping_irq \in Mailbox(StatusWord, PingIrqSize)
  /\ mb_ping_ack \in Mailbox(Targets, PingAckSize)
  /\ mb_ping \in [Targets -> Mailbox({1}, 1)]
  /\ gpio \in [Targets -> Mailbox({SPS_OFF, SPS_ON}, 1)]

ThreadType ==
  /\ pc \in [Threads -> Labels]
  /\ pc["host_action"] \in {"idle", "toggle", "release", "send"}
  /\ pc["host_irq_out"] \in {"idle", "take", "update", "release"}
  /\ pc["sps_irq_in"] \in {"idle", "take", "apply", "record"}
  /\ pc["sps_ping"] \in {"idle", "scan", "send", "drain", "take", "evaluate", "release"}
  /\ pc["sps_irq_out"] \in {"idle", "send"}
  /\ tpc \in [Targets -> {"idle", "ack", "gpio"}]
  /\ mail \in [Threads -> StatusWord]
  /\ changed \in {0, 1}
  /\ ping_i \in 0 .. NumTargets
  /\ irq_i \in 0 .. NumTargets

\* Every variable keeps its C type and no mailbox holds more mails than it
\* was created with (rt_mb_create in __sps_init_mailboxes).
TypeOK == StatusType /\ MailboxType /\ ThreadType

\* Threads inside the section that reads and writes host->targets.
InHostSection == {t \in {"host_action", "host_irq_out"} :
                    pc[t] \in {"toggle", "update", "release"}}

\* Threads inside the section that reads and writes sps->targets.
InSpsSection == {t \in {"sps_irq_in", "sps_ping"} :
                   pc[t] \in {"apply", "record", "evaluate", "release"}}

\* target_mutex "guards the targets" (host.h, sps.h): a thread that updates
\* the power statuses of the host or of the SPS owns the mutex of that
\* structure, so no two threads update them at once.
TargetsGuarded ==
  /\ \A t \in InHostSection : host_mutex = t
  /\ \A t \in InSpsSection : sps_mutex = t

\* Status reports on their way from ping_thread to feedback_irq_out.
ReportsInFlight ==
  {mb_ping_irq[k] : k \in 1 .. Len(mb_ping_irq)}
    \cup {irq_out[k] : k \in 1 .. Len(irq_out)}
    \cup (IF pc["sps_irq_out"] = "send" THEN {mail["sps_irq_out"]} ELSE {})
    \cup (IF pc["host_irq_out"] \in {"take", "update"} THEN {mail["host_irq_out"]} ELSE {})

\* ping_thread mails a report only when it has just found a machine frozen,
\* and neither irq_out_handler nor the two mailboxes turn a report into
\* another: whatever feedback_irq_out receives names at least one machine
\* as not running.
ReportsNameAFailure == \A w \in ReportsInFlight : w # Targets

\* sps->targets[i] leaves OFF only for ON, and becomes FROZEN only from ON:
\* in particular a machine that irq_in_handler has switched off is not
\* declared frozen by a ping job that was already under way.
PowerTransitions ==
  [][\A i \in Targets :
        sps_targets'[i] # sps_targets[i] =>
          <<sps_targets[i], sps_targets'[i]>> \in
             {<<SPS_OFF, SPS_ON>>, <<SPS_ON, SPS_OFF>>,
              <<SPS_ON, SPS_FROZEN>>, <<SPS_FROZEN, SPS_OFF>>}]_sps_targets

=============================================================================
