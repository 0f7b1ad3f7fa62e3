------------------------------ MODULE SpsTimed ------------------------------
(***************************************************************************)
(* The application under the periods it is started with.  rt_timer_check   *)
(* releases a job of each periodic thread every period ticks:              *)
(*                                                                         *)
(*   host_action  SPS_HOST_ACTION_PERIOD = 500     (host.h)                *)
(*   sps_ping     SPS_PING_PERIOD = 100            (sps.c)                 *)
(*   target i     rand() % 100, at least 10: 10..99  (target_init)         *)
(*                                                                         *)
(* A tick (10 ms) is long compared with a job, so all the jobs released in *)
(* a tick, and the handlers they wake, are done before the next release;   *)
(* within a tick they interleave freely on the two cores.  What the        *)
(* periods leave of time is                                                *)
(*   - between two ping releases every target is released at least once,   *)
(*     because its period is shorter;                                      *)
(*   - ActionPings = 500 / 100 ping releases from one host release to the  *)
(*     next.  sps_start and host_start arm both timers in the same tick or *)
(*     a few apart, so the two are released together or one after another. *)
(***************************************************************************)
EXTENDS Sps

CONSTANT ActionPings   \* SPS_HOST_ACTION_PERIOD / SPS_PING_PERIOD

\* The code has 500 / 100.
ASSUME ActionPingsAssumption == ActionPings \in Nat /\ ActionPings > 1

VARIABLES
  due,        \* host and SPS jobs released and not begun
  due_target, \* machines whose job is released and not begun
  served,     \* machines released since the last ping release
  pings       \* ping releases since the last host release

timing == <<due, due_target, served, pings>>
timedVars == <<vars, timing>>

\* Nothing is left to do until the next release.
Settled ==
  /\ due = {} /\ due_target = {}
  /\ \A t \in Threads : pc[t] = "idle"
  /\ \A i \in Targets : tpc[i] = "idle"
  /\ irq_in = <<>> /\ irq_out = <<>> /\ mb_ping_irq = <<>>

\* rt_timer_check finds the period timers of these threads expired.  It takes
\* place in Settled states only.
Tick(jobs, machines) ==
  LET n == IF "sps_ping" \in jobs THEN pings + 1 ELSE pings
  IN  /\ jobs # {} \/ machines # {}
      /\ "sps_ping" \in jobs => served = Targets
      /\ n <= ActionPings
      /\ "host_action" \in jobs => n = ActionPings
      /\ due' = jobs
      /\ due_target' = machines
      /\ served' = IF "sps_ping" \in jobs THEN {} ELSE served \cup machines
      /\ pings' = IF "host_action" \in jobs THEN 0 ELSE n
      /\ UNCHANGED vars

BeginAction ==
  /\ "host_action" \in due
  /\ ActionTake
  /\ due' = due \ {"host_action"}
  /\ UNCHANGED <<due_target, served, pings>>

BeginPing ==
  /\ "sps_ping" \in due
  /\ PingStart
  /\ due' = due \ {"sps_ping"}
  /\ UNCHANGED <<due_target, served, pings>>

BeginTarget(i) ==
  /\ i \in due_target
  /\ TargetPing(i)
  /\ due_target' = due_target \ {i}
  /\ UNCHANGED <<due, served, pings>>

TimedInit ==
  /\ Init
  /\ due = {} /\ due_target = {} /\ served = {}
  /\ pings = 0

Jobs == {"host_action", "sps_ping"}
AnyTick == Settled /\ \E jobs \in SUBSET Jobs, machines \in SUBSET Targets : Tick(jobs, machines)
JobTick(job) == Settled /\ \E jobs \in SUBSET Jobs, machines \in SUBSET Targets :
                             job \in jobs /\ Tick(jobs, machines)
TargetTick(i) == Settled /\ \E jobs \in SUBSET Jobs, machines \in SUBSET Targets :
                              i \in machines /\ Tick(jobs, machines)

TimedNext ==
  \/ AnyTick
  \/ BeginAction
  \/ BeginPing
  \/ \E i \in Targets : BeginTarget(i)
  \/ HostStep /\ UNCHANGED timing
  \/ SpsStep /\ UNCHANGED timing
  \/ \E i \in Targets : TargetStep(i) /\ UNCHANGED timing

TimedSpec == TimedInit /\ [][TimedNext]_timedVars

\* The scheduler runs every ready thread, and the timer interrupt of each
\* core never stops expiring the period timers, which rt_timer_check starts
\* again after each expiry: a thread whose period can elapse again and again
\* is released again and again.
Fairness ==
  /\ WF_timedVars(TimedNext)
  /\ SF_timedVars(JobTick("host_action"))
  /\ SF_timedVars(JobTick("sps_ping"))
  /\ \A i \in Targets : SF_timedVars(TargetTick(i))

-----------------------------------------------------------------------------
\* irq_in_handler ignores the result of rt_mb_send on a power line of
\* capacity one and records the new status regardless.  Under the periods
\* the line is always empty by then: once a machine has read its line it is
\* off exactly when sps->targets says so.
PowerLineAgrees ==
  Settled => \A i \in Targets :
    gpio[i] = <<>> => (status[i] = SPS_OFF <=> sps_targets[i] = SPS_OFF)

\* The host displays as on (host->targets) only machines the SPS has on
\* record as running, although its display is updated before the command is
\* even sent and freezes are reported through two mailboxes that may drop
\* them.
DisplayedOnIsOn ==
  Settled => \A i \in Targets : host_targets[i] = SPS_ON => sps_targets[i] = SPS_ON

\* No machine ever has more than two answers waiting in mb_ping_ack: the one
\* to the previous ping, and the one to a ping of the job that is about to
\* read them.  A capacity of two per machine would never lose an answer; the
\* code has one per machine.
AckBacklog ==
  \A i \in Targets : Cardinality({k \in 1 .. Len(mb_ping_ack) : mb_ping_ack[k] = i}) <= 2

\* README: the host "displays the power status of all target machines".  A
\* machine displayed as down is not one the SPS has on record as running.
DisplayedDownIsDown ==
  Settled => \A i \in Targets : host_targets[i] = SPS_FROZEN => sps_targets[i] # SPS_ON

\* README: the SPS "is able to detect unresponsive machines and send
\* feedback to the user": a machine that freezes does not stay displayed as
\* on.
FrozenIsDisplayed ==
  \A i \in Targets : status[i] = SPS_FROZEN ~> host_targets[i] # SPS_ON

\* A machine the user switches on comes up, unless the display has changed
\* again by then (the user switched it off, or it was reported down).
SwitchedOnComesUp ==
  \A i \in Targets : host_targets[i] = SPS_ON ~> (status[i] # SPS_OFF \/ host_targets[i] # SPS_ON)

=============================================================================
