----------------------------- MODULE SpsVerdict -----------------------------
(***************************************************************************)
(* History of the SPS's verdicts on the machines, on top of SpsTimed: how  *)
(* long a frozen machine goes unnoticed, and whether the counter of        *)
(* missing answers was 0 when a machine was switched on.  The history      *)
(* variables only record; they restrict no step.                           *)
(***************************************************************************)
EXTENDS SpsTimed

VARIABLES
  unnoticed,  \* ping jobs that found machine i running while it was frozen
  clean       \* targets_pong[i] was 0 when sps->targets[i] last became ON

history == <<unnoticed, clean>>
verdictVars == <<timedVars, history>>

Evaluated == pc["sps_ping"] = "evaluate" /\ pc'["sps_ping"] = "release"

Record ==
  /\ unnoticed' = [i \in Targets |->
       IF status'[i] # SPS_FROZEN \/ sps_targets'[i] # SPS_ON THEN 0
       ELSE IF Evaluated THEN unnoticed[i] + 1 ELSE unnoticed[i]]
  /\ clean' = [i \in Targets |->
       IF sps_targets[i] = SPS_OFF /\ sps_targets'[i] = SPS_ON
       THEN targets_pong[i] = 0 ELSE clean[i]]

VerdictInit ==
  /\ TimedInit
  /\ unnoticed = [i \in Targets |-> 0]
  /\ clean = [i \in Targets |-> TRUE]

VerdictNext == TimedNext /\ Record

VerdictSpec == VerdictInit /\ [][VerdictNext]_verdictVars

FairVerdictSpec == VerdictSpec /\ Fairness

-----------------------------------------------------------------------------
\* ping_thread overlooks a frozen machine in at most PongCount + 1 jobs
\* (four seconds): the answer to the last ping before the freeze may be read
\* one job late and clears the count once more.
DetectionBound == \A i \in Targets : unnoticed[i] <= PongCount + 1

\* sps.c: a machine that ping_thread gives up is "known to be on but it's
\* not responding to the SPS's ping".
VerdictIsTrue ==
  pc["sps_ping"] = "evaluate" => \A i \in Unresponsive : status[i] = SPS_FROZEN

\* The same for the machines whose counter was 0 when they were switched on:
\* for them the time to boot and the job by which an answer is read late do
\* not use up the PongCount pings.
CleanVerdictIsTrue ==
  pc["sps_ping"] = "evaluate" =>
    \A i \in Unresponsive : clean[i] => status[i] = SPS_FROZEN

=============================================================================
