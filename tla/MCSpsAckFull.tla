---------------------------- MODULE MCSpsAckFull ----------------------------
(***************************************************************************)
(* Some of the behaviours of SpsVerdict with the four machines and the     *)
(* four places in mb_ping_ack of the code: the user switches all machines  *)
(* on, none of them freezes, and the timers release the jobs as in Script. *)
(* Within a tick all interleavings remain.  What these behaviours violate  *)
(* SpsVerdict violates.                                                    *)
(*                                                                         *)
(* The last seven ticks of the script are those of the periods 75, 80, 80  *)
(* and 50, which target_init can draw, when all timers are armed in one    *)
(* tick: sps_ping is released at 1400, 1500, 1600 and 1700, machine 0      *)
(* shares a tick with it at 1500, machines 1 and 2 at 1600, and machine 3  *)
(* each time.  Other releases of the machines find no ping and change      *)
(* nothing.                                                                *)
(***************************************************************************)
EXTENDS SpsVerdict

VARIABLE played   \* ticks of the script so far

Idle == <<{}, Targets>>
Ping(machines) == <<{"sps_ping"}, machines>>
Quiet == <<Idle, Ping({})>>
Script == Quiet \o Quiet \o Quiet \o Quiet \o Quiet
          \o << <<{"host_action"}, {}>>, Idle,
                Ping({3}), Idle, Ping({0, 3}), Idle, Ping({1, 2, 3}), Idle, Ping({3}) >>

\* A step is a tick exactly when it changes what is due and nothing was.
Played ==
  IF due = {} /\ due_target = {} /\ <<due, due_target>>' # <<due, due_target>>
    THEN /\ played < Len(Script)
         /\ played' = played + 1
         /\ <<due, due_target>>' = Script[played + 1]
    ELSE played' = played

AllOn == [i \in Targets |-> SPS_ON]

ScriptNext ==
  /\ VerdictNext
  /\ Played
  /\ host_targets' # host_targets => host_targets' = AllOn
  /\ \A i \in Targets : status'[i] # SPS_FROZEN

ScriptSpec ==
  /\ VerdictInit /\ played = 0
  /\ [][ScriptNext]_<<verdictVars, played>>

=============================================================================
