----------------------------- MODULE Countdown ------------------------------
(***************************************************************************)
(* What the timers of RT-Thread promise: each running timer counts down    *)
(* with the ticks, its timeout function is called when its time is over,   *)
(* in the order of the deadlines, and no deadline is passed by more than a *)
(* bounded number of ticks.                                                *)
(***************************************************************************)
EXTENDS Integers

CONSTANTS Timers, NoTimer, MaxInit, MaxLate

VARIABLES
  left,      \* for each running timer the ticks it still has to wait; below
             \* 0 those it is overdue
  calling    \* the timer whose timeout function is being called, or NoTimer

Init == left = [t \in {} |-> 0] /\ calling = NoTimer

\* A tick passes, unless a timer would be overdue by more than it may be.
Tick ==
  /\ \A t \in DOMAIN left : left[t] >= - MaxLate
  /\ left' = [t \in DOMAIN left |-> left[t] - 1]
  /\ UNCHANGED calling

Without(t) == [u \in DOMAIN left \ {t} |-> left[u]]

\* A timer begins to run, perhaps a little late.
Start(t, n) ==
  /\ left' = [u \in DOMAIN left \cup {t} |-> IF u = t THEN n ELSE left[u]]
  /\ UNCHANGED calling

Stop(t) == left' = Without(t) /\ UNCHANGED calling

\* The time of a timer is over, and no other has waited longer.
Expire(t) ==
  /\ t \in DOMAIN left /\ left[t] <= 0
  /\ \A u \in DOMAIN left : left[t] <= left[u]
  /\ left' = Without(t)
  /\ calling = NoTimer /\ calling' = t

Return == calling # NoTimer /\ calling' = NoTimer /\ UNCHANGED left

Next ==
  \/ Tick
  \/ Return
  \/ \E t \in Timers : \/ \E n \in - MaxLate .. MaxInit : Start(t, n)
                       \/ Stop(t)
                       \/ Expire(t)

Spec == Init /\ [][Next]_<<left, calling>>

=============================================================================
