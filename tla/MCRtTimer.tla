----------------------------- MODULE MCRtTimer ------------------------------
(***************************************************************************)
(* RtTimer for TLC: a timer that is one-shot or periodic and may expire at *)
(* once, and a periodic one that expires with every tick, on two cores.    *)
(***************************************************************************)
EXTENDS RtTimer, TLC

CONSTANTS t1, t2
MCTimers == {t1, t2}
MCSettings == (t1 :> {Setting(0, FALSE), Setting(2, FALSE), Setting(2, TRUE)})
           @@ (t2 :> {Setting(1, TRUE)})

=============================================================================
